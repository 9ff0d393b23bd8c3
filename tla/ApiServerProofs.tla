-------------------------- MODULE ApiServerProofs --------------------------
(***************************************************************************)
(* Theorems about ApiServer, for any number of submissions, every set of   *)
(* environments, bodies, limits and faults: what a status says of the      *)
(* table, what the limits and times of a configuration add up to, which    *)
(* hosts a webhook may name, and that a walk through the pages is          *)
(* complete.                                                               *)
(***************************************************************************)
EXTENDS ApiServer, FiniteSetTheorems, FunctionTheorems, SequenceTheorems, TLAPS

(* Of the checks, what matters to the answers is what they answer.         *)
LEMMA CheckStatuses ==
    ASSUME NEW c, NEW r
    PROVE  /\ DOMAIN Checks(c, r) = 1 .. 10
           /\ \A i \in 1 .. 10 : Checks(c, r)[i].status \in {400, 413}
BY DEF Checks

\* A set of checks that fail has a first one.
LEMMA FirstFails ==
    ASSUME NEW S \in SUBSET (1 .. 10), S # {}
    PROVE  Min(S) \in S /\ \A j \in S : Min(S) <= j
<1>1. \E i \in S : \A j \in S : i <= j
  <2> SUFFICES ASSUME \A i \in S : \E j \in S : j < i PROVE FALSE
    OBVIOUS
  <2>1. 1 \notin S
    OBVIOUS
  <2>2. 2 \notin S
    BY <2>1
  <2>3. 3 \notin S
    BY <2>1, <2>2
  <2>4. 4 \notin S
    BY <2>1, <2>2, <2>3
  <2>5. 5 \notin S
    BY <2>1, <2>2, <2>3, <2>4
  <2>6. 6 \notin S
    BY <2>1, <2>2, <2>3, <2>4, <2>5
  <2>7. 7 \notin S
    BY <2>1, <2>2, <2>3, <2>4, <2>5, <2>6
  <2>8. 8 \notin S
    BY <2>1, <2>2, <2>3, <2>4, <2>5, <2>6, <2>7
  <2>9. 9 \notin S
    BY <2>1, <2>2, <2>3, <2>4, <2>5, <2>6, <2>7, <2>8
  <2>10. 10 \notin S
    BY <2>1, <2>2, <2>3, <2>4, <2>5, <2>6, <2>7, <2>8, <2>9
  <2>11. \A i \in 1 .. 10 : i \notin S
    BY <2>1, <2>2, <2>3, <2>4, <2>5, <2>6, <2>7, <2>8, <2>9, <2>10
  <2> QED
    BY <2>11
<1> QED
  BY <1>1 DEF Min

LEMMA VerdictRange ==
    ASSUME NEW c, NEW r
    PROVE  Verdict(c, r) \in {Passes, 400, 413}
<1> DEFINE failing == {i \in DOMAIN Checks(c, r) : Checks(c, r)[i].fails}
<1>1. failing \in SUBSET (1 .. 10)
  BY CheckStatuses
<1>2. failing # {} => Min(failing) \in 1 .. 10
  BY <1>1, FirstFails
<1>3. Verdict(c, r) = IF failing = {} THEN Passes ELSE Checks(c, r)[Min(failing)].status
  BY DEF Verdict
<1> HIDE DEF failing
<1> QED
  BY <1>2, <1>3, CheckStatuses

LEMMA VerdictPasses ==
    ASSUME NEW c, NEW r
    PROVE  Verdict(c, r) = Passes <=> \A i \in 1 .. 10 : ~Checks(c, r)[i].fails
<1> DEFINE failing == {i \in DOMAIN Checks(c, r) : Checks(c, r)[i].fails}
<1>1. failing \in SUBSET (1 .. 10)
  BY CheckStatuses
<1>2. failing # {} => Min(failing) \in 1 .. 10
  BY <1>1, FirstFails
<1>3. Verdict(c, r) = IF failing = {} THEN Passes ELSE Checks(c, r)[Min(failing)].status
  BY DEF Verdict
<1>4. failing = {} <=> \A i \in 1 .. 10 : ~Checks(c, r)[i].fails
  BY CheckStatuses
<1> HIDE DEF failing
<1> QED
  BY <1>2, <1>3, <1>4, CheckStatuses DEF Passes

-----------------------------------------------------------------------------
(* What a status says of the table and of the submission just made.        *)
Truthful(code) ==
    /\ code = 202 => mine.enqueued = TRUE /\ mine.failed = FALSE
    /\ code \in {400, 404, 405, 413} => mine = NoRow
    /\ code = 404 /\ req.kind = "get" => req.id \notin DOMAIN rows

(* A status is truthful from the moment the handler decides on it, and     *)
(* nobody changes the table before it is on the wire.                      *)
AnswerInv ==
    /\ rows \in Seq(Nat)
    /\ mine \in [id : Nat, enqueued : BOOLEAN, failed : BOOLEAN]
    /\ mine = NoRow \/ mine.id \in DOMAIN rows
    /\ at \in {"boot", "down", "idle", "handle", "persist"} => mine = NoRow
    /\ at \in {"enqueue", "fail"} => mine.id \in DOMAIN rows
    /\ at = "enqueue" => mine.failed = FALSE
    /\ at \notin {"body", "log", "recover", "recovered"} => sent = None
    /\ at = "write" => Truthful(status)
    /\ at \in {"body", "log"} => recorded = sent
    /\ Truthful(sent)
    /\ accepted \subseteq DOMAIN rows

LEMMA AnswerStep ==
    ASSUME AnswerInv, [Next]_vars
    PROVE  AnswerInv'
<1> USE DEF AnswerInv, Truthful, None, store, Rest, Respond, Handling
<1>1. CASE Boot
  BY <1>1 DEF Boot
<1>2. CASE Decide
  <2>1. Verdict(cfg, req.body) \in {Passes, 400, 413}
    BY VerdictRange
  <2> QED
    BY <1>2, <2>1 DEF Decide, Passes
<1>3. CASE Persist
  <2>1. CASE Respond(500) /\ UNCHANGED <<rows, mine>>
    BY <1>3, <2>1 DEF Persist
  <2>2. CASE Insert /\ (Respond(500) \/ (at' = "enqueue" /\ UNCHANGED status))
    <3>1. PICK n \in 1 .. MaxTime : rows' = Append(rows, n)
      BY <2>2 DEF Insert
    <3>2. rows' \in Seq(Nat) /\ Len(rows') = Len(rows) + 1 /\ Len(rows) \in Nat
      BY <3>1, ServerAssumption
    <3>3. DOMAIN rows = 1 .. Len(rows) /\ DOMAIN rows' = 1 .. Len(rows')
      BY <3>2
    <3>4. mine' = [id |-> Len(rows) + 1, enqueued |-> FALSE, failed |-> FALSE]
      BY <2>2 DEF Insert, NoRow
    <3>5. mine'.id \in DOMAIN rows' /\ DOMAIN rows \subseteq DOMAIN rows'
      BY <3>2, <3>3, <3>4
    <3>6. sent' = 0 /\ accepted' = accepted
      BY <1>3 DEF Persist
    <3>7. CASE Respond(500)
      BY <3>2, <3>4, <3>5, <3>6, <3>7
    <3>8. CASE at' = "enqueue" /\ UNCHANGED status
      BY <3>2, <3>4, <3>5, <3>6, <3>8
    <3> QED
      BY <2>2, <3>7, <3>8
  <2> QED
    BY <1>3, <2>1, <2>2 DEF Persist
<1>4. CASE Enqueue
  <2>1. PICK effect \in BOOLEAN : mine' = [mine EXCEPT !.enqueued = effect]
    BY <1>4 DEF Enqueue
  <2>2. /\ mine' \in [id : Nat, enqueued : BOOLEAN, failed : BOOLEAN]
        /\ mine'.id = mine.id /\ mine'.failed = mine.failed
    BY <2>1
  <2>3. at' = "write" => mine'.enqueued = TRUE
    BY <1>4 DEF Enqueue
  <2> QED
    BY <1>4, <2>2, <2>3 DEF Enqueue
<1>5. CASE MarkFailed
  <2>1. /\ mine' \in [id : Nat, enqueued : BOOLEAN, failed : BOOLEAN]
        /\ mine'.id = mine.id
    BY <1>5 DEF MarkFailed
  <2> QED
    BY <1>5, <2>1 DEF MarkFailed
<1>6. CASE HandleGet \/ HandleOther
  BY <1>6 DEF HandleGet, HandleOther
<1>7. CASE HandleList
  <2>1. /\ at' = "write" /\ status' \in {200, 500}
        /\ at = "handle"
        /\ UNCHANGED <<store, env, req, sent, recorded, accepted>>
    BY <1>7 DEF HandleList
  <2> QED
    BY <2>1
<1>8. CASE WriteHeader
  BY <1>8 DEF WriteHeader
<1>9. CASE WriteBody
  BY <1>9 DEF WriteBody, NoRow
<1>10. CASE Log \/ Recovered
  <2>1. NoRow \in [id : Nat, enqueued : BOOLEAN, failed : BOOLEAN]
    BY DEF NoRow
  <2> QED
    BY <1>10, <2>1 DEF Log, Recovered, Finish
<1>11. CASE Recover
  BY <1>11 DEF Recover
<1>12. CASE Panic
  BY <1>12 DEF Panic
<1>13. ASSUME NEW r, Receive(r), UNCHANGED <<rows, accepted>>
       PROVE  AnswerInv'
  BY <1>13 DEF Receive
<1>14. CASE UNCHANGED vars
  BY <1>14 DEF vars
<1> QED
  BY <1>1, <1>2, <1>3, <1>4, <1>5, <1>6, <1>7, <1>8, <1>9, <1>10, <1>11, <1>12, <1>13, <1>14
  DEF Next, Step, Arrive, StartWalk, NextPage, Down

LEMMA AnswerInvariant == Spec => []AnswerInv
<1>1. Init => AnswerInv
  BY DEF Init, AnswerInv, Truthful, None, NoRow
<1> QED
  BY <1>1, AnswerStep, PTL DEF Spec

(* handleCreateSubmission, requestLogger: a 202 is an enqueued submission  *)
(* that nobody marked failed, a refusal leaves no row behind, and the log  *)
(* has the status the client got.                                          *)
THEOREM StatusesTellTheStore == Spec => []StatusTellsTheStore
<1>1. AnswerInv => StatusTellsTheStore
  BY DEF AnswerInv, Truthful, StatusTellsTheStore
<1> QED
  BY <1>1, AnswerInvariant, PTL

(* handleGetSubmission: the id some client was given is never reported as  *)
(* not found.                                                              *)
THEOREM AcceptedAreFound == Spec => []AcceptedIsFound
<1>1. AnswerInv => AcceptedIsFound
  BY DEF AnswerInv, Truthful, AcceptedIsFound
<1> QED
  BY <1>1, AnswerInvariant, PTL

-----------------------------------------------------------------------------
(* Addresses: the tests of isInternal against the ranges of the RFCs.      *)

Octet == 0 .. 255

\* For every IPv4 address the predicates and the ranges agree.
LEMMA InternalIsReserved ==
    ASSUME NEW a \in Octet, NEW b \in Octet, NEW c \in Octet, NEW d \in Octet
    PROVE  IsInternal(<<a, b, c, d>>) <=> InReserved(<<a, b, c, d>>)
<1>0. /\ a \in Int /\ 0 <= a /\ a <= 255
      /\ b \in Int /\ 0 <= b /\ b <= 255
      /\ c \in Int /\ 0 <= c /\ c <= 255
  BY SMT DEF Octet
<1> DEFINE p == a * 65536 + b * 256 + c
           Within(lo, hi) == lo <= p /\ p <= hi
<1>1. InReserved(<<a, b, c, d>>) <=>
        \/ <<a, b, c, d>> = <<0, 0, 0, 0>>
        \/ Within(8323072, 8388607) \/ Within(655360, 720895)
        \/ Within(11276288, 11280383)
        \/ Within(12625920, 12626175) \/ Within(11140608, 11140863)
        \/ Within(14680064, 14680064)
        \/ Within(6569984, 6586367)
  <2> DEFINE In(r) == Prefix24(<<a, b, c, d>>) \in Prefix24(r.lo) .. Prefix24(r.hi)
             loop   == [lo |-> <<127, 0, 0>>, hi |-> <<127, 255, 255>>]
             ten    == [lo |-> <<10, 0, 0>>, hi |-> <<10, 255, 255>>]
             b172   == [lo |-> <<172, 16, 0>>, hi |-> <<172, 31, 255>>]
             c192   == [lo |-> <<192, 168, 0>>, hi |-> <<192, 168, 255>>]
             link   == [lo |-> <<169, 254, 0>>, hi |-> <<169, 254, 255>>]
             multi  == [lo |-> <<224, 0, 0>>, hi |-> <<224, 0, 0>>]
             shared == [lo |-> <<100, 64, 0>>, hi |-> <<100, 127, 255>>]
  <2>1. p \in Int /\ Prefix24(<<a, b, c, d>>) = p
    BY <1>0, SMT DEF Prefix24
  <2> HIDE DEF p
  <2>2. In(loop) <=> Within(8323072, 8388607)
    <3>1. Prefix24(<<127, 0, 0>>) = 8323072 /\ Prefix24(<<127, 255, 255>>) = 8388607
      BY SMT DEF Prefix24
    <3> QED
      BY <2>1, <3>1, SMT
  <2>3. In(ten) <=> Within(655360, 720895)
    <3>1. Prefix24(<<10, 0, 0>>) = 655360 /\ Prefix24(<<10, 255, 255>>) = 720895
      BY SMT DEF Prefix24
    <3> QED
      BY <2>1, <3>1, SMT
  <2>4. In(b172) <=> Within(11276288, 11280383)
    <3>1. Prefix24(<<172, 16, 0>>) = 11276288 /\ Prefix24(<<172, 31, 255>>) = 11280383
      BY SMT DEF Prefix24
    <3> QED
      BY <2>1, <3>1, SMT
  <2>5. In(c192) <=> Within(12625920, 12626175)
    <3>1. Prefix24(<<192, 168, 0>>) = 12625920 /\ Prefix24(<<192, 168, 255>>) = 12626175
      BY SMT DEF Prefix24
    <3> QED
      BY <2>1, <3>1, SMT
  <2>6. In(link) <=> Within(11140608, 11140863)
    <3>1. Prefix24(<<169, 254, 0>>) = 11140608 /\ Prefix24(<<169, 254, 255>>) = 11140863
      BY SMT DEF Prefix24
    <3> QED
      BY <2>1, <3>1, SMT
  <2>7. In(multi) <=> Within(14680064, 14680064)
    <3>1. Prefix24(<<224, 0, 0>>) = 14680064 /\ Prefix24(<<224, 0, 0>>) = 14680064
      BY SMT DEF Prefix24
    <3> QED
      BY <2>1, <3>1, SMT
  <2>8. In(shared) <=> Within(6569984, 6586367)
    <3>1. Prefix24(<<100, 64, 0>>) = 6569984 /\ Prefix24(<<100, 127, 255>>) = 6586367
      BY SMT DEF Prefix24
    <3> QED
      BY <2>1, <3>1, SMT
  <2>9. Reserved = {loop, ten, b172, c192, link, multi, shared}
    BY DEF Reserved
  <2>10. InReserved(<<a, b, c, d>>) <=>
        <<a, b, c, d>> = <<0, 0, 0, 0>> \/ \E r \in Reserved : In(r)
    BY DEF InReserved
  <2> HIDE DEF In, Within, loop, ten, b172, c192, link, multi, shared
  <2>11. (\E r \in Reserved : In(r)) <=>
           \/ In(loop) \/ In(ten) \/ In(b172) \/ In(c192)
           \/ In(link) \/ In(multi) \/ In(shared)
    BY <2>9
  <2> QED
    BY <2>2, <2>3, <2>4, <2>5, <2>6, <2>7, <2>8, <2>10, <2>11, SMT
<1>2. Within(8323072, 8388607) <=> a = 127
  BY <1>0, SMT
<1>3. Within(655360, 720895) <=> a = 10
  BY <1>0, SMT
<1>4. Within(11276288, 11280383) <=> a = 172 /\ 16 <= b /\ b <= 31
  BY <1>0, SMT
<1>5. Within(12625920, 12626175) <=> a = 192 /\ b = 168
  BY <1>0, SMT
<1>6. Within(11140608, 11140863) <=> a = 169 /\ b = 254
  BY <1>0, SMT
<1>7. Within(14680064, 14680064) <=> a = 224 /\ b = 0 /\ c = 0
  BY <1>0, SMT
<1>8. Within(6569984, 6586367) <=> a = 100 /\ 64 <= b /\ b <= 127
  BY <1>0, SMT
<1>9. b \div 16 = 1 <=> 16 <= b /\ b <= 31
  BY <1>0, SMT
<1>10. b \div 64 = 1 <=> 64 <= b /\ b <= 127
  BY <1>0, SMT
<1>11. IsInternal(<<a, b, c, d>>) <=>
        \/ a = 127
        \/ a = 10 \/ (a = 172 /\ b \div 16 = 1) \/ (a = 192 /\ b = 168)
        \/ (a = 169 /\ b = 254)
        \/ (a = 224 /\ b = 0 /\ c = 0)
        \/ <<a, b, c, d>> = <<0, 0, 0, 0>>
        \/ (a = 100 /\ b \div 64 = 1)
  BY SMT DEF IsInternal, IsLoopback, IsPrivate, IsLinkLocalUnicast, IsLinkLocalMulticast,
      IsUnspecified, IsCarrierNat
<1> HIDE DEF Within
<1> QED
  BY <1>1, <1>2, <1>3, <1>4, <1>5, <1>6, <1>7, <1>8, <1>9, <1>10, <1>11, SMT

LEMMA AddressesAreOctets == Addresses \subseteq Octet \X Octet \X Octet \X Octet
<1>1. Firsts \subseteq Octet \X Octet \X Octet \X Octet
  BY DEF Firsts, Octet
<1>2. Lasts \subseteq Octet \X Octet \X Octet \X Octet
  BY DEF Lasts, Octet
<1>3. Before \subseteq Octet \X Octet \X Octet \X Octet
  BY DEF Before, Octet
<1>4. After \subseteq Octet \X Octet \X Octet \X Octet
  BY DEF After, Octet
<1>5. {<<8, 8, 8, 8>>, <<203, 0, 113, 7>>} \subseteq Octet \X Octet \X Octet \X Octet
  BY DEF Octet
<1> QED
  BY <1>1, <1>2, <1>3, <1>4, <1>5 DEF Addresses

(* webhook.Validate, without WEBHOOK_ALLOW_PRIVATE: whatever a host         *)
(* resolves to, it passes exactly when none of its addresses lies in a     *)
(* reserved range; one that does not resolve, unless it is localhost.      *)
THEOREM ValidIsOutside ==
    ASSUME NEW url, url.ips \subseteq Octet \X Octet \X Octet \X Octet
    PROVE  Validate(url, FALSE) <=>
               /\ url.parses /\ url.scheme \in {"http", "https"} /\ url.host # "none"
               /\ url.ips = {} => url.host # "localhost"
               /\ \A ip \in url.ips : ~InReserved(ip)
<1>1. \A ip \in url.ips : IsInternal(ip) <=> InReserved(ip)
  BY InternalIsReserved
<1> QED
  BY <1>1 DEF Validate

(* webhook.Validate, isInternal: the same of the addresses at the ends of  *)
(* every range.                                                            *)
THEOREM HooksAreOutside == Spec => []HooksStayOutside
<1>1. HooksStayOutside
  <2>1. \A ip \in Addresses : IsInternal(ip) <=> InReserved(ip)
    BY AddressesAreOctets, InternalIsReserved
  <2> QED
    BY <2>1 DEF HooksStayOutside, Validate
<1> QED
  BY <1>1, PTL

-----------------------------------------------------------------------------
(* Settings: what config.Load makes of an environment.                     *)

\* The environment stays.
LEMMA EnvInvariant == Spec => [](env \in Envs)
<1>1. Init => env \in Envs
  BY DEF Init
<1>2. env \in Envs /\ [Next]_vars => (env \in Envs)'
  BY DEF Next, vars, Step, Boot, Decide, Persist, Enqueue, MarkFailed, HandleGet, HandleList,
         HandleOther, WriteHeader, WriteBody, Log, Recover, Recovered, Finish, Arrive,
         StartWalk, NextPage, Panic, Down, Rest
<1> QED
  BY <1>1, <1>2, PTL DEF Spec

Numbers == Keys \ {"WEBHOOK_ALLOW_PRIVATE"}

\* A setting is a number, and the one switch a switch, whatever was set.
LEMMA LoadedTypes ==
    ASSUME NEW e \in Envs
    PROVE  /\ \A k \in Numbers : Load(e)[k] \in Int
           /\ Load(e)["WEBHOOK_ALLOW_PRIVATE"] \in BOOLEAN
<1>1. \A k \in Numbers : Default[k] \in Int
  BY DEF Numbers, Keys, Default
<1>2. Default["WEBHOOK_ALLOW_PRIVATE"] \in BOOLEAN
  BY DEF Keys, Default
<1>3. \A k \in Keys : Load(e)[k] = Lookup(e[k], Default[k])
  BY DEF Load
<1>4. ASSUME NEW k \in Numbers
      PROVE  Load(e)[k] \in Int
  <2>1. k \in Keys /\ Default[k] \in Int /\ Parsed(k) = Int
    BY <1>1 DEF Numbers, Parsed
  <2>2. e[k].set /\ e[k].parses => e[k].value \in Int
    BY <2>1, EnvAssumption
  <2> QED
    BY <1>3, <2>1, <2>2 DEF Lookup
<1>5. Load(e)["WEBHOOK_ALLOW_PRIVATE"] \in BOOLEAN
  <2> DEFINE k == "WEBHOOK_ALLOW_PRIVATE"
  <2>1. k \in Keys /\ Parsed(k) = BOOLEAN
    BY DEF Keys, Parsed
  <2>2. e[k].set /\ e[k].parses => e[k].value \in BOOLEAN
    BY <2>1, EnvAssumption
  <2> QED
    BY <1>2, <1>3, <2>1, <2>2 DEF Lookup
<1> QED
  BY <1>4, <1>5

\* Texts have lengths.
LEMMA TextLengths ==
    ASSUME NEW max \in Int, NEW kinds \in SUBSET DOMAIN Width, NEW t \in Texts(max, kinds)
    PROVE  /\ t.chars \in Int /\ t.kind \in kinds
           /\ Width[t.kind].written \in {1, 6} /\ Width[t.kind].decoded \in {1, 3}
           /\ Written(t) \in Int /\ Decoded(t) \in Int
<1>1. PICK k \in kinds, n \in {0, 1, max \div 3, max, max + 1} : t = [kind |-> k, chars |-> n]
  BY DEF Texts
<1>2. t.chars \in Int /\ t.kind \in kinds
  BY <1>1
<1>3. \A w \in DOMAIN Width : Width[w].written \in {1, 6} /\ Width[w].decoded \in {1, 3}
  BY DEF Width
<1>4. Width[t.kind].written \in {1, 6} /\ Width[t.kind].decoded \in {1, 3}
  BY <1>2, <1>3
<1>5. Written(t) \in Int /\ Decoded(t) \in Int
  BY <1>2, <1>4 DEF Written, Decoded
<1> QED
  BY <1>2, <1>4, <1>5

-----------------------------------------------------------------------------
(* The images WarmImages pulls.                                            *)

gcc    == "gcc:14"
java   == "eclipse-temurin:21-jdk-alpine"
node   == "node:22-alpine"
python == "python:3.12-alpine"

\* What Append does to a sequence, the one fact the provers have to be given ...
LEMMA Appended ==
    ASSUME NEW S, NEW s \in Seq(S), NEW e \in S
    PROVE  /\ Append(s, e) \in Seq(S) /\ Len(Append(s, e)) = Len(s) + 1
           /\ \A i \in 1 .. Len(s) : Append(s, e)[i] = s[i]
           /\ Append(s, e)[Len(s) + 1] = e
BY AppendProperties

\* ... and to a short one.
LEMMA Second ==
    ASSUME NEW S, NEW s \in Seq(S), NEW e \in S, Len(s) = 1
    PROVE  /\ Append(s, e) \in Seq(S) /\ Len(Append(s, e)) = 2
           /\ Append(s, e)[1] = s[1]
           /\ Append(s, e)[2] = e
<1> DEFINE t == Append(s, e)
<1>1. /\ t \in Seq(S) /\ Len(t) = Len(s) + 1
      /\ \A i \in 1 .. Len(s) : t[i] = s[i]
      /\ t[Len(s) + 1] = e
  BY Appended, Zenon
<1> HIDE DEF t
<1>2. t \in Seq(S) /\ Len(t) = 2
  BY <1>1
<1>3. t[1] = s[1]
  BY <1>1
<1>4. t[2] = e
  BY <1>1
<1> QED
  BY <1>2, <1>3, <1>4 DEF t

LEMMA Third ==
    ASSUME NEW S, NEW s \in Seq(S), NEW e \in S, Len(s) = 2
    PROVE  /\ Append(s, e) \in Seq(S) /\ Len(Append(s, e)) = 3
           /\ Append(s, e)[1] = s[1]
           /\ Append(s, e)[2] = s[2]
           /\ Append(s, e)[3] = e
<1> DEFINE t == Append(s, e)
<1>1. /\ t \in Seq(S) /\ Len(t) = Len(s) + 1
      /\ \A i \in 1 .. Len(s) : t[i] = s[i]
      /\ t[Len(s) + 1] = e
  BY Appended, Zenon
<1> HIDE DEF t
<1>2. t \in Seq(S) /\ Len(t) = 3
  BY <1>1
<1>3. t[1] = s[1] /\ t[2] = s[2]
  BY <1>1
<1>4. t[3] = e
  BY <1>1
<1> QED
  BY <1>2, <1>3, <1>4 DEF t

LEMMA Fourth ==
    ASSUME NEW S, NEW s \in Seq(S), NEW e \in S, Len(s) = 3
    PROVE  /\ Append(s, e) \in Seq(S) /\ Len(Append(s, e)) = 4
           /\ Append(s, e)[1] = s[1]
           /\ Append(s, e)[2] = s[2]
           /\ Append(s, e)[3] = s[3]
           /\ Append(s, e)[4] = e
<1> DEFINE t == Append(s, e)
<1>1. /\ t \in Seq(S) /\ Len(t) = Len(s) + 1
      /\ \A i \in 1 .. Len(s) : t[i] = s[i]
      /\ t[Len(s) + 1] = e
  BY Appended, Zenon
<1> HIDE DEF t
<1>2. t \in Seq(S) /\ Len(t) = 4
  BY <1>1
<1>3. t[1] = s[1] /\ t[2] = s[2] /\ t[3] = s[3]
  BY <1>1
<1>4. t[4] = e
  BY <1>1
<1> QED
  BY <1>2, <1>3, <1>4 DEF t

\* The loop of Images has one result: four images, in the order of All.
LEMMA ImageList ==
    /\ DOMAIN Images = 1 .. 4
    /\ Images[1] = gcc /\ Images[2] = java /\ Images[3] = node /\ Images[4] = python
<1> DEFINE Noted(out, image) == IF Contains(out, image) THEN out ELSE Append(out, image)
           Body(g, n) == IF n = 0 THEN <<>> ELSE Noted(g[n - 1], Registry[All[n]].image)
           Def(g) == g = [n \in 0 .. Len(All) |-> Body(g, n)]
           one   == Append(<<>>, gcc)
           two   == Append(one, java)
           three == Append(two, node)
           four  == Append(three, python)
           count == [n \in 0 .. 5 |->
                        IF n = 0 THEN <<>> ELSE IF n \in {1, 2} THEN one
                        ELSE IF n = 3 THEN two ELSE IF n = 4 THEN three ELSE four]
           out   == CHOOSE g : Def(g)
<1>1. Len(All) = 5
  BY DEF All
<1>2. /\ Registry[All[1]].image = gcc /\ Registry[All[2]].image = gcc
      /\ Registry[All[3]].image = java /\ Registry[All[4]].image = node
      /\ Registry[All[5]].image = python
  BY DEF All, Registry, gcc, java, node, python
<1>3. Images = out[5]
  BY <1>1 DEF Images
<1> DEFINE Image == {gcc, java, node, python}
<1>4. one \in Seq(Image) /\ Len(one) = 1 /\ one[1] = gcc
  <2>1. <<>> \in Seq(Image) /\ Len(<<>>) = 0 /\ gcc \in Image
    OBVIOUS
  <2> HIDE DEF Image
  <2> QED
    BY <2>1, AppendProperties
<1> HIDE DEF one
<1>5. two \in Seq(Image) /\ Len(two) = 2 /\ two[1] = gcc /\ two[2] = java
  <2>1. java \in Image
    OBVIOUS
  <2> HIDE DEF Image
  <2> QED
    BY <1>4, <2>1, Second
<1> HIDE DEF two
<1>6. /\ three \in Seq(Image) /\ Len(three) = 3
      /\ three[1] = gcc /\ three[2] = java /\ three[3] = node
  <2>1. node \in Image
    OBVIOUS
  <2> HIDE DEF Image
  <2> QED
    BY <1>5, <2>1, Third
<1> HIDE DEF three
<1>7. /\ four \in Seq(Image) /\ Len(four) = 4
      /\ four[1] = gcc /\ four[2] = java /\ four[3] = node /\ four[4] = python
  <2>1. python \in Image
    OBVIOUS
  <2> HIDE DEF Image
  <2> QED
    BY <1>6, <2>1, Fourth
<1> HIDE DEF four, Image
<1>8. /\ gcc # java /\ gcc # node /\ gcc # python
      /\ java # node /\ java # python /\ node # python
  BY DEF gcc, java, node, python
<1>9. Noted(<<>>, gcc) = one
  BY DEF Contains, one
<1>10. Noted(one, gcc) = one
  BY <1>4 DEF Contains
<1>11. Noted(one, java) = two
  BY <1>4, <1>8 DEF Contains, two
<1>12. Noted(two, node) = three
  BY <1>5, <1>8 DEF Contains, three
<1>13. Noted(three, python) = four
  BY <1>6, <1>8 DEF Contains, four
<1> HIDE DEF Noted
<1>14. \E g : Def(g)
  <2>1. /\ count[0] = <<>> /\ count[1] = one /\ count[2] = one /\ count[3] = two
        /\ count[4] = three /\ count[5] = four
    OBVIOUS
  <2>2. count = [n \in 0 .. 5 |-> count[n]]
    OBVIOUS
  <2> HIDE DEF count
  <2>3. \A n \in 0 .. 5 : Body(count, n) = count[n]
    BY <1>2, <1>9, <1>10, <1>11, <1>12, <1>13, <2>1
  <2> HIDE DEF Body
  <2> QED
    BY <1>1, <2>2, <2>3
<1>15. Def(out)
  BY <1>14
<1> HIDE DEF out
<1>16. out[0] = <<>> /\ \A n \in 1 .. 5 : out[n] = Noted(out[n - 1], Registry[All[n]].image)
  <2> HIDE DEF Body
  <2>1. \A n \in 0 .. 5 : out[n] = Body(out, n)
    BY <1>1, <1>15
  <2> QED
    BY <2>1 DEF Body
<1>17. out[1] = one
  BY <1>2, <1>9, <1>16
<1>18. out[2] = one
  BY <1>2, <1>10, <1>16, <1>17
<1>19. out[3] = two
  BY <1>2, <1>11, <1>16, <1>18
<1>20. out[4] = three
  BY <1>2, <1>12, <1>16, <1>19
<1>21. out[5] = four
  BY <1>2, <1>13, <1>16, <1>20
<1> QED
  BY <1>3, <1>7, <1>21

\* Base64 and the closing NUL of what Load allows at most.
LEMMA EntryFits ==
    ASSUME NEW n \in Int, n <= 90000
    PROVE  CodeEntry(n) <= MaxArgStrlen
BY DEF CodeEntry, Base64Length, MaxArgStrlen

(* handleCreateSubmission, createContainer: whatever the body, code that   *)
(* passes the checks fits the one environment entry.                       *)
LEMMA PassedFits ==
    ASSUME env \in Envs, Loaded, NEW b, Decoded(b.code) \in Int, Verdict(cfg, b) = Passes
    PROVE  CodeEntry(Decoded(b.code)) <= MaxArgStrlen
<1>1. cfg["MAX_CODE_BYTES"] \in Int /\ cfg["MAX_CODE_BYTES"] <= 90000
  BY LoadedTypes DEF cfg, Loaded, Loads, Numbers, Keys
<1>2. ~Checks(cfg, b)[8].fails
  BY VerdictPasses
<1>3. ~(Decoded(b.code) > cfg["MAX_CODE_BYTES"])
  BY <1>2 DEF Checks
<1> QED
  BY <1>1, <1>3, EntryFits

(* config.Load, handleCreateSubmission, WarmImages: what passes the checks *)
(* can be run; its code fits, and its image is warmed once.                *)
THEOREM AcceptedAreRunnable == Spec => []AcceptedCanRun
<1>1. ASSUME env \in Envs, Loaded, NEW b \in AllBodies, Verdict(cfg, b) = Passes
      PROVE  CodeEntry(Decoded(b.code)) <= MaxArgStrlen
  <2>1. cfg["MAX_CODE_BYTES"] \in Int
    BY <1>1, LoadedTypes DEF cfg, Numbers, Keys
  <2>2. b.code \in Texts(cfg["MAX_CODE_BYTES"], DOMAIN Width)
    BY <1>1 DEF AllBodies
  <2>3. Decoded(b.code) \in Int
    BY <2>1, <2>2, TextLengths
  <2> QED
    BY <1>1, <2>3, PassedFits
<1>2. ASSUME NEW l \in Spellings, Get(Normalise(l))
      PROVE  Cardinality({i \in DOMAIN Images : Images[i] = Registry[l.word].image}) = 1
  <2> DEFINE S == {i \in DOMAIN Images : Images[i] = Registry[l.word].image}
  <2>1. l.word \in {"python", "node", "c", "cpp", "java"}
    BY <1>2 DEF Get, Normalise, Known, Registry
  <2>2. Registry[l.word].image \in {gcc, java, node, python}
    BY <2>1 DEF Registry, gcc, java, node, python
  <2>3. /\ gcc # java /\ gcc # node /\ gcc # python
        /\ java # node /\ java # python /\ node # python
    BY DEF gcc, java, node, python
  <2>4. \E i \in 1 .. 4 : S = {i}
    BY <2>2, <2>3, ImageList
  <2> HIDE DEF S
  <2>5. Cardinality(S) = 1
    BY <2>4, FS_Singleton
  <2> QED
    BY <2>5 DEF S
<1>3. env \in Envs => AcceptedCanRun
  BY <1>1, <1>2 DEF AcceptedCanRun
<1> QED
  BY <1>3, EnvInvariant, PTL

-----------------------------------------------------------------------------
(* Limits and times.                                                       *)

(* handleCreateSubmission, Execute: a task's timeout comes after the last  *)
(* moment Execute can be busy, whatever limits the environment sets.       *)
THEOREM TimesAreRight == Spec => []TimesFitTogether
<1>1. ASSUME env \in Envs, Loaded
      PROVE  LongestExecution(cfg) < TaskTimeout(cfg)
  <2>1. cfg["COMPILE_TIMEOUT"] \in Int /\ cfg["RUN_TIMEOUT"] \in Int
    BY <1>1, LoadedTypes DEF cfg, Numbers, Keys
  <2> QED
    BY <2>1 DEF LongestExecution, TaskTimeout, EngineBudget, CopyGrace, KillLimit, RemoveLimit
<1>2. env \in Envs => TimesFitTogether
  BY <1>1 DEF TimesFitTogether
<1> QED
  BY <1>2, EnvInvariant, PTL

\* The checks one by one.
LEMMA CheckList ==
    ASSUME NEW c, NEW r
    PROVE  /\ Checks(c, r)[1].fails <=> (r.json = "syntax")
           /\ Checks(c, r)[2].fails <=> (ObjectLength(r) > BodyLimit(c))
           /\ Checks(c, r)[3].fails <=> (r.json = "unknownField")
           /\ Checks(c, r)[4].fails <=> (r.second)
           /\ Checks(c, r)[5].fails <=> (ObjectLength(r) + r.spaces > BodyLimit(c))
           /\ Checks(c, r)[6].fails <=> (~Get(Normalise(r.language)))
           /\ Checks(c, r)[7].fails <=> (Blank(r.code))
           /\ Checks(c, r)[8].fails <=> (Decoded(r.code) > c["MAX_CODE_BYTES"])
           /\ Checks(c, r)[9].fails <=> (Decoded(r.stdin) > c["MAX_STDIN_BYTES"])
           /\ Checks(c, r)[10].fails <=> (r.webhook.given /\ ~Validate(r.webhook, c["WEBHOOK_ALLOW_PRIVATE"]))
<1>1. Checks(c, r)[1].fails <=> (r.json = "syntax")
  BY DEF Checks
<1>2. Checks(c, r)[2].fails <=> (ObjectLength(r) > BodyLimit(c))
  BY DEF Checks
<1>3. Checks(c, r)[3].fails <=> (r.json = "unknownField")
  BY DEF Checks
<1>4. Checks(c, r)[4].fails <=> (r.second)
  BY DEF Checks
<1>5. Checks(c, r)[5].fails <=> (ObjectLength(r) + r.spaces > BodyLimit(c))
  BY DEF Checks
<1>6. Checks(c, r)[6].fails <=> (~Get(Normalise(r.language)))
  BY DEF Checks
<1>7. Checks(c, r)[7].fails <=> (Blank(r.code))
  BY DEF Checks
<1>8. Checks(c, r)[8].fails <=> (Decoded(r.code) > c["MAX_CODE_BYTES"])
  BY DEF Checks
<1>9. Checks(c, r)[9].fails <=> (Decoded(r.stdin) > c["MAX_STDIN_BYTES"])
  BY DEF Checks
<1>10. Checks(c, r)[10].fails <=> (r.webhook.given /\ ~Validate(r.webhook, c["WEBHOOK_ALLOW_PRIVATE"]))
  BY DEF Checks
<1> QED
  BY <1>1, <1>2, <1>3, <1>4, <1>5, <1>6, <1>7, <1>8, <1>9, <1>10

LEMMA NoneGiven == NoHook.given = FALSE
BY DEF NoHook

(* A submission in a known language within the limits, without a webhook.  *)
Modest(b) ==
    /\ b.json = "object" /\ b.second = FALSE
    /\ b.padding \in Nat /\ b.spaces \in Nat
    /\ b.padding + b.spaces + Envelope <= 4096
    /\ Known(b.language.word)
    /\ b.code.kind = "plain" /\ b.code.chars \in Int
    /\ b.code.chars \in 1 .. cfg["MAX_CODE_BYTES"]
    /\ b.stdin.kind = "plain" /\ b.stdin.chars \in Int
    /\ b.stdin.chars <= cfg["MAX_STDIN_BYTES"]
    /\ b.webhook = NoHook

LEMMA PlainPasses ==
    ASSUME env \in Envs, NEW b, Modest(b)
    PROVE  Verdict(cfg, b) = Passes
<1> USE DEF Modest
<1> DEFINE c == cfg
<1>1. c["MAX_CODE_BYTES"] \in Int /\ c["MAX_STDIN_BYTES"] \in Int
  BY LoadedTypes DEF Numbers, Keys, cfg
<1>2. /\ Written(b.code) = b.code.chars /\ Decoded(b.code) = b.code.chars
      /\ Written(b.stdin) = b.stdin.chars /\ Decoded(b.stdin) = b.stdin.chars
  BY DEF Written, Decoded, Width
<1> HIDE DEF c
<1>3. ObjectLength(b) + b.spaces <= BodyLimit(c) /\ ObjectLength(b) <= BodyLimit(c)
  BY <1>1, <1>2 DEF ObjectLength, BodyLimit, Envelope, c
<1>4. ~(ObjectLength(b) > BodyLimit(c)) /\ ~(ObjectLength(b) + b.spaces > BodyLimit(c))
  BY <1>1, <1>2, <1>3 DEF ObjectLength, BodyLimit, Envelope
<1>5. Get(Normalise(b.language))
  BY DEF Get, Normalise
<1>6. ~Blank(b.code)
  BY <1>1 DEF Blank, c
<1>7. /\ ~(Decoded(b.code) > c["MAX_CODE_BYTES"])
      /\ ~(Decoded(b.stdin) > c["MAX_STDIN_BYTES"])
  BY <1>1, <1>2 DEF c
<1>8. ~b.webhook.given
  BY NoneGiven
<1>9. \A i \in 1 .. 10 : ~Checks(c, b)[i].fails
  <2>1. \A i \in 1 .. 10 : i \in {1, 2, 3, 4, 5, 6, 7, 8, 9, 10}
    OBVIOUS
  <2>2. /\ ~Checks(c, b)[1].fails /\ ~Checks(c, b)[2].fails /\ ~Checks(c, b)[3].fails
        /\ ~Checks(c, b)[4].fails /\ ~Checks(c, b)[5].fails
    BY <1>4, CheckList
  <2>3. /\ ~Checks(c, b)[6].fails /\ ~Checks(c, b)[7].fails /\ ~Checks(c, b)[8].fails
        /\ ~Checks(c, b)[9].fails /\ ~Checks(c, b)[10].fails
    BY <1>5, <1>6, <1>7, <1>8, CheckList
  <2> QED
    BY <2>1, <2>2, <2>3
<1> QED
  BY <1>9, VerdictPasses DEF c

(* handleCreateSubmission: a plain submission within the documented limits *)
(* is never refused.                                                       *)
THEOREM ModestArePassed == Spec => []WithinLimitsPasses
<1>1. ASSUME env \in Envs, Loaded, NEW b \in AllBodies,
             b.json = "object", ~b.second, b.padding + b.spaces + Envelope <= 4096,
             Known(b.language.word),
             b.code.kind = "plain", b.code.chars \in 1 .. cfg["MAX_CODE_BYTES"],
             b.stdin.kind = "plain", b.stdin.chars <= cfg["MAX_STDIN_BYTES"]
      PROVE  Verdict(cfg, b) = Passes
  <2>1. cfg["MAX_CODE_BYTES"] \in Int /\ cfg["MAX_STDIN_BYTES"] \in Int
    BY <1>1, LoadedTypes DEF cfg, Numbers, Keys
  <2>2. b.second \in BOOLEAN
    BY DEF AllBodies
  <2>3. b.webhook = NoHook
    BY DEF AllBodies
  <2>4. /\ b.padding \in Nat /\ b.spaces \in Nat
        /\ b.code \in Texts(cfg["MAX_CODE_BYTES"], DOMAIN Width)
        /\ b.stdin \in Texts(cfg["MAX_STDIN_BYTES"], {"plain", "escaped"})
    BY DEF AllBodies
  <2>5. b.code.chars \in Int /\ b.stdin.chars \in Int
    <3>1. {"plain", "escaped"} \in SUBSET DOMAIN Width
      BY DEF Width
    <3> QED
      BY <2>1, <2>4, <3>1, TextLengths
  <2>6. b.second = FALSE
    BY <1>1, <2>2
  <2>7. Modest(b)
    BY <1>1, <2>4, <2>5, <2>6, <2>3 DEF Modest
  <2> QED
    BY <1>1, <2>7, PlainPasses
<1>2. env \in Envs => WithinLimitsPasses
  BY <1>1 DEF WithinLimitsPasses
<1> QED
  BY <1>2, EnvInvariant, PTL

-----------------------------------------------------------------------------
(* The walk through the pages.                                             *)

(* Ids newer than i, and i having its created_at to itself.                *)
Newer(tab, i) == {j \in DOMAIN tab : tab[j] > tab[i]}
Alone(tab, i) == \A j \in DOMAIN tab : tab[j] = tab[i] => j = i

(* Of these ids, at least the n newest are ahead of each.                  *)
Behind(tab, ids, n) == \A i \in ids : Alone(tab, i) => n <= Cardinality(Newer(tab, i))

(* In a table ordered by created_at, a row that shares its time with no    *)
(* other is preceded by the newer ones and by nothing else.                *)
LEMMA Rank ==
    ASSUME rows \in Seq(Nat), NEW order \in Orders, NEW i \in DOMAIN rows, Alone(rows, i)
    PROVE  \E k \in DOMAIN rows : order[k] = i /\ Cardinality(Newer(rows, i)) = k - 1
<1> DEFINE D == DOMAIN rows
<1>1. D = 1 .. Len(rows) /\ Len(rows) \in Nat /\ rows \in [D -> Nat]
  OBVIOUS
<1>2. /\ order \in [D -> D]
      /\ \A a, b \in D : a # b => order[a] # order[b]
      /\ \A a, b \in D : a < b => rows[order[a]] >= rows[order[b]]
  BY DEF Orders
<1> HIDE DEF D
<1>3. IsFiniteSet(D)
  BY <1>1, FS_Interval
<1>4. order \in Injection(D, D)
  BY <1>2, Fun_IsInj
<1>5. order \in Surjection(D, D)
  BY <1>3, <1>4, FS_Injection
<1>6. \A j \in D : \E k \in D : order[k] = j
  BY <1>5, Fun_SurjectionProperties
<1>7. PICK k \in D : order[k] = i
  BY <1>6 DEF D
<1> DEFINE N == Newer(rows, i)
           f == [x \in 1 .. k - 1 |-> order[x]]
<1>8. k \in Nat /\ 1 .. k - 1 \subseteq D
  BY <1>1
<1>9. ASSUME NEW x \in 1 .. k - 1
      PROVE  order[x] \in N
  <2>1. x \in D /\ x < k /\ x # k
    BY <1>8
  <2>2. order[x] \in D /\ order[x] # i /\ rows[order[x]] >= rows[i]
    BY <1>2, <1>7, <2>1
  <2>3. rows[order[x]] # rows[i]
    BY <2>2 DEF Alone, D
  <2>4. rows[order[x]] \in Nat /\ rows[i] \in Nat
    BY <1>1, <2>2 DEF D
  <2> QED
    BY <2>2, <2>3, <2>4 DEF Newer, D
<1>10. ASSUME NEW j \in N
       PROVE  \E x \in 1 .. k - 1 : order[x] = j
  <2>1. j \in D /\ rows[j] > rows[i]
    BY DEF Newer, D
  <2>2. PICK x \in D : order[x] = j
    BY <1>6, <2>1
  <2>3. rows[j] \in Nat /\ rows[i] \in Nat /\ x \in Nat
    BY <1>1, <2>1, <2>2 DEF D
  <2>4. x # k
    BY <1>7, <2>1, <2>2, <2>3
  <2>5. ~(k < x)
    BY <1>2, <1>7, <2>1, <2>2, <2>3
  <2> QED
    BY <1>1, <1>8, <2>2, <2>3, <2>4, <2>5
<1> HIDE DEF N
<1>11. f \in [1 .. k - 1 -> N]
  BY <1>9
<1>12. f \in Injection(1 .. k - 1, N)
  <2>1. \A a, b \in 1 .. k - 1 : f[a] = f[b] => a = b
    BY <1>2, <1>8
  <2> HIDE DEF f
  <2> QED
    BY <1>11, <2>1, Fun_IsInj
<1>13. f \in Surjection(1 .. k - 1, N)
  <2>1. \A j \in N : \E x \in 1 .. k - 1 : f[x] = j
    BY <1>10
  <2> HIDE DEF f
  <2> QED
    BY <1>11, <2>1, Fun_IsSurj
<1> HIDE DEF f
<1>14. ExistsBijection(1 .. k - 1, N)
  BY <1>12, <1>13 DEF ExistsBijection, Bijection
<1>15. IsFiniteSet(1 .. k - 1) /\ Cardinality(1 .. k - 1) = k - 1
  <2>1. 1 \in Int /\ k - 1 \in Int /\ k \in 1 .. Len(rows)
    BY <1>1, <1>8
  <2> QED
    BY <1>8, <2>1, FS_Interval
<1>16. Cardinality(N) = k - 1
  BY <1>14, <1>15, FS_Bijection
<1> QED
  BY <1>7, <1>16 DEF N, D

(* A row more: what is alone was alone, and no fewer rows are newer.       *)
LEMMA BehindGrows ==
    ASSUME NEW tab \in Seq(Nat), NEW t \in Nat, NEW ids \in SUBSET DOMAIN tab, NEW n \in Nat,
           Behind(tab, ids, n)
    PROVE  Behind(Append(tab, t), ids, n)
<1> DEFINE new == Append(tab, t)
<1>1. /\ DOMAIN tab = 1 .. Len(tab) /\ Len(tab) \in Nat
      /\ new \in Seq(Nat) /\ Len(new) = Len(tab) + 1
  OBVIOUS
<1>2. \A j \in DOMAIN tab : new[j] = tab[j]
  OBVIOUS
<1> HIDE DEF new
<1>3. DOMAIN new = 1 .. Len(new) /\ DOMAIN tab \subseteq DOMAIN new
  BY <1>1
<1>4. SUFFICES ASSUME NEW i \in ids, Alone(new, i)
               PROVE  n <= Cardinality(Newer(new, i))
  BY DEF Behind, new
<1>5. i \in DOMAIN tab /\ Alone(tab, i)
  BY <1>2, <1>3, <1>4 DEF Alone
<1>6. n <= Cardinality(Newer(tab, i))
  BY <1>5 DEF Behind
<1>7. Newer(tab, i) \subseteq Newer(new, i)
  BY <1>2, <1>3, <1>5 DEF Newer
<1>8. IsFiniteSet(Newer(new, i))
  <2>1. Newer(new, i) \subseteq 1 .. Len(new)
    BY <1>3 DEF Newer
  <2>2. IsFiniteSet(1 .. Len(new))
    BY <1>1, FS_Interval
  <2> QED
    BY <2>1, <2>2, FS_Subset
<1>9. /\ IsFiniteSet(Newer(tab, i))
      /\ Cardinality(Newer(tab, i)) <= Cardinality(Newer(new, i))
  BY <1>7, <1>8, FS_Subset
<1>10. Cardinality(Newer(tab, i)) \in Nat /\ Cardinality(Newer(new, i)) \in Nat
  BY <1>8, <1>9, FS_CardinalityType
<1> QED
  BY <1>6, <1>9, <1>10

(* What a client may ask for: nothing, junk or a number.                   *)
Asked(raw) == raw.set /\ raw.parses => raw.value \in Int

OffsetOf(raw) == Int32(ClampQueryInt(raw, 0, 0, MaxOffset))
Pageable == cfg["PAGE_CAP"] \in 1 .. 2 ^ (IntBits - 1) - 1

\* The conversions to int32 lose nothing.
LEMMA Int32Same ==
    ASSUME NEW n \in Nat, n < 2 ^ (IntBits - 1)
    PROVE  Int32(n) = n
<1> DEFINE half == 2 ^ (IntBits - 1)
<1>1. half \in Nat /\ n < half
  BY ServerAssumption
<1>2. Int32(n) = ((n + half) % (2 * half)) - half
  BY DEF Int32
<1> HIDE DEF half
<1> QED
  BY <1>1, <1>2

LEMMA OffsetRange ==
    ASSUME NEW raw, Asked(raw)
    PROVE  /\ OffsetOf(raw) \in 0 .. MaxOffset
           /\ raw.set /\ raw.parses /\ raw.value \in Nat => OffsetOf(raw) <= raw.value
           /\ ~(raw.set /\ raw.parses /\ raw.value > 0) => OffsetOf(raw) = 0
<1> DEFINE n == ClampQueryInt(raw, 0, 0, MaxOffset)
<1>1. MaxOffset \in Nat /\ n \in 0 .. MaxOffset
  BY ServerAssumption DEF ClampQueryInt, Asked
<1>2. raw.set /\ raw.parses /\ raw.value \in Nat => n <= raw.value
  BY <1>1 DEF ClampQueryInt, Asked
<1>3. ~(raw.set /\ raw.parses /\ raw.value > 0) => n = 0
  BY <1>1 DEF ClampQueryInt, Asked
<1>4. OffsetOf(raw) = n
  <2>1. n \in Nat /\ n < 2 ^ (IntBits - 1)
    <3> DEFINE half == 2 ^ (IntBits - 1)
    <3>1. half \in Nat /\ MaxOffset < half
      BY ServerAssumption
    <3> HIDE DEF half, n
    <3>2. n \in Nat /\ n < half
      BY <1>1, <3>1
    <3> QED
      BY <3>2 DEF half
  <2> QED
    BY <2>1, Int32Same DEF OffsetOf
<1> QED
  BY <1>1, <1>2, <1>3, <1>4

LEMMA LimitRange ==
    ASSUME NEW r, Asked(r.limit), Pageable
    PROVE  PageLimit(r) \in Nat \ {0}
<1> DEFINE half == 2 ^ (IntBits - 1)
           n == ClampQueryInt(r.limit, 20, 1, cfg["PAGE_CAP"])
           cap == cfg["PAGE_CAP"]
<1>1. half \in Nat /\ 20 < half /\ cap \in Int /\ 1 <= cap /\ cap < half
  <2>1. half \in Nat /\ 20 < half
    BY ServerAssumption
  <2>2. cap \in 1 .. half - 1
    BY DEF Pageable
  <2> HIDE DEF half
  <2> QED
    BY <2>1, <2>2
<1>2. n \in Nat /\ 0 < n /\ n < half
  <2> HIDE DEF half
  <2> QED
    BY <1>1 DEF ClampQueryInt, Asked
<1>3. Int32(n) = n
  <2> HIDE DEF n
  <2> QED
    BY <1>2, Int32Same
<1> QED
  BY <1>2, <1>3 DEF PageLimit

LEMMA NewerCounts ==
    ASSUME NEW tab \in Seq(Nat), NEW i
    PROVE  IsFiniteSet(Newer(tab, i)) /\ Cardinality(Newer(tab, i)) \in Nat
<1>1. Newer(tab, i) \subseteq 1 .. Len(tab) /\ Len(tab) \in Nat
  BY DEF Newer
<1>2. IsFiniteSet(1 .. Len(tab))
  BY <1>1, FS_Interval
<1>3. IsFiniteSet(Newer(tab, i))
  BY <1>1, <1>2, FS_Subset
<1> QED
  BY <1>3, FS_CardinalityType

\* A page takes what it shows from those behind, and the rest is behind it too; an
\* empty one shows that nobody is left.
LEMMA PageAdvances ==
    ASSUME rows \in Seq(Nat), NEW order \in Orders, NEW o \in Nat, NEW l \in Nat,
           NEW ids \in SUBSET DOMAIN rows, Behind(rows, ids, o),
           NEW page, page = {order[i] : i \in {k \in DOMAIN rows : k > o /\ k <= o + l}}
    PROVE  /\ Behind(rows, ids \ page, o + l)
           /\ l # 0 /\ page = {} => \A i \in ids : ~Alone(rows, i)
<1>1. ASSUME NEW i \in ids, Alone(rows, i)
      PROVE  \E k \in DOMAIN rows : /\ order[k] = i /\ k \in Nat /\ k > o
                                    /\ Cardinality(Newer(rows, i)) = k - 1
  <2>1. PICK k \in DOMAIN rows : order[k] = i /\ Cardinality(Newer(rows, i)) = k - 1
    BY <1>1, Rank
  <2>2. o <= Cardinality(Newer(rows, i))
    BY <1>1 DEF Behind
  <2>3. k \in Nat
    OBVIOUS
  <2> QED
    BY <2>1, <2>2, <2>3
<1>2. Behind(rows, ids \ page, o + l)
  <2> SUFFICES ASSUME NEW i \in ids \ page, Alone(rows, i)
               PROVE  o + l <= Cardinality(Newer(rows, i))
    BY DEF Behind
  <2>1. PICK k \in DOMAIN rows : /\ order[k] = i /\ k \in Nat /\ k > o
                                 /\ Cardinality(Newer(rows, i)) = k - 1
    BY <1>1
  <2>2. ~(k <= o + l)
    BY <2>1
  <2> QED
    BY <2>1, <2>2
<1>3. ASSUME l # 0, page = {}, NEW i \in ids, Alone(rows, i)
      PROVE  FALSE
  <2>1. PICK k \in DOMAIN rows : order[k] = i /\ k \in Nat /\ k > o
    BY <1>1, <1>3
  <2>2. o + 1 \in DOMAIN rows /\ o + 1 > o /\ o + 1 <= o + l
    BY <1>3, <2>1
  <2>3. order[o + 1] \in page
    BY <2>2
  <2> QED
    BY <1>3, <2>3
<1> QED
  BY <1>2, <1>3

(* What a walk knows of a table: the submissions it still has to see are   *)
(* behind the offset it asks for next.                                     *)
Walking(tab, w) ==
    /\ DOMAIN w = {"on", "limit", "next", "old", "seen"}
    /\ w.old \subseteq DOMAIN tab
    /\ Asked(w.limit)
    /\ Pageable => Asked(w.next) /\ Behind(tab, w.old \ w.seen, OffsetOf(w.next))

WalkInv ==
    /\ Walking(rows, walk)
    /\ at = "handle" /\ req.kind = "list" =>
         /\ Asked(req.limit)
         /\ Pageable => /\ Asked(req.offset)
                        /\ Behind(rows, walk.old \ walk.seen, OffsetOf(req.offset))

LEMMA NoneWalking ==
    ASSUME NEW tab
    PROVE  Walking(tab, NoWalk)
<1>1. /\ NoWalk.old = {} /\ NoWalk.limit = Unset /\ NoWalk.next = Unset
      /\ DOMAIN NoWalk = {"on", "limit", "next", "old", "seen"}
  BY DEF NoWalk
<1>2. Asked(Unset)
  BY DEF Asked, Unset
<1>3. Behind(tab, {} \ NoWalk.seen, OffsetOf(Unset))
  BY DEF Behind
<1> QED
  BY <1>1, <1>2, <1>3 DEF Walking

(* The action that serves a page.                                          *)
LEMMA PageServed ==
    ASSUME AnswerInv, WalkInv, HandleList, status' = 200
    PROVE  /\ Walking(rows, walk')
           /\ Pageable /\ ~walk'.on =>
                \A i \in walk.old : Alone(rows, i) => i \in walk'.seen
<1> DEFINE o == PageOffset(req)
           l == PageLimit(req)
           Page(order) == {order[i] : i \in {k \in DOMAIN rows : k > o /\ k <= o + l}}
<1>1. /\ rows \in Seq(Nat) /\ Walking(rows, walk)
      /\ Asked(req.limit)
      /\ Pageable => /\ Asked(req.offset)
                     /\ Behind(rows, walk.old \ walk.seen, OffsetOf(req.offset))
  BY DEF AnswerInv, WalkInv, HandleList, Handling
<1>2. PICK order \in Orders :
        walk' = [walk EXCEPT !.on = Page(order) # {}, !.seen = @ \cup Page(order),
                             !.next = Is(o + l)]
  <2>1. ~Respond(500)
    BY DEF Respond
  <2> QED
    BY <2>1, Zenon DEF HandleList, Reported
<1> DEFINE page == Page(order)
<1>3. /\ walk'.seen = walk.seen \cup page /\ walk'.next = Is(o + l)
      /\ walk'.old = walk.old /\ walk'.limit = walk.limit
      /\ DOMAIN walk' = {"on", "limit", "next", "old", "seen"}
  BY <1>1, <1>2 DEF Walking
<1>4. walk'.on = (page # {})
  <2> DEFINE more == page # {}
  <2>1. walk' = [walk EXCEPT !.on = more, !.seen = @ \cup page, !.next = Is(o + l)]
    BY <1>2
  <2>2. DOMAIN walk = {"on", "limit", "next", "old", "seen"}
    BY <1>1 DEF Walking
  <2> HIDE DEF more, page, o, l
  <2>3. walk'.on = more
    BY <2>1, <2>2
  <2> QED
    BY <2>3 DEF more
<1>5. ASSUME Pageable
      PROVE  /\ Asked(walk'.next)
             /\ Behind(rows, walk'.old \ walk'.seen, OffsetOf(walk'.next))
             /\ page = {} => \A i \in walk.old \ walk.seen : ~Alone(rows, i)
  <2>1. o = OffsetOf(req.offset) /\ o \in Nat
    <3>1. o = OffsetOf(req.offset)
      BY DEF PageOffset, OffsetOf
    <3>2. MaxOffset \in Nat
      BY ServerAssumption
    <3> QED
      BY <1>1, <1>5, <3>1, <3>2, OffsetRange
  <2>2. l \in Nat /\ l # 0
    BY <1>1, <1>5, LimitRange
  <2>3. walk.old \ walk.seen \in SUBSET DOMAIN rows
    BY <1>1 DEF Walking
  <2>4. page = {order[i] : i \in {k \in DOMAIN rows : k > o /\ k <= o + l}}
    OBVIOUS
  <2> HIDE DEF o, l, page
  <2>5. /\ Behind(rows, (walk.old \ walk.seen) \ page, o + l)
        /\ page = {} => \A i \in walk.old \ walk.seen : ~Alone(rows, i)
    BY <1>1, <1>5, <2>1, <2>2, <2>3, <2>4, PageAdvances
  <2>6. walk'.old \ walk'.seen = (walk.old \ walk.seen) \ page
    BY <1>3
  <2>7. /\ Is(o + l).set = TRUE /\ Is(o + l).parses = TRUE
        /\ Is(o + l).value = o + l /\ o + l \in Nat
    BY <2>1, <2>2 DEF Is
  <2>8. Asked(Is(o + l)) /\ OffsetOf(Is(o + l)) \in Int /\ OffsetOf(Is(o + l)) <= o + l
    <3>1. Asked(Is(o + l))
      BY <2>7 DEF Asked
    <3>2. MaxOffset \in Nat
      BY ServerAssumption
    <3> QED
      BY <2>7, <3>1, <3>2, OffsetRange
  <2>9. Behind(rows, (walk.old \ walk.seen) \ page, OffsetOf(Is(o + l)))
    <3> SUFFICES ASSUME NEW i \in (walk.old \ walk.seen) \ page, Alone(rows, i)
                 PROVE  OffsetOf(Is(o + l)) <= Cardinality(Newer(rows, i))
      BY DEF Behind
    <3>1. o + l <= Cardinality(Newer(rows, i))
      BY <2>5 DEF Behind
    <3>2. Cardinality(Newer(rows, i)) \in Nat
      BY <1>1, NewerCounts
    <3> QED
      BY <2>7, <2>8, <3>1, <3>2
  <2> QED
    BY <1>3, <2>5, <2>6, <2>8, <2>9
<1>6. Walking(rows, walk')
  BY <1>1, <1>3, <1>5 DEF Walking
<1>7. ASSUME Pageable, ~walk'.on, NEW i \in walk.old, Alone(rows, i)
      PROVE  i \in walk'.seen
  <2>1. page = {}
    BY <1>4, <1>7
  <2>2. i \in walk.seen
    BY <1>5, <1>7, <2>1
  <2> QED
    BY <1>3, <2>2
<1> QED
  BY <1>6, <1>7

LEMMA WalkStep ==
    ASSUME AnswerInv, WalkInv, [Next]_vars
    PROVE  WalkInv'
<1>0. rows \in Seq(Nat) /\ Walking(rows, walk)
  BY DEF AnswerInv, WalkInv
<1>1. ASSUME env' = env, Walking(rows', walk'), at' # "handle"
      PROVE  WalkInv'
  BY <1>1 DEF WalkInv, Walking, Pageable, cfg
<1>2. ASSUME UNCHANGED <<env, rows, walk>>
      PROVE  env' = env /\ Walking(rows', walk')
  BY <1>0, <1>2
<1>3. CASE Boot \/ Decide \/ Enqueue \/ MarkFailed
  BY <1>1, <1>2, <1>3 DEF Boot, Decide, Enqueue, MarkFailed, Rest, store, Respond
<1>4. CASE HandleGet \/ HandleOther \/ WriteHeader \/ Recover
  BY <1>1, <1>2, <1>4 DEF HandleGet, HandleOther, WriteHeader, Recover, Rest, store, Respond
<1>5. CASE Persist
  <2>1. at' # "handle" /\ UNCHANGED <<env, walk>>
    BY <1>5 DEF Persist, Rest, Respond
  <2>2. CASE UNCHANGED rows
    BY <1>1, <1>2, <2>1, <2>2
  <2>3. CASE Insert
    <3>1. PICK t \in 1 .. MaxTime : rows' = Append(rows, t)
      BY <2>3 DEF Insert
    <3>2. t \in Nat
      BY ServerAssumption
    <3>3. DOMAIN rows \subseteq DOMAIN rows'
      BY <1>0, <3>1, <3>2
    <3>4. walk.old \subseteq DOMAIN rows
      BY <1>0 DEF Walking
    <3>5. Pageable => Behind(rows', walk.old \ walk.seen, OffsetOf(walk.next))
      <4> SUFFICES ASSUME Pageable
                   PROVE  Behind(rows', walk.old \ walk.seen, OffsetOf(walk.next))
        OBVIOUS
      <4>1. Asked(walk.next) /\ Behind(rows, walk.old \ walk.seen, OffsetOf(walk.next))
        BY <1>0 DEF Walking
      <4>2. OffsetOf(walk.next) \in Nat
        BY <4>1, OffsetRange, ServerAssumption
      <4>3. walk.old \ walk.seen \in SUBSET DOMAIN rows
        BY <3>4
      <4> QED
        BY <1>0, <3>1, <3>2, <4>1, <4>2, <4>3, BehindGrows
    <3>6. Walking(rows', walk)
      BY <1>0, <3>3, <3>4, <3>5 DEF Walking
    <3> QED
      BY <1>1, <2>1, <3>6
  <2> QED
    BY <1>5, <2>2, <2>3 DEF Persist
<1>6. CASE HandleList
  <2>1. env' = env /\ rows' = rows /\ at' # "handle"
    BY <1>6 DEF HandleList, Respond, store
  <2>2. walk' = NoWalk \/ status' = 200
    BY <1>6 DEF HandleList, Respond
  <2>3. Walking(rows, walk')
    BY <1>6, <2>2, NoneWalking, PageServed
  <2> QED
    BY <1>1, <2>1, <2>3
<1>7. CASE WriteBody \/ Log \/ Recovered \/ Panic
  <2>1. env' = env /\ rows' = rows /\ at' # "handle" /\ walk' \in {walk, NoWalk}
    BY <1>7 DEF WriteBody, Log, Recovered, Panic, Finish, store
  <2>2. Walking(rows', walk')
    BY <1>0, <2>1, NoneWalking
  <2> QED
    BY <1>1, <2>1, <2>2
<1>8. ASSUME NEW r \in Requests, Arrive(r)
      PROVE  WalkInv'
  <2>1. r.kind # "list"
    BY DEF Requests, Gets, Creates, Others
  <2>2. req' = r /\ UNCHANGED <<env, rows, walk>>
    BY <1>8 DEF Arrive, Receive
  <2> QED
    BY <1>0, <2>1, <2>2 DEF WalkInv, Walking, Pageable, cfg
<1>9. ASSUME NEW limit \in Limits, NEW offset \in {Unset, Junk, Is(-1)},
             StartWalk(limit, offset)
      PROVE  WalkInv'
  <2>1. /\ walk' = [NoWalk EXCEPT !.on = TRUE, !.limit = limit, !.old = DOMAIN rows]
        /\ req' = [kind |-> "list", limit |-> limit, offset |-> offset]
        /\ UNCHANGED <<env, rows>>
    BY <1>9 DEF StartWalk, Receive
  <2>2. /\ walk'.limit = limit /\ walk'.next = Unset /\ walk'.old = DOMAIN rows
        /\ DOMAIN walk' = {"on", "limit", "next", "old", "seen"}
    BY <2>1 DEF NoWalk
  <2>3. Asked(limit)
    BY ServerAssumption DEF Asked
  <2>4. ASSUME NEW raw \in {Unset, Junk, Is(-1)}
        PROVE  Asked(raw) /\ OffsetOf(raw) = 0
    <3>1. Asked(raw) /\ ~(raw.set /\ raw.parses /\ raw.value > 0)
      BY DEF Asked, Unset, Junk, Is
    <3> QED
      BY <3>1, OffsetRange
  <2>5. \A ids : Behind(rows, ids, 0)
    BY <1>0, NewerCounts DEF Behind
  <2>6. Walking(rows, walk')
    BY <2>2, <2>3, <2>4, <2>5 DEF Walking
  <2>7. req'.limit = limit /\ req'.offset = offset
    BY <2>1
  <2> QED
    BY <2>1, <2>3, <2>4, <2>5, <2>6, <2>7 DEF WalkInv, Walking, Pageable, cfg
<1>10. CASE NextPage
  <2>1. /\ req' = [kind |-> "list", limit |-> walk.limit, offset |-> walk.next]
        /\ UNCHANGED <<env, rows, walk>>
    BY <1>10 DEF NextPage, Receive
  <2>2. req'.limit = walk.limit /\ req'.offset = walk.next
    BY <2>1
  <2> QED
    BY <1>0, <2>1, <2>2 DEF WalkInv, Walking, Pageable, cfg
<1>11. CASE UNCHANGED vars
  BY <1>11 DEF vars, WalkInv, Walking, Pageable, cfg
<1> QED
  BY <1>3, <1>4, <1>5, <1>6, <1>7, <1>8, <1>9, <1>10, <1>11 DEF Next, Step, Down

(* handleListSubmissions, clampQueryInt: when the pages come to an end,    *)
(* the client has seen every submission that was there when it began and   *)
(* shares its created_at with no other, whatever arrived meanwhile.        *)
THEOREM WalksMissNothing == Spec => WalkMissesNothing
<1>1. Init => WalkInv
  <2> SUFFICES ASSUME Init PROVE WalkInv
    OBVIOUS
  <2>1. walk = NoWalk /\ at # "handle"
    BY DEF Init
  <2> QED
    BY <2>1, NoneWalking DEF WalkInv
<1> DEFINE Complete == (HandleList /\ status' = 200 /\ ~walk'.on
                         /\ cfg["PAGE_CAP"] \in 1 .. 2 ^ (IntBits - 1) - 1)
                       => \A i \in walk.old :
                            (\A j \in DOMAIN rows : rows[j] = rows[i] => j = i)
                               => i \in walk'.seen
<1>2. AnswerInv /\ WalkInv /\ [Next]_vars => [Complete]_vars
  BY PageServed DEF Pageable, Alone
<1>3. AnswerInv /\ WalkInv /\ [Next]_vars => WalkInv'
  BY WalkStep
<1> QED
  BY <1>1, <1>2, <1>3, AnswerInvariant, PTL DEF Spec, WalkMissesNothing
=============================================================================
