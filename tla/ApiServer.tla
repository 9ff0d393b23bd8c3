----------------------------- MODULE ApiServer -----------------------------
(***************************************************************************)
(* The HTTP server of cmd/api: recoverer(requestLogger(mux)) around the    *)
(* handlers, one request after the other, over a table of submissions that *)
(* only grows.  Each handler touches the table with single statements, so  *)
(* requests side by side reach it in one order or another.                 *)
(*                                                                         *)
(* Besides, one client walks through GET /v1/submissions page by page,     *)
(* while submissions keep arriving.  What becomes of a submission once it  *)
(* is enqueued is ExecutionPipeline's subject.                             *)
(***************************************************************************)
EXTENDS SubmissionRequest

CONSTANTS
    Envs,      \* environments the binary is started in
    Bodies,    \* bodies that arrive at POST /v1/submissions
    Limits,    \* limit parameters of the client that walks
    MaxRows,   \* bound on the submissions
    MaxTime,   \* bound on created_at
    MaxOffset, \* 1_000_000 in the code
    IntBits,   \* width of int32
    Faults     \* what may go wrong

ServerFaults ==
    { "db",      \* a statement reports an error
      "redis",   \* an enqueue reports an error
      "client",  \* the client does not get the whole body
      "panic" }  \* a handler panics

ASSUME ServerAssumption ==
    /\ MaxRows \in Nat /\ MaxTime \in Nat /\ MaxOffset \in Nat
    /\ IntBits \in Nat \ {0}
    /\ 2 ^ (IntBits - 1) \in Nat \ (0 .. 20)    \* an int32 holds the default limit
    /\ MaxOffset < 2 ^ (IntBits - 1)           \* and every offset
    /\ \A l \in Limits : l.set /\ l.parses => l.value \in Int
    /\ Faults \subseteq ServerFaults

\* strconv.ParseBool for the one switch, numbers for everything else.
Parsed(k) == IF k = "WEBHOOK_ALLOW_PRIVATE" THEN BOOLEAN ELSE Int

ASSUME EnvAssumption ==
    \A e \in Envs, k \in Keys : e[k].set /\ e[k].parses => e[k].value \in Parsed(k)

VARIABLES
    env,       \* the environment
    at,        \* where the server is
    req,       \* the request in hand
    status,    \* the status the handler has decided on
    sent,      \* the status on the wire, or none
    recorded,  \* statusRecorder's
    rows,      \* created_at of every submission; the id is the index
    mine,      \* the submission the request in hand has made
    accepted,  \* submissions some client was told of (history)
    walk       \* the walk through the pages

store == <<rows, mine>>
vars  == <<env, at, req, status, sent, recorded, rows, mine, accepted, walk>>

cfg == Load(env)

None   == 0
NoRequest == [kind |-> "none"]
NoRow  == [id |-> 0, enqueued |-> FALSE, failed |-> FALSE]
NoWalk == [on |-> FALSE, limit |-> Unset, next |-> Unset, old |-> {}, seen |-> {}]

Gets     == [kind : {"get"}, id : 0 .. MaxRows]   \* 0: not a UUID
Creates  == [kind : {"create"}, body : Bodies]
Others   == [kind : {"languages", "healthz", "readyz", "unrouted"}]
Requests == Gets \cup Creates \cup Others

Init ==
    /\ env \in Envs
    /\ at = "boot"
    /\ req = NoRequest
    /\ status = None /\ sent = None /\ recorded = None
    /\ rows = <<>> /\ mine = NoRow
    /\ accepted = {}
    /\ walk = NoWalk

\* main: a configuration that does not load ends the process.
Boot ==
    /\ at = "boot"
    /\ at' = IF Loads(env) THEN "idle" ELSE "down"
    /\ UNCHANGED <<env, req, status, sent, recorded, store, accepted, walk>>

-----------------------------------------------------------------------------
(* Requests.                                                               *)

\* requestLogger starts with a recorder that says 200.
Receive(r) ==
    /\ at = "idle"
    /\ at' = "handle"
    /\ req' = r
    /\ recorded' = 200
    /\ UNCHANGED <<status, sent, mine>>

Arrive(r) ==
    /\ Receive(r)
    /\ r.kind = "create" => Len(rows) < MaxRows
    /\ UNCHANGED <<env, rows, accepted, walk>>

\* The client asks for the first page ...
StartWalk(limit, offset) ==
    /\ ~walk.on
    /\ Receive([kind |-> "list", limit |-> limit, offset |-> offset])
    /\ walk' = [NoWalk EXCEPT !.on = TRUE, !.limit = limit, !.old = DOMAIN rows]
    /\ UNCHANGED <<env, rows, accepted>>

\* ... and for the next one.
NextPage ==
    /\ walk.on
    /\ Receive([kind |-> "list", limit |-> walk.limit, offset |-> walk.next])
    /\ UNCHANGED <<env, rows, accepted, walk>>

\* writeJSON with this status comes next.
Respond(code) == at' = "write" /\ status' = code

Handling(kind) == at = "handle" /\ req.kind = kind
Rest == <<env, req, sent, recorded, accepted, walk>>

-----------------------------------------------------------------------------
(* handleCreateSubmission.                                                 *)

Decide ==
    /\ Handling("create")
    /\ LET v == Verdict(cfg, req.body)
       IN IF v = Passes THEN at' = "persist" /\ UNCHANGED status ELSE Respond(v)
    /\ UNCHANGED <<store, Rest>>

\* created_at is the start of the transaction, so a row may appear after a newer one.
Insert ==
    /\ mine' = [NoRow EXCEPT !.id = Len(rows) + 1]
    /\ \E t \in 1 .. MaxTime : rows' = Append(rows, t)

\* Variant: an error of the insert is only logged.
PersistUnchecked ==
    /\ at = "persist"
    /\ at' = "enqueue"
    /\ \/ Storable(req.body) /\ Insert
       \/ "db" \in Faults /\ mine' = [NoRow EXCEPT !.id = Len(rows) + 1] /\ UNCHANGED rows
    /\ UNCHANGED <<status, Rest>>

\* An insert that reports an error may have taken effect.
Persist ==
    /\ at = "persist"
    /\ \/ /\ Storable(req.body)
          /\ Insert
          /\ \/ at' = "enqueue" /\ UNCHANGED status
             \/ "db" \in Faults /\ Respond(500)
       \/ /\ ~Storable(req.body) \/ "db" \in Faults
          /\ Respond(500)
          /\ UNCHANGED <<rows, mine>>
    /\ UNCHANGED Rest

\* Variant: the error path does not return.
EnqueueOrElse ==
    /\ at = "enqueue"
    /\ \/ mine' = [mine EXCEPT !.enqueued = TRUE]
       \/ "redis" \in Faults /\ UNCHANGED mine
    /\ Respond(202)
    /\ UNCHANGED <<rows, Rest>>

\* An enqueue that reports an error may have taken effect.
Enqueue ==
    /\ at = "enqueue"
    /\ \/ /\ mine' = [mine EXCEPT !.enqueued = TRUE]
          /\ Respond(202)
       \/ /\ "redis" \in Faults
          /\ \E effect \in BOOLEAN : mine' = [mine EXCEPT !.enqueued = effect]
          /\ at' = "fail"
          /\ UNCHANGED status
    /\ UNCHANGED <<rows, Rest>>

MarkFailed ==
    /\ at = "fail"
    /\ \/ mine' = [mine EXCEPT !.failed = TRUE]
       \/ "db" \in Faults /\ UNCHANGED mine
    /\ Respond(503)
    /\ UNCHANGED <<rows, Rest>>

-----------------------------------------------------------------------------
(* The other handlers.                                                     *)

\* The id of a submission that may exist later is one that does not exist now.
HandleGet ==
    /\ Handling("get")
    /\ \/ req.id = 0 /\ Respond(400)
       \/ req.id # 0 /\ "db" \in Faults /\ Respond(500)
       \/ req.id \in DOMAIN rows /\ Respond(200)
       \/ req.id # 0 /\ req.id \notin DOMAIN rows /\ Respond(404)
    /\ UNCHANGED <<store, Rest>>

\* strconv.Atoi of a parameter, or def.
ClampQueryInt(raw, def, min, max) ==
    LET n == raw.value
    IN IF ~raw.set \/ ~raw.parses THEN def
       ELSE IF n < min THEN min
       ELSE IF n > max THEN max
       ELSE n

Int32(n) == LET half == 2 ^ (IntBits - 1) IN ((n + half) % (2 * half)) - half

PageLimit(r)  == Int32(ClampQueryInt(r.limit, 20, 1, cfg["PAGE_CAP"]))
PageOffset(r) == Int32(ClampQueryInt(r.offset, 0, 0, MaxOffset))

\* ORDER BY created_at DESC: equal times come in any order, a new one each time.
Orders ==
    {p \in [DOMAIN rows -> DOMAIN rows] :
        /\ \A i, j \in DOMAIN rows : i # j => p[i] # p[j]
        /\ \A i, j \in DOMAIN rows : i < j => rows[p[i]] >= rows[p[j]]}

\* Variant: the page says the limit that was asked for.
ReportedAsAsked(r) == IF r.limit.set /\ r.limit.parses THEN r.limit.value ELSE 20

\* listResponse's limit.
Reported(r) == PageLimit(r)

\* The client steps by what the page says, and stops at an empty one.
HandleList ==
    /\ Handling("list")
    /\ \/ /\ "db" \in Faults \/ PageLimit(req) < 0 \/ PageOffset(req) < 0
          /\ Respond(500)
          /\ walk' = NoWalk
       \/ /\ PageLimit(req) >= 0 /\ PageOffset(req) >= 0
          /\ Respond(200)
          /\ \E order \in Orders :
                LET page == {order[i] : i \in {k \in DOMAIN rows :
                                /\ k > PageOffset(req)
                                /\ k <= PageOffset(req) + PageLimit(req)}}
                IN walk' = [walk EXCEPT
                              !.on = page # {},
                              !.seen = @ \cup page,
                              !.next = Is(PageOffset(req) + Reported(req))]
    /\ UNCHANGED <<store, env, req, sent, recorded, accepted>>

\* handleListLanguages and handleHealthz ask nobody; handleReadyz asks both
\* datastores; what the mux does not know it answers itself.
HandleOther ==
    /\ \/ Handling("languages") /\ Respond(200)
       \/ Handling("healthz") /\ Respond(200)
       \/ Handling("readyz") /\ Respond(200)
       \/ Handling("readyz") /\ Faults \cap {"db", "redis"} # {} /\ Respond(503)
       \/ Handling("unrouted") /\ \E code \in {404, 405} : Respond(code)
    /\ UNCHANGED <<store, Rest>>

-----------------------------------------------------------------------------
(* The way out.                                                            *)

\* statusRecorder.WriteHeader.
WriteHeader ==
    /\ at = "write"
    /\ sent' = status
    /\ recorded' = status
    /\ at' = "body"
    /\ UNCHANGED <<env, req, status, store, accepted, walk>>

\* Encode; its error is dropped.
WriteBody ==
    /\ at = "body"
    /\ at' = "log"
    /\ \/ /\ accepted' = IF sent = 202 THEN accepted \cup {mine.id} ELSE accepted
          /\ UNCHANGED walk
       \/ /\ "client" \in Faults
          /\ walk' = IF req.kind = "list" THEN NoWalk ELSE walk
          /\ UNCHANGED accepted
    /\ UNCHANGED <<env, req, status, sent, recorded, store>>

\* The request is over, and what belonged to it is gone.
Finish ==
    /\ at' = "idle"
    /\ req' = NoRequest
    /\ status' = None /\ sent' = None /\ recorded' = None /\ mine' = NoRow
    /\ walk' = IF walk.on THEN walk ELSE NoWalk
    /\ UNCHANGED <<env, rows, accepted>>

Log == at = "log" /\ Finish

\* The panic unwinds through requestLogger, which then writes no line.
Panic ==
    /\ "panic" \in Faults
    /\ at \in {"handle", "persist", "enqueue", "fail", "write", "body"}
    /\ at' = "recover"
    /\ walk' = IF req.kind = "list" THEN NoWalk ELSE walk
    /\ UNCHANGED <<env, req, status, sent, recorded, store, accepted>>

\* Variant: nobody recovers but net/http, which closes the connection.
RecoverSilently ==
    /\ at = "recover"
    /\ Finish

\* recoverer: on the wire a second WriteHeader has no effect.
Recover ==
    /\ at = "recover"
    /\ sent' = IF sent = None THEN 500 ELSE sent
    /\ at' = "recovered"
    /\ UNCHANGED <<env, req, status, recorded, store, accepted, walk>>

Recovered == at = "recovered" /\ Finish

-----------------------------------------------------------------------------
Step ==
    \/ Boot
    \/ Decide \/ Persist \/ Enqueue \/ MarkFailed
    \/ HandleGet \/ HandleList \/ HandleOther
    \/ WriteHeader \/ WriteBody \/ Log \/ Recover \/ Recovered

Down == at = "down" /\ UNCHANGED vars

Next ==
    \/ Step
    \/ \E r \in Requests : Arrive(r)
    \/ \E limit \in Limits, offset \in {Unset, Junk, Is(-1)} : StartWalk(limit, offset)
    \/ NextPage
    \/ Panic
    \/ Down

Spec == Init /\ [][Next]_vars

\* A handler goes on: every call it makes returns, if only with an error.
FairSpec == Spec /\ WF_vars(Step)

-----------------------------------------------------------------------------
(* What the answers say.                                                   *)

\* handleCreateSubmission, writeJSON, requestLogger: a 202 on the wire means that
\* the submission is enqueued and not marked failed, a refusal that there is none,
\* and the status in the log line is the one on the wire.
StatusTellsTheStore ==
    /\ at = "log" => recorded = sent
    /\ sent = 202 => mine.enqueued /\ ~mine.failed
    /\ sent \in {400, 404, 405, 413} => mine = NoRow

\* handleGetSubmission after handleCreateSubmission: a submission whose id some
\* client was given is never reported as not found, whatever happened in between.
AcceptedIsFound == req.kind = "get" /\ sent = 404 => req.id \notin accepted

\* recoverer, writeJSON: every request gets a status, and the server goes on,
\* panics included.
EveryRequestAnswered == at = "handle" ~> sent # None

\* handleListSubmissions, clampQueryInt: a client that steps by the limit the page
\* reports, and stops at an empty page, has seen every submission that was there
\* when it began and shares its created_at with no other, although submissions
\* arrive meanwhile.  PAGE_CAP has to be positive and fit an int32.
WalkMissesNothing ==
    [][(HandleList /\ status' = 200 /\ ~walk'.on
          /\ cfg["PAGE_CAP"] \in 1 .. 2 ^ (IntBits - 1) - 1)
        => \A i \in walk.old :
              (\A j \in DOMAIN rows : rows[j] = rows[i] => j = i) => i \in walk'.seen]_vars

-----------------------------------------------------------------------------
(* What the limits add up to, for every configuration that loads and every *)
(* request of a large set.                                                 *)

Loaded == at = "boot" /\ Loads(env)

Texts(max, kinds) ==
    {[kind |-> k, chars |-> n] : k \in kinds, n \in {0, 1, max \div 3, max, max + 1}}

Plain(n)  == [kind |-> "plain", chars |-> n]
NoHook    == [given |-> FALSE, parses |-> FALSE, scheme |-> "", host |-> "none", ips |-> {}]
Spellings == [word : DOMAIN Registry \cup {"cobol"}, spelled : {"lower", "mixed"}]

AllBodies ==
    [ json     : {"object", "unknownField", "syntax"},
      padding  : {0, 3000},
      second   : BOOLEAN,
      spaces   : {0, 5000},
      language : {l \in Spellings : l.word \in {"python", "cobol"}},
      code     : Texts(cfg["MAX_CODE_BYTES"], DOMAIN Width),
      stdin    : Texts(cfg["MAX_STDIN_BYTES"], {"plain", "escaped"}),
      webhook  : {NoHook} ]

\* config.Load, handleCreateSubmission, createContainer, WarmImages: what passes
\* the checks can be run. Its code fits the one environment entry Linux allows it,
\* and the worker warms the image of its language, once.
AcceptedCanRun ==
    Loaded =>
        /\ \A b \in AllBodies :
              Verdict(cfg, b) = Passes => CodeEntry(Decoded(b.code)) <= MaxArgStrlen
        /\ \A l \in Spellings :
              Get(Normalise(l)) =>
                Cardinality({i \in DOMAIN Images : Images[i] = Registry[l.word].image}) = 1

\* handleCreateSubmission: a submission in a known language, however spelled, whose
\* code and input are within the documented limits and need no escapes, and whose
\* envelope stays below 4 KiB, is never refused.
WithinLimitsPasses ==
    Loaded =>
        \A b \in AllBodies :
            (/\ b.json = "object" /\ ~b.second /\ b.padding + b.spaces + Envelope <= 4096
             /\ Known(b.language.word)
             /\ b.code.kind = "plain" /\ b.code.chars \in 1 .. cfg["MAX_CODE_BYTES"]
             /\ b.stdin.kind = "plain" /\ b.stdin.chars <= cfg["MAX_STDIN_BYTES"])
            => Verdict(cfg, b) = Passes

\* First three octets as a number.
Prefix24(ip) == ip[1] * 65536 + ip[2] * 256 + ip[3]

\* The ranges of the RFCs: loopback, private use, link local, shared address space.
Reserved ==
    { [lo |-> <<127, 0, 0>>, hi |-> <<127, 255, 255>>],
      [lo |-> <<10, 0, 0>>, hi |-> <<10, 255, 255>>],
      [lo |-> <<172, 16, 0>>, hi |-> <<172, 31, 255>>],
      [lo |-> <<192, 168, 0>>, hi |-> <<192, 168, 255>>],
      [lo |-> <<169, 254, 0>>, hi |-> <<169, 254, 255>>],
      [lo |-> <<224, 0, 0>>, hi |-> <<224, 0, 0>>],
      [lo |-> <<100, 64, 0>>, hi |-> <<100, 127, 255>>] }

InReserved(ip) ==
    \/ ip = <<0, 0, 0, 0>>
    \/ \E r \in Reserved : Prefix24(ip) \in Prefix24(r.lo) .. Prefix24(r.hi)

\* The ends of every range and their neighbours, and two ordinary addresses.
Firsts ==
    { <<0, 0, 0, 0>>, <<10, 0, 0, 0>>, <<100, 64, 0, 0>>, <<127, 0, 0, 0>>,
      <<169, 254, 0, 0>>, <<172, 16, 0, 0>>, <<192, 168, 0, 0>>, <<224, 0, 0, 0>> }
Lasts ==
    { <<10, 255, 255, 255>>, <<100, 127, 255, 255>>, <<127, 255, 255, 255>>,
      <<169, 254, 255, 255>>, <<172, 31, 255, 255>>, <<192, 168, 255, 255>>, <<224, 0, 0, 255>> }
Before ==
    { <<9, 255, 255, 255>>, <<100, 63, 255, 255>>, <<126, 255, 255, 255>>,
      <<169, 253, 255, 255>>, <<172, 15, 255, 255>>, <<192, 167, 255, 255>>, <<223, 255, 255, 255>> }
After ==
    { <<0, 0, 0, 1>>, <<11, 0, 0, 0>>, <<100, 128, 0, 0>>, <<128, 0, 0, 0>>,
      <<169, 255, 0, 0>>, <<172, 32, 0, 0>>, <<192, 169, 0, 0>>, <<224, 0, 1, 0>> }
Addresses == Firsts \cup Lasts \cup Before \cup After \cup {<<8, 8, 8, 8>>, <<203, 0, 113, 7>>}

\* webhook.Validate, isInternal: unless WEBHOOK_ALLOW_PRIVATE is set, a host that
\* resolves passes exactly when none of its addresses lies in a reserved range,
\* and localhost does not pass even when it does not resolve.
HooksStayOutside ==
    Loaded /\ ~cfg["WEBHOOK_ALLOW_PRIVATE"] =>
        \A a, b \in Addresses, host \in {"name", "localhost"} :
            LET url(ips) == [given |-> TRUE, parses |-> TRUE, scheme |-> "https",
                             host |-> host, ips |-> ips]
            IN /\ Validate(url({a, b}), FALSE) <=> ~InReserved(a) /\ ~InReserved(b)
               /\ Validate(url({}), FALSE) <=> host # "localhost"

\* handleCreateSubmission, Execute: asynq's timeout of a task comes after the last
\* moment at which Execute, once it has the image, can still be busy, its kill or
\* its wait for the output and its cleanup, each under a limit of its own, included.
TimesFitTogether == Loaded => LongestExecution(cfg) < TaskTimeout(cfg)
=============================================================================
