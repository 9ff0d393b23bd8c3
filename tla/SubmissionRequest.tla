------------------------- MODULE SubmissionRequest -------------------------
(***************************************************************************)
(* What POST /v1/submissions makes of a body: reading it through           *)
(* http.MaxBytesReader and encoding/json, the checks of                    *)
(* handleCreateSubmission in their order, and webhook.Validate.            *)
(*                                                                         *)
(* A text is a number of equal characters, as it is written in the JSON    *)
(* and as it is decoded: an escape is six bytes for one, and a byte that   *)
(* is not UTF-8 is replaced by the three of U+FFFD.                        *)
(***************************************************************************)
EXTENDS Configuration, LanguageRegistry, FiniteSets

Width ==
    [ plain   |-> [written |-> 1, decoded |-> 1],
      blank   |-> [written |-> 1, decoded |-> 1],
      escaped |-> [written |-> 6, decoded |-> 1],
      nul     |-> [written |-> 6, decoded |-> 1],
      invalid |-> [written |-> 1, decoded |-> 3] ]

Written(text) == text.chars * Width[text.kind].written
Decoded(text) == text.chars * Width[text.kind].decoded

\* strings.TrimSpace leaves nothing.
Blank(text) == text.kind = "blank" \/ text.chars = 0

\* A Postgres text column takes every decoded string but one with a NUL.
Storable(req) == \A text \in {req.code, req.stdin} : text.kind # "nul" \/ text.chars = 0

\* Keys, quotes and braces around the two texts.
Envelope == 100
ObjectLength(req) == Envelope + req.padding + Written(req.code) + Written(req.stdin)

-----------------------------------------------------------------------------
\* strings.ToLower(strings.TrimSpace(...)).
Normalise(language) == [word |-> language.word, spelled |-> "lower"]

Get(language) == language.spelled = "lower" /\ Known(language.word)

-----------------------------------------------------------------------------
(* An address is the sequence of its four octets; of IPv6 the code asks    *)
(* the same questions.                                                     *)

\* ip4[0] == 100 && ip4[1]&0xC0 == 64.
IsCarrierNat(ip) == ip[1] = 100 /\ ip[2] \div 64 = 1

\* The predicates of net.IP.
IsLoopback(ip)           == ip[1] = 127
IsPrivate(ip)            == \/ ip[1] = 10
                            \/ ip[1] = 172 /\ ip[2] \div 16 = 1
                            \/ ip[1] = 192 /\ ip[2] = 168
IsLinkLocalUnicast(ip)   == ip[1] = 169 /\ ip[2] = 254
IsLinkLocalMulticast(ip) == ip[1] = 224 /\ ip[2] = 0 /\ ip[3] = 0
IsUnspecified(ip)        == ip = <<0, 0, 0, 0>>

IsInternal(ip) ==
    \/ IsLoopback(ip) \/ IsPrivate(ip) \/ IsLinkLocalUnicast(ip)
    \/ IsLinkLocalMulticast(ip) \/ IsUnspecified(ip)
    \/ IsCarrierNat(ip)

\* Variant: one good address is enough.
ValidateAny(url, allowPrivate) ==
    /\ url.parses /\ url.scheme \in {"http", "https"} /\ url.host # "none"
    /\ \/ allowPrivate
       \/ url.ips = {} /\ url.host # "localhost"
       \/ \E ip \in url.ips : ~IsInternal(ip)

\* url.ips is what the host resolves to now, empty when it does not resolve.
Validate(url, allowPrivate) ==
    /\ url.parses /\ url.scheme \in {"http", "https"} /\ url.host # "none"
    /\ \/ allowPrivate
       \/ url.ips = {} /\ url.host # "localhost"
       \/ url.ips # {} /\ \A ip \in url.ips : ~IsInternal(ip)

-----------------------------------------------------------------------------
\* The early returns of handleCreateSubmission, in their order.  A syntax error
\* is met while reading, an unknown field only once the object has been read.
\* The second Decode has to return io.EOF, which neither a second value nor white
\* space up to the limit does.  What is not UTF-8 has been replaced by then, so
\* the check with utf8.ValidString cannot fail.
Checks(cfg, req) ==
    << [fails |-> req.json = "syntax",                         status |-> 400],
       [fails |-> ObjectLength(req) > BodyLimit(cfg),          status |-> 413],
       [fails |-> req.json = "unknownField",                   status |-> 400],
       [fails |-> req.second,                                  status |-> 400],
       [fails |-> ObjectLength(req) + req.spaces > BodyLimit(cfg), status |-> 400],
       [fails |-> ~Get(Normalise(req.language)),               status |-> 400],
       [fails |-> Blank(req.code),                             status |-> 400],
       [fails |-> Decoded(req.code) > cfg["MAX_CODE_BYTES"],   status |-> 413],
       [fails |-> Decoded(req.stdin) > cfg["MAX_STDIN_BYTES"], status |-> 413],
       [fails |-> req.webhook.given
                    /\ ~Validate(req.webhook, cfg["WEBHOOK_ALLOW_PRIVATE"]),
        status |-> 400] >>

Passes == 0

\* The status of the first check that fails.
Verdict(cfg, req) ==
    LET checks  == Checks(cfg, req)
        failing == {i \in DOMAIN checks : checks[i].fails}
    IN IF failing = {} THEN Passes ELSE checks[Min(failing)].status
=============================================================================
