---------------------------- MODULE MCApiServer ----------------------------
(***************************************************************************)
(* A small instance of ApiServer for TLC.                                  *)
(***************************************************************************)
EXTENDS ApiServer

AllUnset == [k \in Keys |-> Unset]

\* 98293 bytes are the fewest whose entry is too long for Linux.  A page cap of
\* 2 is below the default of limit, 128 is the first that int32 does not hold.
SomeEnvs ==
    { [k \in Keys |-> Junk],
      [AllUnset EXCEPT !["MAX_CODE_BYTES"] = Is(90000), !["PAGE_CAP"] = Is(2)],
      [AllUnset EXCEPT !["MAX_CODE_BYTES"] = Is(98293)],
      [AllUnset EXCEPT !["WORKER_CONCURRENCY"] = Is(0)],
      [AllUnset EXCEPT !["PAGE_CAP"] = Is(0), !["WEBHOOK_ALLOW_PRIVATE"] = Is(TRUE)],
      [AllUnset EXCEPT !["PAGE_CAP"] = Is(128)] }

Good ==
    [ json |-> "object", padding |-> 0, second |-> FALSE, spaces |-> 0,
      language |-> [word |-> "python", spelled |-> "mixed"],
      code |-> Plain(10), stdin |-> Plain(0), webhook |-> NoHook ]

\* Accepted; refused with 400 and with 413; refused by Postgres.
SomeBodies ==
    { Good,
      [Good EXCEPT !.second = TRUE],
      [Good EXCEPT !.code = Plain(90001)],
      [Good EXCEPT !.code = [kind |-> "nul", chars |-> 1]] }

SomeLimits == {Unset, Is(-5), Is(200)}

AllServerFaults == ServerFaults
=============================================================================
