------------------------ MODULE SubmissionLifecycle ------------------------
(***************************************************************************)
(* What the service promises the caller of GET /v1/submissions/{id}: a     *)
(* submission is queued, then running, then completed with the result of   *)
(* one run, or failed with an error; once finished, what the caller polls  *)
(* never changes again.  Retries, queues, crashes and webhooks are not     *)
(* visible here.                                                           *)
(***************************************************************************)
EXTENDS Naturals

CONSTANT Subs

VARIABLES status, result

lifecycleVars == <<status, result>>

Init ==
    /\ status = [s \in Subs |-> "absent"]
    /\ result = [s \in Subs |-> 0]

Move(s, from, to) ==
    /\ status[s] \in from
    /\ status' = [status EXCEPT ![s] = to]

Accept(s) == Move(s, {"absent"}, "queued") /\ UNCHANGED result

Start(s) == Move(s, {"queued"}, "running") /\ UNCHANGED result

Complete(s) ==
    /\ Move(s, {"running"}, "completed")
    /\ result'[s] \in Nat \ {0}
    /\ result' = [result EXCEPT ![s] = result'[s]]

Fail(s) == Move(s, {"queued", "running"}, "failed") /\ UNCHANGED result

Next == \E s \in Subs : Accept(s) \/ Start(s) \/ Complete(s) \/ Fail(s)

Spec == Init /\ [][Next]_lifecycleVars
=============================================================================
