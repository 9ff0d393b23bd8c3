--------------------------- MODULE WebhookDelivery ---------------------------
(***************************************************************************)
(* What becomes of the webhook tasks that ExecutionPipeline enqueues:      *)
(* handleWebhook (internal/worker) and Client.Deliver (internal/webhook).  *)
(* Both task types are consumed by the same worker processes, so delivery  *)
(* attempts take slots of the same Concurrency as executions.              *)
(*                                                                         *)
(* A delivery reads the row when it runs, not when the task was enqueued,  *)
(* and POSTs it to a receiver nobody controls: the request or its answer   *)
(* may be lost, late or refused.  A POST that was sent outlives the        *)
(* attempt that sent it.  An attempt that Asynq gives up on has its        *)
(* context cancelled, which ends every call it still makes, so nothing but *)
(* its POST remains of it.                                                 *)
(***************************************************************************)
EXTENDS ExecutionPipeline

CONSTANTS
    MaxHookRetry,  \* cfg.WebhookMaxRetries (5 in the code)
    MaxHooks,      \* bound on the webhook tasks followed for one submission
    HookFaults     \* the environment's faults that may hit a delivery attempt

HookFaultKinds ==
    { "dbErr",     \* the row cannot be read
      "lost",      \* the worker dies or loses its lease
      "shutdown" } \* the attempt outlives the shutdown grace period

ASSUME HookAssumption ==
    /\ MaxHookRetry \in Nat
    /\ MaxHooks \in Nat
    /\ HookFaults \subseteq HookFaultKinds

\* The n-th webhook task of a submission.
HookTasks == Subs \X (1 .. MaxHooks)

VARIABLES
    hookState,     \* the webhook task in Redis
    hookRetried,   \* its retry count
    hookRequeues,  \* how often a shutdown pushed it back (history)
    call,          \* where the attempt Asynq waits for is in handleWebhook
    body,          \* the row it has read, from which the body is built
    wire,          \* POSTs the receiver has not got yet
    sent,          \* POSTs sent for each task (history)
    seen,          \* bodies its receiver has got (history)
    acked          \* its receiver has answered one of them with a 2xx (history)

hookVars == <<hookState, hookRetried, hookRequeues, call, body, wire, sent, seen, acked>>
allVars  == <<vars, hookVars>>

Enqueued(t) == t[2] <= hooks[t[1]]

HookInit ==
    /\ hookState = [t \in HookTasks |-> "pending"]
    /\ hookRetried = [t \in HookTasks |-> 0]
    /\ hookRequeues = [t \in HookTasks |-> 0]
    /\ call = [t \in HookTasks |-> "none"]
    /\ body = [t \in HookTasks |-> AbsentRow]
    /\ wire = {}
    /\ sent = [t \in HookTasks |-> 0]
    /\ seen = [t \in HookTasks |-> {}]
    /\ acked = [t \in HookTasks |-> FALSE]

-----------------------------------------------------------------------------
(* Asynq (external), as far as the two task types share it.                *)

SlotFree ==
    Cardinality({h \in Handlers : Current(h)})
        + Cardinality({t \in HookTasks : call[t] # "none"}) < Concurrency

\* The attempt is over: what it held is gone.
EndCall(t) ==
    /\ call' = [call EXCEPT ![t] = "none"]
    /\ body' = [body EXCEPT ![t] = AbsentRow]

HookDequeue(t) ==
    /\ Enqueued(t)
    /\ hookState[t] \in Waiting
    /\ SlotFree
    /\ hookState' = [hookState EXCEPT ![t] = "active"]
    /\ call' = [call EXCEPT ![t] = "load"]
    /\ UNCHANGED <<hookRetried, hookRequeues, body, wire, sent, seen, acked>>

\* Variant: the retry count is not advanced.
HookRetriedUncounted(t, skipRetry) ==
    /\ hookState' = [hookState EXCEPT ![t] = IF skipRetry THEN "archived" ELSE "retry"]
    /\ UNCHANGED hookRetried

\* The attempt failed: scheduled again, or archived.
HookFailed(t, skipRetry) ==
    LET last == skipRetry \/ hookRetried[t] >= MaxHookRetry IN
    /\ hookState' = [hookState EXCEPT ![t] = IF last THEN "archived" ELSE "retry"]
    /\ hookRetried' = [hookRetried EXCEPT ![t] = IF last THEN @ ELSE @ + 1]

\* The worker dies or loses its lease; the task stays active in Redis.
HookLost(t) ==
    /\ "lost" \in HookFaults
    /\ call[t] # "none"
    /\ EndCall(t)
    /\ UNCHANGED <<hookState, hookRetried, hookRequeues, wire, sent, seen, acked>>

HookRecover(t) ==
    /\ hookState[t] = "active"
    /\ call[t] = "none"
    /\ HookFailed(t, FALSE)
    /\ UNCHANGED <<hookRequeues, call, body, wire, sent, seen, acked>>

HookShutdown(t) ==
    /\ "shutdown" \in HookFaults
    /\ call[t] # "none"
    /\ hookRequeues[t] < MaxRequeues
    /\ hookState' = [hookState EXCEPT ![t] = "pending"]
    /\ hookRequeues' = [hookRequeues EXCEPT ![t] = @ + 1]
    /\ EndCall(t)
    /\ UNCHANGED <<hookRetried, wire, sent, seen, acked>>

-----------------------------------------------------------------------------
(* handleWebhook and Deliver.                                              *)

\* GetSubmission: a missing row is not retried, an error is.
HookLoad(t) ==
    /\ call[t] = "load"
    /\ \E o \in {"ok"} \cup (IF "dbErr" \in HookFaults THEN {"err"} ELSE {}) :
          IF o = "ok" /\ rows[t[1]].status # "absent"
          THEN /\ call' = [call EXCEPT ![t] = "post"]
               /\ body' = [body EXCEPT ![t] = rows[t[1]]]
               /\ UNCHANGED <<hookState, hookRetried>>
          ELSE HookFailed(t, o = "ok") /\ EndCall(t)
    /\ UNCHANGED <<hookRequeues, wire, sent, seen, acked>>

HookPost(t) ==
    /\ call[t] = "post"
    /\ wire' = wire \cup {[task |-> t, nr |-> sent[t] + 1, body |-> body[t]]}
    /\ sent' = [sent EXCEPT ![t] = @ + 1]
    /\ call' = [call EXCEPT ![t] = "wait"]
    /\ body' = [body EXCEPT ![t] = AbsentRow]
    /\ UNCHANGED <<hookState, hookRetried, hookRequeues, seen, acked>>

\* Variant: any answer will do.
HookAnyAnswer(t) ==
    /\ call[t] \in {"2xx", "other"}
    /\ hookState' = [hookState EXCEPT ![t] = "completed"]
    /\ EndCall(t)
    /\ UNCHANGED <<hookRetried, hookRequeues, wire, sent, seen, acked>>

\* Delivered on any 2xx; a redirect is not followed and counts as a failure.
HookAnswered(t) ==
    /\ call[t] \in {"2xx", "other"}
    /\ IF call[t] = "2xx"
       THEN /\ hookState' = [hookState EXCEPT ![t] = "completed"]
            /\ UNCHANGED hookRetried
       ELSE HookFailed(t, FALSE)
    /\ EndCall(t)
    /\ UNCHANGED <<hookRequeues, wire, sent, seen, acked>>

\* Variant: neither the client nor the task has a timeout.
HookWaitsForever(t) == FALSE

\* The client's timeout or the attempt's own of 30 seconds, whichever is first,
\* or a connection that is refused or breaks.
HookUnanswered(t) ==
    /\ call[t] = "wait"
    /\ HookFailed(t, FALSE)
    /\ EndCall(t)
    /\ UNCHANGED <<hookRequeues, wire, sent, seen, acked>>

-----------------------------------------------------------------------------
(* The receiver and the network.                                           *)

Receive(m) ==
    /\ wire' = wire \ {m}
    /\ seen' = [seen EXCEPT ![m.task] = @ \cup {m.body}]
    /\ \E a \in {"2xx", "other"} :
          /\ acked' = [acked EXCEPT ![m.task] = @ \/ a = "2xx"]
          /\ call' = IF call[m.task] = "wait" /\ m.nr = sent[m.task]
                     THEN [call EXCEPT ![m.task] = a]
                     ELSE call
    /\ UNCHANGED <<hookState, hookRetried, hookRequeues, body, sent>>

Lose(m) ==
    /\ wire' = wire \ {m}
    /\ UNCHANGED <<hookState, hookRetried, hookRequeues, call, body, sent, seen, acked>>

-----------------------------------------------------------------------------
HookStep(t) == HookLoad(t) \/ HookPost(t) \/ HookAnswered(t) \/ HookUnanswered(t)

HookGiveUp(t) == HookLost(t) \/ HookShutdown(t)

PipelineStep ==
    \/ \E s \in Subs : ApiStep(s) \/ ClientDisconnect(s) \/ ApiCrash(s)
    \/ \E s \in Subs : Recover(s) \/ \E h \in Handlers : SlotFree /\ Dequeue(h, s)
    \/ \E h \in Handlers : HandlerStep(h) \/ GiveUp(h)

DeliveryStep ==
    \/ \E t \in HookTasks : HookDequeue(t) \/ HookRecover(t) \/ HookStep(t) \/ HookGiveUp(t)
    \/ \E m \in wire : Receive(m) \/ Lose(m)

HookOver(t) == hookState[t] \in {"completed", "archived"}

AllSettled == Settled /\ wire = {} /\ \A t \in HookTasks : Enqueued(t) => HookOver(t)

DeliveryInit == Init /\ HookInit

DeliveryNext ==
    \/ PipelineStep /\ UNCHANGED hookVars
    \/ DeliveryStep /\ UNCHANGED vars
    \/ AllSettled /\ UNCHANGED allVars

DeliverySpec == DeliveryInit /\ [][DeliveryNext]_allVars

(* As for the pipeline; a receiver is never required to answer.            *)
DeliveryFairness ==
    /\ \A s \in Subs : WF_allVars(ApiStep(s) /\ UNCHANGED hookVars)
    /\ \A s \in Subs :
          WF_allVars(/\ Recover(s) \/ \E h \in Handlers : SlotFree /\ Dequeue(h, s)
                     /\ UNCHANGED hookVars)
    /\ \A h \in Handlers : WF_allVars(HandlerStep(h) /\ UNCHANGED hookVars)
    /\ \A t \in HookTasks :
          /\ WF_allVars((HookDequeue(t) \/ HookRecover(t)) /\ UNCHANGED vars)
          /\ WF_allVars(HookStep(t) /\ UNCHANGED vars)

DeliveryFairSpec == DeliverySpec /\ DeliveryFairness

-----------------------------------------------------------------------------
(* Whatever a receiver is told is final: every body it ever gets, retries  *)
(* and late arrivals included, is that of a finished submission and what a *)
(* poll answers from then on (worker.go:205).  The one exception is a row  *)
(* that the API fails after its enqueue error although a worker has it.    *)
ReceiverSeesFinal ==
    \A t \in HookTasks : \A b \in seen[t] :
        /\ Finished(b)
        /\ b = rows[t[1]] \/ rows[t[1]].error = "enqueue"

(* A task leaves the queue as delivered only when its receiver has got the *)
(* body and answered it with a 2xx (webhook.go:38).                        *)
DeliveredIsAcked ==
    \A t \in HookTasks : hookState[t] = "completed" => seen[t] # {} /\ acked[t]

(* A receiver that is down is tried once, then once more per retry that is *)
(* counted and per shutdown, and no more (queue.go:68).                    *)
PostsBounded ==
    \A t \in HookTasks : sent[t] <= hookRetried[t] + hookRequeues[t] + 1

(* Every webhook task is eventually delivered or archived, although the    *)
(* receiver may never answer.                                              *)
EveryHookEnds == \A t \in HookTasks : Enqueued(t) ~> HookOver(t)
=============================================================================
