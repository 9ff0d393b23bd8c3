------------------------- MODULE ExecutionPipeline -------------------------
(***************************************************************************)
(* The life of a submission from POST /v1/submissions to a finished row:   *)
(* the API handler that persists and enqueues it (internal/api), the       *)
(* Asynq task that carries it (internal/queue, external library), and the  *)
(* worker handler that runs it and stores the result (internal/worker).    *)
(*                                                                         *)
(* Each call to Postgres or Redis is a step of its own, since every other  *)
(* process may act between two of them.  A call made with a context can    *)
(* succeed, fail without effect, or take effect and still report an error  *)
(* (the acknowledgement is lost).  When Asynq gives an attempt up (its     *)
(* deadline, a lost lease, the end of a shutdown grace period) it cancels  *)
(* the attempt's context and moves on, but the handler goroutine carries   *)
(* on: a later attempt for the same submission may run beside it.          *)
(*                                                                         *)
(* The body sent to a webhook, the container and the images are modelled   *)
(* in other modules; here a webhook is one more task put in Redis and      *)
(* Execute is a run that ends with an outcome or with an engine error.     *)
(***************************************************************************)
EXTENDS SubmissionStore, FiniteSets

CONSTANTS
    Subs,          \* submission ids, one POST each
    Handlers,      \* handler goroutines, given-up ones included
    NoJob,         \* the job of an idle handler
    Concurrency,   \* cfg.WorkerConcurrency: attempts Asynq runs at a time
    MaxRetry,      \* asynq.MaxRetry of an execute task (2 in the code)
    MaxRequeues,   \* bound on the attempts of one task cut by a shutdown
    Faults         \* the environment's faults that may happen

FaultKinds ==
    { "dbErr",          \* a Postgres call fails without effect
      "dbLostAck",      \* a Postgres write commits but its caller sees an error
      "enqueueErr",     \* a Redis enqueue fails without effect
      "enqueueLostAck", \* Redis has the task but its caller sees an error
      "disconnect",     \* the HTTP client goes away during its POST
      "engine",         \* Execute fails: image, daemon or budget
      "langRemoved",    \* a worker's registry lacks the row's language
      "timeout",        \* asynq.Timeout of an attempt elapses
      "leaseLost",      \* a worker cannot extend its lease in Redis
      "shutdown",       \* an attempt outlives the shutdown grace period
      "crash",          \* an API or worker process dies
      "lateWrite",      \* a statement commits after its context was cancelled
      "badText" }       \* the code, or a run's output, has bytes that no text
                        \* column takes: a NUL, or a character cut by the cap

ASSUME PipelineAssumption ==
    /\ NoJob \notin Subs
    /\ Concurrency \in Nat \ {0}
    /\ MaxRetry \in Nat
    /\ MaxRequeues \in Nat
    /\ Faults \subseteq FaultKinds

VARIABLES
    api,        \* where the POST of each submission is
    apiCtx,     \* r.Context() of that request
    rows,       \* the submissions table
    taskState,  \* the execute task in Redis
    retried,    \* its retry count in Redis
    requeues,   \* how often a shutdown pushed it back (history)
    pc,         \* where each handler goroutine is in handleExecute
    job,        \* the submission it handles
    ctx,        \* its context
    tries,      \* the retry count its context carries
    held,       \* the run whose outcome it holds, 0 before there is one
    hooks,      \* webhook tasks enqueued for each submission
    runs        \* programs started for each submission (history)

apiVars     == <<api, apiCtx>>
taskVars    == <<taskState, retried, requeues>>
attemptVars == <<job, tries, held>>
vars        == <<api, apiCtx, rows, taskState, retried, requeues,
                 pc, job, ctx, tries, held, hooks, runs>>

ApiDone   == {"accepted", "rejected", "unavailable", "gone"}
ApiStates == {"new", "enqueue", "fail"} \cup ApiDone
CtxStates == {"live", "midcall", "done"}
Returned  == {"retNil", "retErr", "retSkip"}
CallPcs   == {"mark", "complete", "unsupported", "recordFailure", "notify"}
HandlerPcs == {"idle", "load", "execute", "running"} \cup CallPcs \cup Returned
Waiting   == {"pending", "retry"}
TaskStates == {"none", "active", "completed", "archived"} \cup Waiting

Init ==
    /\ api = [s \in Subs |-> "new"]
    /\ apiCtx = [s \in Subs |-> "live"]
    /\ rows = [s \in Subs |-> AbsentRow]
    /\ taskState = [s \in Subs |-> "none"]
    /\ retried = [s \in Subs |-> 0]
    /\ requeues = [s \in Subs |-> 0]
    /\ pc = [h \in Handlers |-> "idle"]
    /\ job = [h \in Handlers |-> NoJob]
    /\ ctx = [h \in Handlers |-> "done"]
    /\ tries = [h \in Handlers |-> 0]
    /\ held = [h \in Handlers |-> 0]
    /\ hooks = [s \in Subs |-> 0]
    /\ runs = [s \in Subs |-> 0]

-----------------------------------------------------------------------------
(* What a call can come back with.  A cancelled context refuses the call;  *)
(* "midcall" is a context cancelled after the request had been sent, whose *)
(* effect may still land although the caller sees an error.                *)

Outcomes(c, err, lostAck) ==
    CASE c = "live"    -> {"ok"} \cup (IF err \in Faults THEN {"err"} ELSE {})
                                 \cup (IF lostAck \in Faults THEN {"lostAck"} ELSE {})
      [] c = "midcall" -> {"err", "lostAck"}
      [] c = "done"    -> {"err"}

DbOutcomes(c)    == Outcomes(c, "dbErr", "dbLostAck")
RedisOutcomes(c) == Outcomes(c, "enqueueErr", "enqueueLostAck")

\* A statement with text of the caller or of the program, which Postgres refuses
\* unless it is UTF-8 without NULs.  Nothing on the way makes it so.
TextOutcomes(c) == DbOutcomes(c) \cup (IF "badText" \in Faults THEN {"err"} ELSE {})

Applied(o) == o \in {"ok", "lostAck"}

-----------------------------------------------------------------------------
(* handleCreateSubmission: validate, persist, enqueue, answer.             *)

\* net/http cancels the request's context when the handler returns.
ApiGoto(s, next) ==
    /\ api' = [api EXCEPT ![s] = next]
    /\ apiCtx' = [apiCtx EXCEPT ![s] =
                    IF next \in ApiDone \/ @ = "midcall" THEN "done" ELSE @]

\* 400 or 413: the body, language, sizes, encoding or webhook URL are refused.
RejectRequest(s) ==
    /\ api[s] = "new"
    /\ ApiGoto(s, "rejected")
    /\ UNCHANGED <<rows, taskVars, pc, ctx, attemptVars, hooks, runs>>

\* Variant: enqueue first, persist second.
PersistAfterEnqueue(s) ==
    /\ api[s] = "new"
    /\ ApiGoto(s, "enqueue")
    /\ UNCHANGED <<rows, taskVars, pc, ctx, attemptVars, hooks, runs>>

PersistSubmission(s) ==
    /\ api[s] = "new"
    /\ \E webhook \in BOOLEAN, o \in TextOutcomes(apiCtx[s]) :
          /\ rows' = IF Applied(o)
                     THEN [rows EXCEPT ![s] = CreateSubmission(webhook)]
                     ELSE rows
          /\ ApiGoto(s, IF o = "ok" THEN "enqueue" ELSE "rejected")
    /\ UNCHANGED <<taskVars, pc, ctx, attemptVars, hooks, runs>>

EnqueueExecute(s) ==
    /\ api[s] = "enqueue"
    /\ \E o \in RedisOutcomes(apiCtx[s]) :
          /\ taskState' = IF Applied(o)
                          THEN [taskState EXCEPT ![s] = "pending"]
                          ELSE taskState
          /\ ApiGoto(s, IF o = "ok" THEN "accepted" ELSE "fail")
    /\ UNCHANGED <<rows, retried, requeues, pc, ctx, attemptVars, hooks, runs>>

\* 503 whether or not the row could be marked: the error is only logged.
FailAfterEnqueueError(s) ==
    /\ api[s] = "fail"
    /\ \E o \in DbOutcomes(apiCtx[s]) :
          rows' = IF Applied(o)
                  THEN [rows EXCEPT ![s] = FailSubmission(@, "enqueue")]
                  ELSE rows
    /\ ApiGoto(s, "unavailable")
    /\ UNCHANGED <<taskVars, pc, ctx, attemptVars, hooks, runs>>

\* The client closes its connection: r.Context() is cancelled.
ClientDisconnect(s) ==
    /\ "disconnect" \in Faults
    /\ api[s] \notin ApiDone
    /\ apiCtx[s] = "live"
    /\ \E c \in {"midcall", "done"} : apiCtx' = [apiCtx EXCEPT ![s] = c]
    /\ UNCHANGED <<api, rows, taskVars, pc, ctx, attemptVars, hooks, runs>>

\* The API process dies, or its shutdown grace ends, within the handler.
ApiCrash(s) ==
    /\ "crash" \in Faults
    /\ api[s] \in {"enqueue", "fail"}
    /\ ApiGoto(s, "gone")
    /\ UNCHANGED <<rows, taskVars, pc, ctx, attemptVars, hooks, runs>>

-----------------------------------------------------------------------------
(* Asynq (external): what the worker's server does with an execute task.   *)

\* The attempt Asynq still waits for: it holds the lease and a live context.
Current(h) == ctx[h] = "live"

Dequeue(h, s) ==
    /\ pc[h] = "idle"
    /\ taskState[s] \in Waiting
    /\ Cardinality({g \in Handlers : Current(g)}) < Concurrency
    /\ taskState' = [taskState EXCEPT ![s] = "active"]
    /\ pc' = [pc EXCEPT ![h] = "load"]
    /\ job' = [job EXCEPT ![h] = s]
    /\ ctx' = [ctx EXCEPT ![h] = "live"]
    /\ tries' = [tries EXCEPT ![h] = retried[s]]
    /\ UNCHANGED <<apiVars, rows, retried, requeues, held, hooks, runs>>

\* Variant: the retry count is not advanced.
RetryWithoutCount(s, skipRetry) ==
    IF skipRetry
    THEN /\ taskState' = [taskState EXCEPT ![s] = "archived"]
         /\ UNCHANGED retried
    ELSE /\ taskState' = [taskState EXCEPT ![s] = "retry"]
         /\ retried' = retried

\* Variant: one retry too many.
RetryOnceMore(s, skipRetry) ==
    IF skipRetry \/ retried[s] > MaxRetry
    THEN /\ taskState' = [taskState EXCEPT ![s] = "archived"]
         /\ UNCHANGED retried
    ELSE /\ taskState' = [taskState EXCEPT ![s] = "retry"]
         /\ retried' = [retried EXCEPT ![s] = @ + 1]

\* An attempt failed: scheduled again, or archived (the dead-letter queue).
FailedMessage(s, skipRetry) ==
    IF skipRetry \/ retried[s] >= MaxRetry
    THEN /\ taskState' = [taskState EXCEPT ![s] = "archived"]
         /\ UNCHANGED retried
    ELSE /\ taskState' = [taskState EXCEPT ![s] = "retry"]
         /\ retried' = [retried EXCEPT ![s] = @ + 1]

\* The goroutine ends.
Release(h) ==
    /\ pc' = [pc EXCEPT ![h] = "idle"]
    /\ job' = [job EXCEPT ![h] = NoJob]
    /\ ctx' = [ctx EXCEPT ![h] = "done"]
    /\ tries' = [tries EXCEPT ![h] = 0]
    /\ held' = [held EXCEPT ![h] = 0]

\* handleExecute has returned; nobody listens to an attempt given up on.
Return(h) ==
    /\ pc[h] \in Returned
    /\ IF ctx[h] # "live"
       THEN UNCHANGED <<taskState, retried>>
       ELSE IF pc[h] = "retNil"
       THEN /\ taskState' = [taskState EXCEPT ![job[h]] = "completed"]
            /\ UNCHANGED retried
       ELSE FailedMessage(job[h], pc[h] = "retSkip")
    /\ Release(h)
    /\ UNCHANGED <<apiVars, rows, requeues, hooks, runs>>

Cancel(h) ==
    \E c \in {"done"} \cup (IF "lateWrite" \in Faults /\ pc[h] \in CallPcs
                            THEN {"midcall"} ELSE {}) :
        ctx' = [ctx EXCEPT ![h] = c]

\* asynq.Timeout: a failed attempt, while its handler is still running.
AttemptTimeout(h) ==
    /\ "timeout" \in Faults
    /\ Current(h)
    /\ FailedMessage(job[h], FALSE)
    /\ Cancel(h)
    /\ UNCHANGED <<apiVars, rows, requeues, pc, attemptVars, hooks, runs>>

\* The task stays active in Redis until the recoverer finds it.
LeaseLost(h) ==
    /\ "leaseLost" \in Faults
    /\ Current(h)
    /\ Cancel(h)
    /\ UNCHANGED <<apiVars, rows, taskVars, pc, attemptVars, hooks, runs>>

\* ShutdownTimeout elapses: the message goes back uncounted.
ShutdownAbort(h) ==
    /\ "shutdown" \in Faults
    /\ Current(h)
    /\ requeues[job[h]] < MaxRequeues
    /\ taskState' = [taskState EXCEPT ![job[h]] = "pending"]
    /\ requeues' = [requeues EXCEPT ![job[h]] = @ + 1]
    /\ Cancel(h)
    /\ UNCHANGED <<apiVars, rows, retried, pc, attemptVars, hooks, runs>>

\* The worker process of this goroutine dies; Redis keeps the task active.
WorkerCrash(h) ==
    /\ "crash" \in Faults
    /\ pc[h] # "idle"
    /\ Release(h)
    /\ UNCHANGED <<apiVars, rows, taskVars, hooks, runs>>

\* The recoverer treats an active task without a lease as a failed attempt.
Recover(s) ==
    /\ taskState[s] = "active"
    /\ \A h \in Handlers : Current(h) => job[h] # s
    /\ FailedMessage(s, FALSE)
    /\ UNCHANGED <<apiVars, rows, requeues, pc, ctx, attemptVars, hooks, runs>>
-----------------------------------------------------------------------------
(* handleExecute, one step per call it makes.                              *)

Goto(h, next) ==
    /\ pc' = [pc EXCEPT ![h] = next]
    /\ ctx' = [ctx EXCEPT ![h] = IF @ = "midcall" THEN "done" ELSE @]

\* Variant: a finished submission is not skipped.
LoadWithoutSkip(h) ==
    /\ pc[h] = "load"
    /\ Goto(h, IF ctx[h] = "live" THEN "mark" ELSE "retErr")
    /\ UNCHANGED <<apiVars, rows, taskVars, attemptVars, hooks, runs>>

\* GetSubmission, the skip of a finished submission, and lang.Get.
LoadSubmission(h) ==
    LET row   == rows[job[h]]
        found == CASE row.status = "absent" -> {"retSkip"}
                   [] Finished(row)         -> {"retNil"}
                   [] OTHER                 -> {"mark"} \cup
                        (IF "langRemoved" \in Faults THEN {"unsupported"} ELSE {})
    IN  /\ pc[h] = "load"
        /\ \E next \in (IF ctx[h] = "live" THEN found ELSE {})
                 \cup (IF ctx[h] # "live" \/ "dbErr" \in Faults
                       THEN {"retErr"} ELSE {}) :
              Goto(h, next)
        /\ UNCHANGED <<apiVars, rows, taskVars, attemptVars, hooks, runs>>

MarkRunning(h) ==
    /\ pc[h] = "mark"
    /\ \E o \in DbOutcomes(ctx[h]) :
          /\ rows' = IF Applied(o)
                     THEN [rows EXCEPT ![job[h]] = MarkSubmissionRunning(@)]
                     ELSE rows
          /\ Goto(h, IF o = "ok" THEN "execute" ELSE "retErr")
    /\ UNCHANGED <<apiVars, taskVars, attemptVars, hooks, runs>>

\* Execute gets a container started; a cancelled context cannot.
StartProgram(h) ==
    /\ pc[h] = "execute"
    /\ ctx[h] = "live"
    /\ runs' = [runs EXCEPT ![job[h]] = @ + 1]
    /\ held' = [held EXCEPT ![h] = runs[job[h]] + 1]
    /\ Goto(h, "running")
    /\ UNCHANGED <<apiVars, rows, taskVars, job, tries, hooks>>

\* Execute returns an outcome, even when the wait races the cancellation.
ExecuteOutcome(h) ==
    /\ pc[h] = "running"
    /\ Goto(h, "complete")
    /\ UNCHANGED <<apiVars, rows, taskVars, attemptVars, hooks, runs>>

\* Variant: > for >=.
IsFinalAttemptOffByOne(h) == tries[h] > MaxRetry

IsFinalAttempt(h) == tries[h] >= MaxRetry

\* Execute returns an error: an engine fault, or its context was cancelled.
ExecuteError(h) ==
    /\ pc[h] \in {"execute", "running"}
    /\ "engine" \in Faults \/ ctx[h] # "live"
    /\ Goto(h, IF IsFinalAttempt(h) THEN "recordFailure" ELSE "retErr")
    /\ UNCHANGED <<apiVars, rows, taskVars, attemptVars, hooks, runs>>

\* Variant: the webhook is enqueued although the result was not stored.
NotifyUnstored(h) ==
    /\ pc[h] = "complete"
    /\ \E o \in DbOutcomes(ctx[h]) :
          rows' = IF o = "ok"
                  THEN [rows EXCEPT ![job[h]] = CompleteSubmission(@, held[h])]
                  ELSE rows
    /\ Goto(h, "notify")
    /\ UNCHANGED <<apiVars, taskVars, attemptVars, hooks, runs>>

\* Variant: the result is stored with a context detached from the attempt's.
StoreDetached(h) ==
    /\ pc[h] = "complete"
    /\ \E o \in DbOutcomes("live") :
          /\ rows' = IF Applied(o)
                     THEN [rows EXCEPT ![job[h]] = CompleteSubmission(@, held[h])]
                     ELSE rows
          /\ Goto(h, IF o = "ok" THEN "notify" ELSE "retErr")
    /\ UNCHANGED <<apiVars, taskVars, attemptVars, hooks, runs>>

StoreResult(h) ==
    /\ pc[h] = "complete"
    /\ \E o \in TextOutcomes(ctx[h]) :
          /\ rows' = IF Applied(o)
                     THEN [rows EXCEPT ![job[h]] = CompleteSubmission(@, held[h])]
                     ELSE rows
          /\ Goto(h, IF o = "ok" THEN "notify" ELSE "retErr")
    /\ UNCHANGED <<apiVars, taskVars, attemptVars, hooks, runs>>

\* w.fail: an error is only logged, and the handler carries on.
Fail(h, error, next) ==
    /\ \E o \in DbOutcomes(ctx[h]) :
          rows' = IF Applied(o)
                  THEN [rows EXCEPT ![job[h]] = FailSubmission(@, error)]
                  ELSE rows
    /\ Goto(h, next)
    /\ UNCHANGED <<apiVars, taskVars, attemptVars, hooks, runs>>

FailUnsupported(h) == pc[h] = "unsupported" /\ Fail(h, "unsupported", "retNil")

\* Variant: the failure is retried in place until it is stored.
FailUntilStored(h) ==
    /\ pc[h] = "recordFailure"
    /\ \E o \in DbOutcomes(ctx[h]) :
          /\ rows' = IF Applied(o)
                     THEN [rows EXCEPT ![job[h]] = FailSubmission(@, "engine")]
                     ELSE rows
          /\ Goto(h, IF o = "ok" THEN "notify" ELSE "recordFailure")
    /\ UNCHANGED <<apiVars, taskVars, attemptVars, hooks, runs>>

RecordFailure(h) == pc[h] = "recordFailure" /\ Fail(h, "engine", "notify")

\* Variant: the notification is skipped.
DropNotification(h) ==
    /\ pc[h] = "notify"
    /\ Goto(h, "retNil")
    /\ UNCHANGED <<apiVars, rows, taskVars, attemptVars, hooks, runs>>

\* An enqueue error is only logged.
EnqueueWebhook(h) ==
    /\ pc[h] = "notify"
    /\ \E o \in IF rows[job[h]].webhook THEN RedisOutcomes(ctx[h]) ELSE {"err"} :
          hooks' = IF Applied(o) THEN [hooks EXCEPT ![job[h]] = @ + 1] ELSE hooks
    /\ Goto(h, "retNil")
    /\ UNCHANGED <<apiVars, rows, taskVars, attemptVars, runs>>

-----------------------------------------------------------------------------
ApiStep(s) ==
    \/ RejectRequest(s)
    \/ PersistSubmission(s)
    \/ EnqueueExecute(s)
    \/ FailAfterEnqueueError(s)

HandlerStep(h) ==
    \/ LoadSubmission(h)
    \/ MarkRunning(h)
    \/ StartProgram(h)
    \/ ExecuteOutcome(h)
    \/ ExecuteError(h)
    \/ StoreResult(h)
    \/ FailUnsupported(h)
    \/ RecordFailure(h)
    \/ EnqueueWebhook(h)
    \/ Return(h)

GiveUp(h) ==
    \/ AttemptTimeout(h)
    \/ LeaseLost(h)
    \/ ShutdownAbort(h)
    \/ WorkerCrash(h)

\* Every request is answered, every task settled and every goroutine gone.
Settled ==
    /\ \A s \in Subs : api[s] \in ApiDone
    /\ \A s \in Subs : taskState[s] \in {"none", "completed", "archived"}
    /\ \A h \in Handlers : pc[h] = "idle"

Next ==
    \/ \E s \in Subs : ApiStep(s) \/ ClientDisconnect(s) \/ ApiCrash(s)
    \/ \E s \in Subs : Recover(s) \/ \E h \in Handlers : Dequeue(h, s)
    \/ \E h \in Handlers : HandlerStep(h) \/ GiveUp(h)
    \/ Settled /\ UNCHANGED vars

Spec == Init /\ [][Next]_vars

(* Handlers and requests run on goroutines the Go scheduler does not       *)
(* starve, and every call they make is bounded by a context or a timeout;  *)
(* Asynq polls its queues and runs its recoverer for as long as a worker   *)
(* is up.  No fault is ever required to happen.                            *)
Fairness ==
    /\ \A s \in Subs : WF_vars(ApiStep(s))
    /\ \A s \in Subs : WF_vars(Recover(s) \/ \E h \in Handlers : Dequeue(h, s))
    /\ \A h \in Handlers : WF_vars(HandlerStep(h))

FairSpec == Spec /\ Fairness

-----------------------------------------------------------------------------
TypeOK ==
    /\ api \in [Subs -> ApiStates]
    /\ apiCtx \in [Subs -> CtxStates]
    /\ rows \in [Subs -> Row]
    /\ taskState \in [Subs -> TaskStates]
    /\ retried \in [Subs -> 0..MaxRetry]
    /\ requeues \in [Subs -> 0..MaxRequeues]
    /\ pc \in [Handlers -> HandlerPcs]
    /\ job \in [Handlers -> Subs \cup {NoJob}]
    /\ ctx \in [Handlers -> CtxStates]
    /\ tries \in [Handlers -> 0..MaxRetry]
    /\ held \in [Handlers -> Nat]
    /\ hooks \in [Subs -> Nat]
    /\ runs \in [Subs -> Nat]

(* Persist first, enqueue second (handlers.go:101): a worker never dequeues *)
(* a job whose row does not exist, whatever fails in between.              *)
RowBeforeTask ==
    \A s \in Subs : taskState[s] # "none" => rows[s].status # "absent"

(* The program of one submission is started at most once per counted       *)
(* attempt, plus once for each attempt a shutdown pushed back: "without    *)
(* re-running an expensive job indefinitely" (queue.go:50).  Attempts that *)
(* were given up on but still run are included.                            *)
RunsBounded ==
    \A s \in Subs : runs[s] <= retried[s] + requeues[s] + 1

(* A finished row is final: no retry, no attempt given up on and no API    *)
(* error path changes any column of it (worker.go:75).                     *)
FinishedIsFinal ==
    [][\A s \in Subs : Finished(rows[s]) => rows'[s] = rows[s]]_vars

(* A polled row is always one of four coherent shapes: a result exactly    *)
(* when completed, an error exactly when failed, timestamps to match, and  *)
(* a result that one of this submission's own runs produced.               *)
RowShape ==
    \A s \in Subs : LET row == rows[s] IN
        /\ row.status = "completed" <=> row.result # 0
        /\ row.status = "failed" <=> row.error # "none"
        /\ Finished(row) <=> row.finished
        /\ row.status \in {"running", "completed"} => row.started
        /\ row.status \in {"absent", "queued"} => ~row.started
        /\ row.result <= runs[s]

(* The pipeline implements the life cycle the caller is promised.          *)
Lifecycle ==
    INSTANCE SubmissionLifecycle WITH
        status <- [s \in Subs |-> rows[s].status],
        result <- [s \in Subs |-> rows[s].result]

ImplementsLifecycle == Lifecycle!Spec

(* A webhook task names a finished submission (queue.go:36), so a receiver *)
(* is never sent the body of one that is still running.                    *)
HookOnlyWhenFinished ==
    \A s \in Subs : hooks[s] > 0 => Finished(rows[s])

(* Retries never announce a submission twice.                              *)
AtMostOneHook == \A s \in Subs : hooks[s] <= 1

(* A submission with a webhook URL that its worker completed, or gave up   *)
(* on after its last attempt, has a webhook task (README.md:133), whatever *)
(* the attempts before went through.  Not covered are the ones a shutdown  *)
(* pushed back, the API failed or whose language is gone.                  *)
FinishedIsNotified ==
    \A s \in Subs :
        /\ taskState[s] = "completed"
        /\ rows[s].webhook
        /\ requeues[s] = 0
        /\ rows[s].error \in {"none", "engine"}
        => hooks[s] > 0

(* A task that ran out of attempts has left a terminal failure in the row, *)
(* instead of being dropped into the dead-letter queue with the row still  *)
(* running (worker.go:191).                                                *)
DeadLetterIsFinished ==
    \A s \in Subs : taskState[s] = "archived" => Finished(rows[s])

(* When the API answers 503 because it could not enqueue, the row does not *)
(* poll forever: it is marked failed (handlers.go:113), or a worker has it *)
(* after all.                                                              *)
UnavailableIsFailed ==
    \A s \in Subs :
        api[s] = "unavailable" => Finished(rows[s]) \/ taskState[s] # "none"

(* Every accepted submission is eventually finished.                       *)
AcceptedFinishes ==
    \A s \in Subs : (api[s] = "accepted") ~> Finished(rows[s])

(* Whatever fails, every task and every goroutine eventually comes to rest: *)
(* no retry loop, lost lease or abandoned handler goes on forever.         *)
EventuallySettled == <>[]Settled
=============================================================================
