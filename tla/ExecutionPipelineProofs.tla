---------------------- MODULE ExecutionPipelineProofs ----------------------
(***************************************************************************)
(* Theorems about ExecutionPipeline, for every set of submissions and      *)
(* handlers, every concurrency, retry and requeue bound.                   *)
(***************************************************************************)
EXTENDS ExecutionPipeline, TLAPS

(* A goroutine at work has a job, and the attempt Asynq waits for holds    *)
(* the only lease on an active task.                                       *)
LeaseInv ==
    /\ \A h \in Handlers : ctx[h] = "live" => pc[h] # "idle"
    /\ \A h \in Handlers : pc[h] # "idle" => job[h] \in Subs
    /\ \A h \in Handlers : ctx[h] = "live" => taskState[job[h]] = "active"
    /\ \A g, h \in Handlers :
          ctx[g] = "live" /\ ctx[h] = "live" /\ job[g] = job[h] => g = h

(* The row comes before the task, and the task is enqueued once.           *)
ApiInv ==
    \A s \in Subs :
        /\ api[s] \in {"new", "enqueue"} => taskState[s] = "none"
        /\ api[s] \in {"enqueue", "fail"} => rows[s].status # "absent"
        /\ taskState[s] # "none" => rows[s].status # "absent"

BeforeRun == {"load", "mark", "unsupported", "execute"}

(* The attempt that has not started its program yet still has it to spend. *)
BudgetInv ==
    /\ \A s \in Subs : taskState[s] \in {"none", "pending", "retry"} =>
          runs[s] <= retried[s] + requeues[s]
    /\ \A h \in Handlers : ctx[h] = "live" /\ pc[h] \in BeforeRun =>
          runs[job[h]] <= retried[job[h]] + requeues[job[h]]
    /\ RunsBounded

(* With neither a lost enqueue acknowledgement nor a late write, the rows  *)
(* an attempt or the API may still write are the ones it has just read.    *)
HeldInv ==
    \A h \in Handlers :
        pc[h] \in {"running", "complete"} => held[h] \in 1 .. runs[job[h]]

OwnerInv ==
    /\ \A h \in Handlers : ctx[h] # "midcall"
    /\ \A h \in Handlers : ctx[h] = "live" /\ pc[h] \in {"mark", "unsupported"} =>
          rows[job[h]].status \in {"queued", "running"}
    /\ \A h \in Handlers :
          ctx[h] = "live" /\ pc[h] \in {"execute", "running", "complete", "recordFailure"} =>
          rows[job[h]].status = "running"

RequestInv ==
    \A s \in Subs :
        /\ api[s] = "new" => rows[s] = AbsentRow
        /\ api[s] = "enqueue" => rows[s].status = "queued"
        /\ api[s] = "fail" /\ taskState[s] = "none" => rows[s].status = "queued"
        /\ api[s] = "fail" /\ taskState[s] # "none" => apiCtx[s] = "done"

-----------------------------------------------------------------------------
(* What the outcomes of a call say about the context it was made with.     *)
LEMMA OutcomeFacts ==
    ASSUME NEW c \in CtxStates, NEW err, NEW lostAck, NEW o \in Outcomes(c, err, lostAck)
    PROVE  /\ o \in {"ok", "err", "lostAck"}
           /\ o = "ok" => c = "live"
           /\ Applied(o) => c \in {"live", "midcall"}
           /\ o = "lostAck" => c = "midcall" \/ lostAck \in Faults
BY DEF Outcomes, CtxStates, Applied

(* The statements of internal/db keep a row a row.                         *)
LEMMA RowFacts ==
    ASSUME NEW row \in Row
    PROVE  /\ MarkSubmissionRunning(row) \in Row
           /\ \A result \in Nat : CompleteSubmission(row, result) \in Row
           /\ \A error \in Errors : FailSubmission(row, error) \in Row
BY DEF Row, Status, MarkSubmissionRunning, CompleteSubmission, FailSubmission

LEMMA CreateFacts ==
    AbsentRow \in Row /\ \A webhook \in BOOLEAN : CreateSubmission(webhook) \in Row
BY DEF Row, Status, Errors, CreateSubmission, AbsentRow

LEMMA MarkFields ==
    ASSUME NEW row \in Row
    PROVE  LET new == MarkSubmissionRunning(row) IN
           /\ new.status = "running" /\ new.started = TRUE
           /\ new.webhook = row.webhook /\ new.result = row.result
           /\ new.error = row.error /\ new.finished = row.finished
BY DEF Row, MarkSubmissionRunning

LEMMA CompleteFields ==
    ASSUME NEW row \in Row, NEW result \in Nat
    PROVE  LET new == CompleteSubmission(row, result) IN
           /\ new.status = "completed" /\ new.started = row.started
           /\ new.webhook = row.webhook /\ new.result = result
           /\ new.error = row.error /\ new.finished = TRUE
BY DEF Row, CompleteSubmission

LEMMA FailFields ==
    ASSUME NEW row \in Row, NEW error \in Errors
    PROVE  LET new == FailSubmission(row, error) IN
           /\ new.status = "failed" /\ new.started = row.started
           /\ new.webhook = row.webhook /\ new.result = row.result
           /\ new.error = error /\ new.finished = TRUE
BY DEF Row, FailSubmission

LEMMA CreateFields ==
    ASSUME NEW webhook \in BOOLEAN
    PROVE  LET new == CreateSubmission(webhook) IN
           /\ new.status = "queued" /\ new.started = FALSE
           /\ new.webhook = webhook /\ new.result = 0
           /\ new.error = "none" /\ new.finished = FALSE
BY DEF CreateSubmission, AbsentRow

-----------------------------------------------------------------------------
(* Type correctness, step by step.                                         *)
LEMMA TypeStep ==
    ASSUME TypeOK, LeaseInv, [Next]_vars
    PROVE  TypeOK'
<1> USE PipelineAssumption DEF TypeOK, LeaseInv, ApiStates, ApiDone, CtxStates,
        TaskStates, Waiting, HandlerPcs, CallPcs, Returned,
        apiVars, taskVars, attemptVars
<1>1. ASSUME NEW s \in Subs, ApiStep(s) \/ ClientDisconnect(s) \/ ApiCrash(s)
      PROVE  TypeOK'
  <2>1. CASE RejectRequest(s)
    BY <2>1 DEF RejectRequest, ApiGoto
  <2>2. CASE PersistSubmission(s)
    BY <2>2, CreateFacts DEF PersistSubmission, ApiGoto
  <2>3. CASE EnqueueExecute(s)
    BY <2>3 DEF EnqueueExecute, ApiGoto
  <2>4. CASE FailAfterEnqueueError(s)
    BY <2>4, RowFacts DEF FailAfterEnqueueError, ApiGoto, Errors
  <2>5. CASE ClientDisconnect(s)
    BY <2>5 DEF ClientDisconnect
  <2>6. CASE ApiCrash(s)
    BY <2>6 DEF ApiCrash, ApiGoto
  <2> QED
    BY <1>1, <2>1, <2>2, <2>3, <2>4, <2>5, <2>6 DEF ApiStep
<1>2. ASSUME NEW s \in Subs, Recover(s) \/ \E h \in Handlers : Dequeue(h, s)
      PROVE  TypeOK'
  <2>1. CASE Recover(s)
    BY <2>1 DEF Recover, FailedMessage
  <2>2. CASE \E h \in Handlers : Dequeue(h, s)
    BY <2>2 DEF Dequeue
  <2> QED
    BY <1>2, <2>1, <2>2
<1>3. ASSUME NEW h \in Handlers, HandlerStep(h)
      PROVE  TypeOK'
  <2>1. CASE LoadSubmission(h)
    BY <2>1 DEF LoadSubmission, Goto
  <2>2. CASE MarkRunning(h)
    BY <2>2, RowFacts DEF MarkRunning, Goto
  <2>3. CASE StartProgram(h)
    BY <2>3 DEF StartProgram, Goto
  <2>4. CASE ExecuteOutcome(h)
    BY <2>4 DEF ExecuteOutcome, Goto
  <2>5. CASE ExecuteError(h)
    BY <2>5 DEF ExecuteError, Goto
  <2>6. CASE StoreResult(h)
    <3>1. CompleteSubmission(rows[job[h]], held[h]) \in Row
      BY <2>6, RowFacts DEF StoreResult
    <3> QED
      BY <2>6, <3>1 DEF StoreResult, Goto
  <2>7. CASE FailUnsupported(h)
    BY <2>7, RowFacts DEF FailUnsupported, Fail, Goto, Errors
  <2>8. CASE RecordFailure(h)
    BY <2>8, RowFacts DEF RecordFailure, Fail, Goto, Errors
  <2>9. CASE EnqueueWebhook(h)
    BY <2>9 DEF EnqueueWebhook, Goto
  <2>10. CASE Return(h)
    BY <2>10 DEF Return, Release, FailedMessage
  <2> QED
    BY <1>3, <2>1, <2>2, <2>3, <2>4, <2>5, <2>6, <2>7, <2>8, <2>9, <2>10
    DEF HandlerStep
<1>4. ASSUME NEW h \in Handlers, GiveUp(h)
      PROVE  TypeOK'
  <2>1. CASE AttemptTimeout(h)
    BY <2>1 DEF AttemptTimeout, FailedMessage, Cancel, Current
  <2>2. CASE LeaseLost(h)
    BY <2>2 DEF LeaseLost, Cancel
  <2>3. CASE ShutdownAbort(h)
    BY <2>3 DEF ShutdownAbort, Cancel, Current
  <2>4. CASE WorkerCrash(h)
    BY <2>4 DEF WorkerCrash, Release
  <2> QED
    BY <1>4, <2>1, <2>2, <2>3, <2>4 DEF GiveUp
<1>5. CASE UNCHANGED vars
  BY <1>5 DEF vars
<1> QED
  BY <1>1, <1>2, <1>3, <1>4, <1>5 DEF Next

-----------------------------------------------------------------------------
(* What a step leaves alone.                                               *)

\* A request touches its own submission only, and no attempt.
LEMMA RequestFrame ==
    ASSUME TypeOK, NEW s \in Subs, ApiStep(s) \/ ClientDisconnect(s) \/ ApiCrash(s)
    PROVE  /\ UNCHANGED <<retried, requeues, pc, job, ctx, tries, held, hooks, runs>>
           /\ \A t \in Subs \ {s} :
                 /\ api'[t] = api[t] /\ apiCtx'[t] = apiCtx[t]
                 /\ rows'[t] = rows[t] /\ taskState'[t] = taskState[t]
           /\ taskState'[s] # taskState[s] =>
                 api[s] = "enqueue" /\ taskState'[s] = "pending"
<1> USE DEF TypeOK, apiVars, taskVars, attemptVars
<1>1. CASE RejectRequest(s)
  BY <1>1 DEF RejectRequest, ApiGoto
<1>2. CASE PersistSubmission(s)
  BY <1>2 DEF PersistSubmission, ApiGoto
<1>3. CASE EnqueueExecute(s)
  BY <1>3 DEF EnqueueExecute, ApiGoto
<1>4. CASE FailAfterEnqueueError(s)
  BY <1>4 DEF FailAfterEnqueueError, ApiGoto
<1>5. CASE ClientDisconnect(s)
  BY <1>5 DEF ClientDisconnect
<1>6. CASE ApiCrash(s)
  BY <1>6 DEF ApiCrash, ApiGoto
<1> QED
  BY <1>1, <1>2, <1>3, <1>4, <1>5, <1>6 DEF ApiStep

\* A step of handleExecute short of its return leaves the queue alone, keeps
\* the goroutine's job and does not bring a context back to life.
LEMMA HandlerFrame ==
    ASSUME TypeOK, LeaseInv, NEW h \in Handlers, HandlerStep(h), ~Return(h)
    PROVE  /\ UNCHANGED <<api, apiCtx, taskState, retried, requeues, job, tries>>
           /\ pc[h] # "idle" /\ pc'[h] # "idle"
           /\ ctx'[h] = "live" <=> ctx[h] = "live"
           /\ ctx'[h] # "midcall"
           /\ \A g \in Handlers \ {h} :
                 pc'[g] = pc[g] /\ ctx'[g] = ctx[g] /\ held'[g] = held[g]
           /\ \A s \in Subs \ {job[h]} : rows'[s] = rows[s] /\ runs'[s] = runs[s]
<1> USE DEF TypeOK, LeaseInv, CtxStates, HandlerPcs, CallPcs, Returned,
        apiVars, taskVars, attemptVars
<1>1. CASE LoadSubmission(h)
  BY <1>1 DEF LoadSubmission, Goto
<1>2. CASE MarkRunning(h)
  BY <1>2 DEF MarkRunning, Goto
<1>3. CASE StartProgram(h)
  BY <1>3 DEF StartProgram, Goto
<1>4. CASE ExecuteOutcome(h)
  BY <1>4 DEF ExecuteOutcome, Goto
<1>5. CASE ExecuteError(h)
  BY <1>5 DEF ExecuteError, Goto
<1>6. CASE StoreResult(h)
  BY <1>6 DEF StoreResult, Goto
<1>7. CASE FailUnsupported(h)
  BY <1>7 DEF FailUnsupported, Fail, Goto
<1>8. CASE RecordFailure(h)
  BY <1>8 DEF RecordFailure, Fail, Goto
<1>9. CASE EnqueueWebhook(h)
  BY <1>9 DEF EnqueueWebhook, Goto
<1> QED
  BY <1>1, <1>2, <1>3, <1>4, <1>5, <1>6, <1>7, <1>8, <1>9 DEF HandlerStep

\* The other steps, those of Asynq, leave every row and every run alone.
LEMMA QueueFrame ==
    /\ \A h \in Handlers, s \in Subs : Dequeue(h, s) =>
          UNCHANGED <<api, apiCtx, rows, retried, requeues, held, hooks, runs>>
    /\ \A s \in Subs : Recover(s) =>
          UNCHANGED <<api, apiCtx, rows, requeues, pc, ctx, job, tries, held, hooks, runs>>
    /\ \A h \in Handlers : Return(h) =>
          UNCHANGED <<api, apiCtx, rows, requeues, hooks, runs>>
    /\ \A h \in Handlers : GiveUp(h) =>
          UNCHANGED <<api, apiCtx, rows, hooks, runs>>
BY DEF Dequeue, Recover, Return, GiveUp, AttemptTimeout, LeaseLost, ShutdownAbort,
       WorkerCrash, apiVars, taskVars, attemptVars

-----------------------------------------------------------------------------
(* The lease invariant, step by step.                                      *)
LEMMA LeaseStep ==
    ASSUME TypeOK, LeaseInv, ApiInv, [Next]_vars
    PROVE  LeaseInv'
<1> USE DEF TypeOK, LeaseInv
<1>1. ASSUME NEW s \in Subs, ApiStep(s) \/ ClientDisconnect(s) \/ ApiCrash(s)
      PROVE  LeaseInv'
  BY <1>1, RequestFrame DEF ApiInv
<1>2. ASSUME NEW s \in Subs, Recover(s) \/ \E h \in Handlers : Dequeue(h, s)
      PROVE  LeaseInv'
  <2>1. CASE Recover(s)
    BY <2>1 DEF Recover, FailedMessage, Current, attemptVars
  <2>2. CASE \E h \in Handlers : Dequeue(h, s)
    BY <2>2 DEF Dequeue, Waiting
  <2> QED
    BY <1>2, <2>1, <2>2
<1>3. ASSUME NEW h \in Handlers, HandlerStep(h)
      PROVE  LeaseInv'
  <2>1. CASE Return(h)
    BY <2>1 DEF Return, Release, FailedMessage
  <2>2. CASE ~Return(h)
    BY <1>3, <2>2, HandlerFrame
  <2> QED
    BY <2>1, <2>2
<1>4. ASSUME NEW h \in Handlers, GiveUp(h)
      PROVE  LeaseInv'
  <2>1. CASE AttemptTimeout(h)
    BY <2>1 DEF AttemptTimeout, FailedMessage, Cancel, Current, attemptVars
  <2>2. CASE LeaseLost(h)
    BY <2>2 DEF LeaseLost, Cancel, attemptVars, taskVars
  <2>3. CASE ShutdownAbort(h)
    BY <2>3 DEF ShutdownAbort, Cancel, Current, attemptVars
  <2>4. CASE WorkerCrash(h)
    BY <2>4 DEF WorkerCrash, Release, taskVars
  <2> QED
    BY <1>4, <2>1, <2>2, <2>3, <2>4 DEF GiveUp
<1>5. CASE UNCHANGED vars
  BY <1>5 DEF vars
<1> QED
  BY <1>1, <1>2, <1>3, <1>4, <1>5 DEF Next

-----------------------------------------------------------------------------
(* No statement makes a row absent again.                                  *)
LEMMA RowStays ==
    ASSUME TypeOK, LeaseInv, NEW h \in Handlers, HandlerStep(h), NEW s \in Subs,
           rows[s].status # "absent"
    PROVE  rows'[s].status # "absent"
<1> USE DEF TypeOK, LeaseInv
<1>1. CASE MarkRunning(h)
  BY <1>1, MarkFields DEF MarkRunning
<1>2. CASE StoreResult(h)
  <2>0. rows[job[h]] \in Row /\ held[h] \in Nat
    BY <1>2 DEF StoreResult
  <2>1. CompleteSubmission(rows[job[h]], held[h]).status = "completed"
    BY <2>0, CompleteFields
  <2> QED
    BY <1>2, <2>1 DEF StoreResult
<1>3. CASE FailUnsupported(h)
  <2>1. FailSubmission(rows[job[h]], "unsupported").status = "failed"
    BY <1>3, FailFields DEF FailUnsupported, Errors
  <2> QED
    BY <1>3, <2>1 DEF FailUnsupported, Fail
<1>4. CASE RecordFailure(h)
  <2>1. FailSubmission(rows[job[h]], "engine").status = "failed"
    BY <1>4, FailFields DEF RecordFailure, Errors
  <2> QED
    BY <1>4, <2>1 DEF RecordFailure, Fail
<1>5. CASE UNCHANGED rows
  BY <1>5
<1> QED
  BY <1>1, <1>2, <1>3, <1>4, <1>5
  DEF HandlerStep, LoadSubmission, StartProgram, ExecuteOutcome, ExecuteError,
      EnqueueWebhook, Return

LEMMA ApiStepInv ==
    ASSUME TypeOK, LeaseInv, ApiInv, [Next]_vars
    PROVE  ApiInv'
<1> USE DEF TypeOK, ApiInv
<1>1. ASSUME NEW s \in Subs, ApiStep(s) \/ ClientDisconnect(s) \/ ApiCrash(s)
      PROVE  ApiInv'
  <2> SUFFICES ASSUME NEW t \in Subs
               PROVE  /\ api'[t] \in {"new", "enqueue"} => taskState'[t] = "none"
                      /\ api'[t] \in {"enqueue", "fail"} => rows'[t].status # "absent"
                      /\ taskState'[t] # "none" => rows'[t].status # "absent"
    OBVIOUS
  <2>0. CASE t # s
    BY <1>1, <2>0, RequestFrame
  <2>1. CASE t = s /\ RejectRequest(s)
    BY <2>1 DEF RejectRequest, ApiGoto, taskVars
  <2>2. CASE t = s /\ PersistSubmission(s)
    <3>1. \A webhook \in BOOLEAN : CreateSubmission(webhook).status = "queued"
      BY CreateFields
    <3> QED
      BY <2>2, <3>1 DEF PersistSubmission, ApiGoto, taskVars, Applied
  <2>3. CASE t = s /\ EnqueueExecute(s)
    BY <2>3 DEF EnqueueExecute, ApiGoto
  <2>4. CASE t = s /\ FailAfterEnqueueError(s)
    <3>1. FailSubmission(rows[s], "enqueue").status = "failed"
      BY FailFields DEF Errors
    <3> QED
      BY <2>4, <3>1 DEF FailAfterEnqueueError, ApiGoto, taskVars
  <2>5. CASE t = s /\ ClientDisconnect(s)
    BY <2>5 DEF ClientDisconnect, taskVars
  <2>6. CASE t = s /\ ApiCrash(s)
    BY <2>6 DEF ApiCrash, ApiGoto, taskVars
  <2> QED
    BY <1>1, <2>0, <2>1, <2>2, <2>3, <2>4, <2>5, <2>6 DEF ApiStep
<1>2. ASSUME NEW s \in Subs, Recover(s) \/ \E h \in Handlers : Dequeue(h, s)
      PROVE  ApiInv'
  <2>1. CASE Recover(s)
    BY <2>1, QueueFrame DEF Recover, FailedMessage
  <2>2. CASE \E h \in Handlers : Dequeue(h, s)
    BY <2>2 DEF Dequeue, Waiting, apiVars
  <2> QED
    BY <1>2, <2>1, <2>2
<1>3. ASSUME NEW h \in Handlers, HandlerStep(h)
      PROVE  ApiInv'
  <2>1. CASE Return(h)
    BY <2>1, QueueFrame DEF Return, FailedMessage, LeaseInv
  <2>2. CASE ~Return(h)
    BY <1>3, <2>2, HandlerFrame, RowStays
  <2> QED
    BY <2>1, <2>2
<1>4. ASSUME NEW h \in Handlers, GiveUp(h)
      PROVE  ApiInv'
  BY <1>4, QueueFrame
  DEF GiveUp, AttemptTimeout, LeaseLost, ShutdownAbort, WorkerCrash, FailedMessage,
      Current, LeaseInv, taskVars
<1>5. CASE UNCHANGED vars
  BY <1>5 DEF vars
<1> QED
  BY <1>1, <1>2, <1>3, <1>4, <1>5 DEF Next

-----------------------------------------------------------------------------
(* The run budget, step by step.                                           *)
LEMMA BudgetStep ==
    ASSUME TypeOK, LeaseInv, ApiInv, BudgetInv, [Next]_vars
    PROVE  BudgetInv'
<1> USE PipelineAssumption DEF TypeOK, BudgetInv, RunsBounded
<1>1. ASSUME NEW s \in Subs, ApiStep(s) \/ ClientDisconnect(s) \/ ApiCrash(s)
      PROVE  BudgetInv'
  BY <1>1, RequestFrame DEF ApiInv
<1>2. ASSUME NEW s \in Subs, Recover(s) \/ \E h \in Handlers : Dequeue(h, s)
      PROVE  BudgetInv'
  <2>1. CASE Recover(s)
    BY <2>1, QueueFrame DEF Recover, FailedMessage, Current, LeaseInv
  <2>2. CASE \E h \in Handlers : Dequeue(h, s)
    BY <2>2, QueueFrame DEF Dequeue, Waiting, LeaseInv
  <2> QED
    BY <1>2, <2>1, <2>2
<1>3. ASSUME NEW h \in Handlers, HandlerStep(h)
      PROVE  BudgetInv'
  <2>1. CASE Return(h)
    BY <2>1, QueueFrame DEF Return, Release, FailedMessage, LeaseInv, BeforeRun
  <2>2. CASE StartProgram(h)
    BY <2>2 DEF StartProgram, Goto, LeaseInv, BeforeRun, taskVars
  <2>3. CASE ~Return(h) /\ ~StartProgram(h)
    <3>1. UNCHANGED runs
      BY <1>3, <2>3 DEF HandlerStep, LoadSubmission, MarkRunning, ExecuteOutcome,
         ExecuteError, StoreResult, FailUnsupported, RecordFailure, Fail, EnqueueWebhook
    <3>2. pc'[h] \in BeforeRun => pc[h] \in BeforeRun
      BY <1>3, <2>3 DEF HandlerStep, LoadSubmission, MarkRunning, ExecuteOutcome,
         ExecuteError, StoreResult, FailUnsupported, RecordFailure, Fail, EnqueueWebhook,
         Goto, BeforeRun
    <3> QED
      BY <1>3, <2>3, <3>1, <3>2, HandlerFrame
  <2> QED
    BY <2>1, <2>2, <2>3
<1>4. ASSUME NEW h \in Handlers, GiveUp(h)
      PROVE  BudgetInv'
  <2>1. CASE AttemptTimeout(h)
    BY <2>1 DEF AttemptTimeout, FailedMessage, Cancel, Current, LeaseInv, attemptVars
  <2>2. CASE LeaseLost(h)
    BY <2>2 DEF LeaseLost, Cancel, attemptVars, taskVars
  <2>3. CASE ShutdownAbort(h)
    BY <2>3 DEF ShutdownAbort, Cancel, Current, LeaseInv, attemptVars
  <2>4. CASE WorkerCrash(h)
    BY <2>4 DEF WorkerCrash, Release, taskVars
  <2> QED
    BY <1>4, <2>1, <2>2, <2>3, <2>4 DEF GiveUp
<1>5. CASE UNCHANGED vars
  BY <1>5 DEF vars
<1> QED
  BY <1>1, <1>2, <1>3, <1>4, <1>5 DEF Next

-----------------------------------------------------------------------------
(* What holds whatever fails.                                              *)

PipelineInv == TypeOK /\ LeaseInv /\ ApiInv /\ BudgetInv

LEMMA PipelineInvariant == Spec => []PipelineInv
<1>1. Init => PipelineInv
  <2> SUFFICES ASSUME Init PROVE PipelineInv
    OBVIOUS
  <2>1. TypeOK
    BY PipelineAssumption, CreateFacts
    DEF Init, TypeOK, ApiStates, CtxStates, TaskStates, HandlerPcs
  <2>2. LeaseInv /\ ApiInv
    BY DEF Init, LeaseInv, ApiInv
  <2>3. BudgetInv
    BY DEF Init, BudgetInv, RunsBounded
  <2> QED
    BY <2>1, <2>2, <2>3 DEF PipelineInv
<1>2. PipelineInv /\ [Next]_vars => PipelineInv'
  BY TypeStep, LeaseStep, ApiStepInv, BudgetStep DEF PipelineInv
<1> QED
  BY <1>1, <1>2, PTL DEF Spec

(* Every variable keeps its type, whatever fails and in whatever order.    *)
THEOREM TypeCorrect == Spec => []TypeOK
BY PipelineInvariant, PTL DEF PipelineInv

(* A worker never dequeues a task whose row does not exist                 *)
(* (handlers.go:101), whatever fails.                                      *)
THEOREM PersistedFirst == Spec => []RowBeforeTask
<1>1. PipelineInv => RowBeforeTask
  BY DEF PipelineInv, ApiInv, RowBeforeTask
<1> QED
  BY <1>1, PipelineInvariant, PTL

(* A submission's program starts at most once per counted attempt plus once *)
(* per requeue (queue.go:50), attempts given up on included.               *)
THEOREM RunsAreBounded == Spec => []RunsBounded
BY PipelineInvariant, PTL DEF PipelineInv, BudgetInv

-----------------------------------------------------------------------------
(* What needs the order of writes to Postgres and Redis: no enqueue that   *)
(* took effect is reported as an error, and no statement commits after its *)
(* context was cancelled.                                                  *)

Ordered == "enqueueLostAck" \notin Faults /\ "lateWrite" \notin Faults

OrderedInv == PipelineInv /\ HeldInv /\ OwnerInv /\ RequestInv /\ RowShape

\* The steps a row takes in the table.
RowStep(row, new, n) ==
    \/ row = AbsentRow /\ \E webhook \in BOOLEAN : new = CreateSubmission(webhook)
    \/ row.status \in {"queued", "running"} /\ new = MarkSubmissionRunning(row)
    \/ row.status = "running" /\ \E r \in 1 .. n : new = CompleteSubmission(row, r)
    \/ row.status \in {"queued", "running"} /\ \E e \in Errors : new = FailSubmission(row, e)

(* A request writes only a row that no attempt can be at work on.          *)
LEMMA RequestWrite ==
    ASSUME OrderedInv, NEW s \in Subs, ApiStep(s) \/ ClientDisconnect(s) \/ ApiCrash(s),
           NEW t \in Subs, rows'[t] # rows[t]
    PROVE  t = s /\ taskState[s] = "none" /\ RowStep(rows[t], rows'[t], runs[t])
<1> USE DEF OrderedInv, PipelineInv, TypeOK
<1>1. t = s
  BY RequestFrame
<1>2. CASE PersistSubmission(s)
  BY <1>1, <1>2 DEF PersistSubmission, RequestInv, ApiInv, RowStep
<1>3. CASE FailAfterEnqueueError(s)
  <2>1. apiCtx[s] # "done"
    BY <1>1, <1>3, OutcomeFacts DEF FailAfterEnqueueError, DbOutcomes
  <2> QED
    BY <1>1, <1>3, <2>1 DEF FailAfterEnqueueError, RequestInv, RowStep, Errors
<1> QED
  BY <1>1, <1>2, <1>3
  DEF ApiStep, RejectRequest, EnqueueExecute, ClientDisconnect, ApiCrash

(* An attempt writes only the row of its job, while it holds the lease.    *)
LEMMA HandlerWrite ==
    ASSUME OrderedInv, NEW h \in Handlers, HandlerStep(h),
           NEW t \in Subs, rows'[t] # rows[t]
    PROVE  t = job[h] /\ ctx[h] = "live" /\ RowStep(rows[t], rows'[t], runs[t])
<1> USE DEF OrderedInv, PipelineInv, TypeOK, OwnerInv
<1>1. CASE MarkRunning(h)
  <2>1. ctx[h] = "live"
    BY <1>1, OutcomeFacts DEF MarkRunning, DbOutcomes
  <2> QED
    BY <1>1, <2>1 DEF MarkRunning, RowStep
<1>2. CASE StoreResult(h)
  <2>1. ctx[h] = "live"
    <3>1. PICK o \in TextOutcomes(ctx[h]) : Applied(o)
      BY <1>2 DEF StoreResult
    <3>2. o \in DbOutcomes(ctx[h])
      BY <3>1 DEF TextOutcomes, Applied
    <3> QED
      BY <3>1, <3>2, <1>2, OutcomeFacts DEF DbOutcomes, StoreResult
  <2>2. held[h] \in 1 .. runs[job[h]]
    BY <1>2 DEF StoreResult, HeldInv
  <2> QED
    BY <1>2, <2>1, <2>2 DEF StoreResult, RowStep
<1>3. CASE FailUnsupported(h)
  <2>1. ctx[h] = "live"
    BY <1>3, OutcomeFacts DEF FailUnsupported, Fail, DbOutcomes
  <2> QED
    BY <1>3, <2>1 DEF FailUnsupported, Fail, RowStep, Errors
<1>4. CASE RecordFailure(h)
  <2>1. ctx[h] = "live"
    BY <1>4, OutcomeFacts DEF RecordFailure, Fail, DbOutcomes
  <2> QED
    BY <1>4, <2>1 DEF RecordFailure, Fail, RowStep, Errors
<1> QED
  BY <1>1, <1>2, <1>3, <1>4
  DEF HandlerStep, LoadSubmission, StartProgram, ExecuteOutcome, ExecuteError,
      EnqueueWebhook, Return

(* The other steps write no row, so a step writes one row at most.         *)
LEMMA OneRowStep ==
    ASSUME OrderedInv, [Next]_vars, rows' # rows
    PROVE  \E s \in Subs : /\ RowStep(rows[s], rows'[s], runs[s])
                           /\ \A t \in Subs \ {s} : rows'[t] = rows[t]
<1> USE DEF OrderedInv, PipelineInv
<1>0. PICK s \in Subs : rows'[s] # rows[s]
  <2>1. TypeOK'
    BY TypeStep
  <2> QED
    BY <2>1 DEF TypeOK
<1>1. ASSUME NEW r \in Subs, ApiStep(r) \/ ClientDisconnect(r) \/ ApiCrash(r)
      PROVE  RowStep(rows[s], rows'[s], runs[s]) /\ \A t \in Subs \ {s} : rows'[t] = rows[t]
  BY <1>0, <1>1, RequestWrite
<1>2. ASSUME NEW h \in Handlers, HandlerStep(h)
      PROVE  RowStep(rows[s], rows'[s], runs[s]) /\ \A t \in Subs \ {s} : rows'[t] = rows[t]
  BY <1>0, <1>2, HandlerWrite
<1> QED
  BY <1>1, <1>2, QueueFrame DEF Next, vars

-----------------------------------------------------------------------------
(* A run held by a goroutine is one of its submission's runs.              *)
LEMMA HeldStep ==
    ASSUME PipelineInv, HeldInv, [Next]_vars
    PROVE  HeldInv'
<1> USE DEF PipelineInv, TypeOK, HeldInv
<1>1. ASSUME NEW s \in Subs, ApiStep(s) \/ ClientDisconnect(s) \/ ApiCrash(s)
      PROVE  HeldInv'
  BY <1>1, RequestFrame
<1>2. ASSUME NEW s \in Subs, Recover(s) \/ \E h \in Handlers : Dequeue(h, s)
      PROVE  HeldInv'
  <2>1. CASE Recover(s)
    BY <2>1, QueueFrame
  <2>2. CASE \E h \in Handlers : Dequeue(h, s)
    BY <2>2 DEF Dequeue
  <2> QED
    BY <1>2, <2>1, <2>2
<1>3. ASSUME NEW h \in Handlers, HandlerStep(h)
      PROVE  HeldInv'
  <2>1. CASE Return(h)
    BY <2>1 DEF Return, Release
  <2>2. CASE StartProgram(h)
    BY <2>2 DEF StartProgram, Goto, LeaseInv
  <2>3. CASE ~Return(h) /\ ~StartProgram(h)
    <3>1. UNCHANGED <<runs, held, job>>
      BY <1>3, <2>3 DEF HandlerStep, LoadSubmission, MarkRunning, ExecuteOutcome,
         ExecuteError, StoreResult, FailUnsupported, RecordFailure, Fail, EnqueueWebhook,
         attemptVars
    <3>2. pc'[h] \in {"running", "complete"} => pc[h] = "running"
      BY <1>3, <2>3 DEF HandlerStep, LoadSubmission, MarkRunning, ExecuteOutcome,
         ExecuteError, StoreResult, FailUnsupported, RecordFailure, Fail, EnqueueWebhook,
         Goto
    <3> QED
      BY <1>3, <2>3, <3>1, <3>2, HandlerFrame
  <2> QED
    BY <2>1, <2>2, <2>3
<1>4. ASSUME NEW h \in Handlers, GiveUp(h)
      PROVE  HeldInv'
  BY <1>4 DEF GiveUp, AttemptTimeout, LeaseLost, ShutdownAbort, WorkerCrash, Release,
     attemptVars
<1>5. CASE UNCHANGED vars
  BY <1>5 DEF vars
<1> QED
  BY <1>1, <1>2, <1>3, <1>4, <1>5 DEF Next

(* Only the attempt that holds the lease can find, or leave, its row       *)
(* unfinished.                                                             *)
LEMMA OwnerStep ==
    ASSUME Ordered, OrderedInv, [Next]_vars
    PROVE  OwnerInv'
<1> USE DEF OrderedInv, PipelineInv, TypeOK
<1>1. ASSUME NEW s \in Subs, ApiStep(s) \/ ClientDisconnect(s) \/ ApiCrash(s)
      PROVE  OwnerInv'
  <2>1. \A h \in Handlers : ctx[h] = "live" => rows'[job[h]] = rows[job[h]]
    BY <1>1, RequestWrite DEF LeaseInv
  <2> QED
    BY <1>1, <2>1, RequestFrame DEF OwnerInv
<1>2. ASSUME NEW s \in Subs, Recover(s) \/ \E h \in Handlers : Dequeue(h, s)
      PROVE  OwnerInv'
  <2>1. CASE Recover(s)
    BY <2>1, QueueFrame DEF OwnerInv
  <2>2. CASE \E h \in Handlers : Dequeue(h, s)
    BY <2>2 DEF Dequeue, OwnerInv
  <2> QED
    BY <1>2, <2>1, <2>2
<1>3. ASSUME NEW h \in Handlers, HandlerStep(h)
      PROVE  OwnerInv'
  <2>1. CASE Return(h)
    BY <2>1 DEF Return, Release, OwnerInv
  <2>2. CASE ~Return(h)
    <3>1. \A g \in Handlers \ {h} : ctx[g] = "live" => rows'[job[g]] = rows[job[g]]
      BY <1>3, HandlerWrite DEF LeaseInv
    <3>2. ctx'[h] = "live" /\ pc'[h] \in {"mark", "unsupported"} =>
             rows'[job[h]].status \in {"queued", "running"}
      <4>1. CASE LoadSubmission(h)
        BY <4>1 DEF LoadSubmission, Goto, Finished, LeaseInv, Row, Status
      <4>2. CASE ~LoadSubmission(h)
        BY <1>3, <2>2, <4>2 DEF HandlerStep, MarkRunning, StartProgram, ExecuteOutcome,
           ExecuteError, StoreResult, FailUnsupported, RecordFailure, Fail,
           EnqueueWebhook, Goto
      <4> QED
        BY <4>1, <4>2
    <3>3. ctx'[h] = "live" /\
          pc'[h] \in {"execute", "running", "complete", "recordFailure"} =>
             rows'[job[h]].status = "running"
      <4>1. CASE MarkRunning(h)
        <5>1. rows[job[h]] \in Row /\ MarkSubmissionRunning(rows[job[h]]).status = "running"
          BY <4>1, MarkFields DEF MarkRunning, LeaseInv
        <5> QED
          BY <4>1, <5>1 DEF MarkRunning, Goto, LeaseInv, Applied
      <4>2. CASE ~MarkRunning(h)
        BY <1>3, <2>2, <4>2, HandlerFrame DEF HandlerStep, LoadSubmission, StartProgram,
           ExecuteOutcome, ExecuteError, StoreResult, FailUnsupported, RecordFailure,
           Fail, EnqueueWebhook, Goto, OwnerInv
      <4> QED
        BY <4>1, <4>2
    <3> QED
      BY <1>3, <2>2, <3>1, <3>2, <3>3, HandlerFrame DEF OwnerInv
  <2> QED
    BY <2>1, <2>2
<1>4. ASSUME NEW h \in Handlers, GiveUp(h)
      PROVE  OwnerInv'
  BY <1>4, QueueFrame DEF GiveUp, AttemptTimeout, LeaseLost, ShutdownAbort, WorkerCrash,
     Release, Cancel, Ordered, OwnerInv, attemptVars
<1>5. CASE UNCHANGED vars
  BY <1>5 DEF vars, OwnerInv
<1> QED
  BY <1>1, <1>2, <1>3, <1>4, <1>5 DEF Next

(* While a request may still write its row, that row is as it left it.     *)
LEMMA RequestStep ==
    ASSUME Ordered, OrderedInv, [Next]_vars
    PROVE  RequestInv'
<1> USE DEF OrderedInv, PipelineInv, TypeOK
<1>1. ASSUME NEW s \in Subs, ApiStep(s) \/ ClientDisconnect(s) \/ ApiCrash(s)
      PROVE  RequestInv'
  <2> SUFFICES ASSUME NEW t \in Subs
               PROVE  /\ api'[t] = "new" => rows'[t] = AbsentRow
                      /\ api'[t] = "enqueue" => rows'[t].status = "queued"
                      /\ api'[t] = "fail" /\ taskState'[t] = "none" =>
                            rows'[t].status = "queued"
                      /\ api'[t] = "fail" /\ taskState'[t] # "none" => apiCtx'[t] = "done"
    BY DEF RequestInv
  <2>0. CASE t # s
    BY <1>1, <2>0, RequestFrame DEF RequestInv
  <2>1. CASE t = s /\ RejectRequest(s)
    BY <2>1 DEF RejectRequest, ApiGoto
  <2>2. CASE t = s /\ PersistSubmission(s)
    <3>1. \A webhook \in BOOLEAN : CreateSubmission(webhook).status = "queued"
      BY CreateFields
    <3> QED
      BY <2>2, <3>1 DEF PersistSubmission, ApiGoto, Applied
  <2>3. CASE t = s /\ EnqueueExecute(s)
    <3> PICK o \in RedisOutcomes(apiCtx[s]) :
          /\ taskState' = IF Applied(o) THEN [taskState EXCEPT ![s] = "pending"]
                                        ELSE taskState
          /\ ApiGoto(s, IF o = "ok" THEN "accepted" ELSE "fail")
      BY <2>3 DEF EnqueueExecute
    <3>1. o \in {"ok", "err", "lostAck"} /\ (o = "lostAck" => apiCtx[s] = "midcall")
      BY OutcomeFacts DEF RedisOutcomes, Ordered
    <3>2. UNCHANGED rows /\ api[s] = "enqueue"
      BY <2>3 DEF EnqueueExecute
    <3> QED
      BY <2>3, <3>1, <3>2 DEF ApiGoto, Applied, RequestInv, ApiInv
  <2>4. CASE t = s /\ FailAfterEnqueueError(s)
    BY <2>4 DEF FailAfterEnqueueError, ApiGoto
  <2>5. CASE t = s /\ ClientDisconnect(s)
    BY <2>5 DEF ClientDisconnect, taskVars, RequestInv
  <2>6. CASE t = s /\ ApiCrash(s)
    BY <2>6 DEF ApiCrash, ApiGoto
  <2> QED
    BY <1>1, <2>0, <2>1, <2>2, <2>3, <2>4, <2>5, <2>6 DEF ApiStep
<1>2. ASSUME NEW s \in Subs, Recover(s) \/ \E h \in Handlers : Dequeue(h, s)
      PROVE  RequestInv'
  <2>1. CASE Recover(s)
    BY <2>1, QueueFrame DEF Recover, FailedMessage, RequestInv
  <2>2. CASE \E h \in Handlers : Dequeue(h, s)
    BY <2>2 DEF Dequeue, Waiting, RequestInv, apiVars
  <2> QED
    BY <1>2, <2>1, <2>2
<1>3. ASSUME NEW h \in Handlers, HandlerStep(h)
      PROVE  RequestInv'
  <2>1. CASE Return(h)
    BY <2>1, QueueFrame DEF Return, FailedMessage, LeaseInv, RequestInv
  <2>2. CASE ~Return(h)
    <3>1. \A s \in Subs : rows'[s] # rows[s] => taskState[s] = "active"
      BY <1>3, HandlerWrite DEF LeaseInv
    <3> QED
      BY <1>3, <2>2, <3>1, HandlerFrame DEF RequestInv, ApiInv
  <2> QED
    BY <2>1, <2>2
<1>4. ASSUME NEW h \in Handlers, GiveUp(h)
      PROVE  RequestInv'
  BY <1>4, QueueFrame
  DEF GiveUp, AttemptTimeout, LeaseLost, ShutdownAbort, WorkerCrash, FailedMessage,
      Current, LeaseInv, taskVars, RequestInv
<1>5. CASE UNCHANGED vars
  BY <1>5 DEF vars, RequestInv
<1> QED
  BY <1>1, <1>2, <1>3, <1>4, <1>5 DEF Next

-----------------------------------------------------------------------------
(* A row step keeps the shape of a row.                                    *)

Shape(row, n) ==
    /\ row.status = "completed" <=> row.result # 0
    /\ row.status = "failed" <=> row.error # "none"
    /\ Finished(row) <=> row.finished
    /\ row.status \in {"running", "completed"} => row.started
    /\ row.status \in {"absent", "queued"} => ~row.started
    /\ row.result <= n

LEMMA ShapeStep ==
    ASSUME NEW row \in Row, NEW n \in Nat, Shape(row, n), NEW new, RowStep(row, new, n)
    PROVE  Shape(new, n)
<1> USE DEF Shape, Finished
<1>1. CASE \E webhook \in BOOLEAN : new = CreateSubmission(webhook)
  <2>1. /\ new.status = "queued" /\ new.started = FALSE /\ new.result = 0
        /\ new.error = "none" /\ new.finished = FALSE
    BY <1>1, CreateFields
  <2> QED
    BY <2>1
<1>2. CASE row.status \in {"queued", "running"} /\ new = MarkSubmissionRunning(row)
  <2>1. /\ new.status = "running" /\ new.started = TRUE /\ new.result = row.result
        /\ new.error = row.error /\ new.finished = row.finished
    BY <1>2, MarkFields
  <2>2. ~row.finished /\ row.result = 0 /\ row.error = "none"
    BY <1>2
  <2> QED
    BY <2>1, <2>2
<1>3. CASE row.status = "running" /\ \E r \in 1 .. n : new = CompleteSubmission(row, r)
  <2> PICK r \in 1 .. n : new = CompleteSubmission(row, r)
    BY <1>3
  <2>1. r \in Nat /\ r # 0 /\ r <= n
    OBVIOUS
  <2>2. /\ new.status = "completed" /\ new.started = row.started /\ new.result = r
        /\ new.error = row.error /\ new.finished = TRUE
    BY <2>1, CompleteFields
  <2>3. row.started /\ row.error = "none"
    BY <1>3
  <2> QED
    BY <2>1, <2>2, <2>3
<1>4. CASE /\ row.status \in {"queued", "running"}
           /\ \E e \in Errors : new = FailSubmission(row, e)
  <2> PICK e \in Errors : new = FailSubmission(row, e)
    BY <1>4
  <2>1. /\ new.status = "failed" /\ new.finished = TRUE /\ new.result = row.result
        /\ new.error = e
    BY FailFields
  <2>2. row.result = 0 /\ e # "none"
    BY <1>4 DEF Errors
  <2> QED
    BY <2>1, <2>2
<1> QED
  BY <1>1, <1>2, <1>3, <1>4 DEF RowStep

LEMMA RowShapeStep ==
    ASSUME OrderedInv, [Next]_vars
    PROVE  RowShape'
<1> USE DEF OrderedInv, PipelineInv
<1>1. TypeOK /\ TypeOK'
  BY TypeStep
<1>2. \A s \in Subs : runs[s] <= runs'[s]
  <2>1. \A h \in Handlers : HandlerStep(h) => UNCHANGED runs \/ StartProgram(h)
    BY DEF HandlerStep, LoadSubmission, MarkRunning, ExecuteOutcome, ExecuteError,
       StoreResult, FailUnsupported, RecordFailure, Fail, EnqueueWebhook, Return
  <2>2. \A h \in Handlers : StartProgram(h) => \A s \in Subs : runs[s] <= runs'[s]
    BY <1>1 DEF StartProgram, TypeOK
  <2>3. UNCHANGED runs => \A s \in Subs : runs[s] <= runs'[s]
    BY <1>1 DEF TypeOK
  <2> QED
    BY <2>1, <2>2, <2>3, RequestFrame, QueueFrame DEF Next, vars
<1> SUFFICES ASSUME NEW s \in Subs PROVE Shape(rows'[s], runs'[s])
  BY DEF RowShape, Shape, Finished
<1>3. Shape(rows[s], runs[s])
  BY DEF RowShape, Shape
<1>4. rows[s] \in Row /\ runs[s] \in Nat /\ runs'[s] \in Nat /\ rows'[s] \in Row
  BY <1>1 DEF TypeOK
<1>5. Shape(rows'[s], runs[s])
  BY <1>3, <1>4, OneRowStep, ShapeStep
<1>6. rows'[s].result \in Nat
  BY <1>4 DEF Row
<1> QED
  BY <1>2, <1>4, <1>5, <1>6 DEF Shape

LEMMA OrderedInvariant ==
    ASSUME Ordered
    PROVE  Spec => []OrderedInv
<1>1. Init => HeldInv /\ OwnerInv /\ RequestInv /\ RowShape
  BY DEF Init, HeldInv, OwnerInv, RequestInv, RowShape, AbsentRow, Finished
<1>2. PipelineInv /\ HeldInv /\ OwnerInv /\ RequestInv /\ RowShape /\ [Next]_vars =>
        HeldInv' /\ OwnerInv' /\ RequestInv' /\ RowShape'
  BY HeldStep, OwnerStep, RequestStep, RowShapeStep DEF OrderedInv
<1> QED
  BY <1>1, <1>2, PipelineInvariant, PTL DEF Spec, OrderedInv

(* Every polled row has one of the four coherent shapes, as long as no     *)
(* acknowledgement of an enqueue is lost and no statement commits late.    *)
THEOREM RowsAreCoherent ==
    ASSUME Ordered
    PROVE  Spec => []RowShape
BY OrderedInvariant, PTL DEF OrderedInv

(* Under the same assumption no step changes a finished row: a retry, an   *)
(* attempt given up on and the API's error path all find it out of reach   *)
(* (worker.go:75).                                                         *)
THEOREM FinishedStays ==
    ASSUME Ordered
    PROVE  Spec => FinishedIsFinal
<1>1. OrderedInv /\ [Next]_vars =>
        [\A s \in Subs : Finished(rows[s]) => rows'[s] = rows[s]]_vars
  BY OneRowStep DEF RowStep, Finished, AbsentRow
<1> QED
  BY <1>1, OrderedInvariant, PTL DEF Spec, FinishedIsFinal

-----------------------------------------------------------------------------
(* Refinement: what the caller polls is the life cycle it is promised.     *)

LEMMA LifecycleStep ==
    ASSUME OrderedInv, [Next]_vars
    PROVE  [Lifecycle!Next]_(Lifecycle!lifecycleVars)
<1> DEFINE status == [s \in Subs |-> rows[s].status]
           result == [s \in Subs |-> rows[s].result]
<1> USE DEF OrderedInv, PipelineInv
<1>1. CASE rows' = rows
  BY <1>1 DEF Lifecycle!lifecycleVars
<1>2. CASE rows' # rows
  <2>1. PICK s \in Subs : /\ RowStep(rows[s], rows'[s], runs[s])
                          /\ \A t \in Subs \ {s} : rows'[t] = rows[t]
    BY <1>2, OneRowStep
  <2>2. rows[s] \in Row /\ rows' \in [Subs -> Row] /\ rows \in [Subs -> Row]
    BY TypeStep DEF TypeOK
  <2>3. /\ status' = [status EXCEPT ![s] = rows'[s].status]
        /\ result' = [result EXCEPT ![s] = rows'[s].result]
    BY <2>1, <2>2
  <2>4. rows'[s].result = rows[s].result => UNCHANGED result
    BY <2>3
  <2> HIDE DEF status, result
  <2>5. CASE rows[s] = AbsentRow /\ \E webhook \in BOOLEAN : rows'[s] = CreateSubmission(webhook)
    <3>1. /\ rows[s].status = "absent" /\ rows[s].result = 0
          /\ rows'[s].status = "queued" /\ rows'[s].result = 0
      <4> PICK webhook \in BOOLEAN : rows'[s] = CreateSubmission(webhook)
        BY <2>5
      <4>1. /\ CreateSubmission(webhook).status = "queued"
            /\ CreateSubmission(webhook).result = 0
        BY CreateFields
      <4> QED
        BY <2>5, <4>1 DEF AbsentRow
    <3>2. Lifecycle!Accept(s)
      BY <2>3, <2>4, <3>1 DEF Lifecycle!Accept, Lifecycle!Move, status, result
    <3> QED
      BY <3>2 DEF Lifecycle!Next
  <2>6. CASE /\ rows[s].status \in {"queued", "running"}
             /\ rows'[s] = MarkSubmissionRunning(rows[s])
    <3>1. rows'[s].status = "running" /\ rows'[s].result = rows[s].result
      BY <2>2, <2>6, MarkFields
    <3>2. CASE rows[s].status = "queued"
      BY <2>3, <2>4, <3>1, <3>2
      DEF Lifecycle!Next, Lifecycle!Start, Lifecycle!Move, status, result
    <3>3. CASE rows[s].status = "running"
      BY <2>3, <2>4, <3>1, <3>3 DEF Lifecycle!lifecycleVars, status, result
    <3> QED
      BY <2>6, <3>2, <3>3
  <2>7. CASE /\ rows[s].status = "running"
             /\ \E r \in 1 .. runs[s] : rows'[s] = CompleteSubmission(rows[s], r)
    <3> PICK r \in 1 .. runs[s] : rows'[s] = CompleteSubmission(rows[s], r)
      BY <2>7
    <3>1. r \in Nat \ {0}
      OBVIOUS
    <3>2. rows'[s].status = "completed" /\ rows'[s].result = r
      <4>1. /\ CompleteSubmission(rows[s], r).status = "completed"
            /\ CompleteSubmission(rows[s], r).result = r
        BY <2>2, <3>1, CompleteFields
      <4> QED
        BY <4>1
    <3>3. Lifecycle!Complete(s)
      BY <2>3, <2>7, <3>1, <3>2
      DEF Lifecycle!Complete, Lifecycle!Move, status, result
    <3> QED
      BY <3>3 DEF Lifecycle!Next
  <2>8. CASE /\ rows[s].status \in {"queued", "running"}
             /\ \E e \in Errors : rows'[s] = FailSubmission(rows[s], e)
    <3>1. rows'[s].status = "failed" /\ rows'[s].result = rows[s].result
      <4> PICK e \in Errors : rows'[s] = FailSubmission(rows[s], e)
        BY <2>8
      <4>1. /\ FailSubmission(rows[s], e).status = "failed"
            /\ FailSubmission(rows[s], e).result = rows[s].result
        BY <2>2, FailFields
      <4> QED
        BY <4>1
    <3>2. Lifecycle!Fail(s)
      BY <2>3, <2>4, <2>8, <3>1 DEF Lifecycle!Fail, Lifecycle!Move, status, result
    <3> QED
      BY <3>2 DEF Lifecycle!Next
  <2> QED
    BY <2>1, <2>5, <2>6, <2>7, <2>8 DEF RowStep
<1> QED
  BY <1>1, <1>2

(* The pipeline implements SubmissionLifecycle: whatever else fails, a     *)
(* caller sees queued, running, then one terminal state (README.md:127).   *)
THEOREM PipelineImplementsLifecycle ==
    ASSUME Ordered
    PROVE  Spec => ImplementsLifecycle
<1>1. Init => Lifecycle!Init
  BY DEF Init, Lifecycle!Init, AbsentRow
<1>2. OrderedInv /\ [Next]_vars => [Lifecycle!Next]_(Lifecycle!lifecycleVars)
  BY LifecycleStep
<1> QED
  BY <1>1, <1>2, OrderedInvariant, PTL DEF Spec, ImplementsLifecycle, Lifecycle!Spec
=============================================================================
