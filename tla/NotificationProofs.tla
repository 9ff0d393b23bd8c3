------------------------- MODULE NotificationProofs -------------------------
(***************************************************************************)
(* Theorems about the webhook tasks ExecutionPipeline enqueues: a task     *)
(* names a finished submission, there is one at most, and a submission its *)
(* worker finished has one.                                                *)
(***************************************************************************)
EXTENDS ExecutionPipelineProofs

(* A failure that was recorded is recorded, and no statement or enqueue    *)
(* takes effect once its attempt was given up.                             *)
Recorded == "dbErr" \notin Faults /\ "lateWrite" \notin Faults

\* Where an attempt that has found its submission unfinished may be.
Deciding == {"mark", "unsupported", "execute", "running", "complete", "recordFailure", "notify"}

(* The attempt that holds the lease is the only one that can enqueue, and  *)
(* it has found a row that nobody has announced.                           *)
AnnounceInv ==
    /\ \A h \in Handlers : ctx[h] # "midcall"
    /\ \A s \in Subs : hooks[s] > 0 => taskState[s] # "none"
    /\ \A h \in Handlers : ctx[h] = "live" /\ pc[h] \in Deciding => hooks[job[h]] = 0
    /\ \A h \in Handlers : ctx[h] = "live" /\ pc[h] = "notify" => Finished(rows[job[h]])
    /\ HookOnlyWhenFinished
    /\ AtMostOneHook

NotifyInv == PipelineInv /\ AnnounceInv

-----------------------------------------------------------------------------
(* A request writes a row that has a task only to fail it.                 *)
LEMMA RequestRow ==
    ASSUME TypeOK, ApiInv, NEW s \in Subs, ApiStep(s) \/ ClientDisconnect(s) \/ ApiCrash(s),
           NEW t \in Subs, rows'[t] # rows[t]
    PROVE  /\ t = s
           /\ \/ taskState[t] = "none" /\ \E webhook \in BOOLEAN : rows'[t] = CreateSubmission(webhook)
              \/ rows'[t] = FailSubmission(rows[t], "enqueue")
<1> USE DEF TypeOK
<1>1. t = s
  BY RequestFrame
<1>2. CASE PersistSubmission(s)
  BY <1>1, <1>2 DEF PersistSubmission, ApiInv
<1>3. CASE FailAfterEnqueueError(s)
  BY <1>1, <1>3 DEF FailAfterEnqueueError
<1> QED
  BY <1>1, <1>2, <1>3
  DEF ApiStep, RejectRequest, EnqueueExecute, ClientDisconnect, ApiCrash

(* An attempt writes the row of its job, and only on the way to a result.  *)
LEMMA AttemptRow ==
    ASSUME PipelineInv, NEW h \in Handlers, ctx[h] # "midcall", HandlerStep(h),
           NEW t \in Subs, rows'[t] # rows[t]
    PROVE  /\ t = job[h] /\ ctx[h] = "live"
           /\ pc[h] \in Deciding \ {"notify"}
           /\ \/ rows'[t] = MarkSubmissionRunning(rows[t])
              \/ rows'[t] = CompleteSubmission(rows[t], held[h])
              \/ \E e \in {"engine", "unsupported"} : rows'[t] = FailSubmission(rows[t], e)
<1> USE DEF PipelineInv, TypeOK, Deciding
<1>1. CASE MarkRunning(h)
  <2>1. ctx[h] = "live"
    BY <1>1, OutcomeFacts DEF MarkRunning, DbOutcomes
  <2> QED
    BY <1>1, <2>1 DEF MarkRunning
<1>2. CASE StoreResult(h)
  <2>1. PICK o \in TextOutcomes(ctx[h]) : Applied(o)
    BY <1>2 DEF StoreResult
  <2>2. o \in DbOutcomes(ctx[h])
    BY <2>1 DEF TextOutcomes, Applied
  <2>3. ctx[h] = "live"
    BY <2>1, <2>2, OutcomeFacts DEF DbOutcomes
  <2> QED
    BY <1>2, <2>3 DEF StoreResult
<1>3. CASE FailUnsupported(h)
  <2>1. ctx[h] = "live"
    BY <1>3, OutcomeFacts DEF FailUnsupported, Fail, DbOutcomes
  <2> QED
    BY <1>3, <2>1 DEF FailUnsupported, Fail
<1>4. CASE RecordFailure(h)
  <2>1. ctx[h] = "live"
    BY <1>4, OutcomeFacts DEF RecordFailure, Fail, DbOutcomes
  <2> QED
    BY <1>4, <2>1 DEF RecordFailure, Fail
<1> QED
  BY <1>1, <1>2, <1>3, <1>4
  DEF HandlerStep, LoadSubmission, StartProgram, ExecuteOutcome, ExecuteError,
      EnqueueWebhook, Return

(* Once a submission is announced, its row changes only if the API fails   *)
(* it for an enqueue that it believes has failed.                          *)
LEMMA AnnouncedRow ==
    ASSUME NotifyInv, [Next]_vars, NEW s \in Subs, hooks[s] > 0
    PROVE  rows'[s] = rows[s] \/ rows'[s] = FailSubmission(rows[s], "enqueue")
<1> USE DEF NotifyInv, AnnounceInv, PipelineInv
<1>1. ASSUME NEW r \in Subs, ApiStep(r) \/ ClientDisconnect(r) \/ ApiCrash(r)
      PROVE  rows'[s] = rows[s] \/ rows'[s] = FailSubmission(rows[s], "enqueue")
  BY <1>1, RequestRow
<1>2. ASSUME NEW h \in Handlers, HandlerStep(h)
      PROVE  rows'[s] = rows[s]
  <2> SUFFICES ASSUME rows'[s] # rows[s] PROVE FALSE
    OBVIOUS
  <2>1. s = job[h] /\ ctx[h] = "live" /\ pc[h] \in Deciding
    BY <1>2, AttemptRow
  <2> QED
    BY <2>1
<1> QED
  BY <1>1, <1>2, QueueFrame DEF Next, vars

(* What an announced row is, it stays: finished.                           *)
LEMMA FinishedKept ==
    ASSUME NotifyInv, [Next]_vars, NEW s \in Subs, hooks[s] > 0
    PROVE  Finished(rows'[s])
<1>1. Finished(rows[s]) /\ rows[s] \in Row
  BY DEF NotifyInv, AnnounceInv, HookOnlyWhenFinished, PipelineInv, TypeOK
<1>2. Finished(FailSubmission(rows[s], "enqueue"))
  BY <1>1, FailFields DEF Errors, Finished
<1> QED
  BY <1>1, <1>2, AnnouncedRow

-----------------------------------------------------------------------------
(* Where the row is when an attempt sets out to announce it.               *)
LEMMA NotifyRow ==
    ASSUME Recorded, NotifyInv, NEW h \in Handlers, HandlerStep(h),
           ctx'[h] = "live", pc'[h] = "notify"
    PROVE  ctx[h] = "live" /\ pc[h] \in Deciding /\ Finished(rows'[job[h]])
<1> USE DEF NotifyInv, PipelineInv, TypeOK
<1>0. ~Return(h)
  BY DEF Return, Release
<1>1. ctx[h] = "live" /\ job[h] \in Subs /\ rows[job[h]] \in Row
  BY <1>0, HandlerFrame DEF LeaseInv
<1>2. CASE StoreResult(h)
  <2>0. held[h] \in Nat
    OBVIOUS
  <2>1. CompleteSubmission(rows[job[h]], held[h]).status = "completed"
    BY <1>1, <2>0, CompleteFields
  <2>2. Finished(CompleteSubmission(rows[job[h]], held[h]))
    BY <2>1 DEF Finished
  <2> QED
    BY <1>1, <1>2, <2>2 DEF StoreResult, Goto, Applied, Deciding
<1>3. CASE RecordFailure(h)
  <2>1. PICK o \in DbOutcomes(ctx[h]) :
          rows' = IF Applied(o) THEN [rows EXCEPT ![job[h]] = FailSubmission(@, "engine")]
                                ELSE rows
    BY <1>3 DEF RecordFailure, Fail
  <2>2. Applied(o)
    BY <1>1, <2>1 DEF DbOutcomes, Outcomes, Applied, Recorded
  <2>3. Finished(FailSubmission(rows[job[h]], "engine"))
    BY <1>1, FailFields DEF Finished, Errors
  <2> QED
    BY <1>1, <1>3, <2>1, <2>2, <2>3 DEF RecordFailure, Deciding
<1> QED
  BY <1>0, <1>2, <1>3
  DEF HandlerStep, LoadSubmission, MarkRunning, StartProgram, ExecuteOutcome, ExecuteError,
      FailUnsupported, Fail, EnqueueWebhook, Goto

(* What an attempt decides on, it has found unannounced.                   *)
LEMMA DecidingStep ==
    ASSUME NotifyInv, NEW h \in Handlers, HandlerStep(h),
           ctx'[h] = "live", pc'[h] \in Deciding
    PROVE  ctx[h] = "live" /\ hooks[job[h]] = 0 /\ UNCHANGED hooks
<1> USE DEF NotifyInv, PipelineInv, TypeOK, AnnounceInv
<1>0. ~Return(h)
  BY DEF Return, Release
<1>1. ctx[h] = "live" /\ job[h] \in Subs /\ hooks[job[h]] \in Nat
  BY <1>0, HandlerFrame DEF LeaseInv
<1>2. CASE LoadSubmission(h)
  <2>1. ~Finished(rows[job[h]])
    BY <1>1, <1>2 DEF LoadSubmission, Goto, Deciding
  <2> QED
    BY <1>1, <1>2, <2>1 DEF LoadSubmission, HookOnlyWhenFinished
<1>3. CASE ~LoadSubmission(h)
  <2>1. pc[h] \in Deciding /\ UNCHANGED hooks
    BY <1>0, <1>1, <1>3
    DEF HandlerStep, MarkRunning, StartProgram, ExecuteOutcome, ExecuteError, StoreResult,
        FailUnsupported, RecordFailure, Fail, EnqueueWebhook, Goto, Deciding
  <2> QED
    BY <1>1, <2>1
<1> QED
  BY <1>2, <1>3

(* Only the attempt with the lease enqueues, and only what is finished.    *)
LEMMA HooksStep ==
    ASSUME NotifyInv, NEW h \in Handlers, HandlerStep(h), NEW s \in Subs, hooks'[s] # hooks[s]
    PROVE  /\ s = job[h] /\ ctx[h] = "live" /\ pc[h] = "notify" /\ pc'[h] = "retNil"
           /\ hooks'[s] = 1 /\ rows' = rows
<1> USE DEF NotifyInv, PipelineInv, TypeOK, AnnounceInv
<1>1. EnqueueWebhook(h)
  BY DEF HandlerStep, LoadSubmission, MarkRunning, StartProgram, ExecuteOutcome, ExecuteError,
     StoreResult, FailUnsupported, RecordFailure, Fail, Return
<1>2. ctx[h] = "live"
  <2>1. PICK o \in IF rows[job[h]].webhook THEN RedisOutcomes(ctx[h]) ELSE {"err"} : Applied(o)
    BY <1>1 DEF EnqueueWebhook
  <2>2. o \in RedisOutcomes(ctx[h])
    BY <2>1 DEF Applied
  <2> QED
    BY <2>1, <2>2, OutcomeFacts DEF RedisOutcomes
<1>3. s = job[h] /\ hooks'[s] = hooks[s] + 1
  BY <1>1 DEF EnqueueWebhook
<1>4. hooks[s] = 0
  BY <1>1, <1>2, <1>3 DEF EnqueueWebhook, Deciding
<1> QED
  BY <1>1, <1>2, <1>3, <1>4 DEF EnqueueWebhook, Goto

LEMMA AnnounceStep ==
    ASSUME Recorded, NotifyInv, [Next]_vars
    PROVE  AnnounceInv'
<1> USE DEF NotifyInv, PipelineInv, TypeOK
<1>0. TypeOK' /\ \A s \in Subs : hooks[s] > 0 => Finished(rows'[s])
  BY TypeStep, FinishedKept
<1>1. ASSUME NEW s \in Subs, ApiStep(s) \/ ClientDisconnect(s) \/ ApiCrash(s)
      PROVE  AnnounceInv'
  <2>1. \A h \in Handlers : ctx[h] = "live" /\ pc[h] = "notify" => Finished(rows'[job[h]])
    <3> SUFFICES ASSUME NEW h \in Handlers, ctx[h] = "live", pc[h] = "notify"
                 PROVE  Finished(rows'[job[h]])
      OBVIOUS
    <3>1. job[h] \in Subs /\ taskState[job[h]] = "active" /\ Finished(rows[job[h]])
      BY DEF LeaseInv, AnnounceInv
    <3>2. Finished(FailSubmission(rows[job[h]], "enqueue"))
      BY <3>1, FailFields DEF Errors, Finished
    <3> QED
      BY <1>1, <3>1, <3>2, RequestRow
  <2> QED
    BY <1>0, <1>1, <2>1, RequestFrame DEF AnnounceInv, HookOnlyWhenFinished, AtMostOneHook
<1>2. ASSUME NEW s \in Subs, Recover(s) \/ \E h \in Handlers : Dequeue(h, s)
      PROVE  AnnounceInv'
  <2>1. CASE Recover(s)
    BY <2>1, QueueFrame DEF Recover, FailedMessage, AnnounceInv, HookOnlyWhenFinished, AtMostOneHook
  <2>2. CASE \E h \in Handlers : Dequeue(h, s)
    BY <2>2 DEF Dequeue, Deciding, AnnounceInv, HookOnlyWhenFinished, AtMostOneHook
  <2> QED
    BY <1>2, <2>1, <2>2
<1>3. ASSUME NEW h \in Handlers, HandlerStep(h)
      PROVE  AnnounceInv'
  <2>1. CASE Return(h)
    BY <2>1, QueueFrame
    DEF Return, Release, FailedMessage, LeaseInv, Deciding, AnnounceInv, HookOnlyWhenFinished,
        AtMostOneHook
  <2>2. CASE ~Return(h)
    <3>1. \A g \in Handlers : ctx'[g] # "midcall"
      BY <1>3, <2>2, HandlerFrame DEF AnnounceInv
    <3>2. \A s \in Subs : hooks'[s] > 0 => taskState'[s] # "none"
      BY <1>0, <1>3, <2>2, HandlerFrame, HooksStep DEF AnnounceInv, LeaseInv
    <3>3. ASSUME NEW g \in Handlers, ctx'[g] = "live", pc'[g] \in Deciding
          PROVE  hooks'[job'[g]] = 0
      <4>1. job'[g] = job[g] /\ job[g] \in Subs
        BY <1>3, <2>2, <3>3, HandlerFrame DEF LeaseInv, Deciding
      <4>2. CASE g = h
        BY <1>3, <3>3, <4>1, <4>2, DecidingStep
      <4>3. CASE g # h
        <5>1. ctx[g] = "live" /\ pc[g] \in Deciding
          BY <1>3, <2>2, <3>3, <4>3, HandlerFrame
        <5>2. hooks[job[g]] = 0
          BY <5>1 DEF AnnounceInv
        <5>3. ctx[h] = "live" => job[h] # job[g]
          BY <4>3, <5>1 DEF LeaseInv
        <5> QED
          BY <1>3, <4>1, <5>2, <5>3, HooksStep
      <4> QED
        BY <4>2, <4>3
    <3>4. ASSUME NEW g \in Handlers, ctx'[g] = "live", pc'[g] = "notify"
          PROVE  Finished(rows'[job'[g]])
      <4>1. job'[g] = job[g] /\ job[g] \in Subs
        BY <1>3, <2>2, <3>4, HandlerFrame DEF LeaseInv
      <4>2. CASE g = h
        BY <1>3, <3>4, <4>1, <4>2, NotifyRow
      <4>3. CASE g # h
        <5>1. ctx[g] = "live" /\ pc[g] = "notify" /\ Finished(rows[job[g]])
          BY <1>3, <2>2, <3>4, <4>3, HandlerFrame DEF AnnounceInv
        <5>2. ctx[h] = "live" => job[h] # job[g]
          BY <4>3, <5>1 DEF LeaseInv
        <5>3. rows'[job[g]] = rows[job[g]]
          BY <1>3, <4>1, <5>2, AttemptRow DEF AnnounceInv
        <5> QED
          BY <4>1, <5>1, <5>3
      <4> QED
        BY <4>2, <4>3
    <3>5. HookOnlyWhenFinished' /\ AtMostOneHook'
      <4> SUFFICES ASSUME NEW s \in Subs
                   PROVE  (hooks'[s] > 0 => Finished(rows'[s])) /\ hooks'[s] <= 1
        BY DEF HookOnlyWhenFinished, AtMostOneHook
      <4>1. CASE hooks'[s] = hooks[s]
        BY <1>0, <4>1 DEF AnnounceInv, AtMostOneHook
      <4>2. CASE hooks'[s] # hooks[s]
        BY <1>3, <4>2, HooksStep DEF AnnounceInv
      <4> QED
        BY <4>1, <4>2
    <3> QED
      BY <3>1, <3>2, <3>3, <3>4, <3>5 DEF AnnounceInv
  <2> QED
    BY <2>1, <2>2
<1>4. ASSUME NEW h \in Handlers, GiveUp(h)
      PROVE  AnnounceInv'
  BY <1>4, QueueFrame
  DEF GiveUp, AttemptTimeout, LeaseLost, ShutdownAbort, WorkerCrash, FailedMessage, Release,
      Cancel, Current, Recorded, LeaseInv, taskVars, attemptVars, AnnounceInv,
      HookOnlyWhenFinished, AtMostOneHook
<1>5. CASE UNCHANGED vars
  BY <1>5 DEF vars, AnnounceInv, HookOnlyWhenFinished, AtMostOneHook
<1> QED
  BY <1>1, <1>2, <1>3, <1>4, <1>5 DEF Next

LEMMA NotifyInvariant ==
    ASSUME Recorded
    PROVE  Spec => []NotifyInv
<1>1. Init => AnnounceInv
  BY DEF Init, AnnounceInv, HookOnlyWhenFinished, AtMostOneHook
<1>2. PipelineInv /\ AnnounceInv /\ [Next]_vars => AnnounceInv'
  BY AnnounceStep DEF NotifyInv
<1> QED
  BY <1>1, <1>2, PipelineInvariant, PTL DEF Spec, NotifyInv

(* A webhook task always names a finished submission (queue.go:36), even   *)
(* when the API takes an enqueue for failed that was not.                  *)
THEOREM HooksAreForFinished ==
    ASSUME Recorded
    PROVE  Spec => []HookOnlyWhenFinished
BY NotifyInvariant, PTL DEF NotifyInv, AnnounceInv

(* Retries, requeues and attempts given up on never announce a submission  *)
(* twice (worker.go:75).                                                   *)
THEOREM HooksAreSingle ==
    ASSUME Recorded
    PROVE  Spec => []AtMostOneHook
BY NotifyInvariant, PTL DEF NotifyInv, AnnounceInv

-----------------------------------------------------------------------------
(* What the handlers absorb: an engine that fails, output or code that no  *)
(* text column takes, a language that is gone, a client that goes away, an *)
(* enqueue whose acknowledgement is lost, and shutdowns.                   *)
Absorbed ==
    Faults \subseteq
        {"engine", "badText", "langRemoved", "disconnect", "enqueueLostAck", "shutdown"}

\* Nobody but the API has finished the row yet.
Unfinished(s) == Finished(rows[s]) => rows[s].error = "enqueue"

\* If the row has to be announced it has been.
Told(s) == rows[s].webhook /\ rows[s].error \in {"none", "engine"} => hooks[s] > 0

Undecided == {"load", "retErr"} \cup (Deciding \ {"notify"})

(* Until a shutdown interferes, an attempt holds its lease to the end, and *)
(* leaves its row unfinished or announced.                                 *)
ToldInv ==
    /\ \A s \in Subs : taskState[s] = "active" =>
          \E h \in Handlers : ctx[h] = "live" /\ job[h] = s
    /\ \A h \in Handlers : pc[h] # "idle" /\ requeues[job[h]] = 0 => ctx[h] = "live"
    /\ \A h \in Handlers : pc[h] \in Undecided /\ requeues[job[h]] = 0 => Unfinished(job[h])
    /\ \A h \in Handlers : pc[h] = "retNil" /\ requeues[job[h]] = 0 => Told(job[h])
    /\ \A s \in Subs : taskState[s] \in {"none"} \cup Waiting /\ requeues[s] = 0 => Unfinished(s)
    /\ \A s \in Subs : taskState[s] = "completed" /\ requeues[s] = 0 => Told(s)

AbsorbedInv == NotifyInv /\ ToldInv

\* No context is cancelled while its attempt has a call under way, so only a live
\* attempt writes, and its own statements do what they report.
LEMMA AbsorbedOutcomes ==
    ASSUME Absorbed
    PROVE  /\ Recorded
           /\ DbOutcomes("live") = {"ok"}
           /\ TextOutcomes("live") \subseteq {"ok", "err"}
           /\ RedisOutcomes("live") \subseteq {"ok", "lostAck"}
BY DEF Absorbed, Recorded, DbOutcomes, TextOutcomes, RedisOutcomes, Outcomes

(* A step of an attempt that holds its lease, seen from its own job.       *)
LEMMA AttemptTold ==
    ASSUME Absorbed, AbsorbedInv, NEW h \in Handlers, HandlerStep(h), ~Return(h),
           ctx[h] = "live", requeues[job[h]] = 0
    PROVE  /\ pc'[h] \in Undecided => Unfinished(job[h])'
           /\ pc'[h] = "retNil" => Told(job[h])'
<1> USE DEF AbsorbedInv, NotifyInv, PipelineInv, TypeOK
<1>0. job[h] \in Subs /\ UNCHANGED job /\ rows[job[h]] \in Row /\ held[h] \in Nat
  BY HandlerFrame DEF LeaseInv
<1>1. CASE LoadSubmission(h)
  <2>1. rows' = rows /\ hooks' = hooks /\ Unfinished(job[h])
    BY <1>1 DEF LoadSubmission, ToldInv, Undecided
  <2>2. pc'[h] = "retNil" => Finished(rows[job[h]])
    BY <1>1 DEF LoadSubmission, Goto
  <2> QED
    BY <1>0, <2>1, <2>2 DEF Unfinished, Told
<1>2. CASE MarkRunning(h)
  <2>1. MarkSubmissionRunning(rows[job[h]]).status = "running"
    BY <1>0, MarkFields
  <2>2. rows'[job[h]] = MarkSubmissionRunning(rows[job[h]]) /\ pc'[h] = "execute"
    BY <1>0, <1>2, AbsorbedOutcomes DEF MarkRunning, Goto, Applied
  <2> QED
    BY <1>0, <2>1, <2>2 DEF Unfinished, Finished
<1>3. CASE StartProgram(h) \/ ExecuteOutcome(h) \/ ExecuteError(h)
  <2>1. rows' = rows /\ pc[h] \in Undecided /\ pc'[h] # "retNil"
    BY <1>3 DEF StartProgram, ExecuteOutcome, ExecuteError, Goto, Undecided, Deciding
  <2> QED
    BY <1>0, <2>1 DEF ToldInv, Unfinished
<1>4. CASE StoreResult(h)
  <2>1. pc'[h] = "notify" \/ (pc'[h] = "retErr" /\ rows' = rows)
    BY <1>4, AbsorbedOutcomes DEF StoreResult, Goto, Applied
  <2>2. pc[h] \in Undecided
    BY <1>4 DEF StoreResult, Undecided, Deciding
  <2> QED
    BY <1>0, <2>1, <2>2 DEF ToldInv, Unfinished, Undecided, Deciding
<1>5. CASE FailUnsupported(h)
  <2>1. rows'[job[h]] = FailSubmission(rows[job[h]], "unsupported") /\ pc'[h] = "retNil"
    BY <1>0, <1>5, AbsorbedOutcomes DEF FailUnsupported, Fail, Goto, Applied
  <2>2. rows'[job[h]].error = "unsupported"
    BY <1>0, <2>1, FailFields DEF Errors
  <2> QED
    BY <1>0, <2>1, <2>2 DEF Told, Undecided, Deciding
<1>6. CASE RecordFailure(h)
  BY <1>6 DEF RecordFailure, Fail, Goto, Undecided, Deciding
<1>7. CASE EnqueueWebhook(h)
  <2>1. pc'[h] = "retNil" /\ rows' = rows
    BY <1>7 DEF EnqueueWebhook, Goto
  <2>2. rows[job[h]].webhook => hooks'[job[h]] > 0
    BY <1>0, <1>7, AbsorbedOutcomes DEF EnqueueWebhook, Applied
  <2> QED
    BY <1>0, <2>1, <2>2 DEF Told, Undecided, Deciding
<1> QED
  BY <1>1, <1>2, <1>3, <1>4, <1>5, <1>6, <1>7 DEF HandlerStep

LEMMA ToldStep ==
    ASSUME Absorbed, AbsorbedInv, [Next]_vars
    PROVE  ToldInv'
<1> USE DEF AbsorbedInv, NotifyInv, PipelineInv, TypeOK
<1>1. ASSUME NEW s \in Subs, ApiStep(s) \/ ClientDisconnect(s) \/ ApiCrash(s)
      PROVE  ToldInv'
  <2>0. \A t \in Subs : FailSubmission(rows[t], "enqueue").error = "enqueue"
    BY FailFields DEF Errors
  <2>1. UNCHANGED <<retried, requeues, pc, job, ctx, hooks>>
    BY <1>1, RequestFrame
  <2>2. \A t \in Subs : Unfinished(t) => Unfinished(t)'
    <3> SUFFICES ASSUME NEW t \in Subs, Unfinished(t), rows'[t] # rows[t] PROVE Unfinished(t)'
      BY DEF Unfinished
    <3>1. CASE \E webhook \in BOOLEAN : rows'[t] = CreateSubmission(webhook)
      BY <3>1, CreateFields DEF Unfinished, Finished
    <3>2. CASE rows'[t] = FailSubmission(rows[t], "enqueue")
      BY <2>0, <3>2 DEF Unfinished
    <3> QED
      BY <1>1, <3>1, <3>2, RequestRow
  <2>3. \A t \in Subs : taskState[t] # "none" /\ Told(t) => Told(t)'
    <3> SUFFICES ASSUME NEW t \in Subs, taskState[t] # "none", Told(t), rows'[t] # rows[t]
                 PROVE  Told(t)'
      BY <2>1 DEF Told
    <3>1. rows'[t] = FailSubmission(rows[t], "enqueue")
      BY <1>1, RequestRow
    <3> QED
      BY <2>0, <3>1 DEF Told
  <2>4. \A t \in Subs : taskState'[t] = taskState[t] \/
                          (taskState[t] = "none" /\ taskState'[t] = "pending")
    BY <1>1, RequestFrame DEF ApiInv
  <2>5. \A h \in Handlers : pc[h] # "idle" /\ requeues[job[h]] = 0 =>
           job[h] \in Subs /\ taskState[job[h]] = "active"
    BY DEF ToldInv, LeaseInv
  <2>6. \A h \in Handlers : pc[h] \in Undecided \cup {"retNil"} => pc[h] # "idle"
    BY DEF Undecided, Deciding
  <2> QED
    BY <2>1, <2>2, <2>3, <2>4, <2>5, <2>6 DEF ToldInv, Waiting
<1>2. ASSUME NEW s \in Subs, Recover(s) \/ \E h \in Handlers : Dequeue(h, s)
      PROVE  ToldInv'
  <2>1. ~Recover(s)
    BY DEF Recover, Current, ToldInv
  <2>2. PICK h \in Handlers : Dequeue(h, s)
    BY <1>2, <2>1
  <2>3. /\ UNCHANGED <<rows, requeues, hooks>>
        /\ pc' = [pc EXCEPT ![h] = "load"] /\ job' = [job EXCEPT ![h] = s]
        /\ ctx' = [ctx EXCEPT ![h] = "live"] /\ pc[h] = "idle"
        /\ taskState' = [taskState EXCEPT ![s] = "active"] /\ taskState[s] \in Waiting
    BY <2>2 DEF Dequeue
  <2>4. ctx[h] # "live"
    BY <2>3 DEF LeaseInv
  <2>5. requeues[s] = 0 => Unfinished(s)
    BY <2>3 DEF ToldInv
  <2> QED
    BY <2>3, <2>4, <2>5 DEF ToldInv, Unfinished, Told, Waiting, Undecided
<1>3. ASSUME NEW h \in Handlers, HandlerStep(h)
      PROVE  ToldInv'
  <2>1. CASE Return(h)
    <3>1. /\ UNCHANGED <<rows, requeues, hooks>>
          /\ pc' = [pc EXCEPT ![h] = "idle"] /\ job' = [job EXCEPT ![h] = NoJob]
          /\ ctx' = [ctx EXCEPT ![h] = "done"] /\ pc[h] \in Returned
      BY <2>1 DEF Return, Release
    <3>2. job[h] \in Subs /\ (requeues[job[h]] = 0 => ctx[h] = "live")
      BY <3>1 DEF LeaseInv, ToldInv, Returned
    <3>3. /\ \A t \in Subs : taskState'[t] # taskState[t] => t = job[h] /\ ctx[h] = "live"
          /\ ctx[h] = "live" => /\ taskState'[job[h]] \in {"completed", "archived", "retry"}
                                /\ taskState'[job[h]] = "completed" => pc[h] = "retNil"
                                /\ taskState'[job[h]] = "retry" => pc[h] = "retErr"
      BY <2>1, <3>2 DEF Return, FailedMessage, Returned
    <3>4. \A g \in Handlers \ {h} : ctx[g] = "live" /\ ctx[h] = "live" => job[g] # job[h]
      BY DEF LeaseInv
    <3>5. \A t \in Subs : (Unfinished(t) => Unfinished(t)') /\ (Told(t) => Told(t)')
      BY <3>1 DEF Unfinished, Told
    <3>6. \A t \in Subs : taskState'[t] = "active" =>
             \E g \in Handlers : ctx'[g] = "live" /\ job'[g] = t
      BY <3>1, <3>2, <3>3 DEF ToldInv
    <3>7. \A g \in Handlers : pc'[g] \in Undecided \cup {"retNil"} => g # h
      BY <3>1 DEF Undecided, Deciding
    <3>8. \A g \in Handlers \ {h} : pc'[g] = pc[g] /\ job'[g] = job[g] /\ ctx'[g] = ctx[g]
      BY <3>1
    <3>9. \A t \in Subs : taskState'[t] \in {"none"} \cup Waiting /\ requeues[t] = 0 =>
             Unfinished(t)
      BY <3>2, <3>3 DEF ToldInv, Waiting, Undecided
    <3>10. \A t \in Subs : taskState'[t] = "completed" /\ requeues[t] = 0 => Told(t)
      BY <3>2, <3>3 DEF ToldInv
    <3>11. \A g \in Handlers : pc'[g] # "idle" => g # h /\ job[g] \in Subs
      BY <3>1, <3>8 DEF LeaseInv
    <3>12. \A g \in Handlers : pc'[g] # "idle" /\ requeues'[job'[g]] = 0 => ctx'[g] = "live"
      BY <3>1, <3>8, <3>11 DEF ToldInv
    <3>13. ASSUME NEW g \in Handlers, requeues'[job'[g]] = 0
           PROVE  /\ pc'[g] \in Undecided => Unfinished(job[g])' /\ job'[g] = job[g]
                  /\ pc'[g] = "retNil" => Told(job[g])' /\ job'[g] = job[g]
      <4> SUFFICES ASSUME pc'[g] \in Undecided \cup {"retNil"}
                   PROVE  /\ pc'[g] \in Undecided => Unfinished(job[g])' /\ job'[g] = job[g]
                          /\ pc'[g] = "retNil" => Told(job[g])' /\ job'[g] = job[g]
        OBVIOUS
      <4>1. g # h /\ pc'[g] = pc[g] /\ job'[g] = job[g] /\ requeues[job[g]] = 0
        BY <3>1, <3>7, <3>8, <3>13
      <4>2. /\ pc[g] \in Undecided => Unfinished(job[g])
            /\ pc[g] = "retNil" => Told(job[g])
        BY <4>1 DEF ToldInv
      <4> QED
        BY <3>1, <4>1, <4>2 DEF Unfinished, Told
    <3> QED
      BY <3>1, <3>5, <3>6, <3>9, <3>10, <3>12, <3>13 DEF ToldInv, Unfinished, Told
  <2>2. CASE ~Return(h)
    <3>1. /\ UNCHANGED <<taskState, requeues, job>>
          /\ pc[h] # "idle" /\ pc'[h] # "idle" /\ job[h] \in Subs
          /\ ctx'[h] = "live" <=> ctx[h] = "live"
          /\ \A g \in Handlers \ {h} : pc'[g] = pc[g] /\ ctx'[g] = ctx[g]
      BY <1>3, <2>2, HandlerFrame DEF LeaseInv
    <3>2. \A t \in Subs \ {job[h]} : rows'[t] = rows[t] /\ hooks'[t] = hooks[t]
      BY <1>3, <2>2, HandlerFrame, HooksStep
    <3>3. \A t \in Subs \ {job[h]} : (Unfinished(t) => Unfinished(t)') /\ (Told(t) => Told(t)')
      BY <3>2 DEF Unfinished, Told
    <3>4. requeues[job[h]] = 0 => ctx[h] = "live" /\ taskState[job[h]] = "active"
      BY <3>1 DEF ToldInv, LeaseInv
    <3>5. \A g \in Handlers \ {h} : pc[g] # "idle" /\ requeues[job[g]] = 0 =>
             job[g] # job[h] /\ job[g] \in Subs
      BY <3>1, <3>4 DEF ToldInv, LeaseInv
    <3>6. requeues[job[h]] = 0 =>
             /\ pc'[h] \in Undecided => Unfinished(job[h])'
             /\ pc'[h] = "retNil" => Told(job[h])'
      BY <1>3, <2>2, <3>4, AttemptTold
    <3>7. \A g \in Handlers : pc[g] \in Undecided \cup {"retNil"} => pc[g] # "idle"
      BY DEF Undecided, Deciding
    <3>8. ASSUME NEW g \in Handlers, requeues[job[g]] = 0
          PROVE  /\ pc'[g] \in Undecided => Unfinished(job[g])'
                 /\ pc'[g] = "retNil" => Told(job[g])'
      <4>1. CASE g = h
        BY <3>6, <3>8, <4>1
      <4>2. CASE g # h
        <5>1. pc'[g] = pc[g]
          BY <3>1, <4>2
        <5>2. pc[g] \in Undecided \cup {"retNil"} => job[g] \in Subs \ {job[h]}
          BY <3>5, <3>7, <3>8, <4>2
        <5>3. /\ pc[g] \in Undecided => Unfinished(job[g])
              /\ pc[g] = "retNil" => Told(job[g])
          BY <3>8 DEF ToldInv
        <5> QED
          BY <3>1, <3>2, <5>1, <5>2, <5>3 DEF Unfinished, Told
      <4> QED
        BY <4>1, <4>2
    <3>9. \A t \in Subs : taskState'[t] # "active" /\ requeues'[t] = 0 => t # job[h]
      BY <3>1, <3>4
    <3>10. \A t \in Subs : taskState'[t] = "active" =>
             \E g \in Handlers : ctx'[g] = "live" /\ job'[g] = t
      BY <3>1 DEF ToldInv
    <3>11. \A g \in Handlers : pc'[g] # "idle" /\ requeues'[job'[g]] = 0 => ctx'[g] = "live"
      BY <3>1 DEF ToldInv
    <3> QED
      <4>1. \A t \in Subs : taskState'[t] \in {"none"} \cup Waiting /\ requeues'[t] = 0 =>
               Unfinished(t)'
        BY <3>1, <3>3, <3>9 DEF ToldInv, Waiting
      <4>2. \A t \in Subs : taskState'[t] = "completed" /\ requeues'[t] = 0 => Told(t)'
        BY <3>1, <3>3, <3>9 DEF ToldInv
      <4> QED
        BY <3>1, <3>8, <3>10, <3>11, <4>1, <4>2 DEF ToldInv, Unfinished, Told
  <2> QED
    BY <2>1, <2>2
<1>4. ASSUME NEW h \in Handlers, GiveUp(h)
      PROVE  ToldInv'
  <2>1. ShutdownAbort(h)
    BY <1>4 DEF GiveUp, AttemptTimeout, LeaseLost, WorkerCrash, Absorbed
  <2>2. /\ UNCHANGED <<rows, hooks, pc, job>> /\ ctx[h] = "live"
        /\ taskState' = [taskState EXCEPT ![job[h]] = "pending"]
        /\ requeues' = [requeues EXCEPT ![job[h]] = @ + 1]
        /\ ctx' = [ctx EXCEPT ![h] = "done"]
    BY <2>1 DEF ShutdownAbort, Cancel, Current, Absorbed, attemptVars
  <2>3. job[h] \in Subs /\ requeues'[job[h]] # 0
    BY <2>2 DEF LeaseInv
  <2>4. \A t \in Subs : (Unfinished(t) => Unfinished(t)') /\ (Told(t) => Told(t)')
    BY <2>2 DEF Unfinished, Told
  <2>5. \A g \in Handlers : pc[g] # "idle" => job[g] \in Subs
    BY DEF LeaseInv
  <2>6. \A g \in Handlers : pc[g] \in Undecided \cup {"retNil"} => pc[g] # "idle"
    BY DEF Undecided, Deciding
  <2> QED
    BY <2>2, <2>3, <2>4, <2>5, <2>6 DEF ToldInv, Waiting
<1>5. CASE UNCHANGED vars
  BY <1>5 DEF vars, ToldInv, Unfinished, Told
<1> QED
  BY <1>1, <1>2, <1>3, <1>4, <1>5 DEF Next

(* A submission with a webhook URL that its worker completed, or gave up   *)
(* on, has a webhook task (README.md:133), for any engine, any output and  *)
(* any client.                                                             *)
THEOREM FinishedAreNotified ==
    ASSUME Absorbed
    PROVE  Spec => []FinishedIsNotified
<1>1. Init => ToldInv
  BY DEF Init, ToldInv, Unfinished, Told, Finished, AbsentRow, Undecided, Deciding
<1>2. NotifyInv /\ ToldInv /\ [Next]_vars => ToldInv'
  BY ToldStep DEF AbsorbedInv
<1>3. ToldInv => FinishedIsNotified
  BY DEF ToldInv, Told, FinishedIsNotified
<1>4. Recorded
  BY AbsorbedOutcomes
<1> QED
  BY <1>1, <1>2, <1>3, <1>4, NotifyInvariant, PTL DEF Spec
=============================================================================
