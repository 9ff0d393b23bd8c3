----------------------- MODULE WebhookDeliveryProofs -----------------------
(***************************************************************************)
(* Theorems about WebhookDelivery: composing delivery with the pipeline    *)
(* takes nothing from what was proved of the pipeline, and what receivers  *)
(* are told is final, acknowledged and bounded.                            *)
(***************************************************************************)
EXTENDS WebhookDelivery, NotificationProofs

CallStates == {"none", "load", "post", "wait", "2xx", "other"}
HookStates == {"active", "completed", "archived"} \cup Waiting
Message    == [task : HookTasks, nr : Nat, body : Row]

HookTypeOK ==
    /\ hookState \in [HookTasks -> HookStates]
    /\ hookRetried \in [HookTasks -> Nat]
    /\ hookRequeues \in [HookTasks -> Nat]
    /\ call \in [HookTasks -> CallStates]
    /\ body \in [HookTasks -> Row]
    /\ wire \subseteq Message
    /\ sent \in [HookTasks -> Nat]
    /\ seen \in [HookTasks -> SUBSET Row]
    /\ acked \in [HookTasks -> BOOLEAN]

(* An attempt under way holds an active task, so the POST it has not sent  *)
(* yet is one its task still has to spend.                                 *)
PostInv ==
    /\ \A t \in HookTasks : call[t] # "none" => hookState[t] = "active"
    /\ \A t \in HookTasks : hookState[t] \in Waiting \/ call[t] \in {"load", "post"} =>
          sent[t] <= hookRetried[t] + hookRequeues[t]
    /\ PostsBounded

(* The answer an attempt holds is one its receiver gave.                   *)
AnswerInv ==
    /\ \A t \in HookTasks : call[t] = "2xx" => seen[t] # {} /\ acked[t]
    /\ DeliveredIsAcked

HookInv == HookTypeOK /\ PostInv /\ AnswerInv

-----------------------------------------------------------------------------
(* A step of the composition is a step of the pipeline or leaves it alone. *)
LEMMA DeliveryMaps ==
    ASSUME [DeliveryNext]_allVars
    PROVE  [Next]_vars
BY DEF DeliveryNext, PipelineStep, AllSettled, Next, allVars, hookVars

(* Delivery attempts only compete with executions for slots: every theorem *)
(* about the pipeline holds of the composition too.                        *)
THEOREM DeliveryImplementsPipeline == DeliverySpec => Spec
<1>1. DeliveryInit => Init
  BY DEF DeliveryInit
<1>2. [DeliveryNext]_allVars => [Next]_vars
  BY DeliveryMaps
<1> QED
  BY <1>1, <1>2, PTL DEF DeliverySpec, Spec

(* What is enqueued for a finished submission is enqueued in the           *)
(* composition as well, however the deliveries go.                         *)
THEOREM DeliveryNotifies ==
    ASSUME Absorbed
    PROVE  DeliverySpec => []FinishedIsNotified
BY DeliveryImplementsPipeline, FinishedAreNotified, PTL

-----------------------------------------------------------------------------
(* The tasks, step by step.                                                *)
LEMMA HookInvStep ==
    ASSUME TypeOK, HookInv, [DeliveryNext]_allVars
    PROVE  HookInv'
<1> USE HookAssumption DEF HookInv, HookTypeOK, HookStates, CallStates, Waiting
<1>1. CASE UNCHANGED hookVars
  BY <1>1 DEF hookVars, PostInv, PostsBounded, AnswerInv, DeliveredIsAcked
<1>2. ASSUME NEW t \in HookTasks, HookDequeue(t)
      PROVE  HookInv'
  BY <1>2 DEF HookDequeue, PostInv, PostsBounded, AnswerInv, DeliveredIsAcked
<1>3. ASSUME NEW t \in HookTasks, HookLost(t)
      PROVE  HookInv'
  BY <1>3, CreateFacts DEF HookLost, EndCall, PostInv, PostsBounded, AnswerInv, DeliveredIsAcked
<1>4. ASSUME NEW t \in HookTasks, HookRecover(t)
      PROVE  HookInv'
  BY <1>4 DEF HookRecover, HookFailed, PostInv, PostsBounded, AnswerInv, DeliveredIsAcked
<1>5. ASSUME NEW t \in HookTasks, HookShutdown(t)
      PROVE  HookInv'
  BY <1>5, CreateFacts DEF HookShutdown, EndCall, PostInv, PostsBounded, AnswerInv, DeliveredIsAcked
<1>6. ASSUME NEW t \in HookTasks, HookLoad(t)
      PROVE  HookInv'
  <2>1. t[1] \in Subs
    BY DEF HookTasks
  <2>2. rows[t[1]] \in Row /\ AbsentRow \in Row
    BY <2>1, CreateFacts DEF TypeOK
  <2> QED
    BY <1>6, <2>2 DEF HookLoad, HookFailed, EndCall, PostInv, PostsBounded, AnswerInv,
       DeliveredIsAcked
<1>7. ASSUME NEW t \in HookTasks, HookPost(t)
      PROVE  HookInv'
  <2>1. [task |-> t, nr |-> sent[t] + 1, body |-> body[t]] \in Message
    BY DEF Message
  <2> QED
    BY <1>7, <2>1, CreateFacts DEF HookPost, PostInv, PostsBounded, AnswerInv, DeliveredIsAcked
<1>8. ASSUME NEW t \in HookTasks, HookAnswered(t) \/ HookUnanswered(t)
      PROVE  HookInv'
  BY <1>8, CreateFacts
  DEF HookAnswered, HookUnanswered, HookFailed, EndCall, PostInv, PostsBounded, AnswerInv,
      DeliveredIsAcked
<1>9. ASSUME NEW m \in wire, Receive(m)
      PROVE  HookInv'
  <2>1. m.task \in HookTasks /\ m.body \in Row
    BY DEF Message
  <2>2. PICK a \in {"2xx", "other"} :
          /\ acked' = [acked EXCEPT ![m.task] = @ \/ a = "2xx"]
          /\ call' = IF call[m.task] = "wait" /\ m.nr = sent[m.task]
                     THEN [call EXCEPT ![m.task] = a]
                     ELSE call
    BY <1>9 DEF Receive
  <2>3. /\ UNCHANGED <<hookState, hookRetried, hookRequeues, body, sent>>
        /\ wire' \subseteq wire
        /\ seen' = [seen EXCEPT ![m.task] = @ \cup {m.body}]
    BY <1>9 DEF Receive
  <2>4. seen' \in [HookTasks -> SUBSET Row] /\ acked' \in [HookTasks -> BOOLEAN]
    BY <2>1, <2>2, <2>3
  <2>5. HookTypeOK'
    BY <2>1, <2>2, <2>3, <2>4
  <2>6. \A t \in HookTasks : /\ acked[t] => acked'[t]
                             /\ seen[t] # {} => seen'[t] # {}
    BY <2>1, <2>2, <2>3
  <2>7. seen'[m.task] # {} /\ (a = "2xx" => acked'[m.task])
    BY <2>1, <2>2, <2>3
  <2>8. \A t \in HookTasks : call'[t] = call[t] \/
            (t = m.task /\ call[t] = "wait" /\ call'[t] = a)
    BY <2>1, <2>2
  <2>9. PostInv'
    BY <2>3, <2>8 DEF PostInv, PostsBounded
  <2>10. AnswerInv'
    BY <2>3, <2>6, <2>7, <2>8 DEF AnswerInv, DeliveredIsAcked
  <2> QED
    BY <2>5, <2>9, <2>10
<1>10. ASSUME NEW m \in wire, Lose(m)
       PROVE  HookInv'
  BY <1>10 DEF Lose, PostInv, PostsBounded, AnswerInv, DeliveredIsAcked
<1> QED
  BY <1>1, <1>2, <1>3, <1>4, <1>5, <1>6, <1>7, <1>8, <1>9, <1>10
  DEF DeliveryNext, DeliveryStep, HookStep, HookGiveUp, allVars

LEMMA HookInvariant == DeliverySpec => []HookInv
<1>1. HookInit => HookInv
  BY CreateFacts, HookAssumption
  DEF HookInit, HookInv, HookTypeOK, HookStates, CallStates, Waiting, PostInv, PostsBounded,
      AnswerInv, DeliveredIsAcked
<1>2. TypeOK /\ HookInv /\ [DeliveryNext]_allVars => HookInv'
  BY HookInvStep
<1>3. Spec => []TypeOK
  BY PipelineInvariant, PTL DEF PipelineInv
<1> QED
  BY <1>1, <1>2, <1>3, DeliveryImplementsPipeline, PTL DEF DeliverySpec, DeliveryInit

(* A webhook task is dropped as delivered only after its receiver has got  *)
(* the body and answered a 2xx (webhook.go:38).                            *)
THEOREM DeliveredAreAcked == DeliverySpec => []DeliveredIsAcked
BY HookInvariant, PTL DEF HookInv, AnswerInv

(* One POST, and one more per counted retry and per shutdown               *)
(* (queue.go:68), crashed and recovered attempts included.                 *)
THEOREM PostsAreBounded == DeliverySpec => []PostsBounded
BY HookInvariant, PTL DEF HookInv, PostInv

-----------------------------------------------------------------------------
(* A body built from row b of submission s says what the row says now.     *)
Final(b, s) == Finished(b) /\ (b = rows[s] \/ rows[s].error = "enqueue")

(* Whatever was read from the table for a receiver, sent to it or got by   *)
(* it is final, and only tasks that were enqueued have any of it.          *)
FinalInv ==
    /\ \A t \in HookTasks : call[t] # "none" => Enqueued(t)
    /\ \A t \in HookTasks : call[t] = "post" => Final(body[t], t[1])
    /\ \A m \in wire : Enqueued(m.task) /\ Final(m.body, m.task[1])
    /\ \A t \in HookTasks : \A b \in seen[t] : Enqueued(t) /\ Final(b, t[1])

(* An announced row keeps saying what it said, or says that the API failed *)
(* the submission.                                                         *)
LEMMA FinalKept ==
    ASSUME NotifyInv, [Next]_vars, NEW t \in HookTasks, Enqueued(t)
    PROVE  Enqueued(t)' /\ \A b : Final(b, t[1]) => Final(b, t[1])'
<1> DEFINE s == t[1]
<1>1. s \in Subs /\ t[2] \in Nat /\ t[2] > 0 /\ t[2] <= hooks[s]
  BY HookAssumption DEF HookTasks, Enqueued
<1>2. hooks[s] = 1
  BY <1>1 DEF NotifyInv, PipelineInv, TypeOK, AnnounceInv, AtMostOneHook
<1>3. hooks'[s] = hooks[s]
  <2>1. ASSUME NEW h \in Handlers, HandlerStep(h) PROVE hooks'[s] = hooks[s]
    BY <1>1, <1>2, <2>1, HooksStep
  <2>2. ASSUME NEW r \in Subs, ApiStep(r) \/ ClientDisconnect(r) \/ ApiCrash(r)
        PROVE  hooks'[s] = hooks[s]
    BY <2>2, RequestFrame DEF NotifyInv, PipelineInv
  <2> QED
    BY <2>1, <2>2, QueueFrame DEF Next, vars
<1>4. rows'[s] = rows[s] \/ rows'[s] = FailSubmission(rows[s], "enqueue")
  BY <1>1, <1>2, AnnouncedRow
<1>5. rows[s] \in Row
  BY <1>1 DEF NotifyInv, PipelineInv, TypeOK
<1>6. FailSubmission(rows[s], "enqueue").error = "enqueue"
  BY <1>5, FailFields DEF Errors
<1> QED
  BY <1>1, <1>3, <1>4, <1>6 DEF Enqueued, Final

LEMMA FinalStep ==
    ASSUME NotifyInv, HookInv, FinalInv, [DeliveryNext]_allVars
    PROVE  FinalInv'
<1> USE DEF HookInv, HookTypeOK
<1>1. CASE [Next]_vars /\ UNCHANGED hookVars
  <2>1. \A m \in wire : m.task \in HookTasks
    BY DEF Message
  <2>2. \A t \in HookTasks : Enqueued(t) =>
           Enqueued(t)' /\ \A b : Final(b, t[1]) => Final(b, t[1])'
    BY <1>1, FinalKept
  <2>3. \A t \in HookTasks : call[t] = "post" => Enqueued(t)
    BY DEF FinalInv
  <2> QED
    BY <1>1, <2>1, <2>2, <2>3 DEF FinalInv, hookVars
<1>2. ASSUME DeliveryStep, UNCHANGED vars
      PROVE  FinalInv'
  <2>0. \A t : (Enqueued(t) <=> Enqueued(t)')
    BY <1>2 DEF Enqueued, vars
  <2>00. \A b, s : Final(b, s) <=> Final(b, s)'
    BY <1>2 DEF Final, vars
  <2>1. ASSUME NEW t \in HookTasks, HookDequeue(t)
        PROVE  FinalInv'
    BY <2>0, <2>00, <2>1 DEF HookDequeue, FinalInv
  <2>2. ASSUME NEW t \in HookTasks,
               HookRecover(t) \/ HookGiveUp(t) \/ HookAnswered(t) \/ HookUnanswered(t)
        PROVE  FinalInv'
    BY <2>0, <2>00, <2>2 DEF HookRecover, HookGiveUp, HookLost, HookShutdown, HookAnswered,
       HookUnanswered, EndCall, FinalInv
  <2>3. ASSUME NEW t \in HookTasks, HookLoad(t)
        PROVE  FinalInv'
    <3>1. Enqueued(t)
      BY <2>3 DEF HookLoad, FinalInv
    <3>2. Final(rows[t[1]], t[1])
      BY <3>1, HookAssumption DEF HookTasks, Enqueued, Final, NotifyInv, PipelineInv, TypeOK,
         AnnounceInv, HookOnlyWhenFinished
    <3> QED
      BY <2>0, <2>00, <2>3, <3>1, <3>2 DEF HookLoad, EndCall, FinalInv
  <2>4. ASSUME NEW t \in HookTasks, HookPost(t)
        PROVE  FinalInv'
    <3>1. Enqueued(t) /\ Final(body[t], t[1])
      BY <2>4 DEF HookPost, FinalInv
    <3> QED
      BY <2>0, <2>00, <2>4, <3>1 DEF HookPost, FinalInv
  <2>5. ASSUME NEW m \in wire, Receive(m) \/ Lose(m)
        PROVE  FinalInv'
    <3>1. m.task \in HookTasks /\ Enqueued(m.task) /\ Final(m.body, m.task[1])
      BY DEF Message, FinalInv
    <3>2. wire' \subseteq wire /\ body' = body
      BY <2>5 DEF Receive, Lose
    <3>3. \A t \in HookTasks : \A b \in seen'[t] :
             b \in seen[t] \/ (t = m.task /\ b = m.body)
      BY <2>5, <3>1 DEF Receive, Lose
    <3>4. \A t \in HookTasks : call'[t] = call[t] \/
             (call[t] = "wait" /\ call'[t] \in {"2xx", "other"})
      BY <2>5, <3>1 DEF Receive, Lose
    <3> QED
      BY <2>0, <2>00, <3>1, <3>2, <3>3, <3>4 DEF FinalInv
  <2> QED
    BY <1>2, <2>1, <2>2, <2>3, <2>4, <2>5 DEF DeliveryStep, HookStep
<1>3. CASE UNCHANGED allVars
  BY <1>1, <1>3 DEF allVars
<1> QED
  BY <1>1, <1>2, <1>3, DeliveryMaps DEF DeliveryNext

(* Whatever a receiver is told is final, duplicates and late arrivals      *)
(* included (worker.go:205).                                               *)
THEOREM ReceiversSeeFinal ==
    ASSUME Recorded
    PROVE  DeliverySpec => []ReceiverSeesFinal
<1>1. DeliveryInit => FinalInv
  BY DEF DeliveryInit, HookInit, FinalInv
<1>2. NotifyInv /\ HookInv /\ FinalInv /\ [DeliveryNext]_allVars => FinalInv'
  BY FinalStep
<1>3. FinalInv => ReceiverSeesFinal
  BY DEF FinalInv, Final, ReceiverSeesFinal
<1> QED
  BY <1>1, <1>2, <1>3, NotifyInvariant, HookInvariant, DeliveryImplementsPipeline, PTL
  DEF DeliverySpec
=============================================================================
