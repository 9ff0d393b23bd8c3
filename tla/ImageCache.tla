----------------------------- MODULE ImageCache -----------------------------
(***************************************************************************)
(* ensureImage (internal/executor): how one worker process makes sure that *)
(* one language image is present before it creates a container from it.    *)
(* imageReady remembers an image once confirmed; pullOnce maps the image   *)
(* to a sync.Once so that concurrent jobs share one pull.  The maps are    *)
(* per image reference and references do not interact, so the model has    *)
(* one reference.                                                          *)
(*                                                                         *)
(* A call is one execution of ensureImage on its own goroutine with its    *)
(* own context.  A sync.Once is named by the call whose LoadOrStore        *)
(* allocated it.  Warm is the call WarmImages makes before the worker      *)
(* starts to take jobs.                                                    *)
(***************************************************************************)
EXTENDS Naturals, FiniteSets

CONSTANTS
    Calls,       \* calls of ensureImage, WarmImages' included
    Warm,        \* the one WarmImages makes
    NoOnce,      \* no entry in pullOnce
    PullImages,  \* cfg.PullImages
    Faults       \* the environment's faults that may happen

ImageFaults ==
    { "daemonErr",   \* a call to the daemon fails, or its stream breaks
      "streamErr",   \* the daemon reports a failed pull inside its stream
      "cancel",      \* the context of a call is cancelled
      "prune" }      \* somebody removes the image from the host

ASSUME ImageAssumption ==
    /\ Warm \in Calls
    /\ NoOnce \notin Calls
    /\ PullImages \in BOOLEAN
    /\ Faults \subseteq ImageFaults

VARIABLES
    present,   \* the image is on the host
    ready,     \* imageReady has it
    entry,     \* the Once in pullOnce
    once,      \* state of each Once
    landed,    \* Onces whose pull brought the image (history)
    silent,    \* Onces whose pull failed inside its stream (history)
    pruned,    \* somebody has removed the image (history)
    pc,        \* where each call is
    mine,      \* the Once a call got from LoadOrStore
    pullErr,   \* its local pullErr is set
    live       \* its context is not cancelled

history == <<landed, silent, pruned>>
vars == <<present, ready, entry, once, history, pc, mine, pullErr, live>>

Pulling  == {"pull", "drain"}
Finished == {"ok", "failed"}
CallPcs  == {"start", "inspect", "cache", "once", "do", "forget", "doDone", "confirm"}
                \cup Pulling \cup Finished

Init ==
    /\ present \in BOOLEAN
    /\ ready = FALSE
    /\ entry = NoOnce
    /\ once = [c \in Calls |-> "new"]
    /\ landed = {} /\ silent = {} /\ pruned = FALSE
    /\ pc = [c \in Calls |-> "start"]
    /\ mine = [c \in Calls |-> NoOnce]
    /\ pullErr = [c \in Calls |-> FALSE]
    /\ live = [c \in Calls |-> TRUE]

Goto(c, next) == pc' = [pc EXCEPT ![c] = next]

\* The daemon may refuse a request; it always refuses a cancelled one.
Refused(c) == ~live[c] \/ "daemonErr" \in Faults
Answered(c) == live[c]

-----------------------------------------------------------------------------
\* The worker takes jobs once WarmImages has returned; it is skipped when
\* PULL_IMAGES is off.
Started(c) == c = Warm \/ ~PullImages \/ pc[Warm] \in Finished

LoadReady(c) ==
    /\ pc[c] = "start"
    /\ Started(c)
    /\ c = Warm => PullImages
    /\ Goto(c, IF ready THEN "ok" ELSE "inspect")
    /\ UNCHANGED <<present, ready, entry, once, history, mine, pullErr, live>>

\* Any error, not only "not found", leads on to the pull.
InspectImage(c) ==
    /\ pc[c] = "inspect"
    /\ \/ Answered(c) /\ present /\ Goto(c, "cache")
       \/ (Refused(c) \/ ~present) /\ Goto(c, IF PullImages THEN "once" ELSE "failed")
    /\ UNCHANGED <<present, ready, entry, once, history, mine, pullErr, live>>

StoreReady(c) ==
    /\ pc[c] = "cache"
    /\ ready' = TRUE
    /\ Goto(c, "ok")
    /\ UNCHANGED <<present, entry, once, history, mine, pullErr, live>>

\* Variant: Store for LoadOrStore.
StoreOwnOnce(c) ==
    /\ pc[c] = "once"
    /\ entry' = c
    /\ mine' = [mine EXCEPT ![c] = c]
    /\ Goto(c, "do")
    /\ UNCHANGED <<present, ready, once, history, pullErr, live>>

LoadOrStore(c) ==
    /\ pc[c] = "once"
    /\ entry' = IF entry = NoOnce THEN c ELSE entry
    /\ mine' = [mine EXCEPT ![c] = entry']
    /\ Goto(c, "do")
    /\ UNCHANGED <<present, ready, once, history, pullErr, live>>

\* once.Do: the first caller pulls, later ones block until it has returned.
OnceDo(c) ==
    /\ pc[c] = "do"
    /\ \/ /\ once[mine[c]] = "new"
          /\ once' = [once EXCEPT ![mine[c]] = "running"]
          /\ Goto(c, "pull")
       \/ /\ once[mine[c]] = "done"
          /\ Goto(c, "confirm")
          /\ UNCHANGED once
    /\ UNCHANGED <<present, ready, entry, history, mine, pullErr, live>>

\* Variant: a refused pull is tried again inside the Once.
PullUntilAnswered(c) ==
    /\ pc[c] = "pull"
    /\ IF Answered(c) THEN Goto(c, "drain") ELSE UNCHANGED pc
    /\ UNCHANGED <<present, ready, entry, once, history, mine, pullErr, live>>

\* ImagePull uses the context of the call that owns the Once.
ImagePull(c) ==
    /\ pc[c] = "pull"
    /\ \/ Answered(c) /\ Goto(c, "drain") /\ UNCHANGED pullErr
       \/ /\ Refused(c)
          /\ Goto(c, "forget")
          /\ pullErr' = [pullErr EXCEPT ![c] = TRUE]
    /\ UNCHANGED <<present, ready, entry, once, history, mine, live>>

\* The image lands; or the stream ends with an error message nobody parses; or
\* it breaks, with the image in or not.
DrainStream(c) ==
    /\ pc[c] = "drain"
    /\ \/ /\ Answered(c)
          /\ present' = TRUE
          /\ landed' = landed \cup {mine[c]}
          /\ Goto(c, "doDone")
          /\ UNCHANGED <<silent, pullErr>>
       \/ /\ "streamErr" \in Faults
          /\ silent' = silent \cup {mine[c]}
          /\ Goto(c, "doDone")
          /\ UNCHANGED <<present, landed, pullErr>>
       \/ /\ Refused(c)
          /\ present' \in {present, TRUE}
          /\ Goto(c, "forget")
          /\ pullErr' = [pullErr EXCEPT ![c] = TRUE]
          /\ UNCHANGED <<landed, silent>>
    /\ UNCHANGED <<ready, entry, once, pruned, mine, live>>

\* Variant: the failed Once stays in the map.
KeepOnce(c) ==
    /\ pc[c] = "forget"
    /\ Goto(c, "doDone")
    /\ UNCHANGED <<present, ready, entry, once, history, mine, pullErr, live>>

ForgetOnce(c) ==
    /\ pc[c] = "forget"
    /\ entry' = NoOnce
    /\ Goto(c, "doDone")
    /\ UNCHANGED <<present, ready, once, history, mine, pullErr, live>>

DoReturns(c) ==
    /\ pc[c] = "doDone"
    /\ once' = [once EXCEPT ![mine[c]] = "done"]
    /\ Goto(c, IF pullErr[c] THEN "failed" ELSE "confirm")
    /\ UNCHANGED <<present, ready, entry, history, mine, pullErr, live>>

\* Variant: whoever comes out of once.Do trusts that the pull worked.
ConfirmUnchecked(c) ==
    /\ pc[c] = "confirm"
    /\ Goto(c, "cache")
    /\ UNCHANGED <<present, ready, entry, once, history, mine, pullErr, live>>

ConfirmImage(c) ==
    /\ pc[c] = "confirm"
    /\ \/ Answered(c) /\ present /\ Goto(c, "cache")
       \/ (Refused(c) \/ ~present) /\ Goto(c, "failed")
    /\ UNCHANGED <<present, ready, entry, once, history, mine, pullErr, live>>

-----------------------------------------------------------------------------
CancelCall(c) ==
    /\ "cancel" \in Faults
    /\ live[c]
    /\ pc[c] \notin Finished
    /\ live' = [live EXCEPT ![c] = FALSE]
    /\ UNCHANGED <<present, ready, entry, once, history, pc, mine, pullErr>>

PruneImage ==
    /\ "prune" \in Faults
    /\ present
    /\ present' = FALSE
    /\ pruned' = TRUE
    /\ UNCHANGED <<ready, entry, once, landed, silent, pc, mine, pullErr, live>>

CallStep(c) ==
    \/ LoadReady(c) \/ InspectImage(c) \/ StoreReady(c) \/ LoadOrStore(c)
    \/ OnceDo(c) \/ ImagePull(c) \/ DrainStream(c) \/ ForgetOnce(c)
    \/ DoReturns(c) \/ ConfirmImage(c)

\* Every call has returned; WarmImages makes none when PULL_IMAGES is off.
AllReturned == \A c \in Calls : pc[c] \in Finished \/ (c = Warm /\ ~PullImages)

Next ==
    \/ \E c \in Calls : CallStep(c) \/ CancelCall(c)
    \/ PruneImage
    \/ AllReturned /\ UNCHANGED vars

Spec == Init /\ [][Next]_vars

\* Goroutines are not starved, and a request to the daemon always ends.
FairSpec == Spec /\ \A c \in Calls : WF_vars(CallStep(c))

-----------------------------------------------------------------------------
TypeOK ==
    /\ present \in BOOLEAN
    /\ ready \in BOOLEAN
    /\ entry \in Calls \cup {NoOnce}
    /\ once \in [Calls -> {"new", "running", "done"}]
    /\ landed \subseteq Calls
    /\ silent \subseteq Calls
    /\ pruned \in BOOLEAN
    /\ pc \in [Calls -> CallPcs]
    /\ mine \in [Calls -> Calls \cup {NoOnce}]
    /\ pullErr \in [Calls -> BOOLEAN]
    /\ live \in [Calls -> BOOLEAN]

(* Concurrent jobs of one language share one pull, also while a failed one *)
(* is replaced (executor.go:375, executor.go:388).                         *)
OnePullAtATime ==
    \A c, d \in Calls : pc[c] \in Pulling /\ pc[d] \in Pulling => c = d

(* The Delete of a failed pull never throws away a newer Once than its own *)
(* (executor.go:399, executor.go:406).                                     *)
ForgetsItsOwn ==
    \A c \in Calls : pc[c] = "forget" => entry = mine[c]

(* A failed pull is not cached as done: a Once that later calls will skip  *)
(* is one whose pull brought the image (executor.go:397).                  *)
NoStaleSuccess ==
    entry # NoOnce /\ once[entry] = "done" => entry \in landed

(* The same for every failure that the daemon returns as an error, or that *)
(* a cancellation causes, however many calls were waiting for the pull.    *)
ErrorsAreForgotten ==
    entry # NoOnce /\ once[entry] = "done" => entry \in landed \cup silent

(* An image cached as ready is on the host (executor.go:59), so the        *)
(* container that is created next finds it, unless somebody has removed it *)
(* behind the worker's back.                                               *)
ReadyIsPresent == ready => present \/ pruned

(* No call waits forever for a pull another call has given up on.          *)
EveryCallReturns == <>AllReturned
=============================================================================
