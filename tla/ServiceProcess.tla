--------------------------- MODULE ServiceProcess ---------------------------
(***************************************************************************)
(* One process of either binary, cmd/api or cmd/worker, from main to exit: *)
(* configuration, waiting for Postgres, the worker's image warm-up, work,  *)
(* a signal, the drain with its grace period, and the deferred closes.     *)
(*                                                                         *)
(* A piece of work is an HTTP request of the API or a job of the worker.   *)
(* It alternates between computing and a query, which holds a connection   *)
(* of the pool.  A job also has a container from some point on.            *)
(*                                                                         *)
(* Until signal.NotifyContext a signal kills the process.  From there on   *)
(* it cancels ctx, and does nothing else: the worker stops for a signal    *)
(* that asynq.Server.Run receives itself, once Run has registered for it.  *)
(***************************************************************************)
EXTENDS Naturals, Sequences, FiniteSets

CONSTANTS
    Work,        \* requests or jobs
    Attempts,    \* pings connectDB makes before it gives up (30 in the code)
    MaxSignals,  \* bound on the signals sent to the process
    Faults       \* what may go wrong

ProcessFaults ==
    { "config",    \* the environment or the DSN is refused
      "postgres",  \* Postgres does not answer a ping
      "docker",    \* the Docker daemon does not answer
      "redis",     \* asynq cannot reach Redis when it starts
      "listen",    \* the API's address cannot be listened on, or no longer
      "kill" }     \* SIGKILL, or the host dies

ASSUME ProcessAssumption ==
    /\ Attempts \in Nat \ {0}
    /\ MaxSignals \in Nat
    /\ Faults \subseteq ProcessFaults

VARIABLES
    binary,    \* "api" or "worker"
    phase,     \* where run is
    attempt,   \* i of connectDB
    ctx,       \* of signal.NotifyContext
    signals,   \* sent so far
    stopping,  \* asynq.Server.Run has received a signal
    open,      \* what run has opened, in that order
    server,    \* the goroutine in ListenAndServe, or asynq's processor
    errCh,     \* ListenAndServe's error is in the channel
    work,      \* state of each piece of work
    boxes,     \* jobs whose container exists
    expired,   \* the grace period has ended before the work (history)
    result     \* what run returns

startVars == <<binary, attempt, signals>>
workVars  == <<work, boxes>>
vars == <<binary, phase, attempt, ctx, signals, stopping, open, server, errCh,
          work, boxes, expired, result>>

Busy     == {"computing", "querying"}
Startup  == {"load", "connect", "wait", "engine", "ping", "warm", "start"}
Phases   == Startup \cup {"serve", "drain", "close", "exited"}

Init ==
    /\ binary \in {"api", "worker"}
    /\ phase = "load"
    /\ attempt = 1
    /\ ctx = "live"
    /\ signals = 0
    /\ stopping = FALSE
    /\ open = <<>>
    /\ server = "off"
    /\ errCh = FALSE
    /\ work = [w \in Work |-> "idle"]
    /\ boxes = {}
    /\ expired = FALSE
    /\ result = "none"

\* run returns: its deferred calls follow.
Return(r) == phase' = "close" /\ result' = r

IsOpen(dependency) == \E i \in DOMAIN open : open[i] = dependency

Frame == UNCHANGED <<binary, signals, stopping, workVars, expired>>

-----------------------------------------------------------------------------
(* Start-up.                                                               *)

\* config.Load, NotifyContext, pgxpool.New.
Load ==
    /\ phase = "load"
    /\ \/ phase' = "connect" /\ open' = <<"pool">> /\ UNCHANGED result
       \/ "config" \in Faults /\ Return("error") /\ UNCHANGED open
    /\ UNCHANGED <<attempt, ctx, server, errCh>> /\ Frame

\* Variant: one attempt too many.
PingOnceMore ==
    /\ phase = "connect"
    /\ IF attempt > Attempts
       THEN Return("error") /\ open' = <<>>
       ELSE phase' = "wait" /\ UNCHANGED <<result, open>>
    /\ UNCHANGED <<attempt, ctx, server, errCh>> /\ Frame

\* One ping of connectDB.  When it gives up it closes the pool itself.
PingPostgres ==
    /\ phase = "connect"
    /\ \E ok \in {ctx = "live"} \cup (IF "postgres" \in Faults THEN {FALSE} ELSE {}) :
          IF ok
          THEN /\ phase' = IF binary = "api" THEN "start" ELSE "engine"
               /\ UNCHANGED <<open, result>>
          ELSE IF attempt = Attempts \/ ctx = "done"
          THEN Return("error") /\ open' = <<>>
          ELSE phase' = "wait" /\ UNCHANGED <<open, result>>
    /\ UNCHANGED <<attempt, ctx, server, errCh>> /\ Frame

\* Variant: the attempts are not counted.
WaitUncounted ==
    /\ phase = "wait"
    /\ \/ phase' = "connect" /\ UNCHANGED <<open, result>>
       \/ ctx = "done" /\ Return("error") /\ open' = <<>>
    /\ UNCHANGED <<attempt, ctx, server, errCh>> /\ Frame

\* The pause between two pings, cut short by a signal; when both are ready
\* select picks either.
WaitForPostgres ==
    /\ phase = "wait"
    /\ \/ phase' = "connect" /\ attempt' = attempt + 1 /\ UNCHANGED <<open, result>>
       \/ ctx = "done" /\ Return("error") /\ open' = <<>> /\ UNCHANGED attempt
    /\ UNCHANGED <<ctx, server, errCh>> /\ Frame

NewExecutor ==
    /\ phase = "engine"
    /\ \/ phase' = "ping" /\ open' = Append(open, "engine") /\ UNCHANGED result
       \/ "docker" \in Faults /\ Return("error") /\ UNCHANGED open
    /\ UNCHANGED <<attempt, ctx, server, errCh>> /\ Frame

PingDocker ==
    /\ phase = "ping"
    /\ \/ ctx = "live" /\ phase' = "warm" /\ UNCHANGED result
       \/ (ctx = "done" \/ "docker" \in Faults) /\ Return("error")
    /\ UNCHANGED <<attempt, ctx, open, server, errCh>> /\ Frame

\* WarmImages returns nothing: a pull that fails, or that ctx cancels, is only
\* logged.
WarmImages ==
    /\ phase = "warm"
    /\ phase' = "start"
    /\ UNCHANGED <<attempt, ctx, open, server, errCh, result>> /\ Frame

\* The API starts a goroutine that listens; asynq.Server.Run starts its own and
\* registers for signals.
StartServing ==
    /\ phase = "start"
    /\ \/ /\ phase' = "serve"
          /\ server' = IF binary = "api" THEN "starting" ELSE "accepting"
          /\ UNCHANGED result
       \/ binary = "worker" /\ "redis" \in Faults /\ Return("error") /\ UNCHANGED server
    /\ open' = open \o (IF binary = "api" THEN <<"client", "inspector">> ELSE <<"client">>)
    /\ UNCHANGED <<attempt, ctx, errCh>> /\ Frame

-----------------------------------------------------------------------------
(* Work.                                                                   *)

\* The goroutine in ListenAndServe: ErrServerClosed is not an error.
Listen ==
    /\ server = "starting"
    /\ \/ server' = "accepting" /\ UNCHANGED errCh
       \/ "listen" \in Faults /\ server' = "failed" /\ errCh' = TRUE
    /\ UNCHANGED <<startVars, phase, ctx, stopping, open, workVars, expired, result>>

\* ListenAndServe may also give up later, on an error of Accept.
AcceptFails ==
    /\ "listen" \in Faults
    /\ binary = "api" /\ server = "accepting"
    /\ server' = "broken" /\ errCh' = TRUE
    /\ UNCHANGED <<startVars, phase, ctx, stopping, open, workVars, expired, result>>

\* Connections that were accepted before are still served.
Arrive(w) ==
    /\ work[w] = "idle"
    /\ server \in {"accepting", "broken"}
    /\ work' = [work EXCEPT ![w] = "computing"]
    /\ UNCHANGED <<startVars, phase, ctx, stopping, open, server, errCh, boxes, expired, result>>

\* pool.Close refuses new connections at once, and then waits for the old ones.
PoolClosing == phase = "close" /\ Len(open) <= 1

Query(w) ==
    /\ work[w] = "computing"
    /\ ~PoolClosing
    /\ work' = [work EXCEPT ![w] = "querying"]
    /\ UNCHANGED <<startVars, phase, ctx, stopping, open, server, errCh, boxes, expired, result>>

QueryDone(w) ==
    /\ work[w] = "querying"
    /\ work' = [work EXCEPT ![w] = "computing"]
    /\ UNCHANGED <<startVars, phase, ctx, stopping, open, server, errCh, boxes, expired, result>>

\* Execute of a job creates a container, and its deferred remove destroys it.
RunContainer(w) ==
    /\ binary = "worker"
    /\ work[w] = "computing"
    /\ w \notin boxes
    /\ IsOpen("engine")
    /\ boxes' = boxes \cup {w}
    /\ UNCHANGED <<startVars, phase, ctx, stopping, open, server, errCh, work, expired, result>>

FinishWork(w) ==
    /\ work[w] = "computing"
    /\ work' = [work EXCEPT ![w] = "done"]
    /\ boxes' = boxes \ {w}
    /\ UNCHANGED <<startVars, phase, ctx, stopping, open, server, errCh, expired, result>>

-----------------------------------------------------------------------------
(* Signals, drain and exit.                                                *)

Signal ==
    /\ signals < MaxSignals
    /\ phase # "exited"
    /\ signals' = signals + 1
    /\ IF phase = "load"
       THEN phase' = "exited" /\ result' = "killed" /\ UNCHANGED <<ctx, stopping>>
       ELSE /\ ctx' = "done"
            /\ stopping' = (stopping \/ (binary = "worker" /\ phase = "serve"))
            /\ UNCHANGED <<phase, result>>
    /\ UNCHANGED <<binary, attempt, open, server, errCh, workVars, expired>>

\* Variant: a signal ends run at once.
StopUndrained ==
    /\ phase = "serve"
    /\ (binary = "api" /\ ctx = "done") \/ stopping
    /\ Return("clean")
    /\ server' = "closed"
    /\ UNCHANGED <<attempt, ctx, open, errCh>> /\ Frame

\* ctx.Done of the API, or Run's own signal: Shutdown closes the door first.
StopServing ==
    /\ phase = "serve"
    /\ (binary = "api" /\ ctx = "done") \/ stopping
    /\ phase' = "drain"
    /\ server' = "closed"
    /\ UNCHANGED <<attempt, ctx, open, errCh, result>> /\ Frame

ListenFailed ==
    /\ phase = "serve"
    /\ errCh
    /\ errCh' = FALSE
    /\ Return("error")
    /\ UNCHANGED <<attempt, ctx, open, server>> /\ Frame

Idle == \A w \in Work : work[w] \notin Busy

Drained ==
    /\ phase = "drain"
    /\ Idle
    /\ Return("clean")
    /\ UNCHANGED <<attempt, ctx, open, server, errCh>> /\ Frame

\* Variant: Shutdown gets a context without a deadline.
DrainForever == FALSE

\* The API gives up with an error.  Asynq gives its jobs back to Redis, cancels
\* their contexts and reports a clean stop; their goroutines go on.
GraceExpires ==
    /\ phase = "drain"
    /\ ~Idle
    /\ expired' = TRUE
    /\ Return(IF binary = "api" THEN "error" ELSE "clean")
    /\ UNCHANGED <<startVars, ctx, stopping, open, server, errCh, workVars>>

\* Variant: the pool is closed first.
CloseInOrder ==
    /\ phase = "close"
    /\ open # <<>>
    /\ Head(open) = "pool" => \A w \in Work : work[w] # "querying"
    /\ open' = Tail(open)
    /\ UNCHANGED <<attempt, phase, ctx, server, errCh, result>> /\ Frame

\* Deferred calls run last first; pool.Close waits for every connection.
CloseLast ==
    /\ phase = "close"
    /\ open # <<>>
    /\ open[Len(open)] = "pool" => \A w \in Work : work[w] # "querying"
    /\ open' = SubSeq(open, 1, Len(open) - 1)
    /\ UNCHANGED <<attempt, phase, ctx, server, errCh, result>> /\ Frame

CutOff == [w \in Work |-> IF work[w] \in Busy THEN "cut" ELSE work[w]]

Exit ==
    /\ phase = "close"
    /\ open = <<>>
    /\ phase' = "exited"
    /\ work' = CutOff
    /\ UNCHANGED <<startVars, ctx, stopping, open, server, errCh, boxes, expired, result>>

Kill ==
    /\ "kill" \in Faults
    /\ phase # "exited"
    /\ phase' = "exited"
    /\ result' = "killed"
    /\ work' = CutOff
    /\ UNCHANGED <<startVars, ctx, stopping, open, server, errCh, boxes, expired>>

-----------------------------------------------------------------------------
RunStep ==
    \/ Load \/ PingPostgres \/ WaitForPostgres \/ NewExecutor \/ PingDocker \/ WarmImages
    \/ StartServing \/ StopServing \/ ListenFailed \/ Drained \/ GraceExpires
    \/ CloseLast \/ Exit

WorkStep(w) == Query(w) \/ QueryDone(w) \/ RunContainer(w) \/ FinishWork(w)

Alive == phase # "exited"

Next ==
    \/ RunStep
    \/ Alive /\ Listen
    \/ Alive /\ AcceptFails
    \/ \E w \in Work : Alive /\ (Arrive(w) \/ WorkStep(w))
    \/ Signal
    \/ Kill
    \/ (~Alive \/ phase = "serve") /\ UNCHANGED vars   \* exited, or waiting for work

Spec == Init /\ [][Next]_vars

(* run and its goroutines are scheduled, pings, pulls and the grace period *)
(* have time limits, and Postgres answers a query of work under way or the *)
(* connection breaks.  Nothing is assumed of signals and of new work.      *)
FairSpec ==
    /\ Spec
    /\ WF_vars(RunStep)
    /\ WF_vars(Alive /\ Listen)
    /\ \A w \in Work : WF_vars(Alive /\ QueryDone(w))

-----------------------------------------------------------------------------
TypeOK ==
    /\ binary \in {"api", "worker"}
    /\ phase \in Phases
    /\ attempt \in 1 .. Attempts
    /\ ctx \in {"live", "done"}
    /\ signals \in 0 .. MaxSignals
    /\ stopping \in BOOLEAN
    /\ open \in Seq({"pool", "engine", "client", "inspector"})
    /\ server \in {"off", "starting", "accepting", "broken", "closed", "failed"}
    /\ errCh \in BOOLEAN
    /\ work \in [Work -> Busy \cup {"idle", "done", "cut"}]
    /\ boxes \subseteq Work
    /\ expired \in BOOLEAN
    /\ result \in {"none", "clean", "error", "killed"}

(* In-flight requests finish, so that a deploy is no burst of client-side  *)
(* errors (cmd/api/main.go:76), and in-flight jobs are drained             *)
(* (cmd/worker/main.go:93): an exit cuts work off, or leaves a container   *)
(* behind, only after the grace period, a SIGKILL or a failed listen.      *)
CleanStopCutsNothing ==
    phase = "exited" /\ ~expired /\ result = "clean" =>
        boxes = {} /\ \A w \in Work : work[w] # "cut"

(* Work that run still waits for never meets a dependency that a deferred  *)
(* call has already closed, and no query ever runs on a closed pool.       *)
DependenciesOutliveWork ==
    /\ \A w \in Work : Alive /\ work[w] = "querying" => IsOpen("pool")
    /\ ~Idle /\ Alive /\ phase # "close" => Len(open) = 3
    /\ phase = "close" /\ ~Idle => expired \/ result = "error"

(* Postgres that never comes up does not leave the service waiting: it     *)
(* serves or gives up after the last attempt (cmd/api/main.go:105).        *)
StartupEnds == <>(phase \notin Startup)

(* A signal stops the API at whatever point of its life it comes, and the  *)
(* worker while it connects or serves (cmd/api/main.go:72,                 *)
(* cmd/worker/main.go:94).  One that comes while the worker warms its      *)
(* images only cancels the pulls: Run, which starts afterwards, waits for  *)
(* a signal of its own.                                                    *)
HeardSignalStops ==
    /\ ctx = "done"
    /\ \/ binary = "api"
       \/ phase \in {"connect", "wait", "engine", "ping"}
       \/ stopping
    ~> phase = "exited"
=============================================================================
