------------------------ MODULE ServiceProcessProofs ------------------------
(***************************************************************************)
(* Theorems about ServiceProcess, for any amount of work, any number of    *)
(* signals and attempts, and every set of faults.                          *)
(***************************************************************************)
EXTENDS ServiceProcess, TLAPS, SequenceTheorems

Dependencies == {"pool", "engine", "client", "inspector"}

\* What run has opened when it is at each point of its start.
OpenInv ==
    /\ open \in Seq(Dependencies)
    /\ Len(open) > 0 => open[1] = "pool"
    /\ phase \in {"connect", "wait", "engine"} => Len(open) = 1
    /\ phase \in {"ping", "warm"} => Len(open) = 2
    /\ phase = "start" => Len(open) = IF binary = "api" THEN 1 ELSE 2
    /\ phase \in {"serve", "drain"} => Len(open) = 3

\* Work comes only while run serves, and is cut off only by the exit.
ServerInv ==
    /\ binary \in {"api", "worker"}
    /\ phase \in Phases /\ errCh \in BOOLEAN
    /\ phase \in {"engine", "ping", "warm"} => binary = "worker"
    /\ work \in [Work -> Busy \cup {"idle", "done", "cut"}]
    /\ phase \in Startup => server = "off" /\ errCh = FALSE /\ Idle
    /\ Alive /\ server \in {"starting", "accepting"} => phase = "serve"
    /\ server \in {"off", "starting", "failed"} => Idle
    /\ Alive /\ server = "broken" => phase = "serve" \/ (phase = "close" /\ result = "error")
    /\ phase = "serve" /\ errCh = TRUE => server \in {"failed", "broken"}
    /\ Alive => \A w \in Work : work[w] # "cut"

\* A container belongs to work under way.
BoxInv == Alive => \A w \in boxes : w \in Work /\ work[w] \in Busy

\* Whoever queries has a connection of an open pool.
PoolInv == \A w \in Work : Alive /\ work[w] = "querying" => Len(open) > 0

\* run returns before its work only when the grace period has ended, or with the
\* error of a server that has stopped accepting.
DrainInv ==
    /\ phase = "close" => Idle \/ expired \/ result = "error"
    /\ phase = "exited" /\ result = "clean" /\ ~expired =>
          boxes = {} /\ \A w \in Work : work[w] # "cut"

ProcessInv == OpenInv /\ ServerInv /\ BoxInv /\ PoolInv /\ DrainInv

-----------------------------------------------------------------------------
\* Opening one dependency or several.
LEMMA Opened ==
  ASSUME NEW s \in Seq(Dependencies), NEW t \in Seq(Dependencies)
  PROVE  /\ s \o t \in Seq(Dependencies)
         /\ Len(s \o t) = Len(s) + Len(t)
         /\ Len(s) > 0 => (s \o t)[1] = s[1]
  BY ConcatProperties, LenProperties

LEMMA Singles ==
  /\ <<>> \in Seq(Dependencies) /\ Len(<<>>) = 0
  /\ <<"pool">> \in Seq(Dependencies) /\ Len(<<"pool">>) = 1 /\ <<"pool">>[1] = "pool"
  /\ <<"engine">> \in Seq(Dependencies) /\ Len(<<"engine">>) = 1
  /\ <<"client">> \in Seq(Dependencies) /\ Len(<<"client">>) = 1
  /\ <<"client", "inspector">> \in Seq(Dependencies) /\ Len(<<"client", "inspector">>) = 2
  BY DEF Dependencies

LEMMA InitInv == Init => ProcessInv
PROOF
  <1> SUFFICES ASSUME Init PROVE ProcessInv
    OBVIOUS
  <1>1. OpenInv
    BY Singles DEF Init, OpenInv
  <1>2. ServerInv /\ BoxInv /\ DrainInv
    BY DEF Init, ServerInv, BoxInv, DrainInv, Startup, Phases, Busy, Idle, Alive
  <1>3. PoolInv
    BY DEF Init, PoolInv
  <1> QED BY <1>1, <1>2, <1>3 DEF ProcessInv

\* Start-up: there is no work yet.
LEMMA StartKeeps ==
  ASSUME ProcessInv,
         Load \/ PingPostgres \/ WaitForPostgres \/ NewExecutor \/ PingDocker \/ WarmImages
           \/ StartServing
  PROVE  ProcessInv'
PROOF
  <1> USE DEF Frame, workVars, Return
  <1>1. phase \in Startup /\ UNCHANGED <<work, boxes, expired, binary, errCh>>
    BY DEF Load, PingPostgres, WaitForPostgres, NewExecutor, PingDocker, WarmImages,
           StartServing, Startup
  <1>2. Idle /\ Idle' /\ boxes = {}
    BY <1>1 DEF ProcessInv, ServerInv, BoxInv, Idle, Alive, Startup
  <1>3. /\ phase' \in Phases
        /\ phase' # "exited"
        /\ phase' \in Startup => server' = "off"
        /\ server' \in {"off", "starting", "accepting"}
        /\ server' \in {"starting", "accepting"} => phase' = "serve"
        /\ phase' \in {"engine", "ping", "warm"} => binary = "worker"
    BY <1>1 DEF ProcessInv, ServerInv, Load, PingPostgres, WaitForPostgres, NewExecutor,
                PingDocker, WarmImages, StartServing, Startup, Phases
  <1>4. ServerInv' /\ BoxInv' /\ PoolInv' /\ DrainInv'
    BY <1>1, <1>2, <1>3
       DEF ProcessInv, ServerInv, BoxInv, PoolInv, DrainInv, Idle, Alive, Startup, Phases, Busy
  <1>5. CASE Load
    BY <1>4, <1>5, Singles DEF ProcessInv, OpenInv, Load
  <1>6. CASE PingPostgres \/ WaitForPostgres
    <2>0. phase \in {"connect", "wait"}
      BY <1>6, Zenon DEF PingPostgres, WaitForPostgres
    <2>1. Len(open) = 1 /\ open[1] = "pool" /\ open \in Seq(Dependencies)
      BY <2>0 DEF ProcessInv, OpenInv
    <2>2. \/ open' = <<>> /\ phase' = "close"
          \/ open' = open /\ phase' \in {"connect", "wait"}
          \/ open' = open /\ phase' = IF binary = "api" THEN "start" ELSE "engine"
      BY <1>6 DEF PingPostgres, WaitForPostgres
    <2>3. binary' = binary
      BY <1>1
    <2>4. CASE open' = <<>> /\ phase' = "close"
      <3>1. open' \in Seq(Dependencies) /\ ~(Len(open') > 0)
        BY <2>4, Singles
      <3> QED BY <1>4, <2>4, <3>1 DEF ProcessInv, OpenInv
    <2>5. CASE open' = open /\ phase' \in {"connect", "wait"}
      BY <1>4, <2>1, <2>5 DEF ProcessInv, OpenInv
    <2>6. CASE open' = open /\ phase' = IF binary = "api" THEN "start" ELSE "engine"
      BY <1>4, <2>1, <2>3, <2>6 DEF ProcessInv, OpenInv
    <2> QED BY <2>2, <2>4, <2>5, <2>6
  <1>7. CASE NewExecutor
    <2>1. open' = open \/ (open' = Append(open, "engine") /\ Len(open) = 1)
      BY <1>7 DEF ProcessInv, OpenInv, NewExecutor
    <2>2. CASE open' = open
      BY <1>4, <1>7, <2>2 DEF ProcessInv, OpenInv, NewExecutor
    <2>3. CASE open' = Append(open, "engine") /\ Len(open) = 1
      <3>1. open \in Seq(Dependencies) /\ open[1] = "pool" /\ "engine" \in Dependencies
        BY <2>3 DEF ProcessInv, OpenInv, Dependencies
      <3>2. open' \in Seq(Dependencies) /\ Len(open') = 2 /\ open'[1] = "pool"
        <4>1. /\ Append(open, "engine") \in Seq(Dependencies)
              /\ Len(Append(open, "engine")) = Len(open) + 1
              /\ \A i \in 1 .. Len(open) : Append(open, "engine")[i] = open[i]
          BY <3>1, AppendProperties
        <4>2. Append(open, "engine")[1] = open[1]
          BY <2>3, <4>1
        <4> QED BY <2>3, <3>1, <4>1, <4>2
      <3> QED BY <1>4, <1>7, <3>2 DEF ProcessInv, OpenInv, NewExecutor
    <2> QED BY <2>1, <2>2, <2>3
  <1>8. CASE PingDocker \/ WarmImages
    BY <1>4, <1>8 DEF ProcessInv, OpenInv, ServerInv, PingDocker, WarmImages
  <1>9. CASE StartServing
    <2>1. open' \in Seq(Dependencies) /\ Len(open') = 3 /\ open'[1] = "pool"
      <3> DEFINE new == IF binary = "api" THEN <<"client", "inspector">> ELSE <<"client">>
      <3>1. /\ open \in Seq(Dependencies) /\ open[1] = "pool"
            /\ Len(open) = IF binary = "api" THEN 1 ELSE 2
        BY <1>9 DEF ProcessInv, OpenInv, StartServing
      <3>2. new \in Seq(Dependencies) /\ Len(new) = IF binary = "api" THEN 2 ELSE 1
        BY Singles
      <3>3. open' = open \o new
        BY <1>9 DEF StartServing
      <3> HIDE DEF new
      <3>4. /\ open \o new \in Seq(Dependencies)
            /\ Len(open \o new) = Len(open) + Len(new)
            /\ Len(open) > 0 => (open \o new)[1] = open[1]
        BY <3>1, <3>2, Opened
      <3> QED BY <3>1, <3>2, <3>3, <3>4
    <2> QED BY <1>4, <1>9, <2>1 DEF ProcessInv, OpenInv, StartServing
  <1> QED BY <1>5, <1>6, <1>7, <1>8, <1>9

LEMMA WorkKeeps ==
  ASSUME ProcessInv, Alive, NEW w \in Work, Arrive(w) \/ WorkStep(w)
  PROVE  ProcessInv'
PROOF
  <1> USE DEF ProcessInv, startVars, workVars, Startup, Phases, Busy, Alive
  <1>1. OpenInv'
    BY DEF OpenInv, Arrive, WorkStep, Query, QueryDone, RunContainer, FinishWork
  <1>2. CASE Arrive(w)
    BY <1>1, <1>2 DEF Arrive, ServerInv, BoxInv, PoolInv, DrainInv, Idle
  <1>3. CASE Query(w)
    <2>1. Len(open) > 0
      <3>1. phase \in {"serve", "drain", "close"}
        BY <1>3 DEF Query, ServerInv, Idle, Phases
      <3>2. Len(open) \in Nat
        BY LenProperties DEF OpenInv
      <3>3. CASE phase = "close"
        BY <1>3, <3>2, <3>3 DEF Query, PoolClosing
      <3>4. CASE phase # "close"
        BY <3>1, <3>2, <3>4 DEF OpenInv
      <3> QED BY <3>3, <3>4
    <2> QED BY <1>1, <1>3, <2>1 DEF Query, ServerInv, BoxInv, PoolInv, DrainInv, Idle
  <1>4. CASE QueryDone(w)
    BY <1>1, <1>4 DEF QueryDone, ServerInv, BoxInv, PoolInv, DrainInv, Idle
  <1>5. CASE RunContainer(w)
    BY <1>1, <1>5 DEF RunContainer, ServerInv, BoxInv, PoolInv, DrainInv, Idle
  <1>6. CASE FinishWork(w)
    BY <1>1, <1>6 DEF FinishWork, ServerInv, BoxInv, PoolInv, DrainInv, Idle
  <1> QED BY <1>2, <1>3, <1>4, <1>5, <1>6 DEF WorkStep

LEMMA ListenKeeps ==
  ASSUME ProcessInv, Alive, Listen \/ AcceptFails
  PROVE  ProcessInv'
  BY DEF ProcessInv, Listen, AcceptFails, startVars, workVars, Startup, Phases, Busy, Idle, Alive, OpenInv,
         ServerInv, BoxInv, PoolInv, DrainInv

LEMMA StopKeeps ==
  ASSUME ProcessInv, StopServing \/ ListenFailed \/ Drained \/ GraceExpires
  PROVE  ProcessInv'
PROOF
  <1> USE DEF ProcessInv, Frame, workVars, startVars, Return, Startup, Phases, Busy, Idle, Alive
  <1>1. CASE StopServing
    BY <1>1 DEF StopServing, OpenInv, ServerInv, BoxInv, PoolInv, DrainInv
  <1>2. CASE ListenFailed
    BY <1>2 DEF ListenFailed, OpenInv, ServerInv, BoxInv, PoolInv, DrainInv
  <1>3. CASE Drained
    BY <1>3 DEF Drained, OpenInv, ServerInv, BoxInv, PoolInv, DrainInv
  <1>4. CASE GraceExpires
    BY <1>4 DEF GraceExpires, OpenInv, ServerInv, BoxInv, PoolInv, DrainInv
  <1> QED BY <1>1, <1>2, <1>3, <1>4

\* Deferred calls: the pool is the first to be opened and the last to be closed.
LEMMA CloseKeeps ==
  ASSUME ProcessInv, CloseLast
  PROVE  ProcessInv'
PROOF
  <1> USE DEF ProcessInv, CloseLast, Frame, workVars, startVars, Startup, Phases, Busy, Idle, Alive
  <1> DEFINE n == Len(open) - 1
  <1>1. open \in Seq(Dependencies) /\ Len(open) \in Nat \ {0} /\ n \in Nat
    BY EmptySeq DEF OpenInv
  <1>2. /\ open' \in Seq(Dependencies)
        /\ Len(open') = n
        /\ \A i \in 1 .. n : open'[i] = open[i]
    <2>1. \A i \in 1 .. n : open[i] \in Dependencies
      BY <1>1
    <2>2. open' = SubSeq(open, 1, n)
      OBVIOUS
    <2> HIDE DEF n
    <2> QED BY <1>1, <2>1, <2>2, SubSeqProperties
  <1>3. OpenInv'
    BY <1>1, <1>2 DEF OpenInv
  <1>4. PoolInv'
    <2>1. CASE n = 0
      BY <2>1, <1>1 DEF PoolInv, OpenInv
    <2>2. CASE n # 0
      BY <2>2, <1>1, <1>2 DEF PoolInv
    <2> QED BY <2>1, <2>2
  <1>5. ServerInv' /\ BoxInv' /\ DrainInv'
    BY DEF ServerInv, BoxInv, DrainInv
  <1> QED BY <1>3, <1>4, <1>5

LEMMA ExitKeeps ==
  ASSUME ProcessInv, Exit \/ Kill \/ Signal
  PROVE  ProcessInv'
PROOF
  <1> USE DEF ProcessInv, CutOff, workVars, startVars, Startup, Phases, Busy, Idle, Alive
  <1>1. CASE Exit
    BY <1>1 DEF Exit, OpenInv, ServerInv, BoxInv, PoolInv, DrainInv
  <1>2. CASE Kill
    BY <1>2 DEF Kill, OpenInv, ServerInv, BoxInv, PoolInv, DrainInv
  <1>3. CASE Signal
    BY <1>3 DEF Signal, OpenInv, ServerInv, BoxInv, PoolInv, DrainInv
  <1> QED BY <1>1, <1>2, <1>3

LEMMA StepKeeps == ProcessInv /\ [Next]_vars => ProcessInv'
PROOF
  <1> SUFFICES ASSUME ProcessInv, [Next]_vars
               PROVE  ProcessInv'
    OBVIOUS
  <1>1. CASE RunStep
    BY <1>1, StartKeeps, StopKeeps, CloseKeeps, ExitKeeps DEF RunStep
  <1>2. CASE Alive /\ (Listen \/ AcceptFails)
    BY <1>2, ListenKeeps
  <1>3. CASE \E w \in Work : Alive /\ (Arrive(w) \/ WorkStep(w))
    BY <1>3, WorkKeeps
  <1>4. CASE Signal \/ Kill
    BY <1>4, ExitKeeps
  <1>5. CASE UNCHANGED vars
    BY <1>5 DEF vars, ProcessInv, OpenInv, ServerInv, BoxInv, PoolInv, DrainInv, Idle, Alive
  <1> QED BY <1>1, <1>2, <1>3, <1>4, <1>5 DEF Next

LEMMA AlwaysInv == Spec => []ProcessInv
  BY InitInv, StepKeeps, PTL DEF Spec

-----------------------------------------------------------------------------
\* cmd/api/main.go:76, cmd/worker/main.go:93: a clean stop within the grace period
\* cuts no work off and leaves no container behind.
THEOREM CleanStopsAreClean == Spec => []CleanStopCutsNothing
PROOF
  <1>1. ProcessInv => CleanStopCutsNothing
    BY DEF ProcessInv, DrainInv, CleanStopCutsNothing
  <1> QED BY <1>1, AlwaysInv, PTL

\* cmd/api/main.go:44-50: nobody queries a closed pool, and whatever run waits for
\* has all of its dependencies.
THEOREM DependenciesLast == Spec => []DependenciesOutliveWork
PROOF
  <1>1. ProcessInv => DependenciesOutliveWork
    <2> SUFFICES ASSUME ProcessInv
                 PROVE  DependenciesOutliveWork
      OBVIOUS
    <2>1. \A w \in Work : Alive /\ work[w] = "querying" => IsOpen("pool")
      <3>1. Len(open) > 0 => 1 \in DOMAIN open /\ open[1] = "pool"
        BY LenProperties DEF ProcessInv, OpenInv
      <3> QED BY <3>1 DEF ProcessInv, PoolInv, IsOpen
    <2>2. ~Idle /\ Alive /\ phase # "close" => Len(open) = 3
      BY DEF ProcessInv, ServerInv, OpenInv, Alive, Startup, Phases
    <2>3. phase = "close" /\ ~Idle => expired \/ result = "error"
      BY DEF ProcessInv, DrainInv
    <2> QED BY <2>1, <2>2, <2>3 DEF DependenciesOutliveWork
  <1> QED BY <1>1, AlwaysInv, PTL

-----------------------------------------------------------------------------
\* A pause of connectDB is followed by another ping, so it is not the last.
CountInv ==
    /\ attempt \in 1 .. Attempts /\ (phase = "wait" => attempt < Attempts)
    /\ signals \in 0 .. MaxSignals

LEMMA CountKeeps == CountInv /\ [Next]_vars => CountInv'
PROOF
  <1> SUFFICES ASSUME CountInv, [Next]_vars
               PROVE  CountInv'
    OBVIOUS
  <1> USE ProcessAssumption DEF CountInv, Frame, startVars, Return
  <1>1. CASE PingPostgres
    BY <1>1 DEF PingPostgres
  <1>2. CASE WaitForPostgres
    BY <1>2 DEF WaitForPostgres
  <1>3. CASE Signal
    BY <1>3 DEF Signal
  <1>4. CASE RunStep /\ ~PingPostgres /\ ~WaitForPostgres
    BY <1>4 DEF RunStep, Load, NewExecutor, PingDocker, WarmImages, StartServing, StopServing,
       ListenFailed, Drained, GraceExpires, CloseLast, Exit
  <1>5. CASE Listen \/ AcceptFails \/ Kill \/ \E w \in Work : Arrive(w) \/ WorkStep(w)
    BY <1>5 DEF Listen, AcceptFails, Kill, Arrive, WorkStep, Query, QueryDone, RunContainer, FinishWork
  <1>6. CASE UNCHANGED vars
    BY <1>6 DEF vars
  <1> QED BY <1>1, <1>2, <1>3, <1>4, <1>5, <1>6 DEF Next

\* The flags and the values run and its goroutines hand each other.
FlagInv ==
    /\ ctx \in {"live", "done"}
    /\ server \in {"off", "starting", "accepting", "broken", "closed", "failed"}
    /\ result \in {"none", "clean", "error", "killed"}
    /\ boxes \subseteq Work
    /\ stopping \in BOOLEAN /\ expired \in BOOLEAN

LEMMA FlagKeeps == FlagInv /\ [Next]_vars => FlagInv'
PROOF
  <1> SUFFICES ASSUME FlagInv, [Next]_vars
               PROVE  FlagInv'
    OBVIOUS
  <1> USE DEF FlagInv, Frame, startVars, workVars, Return
  <1>1. CASE Load \/ PingPostgres \/ WaitForPostgres \/ NewExecutor \/ PingDocker \/ WarmImages
    BY <1>1 DEF Load, PingPostgres, WaitForPostgres, NewExecutor, PingDocker, WarmImages
  <1>2. CASE StartServing \/ StopServing \/ ListenFailed \/ Drained
    BY <1>2 DEF StartServing, StopServing, ListenFailed, Drained
  <1>3. CASE GraceExpires \/ CloseLast \/ Exit
    BY <1>3 DEF GraceExpires, CloseLast, Exit
  <1>4. CASE Signal
    <2>1. stopping' \in BOOLEAN
      BY <1>4 DEF Signal
    <2> QED BY <1>4, <2>1 DEF Signal
  <1>5. CASE Listen \/ AcceptFails \/ Kill
    BY <1>5 DEF Listen, AcceptFails, Kill
  <1>6. ASSUME NEW w \in Work, Arrive(w) \/ WorkStep(w)
        PROVE  FlagInv'
    BY <1>6 DEF Arrive, WorkStep, Query, QueryDone, RunContainer, FinishWork
  <1>7. CASE UNCHANGED vars
    BY <1>7 DEF vars
  <1> QED BY <1>1, <1>2, <1>3, <1>4, <1>5, <1>6, <1>7 DEF Next, RunStep

\* cmd/api/main.go:105: among the rest, connectDB never makes more pings than it may.
THEOREM ProcessTypes == Spec => []TypeOK
PROOF
  <1>1. Init => CountInv /\ FlagInv
    <2>1. Init => CountInv
      BY ProcessAssumption DEF Init, CountInv
    <2>2. Init => FlagInv
      BY DEF Init, FlagInv
    <2> QED BY <2>1, <2>2
  <1>2. ProcessInv /\ CountInv /\ FlagInv => TypeOK
    BY Zenon DEF ProcessInv, OpenInv, ServerInv, Dependencies, CountInv, FlagInv, TypeOK
  <1> QED BY <1>1, <1>2, AlwaysInv, CountKeeps, FlagKeeps, PTL DEF Spec
=============================================================================
