--------------------------- MODULE SandboxProofs ---------------------------
(***************************************************************************)
(* Theorems about Sandbox, for every timeout, output cap and amount of     *)
(* output.                                                                 *)
(***************************************************************************)
EXTENDS Sandbox, FiniteSetTheorems, TLAPS

Phases == {"none", "setup", "workdir", "compile", "run", "killed"}
Causes == {"none", "exit", "timeout", "oom", "sigkill", "outside"}
Mark   == [by : {"script", "program"}, at : Nat, phase : Phases, rc : Nat, secs : Nat]
Truth  == [phase : Phases, cause : Causes, rc : Nat, elapsed : Nat]

\* What limitedWriter keeps of the first c units of the stream.
Kept(c) == IF c > MaxOutputBytes THEN MaxOutputBytes ELSE c

StateOK ==
    /\ TypeOK
    /\ marks \subseteq Mark /\ truth \in Truth
    /\ oomEvent \in BOOLEAN /\ wall \in Nat

(* The container runs exactly while its script does, and Execute is where  *)
(* the daemon's answers have led it.                                       *)
LifeInv ==
    /\ cont = "running" <=> script \in Alive
    /\ cont \in {"none", "created"} <=> script = "off"
    /\ pc = "create" => cont = "none"
    /\ pc \in {"attach", "start"} => cont = "created"
    /\ pc = "wait" => cont \in {"running", "exited"}
    /\ pc \in {"collect", "inspect"} => cont = "exited"
    /\ pc \in {"start", "wait", "collect", "inspect"} => attached

(* The script writes nothing before its last words but to say that it      *)
(* could not begin, and knows by then how the program ended.               *)
ScriptInv ==
    /\ script \in {"off", "setup", "compile"} => noise = 0
    /\ script \in {"report", "exit"} => truth.phase # "none"
    /\ pc = "wait" /\ cont = "exited" => truth.phase # "none"

(* The cap is spent exactly on what the buffer holds.                      *)
StreamInv ==
    /\ KeepsAPrefix
    /\ remaining = MaxOutputBytes - Kept(copied)

ReturnInv == ret = "outcome" => pc \in {"remove", "done"}

SandboxInv ==
    StateOK /\ LifeInv /\ ScriptInv /\ StreamInv /\ ReturnInv /\ OutcomeIsOfARun

(* The stream gets through: the script reaches its end, the stream ends    *)
(* with the container, and the cap has room for what the program writes, a *)
(* line of its own in the form of the marker included, and the marker (10  *)
(* units at most, each).                                                   *)
Intact ==
    /\ Faults \cap {"slowStream", "workdir", "daemonKill"} = {}
    /\ MaxOutputBytes >= MaxNoise + 21

\* What the script's line says is what happened.
Reported ==
    /\ \E m \in marks, t0 \in {0, 1} :
          /\ m.by = "script" /\ m.phase = truth.phase /\ m.rc = truth.rc
          /\ m.secs = (t0 + truth.elapsed) \div 2
    /\ truth.phase # "none"

(* There is one line of the script's and one of the program's at most, the *)
(* script's once it is about to exit, and each of them is in the stream.   *)
MarkInv ==
    /\ \A m, n \in marks : m.by = n.by => m = n
    /\ script \in {"off", "setup", "compile", "run", "report"} =>
          /\ \A m \in marks : m.by = "program"
          /\ marks = {} => written <= noise
          /\ written <= noise + 10
    /\ \A m \in marks :
          /\ m.at + MarkerUnits(m) <= written
          /\ m.by = "script" => m.at <= MaxNoise + 11
    /\ script = "exit" => Reported

TruthInv ==
    truth.phase = "run" /\ truth.cause = "timeout" =>
        truth.rc = 137 /\ truth.elapsed >= 2 * RunSecs

IntactInv ==
    /\ TruthInv /\ MarkInv
    /\ pc \in {"wait", "collect", "inspect"} /\ cont = "exited" => Reported
    /\ pc \in {"wait", "collect", "inspect"} /\ copier = "ended" =>
          cont = "exited" /\ copied = written
    /\ pc = "inspect" => copier = "ended"
    /\ ret = "outcome" => script = "gone"
    /\ ExitIsThePrograms
    /\ TimedOutIsRight

-----------------------------------------------------------------------------
(* The length of a marker, and of the stream that ends with it.            *)
LEMMA DigitsRange ==
    ASSUME NEW n \in Nat
    PROVE  Digits(n) \in 1 .. 3
BY DEF Digits

LEMMA MarkerLength ==
    ASSUME NEW m \in Mark
    PROVE  MarkerUnits(m) \in 6 .. 10 /\ m.at \in Nat /\ m.rc \in Nat /\ m.secs \in Nat
<1>1. m.rc \in Nat /\ m.secs \in Nat /\ m.at \in Nat
  BY DEF Mark
<1>2. Digits(m.rc) \in 1 .. 3 /\ Digits(m.secs) \in 1 .. 3
  BY <1>1, DigitsRange
<1> QED
  BY <1>1, <1>2 DEF MarkerUnits

LEMMA SecsFacts ==
    /\ RunSecs \in Nat
    /\ \A t0 \in {0, 1}, e \in Nat : (t0 + e) \div 2 \in Nat
    /\ 2 * RunSecs <= RunTimeout
BY SandboxAssumption DEF RunSecs

(* One more line in the form of the marker.                                *)
LEMMA MarkWritten ==
    ASSUME StateOK, NEW by \in {"script", "program"}, NEW phase \in Phases, NEW rc \in Nat,
           NEW secs \in Nat, WriteMark(by, phase, rc, secs)
    PROVE  \E m \in Mark :
              /\ m = [by |-> by, at |-> written, phase |-> phase, rc |-> rc, secs |-> secs]
              /\ m.by = by /\ m.at = written /\ m.phase = phase /\ m.rc = rc /\ m.secs = secs
              /\ marks' = marks \cup {m} /\ written' = written + MarkerUnits(m)
              /\ MarkerUnits(m) \in 6 .. 10 /\ noise' = noise
<1> DEFINE m == [by |-> by, at |-> written, phase |-> phase, rc |-> rc, secs |-> secs]
<1>1. m \in Mark
  BY DEF Mark, StateOK, TypeOK
<1>2. MarkerUnits(m) \in 6 .. 10
  BY <1>1, MarkerLength
<1>3. marks' = marks \cup {m} /\ written' = written + MarkerUnits(m) /\ noise' = noise
  BY DEF WriteMark
<1>4. m.by = by /\ m.at = written /\ m.phase = phase /\ m.rc = rc /\ m.secs = secs
  OBVIOUS
<1> HIDE DEF m
<1>5. m = [by |-> by, at |-> written, phase |-> phase, rc |-> rc, secs |-> secs]
  BY DEF m
<1> QED
  BY <1>1, <1>2, <1>3, <1>4, <1>5

(* stderr only grows, and only while the script is alive.                  *)
LEMMA StreamGrows ==
    ASSUME StateOK, ScriptInv, [Next]_vars
    PROVE  /\ noise' \in 0 .. MaxNoise + 1 /\ marks' \subseteq Mark /\ truth' \in Truth
           /\ wall' \in Nat /\ oomEvent' \in BOOLEAN
           /\ written \in Nat /\ written' \in Nat /\ written <= written'
           /\ script \notin Alive => UNCHANGED <<written, noise, marks, truth, oomEvent, wall>>
<1> USE SandboxAssumption DEF execVars, streamVars, scriptVars, stderrVars, ScriptFrame, Alive
<1>0. /\ marks \subseteq Mark /\ truth \in Truth /\ noise \in 0 .. MaxNoise + 1
      /\ wall \in Nat /\ oomEvent \in BOOLEAN /\ written \in Nat
  BY DEF StateOK, TypeOK
<1>2. CASE UNCHANGED <<written, noise, marks, truth, oomEvent, wall>>
  BY <1>0, <1>2
<1>3. CASE Setup
  BY <1>0, <1>3 DEF Setup, WritePlain, Ends, Truth, Phases, Causes, ScriptInv
<1>4. CASE CompileEnds
  <2>1. wall' \in Nat /\ UNCHANGED <<written, noise, marks>> /\ script = "compile"
    BY <1>4 DEF CompileEnds
  <2>2. truth' \in Truth
    BY <1>0, <1>4 DEF CompileEnds, Ends, Truth, Phases, Causes
  <2>3. oomEvent' \in BOOLEAN
    BY <1>0, <1>4 DEF CompileEnds
  <2> QED
    BY <1>0, <2>1, <2>2, <2>3
<1>5. CASE WriteStderr
  BY <1>0, <1>5 DEF WriteStderr, WritePlain, ProgramWrites
<1>10. CASE WriteNonce
  <2>1. WriteMark("program", "compile", 2, 0) /\ "compile" \in Phases
    BY <1>10 DEF WriteNonce, Phases
  <2>2. PICK m \in Mark : /\ marks' = marks \cup {m} /\ written' = written + MarkerUnits(m)
                          /\ MarkerUnits(m) \in 6 .. 10 /\ noise' = noise
    BY <2>1, MarkWritten
  <2>3. UNCHANGED <<truth, oomEvent, wall>> /\ script \in Alive
    BY <1>10 DEF WriteNonce, ProgramWrites
  <2> QED
    BY <1>0, <2>2, <2>3
<1>6. CASE RunEnds
  <2>1. RunTimes \subseteq Nat /\ 2 * RunSecs .. 2 * RunSecs + 1 \subseteq Nat
    BY SecsFacts DEF RunTimes
  <2>2. truth' \in Truth
    BY <1>6, <2>1 DEF RunEnds, Ends, Truth, Phases, Causes
  <2>4. oomEvent' \in BOOLEAN
    BY <1>0, <1>6 DEF RunEnds
  <2>3. wall' \in Nat /\ UNCHANGED <<written, noise, marks>> /\ script = "run"
    BY <1>0, <1>6, <2>2 DEF RunEnds, Truth, Phases, Causes
  <2> QED
    BY <1>0, <2>2, <2>3, <2>4
<1>7. CASE ChildKilled
  BY <1>0, <1>7 DEF ChildKilled
<1>8. CASE Report
  <2>1. truth.phase \in Phases /\ truth.rc \in Nat /\ truth.elapsed \in Nat
    BY <1>0 DEF Truth
  <2>2. PICK t0 \in {0, 1} :
          WriteMark("script", truth.phase, truth.rc, (t0 + truth.elapsed) \div 2)
    BY <1>8 DEF Report
  <2>3. (t0 + truth.elapsed) \div 2 \in Nat
    BY <2>1, SecsFacts
  <2>4. PICK m \in Mark : /\ marks' = marks \cup {m} /\ written' = written + MarkerUnits(m)
                          /\ MarkerUnits(m) \in 6 .. 10 /\ noise' = noise
    BY <2>1, <2>2, <2>3, MarkWritten
  <2>5. UNCHANGED <<truth, oomEvent, wall>> /\ script = "report"
    BY <1>8 DEF Report
  <2> QED
    BY <1>0, <2>4, <2>5
<1>9. CASE ContainerKilled
  <2>1. truth' \in Truth /\ wall' \in Nat
    BY <1>0, <1>9 DEF ContainerKilled, Ends, Truth, Phases, Causes
  <2>2. oomEvent' \in BOOLEAN
    BY <1>0, <1>9 DEF ContainerKilled
  <2>3. UNCHANGED <<written, noise, marks>> /\ script \in Alive
    BY <1>9 DEF ContainerKilled
  <2> QED
    BY <1>0, <2>1, <2>2, <2>3
<1> QED
  BY <1>2, <1>3, <1>4, <1>5, <1>6, <1>7, <1>8, <1>9, <1>10
  DEF Next, ExecStep, ScriptStep, CreateContainer, Attach, Start, WaitExited, WaitFailed, WaitKill,
      Collect, InspectAndBuild, Remove, Budget, CopyChunk, CopyEnds, FeedEnds, ExitScript, vars

-----------------------------------------------------------------------------
(* What the small variables may hold, step by step.                        *)
LEMMA ControlStep ==
    ASSUME StateOK, [Next]_vars
    PROVE  /\ pc' \in {"create", "attach", "start", "wait", "collect", "inspect", "remove", "done"}
           /\ ctx' \in {"live", "done"}
           /\ cont' \in {"none", "created", "running", "exited", "removed"}
           /\ exitCode' \in {0, 137}
           /\ copier' \in {"off", "copying", "ended"}
           /\ feeder' \in {"off", "feeding", "ended"}
           /\ script' \in Alive \cup {"off", "gone"}
           /\ ret' \in {"none", "err", "outcome"}
           /\ attached' \in BOOLEAN /\ compiled' \in BOOLEAN
<1> USE DEF StateOK, TypeOK, execVars, streamVars, scriptVars, stderrVars, ScriptFrame, Alive,
        Leave
<1>1. CASE ExecStep
  <2>0. CASE Attach
    <3>1. attached' \in BOOLEAN
      BY <2>0 DEF Attach
    <3> QED
      BY <2>0, <3>1 DEF Attach
  <2>1. CASE CreateContainer
    BY <2>1 DEF CreateContainer
  <2>3. CASE Start
    <3>1. attached' \in BOOLEAN
      BY <2>3 DEF Start
    <3>2. /\ pc' \in {"wait", "remove"} /\ cont' \in {cont, "running"}
          /\ script' \in {script, "setup"} /\ ret' \in {ret, "err"}
          /\ copier' \in {copier, "copying"} /\ feeder' \in {feeder, "feeding"}
          /\ UNCHANGED <<ctx, exitCode, compiled>>
      BY <2>3 DEF Start
    <3> QED
      BY <3>1, <3>2
  <2>2. CASE WaitExited \/ WaitFailed \/ WaitKill \/ Collect \/ InspectAndBuild \/ Remove
    BY <2>2 DEF WaitExited, WaitFailed, WaitKill, Collect, InspectAndBuild, Remove
  <2> QED
    BY <1>1, <2>0, <2>1, <2>2, <2>3 DEF ExecStep
<1>2. CASE Budget \/ CopyChunk \/ CopyEnds \/ FeedEnds
  BY <1>2 DEF Budget, CopyChunk, CopyEnds, FeedEnds
<1>3. CASE ScriptStep
  <2>1. CASE Setup
    BY <2>1 DEF Setup
  <2>2. CASE CompileEnds
    BY <2>2 DEF CompileEnds
  <2>3. CASE WriteStderr \/ WriteNonce \/ RunEnds \/ ChildKilled \/ Report \/ ExitScript
             \/ ContainerKilled
    BY <2>3 DEF WriteStderr, WriteNonce, RunEnds, ChildKilled, Report, ExitScript, ContainerKilled
  <2> QED
    BY <1>3, <2>1, <2>2, <2>3 DEF ScriptStep
<1>4. CASE UNCHANGED vars
  BY <1>4 DEF vars
<1> QED
  BY <1>1, <1>2, <1>3, <1>4 DEF Next

(* The container's life, the script's and Execute's, step by step.         *)
LEMMA LifeStep ==
    ASSUME StateOK, LifeInv, ScriptInv, ReturnInv, OutcomeIsOfARun, [Next]_vars
    PROVE  LifeInv' /\ ScriptInv' /\ ReturnInv' /\ OutcomeIsOfARun'
<1> USE DEF LifeInv, ScriptInv, ReturnInv, OutcomeIsOfARun, execVars, streamVars, scriptVars,
        stderrVars, ScriptFrame, Alive
<1>1. CASE CreateContainer
  BY <1>1 DEF CreateContainer, DockerOutcomes, Applied
<1>2. CASE Attach
  BY <1>2 DEF Attach
<1>3. CASE Start
  BY <1>3 DEF Start, Applied, Leave
<1>4. CASE WaitExited \/ WaitFailed \/ WaitKill
  BY <1>4 DEF WaitExited, WaitFailed, WaitKill, Leave
<1>5. CASE Collect \/ InspectAndBuild
  BY <1>5 DEF Collect, InspectAndBuild, Leave
<1>6. CASE Remove
  BY <1>6 DEF Remove
<1>7. CASE Budget \/ CopyChunk \/ CopyEnds \/ FeedEnds
  BY <1>7 DEF Budget, CopyChunk, CopyEnds, FeedEnds
<1>8. CASE Setup
  BY <1>8 DEF Setup, WritePlain, Ends
<1>9. CASE CompileEnds
  BY <1>9 DEF CompileEnds, Ends
<1>10. CASE WriteStderr \/ WriteNonce \/ ChildKilled
  BY <1>10 DEF WriteStderr, WriteNonce, WritePlain, WriteMark, ProgramWrites, ChildKilled
<1>11. CASE RunEnds
  BY <1>11 DEF RunEnds, Ends
<1>12. CASE Report \/ ExitScript
  BY <1>12 DEF Report, ExitScript, WriteMark
<1>13. CASE ContainerKilled
  BY <1>13 DEF ContainerKilled, Ends
<1>14. CASE UNCHANGED vars
  BY <1>14 DEF vars
<1> QED
  BY <1>1, <1>2, <1>3, <1>4, <1>5, <1>6, <1>7, <1>8, <1>9, <1>10, <1>11, <1>12, <1>13, <1>14
  DEF Next, ExecStep, ScriptStep

(* limitedWriter.Write, wherever the chunks of the stream are cut.         *)
LEMMA WriteKeepsPrefix ==
    ASSUME StateOK, StreamInv, NEW n \in Nat \ {0}, Write(copied + 1, n)
    PROVE  /\ errBuf' = 1 .. Kept(copied + n)
           /\ remaining' = MaxOutputBytes - Kept(copied + n)
           /\ remaining' \in 0 .. MaxOutputBytes
<1>1. /\ copied \in Nat /\ MaxOutputBytes \in Nat
      /\ errBuf = 1 .. Kept(copied) /\ remaining = MaxOutputBytes - Kept(copied)
  BY SandboxAssumption DEF StateOK, TypeOK, StreamInv, KeepsAPrefix, Kept
<1> DEFINE kept == IF n > remaining THEN remaining ELSE n
<1>2. errBuf' = errBuf \cup (copied + 1 .. copied + 1 + kept - 1) /\ remaining' = remaining - kept
  BY DEF Write
<1>3. CASE copied > MaxOutputBytes
  BY <1>1, <1>2, <1>3 DEF Kept
<1>4. CASE copied <= MaxOutputBytes
  <2>1. copied + kept = Kept(copied + n) /\ kept \in Nat
    BY <1>1, <1>4 DEF Kept
  <2>2. errBuf' = (1 .. copied) \cup (copied + 1 .. copied + kept)
    BY <1>1, <1>2, <1>4, <2>1 DEF Kept
  <2>3. errBuf' = 1 .. copied + kept
    BY <1>1, <2>1, <2>2
  <2> QED
    BY <1>1, <1>2, <1>4, <2>1, <2>3 DEF Kept
<1> QED
  BY <1>1, <1>3, <1>4

LEMMA StreamStep ==
    ASSUME StateOK, ScriptInv, StreamInv, [Next]_vars
    PROVE  /\ StreamInv' /\ copied' \in 0 .. written'
           /\ remaining' \in 0 .. MaxOutputBytes /\ errBuf' \subseteq 1 .. written'
<1>1. /\ written \in Nat /\ written' \in Nat /\ written <= written'
  BY StreamGrows
<1>2. /\ copied \in 0 .. written /\ remaining \in 0 .. MaxOutputBytes
      /\ MaxOutputBytes \in Nat
  BY SandboxAssumption DEF StateOK, TypeOK
<1>3. CASE UNCHANGED <<copied, remaining, errBuf>>
  <2>1. StreamInv'
    BY <1>3 DEF StreamInv, KeepsAPrefix, Kept
  <2>2. errBuf' \subseteq 1 .. written'
    BY <1>1, <1>3 DEF StateOK, TypeOK
  <2> QED
    BY <1>1, <1>2, <1>3, <2>1, <2>2
<1>4. CASE CopyChunk
  <2>1. PICK n \in 1 .. (written - copied) : Write(copied + 1, n) /\ copied' = copied + n
    BY <1>4 DEF CopyChunk
  <2>2. n \in Nat \ {0} /\ copied + n \in 0 .. written
    BY <1>1, <1>2, <2>1
  <2>3. /\ errBuf' = 1 .. Kept(copied') /\ remaining' = MaxOutputBytes - Kept(copied')
        /\ remaining' \in 0 .. MaxOutputBytes
    BY <2>1, <2>2, WriteKeepsPrefix
  <2>4. Kept(copied') <= written' /\ Kept(copied') \in Nat
    BY <1>1, <1>2, <2>1, <2>2 DEF Kept
  <2>5. errBuf' \subseteq 1 .. written'
    BY <1>1, <2>3, <2>4
  <2> QED
    BY <1>1, <2>1, <2>2, <2>3, <2>5 DEF StreamInv, KeepsAPrefix, Kept
<1> QED
  BY <1>3, <1>4
  DEF Next, ExecStep, ScriptStep, CreateContainer, Attach, Start, WaitExited, WaitFailed, WaitKill,
      Collect, InspectAndBuild, Remove, Budget, CopyEnds, FeedEnds, Setup, CompileEnds,
      WriteStderr, WriteNonce, RunEnds, ChildKilled, Report, ExitScript,
      ContainerKilled, ScriptFrame, vars, streamVars

LEMMA SandboxInvariant == Spec => []SandboxInv
<1>1. Init => SandboxInv
  <2> SUFFICES ASSUME Init PROVE SandboxInv
    OBVIOUS
  <2> USE SandboxAssumption DEF Init
  <2>1. written = 0 /\ written \in Nat
    OBVIOUS
  <2>2. truth \in Truth /\ marks \subseteq Mark
    BY DEF Truth, Phases, Causes
  <2>3. StateOK
    <3>1. errBuf \subseteq 1 .. written /\ copied \in 0 .. written
      BY <2>1
    <3>2. remaining \in 0 .. MaxOutputBytes /\ noise \in 0 .. MaxNoise + 1 /\ wall \in Nat
      OBVIOUS
    <3>3. attached \in BOOLEAN /\ compiled \in BOOLEAN /\ oomEvent \in BOOLEAN
      OBVIOUS
    <3> QED
      BY <2>1, <2>2, <3>1, <3>2, <3>3 DEF StateOK, TypeOK, Alive
  <2>4. StreamInv
    BY DEF StreamInv, KeepsAPrefix, Kept
  <2> QED
    BY <2>3, <2>4 DEF SandboxInv, LifeInv, ScriptInv, ReturnInv, OutcomeIsOfARun, Alive
<1>2. SandboxInv /\ [Next]_vars => SandboxInv'
  <2> SUFFICES ASSUME SandboxInv, [Next]_vars PROVE SandboxInv'
    OBVIOUS
  <2>1. LifeInv' /\ ScriptInv' /\ ReturnInv' /\ OutcomeIsOfARun'
    BY LifeStep DEF SandboxInv
  <2>2. StreamInv' /\ copied' \in 0 .. written' /\ remaining' \in 0 .. MaxOutputBytes
        /\ errBuf' \subseteq 1 .. written'
    BY StreamStep DEF SandboxInv
  <2>3. StateOK'
    BY <2>2, ControlStep, StreamGrows DEF SandboxInv, StateOK, TypeOK
  <2> QED
    BY <2>1, <2>2, <2>3 DEF SandboxInv
<1> QED
  BY <1>1, <1>2, PTL DEF Spec

(* Execute, its goroutines and the script keep their variables in range;   *)
(* the buffer never holds more than the stream or the cap.                 *)
THEOREM TypesAreKept == Spec => []TypeOK
BY SandboxInvariant, PTL DEF SandboxInv, StateOK

(* However the output stream is cut into writes, the buffer holds its      *)
(* first MaxOutputBytes and no holes (executor.go:448).                    *)
THEOREM PrefixIsKept == Spec => []KeepsAPrefix
BY SandboxInvariant, PTL DEF SandboxInv, StreamInv

(* An outcome is never that of a container that has not run: the wait is   *)
(* registered after the start (executor.go:214), whatever fails.           *)
THEOREM OutcomesAreOfRuns == Spec => []OutcomeIsOfARun
BY SandboxInvariant, PTL DEF SandboxInv

-----------------------------------------------------------------------------
(* The deferred remove is reached on every path with a container's id, and *)
(* does not depend on the context that was cancelled (executor.go:430): it *)
(* takes a failed removal, or a container whose id the daemon never told,  *)
(* to leave one behind.                                                    *)
THEOREM ContainersAreDestroyed ==
    ASSUME Faults \cap {"removeErr", "createLostAck"} = {}
    PROVE  Spec => []Destroyed
<1>1. Init => Destroyed
  BY DEF Init, Destroyed
<1>2. SandboxInv /\ Destroyed /\ [Next]_vars => Destroyed'
  <2> SUFFICES ASSUME SandboxInv, Destroyed, [Next]_vars PROVE Destroyed'
    OBVIOUS
  <2> USE DEF SandboxInv, LifeInv, Destroyed, execVars, streamVars, scriptVars, stderrVars,
          ScriptFrame, Alive
  <2>1. CASE CreateContainer
    BY <2>1 DEF CreateContainer, DockerOutcomes, Applied
  <2>2. CASE ExecStep /\ ~CreateContainer
    BY <2>2 DEF ExecStep, Attach, Start, WaitExited, WaitFailed, WaitKill, Collect,
       InspectAndBuild, Remove, Leave
  <2>3. CASE Budget \/ CopyChunk \/ CopyEnds \/ FeedEnds
    BY <2>3 DEF Budget, CopyChunk, CopyEnds, FeedEnds
  <2>4. CASE ScriptStep
    BY <2>4 DEF ScriptStep, Setup, CompileEnds, WriteStderr, WriteNonce, ProgramWrites, RunEnds,
       ChildKilled, Report, ExitScript, ContainerKilled
  <2>5. CASE UNCHANGED vars
    BY <2>5 DEF vars
  <2> QED
    BY <2>1, <2>2, <2>3, <2>4, <2>5 DEF Next
<1> QED
  BY <1>1, <1>2, SandboxInvariant, PTL DEF Spec

-----------------------------------------------------------------------------
(* What is read of a number that came through whole is the number.         *)
LEMMA WholePrefix ==
    ASSUME NEW n \in Nat, NEW k \in Int, k >= Digits(n)
    PROVE  Prefix(n, k) = n
BY DigitsRange DEF Prefix

(* Who may write what to stderr when, step by step.                        *)
LEMMA MarkStep ==
    ASSUME SandboxInv, MarkInv, [Next]_vars
    PROVE  MarkInv'
<1> DEFINE Early == {"off", "setup", "compile", "run", "report"}
<1>0. /\ written \in Nat /\ noise \in 0 .. MaxNoise + 1 /\ marks \subseteq Mark
      /\ MaxNoise \in Nat /\ StateOK
      /\ \A m \in marks : MarkerUnits(m) \in 6 .. 10 /\ m.at \in Nat
  BY SandboxAssumption, MarkerLength DEF SandboxInv, StateOK, TypeOK
<1>1. CASE /\ script' \in Early => script \in Early
           /\ script' = "exit" => script = "exit" /\ UNCHANGED truth
           /\ marks' = marks
           /\ UNCHANGED <<written, noise>> \/ WritePlain
  <2>1. /\ written' \in Nat /\ written <= written'
        /\ written <= noise => written' <= noise'
        /\ written <= noise + 10 => written' <= noise' + 10
    BY <1>0, <1>1 DEF WritePlain
  <2>2. script' = "exit" => Reported'
    BY <1>1 DEF MarkInv, Reported
  <2>3. \A m \in marks' : /\ m.at + MarkerUnits(m) <= written'
                          /\ m.by = "script" => m.at <= MaxNoise + 11
    BY <1>0, <1>1, <2>1 DEF MarkInv
  <2>4. script' \in Early =>
          /\ \A m \in marks' : m.by = "program"
          /\ marks' = {} => written' <= noise'
          /\ written' <= noise' + 10
    <3> SUFFICES ASSUME script \in Early
                 PROVE  /\ \A m \in marks : m.by = "program"
                        /\ marks = {} => written' <= noise'
                        /\ written' <= noise' + 10
      BY <1>1
    <3>1. /\ \A m \in marks : m.by = "program"
          /\ marks = {} => written <= noise
          /\ written <= noise + 10
      BY DEF MarkInv
    <3> QED
      BY <2>1, <3>1
  <2>5. \A m, n \in marks' : m.by = n.by => m = n
    BY <1>1 DEF MarkInv
  <2> QED
    BY <2>2, <2>3, <2>4, <2>5 DEF MarkInv, MarkerUnits
<1>2. CASE WriteNonce
  <2>1. /\ WriteMark("program", "compile", 2, 0) /\ "compile" \in Phases
        /\ \A m \in marks : m.by = "script"
        /\ UNCHANGED <<script, truth>>
    BY <1>2 DEF WriteNonce, Phases
  <2>2. PICK p \in Mark :
          /\ p.by = "program" /\ p.at = written
          /\ marks' = marks \cup {p} /\ written' = written + MarkerUnits(p)
          /\ MarkerUnits(p) \in 6 .. 10 /\ noise' = noise
    BY <1>0, <2>1, MarkWritten
  <2>3. \A m, n \in marks' : m.by = n.by => m = n
    BY <2>1, <2>2 DEF MarkInv
  <2>4. \A m \in marks' : /\ m.at + MarkerUnits(m) <= written'
                          /\ m.by = "script" => m.at <= MaxNoise + 11
    <3> SUFFICES ASSUME NEW m \in marks'
                 PROVE  /\ m.at + MarkerUnits(m) <= written'
                        /\ m.by = "script" => m.at <= MaxNoise + 11
      OBVIOUS
    <3>1. CASE m = p
      BY <1>0, <2>2, <3>1
    <3>2. CASE m \in marks
      BY <1>0, <2>2, <3>2 DEF MarkInv
    <3> QED
      BY <2>2, <3>1, <3>2
  <2>5. script' \in Early =>
          /\ \A m \in marks' : m.by = "program"
          /\ marks' = {} => written' <= noise'
          /\ written' <= noise' + 10
    <3> SUFFICES ASSUME script \in Early
                 PROVE  /\ \A m \in marks' : m.by = "program"
                        /\ marks' = {} => written' <= noise'
                        /\ written' <= noise' + 10
      BY <2>1
    <3>1. marks = {}
      BY <2>1 DEF MarkInv
    <3> QED
      BY <1>0, <2>2, <3>1 DEF MarkInv
  <2>6. script' = "exit" => Reported'
    BY <2>1, <2>2 DEF MarkInv, Reported
  <2> QED
    BY <2>3, <2>4, <2>5, <2>6 DEF MarkInv, MarkerUnits
<1>3. CASE Report
  <2>1. /\ truth.phase \in Phases /\ truth.rc \in Nat /\ truth.elapsed \in Nat
        /\ script = "report" /\ script' = "exit" /\ UNCHANGED truth /\ truth.phase # "none"
    BY <1>3 DEF Report, SandboxInv, StateOK, ScriptInv, Truth
  <2>2. PICK t0 \in {0, 1} :
          WriteMark("script", truth.phase, truth.rc, (t0 + truth.elapsed) \div 2)
    BY <1>3 DEF Report
  <2>3. (t0 + truth.elapsed) \div 2 \in Nat
    BY <2>1, SecsFacts
  <2>4. PICK s \in Mark :
          /\ s.by = "script" /\ s.at = written /\ s.phase = truth.phase /\ s.rc = truth.rc
          /\ s.secs = (t0 + truth.elapsed) \div 2
          /\ marks' = marks \cup {s} /\ written' = written + MarkerUnits(s)
          /\ MarkerUnits(s) \in 6 .. 10 /\ noise' = noise
    BY <1>0, <2>1, <2>2, <2>3, MarkWritten
  <2>5. (\A m \in marks : m.by = "program") /\ written <= noise + 10
    BY <2>1 DEF MarkInv
  <2>6. \A m, n \in marks' : m.by = n.by => m = n
    BY <2>4, <2>5 DEF MarkInv
  <2>7. \A m \in marks' : /\ m.at + MarkerUnits(m) <= written'
                          /\ m.by = "script" => m.at <= MaxNoise + 11
    <3> SUFFICES ASSUME NEW m \in marks'
                 PROVE  /\ m.at + MarkerUnits(m) <= written'
                        /\ m.by = "script" => m.at <= MaxNoise + 11
      OBVIOUS
    <3>1. CASE m = s
      BY <1>0, <2>4, <2>5, <3>1
    <3>2. CASE m \in marks
      BY <1>0, <2>4, <3>2 DEF MarkInv
    <3> QED
      BY <2>4, <3>1, <3>2
  <2>8. Reported'
    BY <2>1, <2>4 DEF Reported
  <2> QED
    BY <2>1, <2>6, <2>7, <2>8 DEF MarkInv, MarkerUnits
<1>4. CASE Setup
  BY <1>1, <1>4 DEF Setup, stderrVars, WritePlain
<1>5. CASE WriteStderr
  BY <1>1, <1>5 DEF WriteStderr, WritePlain
<1>6. CASE CompileEnds \/ RunEnds \/ ChildKilled
  BY <1>1, <1>6 DEF CompileEnds, RunEnds, ChildKilled, stderrVars
<1>7. CASE ExitScript \/ ContainerKilled
  BY <1>1, <1>7 DEF ExitScript, ContainerKilled, stderrVars
<1>8. CASE Start
  <2>1. script = "off"
    BY <1>8 DEF Start, SandboxInv, LifeInv
  <2>2. script' \in {"off", "setup"} /\ UNCHANGED <<written, noise, marks>>
    BY <1>8, <2>1 DEF Start, stderrVars
  <2> QED
    BY <1>1, <2>1, <2>2
<1>9. CASE WaitKill \/ Remove
  BY <1>1, <1>9 DEF WaitKill, Remove, stderrVars
<1>10. CASE UNCHANGED scriptVars
  BY <1>1, <1>10 DEF scriptVars, stderrVars
<1> QED
  BY <1>2, <1>3, <1>4, <1>5, <1>6, <1>7, <1>8, <1>9, <1>10
  DEF Next, ExecStep, ScriptStep, CreateContainer, Attach, WaitExited, WaitFailed, Collect,
      InspectAndBuild, Budget, CopyChunk, CopyEnds, FeedEnds, vars

(* The cap leaves the script's line whole when the program has left room   *)
(* for it, and it is the one that is found when it is the last.            *)
LEMMA MarkerSurvives ==
    ASSUME Intact, SandboxInv, IntactInv, pc = "inspect", ScriptHasLastWord
    PROVE  /\ copier = "ended"
           /\ \E t0 \in {0, 1} :
                 ExtractMarker(Cardinality(errBuf)) =
                    [found |-> TRUE, phase |-> truth.phase, rc |-> truth.rc,
                     secs |-> (t0 + truth.elapsed) \div 2]
<1>1. cont = "exited" /\ copier = "ended" /\ copied = written /\ Reported
  BY DEF IntactInv, SandboxInv, LifeInv
<1>2. PICK s \in marks, t0 \in {0, 1} :
        /\ s.by = "script" /\ s.phase = truth.phase /\ s.rc = truth.rc
        /\ s.secs = (t0 + truth.elapsed) \div 2
  BY <1>1 DEF Reported
<1>3. /\ s \in Mark /\ marks \subseteq Mark /\ written \in Nat
      /\ MaxOutputBytes \in Nat /\ MaxNoise \in Nat /\ MaxOutputBytes >= MaxNoise + 21
  BY SandboxAssumption DEF SandboxInv, StateOK, TypeOK, Intact
<1>4. /\ s.at \in Nat /\ s.rc \in Nat /\ s.secs \in Nat /\ MarkerUnits(s) \in 6 .. 10
      /\ Digits(s.rc) \in 1 .. 3 /\ Digits(s.secs) \in 1 .. 3
      /\ MarkerUnits(s) = 3 + Digits(s.rc) + 1 + Digits(s.secs)
  BY <1>3, MarkerLength, DigitsRange DEF MarkerUnits
<1>5. s.at + MarkerUnits(s) <= written /\ s.at <= MaxNoise + 11
  BY <1>2 DEF IntactInv, MarkInv
<1>6. Cardinality(errBuf) = Kept(written) /\ Kept(written) \in Nat
  <2>1. errBuf = 1 .. Kept(written) /\ Kept(written) \in Nat
    BY <1>1, <1>3 DEF SandboxInv, StreamInv, KeepsAPrefix, Kept
  <2> QED
    BY <2>1, FS_Interval
<1> DEFINE units == Cardinality(errBuf)
           found == {m \in marks : m.at < units}
           k == units - s.at
<1>7. units \in Nat /\ k \in Int /\ k >= MarkerUnits(s)
  BY <1>3, <1>4, <1>5, <1>6 DEF Kept
<1>8. s \in found
  <2>1. s.at < units
    BY <1>4, <1>7
  <2> QED
    BY <2>1
<1>9. \A m \in marks : m # s => m.at < s.at
  <2> SUFFICES ASSUME NEW m \in marks, m # s PROVE m.at < s.at
    OBVIOUS
  <2>1. m.by = "program"
    BY <1>2, <1>3 DEF IntactInv, MarkInv, Mark
  <2>2. PICK n \in marks : n.by = "script" /\ m.at < n.at
    BY <2>1 DEF ScriptHasLastWord
  <2>3. n = s
    BY <1>2, <2>2 DEF IntactInv, MarkInv
  <2> QED
    BY <2>2, <2>3
<1>10. LastMark(found) = s
  <2>1. \A m \in found : m.at <= s.at /\ m.at \in Nat
    <3> SUFFICES ASSUME NEW m \in found PROVE m.at <= s.at /\ m.at \in Nat
      OBVIOUS
    <3>1. m \in marks /\ m \in Mark
      BY <1>3
    <3>2. m.at \in Nat
      BY <3>1, MarkerLength
    <3> QED
      BY <1>4, <1>9, <3>1, <3>2
  <2>2. ASSUME NEW m \in found, \A n \in found : n.at <= m.at PROVE m = s
    <3>1. s.at <= m.at /\ m \in marks /\ m.at \in Nat
      BY <1>8, <2>1, <2>2
    <3> QED
      BY <1>4, <1>9, <3>1
  <2> HIDE DEF found
  <2> QED
    BY <1>8, <2>1, <2>2 DEF LastMark
<1>11. /\ k >= 2 /\ k >= 3 /\ k - 3 \in Int /\ k - 3 >= Digits(s.rc)
       /\ k - 3 - Digits(s.rc) - 1 \in Int /\ k - 3 - Digits(s.rc) - 1 >= Digits(s.secs)
  BY <1>4, <1>7
<1>12. Prefix(s.rc, k - 3) = s.rc /\ Prefix(s.secs, k - 3 - Digits(s.rc) - 1) = s.secs
  BY <1>4, <1>11, WholePrefix
<1>13. ExtractMarker(units) =
         [found |-> k >= 2, phase |-> IF k >= 3 THEN s.phase ELSE "cut",
          rc |-> Prefix(s.rc, k - 3),
          secs |-> Prefix(s.secs, k - 3 - Digits(s.rc) - 1)]
  BY <1>8, <1>10 DEF ExtractMarker
<1> QED
  BY <1>1, <1>2, <1>11, <1>12, <1>13

(* What Execute makes of a whole marker.                                   *)
LEMMA BuiltOutcome ==
    ASSUME Intact, SandboxInv, IntactInv, InspectAndBuild, ScriptHasLastWord
    PROVE  /\ outcome'.found = TRUE
           /\ outcome'.exit = truth.rc
           /\ outcome'.compileError = (truth.phase = "compile")
           /\ \E t0 \in {0, 1}, oom \in BOOLEAN :
                 /\ oom => oomEvent
                 /\ truth.phase = "run" =>
                      outcome'.timedOut = (/\ truth.rc = 137 /\ ~oom
                                           /\ (t0 + truth.elapsed) \div 2 >= RunSecs)
<1>1. pc = "inspect"
  BY DEF InspectAndBuild
<1>2. PICK t0 \in {0, 1} :
        ExtractMarker(Cardinality(errBuf)) =
           [found |-> TRUE, phase |-> truth.phase, rc |-> truth.rc,
            secs |-> (t0 + truth.elapsed) \div 2]
  BY <1>1, MarkerSurvives
<1> DEFINE m == [found |-> TRUE, phase |-> truth.phase, rc |-> truth.rc,
                 secs |-> (t0 + truth.elapsed) \div 2]
<1>3. PICK o \in DockerOutcomes("none") :
        outcome' = BuildOutcome(m, exitCode, wall, o = "ok" /\ oomEvent)
  BY <1>1, <1>2, MarkerSurvives DEF InspectAndBuild
<1> DEFINE oom == o = "ok" /\ oomEvent
<1>6. oom \in BOOLEAN /\ (oom => oomEvent)
  OBVIOUS
<1> HIDE DEF oom
<1>7. /\ outcome'.found = TRUE /\ outcome'.exit = m.rc
      /\ outcome'.compileError = (m.phase = "compile")
      /\ outcome'.timedOut = (\/ m.phase = "compile" /\ m.rc = 137
                              \/ m.phase = "run" /\ RunTimedOut(m, oom))
  BY <1>3 DEF BuildOutcome, ReportedExit, oom
<1> QED
  BY <1>6, <1>7 DEF RunTimedOut

LEMMA IntactStep ==
    ASSUME Intact, SandboxInv, IntactInv, [Next]_vars
    PROVE  IntactInv'
<1> USE DEF SandboxInv, StateOK
<1>0. script \notin Alive => UNCHANGED <<written, noise, marks, truth, oomEvent, wall>>
  BY StreamGrows
<1>9. MarkInv'
  BY MarkStep DEF IntactInv
<1>1. cont = "exited" => script \notin Alive
  BY DEF LifeInv
<1>2. ~InspectAndBuild =>
        /\ ret' = "outcome" => ret = "outcome" /\ outcome' = outcome
        /\ script = "gone" => script' = "gone"
  BY DEF Next, ExecStep, ScriptStep, CreateContainer, Attach, Start, WaitExited, WaitFailed,
     WaitKill, Collect, Remove, Budget, CopyChunk, CopyEnds, FeedEnds, Setup, CompileEnds,
     WriteStderr, WriteNonce, RunEnds, ChildKilled, Report, ExitScript, ContainerKilled, Leave,
     LifeInv, ScriptFrame, Alive, vars, execVars, scriptVars
<1>3. ~InspectAndBuild => /\ ret' = "outcome" => script' = "gone"
                          /\ ExitIsThePrograms' /\ TimedOutIsRight'
  <2> SUFFICES ASSUME ~InspectAndBuild, ret' = "outcome"
               PROVE  script' = "gone" /\ ExitIsThePrograms' /\ TimedOutIsRight'
    BY DEF ExitIsThePrograms, TimedOutIsRight
  <2>1. ret = "outcome" /\ script = "gone" /\ script' = "gone" /\ outcome' = outcome
    BY <1>2 DEF IntactInv
  <2>2. UNCHANGED <<truth, oomEvent, marks>>
    BY <1>0, <2>1 DEF Alive
  <2> QED
    BY <2>1, <2>2 DEF IntactInv, ExitIsThePrograms, TimedOutIsRight, ScriptHasLastWord
<1>4. TruthInv'
  <2>1. CASE UNCHANGED truth
    BY <2>1 DEF IntactInv, TruthInv
  <2>2. CASE Setup
    BY <2>2 DEF Setup, Ends, IntactInv, TruthInv
  <2>3. CASE CompileEnds
    BY <2>3 DEF CompileEnds, Ends, IntactInv, TruthInv
  <2>4. CASE RunEnds
    BY <2>4, SecsFacts DEF RunEnds, Ends, TruthInv
  <2>5. ~ContainerKilled
    BY DEF ContainerKilled, Intact
  <2> QED
    BY <2>1, <2>2, <2>3, <2>4, <2>5
    DEF Next, ExecStep, ScriptStep, CreateContainer, Attach, Start, WaitExited, WaitFailed,
        WaitKill, Collect, InspectAndBuild, Remove, Budget, CopyChunk, CopyEnds, FeedEnds,
        WriteStderr, WriteNonce, ChildKilled, Report, ExitScript, vars, scriptVars
<1> DEFINE Waits == {"wait", "collect", "inspect"}
<1>5. pc' \in Waits /\ cont' = "exited" => Reported'
  <2> SUFFICES ASSUME pc' \in Waits, cont' = "exited" PROVE Reported'
    OBVIOUS
  <2>1. CASE ExitScript
    BY <2>1 DEF ExitScript, IntactInv, MarkInv, Reported, stderrVars
  <2>2. CASE ~ExitScript
    <3>1. pc \in Waits /\ cont = "exited"
      BY <2>2 DEF Next, ExecStep, ScriptStep, CreateContainer, Attach, Start, WaitExited,
         WaitFailed, WaitKill, Collect, InspectAndBuild, Remove, Budget, CopyChunk, CopyEnds,
         FeedEnds, Setup, CompileEnds, WriteStderr, WriteNonce, RunEnds, ChildKilled, Report,
         ContainerKilled, Leave, LifeInv, Intact, ScriptFrame, vars, Applied
    <3> QED
      BY <1>0, <1>1, <3>1 DEF IntactInv, Reported
  <2> QED
    BY <2>1, <2>2
<1>6. pc' \in Waits /\ copier' = "ended" => cont' = "exited" /\ copied' = written'
  <2> SUFFICES ASSUME pc' \in Waits, copier' = "ended"
               PROVE  cont' = "exited" /\ copied' = written'
    OBVIOUS
  <2>1. CASE CopyEnds
    <3>1. pc \in Waits /\ cont = "exited" /\ copied = written
          /\ UNCHANGED <<cont, copied, written>>
      BY <2>1 DEF CopyEnds, LifeInv, scriptVars, stderrVars
    <3> QED
      BY <3>1
  <2>2. CASE ~CopyEnds
    <3>1. pc \in Waits /\ copier = "ended" /\ UNCHANGED copied
      BY <2>2 DEF Next, ExecStep, ScriptStep, CreateContainer, Attach, Start, WaitExited,
         WaitFailed, WaitKill, Collect, InspectAndBuild, Remove, Budget, CopyChunk,
         FeedEnds, Setup, CompileEnds, WriteStderr, WriteNonce, RunEnds, ChildKilled, Report,
         ExitScript, ContainerKilled,
         Leave, ScriptFrame, vars, streamVars
    <3>2. cont = "exited" /\ copied = written
      BY <3>1 DEF IntactInv
    <3>3. UNCHANGED written
      BY <1>0, <1>1, <3>2
    <3>4. cont' = "exited"
      BY <1>1, <3>1, <3>2
      DEF Next, ExecStep, ScriptStep, CreateContainer, Attach, Start, WaitExited,
         WaitFailed, WaitKill, Collect, InspectAndBuild, Remove, Budget, CopyChunk, CopyEnds,
         FeedEnds, Setup, CompileEnds, WriteStderr, WriteNonce, RunEnds, ChildKilled, Report,
         ExitScript, ContainerKilled,
         Alive, Applied, vars
    <3> QED
      BY <3>1, <3>2, <3>3, <3>4
  <2> QED
    BY <2>1, <2>2
<1>7. pc' = "inspect" => copier' = "ended"
  BY DEF Next, ExecStep, ScriptStep, CreateContainer, Attach, Start, WaitExited,
     WaitFailed, WaitKill, Collect, InspectAndBuild, Remove, Budget, CopyChunk, CopyEnds,
     FeedEnds, Setup, CompileEnds, WriteStderr, WriteNonce, RunEnds, ChildKilled, Report,
         ExitScript, ContainerKilled,
     Leave, ScriptFrame, vars, streamVars, Intact, IntactInv
<1>8. CASE InspectAndBuild
  <2>1. script' = "gone" /\ UNCHANGED <<truth, oomEvent, marks>> /\ ret' = "outcome"
    BY <1>8 DEF InspectAndBuild, LifeInv, TypeOK, Alive, scriptVars, stderrVars, Leave
  <2>2. truth.elapsed \in Nat /\ RunSecs \in Nat
    BY SecsFacts DEF Truth
  <2>3. ScriptHasLastWord' => ScriptHasLastWord
    BY <2>1 DEF ScriptHasLastWord
  <2>4. ExitIsThePrograms'
    BY <1>8, <2>1, <2>3, BuiltOutcome DEF ExitIsThePrograms
  <2>5. TimedOutIsRight'
    <3> SUFFICES ASSUME ScriptHasLastWord PROVE TimedOutIsRight'
      BY <2>3 DEF TimedOutIsRight
    <3>1. PICK t0 \in {0, 1}, oom \in BOOLEAN :
            /\ oom => oomEvent
            /\ truth.phase = "run" =>
                 outcome'.timedOut = (/\ truth.rc = 137 /\ ~oom
                                      /\ (t0 + truth.elapsed) \div 2 >= RunSecs)
      BY <1>8, BuiltOutcome
    <3>2. (t0 + truth.elapsed) \div 2 >= RunSecs => truth.elapsed > 2 * RunSecs - 2
      BY <2>2, <3>1
    <3>3. truth.elapsed >= 2 * RunSecs => (t0 + truth.elapsed) \div 2 >= RunSecs
      BY <2>2, <3>1
    <3> QED
      BY <2>1, <3>1, <3>2, <3>3 DEF TimedOutIsRight, IntactInv, TruthInv
  <2> QED
    BY <1>4, <1>5, <1>6, <1>7, <1>9, <2>1, <2>4, <2>5 DEF IntactInv
<1> QED
  BY <1>3, <1>4, <1>5, <1>6, <1>7, <1>8, <1>9 DEF IntactInv

LEMMA IntactInvariant ==
    ASSUME Intact
    PROVE  Spec => []IntactInv
<1>1. Init => IntactInv
  BY DEF Init, IntactInv, TruthInv, MarkInv, ExitIsThePrograms, TimedOutIsRight
<1>2. SandboxInv /\ IntactInv /\ [Next]_vars => IntactInv'
  BY IntactStep
<1> QED
  BY <1>1, <1>2, SandboxInvariant, PTL DEF Spec

(* When the stream gets through, the exit status and the phase Execute     *)
(* reports are those of the compiler or the program (script.go:15),        *)
(* whatever the program writes, a line in the form of the marker included, *)
(* unless such a line of its own comes after the script's: the last one is *)
(* the one that counts (executor.go:332).                                  *)
THEOREM ExitsAreThePrograms ==
    ASSUME Intact
    PROVE  Spec => []ExitIsThePrograms
BY IntactInvariant, PTL DEF IntactInv

(* timed_out is right to the second, for every timeout the configuration   *)
(* may hold, one of half seconds too (executor.go:311), again if the       *)
(* script has the last word.                                               *)
THEOREM TimeoutsAreRight ==
    ASSUME Intact
    PROVE  Spec => []TimedOutIsRight
BY IntactInvariant, PTL DEF IntactInv
=============================================================================
