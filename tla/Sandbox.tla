------------------------------ MODULE Sandbox ------------------------------
(***************************************************************************)
(* Executor.Execute (internal/executor): one submission in one container.  *)
(* Five parties act: the goroutine that drives the Docker daemon, the      *)
(* goroutine that copies the output stream, the one that feeds stdin, the  *)
(* shell script that is PID 1 of the container, and the clock.             *)
(*                                                                         *)
(* Time is counted in half seconds, so that the whole seconds of `date +%s` *)
(* differ from elapsed time.  Output is counted in units.  The stderr      *)
(* stream is plain text and lines in the form of the marker, laid out as   *)
(*     nonce+" phase=" | phase (2) | digits of rc | cpu, mem |             *)
(*     digits of secs                                                      *)
(* (what the compiler said, behind it, is left out).                       *)
(* The script writes one such line.  The nonce is in the environment it    *)
(* runs the program in, so the program's text may have that form too; and  *)
(* a process that the program leaves behind writes until PID 1 exits, also *)
(* after the script's line.  stdout goes through the same writer and       *)
(* carries no marker; it is left out.                                      *)
(***************************************************************************)
EXTENDS Integers, FiniteSets

CONSTANTS
    RunTimeout,      \* cfg.RunTimeout, in half seconds
    MaxOutputBytes,  \* cfg.MaxOutputBytes, in units
    MaxNoise,        \* bound on the plain text the program writes to stderr
    Faults           \* what may go wrong

SandboxFaults ==
    { "dockerErr",      \* a call to the daemon fails without effect
      "createLostAck",  \* the container is created but the call fails
      "startLostAck",   \* the container starts but the call fails
      "removeErr",      \* the container cannot be removed
      "slowStream",     \* the output stream outlives the container by 15 s
      "setup",          \* the source file cannot be written
      "workdir",        \* the script cannot enter its work directory
      "oom",            \* the kernel kills a process of the container
      "sigkill",        \* the program kills itself with SIGKILL
      "nonceText",      \* the program writes a line in the form of the marker
      "daemonKill" }    \* the container is killed from outside

ASSUME SandboxAssumption ==
    /\ RunTimeout \in Nat \ {0}
    /\ MaxOutputBytes \in Nat
    /\ MaxNoise \in Nat
    /\ Faults \subseteq SandboxFaults

VARIABLES
    pc,         \* where Execute is
    ctx,        \* runCtx: the engine budget
    cont,       \* the container
    exitCode,   \* its exit status
    attached,   \* the hijacked connection is open
    copier,     \* the goroutine in StdCopy
    copied,     \* stderr units it has read
    remaining,  \* limitedWriter.remaining for stderr
    errBuf,     \* the positions of the stream that errBuf holds
    feeder,     \* the goroutine that feeds stdin
    script,     \* where PID 1 is
    compiled,   \* the language has a compile step
    written,    \* units on stderr
    noise,      \* those that are plain text
    marks,      \* its lines in the form of the marker, and where they begin
    truth,      \* how the compiler or the program ended
    oomEvent,   \* the kernel killed something in the container
    wall,       \* half seconds from start to exit
    ret,        \* what Execute returns
    outcome     \* the Outcome it returns

execVars   == <<ret, outcome>>
streamVars == <<copier, copied, remaining, errBuf>>
stderrVars == <<written, noise, marks>>
scriptVars == <<script, stderrVars, truth, oomEvent, wall>>
vars == <<pc, ctx, cont, exitCode, attached, feeder, compiled,
          execVars, streamVars, scriptVars>>

NoOutcome == [exit |-> 0, timedOut |-> FALSE, oom |-> FALSE,
              compileError |-> FALSE, found |-> FALSE]
Alive     == {"setup", "compile", "run", "report", "exit"}

Init ==
    /\ pc = "create"
    /\ ctx = "live"
    /\ cont = "none"
    /\ exitCode = 0
    /\ attached = FALSE
    /\ copier = "off" /\ copied = 0 /\ remaining = MaxOutputBytes /\ errBuf = {}
    /\ feeder = "off"
    /\ script = "off"
    /\ compiled \in BOOLEAN
    /\ written = 0 /\ noise = 0 /\ marks = {}
    /\ truth = [phase |-> "none", cause |-> "none", rc |-> 0, elapsed |-> 0]
    /\ oomEvent = FALSE
    /\ wall = 0
    /\ ret = "none"
    /\ outcome = NoOutcome

-----------------------------------------------------------------------------
(* The marker and what the output cap leaves of it.                        *)

Digits(n) == IF n < 10 THEN 1 ELSE IF n < 100 THEN 2 ELSE 3

MarkerUnits(m) == 3 + Digits(m.rc) + 1 + Digits(m.secs)

\* What ParseInt makes of the first k digits of n; nothing parses as 0.
Prefix(n, k) ==
    CASE k <= 0         -> 0
      [] k >= Digits(n) -> n
      [] OTHER          -> n \div (10 ^ (Digits(n) - k))

\* Variant: Index for LastIndex.
FirstMark(found) == CHOOSE m \in found : \A n \in found : m.at <= n.at

\* strings.LastIndex(stderr, nonce+" phase=").
LastMark(found) == CHOOSE m \in found : \A n \in found : n.at <= m.at

\* extractMarker of the first units of the stream.  A phase that is cut short is
\* neither "compile" nor "run"; an empty one is no marker at all.
ExtractMarker(units) ==
    LET found == {m \in marks : m.at < units}
        last  == LastMark(found)
        k     == units - last.at
    IN IF found = {}
       THEN [found |-> FALSE, phase |-> "cut", rc |-> 0, secs |-> 0]
       ELSE [ found |-> k >= 2,
              phase |-> IF k >= 3 THEN last.phase ELSE "cut",
              rc    |-> Prefix(last.rc, k - 3),
              secs  |-> Prefix(last.secs, k - 3 - Digits(last.rc) - 1) ]

\* int(cfg.RunTimeout.Seconds()), in the script's environment and below.
RunSecs == RunTimeout \div 2

\* Variant: > for >=.
RunTimedOutLate(m, oom) == m.rc = 137 /\ ~oom /\ m.secs > RunSecs

RunTimedOut(m, oom) == m.rc = 137 /\ ~oom /\ m.secs >= RunSecs

ReportedExit(m, containerExit) == IF m.found THEN m.rc ELSE containerExit

BuildOutcome(m, containerExit, wallTime, oom) ==
    [ exit         |-> ReportedExit(m, containerExit),
      timedOut     |-> IF m.found
                       THEN \/ m.phase = "compile" /\ m.rc = 137
                            \/ m.phase = "run" /\ RunTimedOut(m, oom)
                       ELSE ~oom /\ wallTime >= RunTimeout,
      oom          |-> oom,
      compileError |-> m.found /\ m.phase = "compile",
      found        |-> m.found ]

-----------------------------------------------------------------------------
(* Execute and runContainer.                                               *)

\* Outcomes of a call to the daemon under runCtx.
DockerOutcomes(lostAck) ==
    (IF ctx = "live" THEN {"ok"} ELSE {"err"})
        \cup (IF "dockerErr" \in Faults THEN {"err"} ELSE {})
        \cup (IF lostAck \in Faults THEN {"lostAck"} ELSE {})

Applied(o) == o \in {"ok", "lostAck"}

\* No id, nothing to remove: Execute returns before the deferred remove.
CreateContainer ==
    /\ pc = "create"
    /\ \E o \in DockerOutcomes("createLostAck") :
          /\ cont' = IF Applied(o) THEN "created" ELSE cont
          /\ pc' = IF o = "ok" THEN "attach" ELSE "done"
          /\ ret' = IF o = "ok" THEN ret ELSE "err"
    /\ UNCHANGED <<ctx, exitCode, attached, feeder, compiled, outcome, streamVars, scriptVars>>

\* Variant: the wait is registered before the container is started.
WaitFirst ==
    /\ pc = "attach"
    /\ pc' = "wait"
    /\ attached' = TRUE
    /\ UNCHANGED <<ctx, cont, exitCode, feeder, compiled, execVars, streamVars, scriptVars>>

Attach ==
    /\ pc = "attach"
    /\ \E o \in DockerOutcomes("none") :
          /\ pc' = IF o = "ok" THEN "start" ELSE "remove"
          /\ attached' = (o = "ok")
          /\ ret' = IF o = "ok" THEN ret ELSE "err"
    /\ UNCHANGED <<ctx, cont, exitCode, feeder, compiled, outcome, streamVars, scriptVars>>

\* Variant: the connection is left open.
LeaveAttached(result) ==
    /\ pc' = "remove"
    /\ ret' = result
    /\ UNCHANGED attached

\* runContainer returns: the deferred att.Close runs before the remove.
Leave(result) ==
    /\ pc' = "remove"
    /\ attached' = FALSE
    /\ ret' = result

\* ContainerStart, and the two goroutines spawned once it has succeeded.
Start ==
    /\ pc = "start"
    /\ \E o \in DockerOutcomes("startLostAck") :
          /\ cont' = IF Applied(o) THEN "running" ELSE cont
          /\ script' = IF Applied(o) THEN "setup" ELSE script
          /\ IF o = "ok"
             THEN /\ pc' = "wait"
                  /\ copier' = "copying"
                  /\ feeder' = "feeding"
                  /\ UNCHANGED <<attached, ret>>
             ELSE Leave("err") /\ UNCHANGED <<copier, feeder>>
    /\ UNCHANGED <<ctx, exitCode, compiled, outcome, copied, remaining, errBuf,
                   stderrVars, truth, oomEvent, wall>>

\* WaitConditionNotRunning: answered as soon as the container is not running.
WaitExited ==
    /\ pc = "wait"
    /\ cont # "running"
    /\ pc' = "collect"
    /\ UNCHANGED <<ctx, cont, exitCode, attached, feeder, compiled, execVars, streamVars, scriptVars>>

\* The error channel: the daemon failed, or the wait noticed the budget first.
WaitFailed ==
    /\ pc = "wait"
    /\ ctx = "done" \/ "dockerErr" \in Faults
    /\ Leave("err")
    /\ UNCHANGED <<ctx, cont, exitCode, feeder, compiled, outcome, streamVars, scriptVars>>

\* ctx.Done: SIGKILL under a context of its own, whose failure is only logged.
WaitKill ==
    /\ pc = "wait"
    /\ ctx = "done"
    /\ \E killed \in {TRUE} \cup (IF "dockerErr" \in Faults THEN {FALSE} ELSE {}) :
          IF killed /\ cont = "running"
          THEN cont' = "exited" /\ exitCode' = 137 /\ script' = "gone"
          ELSE UNCHANGED <<cont, exitCode, script>>
    /\ Leave("err")
    /\ UNCHANGED <<ctx, feeder, compiled, outcome, streamVars, stderrVars, truth, oomEvent, wall>>

\* The stream has ended, or 15 seconds have passed.
Collect ==
    /\ pc = "collect"
    /\ copier = "ended" \/ "slowStream" \in Faults
    /\ pc' = "inspect"
    /\ UNCHANGED <<ctx, cont, exitCode, attached, feeder, compiled, execVars, streamVars, scriptVars>>

\* While StdCopy still writes, reading errBuf is a race: any prefix is seen.
InspectAndBuild ==
    /\ pc = "inspect"
    /\ \E o \in DockerOutcomes("none"),
          units \in IF copier = "ended" THEN {Cardinality(errBuf)}
                                        ELSE 0 .. Cardinality(errBuf) :
          outcome' = BuildOutcome(ExtractMarker(units), exitCode, wall,
                                  o = "ok" /\ oomEvent)
    /\ Leave("outcome")
    /\ UNCHANGED <<ctx, cont, exitCode, feeder, compiled, streamVars, scriptVars>>

\* Variant: the container is removed under runCtx.
RemoveUnderBudget ==
    /\ pc = "remove"
    /\ pc' = "done"
    /\ IF ctx = "live" THEN cont' = "removed" /\ script' = "gone"
                       ELSE UNCHANGED <<cont, script>>
    /\ UNCHANGED <<ctx, exitCode, attached, feeder, compiled, execVars, streamVars,
                   stderrVars, truth, oomEvent, wall>>

\* Forced, and under a context of its own.
Remove ==
    /\ pc = "remove"
    /\ pc' = "done"
    /\ \/ cont' = "removed" /\ script' = "gone"
       \/ "removeErr" \in Faults /\ UNCHANGED <<cont, script>>
    /\ UNCHANGED <<ctx, exitCode, attached, feeder, compiled, execVars, streamVars,
                   stderrVars, truth, oomEvent, wall>>

\* The budget of Execute, or the caller's own context, runs out.
Budget ==
    /\ ctx = "live"
    /\ pc # "done"
    /\ ctx' = "done"
    /\ UNCHANGED <<pc, cont, exitCode, attached, feeder, compiled, execVars, streamVars, scriptVars>>

-----------------------------------------------------------------------------
(* The goroutines that move bytes.                                         *)

\* Variant: a write that does not fit is dropped whole.
WriteWhole(first, n) ==
    IF n > remaining
    THEN UNCHANGED <<errBuf, remaining>>
    ELSE /\ errBuf' = errBuf \cup (first .. first + n - 1)
         /\ remaining' = remaining - n

\* Variant: the chunk is not cut to what remains.
WriteUncut(first, n) ==
    /\ errBuf' = IF remaining <= 0 THEN errBuf ELSE errBuf \cup (first .. first + n - 1)
    /\ remaining' = IF remaining <= 0 THEN remaining ELSE remaining - n

\* limitedWriter.Write of n units that start at position first of the stream.
Write(first, n) ==
    LET kept == IF n > remaining THEN remaining ELSE n IN
    /\ errBuf' = errBuf \cup (first .. first + kept - 1)
    /\ remaining' = remaining - kept

CopyChunk ==
    /\ copier = "copying"
    /\ attached
    /\ \E n \in 1 .. (written - copied) :
          /\ Write(copied + 1, n)
          /\ copied' = copied + n
    /\ UNCHANGED <<pc, ctx, cont, exitCode, attached, feeder, compiled, copier, execVars, scriptVars>>

\* The stream ends with the container; att.Close ends it at once.
CopyEnds ==
    /\ copier = "copying"
    /\ ~attached \/ (cont # "running" /\ copied = written)
    /\ copier' = "ended"
    /\ UNCHANGED <<pc, ctx, cont, exitCode, attached, feeder, compiled, copied, remaining, errBuf,
                   execVars, scriptVars>>

\* A program that does not read its stdin blocks the feeder on a full pipe.
FeedEnds ==
    /\ feeder = "feeding"
    /\ script = "run" \/ cont # "running" \/ ~attached
    /\ feeder' = "ended"
    /\ UNCHANGED <<pc, ctx, cont, exitCode, attached, compiled, execVars, streamVars, scriptVars>>

-----------------------------------------------------------------------------
(* sandboxScript, as PID 1.                                                *)

ScriptFrame == UNCHANGED <<pc, ctx, attached, feeder, compiled, execVars, streamVars>>

Ends(phase, cause, rc, elapsed) ==
    truth' = [phase |-> phase, cause |-> cause, rc |-> rc, elapsed |-> elapsed]

\* What is written to stderr goes behind what is there.
WritePlain ==
    /\ written' = written + 1
    /\ noise' = noise + 1
    /\ UNCHANGED marks

WriteMark(by, phase, rc, secs) ==
    LET m == [by |-> by, at |-> written, phase |-> phase, rc |-> rc, secs |-> secs] IN
    /\ marks' = marks \cup {m}
    /\ written' = written + MarkerUnits(m)
    /\ UNCHANGED noise

\* cd, the base64 decode, and the choice of the first phase.
Setup ==
    /\ script = "setup"
    /\ \/ /\ script' = IF compiled THEN "compile" ELSE "run"
          /\ UNCHANGED <<truth, stderrVars, cont>>
       \/ /\ "setup" \in Faults
          /\ Ends("setup", "exit", 70, 0)
          /\ WritePlain
          /\ script' = "report"
          /\ UNCHANGED cont
       \/ /\ "workdir" \in Faults
          /\ Ends("workdir", "exit", 0, 0)
          /\ WritePlain
          /\ script' = "gone"
          /\ cont' = "exited"
    /\ UNCHANGED <<exitCode, oomEvent, wall>> /\ ScriptFrame

\* The compile step under its own timeout, which no clock is compared with.
CompileEnds ==
    /\ script = "compile"
    /\ wall' \in {0, RunTimeout}
    /\ \/ /\ script' = "run"
          /\ UNCHANGED <<truth, oomEvent>>
       \/ /\ script' = "report"
          /\ \/ Ends("compile", "exit", 1, 0) /\ UNCHANGED oomEvent
             \/ Ends("compile", "timeout", 137, 0) /\ UNCHANGED oomEvent
             \/ /\ "oom" \in Faults
                /\ Ends("compile", "oom", 137, 0)
                /\ oomEvent' = TRUE
    /\ UNCHANGED <<cont, exitCode, stderrVars>> /\ ScriptFrame

\* The program, or from its end to that of PID 1 a process it has left behind.
ProgramWrites == script = "run" \/ (script \in {"report", "exit"} /\ truth.phase = "run")

WriteStderr ==
    /\ ProgramWrites
    /\ noise < MaxNoise
    /\ WritePlain
    /\ UNCHANGED <<cont, exitCode, script, truth, oomEvent, wall>> /\ ScriptFrame

\* A line of the program's own that begins with its nonce and says something else
\* than what happens.  A bound: one of them.
WriteNonce ==
    /\ "nonceText" \in Faults
    /\ ProgramWrites
    /\ \A m \in marks : m.by = "script"
    /\ WriteMark("program", "compile", 2, 0)
    /\ UNCHANGED <<cont, exitCode, script, truth, oomEvent, wall>> /\ ScriptFrame

\* How long a program may run, in half seconds: `timeout 0` sets no limit.
RunTimes == 0 .. (IF RunSecs > 0 THEN 2 * RunSecs ELSE RunTimeout)

\* The program exits, or is killed by `timeout`, by the kernel or by itself.
RunEnds ==
    /\ script = "run"
    /\ \/ /\ \E rc \in {0, 1}, e \in RunTimes : Ends("run", "exit", rc, e)
          /\ UNCHANGED oomEvent
       \/ /\ RunSecs > 0
          /\ \E e \in 2 * RunSecs .. 2 * RunSecs + 1 : Ends("run", "timeout", 137, e)
          /\ UNCHANGED oomEvent
       \/ /\ "sigkill" \in Faults
          /\ \E e \in RunTimes : Ends("run", "sigkill", 137, e)
          /\ UNCHANGED oomEvent
       \/ /\ "oom" \in Faults
          /\ \E e \in RunTimes : Ends("run", "oom", 137, e)
          /\ oomEvent' = TRUE
    /\ script' = "report"
    /\ wall' = wall + truth'.elapsed
    /\ UNCHANGED <<cont, exitCode, stderrVars>> /\ ScriptFrame

\* The kernel kills a child of the program, which carries on.
ChildKilled ==
    /\ "oom" \in Faults
    /\ script = "run"
    /\ ~oomEvent
    /\ oomEvent' = TRUE
    /\ UNCHANGED <<cont, exitCode, script, stderrVars, truth, wall>> /\ ScriptFrame

\* emit, one write.  secs is the difference of two readings of `date +%s`, the
\* first of them taken at the beginning or in the middle of a second.
Report ==
    /\ script = "report"
    /\ \E t0 \in {0, 1} :
          WriteMark("script", truth.phase, truth.rc, (t0 + truth.elapsed) \div 2)
    /\ script' = "exit"
    /\ UNCHANGED <<cont, exitCode, truth, oomEvent, wall>> /\ ScriptFrame

\* exit 0: whatever else is in the container is killed with PID 1.
ExitScript ==
    /\ script = "exit"
    /\ script' = "gone"
    /\ cont' = "exited"
    /\ UNCHANGED <<exitCode, stderrVars, truth, oomEvent, wall>> /\ ScriptFrame

\* PID 1 itself is killed, by the daemon or by the kernel.
ContainerKilled ==
    /\ "daemonKill" \in Faults
    /\ script \in Alive
    /\ \E e \in {0, RunTimeout} : Ends("killed", "outside", 137, e) /\ wall' = wall + e
    /\ oomEvent' \in {oomEvent} \cup (IF "oom" \in Faults THEN {TRUE} ELSE {})
    /\ script' = "gone"
    /\ cont' = "exited"
    /\ exitCode' = 137
    /\ UNCHANGED stderrVars /\ ScriptFrame

-----------------------------------------------------------------------------
ExecStep ==
    \/ CreateContainer \/ Attach \/ Start \/ WaitExited \/ WaitFailed \/ WaitKill
    \/ Collect \/ InspectAndBuild \/ Remove

ScriptStep ==
    \/ Setup \/ CompileEnds \/ WriteStderr \/ WriteNonce \/ RunEnds \/ ChildKilled
    \/ Report \/ ExitScript \/ ContainerKilled

\* Execute has returned and left no goroutine behind.
Quiet == pc = "done" /\ copier # "copying" /\ feeder # "feeding"

Next ==
    \/ ExecStep
    \/ Budget
    \/ CopyChunk \/ CopyEnds \/ FeedEnds
    \/ ScriptStep
    \/ Quiet /\ UNCHANGED vars

Spec == Init /\ [][Next]_vars

(* The worker's goroutines run, its calls to the daemon are bounded by     *)
(* contexts, and its clock advances.  Nothing is assumed of the container: *)
(* the program may never end.                                              *)
FairSpec ==
    /\ Spec
    /\ WF_vars(ExecStep) /\ WF_vars(Budget)
    /\ WF_vars(CopyEnds) /\ WF_vars(CopyChunk) /\ WF_vars(FeedEnds)

-----------------------------------------------------------------------------
TypeOK ==
    /\ pc \in {"create", "attach", "start", "wait", "collect", "inspect", "remove", "done"}
    /\ ctx \in {"live", "done"}
    /\ cont \in {"none", "created", "running", "exited", "removed"}
    /\ exitCode \in {0, 137}
    /\ attached \in BOOLEAN
    /\ copier \in {"off", "copying", "ended"}
    /\ copied \in 0 .. written
    /\ remaining \in 0 .. MaxOutputBytes
    /\ errBuf \subseteq 1 .. written
    /\ feeder \in {"off", "feeding", "ended"}
    /\ script \in Alive \cup {"off", "gone"}
    /\ compiled \in BOOLEAN
    /\ written \in Nat /\ noise \in 0 .. MaxNoise + 1
    /\ ret \in {"none", "err", "outcome"}

(* Truncated instead of failing (executor.go:448): whatever the chunks the *)
(* stream arrives in, the buffer holds its first MaxOutputBytes, no holes. *)
KeepsAPrefix ==
    errBuf = 1 .. (IF copied > MaxOutputBytes THEN MaxOutputBytes ELSE copied)

(* An outcome is never that of a container that has not run                *)
(* (executor.go:214).                                                      *)
OutcomeIsOfARun ==
    pc \in {"collect", "inspect"} \/ ret = "outcome" =>
        cont \in {"exited", "removed"} /\ truth.phase # "none"

(* Every submission's container is destroyed when Execute returns, even    *)
(* when its context is what was cancelled (executor.go:430, README.md:148). *)
Destroyed == pc = "done" => cont \in {"none", "removed"}

\* The script has the last word: no line of the program's own in the form of the
\* marker comes after the script's.
ScriptHasLastWord ==
    \A m \in marks : m.by = "program" =>
        \E n \in marks : n.by = "script" /\ m.at < n.at

(* The last marker is the one that counts (executor.go:332): whatever the  *)
(* program and what it left behind write around the script's line, and     *)
(* even if they write lines of the same form before it, exit status and    *)
(* phase are those of the compiler or the program, never the script's own  *)
(* 0 (script.go:15).  A line of that form after the script's would be      *)
(* believed.                                                               *)
ExitIsThePrograms ==
    ret = "outcome" /\ ScriptHasLastWord =>
        /\ outcome.found
        /\ outcome.exit = truth.rc
        /\ outcome.compileError <=> truth.phase = "compile"

(* timed_out is right to the second (executor.go:311): a program that      *)
(* `timeout` killed is reported, unless the kernel killed something too,   *)
(* and one that is reported was killed by `timeout`, or by SIGKILL within  *)
(* the last second of its time.  Again if the script has the last word.    *)
TimedOutIsRight ==
    ret = "outcome" /\ truth.phase = "run" /\ ScriptHasLastWord =>
        /\ truth.cause = "timeout" /\ ~oomEvent => outcome.timedOut
        /\ outcome.timedOut =>
              truth.cause = "timeout" \/ (truth.rc = 137 /\ truth.elapsed > 2 * RunSecs - 2)

(* A missing marker unambiguously means that the container was killed      *)
(* (script.go:15).                                                         *)
MissingMarkerMeansKilled ==
    ret = "outcome" /\ ~outcome.found => truth.phase = "killed"

(* A wedged container does not pin a worker (executor.go:110): Execute     *)
(* returns and leaves no goroutine behind, whatever the program does.      *)
ExecuteReturns == <>[]Quiet
=============================================================================
