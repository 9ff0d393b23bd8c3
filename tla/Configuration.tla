--------------------------- MODULE Configuration ---------------------------
(***************************************************************************)
(* config.Load (internal/config), and the limits the API and the worker    *)
(* derive from it.                                                         *)
(*                                                                         *)
(* An environment variable is unset, set to something its parser refuses,  *)
(* or set to a value; an unset or unparsable one silently gets the         *)
(* default.  Sizes are in bytes, times in seconds.  Only the settings that *)
(* some limit depends on are kept; addresses and sandbox resource limits   *)
(* are handed on as they are.                                              *)
(***************************************************************************)
EXTENDS Integers

\* A variable as its parser sees it.
Unset   == [set |-> FALSE, parses |-> FALSE, value |-> 0]
Junk    == [set |-> TRUE, parses |-> FALSE, value |-> 0]
Is(n)   == [set |-> TRUE, parses |-> TRUE, value |-> n]

Keys == {"MAX_CODE_BYTES", "MAX_STDIN_BYTES", "PAGE_CAP", "WORKER_CONCURRENCY",
         "COMPILE_TIMEOUT", "RUN_TIMEOUT", "WEBHOOK_ALLOW_PRIVATE"}

Default ==
    [k \in Keys |->
        CASE k = "MAX_CODE_BYTES"        -> 64000
          [] k = "MAX_STDIN_BYTES"       -> 64000
          [] k = "PAGE_CAP"              -> 100
          [] k = "WORKER_CONCURRENCY"    -> 8
          [] k = "COMPILE_TIMEOUT"       -> 20
          [] k = "RUN_TIMEOUT"           -> 10
          [] k = "WEBHOOK_ALLOW_PRIVATE" -> FALSE]

\* env, envInt, envFloat, envBool and envDur.
Lookup(raw, default) == IF raw.set /\ raw.parses THEN raw.value ELSE default

Load(env) == [k \in Keys |-> Lookup(env[k], Default[k])]

\* Variant: the code limit is not checked against what the sandbox can be handed.
LoadsAnyCodeLimit(env) == Load(env)["WORKER_CONCURRENCY"] >= 1

\* Load returns an error for anything else.
Loads(env) ==
    /\ Load(env)["WORKER_CONCURRENCY"] >= 1
    /\ Load(env)["MAX_CODE_BYTES"] <= 90000

-----------------------------------------------------------------------------
\* Variant: no room for the input.
BodyLimitOfCode(cfg) == cfg["MAX_CODE_BYTES"] + 4096

\* What handleCreateSubmission reads of a body at most.
BodyLimit(cfg) == cfg["MAX_CODE_BYTES"] + cfg["MAX_STDIN_BYTES"] + 4096

\* Variant: the slack is the engine's own.
TaskTimeoutTight(cfg) == cfg["COMPILE_TIMEOUT"] + cfg["RUN_TIMEOUT"] + 30

\* asynq.Timeout of an execute task.
TaskTimeout(cfg) == cfg["COMPILE_TIMEOUT"] + cfg["RUN_TIMEOUT"] + 90

\* How long Execute takes once the image is there: its budget, then the wait for
\* the output stream or the kill, then the remove.
EngineBudget(cfg) == cfg["RUN_TIMEOUT"] + cfg["COMPILE_TIMEOUT"] + 30
CopyGrace   == 15
KillLimit   == 10
RemoveLimit == 20
LongestExecution(cfg) ==
    EngineBudget(cfg) + (IF CopyGrace > KillLimit THEN CopyGrace ELSE KillLimit) + RemoveLimit

\* The entry OCEE_CODE_B64=... with its closing NUL, and what Linux allows one.
Base64Length(n) == 4 * ((n + 2) \div 3)
CodeEntry(n)    == 14 + Base64Length(n) + 1
MaxArgStrlen    == 131072

=============================================================================
