----------------------------- MODULE MCSandbox -----------------------------
(***************************************************************************)
(* Small instances of Sandbox for TLC.                                     *)
(***************************************************************************)
EXTENDS Sandbox

\* Everything that can fail.  To what is checked with it a line in the form of
\* the marker is text like any other.
AllSandboxFaults == SandboxFaults \ {"nonceText"}

\* The stream arrives whole and the daemon does what it acknowledges.
IntactFaults == {"dockerErr", "startLostAck", "setup", "oom", "sigkill", "nonceText"}

\* Nothing goes wrong: only what the program does varies.
NoFaults == {}
=============================================================================
