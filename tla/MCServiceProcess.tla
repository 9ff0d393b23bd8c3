-------------------------- MODULE MCServiceProcess --------------------------
(***************************************************************************)
(* A small instance of ServiceProcess for TLC.                              *)
(***************************************************************************)
EXTENDS ServiceProcess

\* Whatever can go wrong.
AllProcessFaults == ProcessFaults
=============================================================================
