------------------------ MODULE MCExecutionPipeline ------------------------
(***************************************************************************)
(* Small instances of ExecutionPipeline for TLC.                           *)
(***************************************************************************)
EXTENDS ExecutionPipeline, TLC

\* Every fault the environment has.
AllFaults == FaultKinds

\* Writes do what they report: no enqueue or statement takes effect behind an
\* error of Redis or after a cancellation, and Postgres answers.
OrderedFaults == FaultKinds \ {"enqueueLostAck", "lateWrite", "dbErr"}

\* Single faults, each enough to show one disagreement with the documentation.
ClientGoesAway == {"disconnect"}
OutputIsNoText == {"badText"}

Symmetry == Permutations(Subs) \cup Permutations(Handlers)
=============================================================================
