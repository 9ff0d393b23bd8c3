-------------------------- MODULE SubmissionStore --------------------------
(***************************************************************************)
(* One row of the Postgres table `submissions` and the statements that     *)
(* internal/db issues against it.  Every UPDATE names the row by id alone: *)
(* no statement tests the status it overwrites, so what keeps a row        *)
(* coherent is the order in which the API and the workers issue them.      *)
(*                                                                         *)
(* Abstraction: `result` stands for the ten result columns that one        *)
(* CompleteSubmission writes together; it is the ordinal of the container  *)
(* run that produced them, 0 for NULL.  `error` is the reason text, "none" *)
(* for NULL.  A timestamp is whether the column is set.                    *)
(***************************************************************************)
EXTENDS Naturals

Status == {"queued", "running", "completed", "failed"}

Errors == {"enqueue", "engine", "unsupported"}

Row == [ status   : Status \cup {"absent"},
         webhook  : BOOLEAN,
         result   : Nat,
         error    : Errors \cup {"none"},
         started  : BOOLEAN,
         finished : BOOLEAN ]

\* No row with this id yet: GetSubmission answers pgx.ErrNoRows.
AbsentRow == [ status |-> "absent", webhook |-> FALSE, result |-> 0,
               error |-> "none", started |-> FALSE, finished |-> FALSE ]

Finished(row) == row.status \in {"completed", "failed"}

-----------------------------------------------------------------------------
\* Column defaults of the migration fill what the INSERT leaves out.
CreateSubmission(webhook) ==
    [ AbsentRow EXCEPT !.status = "queued", !.webhook = webhook ]

\* error and finished_at keep whatever they held.
MarkSubmissionRunning(row) ==
    [ row EXCEPT !.status = "running", !.started = TRUE ]

\* Variant: finished_at is forgotten.
CompleteWithoutFinishedAt(row, result) ==
    [ row EXCEPT !.status = "completed", !.result = result ]

\* error keeps whatever it held.
CompleteSubmission(row, result) ==
    [ row EXCEPT !.status = "completed", !.result = result, !.finished = TRUE ]

\* The result columns keep whatever they held.
FailSubmission(row, error) ==
    [ row EXCEPT !.status = "failed", !.error = error, !.finished = TRUE ]
=============================================================================
