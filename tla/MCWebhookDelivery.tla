------------------------- MODULE MCWebhookDelivery -------------------------
(***************************************************************************)
(* Small instances of WebhookDelivery for TLC.                             *)
(***************************************************************************)
EXTENDS WebhookDelivery

\* The faults the handlers absorb: every accepted submission still finishes.
AbsorbedFaults == {"engine", "enqueueLostAck", "shutdown"}

\* Everything that can happen to a delivery attempt.
AllHookFaults == HookFaultKinds
=============================================================================
