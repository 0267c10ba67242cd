------------------------- MODULE MCWebhookDelivery --------------------------
(***************************************************************************)
(* A small instance of WebhookDelivery for TLC.  Liveness is checked with  *)
(* the invariants, so no symmetry is used.                                 *)
(***************************************************************************)
EXTENDS WebhookDelivery

=============================================================================
