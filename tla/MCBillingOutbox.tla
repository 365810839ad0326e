--------------------------- MODULE MCBillingOutbox --------------------------
(* The instance of BillingOutbox for TLC: its constants come from outbox.cfg. *)
EXTENDS BillingOutbox
=============================================================================
