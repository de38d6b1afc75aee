----------------------------- MODULE MCWebhooks -----------------------------
(* The instance of Webhooks: two events about one order, two deliveries and *)
(* a sweeper.                                                               *)
EXTENDS Webhooks
=============================================================================
