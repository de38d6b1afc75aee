----------------------------- MODULE MCAgentRun -----------------------------
(* An instance of AgentRun: a run and its retry against a shop of one       *)
(* product.                                                                 *)
EXTENDS AgentRun

CONSTANTS Hoodie, keen

OneFamily == [s \in Skus |-> Hoodie]

OneProduct == <<[merchant |-> keen, sku |-> 1, price |-> 4, stock |-> 2, active |-> TRUE,
                 family |-> None]>>
=============================================================================
