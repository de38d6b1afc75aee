------------------------------ MODULE MCOffers ------------------------------
(* An instance of Offers with one dear product and an absolute cap of       *)
(* Rs 500, in rupees.                                                       *)
EXTENDS Offers

Dear == {[sku |-> "h", price |-> 1000, cost |-> 0]}

NoSkuCaps == [s \in {} |-> 0]

PlainTexts == {[flagged |-> FALSE, long |-> FALSE, manyLines |-> FALSE]}
=============================================================================
