-------------------------- MODULE MCSessionCheckout --------------------------
(* Instances of SessionCheckout: how many requests overlap.                 *)
EXTENDS SessionCheckout, TLC

SessionSymmetry == Permutations(Tasks) \union Permutations(Offers) \union Permutations(Keys)
=============================================================================
