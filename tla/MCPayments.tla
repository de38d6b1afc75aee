----------------------------- MODULE MCPayments -----------------------------
(* Instances of Payments for TLC.                                           *)
EXTENDS Payments, TLC

\* Every order owes two paise: the smallest amount that can be refunded in part.
OwedTwo == [o \in Orders |-> 2]

PaymentSymmetry == Permutations(Payments)
=============================================================================
