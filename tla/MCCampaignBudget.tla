-------------------------- MODULE MCCampaignBudget --------------------------
(* Instances of CampaignBudget: two orders that fit the budget only one at  *)
(* a time, and enough requests to retry each.                               *)
EXTENDS CampaignBudget, TLC

CONSTANTS o1, o2, c1

TwoOrders == o1 :> 2 @@ o2 :> 3
OneCampaign == [o \in Orders |-> c1]
Tight == [c \in Campaigns |-> 4]
=============================================================================
