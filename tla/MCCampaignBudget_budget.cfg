SPECIFICATION FairSpec
CONSTANTS
  o1 = o1
  o2 = o2
  c1 = c1
  Campaigns = {c1}
  Orders = {o1, o2}
  Requests = {r1,r2,r3,r4}
  Budget <- Tight
  CampaignOf <- OneCampaign
  Amount <- TwoOrders
  None = None
INVARIANTS WithinBudget LedgerExplainsCounters OneReservationPerKey
PROPERTIES KeysAreGivenBack
CHECK_DEADLOCK FALSE
