SPECIFICATION AgentSpec
CONSTANTS
  keen = keen
  Hoodie = Hoodie
  None = None
  Merchants = {keen}
  Skus = {1}
  Families = {Hoodie}
  FamilyOfSku <- OneFamily
  Prices = {4}
  Stocks = {2}
  MaxPrice = 4
  Seed <- OneProduct
  MaxEdits = 0
  CartIds = {c1, c2}
  Quantities = {1}
  Discounts = {0}
  MaxQuantity = 2
  MaxLines = 2
  MaxTotal = 20
  Attempts = {first, retry}
  Shop = keen
  Budgets = {None}
  Asks = {1}
  RequestCeiling = 0
INVARIANT OneOrderPerRun
CHECK_DEADLOCK FALSE
