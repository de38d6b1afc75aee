SPECIFICATION PlatformSpec
CONSTANTS
  Parts = {"shop", "agent", "offers", "actions", "legacy", "discounts", "signin", "access", "limiter", "audit", "sql"}
  keen = keen
  rival = rival
  Hoodie = Hoodie
  Tee = Tee
  c1 = c1
  root = root
  sam = sam
  eve = eve
  bot = bot
  t1 = t1
  row1 = row1
  row2 = row2
  i1 = i1
  d1 = d1
  d2 = d2
  d3 = d3
  \* Catalog, Carts, Opportunities, AgentRun
  None = None
  Merchants = {keen, rival}
  Skus = {1, 2, 3}
  Families = {Hoodie, Tee}
  FamilyOfSku <- ShopFamilies
  Prices = {4, 12}
  Stocks = {0, 1}
  MaxPrice = 12
  Seed <- ShopSeed
  MaxEdits = 1
  CartIds = {c1}
  Quantities = {1, 2}
  Discounts = {5}
  MaxQuantity = 1
  MaxLines = 2
  MaxTotal = 15
  HintSets <- AllHints
  Limits = {2}
  AnchorCount = 2
  ScanLimit = 2
  Attempts = {run1}
  Shop = keen
  Budgets = {None, 4}
  Asks = {1}
  RequestCeiling = 10
  \* Offers
  OfferedProducts <- Shelf
  OfferQuantities = {1, 3, 4, 6}
  OnHand = {0, 4, 9}
  Texts <- MessageTexts
  MaxDiscountPct = 15
  SkuDiscountPct <- SkuCaps
  MaxAbsoluteDiscount = 300
  MinMarginPct = 20
  MaxLineQty = 5
  MaxOrderQty = 5
  MaxRounds = 3
  BlockScore = 85
  MaxMessages = 4
  NoOffer = NoOffer
  \* MoneyActions
  ActorMatrix <- Matrix
  Ceiling <- Ceilings
  ReviewAbove <- Reviews
  DailyCap = 60
  ReviewCount = 2
  MaxCount = 4
  AllowedCountries = {"IN"}
  BlockedCountries = {"XX"}
  RefundWindow = 180
  QuorumSize = 2
  Roles = {"manager"}
  Amounts = {0, 1, 3, 6, 9}
  DayTotals = {0, 52}
  HourCounts = {0, 1, 2, 4}
  Ages = {0, 5, 365}
  PriorOrders = {0, 1}
  Countries = {"IN", "SG", "XX"}
  Refunded = {0, 5}
  Captured = 9
  OrderStatuses = {"paid", "pending"}
  PaidDaysAgo = {1, 181}
  Nothing = Nothing
  \* LegacyGate
  CheckoutSessions = {"s1"}
  Prefix <- OnePrefix
  CartShapes = {"a", "b"}
  CartAmounts = {5}
  Injections = {0, 1, 4}
  PerMinute = {1, 30}
  FailedToday = {0, 4}
  GateLife = 1
  MaxGateTime = 2
  MaxCheckouts = 2
  \* Discounts
  Policies <- DiscountRules
  Tier <- DiscountTiers
  UserTypes = {"vip", "new"}
  Asked <- DiscountsAsked
  Cut = 5
  MaxGrants = 3
  NoPolicy = NoPolicy
  \* SignIn
  Users = {sam}
  LockAfter = 2
  LockFor = 2
  RefreshLife = 2
  MaxTime = 5
  MaxTokens = 3
  \* Access
  Accounts <- People
  AgentIds = {bot}
  ScopeSets <- SomeScopes
  Sessions <- SomeSessions
  AskedFor = {"catalog:read", "authorization:approve"}
  TokenLife = 1
  AgentLives = {0, 2}
  MaxAgentLife = 1
  KeyLives = {Never}
  MaxHour = 2
  MaxCreds = 3
  Never = Never
  \* RateLimiter
  Requests <- SomeRequests
  Rate <- Rates
  PerSeconds = 3
  PruneAfter = 3
  MaxClock = 6
  MaxChecks = 5
  Absent = Absent
  \* AuditChain
  Payment = Payment
  ItsOrder = ItsOrder
  Other = Other
  ExportLimit = 2
  MaxEntries = 3
  MaxChanges = 2
  \* TenantStore
  Tenants = {keen, rival}
  NoTenant = NoTenant
  Conns = {1, 2}
  Campaigns = {row1}
  Products = {row2}
  Orders = {o1}
  PaymentIds = {p1}
  SeedRows <- StartRows
  Sums = {2}
  Refs = {pay1}
  MaxOps = 2
  MaxWrites = 2
  NoRow = NoRow
INVARIANTS
  LinesWereOnSale SuggestionWasSellable HintsMoveNothing
  AsksForWhatItOrdered
  ApprovedKeepsTheLimits
  NoEasierForRiskier GuardAgreesWithTheGate
  PaysOnceWhatWasGuarded NoSignalIsDiluted
  GrantsFitTheDay
  GuessesAreSpaced OneGoodTokenPerSignIn
  AccessStaysInBounds
  RateHoldsOverEveryInterval
  KeptHeadPinsHistory HonestHistoryVerifies
  ChangesFormOneChain RequestsChangeTheirOwn
PROPERTIES
  ImplementsSerialStore
CHECK_DEADLOCK FALSE
