----------------------------- MODULE MCPlatform -----------------------------
(* The parts of the platform that share no state with each other, checked   *)
(* together: a behaviour belongs to one part, chosen at its start, and      *)
(* leaves the others as they began.  Catalogue, carts, suggestions and the  *)
(* agent's run do share the catalogue and the carts.                        *)
EXTENDS Opportunities, AgentRun, Offers, MoneyActions, SignIn, Access, RateLimiter,
        AuditChain, LegacyGate, Discounts, TenantStore

CONSTANTS Parts, Hoodie, Tee, keen, rival, c1, root, sam, eve, bot, t1, i1, row1, row2, d1, d2, d3

VARIABLE part

shopVars == <<catalogVars, cartVars, stored, agentVars>>
gateVars == <<offerVars, answered, legacyVars, discountVars>>
edgeVars == <<signInVars, accessVars, limiterVars, auditVars, tenantVars>>

(* What the other parts see of the shop: nothing is listed, no cart is open. *)
NoShop ==
  /\ products = <<>> /\ edits = 0 /\ listed = {}
  /\ cart = [c \in CartIds |-> None] /\ orders = <<>>
  /\ stored = [i \in {} |-> {}]

PlatformInit ==
  /\ part \in Parts
  /\ IF part \in {"shop", "agent"} THEN OpportunitiesInit ELSE NoShop
  /\ AgentInit
  /\ OffersInit /\ ActionsInit /\ LegacyInit /\ DiscountsInit
  /\ SignInInit /\ AccessInit /\ LimiterInit /\ AuditInit /\ TenantInit

ShopNext ==
  \/ part = "shop" /\ OpportunitiesNext /\ UNCHANGED agentVars
  \/ part = "agent" /\ AgentNext /\ UNCHANGED stored

GateNext ==
  \/ part = "offers" /\ OffersNext /\ UNCHANGED <<answered, legacyVars, discountVars>>
  \/ part = "actions" /\ ActionsNext /\ UNCHANGED <<offerVars, legacyVars, discountVars>>
  \/ part = "legacy" /\ LegacyNext /\ UNCHANGED <<offerVars, answered, discountVars>>
  \/ part = "discounts" /\ DiscountsNext /\ UNCHANGED <<offerVars, answered, legacyVars>>

EdgeNext ==
  \/ part = "signin" /\ SignInNext /\ UNCHANGED <<accessVars, limiterVars, auditVars, tenantVars>>
  \/ part = "access" /\ AccessNext /\ UNCHANGED <<signInVars, limiterVars, auditVars, tenantVars>>
  \/ part = "limiter" /\ LimiterNext /\ UNCHANGED <<signInVars, accessVars, auditVars, tenantVars>>
  \/ part = "audit" /\ AuditNext /\ UNCHANGED <<signInVars, accessVars, limiterVars, tenantVars>>
  \/ part = "sql" /\ TenantNext /\ UNCHANGED <<signInVars, accessVars, limiterVars, auditVars>>

PlatformNext ==
  /\ UNCHANGED part
  /\ \/ ShopNext /\ UNCHANGED <<gateVars, edgeVars>>
     \/ GateNext /\ UNCHANGED <<shopVars, edgeVars>>
     \/ EdgeNext /\ UNCHANGED <<shopVars, gateVars>>

PlatformSpec == PlatformInit /\ [][PlatformNext]_<<part, shopVars, gateVars, edgeVars>>

-----------------------------------------------------------------------------
(* Shop: three skus of two families; the rival lists one of them at its own *)
(* price, and sku 2 was retired and listed again.                           *)
Row(m, s, price, active) ==
  [merchant |-> m, sku |-> s, price |-> price, stock |-> 1, active |-> active,
   family |-> None]

ShopFamilies == [s \in Skus |-> IF s = 3 THEN Tee ELSE Hoodie]

ShopSeed == <<Row(rival, 1, 4, TRUE), Row(keen, 1, 12, TRUE), Row(keen, 2, 4, FALSE),
              Row(keen, 3, 4, TRUE), Row(keen, 2, 4, TRUE)>>

AllHints == {[kind : Kinds, sku : Skus]}

(* Offers: a cheap and a dear product, with and without a cost, one with no *)
(* price; sku "t" has a cap of its own.                                     *)
Shelf ==
  {[sku |-> "h", price |-> 1000, cost |-> c] : c \in {0, 700}}
    \union {[sku |-> "t", price |-> 7, cost |-> 5]}
    \union {[sku |-> "t", price |-> 0, cost |-> c] : c \in {0, 1}}

SkuCaps == [s \in {"t"} |-> 12]

MessageTexts ==
  {[flagged |-> f, long |-> l, manyLines |-> f] : f \in BOOLEAN, l \in BOOLEAN}

(* Money actions: the three kinds with different actors and ceilings.       *)
Matrix ==
  [k \in {"payment", "refund", "payout"} |->
     IF k = "payout" THEN {"admin"}
     ELSE {"service", "manager", "admin"} \union IF k = "payment" THEN {"shopper"} ELSE {}]

Ceilings == [k \in DOMAIN Matrix |-> IF k = "payout" THEN 40 ELSE 20]

Reviews == [k \in {"payment", "refund"} |-> IF k = "payment" THEN 4 ELSE 1]

(* Legacy gate: one session, guarded twice. *)
OnePrefix == [s \in {"s1"} |-> "s"]

(* Discounts: two policies of one product, and one that is not active.      *)
DiscountRules ==
  [p \in {d1, d2, d3} |-> [merchant |-> keen, product |-> Hoodie, max |-> 15, budget |-> 30,
                           blocked |-> {15, 20}, active |-> p # d3]]

DiscountTiers == [p \in {d1, d2, d3} |-> [u \in {"vip"} |-> 25]]

DiscountsAsked == {-5, 0, 5, 20, 25}

(* Access: an administrator and a shopper of one merchant, and an           *)
(* administrator of another.                                                *)
People ==
  {[user |-> root, merchant |-> keen, role |-> "admin"],
   [user |-> sam, merchant |-> keen, role |-> "shopper"],
   [user |-> eve, merchant |-> rival, role |-> "admin"]}

SomeScopes == {{"catalog:read"}, {"session:read:own", "catalog:read"}, {"authorization:approve"}}

SomeSessions == [merchant : {keen, rival}, owner : {sam, bot}]

(* Rate limits: sign-in and the other auth routes by address, and a         *)
(* merchant on the rest.                                                    *)
SomeRequests ==
  {[path |-> "login", tenant |-> t1, merchant |-> Absent, ip |-> i1],
   [path |-> "auth", tenant |-> t1, merchant |-> Absent, ip |-> i1],
   [path |-> "general", tenant |-> Absent, merchant |-> t1, ip |-> i1]}

Rates == [l \in {"login", "auth", "general"} |-> IF l = "login" THEN 1 ELSE 2]

(* SQL layer: a campaign of one tenant and a product of the other. *)
StartRows ==
  [r \in {row1, row2} |->
     IF r = row1 THEN [NewRow(keen) EXCEPT !.cap = 3] ELSE [NewRow(rival) EXCEPT !.cap = 2]]
=============================================================================
