----------------------------- MODULE Discounts ------------------------------
(***************************************************************************)
(* DiscountPolicyEngine: discounts granted within a merchant's bounds for a *)
(* product, and counted against a daily budget.  Only tests use it.         *)
(*                                                                         *)
(* A discount is measured in the paise it costs at the reference price, so  *)
(* that a budget and a percentage compare as the code compares them.  The   *)
(* weekly budget is never read.                                             *)
(***************************************************************************)
EXTENDS Integers, FiniteSetsExt, SequencesExt

CONSTANTS
  Policies,     \* [merchant, product, max, budget, blocked, active], by id
  Tier,         \* Tier[p]: per_user_type overrides of policy p
  UserTypes,
  Asked,        \* discounts asked for, negative ones too
  Cut,          \* what a blacklisted combination costs: five per cent
  MaxGrants,    \* bound: grants of a policy in a day
  NoPolicy

ASSUME DiscountAssumption ==
  /\ Asked \subseteq Int /\ Cut \in Nat /\ MaxGrants \in Nat
  /\ \A p \in DOMAIN Policies : {Policies[p].max, Policies[p].budget} \subseteq Nat
  /\ DOMAIN Tier = DOMAIN Policies
  /\ \A p \in DOMAIN Tier : \A user \in DOMAIN Tier[p] : Tier[p][user] \in Int

VARIABLES
  registered,   \* ids registered, in that order
  used,         \* _daily_usage
  granted       \* history: granted[p]: what p granted today: [user, asked, amount]

discountVars == <<registered, used, granted>>

-----------------------------------------------------------------------------
DiscountsInit ==
  /\ registered = <<>>
  /\ used = [p \in DOMAIN Policies |-> 0]
  /\ granted = [p \in DOMAIN Policies |-> <<>>]

(* register_policy; an inactive one is refused.                             *)
Register(p) ==
  /\ Policies[p].active
  /\ ~Contains(registered, p)
  /\ registered' = Append(registered, p)
  /\ UNCHANGED <<used, granted>>

(* get_policy: the first one registered for the merchant's product.         *)
GetPolicy(merchant, product) ==
  LET found == {i \in DOMAIN registered : /\ Policies[registered[i]].merchant = merchant
                                          /\ Policies[registered[i]].product = product}
  IN IF found = {} THEN NoPolicy ELSE registered[Min(found)]

(* get_max_discount_for_user: an override may exceed the default.           *)
MaxFor(p, user) == IF user \in DOMAIN Tier[p] THEN Tier[p][user] ELSE Policies[p].max

(* Variant of WithinBudget: looks at what was used, not at what this costs.   *)
WithinBudgetSoFar(p, d) == IF used[p] >= Policies[p].budget THEN 0 ELSE d

(* The part of the discount today's budget still pays for.                  *)
WithinBudget(p, d) == Min({d, Max({0, Policies[p].budget - used[p]})})

(* One cut for a blacklisted combination, looked up once.                   *)
Uncombined(p, d) == IF d \in Policies[p].blocked THEN Max({0, d - Cut}) ELSE d

(* check_discount_request.  With nothing left of the budget it is denied;   *)
(* a discount of nothing is approved and not counted.                       *)
AskDiscount(merchant, product, user, asked) ==
  LET p == GetPolicy(merchant, product)
      wanted == Min({asked, MaxFor(p, user)})
      amount == Uncombined(p, WithinBudget(p, wanted))
  IN /\ asked >= 0 /\ p # NoPolicy
     /\ Len(granted[p]) < MaxGrants
     /\ amount > 0
     /\ used' = [used EXCEPT ![p] = @ + amount]
     /\ granted' = [granted EXCEPT ![p] =
                      Append(@, [user |-> user, asked |-> asked, amount |-> amount])]
     /\ UNCHANGED registered

(* reset_daily_budget, reset_all_daily_budgets.                             *)
ResetDaily(ps) ==
  /\ used' = [p \in DOMAIN used |-> IF p \in ps THEN 0 ELSE used[p]]
  /\ granted' = [p \in DOMAIN granted |-> IF p \in ps THEN <<>> ELSE granted[p]]
  /\ UNCHANGED registered

DiscountsNext ==
  \/ \E p \in DOMAIN Policies : Register(p) \/ ResetDaily({p})
  \/ \E p \in DOMAIN Policies, user \in UserTypes, asked \in Asked :
       AskDiscount(Policies[p].merchant, Policies[p].product, user, asked)
  \/ ResetDaily(DOMAIN Policies)

DiscountsSpec == DiscountsInit /\ [][DiscountsNext]_discountVars

-----------------------------------------------------------------------------
DiscountsTypeOK ==
  /\ registered \in Seq(DOMAIN Policies)
  /\ used \in [DOMAIN Policies -> Nat]
  /\ granted \in [DOMAIN Policies -> Seq([user : UserTypes, asked : Asked, amount : Nat])]

(* What the grants of a day add up to.                                      *)
SpentOn(gs) ==
  LET sum[i \in 0..Len(gs)] == IF i = 0 THEN 0 ELSE sum[i - 1] + gs[i].amount
  IN sum[Len(gs)]

(* However requests, resets and two policies of one product follow each     *)
(* other: what a policy granted today fits its budget, and no request got   *)
(* more than it asked for or more than its tier allows.                     *)
GrantsFitTheDay ==
  \A p \in DOMAIN Policies :
    /\ SpentOn(granted[p]) <= Policies[p].budget
    /\ \A i \in DOMAIN granted[p] :
         LET g == granted[p][i] IN g.amount <= Min({g.asked, MaxFor(p, g.user)})
=============================================================================
