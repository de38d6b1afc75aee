------------------------------- MODULE Offers -------------------------------
(***************************************************************************)
(* The offer one message of a session makes, and PolicyEngine.evaluate on   *)
(* it: a discount that grows with the rounds, two rules that clamp it and   *)
(* recalculate the offer, the rules that refuse or escalate, and how their  *)
(* answers add up.  The decision judges the offer as the clamps left it.    *)
(*                                                                         *)
(* One action per message: the engine does no I/O.  Discounts are fractions *)
(* of a hundred where the code computes in floats; the rounding to paise is *)
(* the code's.                                                              *)
(***************************************************************************)
EXTENDS Money, SequencesExt

CONSTANTS
  OfferedProducts,     \* what the search finds: [sku, price, cost]
  OfferQuantities,     \* quantities a message asks for, 1 to 10
  OnHand,              \* available stock of the product
  Texts,               \* what anomaly detection sees of a message
  MaxDiscountPct,      \* MerchantPolicy.max_discount_pct
  SkuDiscountPct,      \* max_discount_pct_per_sku, a function of some skus
  MaxAbsoluteDiscount, \* max_absolute_discount_paise
  MinMarginPct,        \* min_margin_pct
  MaxLineQty,          \* max_qty_per_line
  MaxOrderQty,         \* max_qty_per_order
  MaxRounds,           \* max_negotiation_rounds
  BlockScore,          \* block_on_anomaly_score_gte, in hundredths
  MaxMessages,         \* bound: messages of the session
  NoOffer              \* nothing approved, nothing judged

VARIABLES
  round,        \* the session's negotiation_round
  judged        \* the last decision: what was available, outcome, offer

offerVars == <<round, judged>>

Text == [flagged : BOOLEAN, long : BOOLEAN, manyLines : BOOLEAN]
LineItem == [sku : STRING, quantity : Nat \ {0}, price : Nat, cost : Nat, unit : Nat]
ProposedOffer == [lines : Seq(LineItem), pct : [n : Nat, d : Nat \ {0}], discount : Nat, final : Nat]
GuardrailDecision == [outcome : {"APPROVED", "REJECTED", "ESCALATED"}, available : OnHand,
                      product : OfferedProducts, offer : ProposedOffer \union {NoOffer}]

ASSUME OfferAssumption ==
  /\ OfferedProducts \subseteq [sku : STRING, price : Nat, cost : Nat]
  /\ OfferQuantities \subseteq Nat \ {0} /\ OnHand \subseteq Nat /\ Texts \subseteq Text
  /\ MaxDiscountPct \in 0..100 /\ \A s \in DOMAIN SkuDiscountPct : SkuDiscountPct[s] \in 0..100
  /\ {MaxAbsoluteDiscount, MaxLineQty, MaxOrderQty, MaxRounds, MaxMessages} \subseteq Nat
  /\ MinMarginPct \in 0..99 /\ BlockScore \in 0..100
  /\ NoOffer \notin GuardrailDecision \union ProposedOffer

-----------------------------------------------------------------------------
Sum(amounts) == FoldSeq(LAMBDA x, acc : x + acc, 0, amounts)

Billable(lines) == Sum([i \in DOMAIN lines |-> lines[i].unit * lines[i].quantity])
ListTotal(lines) == Sum([i \in DOMAIN lines |-> lines[i].price * lines[i].quantity])

(* Variant of Recalc: the price is cut again from what was negotiated.      *)
RecalcFromNegotiated(lines, pct) ==
  LET cut == [i \in DOMAIN lines |->
        [lines[i] EXCEPT !.unit = PercentOf([n |-> 100 * pct.d - pct.n, d |-> pct.d], lines[i].unit)]]
  IN [lines |-> cut, pct |-> pct, discount |-> PercentOf(pct, ListTotal(lines)),
      final |-> Billable(cut)]

(* _recalc_offer: every unit price is cut from its list price again, and    *)
(* the discount named is taken of the list total.                           *)
Recalc(lines, pct) ==
  LET cut == [i \in DOMAIN lines |->
        [lines[i] EXCEPT !.unit = PercentOf([n |-> 100 * pct.d - pct.n, d |-> pct.d], lines[i].price)]]
  IN [lines |-> cut, pct |-> pct, discount |-> PercentOf(pct, ListTotal(lines)),
      final |-> Billable(cut)]

(* _suggest_discount. *)
SuggestedPct(asks, rounds) ==
  IF ~asks THEN 5 ELSE IF 10 + 2 * rounds < 15 THEN 10 + 2 * rounds ELSE 15

(* _build_offer.                                                            *)
BuildOffer(product, q, pct) ==
  Recalc(<<[sku |-> product.sku, quantity |-> q, price |-> product.price,
            cost |-> product.cost, unit |-> product.price]>>, pct)

-----------------------------------------------------------------------------
SkuCap(s) == IF s \in DOMAIN SkuDiscountPct THEN SkuDiscountPct[s] ELSE MaxDiscountPct

DiscountCap(lines) == Min({MaxDiscountPct} \union {SkuCap(lines[i].sku) : i \in DOMAIN lines})

(* rule_max_discount. *)
MaxDiscount(offer) ==
  LET cap == Percent(DiscountCap(offer.lines))
  IN IF PercentAtMost(offer.pct, cap) THEN offer ELSE Recalc(offer.lines, cap)

(* rule_max_absolute_discount: the cap as a percentage of the subtotal,     *)
(* which already has the discount off it.                                   *)
MaxAbsolute(offer) ==
  LET cap == IF offer.final = 0 THEN Percent(0)
             ELSE [n |-> 100 * MaxAbsoluteDiscount, d |-> offer.final]
  IN IF offer.discount <= MaxAbsoluteDiscount THEN offer
     ELSE Recalc(offer.lines, IF PercentAtMost(offer.pct, cap) THEN offer.pct ELSE cap)

(* negotiated_unit_price_paise or list_unit_price_paise.                    *)
Unit(l) == IF l.unit # 0 THEN l.unit ELSE l.price

MarginOk(l) == l.cost = 0 \/ 100 * (Unit(l) - l.cost) >= MinMarginPct * Unit(l)

(* A line with a cost and no price divides by zero: the message fails.      *)
MarginComputes(lines) == \A i \in DOMAIN lines : lines[i].cost = 0 \/ Unit(lines[i]) > 0

QuantityOk(lines) ==
  /\ Sum([i \in DOMAIN lines |-> lines[i].quantity]) <= MaxOrderQty
  /\ \A i \in DOMAIN lines : lines[i].quantity <= MaxLineQty

PriceSane(offer) == offer.final > 0 /\ \A i \in DOMAIN offer.lines : Unit(offer.lines[i]) > 0

(* anomaly_score, in hundredths.                                            *)
Anomaly(text) ==
  (IF text.flagged THEN 60 ELSE 0) + (IF text.long THEN 20 ELSE 0)
    + (IF text.manyLines THEN 15 ELSE 0)

(* The rules whose action is REJECT.                                        *)
Rejects(offer, text, available) ==
  \/ text.flagged
  \/ \E i \in DOMAIN offer.lines : ~MarginOk(offer.lines[i])
  \/ ~QuantityOk(offer.lines) \/ ~PriceSane(offer)
  \/ \E i \in DOMAIN offer.lines : offer.lines[i].quantity > available

(* _aggregate: any escalation wins, then any rejection.                     *)
Aggregate(offer, text, available, rounds) ==
  IF Anomaly(text) >= BlockScore \/ rounds >= MaxRounds THEN "ESCALATED"
  ELSE IF Rejects(offer, text, available) THEN "REJECTED"
  ELSE "APPROVED"

-----------------------------------------------------------------------------
OffersInit == round = 0 /\ judged = NoOffer

Negotiate(product, q, asks, available, text) ==
  LET proposed == BuildOffer(product, q, Percent(SuggestedPct(asks, round)))
      working == MaxAbsolute(MaxDiscount(proposed))
      outcome == Aggregate(working, text, available, round)
  IN /\ round < MaxMessages
     /\ MarginComputes(working.lines)
     /\ round' = round + 1
     /\ judged' = [outcome |-> outcome, available |-> available, product |-> product,
                   offer |-> IF outcome = "APPROVED" THEN working ELSE NoOffer]

OffersNext ==
  \E p \in OfferedProducts, q \in OfferQuantities, asks \in BOOLEAN, n \in OnHand, t \in Texts :
    Negotiate(p, q, asks, n, t)

OffersSpec == OffersInit /\ [][OffersNext]_offerVars

-----------------------------------------------------------------------------
OffersTypeOK ==
  /\ round \in 0..MaxMessages
  /\ judged \in GuardrailDecision \union {NoOffer}
  /\ judged # NoOffer =>
       IF judged.outcome = "APPROVED" THEN judged.offer # NoOffer
                                           /\ PercentAtMost(judged.offer.pct, Percent(100))
       ELSE judged.offer = NoOffer

Approved == judged # NoOffer /\ judged.outcome = "APPROVED"

(* The engine "judges a negotiated offer: discounts, margin, inventory",    *)
(* with "no float drift on final amount": however the clamps moved it, what *)
(* was approved keeps the margin floor and the percent cap of its sku, is   *)
(* for units on hand, costs what its lines cost, and names the discount its *)
(* prices give, to the paise a unit rounds.                                 *)
ApprovedKeepsTheLimits ==
  Approved =>
    LET offer == judged.offer
        l == offer.lines[1]
    IN /\ Len(offer.lines) = 1 /\ l.price = judged.product.price
       /\ PercentAtMost(offer.pct, Percent(SkuCap(l.sku)))
       /\ l.cost > 0 => 100 * (l.unit - l.cost) >= MinMarginPct * l.unit
       /\ l.quantity <= judged.available
       /\ offer.final = l.unit * l.quantity /\ offer.final > 0
       /\ Distance(offer.discount, ListTotal(offer.lines) - offer.final) <= l.quantity

(* "max_absolute_discount_paise: int = 50_000  # Rs 500", with on failure   *)
(* CLAMP: an approved discount is within the absolute cap.                  *)
DiscountWithinAbsoluteCap == Approved => judged.offer.discount <= MaxAbsoluteDiscount
=============================================================================
