---------------------------- MODULE MoneyActions ----------------------------
(***************************************************************************)
(* What the gate asks before money moves: the nine rules of                 *)
(* PolicyEngine.evaluate_action, the score of RiskService.assess, how many  *)
(* people must approve, and RefundGuard, which looks at the order before a  *)
(* refund reaches the rules.                                                *)
(*                                                                         *)
(* The two routes do no I/O but read an order: one action per request.      *)
(* Signals and scores are in hundredths.  Module Authorization takes the    *)
(* answer from here: what it calls outcome and band.                        *)
(***************************************************************************)
EXTENDS Integers, FiniteSetsExt

CONSTANTS
  ActorMatrix,     \* ACTOR_MATRIX: kind -> roles that may attempt it
  Ceiling,         \* kind -> the most one action may move
  ReviewAbove,     \* kind -> escalation threshold, for the kinds that have one
  DailyCap,        \* daily_total_cap_paise
  ReviewCount,     \* escalate_actions_per_hour_above
  MaxCount,        \* max_actions_per_hour
  AllowedCountries, BlockedCountries,
  RefundWindow,    \* refund_window_days
  QuorumSize,      \* quorum_approvals
  \* What requests carry.
  Roles, Amounts, DayTotals, HourCounts, Ages, PriorOrders, Countries, Refunded,
  Captured,        \* what every order of the instance captured
  OrderStatuses, PaidDaysAgo,
  Nothing          \* no timestamp, no request yet

ActionKinds == DOMAIN ActorMatrix

ASSUME ActionAssumption ==
  /\ DOMAIN Ceiling = ActionKinds /\ DOMAIN ReviewAbove \subseteq ActionKinds /\ "refund" \in DOMAIN ReviewAbove
  /\ \A k \in ActionKinds : Ceiling[k] \in Nat
  /\ \A k \in DOMAIN ReviewAbove : ReviewAbove[k] \in Nat
  /\ {DailyCap, ReviewCount, MaxCount, RefundWindow, QuorumSize, Captured} \subseteq Nat
  /\ Amounts \union DayTotals \union HourCounts \union Ages \union PriorOrders \union Refunded
       \subseteq Nat

VARIABLE answered \* the last request, with what was answered

FinancialAction ==
  [kind : ActionKinds, role : Roles, amount : Amounts, today : DayTotals, count : HourCounts,
   captured : {0, Captured}, refunded : Refunded, age : Ages, orders : PriorOrders,
   buyer : Countries, ip : Countries]

-----------------------------------------------------------------------------
(* ACTION_RULES: the conditions on which a rule denies, and escalates.      *)
Denied(a) ==
  \/ a.amount <= 0
  \/ a.role \notin ActorMatrix[a.kind]
  \/ a.amount > Ceiling[a.kind]
  \/ a.kind = "refund" /\ (a.captured - a.refunded <= 0 \/ a.amount > a.captured - a.refunded)
  \/ a.today + a.amount > DailyCap
  \/ a.count >= MaxCount
  \/ a.buyer \in BlockedCountries

Escalated(a) ==
  \/ a.kind \in DOMAIN ReviewAbove /\ a.amount > ReviewAbove[a.kind]
  \/ a.count >= ReviewCount
  \/ AllowedCountries # {} /\ a.buyer \notin AllowedCountries

(* _aggregate_action: deny beats escalate beats allow.                      *)
Outcome(a) == IF Denied(a) THEN "deny" ELSE IF Escalated(a) THEN "escalate" ELSE "allow"

-----------------------------------------------------------------------------
(* _reference_amount. *)
Reference(k) == Max({1, IF k \in DOMAIN ReviewAbove THEN ReviewAbove[k] ELSE Ceiling[k]})

ScoreAmount(a) ==
  LET ref == Reference(a.kind)
  IN CASE 2 * a.amount <= ref -> 0
       [] ref < 2 * a.amount /\ a.amount <= ref -> 20
       [] ref < a.amount /\ a.amount <= 2 * ref -> 45
       [] 2 * ref < a.amount /\ a.amount <= 4 * ref -> 70
       [] OTHER -> 90

ScoreGeography(a) ==
  IF {a.buyer, a.ip} \intersect BlockedCountries # {} THEN 100
  ELSE IF a.buyer # a.ip THEN 60
  ELSE IF AllowedCountries # {} /\ a.buyer \notin AllowedCountries THEN 50
  ELSE 0

ScoreNewBuyer(a) ==
  IF a.age = 0 /\ a.orders = 0 THEN 80
  ELSE IF a.age < 7 /\ a.orders = 0 THEN 50
  ELSE IF a.age < 30 /\ a.orders < 2 THEN 30
  ELSE 0

ScoreVelocity(a) ==
  LET escalateAt == Max({1, ReviewCount})
      hardAt == Max({escalateAt + 1, MaxCount})
  IN CASE 2 * a.count < escalateAt -> 0
       [] escalateAt <= 2 * a.count /\ a.count < escalateAt -> 30
       [] escalateAt <= a.count /\ a.count < hardAt -> 70
       [] OTHER -> 100

(* assess: the signals under their weights, 0.30, 0.25, 0.20 and 0.25 over  *)
(* a baseline of 0.25.                                                      *)
Signals(a) ==
  [amount |-> Min({100, (ScoreAmount(a) * 6) \div 5}), geography |-> ScoreGeography(a),
   newBuyer |-> (ScoreNewBuyer(a) * 4) \div 5, velocity |-> ScoreVelocity(a)]

Total(signals) ==
  signals.amount + signals.geography + signals.newBuyer + signals.velocity

(* Variant of ShortOfCertain: the mean of the signals that fired.           *)
ShortOfMean(signals) ==
  LET fired == {s \in DOMAIN signals : signals[s] > 0}
  IN IF fired = {} THEN [n |-> 100, d |-> 1]
     ELSE [n |-> 100 * Cardinality(fired) - Total(signals), d |-> Cardinality(fired)]

(* _combine: what the score leaves of a hundred, n / d.  The strongest      *)
(* signal is the floor, and the others, c, climb the rest by c / (1 + c).   *)
ShortOfCertain(signals) ==
  LET base == Max({signals[s] : s \in DOMAIN signals})
  IN [n |-> (100 - base) * 100, d |-> 100 + Total(signals) - base]

(* band_for, with its edges at 35 and 70.                                   *)
Band(a) ==
  LET short == ShortOfCertain(Signals(a))
  IN IF short.n > 65 * short.d THEN "low"
     ELSE IF short.n > 30 * short.d THEN "medium"
     ELSE "high"

(* required_approvals.                                                      *)
Required(outcome, band) ==
  IF band = "high" THEN Max({2, QuorumSize})
  ELSE IF outcome = "escalate" \/ band = "medium" THEN 1
  ELSE 0

(* What the gate says: denied before risk is scored, or so many approvals.  *)
Gate(a) ==
  IF Outcome(a) = "deny" THEN [status |-> "denied", required |-> 0]
  ELSE LET n == Required(Outcome(a), Band(a))
       IN [status |-> IF n = 0 THEN "approved" ELSE "pending", required |-> n]

-----------------------------------------------------------------------------
RefundableStatuses == {"paid", "captured", "partially_refunded"}

RefundOrder == [own : BOOLEAN, status : OrderStatuses, refunded : Refunded,
          paid : PaidDaysAgo \union {Nothing}]

(* Variant of Refundable: what went back earlier is not deducted.           *)
RefundableGross(order) == Captured

(* refundable_paise. *)
Refundable(order) == Max({0, Captured - order.refunded})

(* RefundGuard.evaluate. *)
Eligible(order, amount) ==
  /\ order.own
  /\ amount > 0
  /\ order.status \in RefundableStatuses
  /\ Refundable(order) > 0 /\ amount <= Refundable(order)
  /\ order.paid # Nothing /\ order.paid <= RefundWindow

NeedsAuthorization(order, amount) == Eligible(order, amount) /\ amount > ReviewAbove["refund"]

(* RefundGuard.to_action: what it does not set has the defaults of a known  *)
(* buyer at home.                                                           *)
ToAction(order, amount, role, count, today) ==
  [kind |-> "refund", role |-> role, amount |-> amount, today |-> today, count |-> count,
   captured |-> Captured, refunded |-> order.refunded,
   age |-> 365, orders |-> 10, buyer |-> "IN", ip |-> "IN"]

-----------------------------------------------------------------------------
ActionsInit == answered = Nothing

Answer(order, a) ==
  answered' = [order |-> order, action |-> a, gate |-> Gate(a)]

(* create_authorization, and evaluate, which records nothing; a refund is   *)
(* judged from the request's own figures only by evaluate.                  *)
RequestAction(a) == Answer(Nothing, a)

(* create_authorization of a refund: refused before the gate unless         *)
(* eligible.                                                                *)
RequestRefund(order, amount, role, count, today) ==
  /\ Eligible(order, amount)
  /\ Answer(order, ToAction(order, amount, role, count, today))

(* Bound: one request a behaviour; requests leave nothing the next sees.    *)
ActionsNext ==
  /\ answered = Nothing
  /\ \/ \E a \in FinancialAction : RequestAction(a)
     \/ \E order \in RefundOrder, amount \in Amounts, role \in Roles, count \in HourCounts,
           today \in DayTotals : RequestRefund(order, amount, role, count, today)

ActionsSpec == ActionsInit /\ [][ActionsNext]_answered

-----------------------------------------------------------------------------
ActionsTypeOK ==
  answered # Nothing => answered.gate.status \in {"denied", "pending", "approved"}

(* A denial is over every number of approvals.                              *)
Demand(gate) == IF gate.status = "denied" THEN QuorumSize + 3 ELSE gate.required

(* The same action with one fact worse.                                     *)
Worse(a) ==
  {[a EXCEPT !.amount = x] : x \in {y \in Amounts : y > a.amount /\ a.amount > 0}}
    \union {[a EXCEPT !.today = x] : x \in {y \in DayTotals : y > a.today}}
    \union {[a EXCEPT !.count = x] : x \in {y \in HourCounts : y > a.count}}
    \union {[a EXCEPT !.refunded = x] : x \in {y \in Refunded : y > a.refunded}}
    \union {[a EXCEPT !.age = x] : x \in {y \in Ages : y < a.age}}
    \union {[a EXCEPT !.orders = x] : x \in {y \in PriorOrders : y < a.orders}}
    \union {[a EXCEPT !.ip = x] : x \in IF a.ip = a.buyer THEN Countries ELSE {}}

(* "Additional signals always raise the score", and "a single unambiguous   *)
(* fraud indicator is not made safe by the transaction being unremarkable   *)
(* in other respects": making one fact of an action worse never makes the   *)
(* gate ask for less.                                                       *)
NoEasierForRiskier ==
  answered # Nothing =>
    \A worse \in Worse(answered.action) : Demand(Gate(worse)) >= Demand(answered.gate)

(* An ineligible refund never reaches the gate, and the guard's "certainly  *)
(* demand a human" is true: what the guard passes, the gate's refund rule   *)
(* passes too, for no more than is left of the capture, and what the guard  *)
(* says needs authorization the gate never approves unattended.             *)
GuardAgreesWithTheGate ==
  answered # Nothing /\ answered.order # Nothing =>
    LET a == answered.action
    IN /\ a.amount + answered.order.refunded <= Captured
       /\ NeedsAuthorization(answered.order, a.amount) => answered.gate.status # "approved"
       /\ answered.gate.status = "denied" =>
            \/ a.amount > Ceiling["refund"] \/ a.today + a.amount > DailyCap
            \/ a.count >= MaxCount \/ a.role \notin ActorMatrix["refund"]
            \/ "IN" \in BlockedCountries
=============================================================================
