------------------------------ MODULE Payments ------------------------------
(***************************************************************************)
(* The payment engine: PaymentService (create, status, refund), the         *)
(* idempotency keys it claims first, and the reconciliation passes that     *)
(* settle what a provider call left UNKNOWN.                                *)
(*                                                                         *)
(* Every repository it uses is in memory and never suspends, so a handler   *)
(* runs without interruption from one provider call to the next.  An        *)
(* action is one such segment; the provider's processing of a call is an    *)
(* action of its own, and so is giving up on the answer.                    *)
(***************************************************************************)
EXTENDS Integers, FiniteSets

CONSTANTS
  Payments,     \* payment ids that may be handed out (bounds the creations)
  Orders,       \* orders the merchant may charge for
  Keys,         \* idempotency keys of POST /payments
  RefundKeys,   \* idempotency keys of POST /payments/{id}/refund
  Workers,      \* passes of the reconciliation loop or of POST /reconciliation/run
  Readers,      \* GET /payments/{id}/status requests
  Owed,         \* Owed[o]: final_amount_paise of order o
  ProviderCaps, \* whether the provider refuses to refund more than it took
  StrayErrors,  \* whether an answer may raise something _decode does not foresee
  None          \* a field not set yet

Reconcilers == Workers \union Readers

ASSUME OwedAssumption == Owed \in [Orders -> Nat]
ASSUME NoneAssumption == None \notin Payments \union Orders \union Keys
ASSUME SwitchAssumption == ProviderCaps \in BOOLEAN /\ StrayErrors \in BOOLEAN

VARIABLES
  status,       \* status[p]: PaymentState of the record, "absent" before it exists
  origin,       \* origin[p]: the order and the key the payment was opened for
  captured,     \* captured[p]: captured_paise
  refunded,     \* refunded[p]: refunded_paise
  reference,    \* the payments whose provider_payment_id is set
  paidBy,       \* paidBy[o]: payment that marked order o paid, None if pending
  createKey,    \* createKey[k]: record of an idempotency key, and its stored response
  handler,      \* handler[p]: the provider call create_payment is awaiting for p
  refund,       \* refund[k]: idempotency record and handler of the refund under k
  pass,         \* pass[c]: what reconciler c is asking about, and still has to ask
  charge,       \* charge[p]: what the provider did with p
  reply,        \* reply[p]: its answer on the way to create_payment
  sentBack,     \* sentBack[p]: what the provider returned to the customer
  expired       \* history: payments whose key outlived its 24 hours

recordVars   == <<status, origin, captured, refunded, reference>>
providerVars == <<charge, reply, sentBack>>
vars == <<recordVars, paidBy, createKey, handler, refund, pass, providerVars, expired>>

PaymentState == {"created", "auth_required", "authorized", "captured",
                 "unknown", "failed", "partially_refunded", "refunded"}
BeforeCapture == {"created", "auth_required", "authorized"}
HOLDS_MONEY == {"captured", "partially_refunded"}
SETTLED == {"captured", "partially_refunded", "refunded"}

IdleRefund == [key |-> "free", waiting |-> FALSE, call |-> "idle",
               of |-> None, amount |-> 0]
FreeKey == [state |-> "free", response |-> None]
NoPass == [todo |-> {}, asking |-> None, answer |-> "pending"]

OriginRecord == [order : Orders \union {None}, key : Keys \union {None}, amount : Nat]
KeyRecord == [state : {"free", "in_progress", "completed"},
              response : Payments \union {None}]
RefundRecord == [key : {"free", "in_progress", "completed"}, waiting : BOOLEAN,
                 call : {"idle", "sent", "done", "refused"},
                 of : Payments \union {None}, amount : Nat]
PassRecord == [todo : SUBSET Payments, asking : Payments \union {None},
               answer : {"pending", "captured", "failed", "unsettled"}]

Init ==
  /\ status = [p \in Payments |-> "absent"]
  /\ origin = [p \in Payments |-> [order |-> None, key |-> None, amount |-> 0]]
  /\ captured = [p \in Payments |-> 0]
  /\ refunded = [p \in Payments |-> 0]
  /\ reference = {}
  /\ paidBy = [o \in Orders |-> None]
  /\ createKey = [k \in Keys |-> FreeKey]
  /\ handler = [p \in Payments |-> "none"]
  /\ refund = [k \in RefundKeys |-> IdleRefund]
  /\ pass = [c \in Reconcilers |-> NoPass]
  /\ charge = [p \in Payments |-> "none"]
  /\ reply = [p \in Payments |-> "none"]
  /\ sentBack = [p \in Payments |-> 0]
  /\ expired = {}

-----------------------------------------------------------------------------
(* PaymentRepository.transition: move only from an expected state.          *)
Moved(p, expected, target) ==
  [status EXCEPT ![p] = IF @ \in expected THEN target ELSE @]

(* IdempotencyRepository.release: only a claim still in progress goes.      *)
Released(k) == IF createKey[k].state = "in_progress" THEN FreeKey ELSE createKey[k]

(* The write behind mark_captured: whatever state the record is in.         *)
CaptureFor(p, amount) ==
  /\ status' = [status EXCEPT ![p] = "captured"]
  /\ captured' = [captured EXCEPT ![p] = amount]
  /\ reference' = reference \union {p}
  /\ UNCHANGED <<origin, refunded>>

(* Variant of MarkCaptured: the amount comes from the provider's answer.    *)
MarkCapturedAsReported(p) == CaptureFor(p, origin[p].amount - sentBack[p])

(* Callers of mark_captured pass the amount of our own record.              *)
MarkCaptured(p) == CaptureFor(p, origin[p].amount)

(* refund_state_for: decided by the amounts alone.                          *)
RefundState(total, taken) ==
  IF total >= taken THEN "refunded" ELSE "partially_refunded"

-----------------------------------------------------------------------------
(* create_payment, up to the first provider call.  A key that is not free,  *)
(* an order that is missing or cannot be snapshotted: answered at once with *)
(* nothing left changed, the key released if it was claimed.                *)
CreatePayment(p, k, o) ==
  /\ createKey[k].state = "free"
  /\ status[p] = "absent"
  /\ createKey' = [createKey EXCEPT ![k].state = "in_progress"]
  /\ status' = [status EXCEPT ![p] = "created"]
  /\ origin' = [origin EXCEPT ![p] = [order |-> o, key |-> k, amount |-> Owed[o]]]
  /\ handler' = [handler EXCEPT ![p] = "ordering"]
  /\ UNCHANGED <<captured, refunded, reference, paidBy, refund, pass, providerVars, expired>>

(* The provider accepted the order; the capture is sent in this segment.    *)
SendCapture(p, references) ==
  /\ handler[p] = "ordering" /\ reply[p] = "ok"
  /\ status' = [status EXCEPT ![p] = IF @ = "created" THEN "authorized" ELSE @]
  /\ reference' = references
  /\ handler' = [handler EXCEPT ![p] = "capturing"]
  /\ reply' = [reply EXCEPT ![p] = "none"]
  /\ UNCHANGED <<origin, captured, refunded, paidBy, createKey, refund, pass,
                 charge, sentBack, expired>>

(* Variant of OrderAccepted: the id is kept only once the capture succeeds. *)
OrderAcceptedNoReference(p) == SendCapture(p, reference)

(* The provider's id is kept before the capture is sent.                    *)
OrderAccepted(p) == SendCapture(p, reference \union {p})

(* create_payment returns without money: the record moves, the key becomes  *)
(* what the branch leaves it as, the provider's late answer finds nobody.   *)
GiveUp(p, statusAfter, keyAfter) ==
  /\ status' = statusAfter
  /\ createKey' = [createKey EXCEPT ![origin[p].key] = keyAfter]
  /\ handler' = [handler EXCEPT ![p] = "returned"]
  /\ reply' = [reply EXCEPT ![p] = "none"]
  /\ UNCHANGED <<origin, captured, refunded, reference, paidBy, refund, pass,
                 charge, sentBack, expired>>

(* Variant of CreateTimesOut: the handler of ProviderError, which           *)
(* ProviderTimeout derives from, comes first.                               *)
CreateTimesOutAsError(p) ==
  /\ handler[p] \in {"ordering", "capturing"}
  /\ GiveUp(p, Moved(p, BeforeCapture, "failed"), Released(origin[p].key))

(* Variant of CreateTimesOut: UNKNOWN, but the key is released.             *)
CreateTimesOutReleasing(p) ==
  /\ handler[p] \in {"ordering", "capturing"}
  /\ GiveUp(p, Moved(p, BeforeCapture, "unknown"), Released(origin[p].key))

(* ProviderTimeout from either call: UNKNOWN, and the key stays claimed.    *)
CreateTimesOut(p) ==
  /\ handler[p] \in {"ordering", "capturing"}
  /\ GiveUp(p, Moved(p, BeforeCapture, "unknown"), createKey[origin[p].key])

(* ProviderError from either call: FAILED, and the key is released.         *)
CreateRefused(p) ==
  /\ handler[p] \in {"ordering", "capturing"} /\ reply[p] = "error"
  /\ GiveUp(p, Moved(p, BeforeCapture, "failed"), Released(origin[p].key))

(* Variant of CaptureUnrecognised: the 502 is stored as the response.       *)
CaptureUnrecognisedStored(p) ==
  /\ handler[p] = "capturing" /\ reply[p] = "odd"
  /\ GiveUp(p, Moved(p, {"authorized"}, "unknown"), [state |-> "completed", response |-> p])

(* The capture was answered with a status that is not "captured".           *)
CaptureUnrecognised(p) ==
  /\ handler[p] = "capturing" /\ reply[p] = "odd"
  /\ GiveUp(p, Moved(p, {"authorized"}, "unknown"), createKey[origin[p].key])

(* Any other exception out of either call: nothing in the try catches it.   *)
CreateRaises(p) ==
  /\ StrayErrors
  /\ handler[p] \in {"ordering", "capturing"}
  /\ GiveUp(p, status, createKey[origin[p].key])

(* The money is taken: record it, mark the order paid, store the response.  *)
Take(p, answers) ==
  /\ handler[p] = "capturing" /\ reply[p] \in answers
  /\ MarkCaptured(p)
  /\ paidBy' = [paidBy EXCEPT ![origin[p].order] = p]
  /\ createKey' = [createKey EXCEPT ![origin[p].key] =
                     [state |-> "completed", response |-> p]]
  /\ handler' = [handler EXCEPT ![p] = "returned"]
  /\ reply' = [reply EXCEPT ![p] = "none"]
  /\ UNCHANGED <<refund, pass, charge, sentBack, expired>>

CaptureConfirmed(p) == Take(p, {"ok"})

(* A key older than 24 hours is claimed as if it were new.  No handler is   *)
(* that old: each provider call is bounded by a ten second timeout.         *)
ExpireKey(k) ==
  /\ createKey[k].state # "free"
  /\ \A p \in Payments : origin[p].key = k => handler[p] = "returned"
  /\ createKey' = [createKey EXCEPT ![k] = FreeKey]
  /\ expired' = expired \union {p \in Payments : origin[p].key = k}
  /\ UNCHANGED <<recordVars, paidBy, handler, refund, pass, providerVars>>

-----------------------------------------------------------------------------
(* refund_payment, up to the provider call.                                 *)
RequestRefund(k, p, amount) ==
  /\ refund[k].key = "free"
  /\ status[p] \in HOLDS_MONEY
  /\ amount <= captured[p] - refunded[p]
  /\ refund' = [refund EXCEPT ![k] = [key |-> "in_progress", waiting |-> TRUE,
                  call |-> "sent", of |-> p, amount |-> amount]]
  /\ UNCHANGED <<recordVars, paidBy, createKey, handler, pass, providerVars, expired>>

(* Record a refund without looking at the totals again.                     *)
BookRefund(k, calls) ==
  LET p == refund[k].of
      total == refunded[p] + refund[k].amount
  IN /\ refund[k].waiting /\ refund[k].call \in calls
     /\ refunded' = [refunded EXCEPT ![p] = total]
     /\ status' = [status EXCEPT ![p] = RefundState(total, captured[p])]
     /\ refund' = [refund EXCEPT ![k].waiting = FALSE, ![k].key = "completed"]
     /\ UNCHANGED <<origin, captured, reference, paidBy, createKey, handler, pass,
                    providerVars, expired>>

(* Variant of RefundConfirmed: booked without waiting for the answer.       *)
RefundConfirmedEarly(k) == BookRefund(k, {"sent", "done"})

(* The provider sent the money back.                                        *)
RefundConfirmed(k) == BookRefund(k, {"done"})

(* ProviderTimeout, or any stray exception: the key stays claimed, the books *)
(* do not move, and the provider may still send the money.                  *)
RefundTimesOut(k) ==
  /\ refund[k].waiting
  /\ refund' = [refund EXCEPT ![k].waiting = FALSE]
  /\ UNCHANGED <<recordVars, paidBy, createKey, handler, pass, providerVars, expired>>

(* ProviderError: the key is released for another attempt.                  *)
RefundRefused(k) ==
  /\ refund[k].waiting /\ refund[k].call = "refused"
  /\ refund' = [refund EXCEPT ![k] = IdleRefund]
  /\ UNCHANGED <<recordVars, paidBy, createKey, handler, pass, providerVars, expired>>

ExpireRefundKey(k) ==
  /\ refund[k].key # "free" /\ ~refund[k].waiting /\ refund[k].call # "sent"
  /\ refund' = [refund EXCEPT ![k] = IdleRefund]
  /\ UNCHANGED <<recordVars, paidBy, createKey, handler, pass, providerVars, expired>>

-----------------------------------------------------------------------------
(* Variant of Unresolved: settled payments are asked about too.             *)
UnresolvedOrSettled == reference

(* Payments that list_unknown returns and that have an id to ask about.     *)
Unresolved == {p \in reference : status[p] = "unknown"}

(* The call goes out in the segment that picks the payment.                 *)
AskNext(c, snapshot) ==
  IF snapshot = {} THEN pass' = [pass EXCEPT ![c] = NoPass]
  ELSE \E p \in snapshot :
         pass' = [pass EXCEPT ![c] = [todo |-> snapshot \ {p}, asking |-> p,
                                      answer |-> "pending"]]

StartWorkerPass(c) ==
  /\ pass[c].asking = None /\ Unresolved # {}
  /\ AskNext(c, Unresolved)
  /\ UNCHANGED <<recordVars, paidBy, createKey, handler, refund, providerVars, expired>>

(* get_status on a payment that reads UNKNOWN.                              *)
StartStatusRead(c, p) ==
  /\ pass[c].asking = None /\ p \in Unresolved
  /\ AskNext(c, {p})
  /\ UNCHANGED <<recordVars, paidBy, createKey, handler, refund, providerVars, expired>>

(* The provider said captured: applied to the record as it is now, whatever *)
(* it has become since the snapshot that sent the question.                 *)
ReconcileCaptured(c) ==
  /\ pass[c].answer = "captured"
  /\ MarkCaptured(pass[c].asking)
  /\ AskNext(c, pass[c].todo)
  /\ UNCHANGED <<paidBy, createKey, handler, refund, providerVars, expired>>

ReconcileFailed(c) ==
  /\ pass[c].answer = "failed"
  /\ status' = Moved(pass[c].asking, {"unknown"}, "failed")
  /\ AskNext(c, pass[c].todo)
  /\ UNCHANGED <<origin, captured, refunded, reference, paidBy, createKey, handler,
                 refund, providerVars, expired>>

(* No answer, an error, or a state that is neither: a diff at most.         *)
ReconcileLeaves(c) ==
  /\ pass[c].asking # None
  /\ AskNext(c, pass[c].todo)
  /\ UNCHANGED <<recordVars, paidBy, createKey, handler, refund, providerVars, expired>>

(* Any other exception ends the pass, and with it every payment after this  *)
(* one in the snapshot; the loop only logs it and waits for the next pass.  *)
ReconcileRaises(c) ==
  /\ pass[c].asking # None /\ StrayErrors
  /\ AskNext(c, {})
  /\ UNCHANGED <<recordVars, paidBy, createKey, handler, refund, providerVars, expired>>

-----------------------------------------------------------------------------
(* The provider, outside this repository.  It may answer, refuse, or do the *)
(* work with nobody left to hear of it; a capture it refused stays refused. *)
Heard(p, answers) ==
  IF handler[p] \in {"ordering", "capturing"} /\ reply[p] = "none"
  THEN \E a \in answers : reply' = [reply EXCEPT ![p] = a]
  ELSE UNCHANGED reply

ProviderOrders(p) ==
  /\ handler[p] = "ordering" /\ reply[p] = "none"
  /\ \/ Heard(p, {"ok"}) /\ charge' = [charge EXCEPT ![p] = "ordered"]
     \/ Heard(p, {"error"}) /\ UNCHANGED charge
  /\ UNCHANGED <<recordVars, paidBy, createKey, handler, refund, pass, sentBack, expired>>

ProviderDecides(p) ==
  /\ handler[p] = "capturing" \/ p \in reference
  /\ charge[p] = "ordered"
  /\ \/ Heard(p, {"ok", "odd"}) /\ charge' = [charge EXCEPT ![p] = "captured"]
     \/ Heard(p, {"error"}) /\ charge' = [charge EXCEPT ![p] = "refused"]
  /\ UNCHANGED <<recordVars, paidBy, createKey, handler, refund, pass, sentBack, expired>>

(* An answer such as "authorized": the capture is not decided yet.          *)
ProviderStalls(p) ==
  /\ handler[p] = "capturing" /\ reply[p] = "none" /\ charge[p] = "ordered"
  /\ Heard(p, {"odd"})
  /\ UNCHANGED <<recordVars, paidBy, createKey, handler, refund, pass, charge,
                 sentBack, expired>>

ProviderRefunds(k) ==
  LET p == refund[k].of
      total == sentBack[p] + refund[k].amount
  IN /\ refund[k].call = "sent"
     /\ ProviderCaps => total <= origin[p].amount
     /\ sentBack' = [sentBack EXCEPT ![p] = total]
     /\ refund' = [refund EXCEPT ![k].call = "done"]
     /\ UNCHANGED <<recordVars, paidBy, createKey, handler, pass, charge, reply, expired>>

ProviderRefusesRefund(k) ==
  /\ refund[k].call = "sent"
  /\ refund' = [refund EXCEPT ![k].call = "refused"]
  /\ UNCHANGED <<recordVars, paidBy, createKey, handler, pass, providerVars, expired>>

(* What a status query reads at the provider, as canonical_state maps it.   *)
StatusAt(p) ==
  CASE charge[p] = "refused" -> {"failed"}
    [] charge[p] = "captured" -> {"captured"} \union
                                 (IF sentBack[p] > 0 THEN {"unsettled"} ELSE {})
    [] OTHER -> {"unsettled"}

ProviderReportsStatus(c) ==
  /\ pass[c].asking # None /\ pass[c].answer = "pending"
  /\ \E answer \in StatusAt(pass[c].asking) :
       pass' = [pass EXCEPT ![c].answer = answer]
  /\ UNCHANGED <<recordVars, paidBy, createKey, handler, refund, providerVars, expired>>

-----------------------------------------------------------------------------
CreateStep ==
  \/ \E p \in Payments, k \in Keys, o \in Orders : CreatePayment(p, k, o)
  \/ \E p \in Payments :
       \/ OrderAccepted(p) \/ CreateTimesOut(p) \/ CreateRefused(p)
       \/ CaptureUnrecognised(p) \/ CreateRaises(p) \/ CaptureConfirmed(p)
  \/ \E k \in Keys : ExpireKey(k)

RefundStep ==
  \E k \in RefundKeys :
    \/ \E p \in Payments : \E amount \in 1 .. captured[p] : RequestRefund(k, p, amount)
    \/ RefundConfirmed(k) \/ RefundTimesOut(k) \/ RefundRefused(k) \/ ExpireRefundKey(k)

ReconcileStep ==
  \/ \E c \in Workers : StartWorkerPass(c)
  \/ \E c \in Readers, p \in Payments : StartStatusRead(c, p)
  \/ \E c \in Reconcilers :
       \/ ReconcileCaptured(c) \/ ReconcileFailed(c)
       \/ ReconcileLeaves(c) \/ ReconcileRaises(c)

ProviderStep ==
  \/ \E p \in Payments : ProviderOrders(p) \/ ProviderDecides(p) \/ ProviderStalls(p)
  \/ \E k \in RefundKeys : ProviderRefunds(k) \/ ProviderRefusesRefund(k)
  \/ \E c \in Reconcilers : ProviderReportsStatus(c)

Next == CreateStep \/ RefundStep \/ ReconcileStep \/ ProviderStep

Spec == Init /\ [][Next]_vars

(* The loop runs every reconciliation_interval_seconds for ever, each call   *)
(* ends in an answer or a timeout, and about no payment do all the answers  *)
(* get lost: the provider is not unreachable for good.                      *)
Fairness ==
  \A c \in Workers :
    /\ WF_vars(StartWorkerPass(c)) /\ WF_vars(ReconcileLeaves(c))
    /\ \A p \in Payments :
         /\ SF_vars(pass[c].asking = p /\ ProviderReportsStatus(c))
         /\ SF_vars(pass[c].asking = p /\ (ReconcileCaptured(c) \/ ReconcileFailed(c)))

FairSpec == Spec /\ Fairness

-----------------------------------------------------------------------------
TypeOK ==
  /\ status \in [Payments -> PaymentState \union {"absent"}]
  /\ origin \in [Payments -> OriginRecord]
  /\ captured \in [Payments -> Nat]
  /\ refunded \in [Payments -> Nat]
  /\ reference \in SUBSET Payments
  /\ paidBy \in [Orders -> Payments \union {None}]
  /\ createKey \in [Keys -> KeyRecord]
  /\ handler \in [Payments -> {"none", "ordering", "capturing", "returned"}]
  /\ refund \in [RefundKeys -> RefundRecord]
  /\ pass \in [Reconcilers -> PassRecord]
  /\ charge \in [Payments -> {"none", "ordered", "captured", "refused"}]
  /\ reply \in [Payments -> {"none", "ok", "odd", "error"}]
  /\ sentBack \in [Payments -> Nat]
  /\ expired \in SUBSET Payments

(* A payment that reads settled was really taken by the provider, for the   *)
(* amount the order owed, however its last answer reached us.               *)
SettledMeansCharged ==
  \A p \in Payments : status[p] \in SETTLED =>
    charge[p] = "captured" /\ captured[p] = origin[p].amount

(* A payment that reads failed took no money and cannot take any later: a   *)
(* timeout is never booked as a failure.                                    *)
FailedMeansNotCharged ==
  \A p \in Payments : status[p] = "failed" =>
    charge[p] = "refused" \/ (charge[p] = "none" /\ p \notin reference)

(* However often a client retries under one key, and whatever was lost on   *)
(* the way, the customer is charged once while the key lives.               *)
ChargedOncePerKey ==
  \A p, q \in Payments \ expired :
    /\ charge[p] = "captured" /\ charge[q] = "captured"
    /\ origin[p].key = origin[q].key
    => p = q

(* What a key replays is a payment made under it, still settled, for an     *)
(* order that is marked paid.                                               *)
ReplayIsTheTakenPayment ==
  \A k \in Keys : createKey[k].state = "completed" =>
    \E p \in Payments : /\ createKey[k].response = p /\ origin[p].key = k
                        /\ status[p] \in SETTLED /\ p \notin expired
                        /\ paidBy[origin[p].order] # None

(* An order is marked paid only by a payment of its own that took money.    *)
PaidOrderWasCharged ==
  \A o \in Orders : paidBy[o] # None =>
    \E p \in Payments : paidBy[o] = p /\ origin[p].order = o /\ charge[p] = "captured"

(* "Send money back, never more than was taken": the books never show more  *)
(* given back than was captured, nor than the provider sent.                *)
RefundsNotOverstated ==
  \A p \in Payments : refunded[p] <= sentBack[p] /\ refunded[p] <= captured[p]

(* Money that was taken stays on the books, in the amount it was taken for. *)
SettledForever ==
  [][\A p \in Payments : status[p] \in SETTLED =>
       status'[p] \in SETTLED /\ captured'[p] = captured[p]]_vars

(* "nothing here moves a payment that has already settled": a settled       *)
(* status changes only when a refund is booked.                             *)
OnlyRefundsMoveSettled ==
  [][\A p \in Payments : status[p] \in SETTLED /\ status'[p] # status[p] =>
       refunded'[p] > refunded[p]]_vars

(* A payment left UNKNOWN that the provider has decided is settled by the   *)
(* reconciliation loop.                                                     *)
DecidedPaymentsResolved ==
  \A p \in Payments :
    status[p] = "unknown" /\ charge[p] \in {"captured", "refused"} ~> status[p] # "unknown"
=============================================================================
