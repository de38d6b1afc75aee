--------------------------- MODULE PaymentsProofs ---------------------------
(***************************************************************************)
(* What holds of the payment engine for every set of payments, orders,      *)
(* keys and reconcilers, whatever the provider does.                        *)
(***************************************************************************)
EXTENDS Payments, TLAPS

InFlight(p) == handler[p] \in {"ordering", "capturing"}

(* Where the handler of a payment is, the record, the provider's side and   *)
(* the answer on its way agree.                                             *)
PaymentInv ==
  \A p \in Payments :
    /\ handler[p] = "none" => /\ status[p] = "absent" /\ charge[p] = "none"
                              /\ reply[p] = "none" /\ p \notin reference
                              /\ p \notin expired /\ origin[p].key = None
    /\ handler[p] # "none" => /\ status[p] # "absent"
                              /\ origin[p].key \in Keys /\ origin[p].order \in Orders
    /\ handler[p] = "ordering" => /\ status[p] = "created" /\ p \notin reference
                                  /\ reply[p] # "odd" /\ charge[p] \in {"none", "ordered"}
                                  /\ reply[p] = "ok" <=> charge[p] = "ordered"
    /\ handler[p] = "capturing" => /\ status[p] = "authorized" /\ p \in reference
                                   /\ charge[p] # "none"
                                   /\ reply[p] = "ok" => charge[p] = "captured"
                                   /\ reply[p] = "error" => charge[p] = "refused"
    /\ status[p] \in SETTLED => /\ handler[p] = "returned" /\ charge[p] = "captured"
                                /\ captured[p] = origin[p].amount
    /\ status[p] = "failed" => /\ handler[p] = "returned"
                               /\ \/ charge[p] = "refused"
                                  \/ charge[p] = "none" /\ p \notin reference
    /\ status[p] = "unknown" => handler[p] = "returned"

(* A payment that may still have taken money, and whose key has not run     *)
(* out, holds that key, alone.                                              *)
Holder(p) == handler[p] # "none" /\ status[p] # "failed" /\ p \notin expired

KeyInv ==
  /\ \A p \in Payments : InFlight(p) =>
       p \notin expired /\ createKey[origin[p].key].state = "in_progress"
  /\ \A p \in Payments : Holder(p) => createKey[origin[p].key].state # "free"
  /\ \A p, q \in Payments : Holder(p) /\ Holder(q) /\ origin[p].key = origin[q].key => p = q

(* A reconciler asks only about payments whose handler is gone.             *)
Askable(p) ==
  p \in reference /\ handler[p] = "returned" /\ status[p] \in {"unknown", "failed"} \union SETTLED

PassInv ==
  \A c \in Reconcilers :
    /\ pass[c].asking # None => Askable(pass[c].asking)
    /\ \A p \in pass[c].todo : Askable(p)
    /\ pass[c].answer # "pending" => pass[c].asking # None
    /\ pass[c].answer = "captured" => charge[pass[c].asking] = "captured"
    /\ pass[c].answer = "failed" => charge[pass[c].asking] = "refused"

RefundInv ==
  \A k \in RefundKeys :
    /\ refund[k].waiting => refund[k].of \in Payments /\ status[refund[k].of] \in SETTLED
    /\ refund[k].call = "sent" => refund[k].of \in Payments

PaidInv ==
  \A o \in Orders : paidBy[o] # None =>
    /\ paidBy[o] \in Payments /\ origin[paidBy[o]].order = o
    /\ status[paidBy[o]] \in SETTLED

IInv ==
  /\ TypeOK /\ PaymentInv /\ KeyInv /\ ReplayIsTheTakenPayment
  /\ PassInv /\ RefundInv /\ PaidInv

USE OwedAssumption, NoneAssumption

(* Nothing has happened yet, and the invariant holds of it.                 *)
LEMMA InitIInv == Init => IInv
<1> SUFFICES ASSUME Init PROVE IInv
  OBVIOUS
<1>1. TypeOK
  BY DEF Init, TypeOK, PaymentState, FreeKey, IdleRefund, NoPass,
         OriginRecord, KeyRecord, RefundRecord, PassRecord
<1>2. PaymentInv
  BY DEF Init, PaymentInv, SETTLED
<1>3. KeyInv /\ ReplayIsTheTakenPayment
  BY DEF Init, KeyInv, Holder, InFlight, ReplayIsTheTakenPayment, FreeKey
<1>4. PassInv /\ RefundInv /\ PaidInv
  BY DEF Init, PassInv, RefundInv, PaidInv, NoPass, IdleRefund
<1>5. QED
  BY <1>1, <1>2, <1>3, <1>4 DEF IInv

(* Every conjunct but the types, the passes and the refunds speaks of these  *)
(* variables only.                                                          *)
LEMMA BooksUntouched ==
  ASSUME IInv,
         UNCHANGED <<status, origin, captured, reference, paidBy, createKey, handler,
                     charge, reply, expired>>
  PROVE  PaymentInv' /\ KeyInv' /\ ReplayIsTheTakenPayment' /\ PaidInv'
<1>1. PaymentInv' /\ PaidInv'
  BY DEF IInv, PaymentInv, PaidInv
<1>2. KeyInv' /\ ReplayIsTheTakenPayment'
  BY DEF IInv, KeyInv, Holder, InFlight, ReplayIsTheTakenPayment
<1>3. QED
  BY <1>1, <1>2

(* What AskNext leaves of a pass was in the snapshot it was given.          *)
LEMMA AskNextKeepsToSnapshot ==
  ASSUME TypeOK, NEW c \in Reconcilers, NEW snapshot \in SUBSET Payments,
         AskNext(c, snapshot)
  PROVE  /\ pass' \in [Reconcilers -> PassRecord]
         /\ \A d \in Reconcilers \ {c} : pass'[d] = pass[d]
         /\ pass'[c].todo \subseteq snapshot
         /\ pass'[c].asking # None => pass'[c].asking \in snapshot
         /\ pass'[c].answer = "pending"
<1>1. CASE snapshot = {}
  BY <1>1 DEF AskNext, NoPass, TypeOK, PassRecord
<1>2. CASE snapshot # {}
  <2>1. PICK p \in snapshot :
          pass' = [pass EXCEPT ![c] = [todo |-> snapshot \ {p}, asking |-> p,
                                       answer |-> "pending"]]
    BY <1>2 DEF AskNext
  <2>2. QED
    BY <2>1 DEF TypeOK, PassRecord
<1>3. QED
  BY <1>1, <1>2

(* A pass moves on to payments that may still be asked about.               *)
LEMMA NextQuestion ==
  ASSUME TypeOK, PassInv, NEW c \in Reconcilers, NEW snapshot \in SUBSET Payments,
         AskNext(c, snapshot), \A p \in snapshot : Askable(p),
         \A p \in Payments : Askable(p) => Askable(p)', UNCHANGED charge
  PROVE  PassInv'
<1>1. /\ \A d \in Reconcilers \ {c} : pass'[d] = pass[d]
      /\ pass'[c].todo \subseteq snapshot
      /\ pass'[c].asking # None => pass'[c].asking \in snapshot
      /\ pass'[c].answer = "pending"
  BY AskNextKeepsToSnapshot
<1>2. \A d \in Reconcilers : /\ pass[d].todo \subseteq Payments
                             /\ pass[d].asking \in Payments \union {None}
  BY DEF TypeOK, PassRecord
<1>3. QED
  BY <1>1, <1>2 DEF PassInv

(* A new payment claims a key nobody holds.                                 *)
LEMMA CreatePaymentStep ==
  ASSUME IInv, NEW p \in Payments, NEW k \in Keys, NEW o \in Orders, CreatePayment(p, k, o)
  PROVE  IInv'
<1> USE DEF CreatePayment, recordVars, providerVars, IInv
<1>1. TypeOK'
  <2>1. origin' \in [Payments -> OriginRecord]
    BY DEF TypeOK, OriginRecord
  <2>2. createKey' \in [Keys -> KeyRecord]
    BY DEF TypeOK, KeyRecord
  <2>3. QED
    BY <2>1, <2>2 DEF TypeOK, PaymentState
<1>2. PaymentInv'
  BY DEF TypeOK, PaymentInv, SETTLED
<1>3. KeyInv'
  <2>1. /\ p \notin expired /\ createKey'[k].state = "in_progress"
        /\ origin'[p].key = k /\ \A q \in Payments \ {p} : origin'[q] = origin[q]
        /\ \A q \in Payments \ {p} : Holder(q)' <=> Holder(q)
        /\ \A q \in Payments \ {p} : InFlight(q)' <=> InFlight(q)
        /\ \A j \in Keys \ {k} : createKey'[j] = createKey[j]
    BY DEF TypeOK, PaymentInv, Holder, InFlight
  <2>2. \A q \in Payments : Holder(q) \/ InFlight(q) => origin[q].key \in Keys \ {k}
    BY DEF PaymentInv, KeyInv, Holder, InFlight
  <2>3. QED
    BY <2>1, <2>2 DEF KeyInv
<1>4. ReplayIsTheTakenPayment'
  BY DEF TypeOK, PaymentInv, ReplayIsTheTakenPayment, SETTLED
<1>5. PassInv'
  BY DEF TypeOK, PaymentInv, PassInv, Askable, SETTLED
<1>6. RefundInv' /\ PaidInv'
  BY DEF TypeOK, PaymentInv, RefundInv, PaidInv, SETTLED
<1>7. QED
  BY <1>1, <1>2, <1>3, <1>4, <1>5, <1>6

(* The capture is sent with the provider's id already kept.                 *)
LEMMA OrderAcceptedStep ==
  ASSUME IInv, NEW p \in Payments, OrderAccepted(p)
  PROVE  IInv'
<1> USE DEF IInv, OrderAccepted, SendCapture, providerVars
<1>1. TypeOK'
  BY DEF TypeOK, PaymentState
<1>2. PaymentInv'
  BY DEF TypeOK, PaymentInv, BeforeCapture, SETTLED
<1>3. KeyInv'
  BY DEF TypeOK, PaymentInv, KeyInv, Holder, InFlight
<1>4. ReplayIsTheTakenPayment'
  BY DEF TypeOK, PaymentInv, KeyInv, InFlight, ReplayIsTheTakenPayment, SETTLED
<1>5. PassInv'
  BY DEF TypeOK, PaymentInv, PassInv, Askable, SETTLED
<1>6. RefundInv' /\ PaidInv'
  BY DEF TypeOK, PaymentInv, RefundInv, PaidInv, SETTLED
<1>7. QED
  BY <1>1, <1>2, <1>3, <1>4, <1>5, <1>6

(* Giving up on the answer leaves an UNKNOWN payment that keeps its key.    *)
LEMMA CreateTimesOutStep ==
  ASSUME IInv, NEW p \in Payments, CreateTimesOut(p)
  PROVE  IInv'
<1> USE DEF IInv, CreateTimesOut, GiveUp, Moved
<1>1. TypeOK'
  <2>1. createKey' \in [Keys -> KeyRecord]
    BY DEF TypeOK, KeyRecord, PaymentInv
  <2>2. QED
    BY <2>1 DEF TypeOK, PaymentState, OriginRecord
<1>2. PaymentInv'
  BY DEF TypeOK, PaymentInv, BeforeCapture, SETTLED
<1>3. KeyInv'
  BY DEF TypeOK, PaymentInv, KeyInv, Holder, InFlight
<1>4. ReplayIsTheTakenPayment'
  BY DEF TypeOK, PaymentInv, KeyInv, InFlight, ReplayIsTheTakenPayment, SETTLED
<1>5. PassInv'
  BY DEF TypeOK, PaymentInv, PassInv, Askable, SETTLED
<1>6. RefundInv' /\ PaidInv'
  BY DEF TypeOK, PaymentInv, RefundInv, PaidInv, SETTLED
<1>7. QED
  BY <1>1, <1>2, <1>3, <1>4, <1>5, <1>6

(* A refusal releases a key that only this payment held.                    *)
LEMMA CreateRefusedStep ==
  ASSUME IInv, NEW p \in Payments, CreateRefused(p)
  PROVE  IInv'
<1> USE DEF IInv, CreateRefused, GiveUp, Moved, Released, FreeKey
<1>1. TypeOK'
  <2>1. createKey' \in [Keys -> KeyRecord]
    BY DEF TypeOK, KeyRecord, PaymentInv
  <2>2. QED
    BY <2>1 DEF TypeOK, PaymentState, OriginRecord
<1>2. PaymentInv'
  BY DEF TypeOK, PaymentInv, BeforeCapture, SETTLED
<1>3. KeyInv'
  <2>1. /\ \A q \in Payments \ {p} : Holder(q)' <=> Holder(q)
        /\ \A q \in Payments \ {p} : InFlight(q)' <=> InFlight(q)
        /\ ~InFlight(p)' /\ ~Holder(p)' /\ Holder(p)
        /\ \A j \in Keys \ {origin[p].key} : createKey'[j] = createKey[j]
    BY DEF TypeOK, PaymentInv, KeyInv, Holder, InFlight, BeforeCapture
  <2>2. \A q \in Payments \ {p} : Holder(q) \/ InFlight(q) => origin[q].key # origin[p].key
    BY <2>1 DEF PaymentInv, KeyInv, Holder, InFlight
  <2>3. \A q \in Payments : Holder(q) \/ InFlight(q) => origin[q].key \in Keys
    BY DEF PaymentInv, Holder, InFlight
  <2>4. QED
    BY <2>1, <2>2, <2>3 DEF KeyInv
<1>4. ReplayIsTheTakenPayment'
  BY DEF TypeOK, PaymentInv, KeyInv, InFlight, ReplayIsTheTakenPayment, SETTLED
<1>5. PassInv'
  BY DEF TypeOK, PaymentInv, PassInv, Askable, SETTLED
<1>6. RefundInv' /\ PaidInv'
  BY DEF TypeOK, PaymentInv, RefundInv, PaidInv, SETTLED
<1>7. QED
  BY <1>1, <1>2, <1>3, <1>4, <1>5, <1>6

(* An answer that is not captured leaves the payment UNKNOWN.               *)
LEMMA CaptureUnrecognisedStep ==
  ASSUME IInv, NEW p \in Payments, CaptureUnrecognised(p)
  PROVE  IInv'
<1> USE DEF IInv, CaptureUnrecognised, GiveUp, Moved
<1>1. TypeOK'
  <2>1. createKey' \in [Keys -> KeyRecord]
    BY DEF TypeOK, KeyRecord, PaymentInv
  <2>2. QED
    BY <2>1 DEF TypeOK, PaymentState, OriginRecord
<1>2. PaymentInv'
  BY DEF TypeOK, PaymentInv, BeforeCapture, SETTLED
<1>3. KeyInv'
  BY DEF TypeOK, PaymentInv, KeyInv, Holder, InFlight
<1>4. ReplayIsTheTakenPayment'
  BY DEF TypeOK, PaymentInv, KeyInv, InFlight, ReplayIsTheTakenPayment, SETTLED
<1>5. PassInv'
  BY DEF TypeOK, PaymentInv, PassInv, Askable, SETTLED
<1>6. RefundInv' /\ PaidInv'
  BY DEF TypeOK, PaymentInv, RefundInv, PaidInv, SETTLED
<1>7. QED
  BY <1>1, <1>2, <1>3, <1>4, <1>5, <1>6

(* A stray exception leaves record and key as they were.                    *)
LEMMA CreateRaisesStep ==
  ASSUME IInv, NEW p \in Payments, CreateRaises(p)
  PROVE  IInv'
<1> USE DEF IInv, CreateRaises, GiveUp
<1>1. TypeOK'
  <2>1. createKey' \in [Keys -> KeyRecord]
    BY DEF TypeOK, KeyRecord, PaymentInv
  <2>2. QED
    BY <2>1 DEF TypeOK, PaymentState, OriginRecord
<1>2. PaymentInv'
  BY DEF TypeOK, PaymentInv, BeforeCapture, SETTLED
<1>3. KeyInv'
  BY DEF TypeOK, PaymentInv, KeyInv, Holder, InFlight
<1>4. ReplayIsTheTakenPayment'
  BY DEF TypeOK, PaymentInv, KeyInv, InFlight, ReplayIsTheTakenPayment, SETTLED
<1>5. PassInv'
  BY DEF TypeOK, PaymentInv, PassInv, Askable, SETTLED
<1>6. RefundInv' /\ PaidInv'
  BY DEF TypeOK, PaymentInv, RefundInv, PaidInv, SETTLED
<1>7. QED
  BY <1>1, <1>2, <1>3, <1>4, <1>5, <1>6

(* The payment the provider took settles, and its key replays it.           *)
LEMMA CaptureConfirmedStep ==
  ASSUME IInv, NEW p \in Payments, CaptureConfirmed(p)
  PROVE  IInv'
<1> USE DEF IInv, CaptureConfirmed, Take, MarkCaptured, CaptureFor
<1>1. TypeOK'
  <2>1. createKey' \in [Keys -> KeyRecord]
    BY DEF TypeOK, KeyRecord, PaymentInv
  <2>2. QED
    BY <2>1 DEF TypeOK, PaymentState, OriginRecord
<1>2. PaymentInv'
  BY DEF TypeOK, PaymentInv, BeforeCapture, SETTLED
<1>3. KeyInv'
  BY DEF TypeOK, PaymentInv, KeyInv, Holder, InFlight
<1>4. ReplayIsTheTakenPayment'
  BY DEF TypeOK, PaymentInv, KeyInv, InFlight, ReplayIsTheTakenPayment, SETTLED
<1>5. PassInv'
  BY DEF TypeOK, PaymentInv, PassInv, Askable, SETTLED
<1>6. RefundInv' /\ PaidInv'
  BY DEF TypeOK, PaymentInv, RefundInv, PaidInv, SETTLED
<1>7. QED
  BY <1>1, <1>2, <1>3, <1>4, <1>5, <1>6

(* A key that runs out takes every payment made under it along.             *)
LEMMA ExpireKeyStep ==
  ASSUME IInv, NEW k \in Keys, ExpireKey(k)
  PROVE  IInv'
<1> USE DEF IInv, ExpireKey, FreeKey, recordVars, providerVars
<1>1. TypeOK'
  <2>1. createKey' \in [Keys -> KeyRecord]
    BY DEF TypeOK, KeyRecord
  <2>2. QED
    BY <2>1 DEF TypeOK
<1>2. PaymentInv'
  BY DEF TypeOK, PaymentInv, BeforeCapture, SETTLED
<1>3. KeyInv'
  BY DEF TypeOK, PaymentInv, KeyInv, Holder, InFlight
<1>4. ReplayIsTheTakenPayment'
  BY DEF TypeOK, PaymentInv, KeyInv, InFlight, ReplayIsTheTakenPayment, SETTLED
<1>5. PassInv'
  BY DEF TypeOK, PaymentInv, PassInv, Askable, SETTLED
<1>6. RefundInv' /\ PaidInv'
  BY DEF TypeOK, PaymentInv, RefundInv, PaidInv, SETTLED
<1>7. QED
  BY <1>1, <1>2, <1>3, <1>4, <1>5, <1>6

(* A refund is asked for only of a payment that holds money.                *)
LEMMA RequestRefundStep ==
  ASSUME IInv, NEW k \in RefundKeys, NEW p \in Payments,
         NEW amount \in Nat, RequestRefund(k, p, amount)
  PROVE  IInv'
<1> USE DEF IInv, RequestRefund, recordVars, providerVars, HOLDS_MONEY
<1>1. TypeOK'
  <2>1. refund' \in [RefundKeys -> RefundRecord]
    BY DEF TypeOK, RefundRecord
  <2>2. QED
    BY <2>1 DEF TypeOK
<1>2. PaymentInv' /\ KeyInv' /\ ReplayIsTheTakenPayment' /\ PaidInv'
  BY BooksUntouched
<1>3. PassInv'
  BY DEF PassInv, Askable
<1>4. RefundInv'
  BY DEF TypeOK, RefundInv, SETTLED
<1>5. QED
  BY <1>1, <1>2, <1>3, <1>4

(* A refund whose answer is lost is no longer waited for.                   *)
LEMMA RefundTimesOutStep ==
  ASSUME IInv, NEW k \in RefundKeys, RefundTimesOut(k)
  PROVE  IInv'
<1> USE DEF IInv, RefundTimesOut, recordVars, providerVars
<1>1. TypeOK'
  <2>1. refund[k] \in RefundRecord
    BY DEF TypeOK
  <2>2. [refund[k] EXCEPT !.waiting = FALSE] \in RefundRecord
    BY <2>1, Zenon DEF RefundRecord
  <2>3. refund' \in [RefundKeys -> RefundRecord]
    BY <2>2 DEF TypeOK
  <2>4. QED
    BY <2>3 DEF TypeOK
<1>2. PaymentInv' /\ KeyInv' /\ ReplayIsTheTakenPayment' /\ PaidInv'
  BY BooksUntouched
<1>3. PassInv'
  BY DEF PassInv, Askable
<1>4. RefundInv'
  BY DEF TypeOK, RefundInv, SETTLED
<1>5. QED
  BY <1>1, <1>2, <1>3, <1>4

(* A refused refund frees its key.                                          *)
LEMMA RefundRefusedStep ==
  ASSUME IInv, NEW k \in RefundKeys, RefundRefused(k)
  PROVE  IInv'
<1> USE DEF IInv, RefundRefused, IdleRefund, recordVars, providerVars
<1>1. TypeOK'
  <2>1. refund' \in [RefundKeys -> RefundRecord]
    BY DEF TypeOK, RefundRecord
  <2>2. QED
    BY <2>1 DEF TypeOK
<1>2. PaymentInv' /\ KeyInv' /\ ReplayIsTheTakenPayment' /\ PaidInv'
  BY BooksUntouched
<1>3. PassInv'
  BY DEF PassInv, Askable
<1>4. RefundInv'
  BY DEF TypeOK, RefundInv, SETTLED
<1>5. QED
  BY <1>1, <1>2, <1>3, <1>4

(* So does the end of the key's life.                                       *)
LEMMA ExpireRefundKeyStep ==
  ASSUME IInv, NEW k \in RefundKeys, ExpireRefundKey(k)
  PROVE  IInv'
<1> USE DEF IInv, ExpireRefundKey, IdleRefund, recordVars, providerVars
<1>1. TypeOK'
  <2>1. refund' \in [RefundKeys -> RefundRecord]
    BY DEF TypeOK, RefundRecord
  <2>2. QED
    BY <2>1 DEF TypeOK
<1>2. PaymentInv' /\ KeyInv' /\ ReplayIsTheTakenPayment' /\ PaidInv'
  BY BooksUntouched
<1>3. PassInv'
  BY DEF PassInv, Askable
<1>4. RefundInv'
  BY DEF TypeOK, RefundInv, SETTLED
<1>5. QED
  BY <1>1, <1>2, <1>3, <1>4

(* The provider's refusal is only an answer.                                *)
LEMMA ProviderRefusesRefundStep ==
  ASSUME IInv, NEW k \in RefundKeys, ProviderRefusesRefund(k)
  PROVE  IInv'
<1> USE DEF IInv, ProviderRefusesRefund, recordVars, providerVars
<1>1. TypeOK'
  <2>1. refund[k] \in RefundRecord
    BY DEF TypeOK
  <2>2. [refund[k] EXCEPT !.call = "refused"] \in RefundRecord
    BY <2>1, Zenon DEF RefundRecord
  <2>3. refund' \in [RefundKeys -> RefundRecord]
    BY <2>2 DEF TypeOK
  <2>4. QED
    BY <2>3 DEF TypeOK
<1>2. PaymentInv' /\ KeyInv' /\ ReplayIsTheTakenPayment' /\ PaidInv'
  BY BooksUntouched
<1>3. PassInv'
  BY DEF PassInv, Askable
<1>4. RefundInv'
  BY DEF TypeOK, RefundInv, SETTLED
<1>5. QED
  BY <1>1, <1>2, <1>3, <1>4

(* Money sent back stays at the provider until it is booked.                *)
LEMMA ProviderRefundsStep ==
  ASSUME IInv, NEW k \in RefundKeys, ProviderRefunds(k)
  PROVE  IInv'
<1> USE DEF IInv, ProviderRefunds, recordVars
<1>1. TypeOK'
  <2>1. refund' \in [RefundKeys -> RefundRecord]
    BY DEF TypeOK, RefundRecord
  <2>2. /\ refund[k].of \in Payments /\ refund[k].amount \in Nat
        /\ sentBack' = [sentBack EXCEPT ![refund[k].of] = @ + refund[k].amount]
    BY DEF TypeOK, RefundInv, RefundRecord
  <2>3. sentBack' \in [Payments -> Nat]
    BY <2>2 DEF TypeOK
  <2>4. QED
    BY <2>1, <2>3 DEF TypeOK
<1>2. PaymentInv' /\ KeyInv' /\ ReplayIsTheTakenPayment' /\ PaidInv'
  BY BooksUntouched
<1>3. PassInv'
  BY DEF PassInv, Askable
<1>4. RefundInv'
  BY DEF TypeOK, RefundInv, SETTLED
<1>5. QED
  BY <1>1, <1>2, <1>3, <1>4

(* Booking a refund moves a settled payment to a settled state.             *)
LEMMA RefundConfirmedStep ==
  ASSUME IInv, NEW k \in RefundKeys, RefundConfirmed(k)
  PROVE  IInv'
<1> DEFINE p == refund[k].of
<1> USE DEF IInv, RefundConfirmed, BookRefund, providerVars
<1>1. /\ p \in Payments /\ status[p] \in SETTLED /\ refund[k].amount \in Nat
      /\ \E target \in {"refunded", "partially_refunded"} :
           status' = [status EXCEPT ![p] = target]
      /\ refunded' = [refunded EXCEPT ![p] = @ + refund[k].amount]
      /\ refund' = [refund EXCEPT ![k].waiting = FALSE, ![k].key = "completed"]
  BY DEF TypeOK, RefundInv, RefundRecord, RefundState
<1>2. /\ \A q \in Payments \ {p} : status'[q] = status[q]
      /\ status[p] \in SETTLED /\ status'[p] \in SETTLED
  BY <1>1 DEF TypeOK, SETTLED
<1>3. TypeOK'
  <2>1. refund' \in [RefundKeys -> RefundRecord]
    <3>1. refund[k] \in RefundRecord
      BY DEF TypeOK
    <3>2. [refund[k] EXCEPT !.waiting = FALSE, !.key = "completed"] \in RefundRecord
      BY <3>1, Zenon DEF RefundRecord
    <3>3. QED
      BY <1>1, <3>2 DEF TypeOK
  <2>2. refunded' \in [Payments -> Nat]
    BY <1>1 DEF TypeOK
  <2>3. status' \in [Payments -> PaymentState \union {"absent"}]
    BY <1>1 DEF TypeOK, PaymentState
  <2>4. QED
    BY <2>1, <2>2, <2>3 DEF TypeOK
<1>4. PaymentInv'
  BY <1>2 DEF PaymentInv, SETTLED
<1>5. KeyInv'
  BY <1>2 DEF KeyInv, Holder, InFlight, SETTLED
<1>6. ReplayIsTheTakenPayment' /\ PaidInv'
  BY <1>2 DEF ReplayIsTheTakenPayment, PaidInv
<1>7. PassInv'
  BY <1>2 DEF PassInv, Askable, SETTLED
<1>8. RefundInv'
  BY <1>1, <1>2 DEF TypeOK, RefundInv
<1>9. QED
  BY <1>3, <1>4, <1>5, <1>6, <1>7, <1>8

(* A pass starts with payments that are UNKNOWN.                            *)
LEMMA StartWorkerPassStep ==
  ASSUME IInv, NEW c \in Reconcilers, StartWorkerPass(c)
  PROVE  IInv'
<1> USE DEF IInv, StartWorkerPass, recordVars, providerVars
<1>1. Unresolved \in SUBSET Payments /\ \A q \in Unresolved : Askable(q)
  BY DEF Unresolved, PaymentInv, Askable, TypeOK
<1>2. TypeOK'
  <2>1. pass' \in [Reconcilers -> PassRecord]
    BY <1>1, AskNextKeepsToSnapshot
  <2>2. QED
    BY <2>1 DEF TypeOK
<1>3. PaymentInv' /\ KeyInv' /\ ReplayIsTheTakenPayment' /\ PaidInv'
  BY BooksUntouched
<1>4. PassInv'
  <2>1. \A q \in Payments : Askable(q) => Askable(q)'
    BY DEF Askable
  <2>2. QED
    BY <1>1, <2>1, NextQuestion DEF providerVars
<1>5. RefundInv'
  BY DEF RefundInv
<1>6. QED
  BY <1>2, <1>3, <1>4, <1>5

(* A status read asks about one of them.                                    *)
LEMMA StartStatusReadStep ==
  ASSUME IInv, NEW c \in Reconcilers, NEW p \in Payments, StartStatusRead(c, p)
  PROVE  IInv'
<1> USE DEF IInv, StartStatusRead, recordVars, providerVars
<1>1. {p} \in SUBSET Payments /\ \A q \in {p} : Askable(q)
  BY DEF Unresolved, PaymentInv, Askable, TypeOK
<1>2. TypeOK'
  <2>1. pass' \in [Reconcilers -> PassRecord]
    BY <1>1, AskNextKeepsToSnapshot
  <2>2. QED
    BY <2>1 DEF TypeOK
<1>3. PaymentInv' /\ KeyInv' /\ ReplayIsTheTakenPayment' /\ PaidInv'
  BY BooksUntouched
<1>4. PassInv'
  <2>1. \A q \in Payments : Askable(q) => Askable(q)'
    BY DEF Askable
  <2>2. QED
    BY <1>1, <2>1, NextQuestion DEF providerVars
<1>5. RefundInv'
  BY DEF RefundInv
<1>6. QED
  BY <1>2, <1>3, <1>4, <1>5

(* A pass that leaves the payment as it is moves on, or ends.               *)
LEMMA ReconcileLeavesStep ==
  ASSUME IInv, NEW c \in Reconcilers, ReconcileLeaves(c) \/ ReconcileRaises(c)
  PROVE  IInv'
<1> USE DEF IInv, ReconcileLeaves, ReconcileRaises, recordVars, providerVars
<1>1. PICK snapshot \in {pass[c].todo, {}} : AskNext(c, snapshot)
  OBVIOUS
<1>2. snapshot \in SUBSET Payments /\ \A q \in snapshot : Askable(q)
  BY DEF TypeOK, PassRecord, PassInv
<1>3. TypeOK'
  <2>1. pass' \in [Reconcilers -> PassRecord]
    BY <1>1, <1>2, AskNextKeepsToSnapshot
  <2>2. QED
    BY <2>1 DEF TypeOK
<1>4. PaymentInv' /\ KeyInv' /\ ReplayIsTheTakenPayment' /\ PaidInv'
  BY BooksUntouched
<1>5. PassInv'
  <2>1. \A q \in Payments : Askable(q) => Askable(q)'
    BY DEF Askable
  <2>2. QED
    BY <1>1, <1>2, <2>1, NextQuestion
<1>6. RefundInv'
  BY DEF RefundInv
<1>7. QED
  BY <1>3, <1>4, <1>5, <1>6

(* The payment a pass settles was taken by the provider, and its handler    *)
(* has given it up.                                                         *)
LEMMA ReconcileCapturedStep ==
  ASSUME IInv, NEW c \in Reconcilers, ReconcileCaptured(c)
  PROVE  IInv'
<1> DEFINE p == pass[c].asking
<1> USE DEF IInv, ReconcileCaptured, MarkCaptured, CaptureFor, providerVars
<1>1. /\ p \in Payments /\ Askable(p)
      /\ status' = [status EXCEPT ![p] = "captured"]
      /\ captured' = [captured EXCEPT ![p] = origin[p].amount]
      /\ reference' = reference /\ charge[p] = "captured"
      /\ AskNext(c, pass[c].todo)
  BY DEF TypeOK, PassRecord, PassInv, Askable
<1>2. TypeOK'
  <2>1. pass' \in [Reconcilers -> PassRecord]
    BY <1>1, AskNextKeepsToSnapshot DEF TypeOK, PassRecord
  <2>2. QED
    BY <1>1, <2>1 DEF TypeOK, PaymentState, OriginRecord
<1>3. PaymentInv'
  BY <1>1 DEF TypeOK, PaymentInv, Askable, SETTLED
<1>4. KeyInv'
  BY <1>1 DEF TypeOK, PaymentInv, KeyInv, Holder, InFlight, Askable, SETTLED
<1>5. ReplayIsTheTakenPayment' /\ PaidInv'
  BY <1>1 DEF TypeOK, ReplayIsTheTakenPayment, PaidInv, SETTLED
<1>6. PassInv'
  <2>1. \A q \in Payments : Askable(q) => Askable(q)'
    BY <1>1 DEF TypeOK, Askable, SETTLED
  <2>2. QED
    BY <1>1, <2>1, NextQuestion DEF PassInv, TypeOK, PassRecord
<1>7. RefundInv'
  BY <1>1 DEF TypeOK, RefundInv, SETTLED
<1>8. QED
  BY <1>2, <1>3, <1>4, <1>5, <1>6, <1>7

(* A payment a pass fails was refused by the provider.                      *)
LEMMA ReconcileFailedStep ==
  ASSUME IInv, NEW c \in Reconcilers, ReconcileFailed(c)
  PROVE  IInv'
<1> DEFINE p == pass[c].asking
<1> USE DEF IInv, ReconcileFailed, Moved, providerVars
<1>1. /\ p \in Payments /\ Askable(p)
      /\ status' = [status EXCEPT ![p] = IF @ = "unknown" THEN "failed" ELSE @]
      /\ charge[p] = "refused"
      /\ AskNext(c, pass[c].todo)
  BY DEF TypeOK, PassRecord, PassInv, Askable
<1>2. TypeOK'
  <2>1. pass' \in [Reconcilers -> PassRecord]
    BY <1>1, AskNextKeepsToSnapshot DEF TypeOK, PassRecord
  <2>2. QED
    BY <1>1, <2>1 DEF TypeOK, PaymentState, OriginRecord
<1>3. PaymentInv'
  BY <1>1 DEF TypeOK, PaymentInv, Askable, SETTLED
<1>4. KeyInv'
  BY <1>1 DEF TypeOK, PaymentInv, KeyInv, Holder, InFlight, Askable, SETTLED
<1>5. ReplayIsTheTakenPayment' /\ PaidInv'
  BY <1>1 DEF TypeOK, ReplayIsTheTakenPayment, PaidInv, SETTLED
<1>6. PassInv'
  <2>1. \A q \in Payments : Askable(q) => Askable(q)'
    BY <1>1 DEF TypeOK, Askable, SETTLED
  <2>2. QED
    BY <1>1, <2>1, NextQuestion DEF PassInv, TypeOK, PassRecord
<1>7. RefundInv'
  BY <1>1 DEF TypeOK, RefundInv, SETTLED
<1>8. QED
  BY <1>2, <1>3, <1>4, <1>5, <1>6, <1>7

(* The provider knows of an order once it accepted it, and says so.         *)
LEMMA ProviderOrdersStep ==
  ASSUME IInv, NEW p \in Payments, ProviderOrders(p)
  PROVE  IInv'
<1> USE DEF IInv, recordVars
<1>1. /\ handler[p] = "ordering" /\ reply[p] = "none"
      /\ \/ /\ charge' = [charge EXCEPT ![p] = "ordered"]
            /\ reply' = [reply EXCEPT ![p] = "ok"]
         \/ charge' = charge /\ reply' = [reply EXCEPT ![p] = "error"]
      /\ UNCHANGED <<recordVars, paidBy, createKey, handler, refund, pass, sentBack, expired>>
  BY DEF ProviderOrders, Heard
<1>2. \A q \in Payments \ {p} : charge'[q] = charge[q] /\ reply'[q] = reply[q]
  BY <1>1 DEF TypeOK
<1>3. TypeOK'
  BY <1>1 DEF TypeOK
<1>4. PaymentInv'
  BY <1>1, <1>2 DEF TypeOK, PaymentInv
<1>5. KeyInv' /\ ReplayIsTheTakenPayment' /\ PaidInv' /\ RefundInv'
  BY <1>1 DEF KeyInv, Holder, InFlight, ReplayIsTheTakenPayment, PaidInv, RefundInv
<1>6. PassInv'
  BY <1>1, <1>2 DEF TypeOK, PassRecord, PassInv, Askable
<1>7. QED
  BY <1>3, <1>4, <1>5, <1>6

(* It decides a capture once, and no answer about it was true before.       *)
LEMMA ProviderDecidesStep ==
  ASSUME IInv, NEW p \in Payments, ProviderDecides(p)
  PROVE  IInv'
<1> USE DEF IInv, recordVars
<1>1. /\ charge[p] = "ordered" /\ handler[p] \in {"capturing", "returned"}
      /\ \E decision \in {"captured", "refused"} :
           /\ charge' = [charge EXCEPT ![p] = decision]
           /\ \/ reply' = reply
              \/ \E a \in {"ok", "odd", "error"} :
                   /\ reply' = [reply EXCEPT ![p] = a]
                   /\ a = "ok" => decision = "captured"
                   /\ a = "error" => decision = "refused"
                   /\ handler[p] = "capturing"
      /\ UNCHANGED <<recordVars, paidBy, createKey, handler, refund, pass, sentBack, expired>>
  BY DEF ProviderDecides, Heard, PaymentInv, TypeOK
<1>2. \A q \in Payments \ {p} : charge'[q] = charge[q] /\ reply'[q] = reply[q]
  BY <1>1 DEF TypeOK
<1>3. TypeOK'
  BY <1>1 DEF TypeOK
<1>4. PaymentInv'
  BY <1>1, <1>2 DEF TypeOK, PaymentInv
<1>5. KeyInv' /\ ReplayIsTheTakenPayment' /\ PaidInv' /\ RefundInv'
  BY <1>1 DEF KeyInv, Holder, InFlight, ReplayIsTheTakenPayment, PaidInv, RefundInv
<1>6. PassInv'
  BY <1>1, <1>2 DEF TypeOK, PassRecord, PassInv, Askable
<1>7. QED
  BY <1>3, <1>4, <1>5, <1>6

(* An answer that decides nothing claims nothing.                           *)
LEMMA ProviderStallsStep ==
  ASSUME IInv, NEW p \in Payments, ProviderStalls(p)
  PROVE  IInv'
<1> USE DEF IInv, recordVars
<1>1. /\ handler[p] = "capturing" /\ charge' = charge
      /\ reply' = [reply EXCEPT ![p] = "odd"]
      /\ UNCHANGED <<recordVars, paidBy, createKey, handler, refund, pass, sentBack, expired>>
  BY DEF ProviderStalls, Heard
<1>2. \A q \in Payments \ {p} : charge'[q] = charge[q] /\ reply'[q] = reply[q]
  BY <1>1 DEF TypeOK
<1>3. TypeOK'
  BY <1>1 DEF TypeOK
<1>4. PaymentInv'
  BY <1>1, <1>2 DEF TypeOK, PaymentInv
<1>5. KeyInv' /\ ReplayIsTheTakenPayment' /\ PaidInv' /\ RefundInv'
  BY <1>1 DEF KeyInv, Holder, InFlight, ReplayIsTheTakenPayment, PaidInv, RefundInv
<1>6. PassInv'
  BY <1>1, <1>2 DEF TypeOK, PassRecord, PassInv, Askable
<1>7. QED
  BY <1>3, <1>4, <1>5, <1>6

(* A status answer is true of the charge it was asked about.                *)
LEMMA ProviderReportsStatusStep ==
  ASSUME IInv, NEW c \in Reconcilers, ProviderReportsStatus(c)
  PROVE  IInv'
<1> DEFINE p == pass[c].asking
<1> USE DEF IInv, ProviderReportsStatus, recordVars, providerVars
<1>1. PICK answer \in {"captured", "failed", "unsettled"} :
        /\ pass' = [pass EXCEPT ![c].answer = answer]
        /\ answer = "captured" => charge[p] = "captured"
        /\ answer = "failed" => charge[p] = "refused"
  BY DEF StatusAt
<1>2. TypeOK'
  <2>1. [pass[c] EXCEPT !.answer = answer] \in PassRecord
    BY DEF TypeOK, PassRecord
  <2>2. pass' \in [Reconcilers -> PassRecord]
    BY <1>1, <2>1 DEF TypeOK
  <2>3. QED
    BY <2>2 DEF TypeOK
<1>3. PaymentInv' /\ KeyInv' /\ ReplayIsTheTakenPayment' /\ PaidInv'
  BY BooksUntouched
<1>4. PassInv'
  <2>1. /\ \A d \in Reconcilers \ {c} : pass'[d] = pass[d]
        /\ pass'[c].todo = pass[c].todo /\ pass'[c].asking = p /\ p # None
        /\ pass'[c].answer = answer
    BY <1>1 DEF TypeOK, PassRecord
  <2>2. QED
    BY <1>1, <2>1 DEF PassInv, Askable
<1>5. RefundInv'
  BY DEF RefundInv
<1>6. QED
  BY <1>2, <1>3, <1>4, <1>5

(* No step of the system leaves the invariant.                              *)
LEMMA NextIInv == IInv /\ [Next]_vars => IInv'
<1> SUFFICES ASSUME IInv, [Next]_vars PROVE IInv'
  OBVIOUS
<1>1. CASE CreateStep
  BY <1>1, CreatePaymentStep, OrderAcceptedStep, CreateTimesOutStep, CreateRefusedStep,
     CaptureUnrecognisedStep, CreateRaisesStep, CaptureConfirmedStep, ExpireKeyStep
     DEF CreateStep
<1>2. CASE RefundStep
  <2>1. \A p \in Payments : 1 .. captured[p] \subseteq Nat
    BY DEF IInv, TypeOK
  <2>2. QED
    BY <1>2, <2>1, RequestRefundStep, RefundConfirmedStep, RefundTimesOutStep,
       RefundRefusedStep, ExpireRefundKeyStep DEF RefundStep
<1>3. CASE ReconcileStep
  BY <1>3, StartWorkerPassStep, StartStatusReadStep, ReconcileCapturedStep,
     ReconcileFailedStep, ReconcileLeavesStep DEF ReconcileStep, Reconcilers
<1>4. CASE ProviderStep
  BY <1>4, ProviderOrdersStep, ProviderDecidesStep, ProviderStallsStep,
     ProviderRefundsStep, ProviderRefusesRefundStep, ProviderReportsStatusStep
     DEF ProviderStep
<1>5. CASE UNCHANGED vars
  BY <1>5, BooksUntouched DEF vars, recordVars, providerVars, IInv, TypeOK, PassInv,
     Askable, RefundInv
<1>6. QED
  BY <1>1, <1>2, <1>3, <1>4, <1>5 DEF Next

(* The invariant holds throughout every behaviour.                          *)
LEMMA Invariant == Spec => []IInv
<1>1. QED
  BY InitIInv, NextIInv, PTL DEF Spec

(* Every variable of the payment engine keeps its type.                     *)
THEOREM TypeCorrect == Spec => []TypeOK
<1>1. IInv => TypeOK
  BY DEF IInv
<1>2. QED
  BY <1>1, Invariant, PTL

(* Whatever answers are lost, a payment that reads settled took the money   *)
(* the order owed.                                                          *)
THEOREM SettledTookMoney == Spec => []SettledMeansCharged
<1>1. IInv => SettledMeansCharged
  BY DEF IInv, PaymentInv, SettledMeansCharged
<1>2. QED
  BY <1>1, Invariant, PTL

(* A payment booked as failed took none and never will.                     *)
THEOREM FailedTookNone == Spec => []FailedMeansNotCharged
<1>1. IInv => FailedMeansNotCharged
  BY DEF IInv, PaymentInv, FailedMeansNotCharged
<1>2. QED
  BY <1>1, Invariant, PTL

(* One key charges once while it lives: two payments that took money under  *)
(* it would both hold it, for neither is absent nor failed.                 *)
THEOREM OneChargePerKey == Spec => []ChargedOncePerKey
<1>1. IInv => ChargedOncePerKey
  <2>1. SUFFICES ASSUME IInv, NEW p \in Payments \ expired, charge[p] = "captured"
                 PROVE  Holder(p)
    BY DEF IInv, KeyInv, ChargedOncePerKey
  <2>2. QED
    BY <2>1 DEF IInv, PaymentInv, Holder
<1>2. QED
  BY <1>1, Invariant, PTL

(* A replayed response is that of a settled payment made under the key.     *)
THEOREM ReplaysAreTaken == Spec => []ReplayIsTheTakenPayment
<1>1. IInv => ReplayIsTheTakenPayment
  BY DEF IInv
<1>2. QED
  BY <1>1, Invariant, PTL

(* A paid order was charged, by a payment opened for it.                    *)
THEOREM PaidWasCharged == Spec => []PaidOrderWasCharged
<1>1. IInv => PaidOrderWasCharged
  BY DEF IInv, PaymentInv, PaidInv, PaidOrderWasCharged
<1>2. QED
  BY <1>1, Invariant, PTL

(* Only a refund moves the status of settled money, and to a settled state; *)
(* a reconciler that settles it again books the amount already booked.      *)
LEMMA SettledStays ==
  ASSUME IInv, Next, NEW p \in Payments, status[p] \in SETTLED
  PROVE  status'[p] \in SETTLED /\ captured'[p] = captured[p]
<1> USE DEF IInv, recordVars, providerVars
<1>1. CASE UNCHANGED <<status, captured>>
  BY <1>1
<1>2. ASSUME NEW q \in Payments, NEW k \in Keys, NEW o \in Orders, CreatePayment(q, k, o)
      PROVE  status'[p] \in SETTLED /\ captured'[p] = captured[p]
  BY <1>2 DEF CreatePayment, TypeOK, SETTLED
<1>3. ASSUME NEW q \in Payments, OrderAccepted(q) \/ CaptureConfirmed(q)
      PROVE  status'[p] \in SETTLED /\ captured'[p] = captured[p]
  BY <1>3 DEF OrderAccepted, SendCapture, CaptureConfirmed, Take, MarkCaptured,
              CaptureFor, TypeOK, PaymentInv, SETTLED
<1>4. ASSUME NEW q \in Payments,
             CreateTimesOut(q) \/ CreateRefused(q) \/ CaptureUnrecognised(q)
      PROVE  status'[p] \in SETTLED /\ captured'[p] = captured[p]
  BY <1>4 DEF CreateTimesOut, CreateRefused, CaptureUnrecognised, GiveUp, Moved,
              BeforeCapture, TypeOK, SETTLED
<1>5. ASSUME NEW k \in RefundKeys, RefundConfirmed(k)
      PROVE  status'[p] \in SETTLED /\ captured'[p] = captured[p]
  BY <1>5 DEF RefundConfirmed, BookRefund, RefundState, TypeOK, SETTLED
<1>6. ASSUME NEW c \in Reconcilers, ReconcileCaptured(c)
      PROVE  status'[p] \in SETTLED /\ captured'[p] = captured[p]
  BY <1>6 DEF ReconcileCaptured, MarkCaptured, CaptureFor, TypeOK, PaymentInv, SETTLED
<1>7. ASSUME NEW c \in Reconcilers, ReconcileFailed(c)
      PROVE  status'[p] \in SETTLED /\ captured'[p] = captured[p]
  BY <1>7 DEF ReconcileFailed, Moved, TypeOK, SETTLED
<1>8. CASE CreateStep
  BY <1>1, <1>2, <1>3, <1>4, <1>8 DEF CreateStep, CreateRaises, GiveUp, ExpireKey
<1>9. CASE RefundStep
  BY <1>1, <1>5, <1>9 DEF RefundStep, RequestRefund, RefundTimesOut, RefundRefused,
                          ExpireRefundKey
<1>10. CASE ReconcileStep
  BY <1>1, <1>6, <1>7, <1>10 DEF ReconcileStep, Reconcilers, StartWorkerPass,
                                 StartStatusRead, ReconcileLeaves, ReconcileRaises
<1>11. CASE ProviderStep
  BY <1>1, <1>11 DEF ProviderStep, ProviderOrders, ProviderDecides, ProviderStalls,
                     ProviderRefunds, ProviderRefusesRefund, ProviderReportsStatus
<1>12. QED
  BY <1>8, <1>9, <1>10, <1>11 DEF Next

(* Money that was taken never leaves the books, whoever writes to the       *)
(* record afterwards and however late.                                      *)
THEOREM SettledIsForever == Spec => SettledForever
<1>1. IInv /\ [Next]_vars =>
        [\A p \in Payments : status[p] \in SETTLED =>
           status'[p] \in SETTLED /\ captured'[p] = captured[p]]_vars
  BY SettledStays
<1>2. QED
  BY <1>1, Invariant, PTL DEF Spec, SettledForever
-----------------------------------------------------------------------------
(* A refund the provider has sent and its handler has not yet booked.       *)
Unheard(k) == refund[k].waiting /\ refund[k].call = "done"

(* What was sent back belongs to money that was taken, and does not exceed  *)
(* it if the provider sees to that; a refund that may still be sent is of   *)
(* such money too.                                                          *)
SentInv ==
  /\ \A p \in Payments :
       /\ ProviderCaps => sentBack[p] <= origin[p].amount
       /\ sentBack[p] > 0 => status[p] \in SETTLED
  /\ \A k \in RefundKeys :
       /\ refund[k].call = "sent" => status[refund[k].of] \in SETTLED
       /\ refund[k].waiting => refund[k].amount > 0

(* The unheard refunds of one payment lie side by side, at the places base  *)
(* gives them, in what the provider sent and the books do not show yet.     *)
SideBySide(base) ==
  \A k \in RefundKeys : Unheard(k) =>
    /\ refunded[refund[k].of] + base[k] + refund[k].amount <= sentBack[refund[k].of]
    /\ \A j \in RefundKeys \ {k} : Unheard(j) /\ refund[j].of = refund[k].of =>
         base[j] + refund[j].amount <= base[k] \/ base[k] + refund[k].amount <= base[j]

BookingInv ==
  /\ \A p \in Payments : refunded[p] <= sentBack[p]
  /\ \E base \in [RefundKeys -> Nat] : SideBySide(base)

(* A refund the provider sends takes its place after all that it sent.      *)
LEMMA PlaceForOneMore ==
  ASSUME IInv, BookingInv, NEW k \in RefundKeys, ProviderRefunds(k)
  PROVE  BookingInv'
<1> DEFINE p == refund[k].of
           amount == refund[k].amount
<1>1. /\ p \in Payments /\ amount \in Nat /\ refund[k].call = "sent"
      /\ \A q \in Payments : sentBack[q] \in Nat /\ refunded[q] \in Nat
      /\ \A j \in RefundKeys : refund[j].amount \in Nat
      /\ \A j \in RefundKeys : Unheard(j) => refund[j].of \in Payments
  BY DEF ProviderRefunds, IInv, TypeOK, RefundRecord, RefundInv, Unheard
<1>2. /\ sentBack'[p] = sentBack[p] + amount
      /\ \A q \in Payments \ {p} : sentBack'[q] = sentBack[q]
      /\ refunded' = refunded
      /\ refund'[k].of = p /\ refund'[k].amount = amount
      /\ \A j \in RefundKeys \ {k} : refund'[j] = refund[j]
  BY <1>1 DEF ProviderRefunds, IInv, TypeOK, RefundRecord, recordVars
<1>3. PICK base \in [RefundKeys -> Nat] : SideBySide(base)
  BY DEF BookingInv
<1> DEFINE room == sentBack[p] - refunded[p]
<1>4. /\ room \in Nat
      /\ \E placed \in [RefundKeys -> Nat] :
           placed[k] = room /\ \A j \in RefundKeys \ {k} : placed[j] = base[j]
  <2>1. room \in Nat /\ [base EXCEPT ![k] = room] \in [RefundKeys -> Nat]
    BY <1>1 DEF BookingInv
  <2>2. QED
    BY <2>1
<1> PICK placed \in [RefundKeys -> Nat] :
      placed[k] = room /\ \A j \in RefundKeys \ {k} : placed[j] = base[j]
  BY <1>4
<1>5. \A j \in RefundKeys \ {k} : Unheard(j)' <=> Unheard(j)
  BY <1>2 DEF Unheard
<1>6. SideBySide(placed)'
  <2> SUFFICES ASSUME NEW j \in RefundKeys, Unheard(j)'
               PROVE  /\ refunded'[refund'[j].of] + placed[j] + refund'[j].amount
                           <= sentBack'[refund'[j].of]
                      /\ \A i \in RefundKeys \ {j} : Unheard(i)' /\ refund'[i].of = refund'[j].of =>
                           \/ placed[i] + refund'[i].amount <= placed[j]
                           \/ placed[j] + refund'[j].amount <= placed[i]
    BY DEF SideBySide
  <2>1. \A i \in RefundKeys \ {k} : Unheard(i) /\ refund[i].of = p =>
          base[i] + refund[i].amount <= room
    BY <1>1, <1>3 DEF SideBySide
  <2>2. CASE j = k
    BY <1>1, <1>2, <1>4, <1>5, <2>1, <2>2
  <2>3. CASE j # k
    <3>1. /\ Unheard(j) /\ refund'[j] = refund[j] /\ placed[j] = base[j]
          /\ refund[j].of \in Payments /\ base[j] \in Nat /\ refund[j].amount \in Nat
      BY <1>1, <1>2, <1>4, <1>5, <2>3
    <3>2. refunded'[refund'[j].of] + placed[j] + refund'[j].amount <= sentBack'[refund'[j].of]
      BY <1>1, <1>2, <1>3, <3>1 DEF SideBySide
    <3>3. ASSUME NEW i \in RefundKeys \ {j}, Unheard(i)', refund'[i].of = refund'[j].of
          PROVE  \/ placed[i] + refund'[i].amount <= placed[j]
                 \/ placed[j] + refund'[j].amount <= placed[i]
      <4>1. CASE i = k
        BY <1>2, <1>4, <2>1, <2>3, <3>1, <3>3, <4>1
      <4>2. CASE i # k
        BY <1>2, <1>3, <1>4, <1>5, <3>1, <3>3, <4>2 DEF SideBySide
      <4>3. QED
        BY <4>1, <4>2
    <3>4. QED
      BY <3>2, <3>3
  <2>4. QED
    BY <2>2, <2>3
<1>7. \A q \in Payments : refunded'[q] <= sentBack'[q]
  BY <1>1, <1>2 DEF BookingInv
<1>8. QED
  BY <1>4, <1>6, <1>7 DEF BookingInv

(* A refund that is booked leaves its place, and those after it close up.   *)
LEMMA PlacesCloseUp ==
  ASSUME IInv, SentInv, BookingInv, NEW k \in RefundKeys, RefundConfirmed(k)
  PROVE  BookingInv'
<1> DEFINE p == refund[k].of
           amount == refund[k].amount
<1>1. /\ p \in Payments /\ amount \in Nat /\ Unheard(k)
      /\ \A q \in Payments : sentBack[q] \in Nat /\ refunded[q] \in Nat
      /\ \A j \in RefundKeys : refund[j].amount \in Nat
      /\ \A j \in RefundKeys : Unheard(j) => refund[j].of \in Payments /\ refund[j].amount > 0
  BY DEF RefundConfirmed, BookRefund, IInv, TypeOK, RefundRecord, RefundInv, Unheard, SentInv
<1>2. /\ refunded'[p] = refunded[p] + amount
      /\ \A q \in Payments \ {p} : refunded'[q] = refunded[q]
      /\ sentBack' = sentBack
      /\ ~Unheard(k)'
      /\ \A j \in RefundKeys \ {k} : refund'[j] = refund[j]
  BY <1>1 DEF RefundConfirmed, BookRefund, IInv, TypeOK, RefundRecord, providerVars, Unheard
<1>3. PICK base \in [RefundKeys -> Nat] : SideBySide(base)
  BY DEF BookingInv
<1> DEFINE after(j) == refund[j].of = p /\ base[j] > base[k]
           place(j) == IF Unheard(j) /\ after(j) THEN base[j] - amount ELSE base[j]
<1>4. \A j \in RefundKeys \ {k} : Unheard(j) /\ refund[j].of = p =>
        IF base[j] > base[k] THEN base[k] + amount <= base[j]
                             ELSE base[j] + refund[j].amount <= base[k]
  BY <1>1, <1>3 DEF SideBySide
<1>5. PICK closed \in [RefundKeys -> Nat] : \A j \in RefundKeys : closed[j] = place(j)
  <2>1. \A j \in RefundKeys : place(j) \in Nat
    BY <1>1, <1>4
  <2> HIDE DEF place
  <2>2. [j \in RefundKeys |-> place(j)] \in [RefundKeys -> Nat]
    BY <2>1
  <2>3. QED
    BY <2>2
<1>6. \A j \in RefundKeys \ {k} : Unheard(j)' <=> Unheard(j)
  BY <1>2 DEF Unheard
<1>7. SideBySide(closed)'
  <2> SUFFICES ASSUME NEW j \in RefundKeys, Unheard(j)'
               PROVE  /\ refunded'[refund'[j].of] + closed[j] + refund'[j].amount
                           <= sentBack'[refund'[j].of]
                      /\ \A i \in RefundKeys \ {j} : Unheard(i)' /\ refund'[i].of = refund'[j].of =>
                           \/ closed[i] + refund'[i].amount <= closed[j]
                           \/ closed[j] + refund'[j].amount <= closed[i]
    BY DEF SideBySide
  <2>1. /\ j # k /\ Unheard(j) /\ refund'[j] = refund[j] /\ refund[j].of \in Payments
        /\ base[j] \in Nat /\ refund[j].amount \in Nat /\ refund[j].amount > 0
    BY <1>1, <1>2, <1>6
  <2>2. refunded[p] + base[k] + amount <= sentBack[p]
    BY <1>1, <1>3 DEF SideBySide
  <2>3. refunded[refund[j].of] + base[j] + refund[j].amount <= sentBack[refund[j].of]
    BY <1>3, <2>1 DEF SideBySide
  <2>4. closed[j] = IF after(j) THEN base[j] - amount ELSE base[j]
    BY <1>5, <2>1
  <2>5. ASSUME NEW i \in RefundKeys \ {j}, Unheard(i)', refund'[i].of = refund'[j].of
        PROVE  \/ closed[i] + refund'[i].amount <= closed[j]
               \/ closed[j] + refund'[j].amount <= closed[i]
    <3>1. /\ i # k /\ Unheard(i) /\ refund'[i] = refund[i] /\ base[i] \in Nat
          /\ refund[i].amount \in Nat /\ refund[i].amount > 0 /\ refund[i].of = refund[j].of
      BY <1>1, <1>2, <1>6, <2>1, <2>5
    <3>2. closed[i] = IF after(i) THEN base[i] - amount ELSE base[i]
      BY <1>5, <3>1
    <3>3. base[i] + refund[i].amount <= base[j] \/ base[j] + refund[j].amount <= base[i]
      BY <1>3, <2>1, <3>1 DEF SideBySide
    <3>4. CASE refund[j].of = p
      <4>1. /\ IF base[j] > base[k] THEN base[k] + amount <= base[j]
                                    ELSE base[j] + refund[j].amount <= base[k]
            /\ IF base[i] > base[k] THEN base[k] + amount <= base[i]
                                    ELSE base[i] + refund[i].amount <= base[k]
        BY <1>4, <2>1, <3>1, <3>4
      <4>2. QED
        BY <1>1, <2>1, <2>4, <3>1, <3>2, <3>3, <3>4, <4>1
    <3>5. CASE refund[j].of # p
      BY <2>1, <2>4, <3>1, <3>2, <3>3, <3>5
    <3>6. QED
      BY <3>4, <3>5
  <2>6. refunded'[refund[j].of] + closed[j] + refund[j].amount <= sentBack[refund[j].of]
    <3>1. CASE refund[j].of = p
      <4>1. IF base[j] > base[k] THEN base[k] + amount <= base[j]
                                 ELSE base[j] + refund[j].amount <= base[k]
        BY <1>4, <2>1, <3>1
      <4>2. base[k] \in Nat
        OBVIOUS
      <4>3. QED
        BY <1>1, <1>2, <2>1, <2>2, <2>3, <2>4, <3>1, <4>1, <4>2
    <3>2. CASE refund[j].of # p
      BY <1>1, <1>2, <2>1, <2>3, <2>4, <3>2
    <3>3. QED
      BY <3>1, <3>2
  <2>7. QED
    BY <1>2, <2>1, <2>5, <2>6
<1>8. \A q \in Payments : refunded'[q] <= sentBack'[q]
  BY <1>1, <1>2, <1>3 DEF BookingInv, SideBySide
<1>9. QED
  BY <1>5, <1>7, <1>8 DEF BookingInv

(* A step that sends and books nothing leaves every place as it is.         *)
LEMMA PlacesStay ==
  ASSUME BookingInv, UNCHANGED <<refunded, sentBack>>,
         \A k \in RefundKeys : Unheard(k)' => Unheard(k) /\ refund'[k] = refund[k]
  PROVE  BookingInv'
<1>1. PICK base \in [RefundKeys -> Nat] : SideBySide(base)
  BY DEF BookingInv
<1>2. SideBySide(base)'
  BY <1>1 DEF SideBySide
<1>3. QED
  BY <1>2 DEF BookingInv

(* A step that sends nothing and requests nothing leaves SentInv alone.     *)
LEMMA SentStays ==
  ASSUME IInv, SentInv, UNCHANGED sentBack,
         \A p \in Payments : status[p] \in SETTLED =>
           status'[p] \in SETTLED /\ origin'[p] = origin[p],
         \A p \in Payments : origin'[p].amount \in Nat,
         \A k \in RefundKeys :
           /\ refund'[k].call = "sent" => refund[k].call = "sent" /\ refund'[k].of = refund[k].of
           /\ refund'[k].waiting => refund[k].waiting /\ refund'[k].amount = refund[k].amount
  PROVE  SentInv'
<1>1. \A p \in Payments : sentBack[p] \in Nat
  BY DEF IInv, TypeOK
<1>2. \A k \in RefundKeys : refund[k].call = "sent" => refund[k].of \in Payments
  BY DEF IInv, RefundInv
<1>3. \A p \in Payments : /\ ProviderCaps => sentBack'[p] <= origin'[p].amount
                          /\ sentBack'[p] > 0 => status'[p] \in SETTLED
  BY <1>1 DEF SentInv
<1>4. \A k \in RefundKeys : /\ refund'[k].call = "sent" => status'[refund'[k].of] \in SETTLED
                            /\ refund'[k].waiting => refund'[k].amount > 0
  BY <1>2 DEF SentInv
<1>5. QED
  BY <1>3, <1>4 DEF SentInv

(* An order's payment is opened once: settled money keeps its origin.       *)
LEMMA OriginStays ==
  ASSUME IInv, Next
  PROVE  /\ \A p \in Payments : status[p] \in SETTLED => origin'[p] = origin[p]
         /\ \A p \in Payments : origin'[p].amount \in Nat
<1> USE DEF recordVars, providerVars
<1>1. CASE UNCHANGED origin
  BY <1>1 DEF IInv, TypeOK, OriginRecord
<1>2. ASSUME NEW p \in Payments, NEW k \in Keys, NEW o \in Orders, CreatePayment(p, k, o)
      PROVE  /\ \A q \in Payments : status[q] \in SETTLED => origin'[q] = origin[q]
             /\ \A q \in Payments : origin'[q].amount \in Nat
  BY <1>2 DEF CreatePayment, IInv, TypeOK, OriginRecord, SETTLED
<1>3. CASE CreateStep
  BY <1>1, <1>2, <1>3 DEF CreateStep, OrderAccepted, SendCapture, CreateTimesOut,
     CreateRefused, CaptureUnrecognised, CreateRaises, GiveUp, CaptureConfirmed, Take,
     MarkCaptured, CaptureFor, ExpireKey
<1>4. CASE RefundStep
  BY <1>1, <1>4 DEF RefundStep, RequestRefund, RefundConfirmed, BookRefund, RefundTimesOut,
     RefundRefused, ExpireRefundKey
<1>5. CASE ReconcileStep
  BY <1>1, <1>5 DEF ReconcileStep, StartWorkerPass, StartStatusRead, ReconcileCaptured,
     MarkCaptured, CaptureFor, ReconcileFailed, ReconcileLeaves, ReconcileRaises
<1>6. CASE ProviderStep
  BY <1>1, <1>6 DEF ProviderStep, ProviderOrders, ProviderDecides, ProviderStalls,
     ProviderRefunds, ProviderRefusesRefund, ProviderReportsStatus
<1>7. QED
  BY <1>3, <1>4, <1>5, <1>6 DEF Next

(* A refund request, or an answer to one: the other refunds do not change.  *)
LEMMA RefundStepSent ==
  ASSUME IInv, SentInv, BookingInv, RefundStep
  PROVE  SentInv' /\ BookingInv'
<1> USE DEF recordVars, providerVars
<1> DEFINE Kept == \A p \in Payments : /\ status[p] \in SETTLED =>
                                            status'[p] \in SETTLED /\ origin'[p] = origin[p]
                                       /\ origin'[p].amount \in Nat
<1>1. Kept
  BY SettledStays, OriginStays DEF Next
<1>2. ASSUME NEW k \in RefundKeys, NEW p \in Payments, NEW amount \in 1 .. captured[p],
             RequestRefund(k, p, amount)
      PROVE  SentInv' /\ BookingInv'
  <2>1. /\ UNCHANGED <<status, origin, sentBack, refunded>> /\ status[p] \in SETTLED
        /\ refund'[k].of = p /\ refund'[k].amount > 0 /\ refund'[k].call = "sent"
        /\ \A j \in RefundKeys \ {k} : refund'[j] = refund[j]
    BY <1>2 DEF RequestRefund, HOLDS_MONEY, SETTLED, IInv, TypeOK
  <2>2. SentInv'
    BY <2>1 DEF SentInv
  <2>3. BookingInv'
    BY <2>1, PlacesStay DEF Unheard
  <2>4. QED
    BY <2>2, <2>3
<1>3. ASSUME NEW k \in RefundKeys, RefundConfirmed(k)
      PROVE  SentInv' /\ BookingInv'
  <2>1. /\ UNCHANGED sentBack
        /\ refund'[k].call = refund[k].call /\ refund'[k].of = refund[k].of
        /\ ~refund'[k].waiting /\ \A j \in RefundKeys \ {k} : refund'[j] = refund[j]
    BY <1>3 DEF RefundConfirmed, BookRefund, IInv, TypeOK, RefundRecord
  <2>2. SentInv'
    BY <1>1, <2>1, SentStays
  <2>3. QED
    BY <1>3, <2>2, PlacesCloseUp
<1>4. ASSUME NEW k \in RefundKeys, RefundTimesOut(k) \/ RefundRefused(k) \/ ExpireRefundKey(k)
      PROVE  SentInv' /\ BookingInv'
  <2>1. /\ UNCHANGED <<sentBack, refunded>> /\ ~refund'[k].waiting
        /\ refund'[k].call = "sent" => refund[k].call = "sent" /\ refund'[k].of = refund[k].of
        /\ \A j \in RefundKeys \ {k} : refund'[j] = refund[j]
    BY <1>4 DEF RefundTimesOut, RefundRefused, ExpireRefundKey, IdleRefund, IInv, TypeOK,
                RefundRecord
  <2>2. SentInv'
    BY <1>1, <2>1, SentStays
  <2>3. BookingInv'
    BY <2>1, PlacesStay DEF Unheard
  <2>4. QED
    BY <2>2, <2>3
<1>5. QED
  BY <1>2, <1>3, <1>4 DEF RefundStep

(* The provider sends a refund of money that was taken, once.               *)
LEMMA ProviderRefundsSent ==
  ASSUME IInv, SentInv, NEW k \in RefundKeys, ProviderRefunds(k)
  PROVE  SentInv'
<1> DEFINE p == refund[k].of
<1>1. /\ p \in Payments /\ status[p] \in SETTLED /\ refund[k].call = "sent"
      /\ \A q \in Payments : sentBack[q] \in Nat
  BY DEF ProviderRefunds, IInv, TypeOK, RefundInv, SentInv
<1>2. /\ sentBack'[p] = sentBack[p] + refund[k].amount
      /\ ProviderCaps => sentBack'[p] <= origin[p].amount
      /\ \A q \in Payments \ {p} : sentBack'[q] = sentBack[q]
      /\ refund'[k].call = "done" /\ refund'[k].waiting = refund[k].waiting
      /\ refund'[k].amount = refund[k].amount
      /\ \A j \in RefundKeys \ {k} : refund'[j] = refund[j]
      /\ UNCHANGED <<status, origin>>
  BY <1>1 DEF ProviderRefunds, IInv, TypeOK, RefundRecord, recordVars
<1>3. \A q \in Payments : /\ ProviderCaps => sentBack'[q] <= origin'[q].amount
                          /\ sentBack'[q] > 0 => status'[q] \in SETTLED
  BY <1>1, <1>2 DEF SentInv
<1>4. \A j \in RefundKeys : /\ refund'[j].call = "sent" => status'[refund'[j].of] \in SETTLED
                            /\ refund'[j].waiting => refund'[j].amount > 0
  BY <1>2 DEF SentInv
<1>5. QED
  BY <1>3, <1>4 DEF SentInv

(* No step puts the books ahead of what the provider sent.                  *)
LEMMA NextRefundInv == IInv /\ SentInv /\ BookingInv /\ [Next]_vars => SentInv' /\ BookingInv'
<1> SUFFICES ASSUME IInv, SentInv, BookingInv, [Next]_vars PROVE SentInv' /\ BookingInv'
  OBVIOUS
<1> USE DEF recordVars, providerVars
<1>1. ASSUME Next, UNCHANGED <<refund, refunded, sentBack>> PROVE SentInv' /\ BookingInv'
  <2>1. \A p \in Payments : /\ status[p] \in SETTLED =>
                                 status'[p] \in SETTLED /\ origin'[p] = origin[p]
                            /\ origin'[p].amount \in Nat
    BY <1>1, SettledStays, OriginStays
  <2>2. SentInv'
    BY <1>1, <2>1, SentStays
  <2>3. BookingInv'
    BY <1>1, PlacesStay DEF Unheard
  <2>4. QED
    BY <2>2, <2>3
<1>2. ASSUME NEW k \in RefundKeys, ProviderRefusesRefund(k) PROVE SentInv' /\ BookingInv'
  <2>1. Next
    BY <1>2 DEF Next, ProviderStep
  <2>2. \A p \in Payments : /\ status[p] \in SETTLED =>
                                 status'[p] \in SETTLED /\ origin'[p] = origin[p]
                            /\ origin'[p].amount \in Nat
    BY <2>1, SettledStays, OriginStays
  <2>3. /\ UNCHANGED <<sentBack, refunded>> /\ refund'[k].call = "refused"
        /\ refund'[k].waiting = refund[k].waiting /\ refund'[k].amount = refund[k].amount
        /\ \A j \in RefundKeys \ {k} : refund'[j] = refund[j]
    BY <1>2 DEF ProviderRefusesRefund, IInv, TypeOK, RefundRecord
  <2>4. SentInv'
    BY <2>2, <2>3, SentStays
  <2>5. BookingInv'
    BY <2>3, PlacesStay DEF Unheard
  <2>6. QED
    BY <2>4, <2>5
<1>3. CASE CreateStep
  BY <1>1, <1>3 DEF Next, CreateStep, CreatePayment, OrderAccepted, SendCapture,
     CreateTimesOut, CreateRefused, CaptureUnrecognised, CreateRaises, GiveUp,
     CaptureConfirmed, Take, MarkCaptured, CaptureFor, ExpireKey
<1>4. CASE ReconcileStep
  BY <1>1, <1>4 DEF Next, ReconcileStep, StartWorkerPass, StartStatusRead,
     ReconcileCaptured, MarkCaptured, CaptureFor, ReconcileFailed, ReconcileLeaves,
     ReconcileRaises
<1>5. CASE ProviderStep
  BY <1>1, <1>2, <1>5, ProviderRefundsSent, PlaceForOneMore DEF Next, ProviderStep,
     ProviderOrders, ProviderDecides, ProviderStalls, ProviderReportsStatus
<1>6. CASE UNCHANGED vars
  <2>1. SentInv'
    BY <1>6 DEF vars, SentInv
  <2>2. BookingInv'
    BY <1>6, PlacesStay DEF vars, Unheard
  <2>3. QED
    BY <2>1, <2>2
<1>7. QED
  BY <1>3, <1>4, <1>5, <1>6, RefundStepSent DEF Next

(* Nothing is sent back, and nothing booked, at the start.                  *)
LEMMA InitRefundInv == Init => SentInv /\ BookingInv
<1> SUFFICES ASSUME Init PROVE SentInv /\ BookingInv
  OBVIOUS
<1>1. SentInv
  BY DEF Init, SentInv, IdleRefund, SETTLED
<1>2. [k \in RefundKeys |-> 0] \in [RefundKeys -> Nat]
  OBVIOUS
<1>3. SideBySide([k \in RefundKeys |-> 0])
  BY DEF Init, SideBySide, Unheard, IdleRefund
<1>4. \A p \in Payments : refunded[p] <= sentBack[p]
  BY DEF Init
<1>5. QED
  BY <1>1, <1>2, <1>3, <1>4 DEF BookingInv

(* However many refunds of a payment overlap, and whichever answers are     *)
(* lost, the books never show more given back than the provider sent; and   *)
(* never more than was captured, when the provider refuses to send more.    *)
THEOREM RefundsNeverOverstated ==
  ASSUME ProviderCaps
  PROVE  Spec => []RefundsNotOverstated
<1>1. IInv /\ SentInv /\ BookingInv => RefundsNotOverstated
  BY DEF IInv, TypeOK, PaymentInv, OriginRecord, SentInv, BookingInv, RefundsNotOverstated
<1>2. QED
  BY <1>1, InitIInv, InitRefundInv, Invariant, NextRefundInv, PTL DEF Spec

-----------------------------------------------------------------------------
(* What a reconciler asks about, and still has to ask, reads UNKNOWN: true  *)
(* of the only reconciler there is, for nobody else settles such a payment. *)
FreshPassInv ==
  \A c \in Reconcilers :
    /\ pass[c].asking \notin pass[c].todo
    /\ \A p \in Payments : p = pass[c].asking \/ p \in pass[c].todo => status[p] = "unknown"

(* A pass stays fresh if what it goes on with still reads UNKNOWN.          *)
LEMMA FreshQuestion ==
  ASSUME IInv, NEW c \in Reconcilers, \A d \in Reconcilers : c = d,
         NEW snapshot \in SUBSET Payments, AskNext(c, snapshot),
         \A p \in snapshot : status'[p] = "unknown"
  PROVE  FreshPassInv'
<1>1. CASE snapshot = {}
  BY <1>1 DEF AskNext, NoPass, IInv, TypeOK, FreshPassInv
<1>2. CASE snapshot # {}
  <2>1. PICK p \in snapshot :
          pass' = [pass EXCEPT ![c] = [todo |-> snapshot \ {p}, asking |-> p,
                                       answer |-> "pending"]]
    BY <1>2 DEF AskNext
  <2>2. pass'[c].todo = snapshot \ {p} /\ pass'[c].asking = p
    BY <2>1 DEF IInv, TypeOK
  <2>3. QED
    BY <2>2 DEF FreshPassInv
<1>3. QED
  BY <1>1, <1>2

(* Alone, a pass settles the payment it asks about and moves to another.    *)
LEMMA ReconcileStepFresh ==
  ASSUME IInv, FreshPassInv, \A c, d \in Reconcilers : c = d, ReconcileStep
  PROVE  /\ FreshPassInv'
         /\ \A p \in Payments : status[p] # "unknown" => status'[p] = status[p]
<1> USE DEF recordVars, providerVars
<1>1. ASSUME NEW c \in Reconcilers, StartWorkerPass(c)
      PROVE  FreshPassInv' /\ UNCHANGED status
  <2>1. Unresolved \in SUBSET Payments /\ \A p \in Unresolved : status[p] = "unknown"
    BY DEF Unresolved, IInv, TypeOK
  <2>2. QED
    BY <1>1, <2>1, FreshQuestion DEF StartWorkerPass
<1>2. ASSUME NEW c \in Reconcilers, NEW p \in Payments, StartStatusRead(c, p)
      PROVE  FreshPassInv' /\ UNCHANGED status
  <2>1. {p} \in SUBSET Payments /\ \A q \in {p} : status[q] = "unknown"
    BY <1>2 DEF StartStatusRead, Unresolved
  <2>2. QED
    BY <1>2, <2>1, FreshQuestion DEF StartStatusRead
<1>3. ASSUME NEW c \in Reconcilers, ReconcileLeaves(c) \/ ReconcileRaises(c)
      PROVE  FreshPassInv' /\ UNCHANGED status
  <2>1. PICK snapshot \in {pass[c].todo, {}} : AskNext(c, snapshot)
    BY <1>3 DEF ReconcileLeaves, ReconcileRaises
  <2>2. snapshot \in SUBSET Payments /\ \A q \in snapshot : status[q] = "unknown"
    BY <2>1 DEF IInv, TypeOK, PassRecord, FreshPassInv
  <2>3. UNCHANGED status
    BY <1>3 DEF ReconcileLeaves, ReconcileRaises
  <2>4. QED
    BY <2>1, <2>2, <2>3, FreshQuestion
<1>4. ASSUME NEW c \in Reconcilers, ReconcileCaptured(c) \/ ReconcileFailed(c)
      PROVE  /\ FreshPassInv'
             /\ \A p \in Payments : status[p] # "unknown" => status'[p] = status[p]
  <2> DEFINE q == pass[c].asking
  <2>1. /\ q \in Payments /\ AskNext(c, pass[c].todo) /\ pass[c].todo \in SUBSET Payments
        /\ \A p \in Payments \ {q} : status'[p] = status[p]
    BY <1>4 DEF ReconcileCaptured, MarkCaptured, CaptureFor, ReconcileFailed, Moved,
                IInv, TypeOK, PassRecord, PassInv
  <2>2. status[q] = "unknown" /\ \A p \in pass[c].todo : p # q /\ status[p] = "unknown"
    BY <2>1 DEF FreshPassInv
  <2>3. \A p \in pass[c].todo : status'[p] = "unknown"
    BY <2>1, <2>2
  <2>4. FreshPassInv'
    BY <2>1, <2>3, FreshQuestion
  <2>5. QED
    BY <2>1, <2>2, <2>4
<1>5. QED
  BY <1>1, <1>2, <1>3, <1>4 DEF ReconcileStep, Reconcilers

(* No other step settles a payment that reads UNKNOWN, for its handler has  *)
(* given it up; and of the settled ones a booked refund moves its own.      *)
LEMMA OtherStepsFresh ==
  ASSUME IInv, SentInv, CreateStep \/ RefundStep \/ ProviderStep, NEW p \in Payments
  PROVE  /\ status[p] = "unknown" => status'[p] = "unknown"
         /\ status[p] \in SETTLED /\ status'[p] # status[p] => refunded'[p] > refunded[p]
<1> USE DEF recordVars, providerVars
<1>1. CASE UNCHANGED status
  BY <1>1
<1>2. ASSUME NEW k \in RefundKeys, RefundConfirmed(k)
      PROVE  /\ status[p] = "unknown" => status'[p] = "unknown"
             /\ status[p] \in SETTLED /\ status'[p] # status[p] => refunded'[p] > refunded[p]
  <2> DEFINE q == refund[k].of
  <2>1. /\ q \in Payments /\ status[q] \in SETTLED /\ refund[k].amount > 0
        /\ refund[k].amount \in Nat /\ refunded[q] \in Nat
        /\ refunded'[q] = refunded[q] + refund[k].amount
        /\ \A r \in Payments \ {q} : status'[r] = status[r]
    BY <1>2 DEF RefundConfirmed, BookRefund, IInv, TypeOK, RefundRecord, RefundInv, SentInv
  <2>2. CASE p = q
    BY <2>1, <2>2 DEF SETTLED
  <2>3. CASE p # q
    BY <2>1, <2>3
  <2>4. QED
    BY <2>2, <2>3
<1>3. ASSUME NEW q \in Payments, NEW k \in Keys, NEW o \in Orders, CreatePayment(q, k, o)
      PROVE  status[p] \in SETTLED \union {"unknown"} => status'[p] = status[p]
  BY <1>3 DEF CreatePayment, SETTLED, IInv, TypeOK
<1>4. ASSUME NEW q \in Payments,
             \/ OrderAccepted(q) \/ CreateTimesOut(q) \/ CreateRefused(q)
             \/ CaptureUnrecognised(q) \/ CaptureConfirmed(q)
      PROVE  status[p] \in SETTLED \union {"unknown"} => status'[p] = status[p]
  <2>1. handler[q] # "returned" /\ \A r \in Payments \ {q} : status'[r] = status[r]
    BY <1>4 DEF OrderAccepted, SendCapture, CreateTimesOut, CreateRefused,
       CaptureUnrecognised, GiveUp, Moved, CaptureConfirmed, Take, MarkCaptured,
       CaptureFor, IInv, TypeOK
  <2>2. QED
    BY <2>1 DEF IInv, PaymentInv
<1>5. CASE CreateStep
  BY <1>1, <1>3, <1>4, <1>5 DEF CreateStep, CreateRaises, GiveUp, ExpireKey, SETTLED
<1>6. CASE RefundStep
  BY <1>1, <1>2, <1>6 DEF RefundStep, RequestRefund, RefundTimesOut, RefundRefused,
                          ExpireRefundKey
<1>7. CASE ProviderStep
  BY <1>1, <1>7 DEF ProviderStep, ProviderOrders, ProviderDecides, ProviderStalls,
                    ProviderRefunds, ProviderRefusesRefund, ProviderReportsStatus
<1>8. QED
  BY <1>5, <1>6, <1>7

(* They leave the passes alone, but for the answer to a question.           *)
LEMMA OtherStepsPass ==
  ASSUME IInv, CreateStep \/ RefundStep \/ ProviderStep, NEW c \in Reconcilers
  PROVE  pass'[c].asking = pass[c].asking /\ pass'[c].todo = pass[c].todo
<1> USE DEF recordVars, providerVars
<1>1. ASSUME NEW d \in Reconcilers, ProviderReportsStatus(d)
      PROVE  pass'[c].asking = pass[c].asking /\ pass'[c].todo = pass[c].todo
  BY <1>1 DEF ProviderReportsStatus, IInv, TypeOK, PassRecord
<1>2. CASE CreateStep
  BY <1>2 DEF CreateStep, CreatePayment, OrderAccepted, SendCapture, CreateTimesOut,
     CreateRefused, CaptureUnrecognised, CreateRaises, GiveUp, CaptureConfirmed, Take,
     ExpireKey
<1>3. CASE RefundStep
  BY <1>3 DEF RefundStep, RequestRefund, RefundConfirmed, BookRefund, RefundTimesOut,
     RefundRefused, ExpireRefundKey
<1>4. CASE ProviderStep
  BY <1>1, <1>4 DEF ProviderStep, ProviderOrders, ProviderDecides, ProviderStalls,
     ProviderRefunds, ProviderRefusesRefund
<1>5. QED
  BY <1>2, <1>3, <1>4

(* One reconciler at a time: nothing but a booked refund moves a payment    *)
(* that has settled.  With two, a late answer may (run payments_stale_pass).*)
THEOREM OnlyRefundsMove ==
  ASSUME \A c, d \in Reconcilers : c = d
  PROVE  Spec => OnlyRefundsMoveSettled
<1> DEFINE Inv == IInv /\ SentInv /\ BookingInv /\ FreshPassInv
           Booked == \A p \in Payments : status[p] \in SETTLED /\ status'[p] # status[p] =>
                       refunded'[p] > refunded[p]
<1>1. Init => Inv
  BY InitIInv, InitRefundInv DEF Init, NoPass, FreshPassInv
<1>2. Inv /\ [Next]_vars => Inv' /\ [Booked]_vars
  <2> SUFFICES ASSUME Inv, [Next]_vars PROVE FreshPassInv' /\ [Booked]_vars
    BY NextIInv, NextRefundInv
  <2>1. CASE ReconcileStep
    BY <2>1, ReconcileStepFresh DEF SETTLED
  <2>2. CASE CreateStep \/ RefundStep \/ ProviderStep
    BY <2>2, OtherStepsFresh, OtherStepsPass DEF FreshPassInv
  <2>3. CASE UNCHANGED vars
    BY <2>3 DEF vars, recordVars, FreshPassInv
  <2>4. QED
    BY <2>1, <2>2, <2>3 DEF Next
<1>3. QED
  BY <1>1, <1>2, PTL DEF Spec, OnlyRefundsMoveSettled

=============================================================================
