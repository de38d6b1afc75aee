------------------------------ MODULE Webhooks ------------------------------
(***************************************************************************)
(* Provider events: WebhookProcessor.handle and reapply, over the event     *)
(* store that deduplicates them, the orders they settle and the ledger      *)
(* they are written to, with the sweeper that retries what was left.        *)
(*                                                                         *)
(* The event store and the ledger are in memory and do not suspend.  A call *)
(* of the order repository does when it has a database session: the read,   *)
(* the write and what follows it are steps of their own, and each call may  *)
(* raise instead.                                                           *)
(***************************************************************************)
EXTENDS Integers, Sequences, SequencesExt

CONSTANTS
  Events,       \* provider event ids
  Orders,       \* orders whose payment link is out
  Handlers,     \* concurrent deliveries to the route
  Sweepers,     \* loops of the webhook worker that share the route's store
  MaxRaises,    \* bound: how often a call of the order repository raises
  None          \* no order, no event

ASSUME BoundAssumption == MaxRaises \in Nat
ASSUME NoneAssumption == None \notin Events \union Orders
ASSUME TasksAssumption == Handlers \intersect Sweepers = {}

VARIABLES
  event,        \* event[e]: the stored row, and what its payload says
  status,       \* status[o]: status of the order
  ledger,       \* audit rows written by events, in order
  task,         \* task[t]: the event a delivery or a sweep is applying
  todo,         \* todo[s]: the rest of what list_unprocessed returned
  raises        \* history: calls that raised so far

vars == <<event, status, ledger, task, todo, raises>>

Tasks == Handlers \union Sweepers

(* "settles" stands for payment_link.paid and payment.captured.             *)
Kind == {"settles", "payment_link.expired", "payment.failed", "unhandled"}
OrderStatus == {"pending", "paid", "expired", "payment_disputed"}
LedgerAction ==
  {"PAYMENT_CAPTURED", "PAYMENT_DISPUTED", "PAYMENT_LINK_EXPIRED", "PAYMENT_ATTEMPT_FAILED"}

(* exact: the amount the event claims is the amount the order is owed.      *)
Payload == [kind : Kind, order : Orders \union {None}, exact : BOOLEAN]
EventRecord == [state : {"absent", "claimed", "processed"}, says : Payload]
TaskRecord == [pc : {"idle", "find", "write", "dispute", "finish"},
               event : Events \union {None}, seen : OrderStatus]
(* by: history, the delivery or the sweep that wrote the row.               *)
LedgerRow == [event : Events, order : Orders, action : LedgerAction, by : Tasks]

Idle == [pc |-> "idle", event |-> None, seen |-> "pending"]
Unknown == [state |-> "absent",
            says |-> [kind |-> "unhandled", order |-> None, exact |-> FALSE]]

Init ==
  /\ event = [e \in Events |-> Unknown]
  /\ status = [o \in Orders |-> "pending"]
  /\ ledger = <<>>
  /\ task = [t \in Tasks |-> Idle]
  /\ todo = [s \in Sweepers |-> {}]
  /\ raises = 0

-----------------------------------------------------------------------------
Says(t) == event[task[t].event].says
OrderOf(t) == Says(t).order

Goto(t, pc) == task' = [task EXCEPT ![t].pc = pc]

(* mark_processed, and the end of the call.                                 *)
MarkProcessed(t) ==
  /\ event' = [event EXCEPT ![task[t].event].state = "processed"]
  /\ task' = [task EXCEPT ![t] = Idle]

(* AuditLedger.append of a row of this event.                               *)
AppendRow(t, action) ==
  ledger' = Append(ledger, [event |-> task[t].event, order |-> OrderOf(t),
                            action |-> action, by |-> t])

(* Variant of SetStatus: the order is moved whatever it is.                 *)
SetStatusAlways(o, new) ==
  status' = [status EXCEPT ![o] = new]

(* set_status: an order already paid is not touched.                        *)
SetStatus(o, new) ==
  status' = [status EXCEPT ![o] = IF @ = "paid" THEN @ ELSE new]

(* Claim for an event that is in one of the states given.                   *)
Store(t, e, payload, from) ==
  /\ task[t] = Idle /\ event[e].state \in from
  /\ IF payload.kind = "unhandled"
     THEN /\ event' = [event EXCEPT ![e] = [state |-> "processed", says |-> payload]]
          /\ UNCHANGED task
     ELSE /\ event' = [event EXCEPT ![e] = [state |-> "claimed", says |-> payload]]
          /\ task' = [task EXCEPT ![t] = [pc |-> "find", event |-> e, seen |-> "pending"]]
  /\ UNCHANGED <<status, ledger, todo, raises>>

(* handle, up to the order's lookup: an event whose id is new is stored and *)
(* owned by this call.  A redelivery is answered and changes nothing.       *)
Claim(t, e, payload) == Store(t, e, payload, {"absent"})

(* _find_order.  An event about no order of ours is done.                   *)
FindOrder(t) ==
  /\ task[t].pc = "find"
  /\ IF OrderOf(t) = None
     THEN MarkProcessed(t)
     ELSE /\ task' = [task EXCEPT ![t].pc = "write", ![t].seen = status[OrderOf(t)]]
          /\ UNCHANGED event
  /\ UNCHANGED <<status, ledger, todo, raises>>

(* Variant of MarkPaid: whatever amount the event claims settles.           *)
MarkPaidAnyAmount(t) ==
  /\ task[t].pc = "write" /\ Says(t).kind = "settles"
  /\ status' = [status EXCEPT ![OrderOf(t)] = "paid"]
  /\ Goto(t, "finish")
  /\ UNCHANGED <<event, ledger, todo, raises>>

(* Variant of MarkPaid: the event is marked before the order is written.    *)
MarkPaidLater(t) ==
  /\ task[t].pc = "write" /\ Says(t).kind = "settles" /\ Says(t).exact
  /\ event' = [event EXCEPT ![task[t].event].state = "processed"]
  /\ Goto(t, "finish")
  /\ UNCHANGED <<status, ledger, todo, raises>>

(* _on_paid for exactly the amount owed: the order is settled.              *)
MarkPaid(t) ==
  /\ task[t].pc = "write" /\ Says(t).kind = "settles" /\ Says(t).exact
  /\ status' = [status EXCEPT ![OrderOf(t)] = "paid"]
  /\ Goto(t, "finish")
  /\ UNCHANGED <<event, ledger, todo, raises>>

(* _on_paid for another amount: the ledger first ...                        *)
RecordDispute(t) ==
  /\ task[t].pc = "write" /\ Says(t).kind = "settles" /\ ~Says(t).exact
  /\ AppendRow(t, "PAYMENT_DISPUTED")
  /\ Goto(t, "dispute")
  /\ UNCHANGED <<event, status, todo, raises>>

(* ... then the order's status.                                             *)
MarkDisputed(t) ==
  /\ task[t].pc = "dispute"
  /\ SetStatus(OrderOf(t), "payment_disputed")
  /\ Goto(t, "finish")
  /\ UNCHANGED <<event, ledger, todo, raises>>

(* _on_expired: nothing to do for an order that was read as paid.           *)
Expire(t) ==
  /\ task[t].pc = "write" /\ Says(t).kind = "payment_link.expired"
  /\ IF task[t].seen = "paid"
     THEN MarkProcessed(t) /\ UNCHANGED status
     ELSE SetStatus(OrderOf(t), "expired") /\ Goto(t, "finish") /\ UNCHANGED event
  /\ UNCHANGED <<ledger, todo, raises>>

(* _on_failed: one attempt failed, the order stays where it is.             *)
RecordFailure(t) ==
  /\ task[t].pc = "write" /\ Says(t).kind = "payment.failed"
  /\ AppendRow(t, "PAYMENT_ATTEMPT_FAILED")
  /\ MarkProcessed(t)
  /\ UNCHANGED <<status, todo, raises>>

(* Variant of Finish: the row is not marked.                                *)
FinishUnmarked(t) ==
  /\ task[t].pc = "finish"
  /\ task' = [task EXCEPT ![t] = Idle]
  /\ UNCHANGED <<event, status, ledger, todo, raises>>

(* What follows the order's write: the ledger row, unless a dispute wrote   *)
(* it before, and mark_processed.                                           *)
Finish(t) ==
  /\ task[t].pc = "finish"
  /\ \/ Says(t).kind = "settles" /\ Says(t).exact /\ AppendRow(t, "PAYMENT_CAPTURED")
     \/ Says(t).kind = "payment_link.expired" /\ AppendRow(t, "PAYMENT_LINK_EXPIRED")
     \/ Says(t).kind = "settles" /\ ~Says(t).exact /\ UNCHANGED ledger
  /\ MarkProcessed(t)
  /\ UNCHANGED <<status, todo, raises>>

(* A call of the order repository raises: the route answers 500, the        *)
(* sweeper goes on to its next row, and the event stays claimed.            *)
Raise(t) ==
  /\ task[t].pc \in {"find", "write", "dispute"} /\ raises < MaxRaises
  /\ task' = [task EXCEPT ![t] = Idle]
  /\ raises' = raises + 1
  /\ UNCHANGED <<event, status, ledger, todo>>

-----------------------------------------------------------------------------
Unprocessed == {e \in Events : event[e].state = "claimed"}

(* drain_once: what is unprocessed now, the events being applied included.  *)
ListUnprocessed(s) ==
  /\ task[s] = Idle /\ todo[s] = {} /\ Unprocessed # {}
  /\ todo' = [todo EXCEPT ![s] = Unprocessed]
  /\ UNCHANGED <<event, status, ledger, task, raises>>

(* reapply, past the checks and the claim.                                  *)
Reapply(s) ==
  /\ task[s] = Idle
  /\ \E e \in todo[s] :
       /\ task' = [task EXCEPT ![s] = [pc |-> "find", event |-> e, seen |-> "pending"]]
       /\ todo' = [todo EXCEPT ![s] = @ \ {e}]
  /\ UNCHANGED <<event, status, ledger, raises>>

Apply(t) ==
  \/ FindOrder(t) \/ MarkPaid(t) \/ RecordDispute(t) \/ MarkDisputed(t)
  \/ Expire(t) \/ RecordFailure(t) \/ Finish(t)

Next ==
  \/ \E h \in Handlers, e \in Events, payload \in Payload : Claim(h, e, payload)
  \/ \E t \in Tasks : Apply(t) \/ Raise(t)
  \/ \E s \in Sweepers : ListUnprocessed(s) \/ Reapply(s)

Spec == Init /\ [][Next]_vars

(* A call that was made goes on, and the worker's loop sweeps again.        *)
Fairness ==
  /\ \A t \in Tasks : WF_vars(Apply(t))
  /\ \A s \in Sweepers : WF_vars(ListUnprocessed(s)) /\ WF_vars(Reapply(s))

FairSpec == Spec /\ Fairness

-----------------------------------------------------------------------------
TypeOK ==
  /\ event \in [Events -> EventRecord]
  /\ status \in [Orders -> OrderStatus]
  /\ ledger \in Seq(LedgerRow)
  /\ task \in [Tasks -> TaskRecord]
  /\ todo \in [Sweepers -> SUBSET Events]
  /\ raises \in 0 .. MaxRaises

Row(i, e, action) == ledger[i].event = e /\ ledger[i].action = action

(* A late expiry, a mismatch, a failed attempt: nothing unpays an order.    *)
PaidIsFinal ==
  [][\A o \in Orders : status[o] = "paid" => status'[o] = "paid"]_vars

(* An order is paid only by an event of its own that claims what it is owed. *)
PaidForWhatIsOwed ==
  \A o \in Orders : status[o] = "paid" =>
    \E e \in Events : /\ event[e].state # "absent"
                      /\ event[e].says = [kind |-> "settles", order |-> o, exact |-> TRUE]

(* The provider is told an event was processed only once it was: an order   *)
(* that a processed event settles is paid, and the ledger says so.          *)
ProcessedIsApplied ==
  \A e \in Events :
    LET says == event[e].says IN
    event[e].state = "processed" /\ says.kind = "settles" /\ says.order # None /\ says.exact =>
      /\ status[says.order] = "paid"
      /\ \E i \in DOMAIN ledger : Row(i, e, "PAYMENT_CAPTURED")

(* A disputed order can be explained from the ledger.                       *)
DisputeIsOnRecord ==
  \A o \in Orders : status[o] = "payment_disputed" =>
    \E i \in DOMAIN ledger : ledger[i].order = o /\ ledger[i].action = "PAYMENT_DISPUTED"

(* A provider may deliver an event as often as it likes: of the deliveries, *)
(* one writes a row for it, and only one.                                   *)
OneRowPerEvent ==
  \A i, j \in DOMAIN ledger :
    /\ ledger[i].event = ledger[j].event
    /\ ledger[i].by \in Handlers /\ ledger[j].by \in Handlers
    => i = j

(* What raised half-way is applied in the end.                              *)
ClaimedIsProcessed ==
  \A e \in Events : event[e].state = "claimed" ~> event[e].state = "processed"
=============================================================================
