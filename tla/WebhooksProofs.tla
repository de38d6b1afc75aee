--------------------------- MODULE WebhooksProofs ---------------------------
(***************************************************************************)
(* The safety properties of Webhooks for any number of events, orders,      *)
(* deliveries and sweepers, and any number of calls that raise.             *)
(***************************************************************************)
EXTENDS Webhooks, TLAPS

-----------------------------------------------------------------------------
(* What a call in progress knows of the event it applies.                   *)
TaskOK(t) ==
  task[t].pc # "idle" =>
    /\ task[t].event \in Events
    /\ event[task[t].event].state # "absent"
    /\ task[t].pc \in {"write", "dispute", "finish"} => OrderOf(t) \in Orders
    /\ task[t].pc = "dispute" =>
         /\ Says(t).kind = "settles" /\ ~Says(t).exact
         /\ \E i \in DOMAIN ledger :
              ledger[i].order = OrderOf(t) /\ ledger[i].action = "PAYMENT_DISPUTED"
    /\ task[t].pc = "finish" /\ Says(t).kind = "settles" /\ Says(t).exact =>
         status[OrderOf(t)] = "paid"

TaskInv == \A t \in Tasks : TaskOK(t)

(* Nothing is swept, and no row is written, for an event never received.    *)
KnownInv ==
  /\ \A s \in Sweepers : \A e \in todo[s] : event[e].state # "absent"
  /\ \A i \in DOMAIN ledger : event[ledger[i].event].state # "absent"

(* The claim makes one delivery the owner of an event.                      *)
OneOwner ==
  \A h, k \in Handlers :
    /\ task[h].pc # "idle" /\ task[k].pc # "idle"
    /\ task[h].event = task[k].event
    => h = k

(* A delivery that has its row still to write.                              *)
Unwritten(h) ==
  \/ task[h].pc \in {"find", "write"}
  \/ task[h].pc = "finish" /\ ~(Says(h).kind = "settles" /\ ~Says(h).exact)

(* ... finds none that a delivery wrote for its event.                      *)
NoRowYet ==
  \A h \in Handlers : Unwritten(h) =>
    \A i \in DOMAIN ledger :
      ~(ledger[i].event = task[h].event /\ ledger[i].by \in Handlers)

IInv ==
  /\ TypeOK /\ TaskInv /\ KnownInv /\ OneOwner /\ NoRowYet
  /\ PaidForWhatIsOwed /\ ProcessedIsApplied /\ DisputeIsOnRecord /\ OneRowPerEvent

(* What no step takes back: a received event and what it says, a row of the *)
(* ledger, a payment.                                                       *)
Kept ==
  /\ \A e \in Events : event[e].state # "absent" =>
       event'[e].state # "absent" /\ event'[e].says = event[e].says
  /\ \A i \in DOMAIN ledger : i \in DOMAIN ledger' /\ ledger'[i] = ledger[i]
  /\ \A o \in Orders : status[o] = "paid" => status'[o] = "paid"

(* A row is added behind the others.                                        *)
LEMMA RowAppended ==
  ASSUME NEW t, NEW action, ledger \in Seq(LedgerRow), AppendRow(t, action)
  PROVE  /\ DOMAIN ledger = 1 .. Len(ledger)
         /\ DOMAIN ledger' = 1 .. (Len(ledger) + 1)
         /\ Len(ledger) \in Nat
         /\ \A i \in 1 .. Len(ledger) : ledger'[i] = ledger[i]
         /\ ledger'[Len(ledger) + 1] =
              [event |-> task[t].event, order |-> OrderOf(t), action |-> action, by |-> t]
BY DEF AppendRow

(* The row is of the ledger's type when the call knows its order.           *)
LEMMA RowTyped ==
  ASSUME NEW t \in Tasks, NEW action \in LedgerAction, ledger \in Seq(LedgerRow),
         task[t].event \in Events, OrderOf(t) \in Orders, AppendRow(t, action)
  PROVE  ledger' \in Seq(LedgerRow)
<1>1. [event |-> task[t].event, order |-> OrderOf(t), action |-> action, by |-> t] \in LedgerRow
  BY DEF LedgerRow
<1> QED
  BY <1>1 DEF AppendRow

-----------------------------------------------------------------------------
(* The step of every call.                                                  *)
Move(t) == Apply(t) \/ Raise(t)

(* A call moves no task but its own, keeps its event while it runs, and     *)
(* changes an event's row only to say it was processed.                     *)
LEMMA MoveFrame ==
  ASSUME TypeOK, NEW t \in Tasks, TaskOK(t), Move(t)
  PROVE  /\ task[t].pc # "idle" /\ task[t].event \in Events
         /\ task' \in [Tasks -> TaskRecord]
         /\ \A u \in Tasks : u # t => task'[u] = task[u]
         /\ task'[t].pc = "idle" \/ task'[t].event = task[t].event
         /\ event' \in [Events -> EventRecord]
         /\ \A e \in Events : event'[e].says = event[e].says
         /\ \A e \in Events : event'[e] = event[e] \/ event'[e].state = "processed"
         /\ todo' = todo
<1>1. task[t].pc # "idle" /\ task[t].event \in Events
  BY DEF Move, Apply, Raise, FindOrder, MarkPaid, RecordDispute, MarkDisputed, Expire,
         RecordFailure, Finish, TaskOK
<1>2. task[t] \in TaskRecord /\ task \in [Tasks -> TaskRecord]
  BY DEF TypeOK
<1>3. ASSUME NEW pc \in {"idle", "find", "write", "dispute", "finish"}, Goto(t, pc)
      PROVE  /\ task' \in [Tasks -> TaskRecord]
             /\ \A u \in Tasks : u # t => task'[u] = task[u]
             /\ task'[t].event = task[t].event
  BY <1>2, <1>3 DEF Goto, TaskRecord
<1>4. ASSUME task' = [task EXCEPT ![t] = Idle]
      PROVE  /\ task' \in [Tasks -> TaskRecord]
             /\ \A u \in Tasks : u # t => task'[u] = task[u]
             /\ task'[t].pc = "idle"
  BY <1>2, <1>4 DEF Idle, TaskRecord, OrderStatus
<1>5. ASSUME UNCHANGED event
      PROVE  /\ event' \in [Events -> EventRecord]
             /\ \A e \in Events : event'[e].says = event[e].says
             /\ \A e \in Events : event'[e] = event[e] \/ event'[e].state = "processed"
  BY <1>5 DEF TypeOK
<1>6. ASSUME MarkProcessed(t)
      PROVE  /\ event' \in [Events -> EventRecord]
             /\ \A e \in Events : event'[e].says = event[e].says
             /\ \A e \in Events : event'[e] = event[e] \/ event'[e].state = "processed"
             /\ task' = [task EXCEPT ![t] = Idle]
  BY <1>1, <1>6 DEF TypeOK, MarkProcessed, EventRecord
<1>7. CASE FindOrder(t)
  <2>1. CASE OrderOf(t) = None
    BY <1>1, <1>4, <1>6, <1>7, <2>1 DEF FindOrder
  <2>2. CASE OrderOf(t) # None
    <3>1. status[OrderOf(t)] \in OrderStatus
      BY <1>1, <2>2 DEF TypeOK, OrderOf, Says, EventRecord, Payload
    <3>2. [task[t] EXCEPT !.pc = "write", !.seen = status[OrderOf(t)]] \in TaskRecord
      BY <1>2, <3>1 DEF TaskRecord
    <3>3. /\ task' = [task EXCEPT ![t] = [task[t] EXCEPT !.pc = "write", !.seen = status[OrderOf(t)]]]
          /\ UNCHANGED <<event, todo>>
      BY <1>2, <1>7, <2>2 DEF FindOrder
    <3>4. [task[t] EXCEPT !.pc = "write", !.seen = status[OrderOf(t)]].event = task[t].event
      BY <1>2 DEF TaskRecord
    <3>5. /\ task' \in [Tasks -> TaskRecord]
          /\ \A u \in Tasks : u # t => task'[u] = task[u]
          /\ task'[t].event = task[t].event
      BY <1>2, <3>2, <3>3, <3>4
    <3> QED
      BY <1>1, <1>5, <3>3, <3>5
  <2> QED
    BY <2>1, <2>2
<1>8. CASE MarkPaid(t)
  BY <1>1, <1>3, <1>5, <1>8 DEF MarkPaid
<1>9. CASE RecordDispute(t)
  BY <1>1, <1>3, <1>5, <1>9 DEF RecordDispute
<1>10. CASE MarkDisputed(t)
  BY <1>1, <1>3, <1>5, <1>10 DEF MarkDisputed
<1>11. CASE Expire(t)
  <2>1. CASE task[t].seen = "paid"
    BY <1>1, <1>4, <1>6, <1>11, <2>1 DEF Expire
  <2>2. CASE task[t].seen # "paid"
    BY <1>1, <1>3, <1>5, <1>11, <2>2 DEF Expire
  <2> QED
    BY <2>1, <2>2
<1>12. CASE RecordFailure(t)
  BY <1>1, <1>4, <1>6, <1>12 DEF RecordFailure
<1>13. CASE Finish(t)
  BY <1>1, <1>4, <1>6, <1>13 DEF Finish
<1>14. CASE Raise(t)
  BY <1>1, <1>4, <1>5, <1>14 DEF Raise
<1> QED
  BY <1>7, <1>8, <1>9, <1>10, <1>11, <1>12, <1>13, <1>14 DEF Move, Apply

(* What a call writes to its order.                                         *)
LEMMA MoveStatus ==
  ASSUME TypeOK, NEW t \in Tasks, TaskOK(t), Move(t)
  PROVE  /\ status' \in [Orders -> OrderStatus]
         /\ \A o \in Orders : status[o] = "paid" => status'[o] = "paid"
         /\ \A o \in Orders : status'[o] = "paid" =>
              \/ status[o] = "paid"
              \/ o = OrderOf(t) /\ Says(t).kind = "settles" /\ Says(t).exact
         /\ \A o \in Orders : status'[o] = "payment_disputed" =>
              \/ status[o] = "payment_disputed"
              \/ o = OrderOf(t) /\ task[t].pc = "dispute"
<1>1. status \in [Orders -> OrderStatus]
  BY DEF TypeOK
<1>2. ASSUME UNCHANGED status
      PROVE  /\ status' \in [Orders -> OrderStatus]
             /\ \A o \in Orders : status'[o] = status[o]
  BY <1>1, <1>2
<1>3. ASSUME NEW o \in Orders, NEW new \in OrderStatus, SetStatus(o, new)
      PROVE  /\ status' \in [Orders -> OrderStatus]
             /\ \A p \in Orders : status'[p] = status[p] \/ (p = o /\ status'[p] = new)
             /\ status[o] = "paid" => status'[o] = "paid"
  BY <1>1, <1>3 DEF SetStatus, OrderStatus
<1>4. task[t].pc \in {"write", "dispute", "finish"} => OrderOf(t) \in Orders
  BY DEF TaskOK
<1>5. CASE FindOrder(t)
  BY <1>2, <1>5 DEF FindOrder
<1>6. CASE MarkPaid(t)
  BY <1>1, <1>4, <1>6 DEF MarkPaid, OrderStatus
<1>7. CASE RecordDispute(t)
  BY <1>2, <1>7 DEF RecordDispute
<1>8. CASE MarkDisputed(t)
  BY <1>3, <1>4, <1>8 DEF MarkDisputed, OrderStatus
<1>9. CASE Expire(t)
  <2>1. CASE task[t].seen = "paid"
    BY <1>2, <1>9, <2>1 DEF Expire
  <2>2. CASE task[t].seen # "paid"
    BY <1>3, <1>4, <1>9, <2>2 DEF Expire, OrderStatus
  <2> QED
    BY <2>1, <2>2
<1>10. CASE RecordFailure(t)
  BY <1>2, <1>10 DEF RecordFailure
<1>11. CASE Finish(t)
  BY <1>2, <1>11 DEF Finish
<1>12. CASE Raise(t)
  BY <1>2, <1>12 DEF Raise
<1> QED
  BY <1>5, <1>6, <1>7, <1>8, <1>9, <1>10, <1>11, <1>12 DEF Move, Apply

(* A call writes one row: it has it to write before and not after.          *)
Writes(t) ==
  /\ Unwritten(t) /\ ~Unwritten(t)'
  /\ task[t].pc \in {"write", "finish"}
  /\ \E action \in LedgerAction : AppendRow(t, action)

LEMMA MoveLedger ==
  ASSUME TypeOK, NEW t \in Tasks, TaskOK(t), Move(t)
  PROVE  \/ ledger' = ledger /\ (Unwritten(t)' => Unwritten(t))
         \/ Writes(t)
<1>1. task \in [Tasks -> TaskRecord] /\ task[t] \in TaskRecord
  BY DEF TypeOK
<1>2. \A e \in Events : event'[e].says = event[e].says
  BY MoveFrame
<1>3. task[t].event \in Events
  BY MoveFrame
<1>4. ASSUME NEW pc \in {"write", "dispute", "finish"}, Goto(t, pc)
      PROVE  task'[t].pc = pc /\ task'[t].event = task[t].event /\ Says(t)' = Says(t)
  BY <1>1, <1>2, <1>3, <1>4 DEF Goto, TaskRecord, Says
<1>5. ASSUME task' = [task EXCEPT ![t] = Idle]
      PROVE  task'[t].pc = "idle" /\ ~Unwritten(t)'
  BY <1>1, <1>5 DEF Idle, Unwritten
<1>6. ASSUME MarkProcessed(t)
      PROVE  ~Unwritten(t)'
  BY <1>5, <1>6 DEF MarkProcessed
<1>7. CASE FindOrder(t)
  BY <1>7 DEF FindOrder, Unwritten
<1>8. CASE MarkPaid(t)
  BY <1>8 DEF MarkPaid, Unwritten
<1>9. CASE RecordDispute(t)
  <2>1. task'[t].pc = "dispute"
    BY <1>4, <1>9 DEF RecordDispute
  <2>2. ~Unwritten(t)'
    BY <2>1 DEF Unwritten
  <2> QED
    BY <1>9, <2>2 DEF RecordDispute, Writes, Unwritten, LedgerAction
<1>10. CASE MarkDisputed(t)
  <2>1. Says(t)' = Says(t) /\ task'[t].pc = "finish"
    BY <1>4, <1>10 DEF MarkDisputed
  <2>2. Says(t).kind = "settles" /\ ~Says(t).exact
    BY <1>10 DEF MarkDisputed, TaskOK
  <2>3. ~Unwritten(t)'
    BY <2>1, <2>2 DEF Unwritten
  <2> QED
    BY <1>10, <2>3 DEF MarkDisputed
<1>11. CASE Expire(t)
  BY <1>11 DEF Expire, Unwritten
<1>12. CASE RecordFailure(t)
  <2>1. ~Unwritten(t)'
    BY <1>6, <1>12 DEF RecordFailure
  <2> QED
    BY <1>12, <2>1 DEF RecordFailure, Writes, Unwritten, LedgerAction
<1>13. CASE Finish(t)
  <2>1. ~Unwritten(t)'
    BY <1>6, <1>13 DEF Finish
  <2>2. CASE Says(t).kind = "settles" /\ ~Says(t).exact
    BY <1>13, <2>1, <2>2 DEF Finish
  <2>3. CASE ~(Says(t).kind = "settles" /\ ~Says(t).exact)
    BY <1>13, <2>1, <2>3 DEF Finish, Writes, Unwritten, LedgerAction
  <2> QED
    BY <2>2, <2>3
<1>14. CASE Raise(t)
  BY <1>5, <1>14 DEF Raise
<1> QED
  BY <1>7, <1>8, <1>9, <1>10, <1>11, <1>12, <1>13, <1>14 DEF Move, Apply

LEMMA MoveRaises ==
  ASSUME TypeOK, NEW t \in Tasks, Move(t)
  PROVE  raises' \in 0 .. MaxRaises
<1>1. CASE Raise(t)
  BY <1>1, BoundAssumption DEF Raise, TypeOK
<1>2. CASE Apply(t)
  BY <1>2 DEF TypeOK, Apply, FindOrder, MarkPaid, RecordDispute, MarkDisputed, Expire,
              RecordFailure, Finish
<1> QED
  BY <1>1, <1>2 DEF Move

-----------------------------------------------------------------------------
LEMMA MoveTyped ==
  ASSUME TypeOK, NEW t \in Tasks, TaskOK(t), Move(t)
  PROVE  TypeOK'
<1>1. ledger' \in Seq(LedgerRow)
  <2>1. CASE ledger' = ledger
    BY <2>1 DEF TypeOK
  <2>2. CASE Writes(t)
    <3>1. OrderOf(t) \in Orders /\ task[t].event \in Events
      BY <2>2 DEF Writes, TaskOK
    <3>2. PICK action \in LedgerAction : AppendRow(t, action)
      BY <2>2 DEF Writes
    <3> QED
      BY <3>1, <3>2, RowTyped DEF TypeOK
  <2> QED
    BY <2>1, <2>2, MoveLedger
<1>2. task' \in [Tasks -> TaskRecord] /\ event' \in [Events -> EventRecord] /\ todo' = todo
  BY MoveFrame
<1>3. status' \in [Orders -> OrderStatus]
  BY MoveStatus
<1>4. raises' \in 0 .. MaxRaises
  BY MoveRaises
<1> QED
  BY <1>1, <1>2, <1>3, <1>4 DEF TypeOK

(* A call takes nothing back.                                               *)
LEMMA MoveKeeps ==
  ASSUME TypeOK, NEW t \in Tasks, TaskOK(t), Move(t)
  PROVE  Kept
<1>1. \A e \in Events : event[e].state # "absent" =>
        event'[e].state # "absent" /\ event'[e].says = event[e].says
  BY MoveFrame
<1>2. \A i \in DOMAIN ledger : i \in DOMAIN ledger' /\ ledger'[i] = ledger[i]
  <2>1. CASE ledger' = ledger
    BY <2>1
  <2>2. CASE Writes(t)
    <3>1. PICK action \in LedgerAction : AppendRow(t, action)
      BY <2>2 DEF Writes
    <3>2. ledger \in Seq(LedgerRow)
      BY DEF TypeOK
    <3>3. /\ DOMAIN ledger = 1 .. Len(ledger) /\ DOMAIN ledger' = 1 .. (Len(ledger) + 1)
          /\ Len(ledger) \in Nat
          /\ \A i \in 1 .. Len(ledger) : ledger'[i] = ledger[i]
      BY <3>1, <3>2, RowAppended
    <3> QED
      BY <3>3
  <2> QED
    BY <2>1, <2>2, MoveLedger
<1>3. \A o \in Orders : status[o] = "paid" => status'[o] = "paid"
  BY MoveStatus
<1> QED
  BY <1>1, <1>2, <1>3 DEF Kept

(* What another call knows stays so.                                        *)
LEMMA OthersKeep ==
  ASSUME TypeOK, Kept, NEW u \in Tasks, TaskOK(u), task'[u] = task[u]
  PROVE  TaskOK(u)'
<1>1. CASE task[u].pc = "idle"
  BY <1>1 DEF TaskOK
<1>2. CASE task[u].pc # "idle"
  <2>1. Says(u)' = Says(u) /\ OrderOf(u)' = OrderOf(u) /\ event'[task[u].event].state # "absent"
    BY <1>2 DEF TaskOK, Kept, Says, OrderOf
  <2>2. task[u].pc = "dispute" =>
          \E i \in DOMAIN ledger' :
            ledger'[i].order = OrderOf(u)' /\ ledger'[i].action = "PAYMENT_DISPUTED"
    BY <1>2, <2>1 DEF TaskOK, Kept
  <2>3. task[u].pc = "finish" /\ Says(u).kind = "settles" /\ Says(u).exact =>
          status'[OrderOf(u)] = "paid"
    BY <1>2 DEF TaskOK, Kept
  <2> QED
    BY <1>2, <2>1, <2>2, <2>3 DEF TaskOK
<1> QED
  BY <1>1, <1>2

(* Rows of the ledger after a call wrote one: the old ones and its own.     *)
LEMMA RowsAfter ==
  ASSUME TypeOK, NEW t \in Tasks, TaskOK(t), Writes(t)
  PROVE  /\ \A i \in DOMAIN ledger : i \in DOMAIN ledger' /\ ledger'[i] = ledger[i]
         /\ \E n \in DOMAIN ledger' :
              /\ \A i \in DOMAIN ledger' : i = n \/ (i \in DOMAIN ledger /\ ledger'[i] = ledger[i])
              /\ ledger'[n].event = task[t].event /\ ledger'[n].order = OrderOf(t)
              /\ ledger'[n].by = t
<1>1. PICK action \in LedgerAction : AppendRow(t, action)
  BY DEF Writes
<1>2. ledger \in Seq(LedgerRow)
  BY DEF TypeOK
<1>3. /\ DOMAIN ledger = 1 .. Len(ledger) /\ DOMAIN ledger' = 1 .. (Len(ledger) + 1)
      /\ Len(ledger) \in Nat
      /\ \A i \in 1 .. Len(ledger) : ledger'[i] = ledger[i]
      /\ ledger'[Len(ledger) + 1] =
           [event |-> task[t].event, order |-> OrderOf(t), action |-> action, by |-> t]
  BY <1>1, <1>2, RowAppended
<1> DEFINE n == Len(ledger) + 1
<1>4. /\ n \in DOMAIN ledger'
      /\ \A i \in DOMAIN ledger' : i = n \/ (i \in DOMAIN ledger /\ ledger'[i] = ledger[i])
  BY <1>3
<1>5. /\ ledger'[n].event = task[t].event /\ ledger'[n].order = OrderOf(t)
      /\ ledger'[n].by = t
  BY <1>3
<1>6. \A i \in DOMAIN ledger : i \in DOMAIN ledger' /\ ledger'[i] = ledger[i]
  BY <1>3
<1> HIDE DEF n
<1> QED
  BY <1>4, <1>5, <1>6

-----------------------------------------------------------------------------
(* The caller's own knowledge after its step.                               *)
LEMMA MoveKnows ==
  ASSUME TypeOK, NEW t \in Tasks, TaskOK(t), Move(t)
  PROVE  TaskOK(t)'
<1>1. task \in [Tasks -> TaskRecord] /\ task[t] \in TaskRecord
  BY DEF TypeOK
<1>2. task[t].pc # "idle" /\ task[t].event \in Events
  BY MoveFrame
<1>3. event[task[t].event].state # "absent"
  BY <1>2 DEF TaskOK
<1>4. event'[task[t].event].state # "absent"
  BY <1>2, <1>3, MoveFrame
<1>5. \A e \in Events : event'[e].says = event[e].says
  BY MoveFrame
<1>6. ASSUME task'[t].event = task[t].event
      PROVE  Says(t)' = Says(t) /\ OrderOf(t)' = OrderOf(t)
  BY <1>2, <1>5, <1>6 DEF Says, OrderOf
<1>7. ASSUME NEW pc \in {"write", "dispute", "finish"}, Goto(t, pc)
      PROVE  /\ task'[t].pc = pc /\ task'[t].event = task[t].event
             /\ Says(t)' = Says(t) /\ OrderOf(t)' = OrderOf(t)
  <2>1. task'[t].pc = pc /\ task'[t].event = task[t].event
    BY <1>1, <1>7 DEF Goto, TaskRecord
  <2> QED
    BY <1>6, <2>1
<1>8. ASSUME task' = [task EXCEPT ![t] = Idle]
      PROVE  TaskOK(t)'
  BY <1>1, <1>8 DEF Idle, TaskOK
<1>9. ASSUME MarkProcessed(t)
      PROVE  TaskOK(t)'
  BY <1>8, <1>9 DEF MarkProcessed
<1>10. CASE FindOrder(t)
  <2>1. CASE OrderOf(t) = None
    BY <1>9, <1>10, <2>1 DEF FindOrder
  <2>2. CASE OrderOf(t) # None
    <3>1. task' = [task EXCEPT ![t].pc = "write", ![t].seen = status[OrderOf(t)]]
      BY <1>10, <2>2 DEF FindOrder
    <3>2. task'[t].pc = "write" /\ task'[t].event = task[t].event
      BY <1>1, <3>1 DEF TaskRecord
    <3>3. OrderOf(t) \in Orders
      BY <1>2, <2>2 DEF TypeOK, OrderOf, Says, EventRecord, Payload
    <3> QED
      BY <1>2, <1>4, <1>6, <3>2, <3>3 DEF TaskOK
  <2> QED
    BY <2>1, <2>2
<1>11. CASE MarkPaid(t)
  <2>1. task'[t].pc = "finish" /\ task'[t].event = task[t].event
        /\ Says(t)' = Says(t) /\ OrderOf(t)' = OrderOf(t)
    BY <1>7, <1>11 DEF MarkPaid
  <2>2. OrderOf(t) \in Orders
    BY <1>11 DEF MarkPaid, TaskOK
  <2>3. status'[OrderOf(t)] = "paid"
    BY <1>11, <2>2 DEF MarkPaid, TypeOK
  <2> QED
    BY <1>2, <1>4, <2>1, <2>2, <2>3 DEF TaskOK
<1>12. CASE RecordDispute(t)
  <2>1. task'[t].pc = "dispute" /\ task'[t].event = task[t].event
        /\ Says(t)' = Says(t) /\ OrderOf(t)' = OrderOf(t)
    BY <1>7, <1>12 DEF RecordDispute
  <2>2. OrderOf(t) \in Orders /\ Says(t).kind = "settles" /\ ~Says(t).exact
    BY <1>12 DEF RecordDispute, TaskOK
  <2>3. AppendRow(t, "PAYMENT_DISPUTED") /\ ledger \in Seq(LedgerRow)
    BY <1>12 DEF RecordDispute, TypeOK
  <2>4. /\ DOMAIN ledger' = 1 .. (Len(ledger) + 1) /\ Len(ledger) \in Nat
        /\ ledger'[Len(ledger) + 1] =
             [event |-> task[t].event, order |-> OrderOf(t),
              action |-> "PAYMENT_DISPUTED", by |-> t]
    BY <2>3, RowAppended
  <2>5. \E i \in DOMAIN ledger' :
          ledger'[i].order = OrderOf(t) /\ ledger'[i].action = "PAYMENT_DISPUTED"
    BY <2>4
  <2> QED
    BY <1>2, <1>4, <2>1, <2>2, <2>5 DEF TaskOK
<1>13. CASE MarkDisputed(t)
  <2>1. task'[t].pc = "finish" /\ task'[t].event = task[t].event
        /\ Says(t)' = Says(t) /\ OrderOf(t)' = OrderOf(t)
    BY <1>7, <1>13 DEF MarkDisputed
  <2>2. OrderOf(t) \in Orders /\ Says(t).kind = "settles" /\ ~Says(t).exact
    BY <1>13 DEF MarkDisputed, TaskOK
  <2> QED
    BY <1>2, <1>4, <2>1, <2>2 DEF TaskOK
<1>14. CASE Expire(t)
  <2>1. CASE task[t].seen = "paid"
    BY <1>9, <1>14, <2>1 DEF Expire
  <2>2. CASE task[t].seen # "paid"
    <3>1. task'[t].pc = "finish" /\ task'[t].event = task[t].event
          /\ Says(t)' = Says(t) /\ OrderOf(t)' = OrderOf(t)
      BY <1>7, <1>14, <2>2 DEF Expire
    <3>2. OrderOf(t) \in Orders /\ Says(t).kind # "settles"
      BY <1>14 DEF Expire, TaskOK
    <3> QED
      BY <1>2, <1>4, <3>1, <3>2 DEF TaskOK
  <2> QED
    BY <2>1, <2>2
<1>15. CASE RecordFailure(t)
  BY <1>9, <1>15 DEF RecordFailure
<1>16. CASE Finish(t)
  BY <1>9, <1>16 DEF Finish
<1>17. CASE Raise(t)
  BY <1>8, <1>17 DEF Raise
<1> QED
  BY <1>10, <1>11, <1>12, <1>13, <1>14, <1>15, <1>16, <1>17 DEF Move, Apply

(* An event that becomes processed was applied.                             *)
Applied(e) ==
  event[e].says.kind = "settles" /\ event[e].says.order # None /\ event[e].says.exact =>
    /\ status[event[e].says.order] = "paid"
    /\ \E i \in DOMAIN ledger' : Row(i, e, "PAYMENT_CAPTURED")'

LEMMA MoveProcesses ==
  ASSUME TypeOK, NEW t \in Tasks, TaskOK(t), Move(t),
         NEW e \in Events, event'[e].state = "processed"
  PROVE  event[e].state = "processed" \/ Applied(e)
<1>1. event \in [Events -> EventRecord] /\ task[t].event \in Events /\ task[t].pc # "idle"
  BY MoveFrame DEF TypeOK
<1>2. ASSUME UNCHANGED event
      PROVE  event[e].state = "processed"
  BY <1>2
<1>3. ASSUME MarkProcessed(t)
      PROVE  event[e].state = "processed" \/ e = task[t].event
  BY <1>1, <1>3 DEF MarkProcessed
<1>4. CASE FindOrder(t)
  <2>1. CASE OrderOf(t) = None
    BY <1>3, <1>4, <2>1 DEF FindOrder, Applied, OrderOf, Says
  <2>2. CASE OrderOf(t) # None
    BY <1>2, <1>4, <2>2 DEF FindOrder
  <2> QED
    BY <2>1, <2>2
<1>5. CASE MarkPaid(t)
  BY <1>2, <1>5 DEF MarkPaid
<1>6. CASE RecordDispute(t)
  BY <1>2, <1>6 DEF RecordDispute
<1>7. CASE MarkDisputed(t)
  BY <1>2, <1>7 DEF MarkDisputed
<1>8. CASE Expire(t)
  <2>1. CASE task[t].seen = "paid"
    BY <1>3, <1>8, <2>1 DEF Expire, Applied, Says
  <2>2. CASE task[t].seen # "paid"
    BY <1>2, <1>8, <2>2 DEF Expire
  <2> QED
    BY <2>1, <2>2
<1>9. CASE RecordFailure(t)
  BY <1>3, <1>9 DEF RecordFailure, Applied, Says
<1>10. CASE Finish(t)
  <2>1. event[e].state = "processed" \/ e = task[t].event
    BY <1>3, <1>10 DEF Finish
  <2>2. CASE e = task[t].event /\ Says(t).kind = "settles" /\ Says(t).exact
    <3>1. status[event[e].says.order] = "paid"
      BY <1>10, <2>2 DEF Finish, TaskOK, OrderOf, Says
    <3>2. AppendRow(t, "PAYMENT_CAPTURED") /\ ledger \in Seq(LedgerRow)
      BY <1>10, <2>2 DEF Finish, TypeOK
    <3>3. /\ DOMAIN ledger' = 1 .. (Len(ledger) + 1) /\ Len(ledger) \in Nat
          /\ ledger'[Len(ledger) + 1] =
               [event |-> task[t].event, order |-> OrderOf(t),
                action |-> "PAYMENT_CAPTURED", by |-> t]
      BY <3>2, RowAppended
    <3>4. \E i \in DOMAIN ledger' : Row(i, e, "PAYMENT_CAPTURED")'
      BY <2>2, <3>3 DEF Row
    <3> QED
      BY <3>1, <3>4 DEF Applied
  <2>3. CASE e = task[t].event /\ ~(Says(t).kind = "settles" /\ Says(t).exact)
    BY <2>3 DEF Applied, Says
  <2> QED
    BY <2>1, <2>2, <2>3
<1>11. CASE Raise(t)
  BY <1>2, <1>11 DEF Raise
<1> QED
  BY <1>4, <1>5, <1>6, <1>7, <1>8, <1>9, <1>10, <1>11 DEF Move, Apply

-----------------------------------------------------------------------------
(* One step of a call preserves the invariant.                              *)
LEMMA MoveStep ==
  ASSUME IInv, NEW t \in Tasks, Move(t)
  PROVE  IInv'
<1>0. TypeOK /\ TaskOK(t)
  BY DEF IInv, TaskInv
<1>1. TypeOK'
  BY <1>0, MoveTyped
<1>2. Kept
  BY <1>0, MoveKeeps
<1>3. /\ task[t].pc # "idle" /\ task[t].event \in Events
      /\ \A u \in Tasks : u # t => task'[u] = task[u]
      /\ task'[t].pc = "idle" \/ task'[t].event = task[t].event
      /\ \A e \in Events : event'[e].says = event[e].says
      /\ \A e \in Events : event'[e] = event[e] \/ event'[e].state = "processed"
      /\ todo' = todo
  BY <1>0, MoveFrame
<1>4. \/ ledger' = ledger /\ (Unwritten(t)' => Unwritten(t))
      \/ Writes(t)
  BY <1>0, MoveLedger
<1>5. ASSUME Writes(t)
      PROVE  /\ \A i \in DOMAIN ledger : i \in DOMAIN ledger' /\ ledger'[i] = ledger[i]
             /\ \E n \in DOMAIN ledger' :
                  /\ \A i \in DOMAIN ledger' :
                       i = n \/ (i \in DOMAIN ledger /\ ledger'[i] = ledger[i])
                  /\ ledger'[n].event = task[t].event /\ ledger'[n].order = OrderOf(t)
                  /\ ledger'[n].by = t
  BY <1>0, <1>5, RowsAfter
<1>6. \A i \in DOMAIN ledger : ledger[i] \in LedgerRow
  BY <1>0 DEF TypeOK
<1>7. TaskInv'
  <2>1. SUFFICES ASSUME NEW u \in Tasks
                 PROVE  TaskOK(u)'
    BY DEF TaskInv, Tasks
  <2>2. TaskOK(u)
    BY DEF IInv, TaskInv
  <2>3. CASE u = t
    BY <1>0, <2>3, MoveKnows
  <2>4. CASE u # t
    BY <1>0, <1>2, <1>3, <2>2, <2>4, OthersKeep
  <2> QED
    BY <2>3, <2>4
<1>8. KnownInv'
  <2>1. \A s \in Sweepers : \A e \in todo'[s] : event'[e].state # "absent"
    BY <1>0, <1>2, <1>3 DEF IInv, KnownInv, Kept, TypeOK
  <2>2. \A i \in DOMAIN ledger : event'[ledger[i].event].state # "absent"
    BY <1>2, <1>6 DEF IInv, KnownInv, Kept, LedgerRow
  <2>3. CASE ledger' = ledger
    BY <2>1, <2>2, <2>3 DEF KnownInv
  <2>4. CASE Writes(t)
    <3>1. event'[task[t].event].state # "absent"
      BY <1>0, <1>2, <1>3 DEF TaskOK, Kept
    <3>2. \A i \in DOMAIN ledger' : event'[ledger'[i].event].state # "absent"
      BY <1>5, <2>2, <2>4, <3>1
    <3> QED
      BY <2>1, <3>2 DEF KnownInv
  <2> QED
    BY <1>4, <2>3, <2>4
<1>9. OneOwner'
  BY <1>3 DEF IInv, OneOwner, Tasks
<1>10. \A h \in Handlers : h # t => (Unwritten(h)' => Unwritten(h)) /\ task'[h] = task[h]
  <2>1. SUFFICES ASSUME NEW h \in Handlers, h # t
                 PROVE  (Unwritten(h)' => Unwritten(h)) /\ task'[h] = task[h]
    OBVIOUS
  <2>2. h \in Tasks /\ task'[h] = task[h]
    BY <1>3, <2>1 DEF Tasks
  <2>3. CASE task[h].pc = "idle"
    BY <2>2, <2>3 DEF Unwritten
  <2>4. CASE task[h].pc # "idle"
    <3>1. Says(h)' = Says(h)
      BY <1>3, <2>2, <2>4 DEF IInv, TaskInv, TaskOK, Says
    <3> QED
      BY <2>2, <3>1 DEF Unwritten
  <2> QED
    BY <2>3, <2>4
<1>11. NoRowYet'
  <2>1. SUFFICES ASSUME NEW h \in Handlers, Unwritten(h)', NEW i \in DOMAIN ledger',
                        ledger'[i].event = task'[h].event, ledger'[i].by \in Handlers
                 PROVE  FALSE
    BY DEF NoRowYet
  <2>2. task'[h].event = task[h].event /\ task[h].pc # "idle" /\ task'[h].pc # "idle"
    BY <1>3, <1>10, <2>1 DEF Unwritten
  <2>3. CASE ledger' = ledger
    <3>1. Unwritten(h)
      BY <1>4, <1>10, <2>1, <2>3 DEF Writes
    <3> QED
      BY <2>1, <2>2, <2>3, <3>1 DEF IInv, NoRowYet
  <2>4. CASE Writes(t)
    <3>1. h # t
      BY <2>1, <2>4 DEF Writes
    <3>2. Unwritten(h)
      BY <1>10, <2>1, <3>1
    <3>3. PICK n \in DOMAIN ledger' :
            /\ \A j \in DOMAIN ledger' :
                 j = n \/ (j \in DOMAIN ledger /\ ledger'[j] = ledger[j])
            /\ ledger'[n].event = task[t].event /\ ledger'[n].by = t
      BY <1>5, <2>4
    <3>4. CASE i = n
      BY <1>3, <2>1, <2>2, <3>1, <3>3, <3>4 DEF IInv, OneOwner
    <3>5. CASE i # n
      BY <2>1, <2>2, <3>2, <3>3, <3>5 DEF IInv, NoRowYet
    <3> QED
      BY <3>4, <3>5
  <2> QED
    BY <1>4, <2>3, <2>4
<1>12. PaidForWhatIsOwed'
  <2>1. SUFFICES ASSUME NEW o \in Orders, status'[o] = "paid"
                 PROVE  \E e \in Events :
                          /\ event'[e].state # "absent"
                          /\ event'[e].says = [kind |-> "settles", order |-> o, exact |-> TRUE]
    BY DEF PaidForWhatIsOwed
  <2>2. CASE status[o] = "paid"
    BY <1>2, <2>2 DEF IInv, PaidForWhatIsOwed, Kept
  <2>3. CASE o = OrderOf(t) /\ Says(t).kind = "settles" /\ Says(t).exact
    <3>1. event[task[t].event].says \in Payload
      BY <1>0, <1>3 DEF TypeOK, EventRecord
    <3>2. event[task[t].event].says = [kind |-> "settles", order |-> o, exact |-> TRUE]
      BY <2>3, <3>1 DEF OrderOf, Says, Payload
    <3>3. event[task[t].event].state # "absent"
      BY <1>0, <1>3 DEF TaskOK
    <3> QED
      BY <1>2, <1>3, <3>2, <3>3 DEF Kept
  <2> QED
    BY <1>0, <2>1, <2>2, <2>3, MoveStatus
<1>13. ProcessedIsApplied'
  <2>1. SUFFICES ASSUME NEW e \in Events, event'[e].state = "processed",
                        event'[e].says.kind = "settles", event'[e].says.order # None,
                        event'[e].says.exact
                 PROVE  /\ status'[event'[e].says.order] = "paid"
                        /\ \E i \in DOMAIN ledger' : Row(i, e, "PAYMENT_CAPTURED")'
    BY DEF ProcessedIsApplied
  <2>2. event'[e].says = event[e].says
    BY <1>3
  <2>3. event[e].says.order \in Orders
    BY <1>0, <2>1, <2>2 DEF TypeOK, EventRecord, Payload
  <2>4. CASE event[e].state = "processed"
    <3>1. /\ status[event[e].says.order] = "paid"
          /\ \E i \in DOMAIN ledger : Row(i, e, "PAYMENT_CAPTURED")
      BY <2>1, <2>2, <2>4 DEF IInv, ProcessedIsApplied
    <3>2. \E i \in DOMAIN ledger' : Row(i, e, "PAYMENT_CAPTURED")'
      BY <1>2, <3>1 DEF Kept, Row
    <3> QED
      BY <1>2, <2>2, <2>3, <3>1, <3>2 DEF Kept
  <2>5. CASE Applied(e)
    BY <1>2, <2>1, <2>2, <2>3, <2>5 DEF Applied, Kept
  <2> QED
    BY <1>0, <2>1, <2>4, <2>5, MoveProcesses
<1>14. DisputeIsOnRecord'
  <2>1. SUFFICES ASSUME NEW o \in Orders, status'[o] = "payment_disputed"
                 PROVE  \E i \in DOMAIN ledger' :
                          ledger'[i].order = o /\ ledger'[i].action = "PAYMENT_DISPUTED"
    BY DEF DisputeIsOnRecord
  <2>2. \E i \in DOMAIN ledger : ledger[i].order = o /\ ledger[i].action = "PAYMENT_DISPUTED"
    <3>1. CASE status[o] = "payment_disputed"
      BY <3>1 DEF IInv, DisputeIsOnRecord
    <3>2. CASE o = OrderOf(t) /\ task[t].pc = "dispute"
      BY <1>0, <3>2 DEF TaskOK
    <3> QED
      BY <1>0, <2>1, <3>1, <3>2, MoveStatus
  <2> QED
    BY <1>2, <2>2 DEF Kept
<1>15. OneRowPerEvent'
  <2>1. CASE ledger' = ledger
    BY <2>1 DEF IInv, OneRowPerEvent
  <2>2. CASE Writes(t)
    <3>1. PICK n \in DOMAIN ledger' :
            /\ \A j \in DOMAIN ledger' :
                 j = n \/ (j \in DOMAIN ledger /\ ledger'[j] = ledger[j])
            /\ ledger'[n].event = task[t].event /\ ledger'[n].by = t
      BY <1>5, <2>2
    <3>2. t \in Handlers =>
            \A i \in DOMAIN ledger :
              ~(ledger[i].event = task[t].event /\ ledger[i].by \in Handlers)
      BY <2>2 DEF Writes, IInv, NoRowYet
    <3>3. \A i, j \in DOMAIN ledger :
            (/\ ledger[i].event = ledger[j].event
             /\ ledger[i].by \in Handlers /\ ledger[j].by \in Handlers)
            => i = j
      BY DEF IInv, OneRowPerEvent
    <3> QED
      BY <3>1, <3>2, <3>3 DEF OneRowPerEvent
  <2> QED
    BY <1>4, <2>1, <2>2
<1> QED
  BY <1>1, <1>7, <1>8, <1>9, <1>11, <1>12, <1>13, <1>14, <1>15 DEF IInv

-----------------------------------------------------------------------------
(* What the ledger and the orders show is untouched by a step that writes   *)
(* neither and processes no event that settles.                             *)
LEMMA BooksUntouched ==
  ASSUME IInv, Kept, UNCHANGED <<status, ledger>>,
         \A e \in Events : event'[e] # event[e] =>
           event'[e].state # "processed" \/ event'[e].says.kind # "settles"
  PROVE  /\ PaidForWhatIsOwed' /\ ProcessedIsApplied' /\ DisputeIsOnRecord' /\ OneRowPerEvent'
         /\ \A i \in DOMAIN ledger' : event'[ledger'[i].event].state # "absent"
<1>1. PaidForWhatIsOwed'
  BY DEF IInv, PaidForWhatIsOwed, Kept
<1>2. ProcessedIsApplied'
  <2>1. SUFFICES ASSUME NEW e \in Events, event'[e].state = "processed",
                        event'[e].says.kind = "settles", event'[e].says.order # None,
                        event'[e].says.exact
                 PROVE  /\ status'[event'[e].says.order] = "paid"
                        /\ \E i \in DOMAIN ledger' : Row(i, e, "PAYMENT_CAPTURED")'
    BY DEF ProcessedIsApplied
  <2>2. event'[e] = event[e]
    BY <2>1
  <2> QED
    BY <2>1, <2>2 DEF IInv, ProcessedIsApplied, Row
<1>3. DisputeIsOnRecord'
  BY DEF IInv, DisputeIsOnRecord
<1>4. OneRowPerEvent'
  BY DEF IInv, OneRowPerEvent
<1>5. \A i \in DOMAIN ledger : ledger[i].event \in Events
  <2>1. ledger \in Seq(LedgerRow)
    BY DEF IInv, TypeOK
  <2>2. \A i \in DOMAIN ledger : ledger[i] \in LedgerRow
    BY <2>1
  <2> QED
    BY <2>2 DEF LedgerRow
<1>6. \A i \in DOMAIN ledger' : event'[ledger'[i].event].state # "absent"
  BY <1>5 DEF IInv, KnownInv, Kept
<1> QED
  BY <1>1, <1>2, <1>3, <1>4, <1>6

(* The claim: a new event, that no call applies and no row names.           *)
LEMMA ClaimStep ==
  ASSUME IInv, NEW h \in Handlers, NEW e \in Events, NEW payload \in Payload,
         Claim(h, e, payload)
  PROVE  IInv'
<1>0. /\ h \in Tasks /\ task[h] = Idle /\ event[e].state = "absent"
      /\ UNCHANGED <<status, ledger, todo, raises>>
  BY DEF Claim, Store, Tasks
<1>1. /\ event \in [Events -> EventRecord] /\ task \in [Tasks -> TaskRecord]
      /\ todo \in [Sweepers -> SUBSET Events]
  BY DEF IInv, TypeOK
<1>2. PICK state \in {"claimed", "processed"} :
        /\ event' = [event EXCEPT ![e] = [state |-> state, says |-> payload]]
        /\ state = "processed" => payload.kind = "unhandled"
  BY DEF Claim, Store
<1>3. \/ task' = task
      \/ task' = [task EXCEPT ![h] = [pc |-> "find", event |-> e, seen |-> "pending"]]
  BY DEF Claim, Store
<1>4. /\ event'[e] = [state |-> state, says |-> payload]
      /\ \A d \in Events : d # e => event'[d] = event[d]
  BY <1>1, <1>2
<1>5. event' \in [Events -> EventRecord]
  <2>1. [state |-> state, says |-> payload] \in EventRecord
    BY DEF EventRecord
  <2> QED
    BY <1>1, <1>2, <2>1
<1>6. task' \in [Tasks -> TaskRecord]
  <2>1. [pc |-> "find", event |-> e, seen |-> "pending"] \in TaskRecord
    BY DEF TaskRecord, OrderStatus
  <2> QED
    BY <1>1, <1>3, <2>1
<1>7. TypeOK'
  BY <1>0, <1>5, <1>6 DEF IInv, TypeOK
<1>8. Kept
  BY <1>0, <1>4 DEF Kept
<1>9. \A u \in Tasks :
        \/ task'[u] = task[u]
        \/ u = h /\ task'[u].pc = "find" /\ task'[u].event = e
  BY <1>1, <1>3
<1>10. TaskInv'
  <2>1. SUFFICES ASSUME NEW u \in Tasks
                 PROVE  TaskOK(u)'
    BY DEF TaskInv, Tasks
  <2>2. CASE task'[u] = task[u]
    BY <1>8, <2>2, OthersKeep DEF IInv, TaskInv
  <2>3. CASE task'[u].pc = "find" /\ task'[u].event = e
    BY <1>4, <2>3 DEF TaskOK
  <2> QED
    BY <1>9, <2>2, <2>3
<1>11. \A d \in Events : event'[d] # event[d] =>
         event'[d].state # "processed" \/ event'[d].says.kind # "settles"
  BY <1>2, <1>4
<1>12. /\ PaidForWhatIsOwed' /\ ProcessedIsApplied' /\ DisputeIsOnRecord' /\ OneRowPerEvent'
       /\ \A i \in DOMAIN ledger' : event'[ledger'[i].event].state # "absent"
  BY <1>0, <1>8, <1>11, BooksUntouched
<1>13. KnownInv'
  BY <1>0, <1>1, <1>8, <1>12 DEF IInv, KnownInv, Kept
<1>14. \A k \in Handlers : task[k].pc # "idle" => task[k].event \in Events /\ task[k].event # e
  BY <1>0 DEF IInv, TaskInv, TaskOK, Tasks
<1>15. OneOwner'
  BY <1>9, <1>14 DEF IInv, OneOwner, Tasks
<1>16. NoRowYet'
  <2>1. SUFFICES ASSUME NEW k \in Handlers, Unwritten(k)', NEW i \in DOMAIN ledger,
                        ledger[i].event = task'[k].event, ledger[i].by \in Handlers
                 PROVE  FALSE
    BY <1>0 DEF NoRowYet
  <2>2. CASE task'[k] = task[k]
    <3>1. task[k].pc # "idle"
      BY <2>1, <2>2 DEF Unwritten
    <3>2. Says(k)' = Says(k)
      BY <1>4, <1>14, <2>2, <3>1 DEF Says
    <3>3. Unwritten(k)
      BY <2>1, <2>2, <3>2 DEF Unwritten
    <3> QED
      BY <2>1, <2>2, <3>3 DEF IInv, NoRowYet
  <2>3. CASE task'[k].event = e
    BY <1>0, <2>1, <2>3 DEF IInv, KnownInv
  <2> QED
    BY <1>9, <2>2, <2>3 DEF Tasks
<1> QED
  BY <1>7, <1>10, <1>12, <1>13, <1>15, <1>16 DEF IInv

(* The sweeper picks what to retry, and goes on to the next.                *)
LEMMA SweepStep ==
  ASSUME IInv, NEW s \in Sweepers, ListUnprocessed(s) \/ Reapply(s)
  PROVE  IInv'
<1>0. UNCHANGED <<event, status, ledger, raises>>
  BY DEF ListUnprocessed, Reapply
<1>1. /\ task \in [Tasks -> TaskRecord] /\ todo \in [Sweepers -> SUBSET Events]
      /\ s \in Tasks /\ s \notin Handlers
  BY TasksAssumption DEF IInv, TypeOK, Tasks
<1>2. Kept
  BY <1>0 DEF Kept
<1>3. \A r \in Sweepers : \A d \in todo'[r] : d \in Events /\ event[d].state # "absent"
  BY <1>1 DEF ListUnprocessed, Reapply, Unprocessed, IInv, KnownInv
<1>4. todo' \in [Sweepers -> SUBSET Events]
  BY <1>1 DEF ListUnprocessed, Reapply, Unprocessed
<1>5. \/ task' = task
      \/ \E e \in todo[s] :
           task' = [task EXCEPT ![s] = [pc |-> "find", event |-> e, seen |-> "pending"]]
  BY DEF ListUnprocessed, Reapply
<1>6. task' \in [Tasks -> TaskRecord]
  <2>1. \A e \in Events : [pc |-> "find", event |-> e, seen |-> "pending"] \in TaskRecord
    BY DEF TaskRecord, OrderStatus
  <2> QED
    BY <1>1, <1>5, <2>1
<1>7. TypeOK'
  BY <1>0, <1>4, <1>6 DEF IInv, TypeOK
<1>8. \A u \in Tasks :
        \/ task'[u] = task[u]
        \/ u = s /\ task'[u].pc = "find" /\ task'[u].event \in todo[s]
  BY <1>1, <1>5
<1>9. TaskInv'
  <2>1. SUFFICES ASSUME NEW u \in Tasks
                 PROVE  TaskOK(u)'
    BY DEF TaskInv, Tasks
  <2>2. CASE task'[u] = task[u]
    BY <1>2, <2>2, OthersKeep DEF IInv, TaskInv
  <2>3. CASE task'[u].pc = "find" /\ task'[u].event \in todo[s]
    BY <1>0, <1>1, <2>3 DEF IInv, KnownInv, TaskOK
  <2> QED
    BY <1>8, <2>2, <2>3
<1>10. /\ PaidForWhatIsOwed' /\ ProcessedIsApplied' /\ DisputeIsOnRecord' /\ OneRowPerEvent'
       /\ \A i \in DOMAIN ledger' : event'[ledger'[i].event].state # "absent"
  BY <1>0, <1>2, BooksUntouched
<1>11. KnownInv'
  BY <1>0, <1>3, <1>10 DEF KnownInv
<1>12. \A h \in Handlers : task'[h] = task[h]
  BY <1>1, <1>8 DEF Tasks
<1>13. OneOwner'
  BY <1>12 DEF IInv, OneOwner
<1>14. NoRowYet'
  <2>1. \A h \in Handlers : Unwritten(h)' = Unwritten(h)
    BY <1>0, <1>12 DEF Unwritten, Says
  <2> QED
    BY <1>0, <1>12, <2>1 DEF IInv, NoRowYet
<1> QED
  BY <1>7, <1>9, <1>10, <1>11, <1>13, <1>14 DEF IInv

LEMMA Initially == Init => IInv
<1> SUFFICES ASSUME Init
             PROVE  IInv
  OBVIOUS
<1>1. TypeOK
  BY BoundAssumption
     DEF Init, TypeOK, EventRecord, Payload, Kind, Unknown, OrderStatus, TaskRecord, Idle
<1>2. \A t \in Tasks : task[t].pc = "idle"
  BY DEF Init, Idle
<1>3. /\ DOMAIN ledger = {} /\ \A s \in Sweepers : todo[s] = {}
      /\ \A o \in Orders : status[o] = "pending"
      /\ \A e \in Events : event[e].state = "absent"
  BY DEF Init, Unknown
<1>4. TaskInv /\ OneOwner /\ NoRowYet
  BY <1>2, <1>3 DEF TaskInv, TaskOK, OneOwner, NoRowYet, Unwritten, Tasks
<1>5. KnownInv /\ PaidForWhatIsOwed /\ ProcessedIsApplied /\ DisputeIsOnRecord /\ OneRowPerEvent
  BY <1>3 DEF KnownInv, PaidForWhatIsOwed, ProcessedIsApplied, DisputeIsOnRecord, OneRowPerEvent
<1> QED
  BY <1>1, <1>4, <1>5 DEF IInv

LEMMA Stutter == IInv /\ UNCHANGED vars => IInv'
<1> SUFFICES ASSUME IInv, UNCHANGED vars
             PROVE  IInv'
  OBVIOUS
<1>1. UNCHANGED <<event, status, ledger, task, todo, raises>>
  BY DEF vars
<1>2. TypeOK' /\ KnownInv' /\ OneOwner'
  BY <1>1 DEF IInv, TypeOK, KnownInv, OneOwner
<1>3. TaskInv' /\ NoRowYet'
  BY <1>1 DEF IInv, TaskInv, TaskOK, NoRowYet, Unwritten, Says, OrderOf
<1>4. PaidForWhatIsOwed' /\ ProcessedIsApplied' /\ DisputeIsOnRecord' /\ OneRowPerEvent'
  BY <1>1 DEF IInv, PaidForWhatIsOwed, ProcessedIsApplied, DisputeIsOnRecord, OneRowPerEvent, Row
<1> QED
  BY <1>2, <1>3, <1>4 DEF IInv

LEMMA Invariant == Spec => []IInv
<1>1. IInv /\ [Next]_vars => IInv'
  BY ClaimStep, MoveStep, SweepStep, Stutter DEF Next, Move
<1> QED
  BY <1>1, Initially, PTL DEF Spec

-----------------------------------------------------------------------------
(* Every variable of the webhook module keeps its type.                     *)
THEOREM TypeCorrect == Spec => []TypeOK
<1>1. IInv => TypeOK
  BY DEF IInv
<1> QED
  BY <1>1, Invariant, PTL

(* _on_paid: an order is paid only by an event of its own that claims what  *)
(* it is owed.                                                              *)
THEOREM PaidIsOwed == Spec => []PaidForWhatIsOwed
<1>1. IInv => PaidForWhatIsOwed
  BY DEF IInv
<1> QED
  BY <1>1, Invariant, PTL

(* mark_processed comes last: what it is called for is on the order and in  *)
(* the ledger, however calls interleave and raise.                          *)
THEOREM ProcessedWasApplied == Spec => []ProcessedIsApplied
<1>1. IInv => ProcessedIsApplied
  BY DEF IInv
<1> QED
  BY <1>1, Invariant, PTL

(* _on_paid writes the ledger before the order: a dispute can be explained. *)
THEOREM DisputeExplained == Spec => []DisputeIsOnRecord
<1>1. IInv => DisputeIsOnRecord
  BY DEF IInv
<1> QED
  BY <1>1, Invariant, PTL

(* insert_if_absent: of all deliveries of an event, one row at most.        *)
THEOREM DeliveredOnce == Spec => []OneRowPerEvent
<1>1. IInv => OneRowPerEvent
  BY DEF IInv
<1> QED
  BY <1>1, Invariant, PTL

(* set_status leaves a paid order alone, and mark_paid is idempotent.       *)
THEOREM PaidStaysPaid == Spec => PaidIsFinal
<1>1. IInv /\ [Next]_vars =>
        [\A o \in Orders : status[o] = "paid" => status'[o] = "paid"]_vars
  <2>1. SUFFICES ASSUME IInv, Next
                 PROVE  \A o \in Orders : status[o] = "paid" => status'[o] = "paid"
    OBVIOUS
  <2>2. ASSUME NEW t \in Tasks, Move(t)
        PROVE  \A o \in Orders : status[o] = "paid" => status'[o] = "paid"
    BY <2>1, <2>2, MoveStatus DEF IInv, TaskInv
  <2>3. ASSUME UNCHANGED status
        PROVE  \A o \in Orders : status[o] = "paid" => status'[o] = "paid"
    BY <2>3
  <2> QED
    BY <2>1, <2>2, <2>3 DEF Next, Move, Claim, Store, ListUnprocessed, Reapply
<1> QED
  BY <1>1, Invariant, PTL DEF Spec, PaidIsFinal
=============================================================================
