------------------------ MODULE SessionCheckoutProofs ------------------------
(***************************************************************************)
(* What SessionCheckout keeps for any number of overlapping requests, and   *)
(* what it keeps besides when requests are served one at a time.            *)
(***************************************************************************)
EXTENDS SessionCheckout, TLAPS

(* The policy approved this offer under this version.                       *)
WasApproved(quote) ==
  \E d \in DOMAIN decisions :
    decisions[d].outcome = "APPROVED" /\ decisions[d].quote = quote

SessionInv == session.approved # NoQuote => WasApproved(session.approved)

(* What a suspended request still holds when it goes on.                    *)
TaskInv ==
  \A t \in Tasks :
    /\ task[t].pc = "publishing" => task[t].decision \in DOMAIN decisions
    /\ task[t].pc \in {"linking", "linked"} =>
         /\ task[t].key \in Keys
         /\ task[t].quote \in Quote
         /\ WasApproved(task[t].quote)
    /\ task[t].pc = "linked" =>
         /\ task[t].link \in DOMAIN links
         /\ links[task[t].link].offer = task[t].quote.offer

(* A link that a request is about to book is its own.                       *)
LinkInv ==
  \A t \in Tasks : task[t].pc = "linked" =>
    /\ \A i \in DOMAIN orders : orders[i].link # task[t].link
    /\ \A u \in Tasks : task[u].pc = "linked" /\ task[u].link = task[t].link => u = t

IInv ==
  /\ TypeOK /\ SessionInv /\ TaskInv /\ LinkInv
  /\ OrderOwesWhatItsLinkAsks /\ OrderWasApproved

-----------------------------------------------------------------------------
LEMMA InitInvariant == Init => IInv
<1> SUFFICES ASSUME Init PROVE IInv
  OBVIOUS
<1> USE DEF Init
<1>1. TypeOK
  BY DEF TypeOK, SessionRecord, TaskRecord, Idle, NoQuote
<1>2. SessionInv /\ TaskInv /\ LinkInv
  BY DEF SessionInv, TaskInv, LinkInv, Idle
<1>3. OrderOwesWhatItsLinkAsks /\ OrderWasApproved
  BY DEF OrderOwesWhatItsLinkAsks, OrderWasApproved
<1> QED
  BY <1>1, <1>2, <1>3 DEF IInv

(* Idle requests have nothing to keep.                                      *)
LEMMA IdleIsTyped == Idle \in TaskRecord /\ NoQuote \notin Quote
BY NoneAssumption DEF Idle, TaskRecord, NoQuote, Quote

(* No row of the audit log goes away.                                       *)
LEMMA ApprovalStays ==
  ASSUME TypeOK, NEW d \in Decision, decisions' = Append(decisions, d)
  PROVE  /\ \A quote : WasApproved(quote) => WasApproved(quote)'
         /\ \A e \in DOMAIN decisions : e \in DOMAIN decisions' /\ decisions'[e] = decisions[e]
<1>1. \A e \in DOMAIN decisions : e \in DOMAIN decisions' /\ decisions'[e] = decisions[e]
  BY DEF TypeOK
<1> QED
  BY <1>1 DEF WasApproved

(* A message is judged: one row more, nothing else but the request moves.   *)
LEMMA EvaluateStep ==
  ASSUME IInv, NEW t \in Tasks, NEW offer \in Offers, NEW outcome \in Outcome,
         Evaluate(t, offer, outcome)
  PROVE  IInv'
<1> DEFINE d == [quote |-> [offer |-> offer, version |-> session.version + 1],
                 outcome |-> outcome]
<1>1. d \in Decision
  BY DEF IInv, TypeOK, SessionRecord, Decision, Quote
<1>2. /\ decisions' = Append(decisions, d)
      /\ task' = [task EXCEPT ![t].pc = "publishing", ![t].decision = Len(decisions) + 1]
      /\ task[t] = Idle
      /\ UNCHANGED <<session, links, orders>>
  BY DEF Evaluate, Judge
<1> HIDE DEF d
<1>3. /\ \A quote : WasApproved(quote) => WasApproved(quote)'
      /\ \A e \in DOMAIN decisions : e \in DOMAIN decisions' /\ decisions'[e] = decisions[e]
  BY <1>1, <1>2, ApprovalStays DEF IInv
<1>4. Len(decisions) + 1 \in DOMAIN decisions' /\ Len(decisions) + 1 \in Nat
  BY <1>1, <1>2 DEF IInv, TypeOK
<1>5. TypeOK'
  <2>1. task' \in [Tasks -> TaskRecord]
    <3>1. [task[t] EXCEPT !.pc = "publishing", !.decision = Len(decisions) + 1] \in TaskRecord
      BY <1>4 DEF IInv, TypeOK, TaskRecord
    <3> QED
      BY <1>2, <3>1 DEF IInv, TypeOK
  <2>2. decisions' \in Seq(Decision)
    BY <1>1, <1>2 DEF IInv, TypeOK
  <2> QED
    BY <1>2, <2>1, <2>2 DEF IInv, TypeOK
<1>6. /\ task'[t].pc = "publishing" /\ task'[t].decision \in DOMAIN decisions'
      /\ \A u \in Tasks \ {t} : task'[u] = task[u]
  BY <1>2, <1>4 DEF IInv, TypeOK, TaskRecord
<1>7. SessionInv'
  BY <1>2, <1>3 DEF IInv, SessionInv
<1>8. TaskInv'
  BY <1>2, <1>3, <1>6 DEF IInv, TaskInv
<1>9. LinkInv' /\ OrderOwesWhatItsLinkAsks'
  <2>1. orders' = orders /\ links' = links
    BY <1>2
  <2>2. LinkInv'
    BY <1>6, <2>1 DEF IInv, LinkInv
  <2> QED
    BY <2>1, <2>2 DEF IInv, OrderOwesWhatItsLinkAsks
<1>10. OrderWasApproved'
  BY <1>2, <1>3 DEF IInv, OrderWasApproved, WasApproved
<1> QED
  BY <1>5, <1>7, <1>8, <1>9, <1>10 DEF IInv

(* A request that ends leaves what the others hold alone.                   *)
LEMMA EndOfRequest ==
  ASSUME IInv, NEW t \in Tasks, task' = [task EXCEPT ![t] = Idle],
         UNCHANGED <<decisions, links, orders>>
  PROVE  /\ task' \in [Tasks -> TaskRecord]
         /\ TaskInv' /\ LinkInv' /\ OrderOwesWhatItsLinkAsks' /\ OrderWasApproved'
<1>1. /\ task' \in [Tasks -> TaskRecord] /\ task'[t].pc = "idle"
      /\ \A u \in Tasks \ {t} : task'[u] = task[u]
  BY IdleIsTyped DEF IInv, TypeOK, Idle
<1>2. \A quote : WasApproved(quote)' <=> WasApproved(quote)
  BY DEF WasApproved
<1>3. TaskInv'
  BY <1>1, <1>2 DEF IInv, TaskInv
<1>4. LinkInv'
  BY <1>1 DEF IInv, LinkInv
<1>5. OrderOwesWhatItsLinkAsks' /\ OrderWasApproved'
  BY DEF IInv, OrderOwesWhatItsLinkAsks, OrderWasApproved
<1> QED
  BY <1>1, <1>3, <1>4, <1>5

LEMMA RecordStep ==
  ASSUME IInv, NEW t \in Tasks, Record(t)
  PROVE  IInv'
<1> DEFINE d == decisions[task[t].decision]
<1>1. task[t].pc = "publishing" /\ task[t].decision \in DOMAIN decisions
  BY DEF Record, RecordWith, IInv, TaskInv
<1>2. d \in Decision /\ task[t].decision \in Nat
  BY <1>1 DEF IInv, TypeOK, TaskRecord
<1>3. session' = [status |-> StatusAfter(d.outcome), version |-> d.quote.version,
                  round |-> session.round + 1, outcome |-> d.outcome,
                  decision |-> task[t].decision,
                  approved |-> IF d.outcome = "APPROVED" THEN d.quote ELSE NoQuote]
  BY DEF Record, RecordWith
<1>4. /\ task' = [task EXCEPT ![t] = Idle]
      /\ UNCHANGED <<decisions, links, orders>>
  BY DEF Record, RecordWith
<1>5. d.outcome = "APPROVED" => WasApproved(d.quote)
  BY <1>1 DEF WasApproved
<1> HIDE DEF d
<1>6. session' \in SessionRecord
  BY <1>2, <1>3 DEF IInv, TypeOK, SessionRecord, Decision, Quote, StatusAfter
<1>7. SessionInv'
  <2>1. session'.approved # NoQuote => WasApproved(session'.approved)
    BY <1>3, <1>5
  <2> QED
    BY <1>4, <2>1 DEF SessionInv, WasApproved
<1>8. TypeOK'
  BY <1>4, <1>6, EndOfRequest DEF IInv, TypeOK
<1> QED
  BY <1>4, <1>7, <1>8, EndOfRequest DEF IInv

LEMMA ConfirmStep ==
  ASSUME IInv, NEW t \in Tasks, NEW key \in Keys, Confirm(t, key)
  PROVE  IInv'
<1>1. /\ task' = [task EXCEPT ![t].pc = "linking", ![t].quote = session.approved,
                              ![t].key = key]
      /\ session.approved # NoQuote
      /\ UNCHANGED <<session, decisions, links, orders>>
  BY DEF Confirm
<1>2. session.approved \in Quote /\ WasApproved(session.approved)
  BY <1>1 DEF IInv, TypeOK, SessionRecord, SessionInv
<1>3. /\ task' \in [Tasks -> TaskRecord]
      /\ task'[t].pc = "linking" /\ task'[t].quote = session.approved /\ task'[t].key = key
      /\ \A u \in Tasks \ {t} : task'[u] = task[u]
  <2> DEFINE r == [task[t] EXCEPT !.pc = "linking", !.quote = session.approved, !.key = key]
  <2>1. r \in TaskRecord /\ r.pc = "linking" /\ r.quote = session.approved /\ r.key = key
    BY <1>2 DEF IInv, TypeOK, TaskRecord
  <2>2. task' = [task EXCEPT ![t] = r]
    BY <1>1
  <2> HIDE DEF r
  <2> QED
    BY <2>1, <2>2 DEF IInv, TypeOK
<1>4. \A quote : WasApproved(quote)' <=> WasApproved(quote)
  BY <1>1 DEF WasApproved
<1>5. TypeOK'
  BY <1>1, <1>3 DEF IInv, TypeOK
<1>6. SessionInv'
  BY <1>1, <1>4 DEF IInv, SessionInv
<1>7. TaskInv'
  BY <1>1, <1>2, <1>3, <1>4 DEF IInv, TaskInv
<1>8. LinkInv' /\ OrderOwesWhatItsLinkAsks' /\ OrderWasApproved'
  BY <1>1, <1>3 DEF IInv, LinkInv, OrderOwesWhatItsLinkAsks, OrderWasApproved
<1> QED
  BY <1>5, <1>6, <1>7, <1>8 DEF IInv

(* A new link belongs to the request it was made for and to no order yet.   *)
LEMMA MakeLinkStep ==
  ASSUME IInv, NEW t \in Tasks, MakeLink(t)
  PROVE  IInv'
<1> DEFINE new == [key |-> task[t].key, offer |-> task[t].quote.offer]
           id == Len(links) + 1
<1>1. /\ task[t].pc = "linking"
      /\ links' = Append(links, new)
      /\ task' = [task EXCEPT ![t].pc = "linked", ![t].link = id]
      /\ UNCHANGED <<session, decisions, orders>>
  BY DEF MakeLink
<1>2. new \in Link
  BY <1>1 DEF IInv, TaskInv, Link, Quote
<1>3. links \in Seq(Link)
  BY DEF IInv, TypeOK
<1>4. id \in Nat /\ id \notin DOMAIN links
  BY <1>3
<1>5. /\ links' \in Seq(Link) /\ id \in DOMAIN links' /\ links'[id].offer = task[t].quote.offer
      /\ \A l \in DOMAIN links : l \in DOMAIN links' /\ links'[l] = links[l]
  BY <1>1, <1>2, <1>3
<1> HIDE DEF new, id
<1>6. /\ task' \in [Tasks -> TaskRecord]
      /\ task'[t].pc = "linked" /\ task'[t].link = id
      /\ task'[t].quote = task[t].quote /\ task'[t].key = task[t].key
      /\ \A u \in Tasks \ {t} : task'[u] = task[u]
  BY <1>1, <1>4 DEF IInv, TypeOK, TaskRecord
<1>7. \A quote : WasApproved(quote)' <=> WasApproved(quote)
  BY <1>1 DEF WasApproved
<1>8. TypeOK'
  BY <1>1, <1>5, <1>6 DEF IInv, TypeOK
<1>9. SessionInv'
  BY <1>1, <1>7 DEF IInv, SessionInv
<1>10. TaskInv'
  BY <1>1, <1>5, <1>6, <1>7 DEF IInv, TaskInv
<1>11. OrderOwesWhatItsLinkAsks' /\ OrderWasApproved'
  BY <1>1, <1>5 DEF IInv, OrderOwesWhatItsLinkAsks, OrderWasApproved
<1>12. LinkInv'
  <2>1. \A i \in DOMAIN orders : orders[i].link # id
    BY <1>4 DEF IInv, OrderOwesWhatItsLinkAsks
  <2>2. \A u \in Tasks \ {t} : task[u].pc = "linked" => task[u].link # id
    BY <1>4 DEF IInv, TaskInv
  <2> QED
    BY <1>1, <1>6, <2>1, <2>2 DEF IInv, LinkInv
<1> QED
  BY <1>8, <1>9, <1>10, <1>11, <1>12 DEF IInv

LEMMA LinkFailsStep ==
  ASSUME IInv, NEW t \in Tasks, LinkFails(t)
  PROVE  IInv'
<1>1. /\ task' = [task EXCEPT ![t] = Idle]
      /\ UNCHANGED <<session, decisions, links, orders>>
  BY DEF LinkFails
<1>2. SessionInv'
  BY <1>1 DEF IInv, SessionInv, WasApproved
<1>3. TypeOK'
  BY <1>1, EndOfRequest DEF IInv, TypeOK
<1> QED
  BY <1>1, <1>2, <1>3, EndOfRequest DEF IInv

(* The order is for the quote its request held, which is what its link asks. *)
LEMMA BookOrderStep ==
  ASSUME IInv, NEW t \in Tasks, BookOrder(t)
  PROVE  IInv'
<1> DEFINE new == [key |-> task[t].key, link |-> task[t].link,
                   quote |-> task[t].quote, decision |-> session.decision]
           n == Len(orders) + 1
<1>1. /\ task[t].pc = "linked"
      /\ orders' = Append(orders, new)
      /\ session' = [session EXCEPT !.status = "payment_pending"]
      /\ task' = [task EXCEPT ![t] = Idle]
      /\ UNCHANGED <<decisions, links>>
  BY DEF BookOrder, Book
<1>2. /\ task[t].key \in Keys /\ task[t].quote \in Quote /\ WasApproved(task[t].quote)
      /\ task[t].link \in DOMAIN links /\ task[t].link \in Nat
      /\ links[task[t].link].offer = task[t].quote.offer
      /\ \A i \in DOMAIN orders : orders[i].link # task[t].link
  BY <1>1 DEF IInv, TypeOK, TaskRecord, TaskInv, LinkInv
<1>3. new \in Order
  BY <1>2 DEF IInv, TypeOK, SessionRecord, Order
<1>4. new.link = task[t].link /\ new.quote = task[t].quote
  OBVIOUS
<1> HIDE DEF new
<1>5. orders \in Seq(Order)
  BY DEF IInv, TypeOK
<1>6. /\ orders' \in Seq(Order) /\ DOMAIN orders' = DOMAIN orders \union {n}
      /\ n \notin DOMAIN orders /\ orders'[n] = new
      /\ \A i \in DOMAIN orders : orders'[i] = orders[i]
  BY <1>1, <1>3, <1>5
<1> HIDE DEF n
<1>7. /\ task' \in [Tasks -> TaskRecord] /\ task'[t].pc = "idle"
      /\ \A u \in Tasks \ {t} : task'[u] = task[u]
  BY <1>1, IdleIsTyped DEF IInv, TypeOK, Idle
<1>8. \A quote : WasApproved(quote)' <=> WasApproved(quote)
  BY <1>1 DEF WasApproved
<1>9. session' \in SessionRecord /\ session'.approved = session.approved
  BY <1>1 DEF IInv, TypeOK, SessionRecord
<1>10. TypeOK'
  BY <1>1, <1>6, <1>7, <1>9 DEF IInv, TypeOK
<1>11. SessionInv'
  BY <1>8, <1>9 DEF IInv, SessionInv
<1>12. TaskInv'
  BY <1>1, <1>7, <1>8 DEF IInv, TaskInv
<1>13. LinkInv'
  <2>1. \A u \in Tasks \ {t} : task[u].pc = "linked" => task[u].link # task[t].link
    BY <1>1 DEF IInv, LinkInv
  <2> QED
    BY <1>4, <1>6, <1>7, <2>1 DEF IInv, LinkInv
<1>14. OrderOwesWhatItsLinkAsks'
  BY <1>1, <1>2, <1>4, <1>6 DEF IInv, OrderOwesWhatItsLinkAsks
<1>15. OrderWasApproved'
  BY <1>1, <1>2, <1>4, <1>6 DEF IInv, OrderWasApproved, WasApproved
<1> QED
  BY <1>10, <1>11, <1>12, <1>13, <1>14, <1>15 DEF IInv

LEMMA NextInvariant == IInv /\ [Next]_vars => IInv'
<1> SUFFICES ASSUME IInv, [Next]_vars PROVE IInv'
  OBVIOUS
<1>1. CASE UNCHANGED vars
  BY <1>1 DEF vars, IInv, TypeOK, SessionInv, TaskInv, LinkInv, WasApproved,
              OrderOwesWhatItsLinkAsks, OrderWasApproved
<1>2. CASE Next
  BY <1>2, EvaluateStep, RecordStep, ConfirmStep, MakeLinkStep, LinkFailsStep,
     BookOrderStep DEF Next
<1> QED
  BY <1>1, <1>2

LEMMA Invariant == Spec => []IInv
BY InitInvariant, NextInvariant, PTL DEF Spec

(* Every variable of the session keeps its type.                            *)
THEOREM TypeCorrect == Spec => []TypeOK
<1>1. IInv => TypeOK
  BY DEF IInv
<1> QED
  BY <1>1, Invariant, PTL

(* confirm_payment: what an order owes is what its own link asks for.       *)
THEOREM LinkAsksWhatIsOwed == Spec => []OrderOwesWhatItsLinkAsks
<1>1. IInv => OrderOwesWhatItsLinkAsks
  BY DEF IInv
<1> QED
  BY <1>1, Invariant, PTL

(* confirm_payment: nothing is ordered that the policy did not approve.     *)
THEOREM OrdersWereApproved == Spec => []OrderWasApproved
<1>1. IInv => OrderWasApproved
  BY DEF IInv
<1> QED
  BY <1>1, Invariant, PTL

-----------------------------------------------------------------------------
(* One request at a time.                                                   *)
OneAtATime == \A t, u \in Tasks : t = u

(* A decision's index is its version and counts the rounds.                 *)
NumberInv ==
  \A d \in DOMAIN decisions :
    /\ decisions[d].quote.version = d
    /\ d > MaxRounds => decisions[d].outcome = "ESCALATED"

(* The session quotes the last decision recorded, in all its fields.        *)
QuoteInv ==
  /\ session.version = session.decision /\ session.round = session.decision
  /\ session.approved # NoQuote =>
       /\ session.decision \in DOMAIN decisions
       /\ decisions[session.decision] = [quote |-> session.approved, outcome |-> "APPROVED"]

(* Only the decision being published is not recorded yet, and a link is     *)
(* made for the offer the session still shows.                              *)
TurnInv ==
  \A t \in Tasks :
    /\ task[t].pc = "publishing" =>
         task[t].decision = Len(decisions) /\ Len(decisions) = session.decision + 1
    /\ task[t].pc # "publishing" => Len(decisions) = session.decision
    /\ task[t].pc \in {"linking", "linked"} => task[t].quote = session.approved

SerialInv ==
  /\ IInv /\ NumberInv /\ QuoteInv /\ TurnInv
  /\ OrderNamesItsDecision /\ PendingOrderIsTheQuote

LEMMA InitSerial == Init => SerialInv
<1> SUFFICES ASSUME Init PROVE SerialInv
  OBVIOUS
<1>1. NumberInv /\ QuoteInv /\ TurnInv
  BY DEF Init, NumberInv, QuoteInv, TurnInv, Idle
<1>2. OrderNamesItsDecision /\ PendingOrderIsTheQuote
  BY DEF Init, OrderNamesItsDecision, PendingOrderIsTheQuote
<1> QED
  BY <1>1, <1>2, InitInvariant DEF SerialInv

LEMMA EvaluateSerial ==
  ASSUME OneAtATime, SerialInv, NEW t \in Tasks, NEW offer \in Offers,
         NEW outcome \in Outcome, Evaluate(t, offer, outcome)
  PROVE  SerialInv'
<1> DEFINE d == [quote |-> [offer |-> offer, version |-> session.version + 1],
                 outcome |-> outcome]
           n == Len(decisions) + 1
<1>1. /\ decisions' = Append(decisions, d)
      /\ task' = [task EXCEPT ![t].pc = "publishing", ![t].decision = n]
      /\ task[t].pc = "idle"
      /\ UNCHANGED <<session, links, orders>>
      /\ outcome \in Verdicts(session.round)
  BY DEF Evaluate, Judge, Idle
<1>2. Len(decisions) = session.decision /\ session.version + 1 = n /\ session.round + 1 = n
  BY <1>1 DEF SerialInv, TurnInv, QuoteInv
<1>3. n > MaxRounds => outcome = "ESCALATED"
  BY <1>1, <1>2, RoundsAssumption DEF Verdicts, SerialInv, IInv, TypeOK, SessionRecord
<1>4. d \in Decision /\ d.quote.version = n /\ d.outcome = outcome
  BY <1>2 DEF SerialInv, IInv, TypeOK, SessionRecord, Decision, Quote
<1> HIDE DEF d
<1>5. decisions \in Seq(Decision)
  BY DEF SerialInv, IInv, TypeOK
<1>6. /\ DOMAIN decisions' = DOMAIN decisions \union {n}
      /\ decisions'[n] = d /\ Len(decisions') = n /\ n \in Nat
      /\ \A e \in DOMAIN decisions : e # n /\ decisions'[e] = decisions[e]
  BY <1>1, <1>4, <1>5
<1> HIDE DEF n
<1>7. NumberInv'
  BY <1>3, <1>4, <1>6 DEF SerialInv, NumberInv
<1>8. QuoteInv'
  BY <1>1, <1>6 DEF SerialInv, QuoteInv
<1>9. TurnInv'
  <2>1. \A u \in Tasks : u = t
    BY DEF OneAtATime
  <2>2. task'[t].pc = "publishing" /\ task'[t].decision = n
    BY <1>1 DEF SerialInv, IInv, TypeOK, TaskRecord
  <2>3. Len(decisions') = session'.decision + 1
    BY <1>1, <1>2, <1>6 DEF n, SerialInv, QuoteInv
  <2> QED
    BY <1>6, <2>1, <2>2, <2>3 DEF TurnInv
<1>10. OrderNamesItsDecision' /\ PendingOrderIsTheQuote'
  BY <1>1, <1>6 DEF SerialInv, OrderNamesItsDecision, PendingOrderIsTheQuote
<1> QED
  BY <1>7, <1>8, <1>9, <1>10, EvaluateStep DEF SerialInv

LEMMA RecordSerial ==
  ASSUME OneAtATime, SerialInv, NEW t \in Tasks, Record(t)
  PROVE  SerialInv'
<1> DEFINE n == task[t].decision
           d == decisions[n]
<1>1. task[t].pc = "publishing" /\ n \in DOMAIN decisions
  BY DEF Record, RecordWith, SerialInv, IInv, TaskInv
<1>2. n = Len(decisions) /\ n = session.decision + 1 /\ d.quote.version = n /\ d \in Decision
  BY <1>1 DEF SerialInv, TurnInv, NumberInv, IInv, TypeOK
<1>3. /\ session'.status = StatusAfter(d.outcome) /\ session'.version = d.quote.version
      /\ session'.round = session.round + 1 /\ session'.decision = n
      /\ session'.approved = IF d.outcome = "APPROVED" THEN d.quote ELSE NoQuote
      /\ task' = [task EXCEPT ![t] = Idle]
      /\ UNCHANGED <<decisions, links, orders>>
  BY DEF Record, RecordWith
<1>4. d.outcome = "APPROVED" => d = [quote |-> d.quote, outcome |-> "APPROVED"]
  BY <1>2 DEF Decision
<1> HIDE DEF n, d
<1>5. NumberInv'
  BY <1>3 DEF SerialInv, NumberInv
<1>6. QuoteInv'
  <2>1. session'.version = session'.decision /\ session'.round = session'.decision
    BY <1>2, <1>3 DEF SerialInv, QuoteInv
  <2>2. session'.approved # NoQuote =>
          n \in DOMAIN decisions /\ decisions[n] = [quote |-> session'.approved,
                                                    outcome |-> "APPROVED"]
    BY <1>1, <1>3, <1>4 DEF d
  <2> QED
    BY <1>3, <2>1, <2>2 DEF QuoteInv
<1>7. TurnInv'
  <2>1. \A u \in Tasks : u = t
    BY DEF OneAtATime
  <2>2. task'[t].pc = "idle"
    BY <1>3 DEF SerialInv, IInv, TypeOK, Idle
  <2> QED
    BY <1>2, <1>3, <2>1, <2>2 DEF TurnInv
<1>8. OrderNamesItsDecision' /\ PendingOrderIsTheQuote'
  BY <1>3 DEF SerialInv, OrderNamesItsDecision, PendingOrderIsTheQuote, StatusAfter
<1> QED
  BY <1>5, <1>6, <1>7, <1>8, RecordStep DEF SerialInv

(* Steps that leave the session and the log of decisions alone.             *)
LEMMA QuietSerial ==
  ASSUME OneAtATime, SerialInv, NEW t \in Tasks, IInv',
         UNCHANGED <<session, decisions, orders>>,
         task[t].pc # "publishing", task'[t].pc # "publishing",
         task'[t].pc \in {"linking", "linked"} => task'[t].quote = session.approved
  PROVE  SerialInv'
<1>1. NumberInv' /\ QuoteInv'
  BY DEF SerialInv, NumberInv, QuoteInv
<1>2. TurnInv'
  BY DEF SerialInv, TurnInv, OneAtATime
<1>3. OrderNamesItsDecision' /\ PendingOrderIsTheQuote'
  BY DEF SerialInv, OrderNamesItsDecision, PendingOrderIsTheQuote
<1> QED
  BY <1>1, <1>2, <1>3 DEF SerialInv

LEMMA BookOrderSerial ==
  ASSUME OneAtATime, SerialInv, NEW t \in Tasks, BookOrder(t)
  PROVE  SerialInv'
<1> DEFINE new == [key |-> task[t].key, link |-> task[t].link,
                   quote |-> task[t].quote, decision |-> session.decision]
           n == Len(orders) + 1
<1>1. /\ task[t].pc = "linked"
      /\ orders' = Append(orders, new)
      /\ session' = [session EXCEPT !.status = "payment_pending"]
      /\ task' = [task EXCEPT ![t] = Idle]
      /\ UNCHANGED <<decisions, links>>
  BY DEF BookOrder, Book
<1>2. IInv'
  BY BookOrderStep DEF SerialInv
<1>3. /\ session'.approved = session.approved /\ session'.decision = session.decision
      /\ session'.version = session.version /\ session'.round = session.round
  BY <1>1 DEF SerialInv, IInv, TypeOK, SessionRecord
<1>4. task[t].quote = session.approved /\ task[t].quote \in Quote
  BY <1>1 DEF SerialInv, TurnInv, IInv, TaskInv
<1>5. /\ session.decision \in DOMAIN decisions
      /\ decisions[session.decision] = [quote |-> task[t].quote, outcome |-> "APPROVED"]
  BY <1>4, IdleIsTyped DEF SerialInv, QuoteInv
<1>6. new.quote = task[t].quote /\ new.decision = session.decision
  OBVIOUS
<1> HIDE DEF new
<1>7. orders \in Seq(Order)
  BY DEF SerialInv, IInv, TypeOK
<1>8. /\ orders' \in Seq(Order)
      /\ DOMAIN orders' = DOMAIN orders \union {n}
      /\ orders'[n] = new /\ Len(orders') = n /\ orders' # <<>>
      /\ \A i \in DOMAIN orders : i # n /\ orders'[i] = orders[i]
  <2>1. orders' \in Seq(Order)
    BY <1>2 DEF IInv, TypeOK
  <2> QED
    BY <1>1, <1>7, <2>1
<1> HIDE DEF n
<1>9. NumberInv' /\ QuoteInv'
  BY <1>1, <1>3 DEF SerialInv, NumberInv, QuoteInv
<1>10. TurnInv'
  <2>1. task'[t].pc = "idle"
    BY <1>1 DEF SerialInv, IInv, TypeOK, Idle
  <2> QED
    BY <1>1, <1>3, <2>1 DEF SerialInv, TurnInv, OneAtATime
<1>11. OrderNamesItsDecision'
  BY <1>1, <1>5, <1>6, <1>8 DEF SerialInv, OrderNamesItsDecision
<1>12. PendingOrderIsTheQuote'
  BY <1>3, <1>4, <1>6, <1>8 DEF PendingOrderIsTheQuote
<1> QED
  BY <1>2, <1>9, <1>10, <1>11, <1>12 DEF SerialInv

LEMMA NextSerial ==
  ASSUME OneAtATime
  PROVE  SerialInv /\ [Next]_vars => SerialInv'
<1> SUFFICES ASSUME SerialInv, [Next]_vars PROVE SerialInv'
  OBVIOUS
<1>0. IInv'
  BY NextInvariant DEF SerialInv
<1>1. CASE UNCHANGED vars
  BY <1>0, <1>1 DEF vars, SerialInv, NumberInv, QuoteInv, TurnInv,
                    OrderNamesItsDecision, PendingOrderIsTheQuote
<1>2. ASSUME NEW t \in Tasks, NEW key \in Keys, Confirm(t, key) PROVE SerialInv'
  <2>1. /\ task[t].pc = "idle" /\ task'[t].pc = "linking"
        /\ task'[t].quote = session.approved
        /\ UNCHANGED <<session, decisions, orders>>
    BY <1>2 DEF Confirm, Idle, SerialInv, IInv, TypeOK, TaskRecord
  <2> QED
    BY <1>0, <2>1, QuietSerial
<1>3. ASSUME NEW t \in Tasks, MakeLink(t) \/ LinkFails(t) PROVE SerialInv'
  <2>1. /\ task[t].pc \in {"linking", "linked"} /\ task'[t].pc \in {"idle", "linked"}
        /\ task'[t].pc = "linked" => task'[t].quote = task[t].quote
        /\ UNCHANGED <<session, decisions, orders>>
    BY <1>3 DEF MakeLink, LinkFails, Idle, SerialInv, IInv, TypeOK, TaskRecord
  <2>2. task[t].quote = session.approved
    BY <2>1 DEF SerialInv, TurnInv
  <2> QED
    BY <1>0, <2>1, <2>2, QuietSerial
<1>4. CASE Next
  BY <1>2, <1>3, <1>4, EvaluateSerial, RecordSerial, BookOrderSerial DEF Next
<1> QED
  BY <1>1, <1>4

LEMMA SerialInvariant ==
  ASSUME OneAtATime
  PROVE  Spec => []SerialInv
BY InitSerial, NextSerial, PTL DEF Spec

(* create_pending: while requests do not overlap, an order names the        *)
(* decision that approved it.                                               *)
THEOREM OrdersNameDecisions ==
  ASSUME OneAtATime
  PROVE  Spec => []OrderNamesItsDecision
<1>1. SerialInv => OrderNamesItsDecision
  BY DEF SerialInv
<1> QED
  BY <1>1, SerialInvariant, PTL

(* confirm_payment: while requests do not overlap, a session that waits for *)
(* its payment shows what was ordered.                                      *)
THEOREM PendingShowsTheOrder ==
  ASSUME OneAtATime
  PROVE  Spec => []PendingOrderIsTheQuote
<1>1. SerialInv => PendingOrderIsTheQuote
  BY DEF SerialInv
<1> QED
  BY <1>1, SerialInvariant, PTL

(* process_message: while requests do not overlap, a version names one      *)
(* decision.                                                                *)
THEOREM VersionsNameDecisions ==
  ASSUME OneAtATime
  PROVE  Spec => []VersionNamesOneDecision
<1>1. SerialInv => VersionNamesOneDecision
  BY DEF SerialInv, NumberInv, VersionNamesOneDecision
<1> QED
  BY <1>1, SerialInvariant, PTL

(* rule_negotiation_rounds: while requests do not overlap, what is judged   *)
(* after max_negotiation_rounds is escalated.                               *)
THEOREM RoundLimit ==
  ASSUME OneAtATime
  PROVE  Spec => []RoundsAreLimited
<1>1. SerialInv => RoundsAreLimited
  BY DEF SerialInv, NumberInv, RoundsAreLimited
<1> QED
  BY <1>1, SerialInvariant, PTL
=============================================================================
