--------------------------- MODULE SessionCheckout ---------------------------
(***************************************************************************)
(* One negotiation session: process_message has the policy judge an offer   *)
(* and records the verdict, confirm_payment asks the provider for a payment *)
(* link and books the order it is for.                                      *)
(*                                                                         *)
(* The stores are in memory and do not suspend.  A message suspends where   *)
(* it publishes its decision to Redis, a confirmation where it waits for    *)
(* the provider: requests about one session interleave there.  The session  *)
(* a handler holds is the stored record itself, not a copy.                 *)
(***************************************************************************)
EXTENDS Integers, Sequences

CONSTANTS
  Tasks,        \* requests that may be in flight about the session
  Offers,       \* what can be offered; an offer has one final amount
  Keys,         \* idempotency keys of POST /sessions/{id}/confirm
  MaxRounds,    \* max_negotiation_rounds
  MaxDecisions, \* bound: offers judged
  MaxLinks,     \* bound: payment links asked for
  None          \* no offer, no key

ASSUME RoundsAssumption == MaxRounds \in Nat
ASSUME BoundsAssumption == MaxDecisions \in Nat /\ MaxLinks \in Nat
ASSUME NoneAssumption == None \notin Offers \union Keys

VARIABLES
  session,      \* the stored record: status, versions, the decision it quotes
  decisions,    \* audit rows GUARDRAIL_EVALUATED, in order; a row's index is its id
  links,        \* payment links the provider made, in order
  orders,       \* orders booked, in order
  task          \* task[t]: where request t is suspended, and its local variables

vars == <<session, decisions, links, orders, task>>

Outcome == {"APPROVED", "REJECTED", "ESCALATED"}
Quote == [offer : Offers, version : Nat]
NoQuote == [offer |-> None, version |-> 0]

SessionRecord ==
  [status : {"active", "negotiating", "awaiting_confirmation", "payment_pending"},
   version : Nat, round : Nat, outcome : Outcome \union {"none"},
   decision : Nat, approved : Quote \union {NoQuote}]
Decision == [quote : Quote, outcome : Outcome]
Link == [key : Keys, offer : Offers]
Order == [key : Keys, link : Nat, quote : Quote, decision : Nat]
TaskRecord == [pc : {"idle", "publishing", "linking", "linked"}, decision : Nat,
               quote : Quote \union {NoQuote}, key : Keys \union {None}, link : Nat]

Idle == [pc |-> "idle", decision |-> 0, quote |-> NoQuote, key |-> None, link |-> 0]

(* create_session.                                                          *)
Init ==
  /\ session = [status |-> "active", version |-> 0, round |-> 0,
                outcome |-> "none", decision |-> 0, approved |-> NoQuote]
  /\ decisions = <<>>
  /\ links = <<>>
  /\ orders = <<>>
  /\ task = [t \in Tasks |-> Idle]

-----------------------------------------------------------------------------

(* rule_negotiation_rounds with _aggregate: past the limit every verdict is *)
(* an escalation; before it, the other rules may give any.                  *)
Verdicts(round) == IF round >= MaxRounds THEN {"ESCALATED"} ELSE Outcome

Judge(t, offer, outcome, version) ==
  /\ task[t] = Idle
  /\ Len(decisions) < MaxDecisions
  /\ decisions' = Append(decisions, [quote |-> [offer |-> offer, version |-> version],
                                     outcome |-> outcome])
  /\ task' = [task EXCEPT ![t].pc = "publishing", ![t].decision = Len(decisions) + 1]
  /\ UNCHANGED <<session, links, orders>>

(* process_message, to where it publishes the decision: the offer (already  *)
(* clamped by the rules) takes the next version, is judged, and the verdict *)
(* goes to the audit log.  What comes before changes nothing.               *)
Evaluate(t, offer, outcome) ==
  /\ outcome \in Verdicts(session.round)
  /\ Judge(t, offer, outcome, session.version + 1)

(* The update at the end of process_message: the round is counted from the  *)
(* record as it is now, the rest is what this request computed.             *)
RecordWith(t, status, id) ==
  LET d == decisions[task[t].decision] IN
  /\ task[t].pc = "publishing"
  /\ session' = [status |-> status, version |-> d.quote.version,
                 round |-> session.round + 1, outcome |-> d.outcome, decision |-> id,
                 approved |-> IF d.outcome = "APPROVED" THEN d.quote ELSE NoQuote]
  /\ task' = [task EXCEPT ![t] = Idle]
  /\ UNCHANGED <<decisions, links, orders>>

StatusAfter(outcome) ==
  IF outcome = "APPROVED" THEN "awaiting_confirmation" ELSE "negotiating"

(* Variant of Record: a session waiting for its payment stays so.           *)
RecordStillPending(t) ==
  RecordWith(t, IF session.status = "payment_pending" THEN "payment_pending"
                ELSE StatusAfter(decisions[task[t].decision].outcome),
             task[t].decision)

(* Variant of Record: the session keeps the first decision it was given.    *)
RecordFirstDecision(t) ==
  RecordWith(t, StatusAfter(decisions[task[t].decision].outcome),
             IF session.decision = 0 THEN task[t].decision ELSE session.decision)

Record(t) ==
  RecordWith(t, StatusAfter(decisions[task[t].decision].outcome), task[t].decision)

(* confirm_payment and assert_payment_gates, to where the provider is       *)
(* asked.  Any other session is refused and nothing changes.                *)
Confirm(t, key) ==
  /\ task[t] = Idle
  /\ session.outcome = "APPROVED" /\ session.decision # 0 /\ session.approved # NoQuote
  /\ task' = [task EXCEPT ![t].pc = "linking", ![t].quote = session.approved, ![t].key = key]
  /\ UNCHANGED <<session, decisions, links, orders>>

(* The provider makes a link for what it was asked.                         *)
MakeLink(t) ==
  /\ task[t].pc = "linking"
  /\ Len(links) < MaxLinks
  /\ links' = Append(links, [key |-> task[t].key, offer |-> task[t].quote.offer])
  /\ task' = [task EXCEPT ![t].pc = "linked", ![t].link = Len(links) + 1]
  /\ UNCHANGED <<session, decisions, orders>>

(* It refuses, or its answer does not arrive: the request raises.           *)
LinkFails(t) ==
  /\ task[t].pc \in {"linking", "linked"}
  /\ task' = [task EXCEPT ![t] = Idle]
  /\ UNCHANGED <<session, decisions, links, orders>>

Book(t, quote) ==
  /\ task[t].pc = "linked"
  /\ orders' = Append(orders, [key |-> task[t].key, link |-> task[t].link,
                               quote |-> quote, decision |-> session.decision])
  /\ session' = [session EXCEPT !.status = "payment_pending"]
  /\ task' = [task EXCEPT ![t] = Idle]
  /\ UNCHANGED <<decisions, links>>

(* Variant of BookOrder: the offer is read again after the call.            *)
BookOrderRereading(t) ==
  Book(t, IF session.approved = NoQuote THEN task[t].quote ELSE session.approved)

(* Variant of BookOrder: the version is the one the session has reached.    *)
BookOrderLiveVersion(t) == Book(t, [task[t].quote EXCEPT !.version = session.version])

(* The rest of confirm_payment: the order is for the offer read before the  *)
(* call, under the decision the record quotes now.                          *)
BookOrder(t) == Book(t, task[t].quote)

Next ==
  \E t \in Tasks :
    \/ \E offer \in Offers, outcome \in Outcome : Evaluate(t, offer, outcome)
    \/ Record(t)
    \/ \E key \in Keys : Confirm(t, key)
    \/ MakeLink(t)
    \/ LinkFails(t)
    \/ BookOrder(t)

Spec == Init /\ [][Next]_vars

-----------------------------------------------------------------------------
TypeOK ==
  /\ session \in SessionRecord
  /\ decisions \in Seq(Decision)
  /\ links \in Seq(Link)
  /\ orders \in Seq(Order)
  /\ task \in [Tasks -> TaskRecord]

(* An order owes what its payment link asks for, and no two orders share a  *)
(* link, whatever was renegotiated while the link was being made: the       *)
(* webhook that compares the two amounts finds them equal.                  *)
OrderOwesWhatItsLinkAsks ==
  \A i \in DOMAIN orders :
    /\ orders[i].link \in DOMAIN links
    /\ links[orders[i].link].offer = orders[i].quote.offer
    /\ \A j \in DOMAIN orders : orders[j].link = orders[i].link => j = i

(* Nothing is ordered that the policy did not approve under that version.   *)
OrderWasApproved ==
  \A i \in DOMAIN orders :
    \E d \in DOMAIN decisions :
      decisions[d].outcome = "APPROVED" /\ decisions[d].quote = orders[i].quote

(* The decision an order names is the one that approved what it is for.     *)
OrderNamesItsDecision ==
  \A i \in DOMAIN orders :
    /\ orders[i].decision \in DOMAIN decisions
    /\ decisions[orders[i].decision] = [quote |-> orders[i].quote, outcome |-> "APPROVED"]

(* An offer version is given to one decision: the pair names what a payment *)
(* link is bound to.                                                        *)
VersionNamesOneDecision ==
  \A d, e \in DOMAIN decisions :
    decisions[d].quote.version = decisions[e].quote.version => d = e

(* No more offers are judged on their merits than the policy allows rounds. *)
RoundsAreLimited ==
  \A d \in DOMAIN decisions : d > MaxRounds => decisions[d].outcome = "ESCALATED"

(* While a session waits for a payment, the last order booked is for the    *)
(* offer the session shows as approved.                                     *)
PendingOrderIsTheQuote ==
  session.status = "payment_pending" =>
    /\ orders # <<>>
    /\ orders[Len(orders)].quote = session.approved
=============================================================================
