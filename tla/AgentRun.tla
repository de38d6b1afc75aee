------------------------------ MODULE AgentRun ------------------------------
(***************************************************************************)
(* A run of the AI runtime: one buyer's message taken through the graph     *)
(*   parse_intent, discover, recommend, assemble, authorize, guardrail.     *)
(* The runtime is another process: every tool call is an HTTP request whose *)
(* answer may be lost after the control plane served it, and merchants edit *)
(* the catalogue between two calls.  Only reads are tried again.            *)
(*                                                                         *)
(* One action per tool call; what the graph does between two calls touches  *)
(* nothing shared and belongs to the call before it.  The credential is     *)
(* checked before each call: one that has expired is a call that failed     *)
(* without being made.                                                      *)
(***************************************************************************)
EXTENDS Carts

CONSTANTS
  Attempts,       \* calls of AgentRunner.run, all with one run_id
  Shop,           \* the credential's merchant
  Budgets,        \* budgets a message names, None among them
  Asks,           \* quantities a message names
  RequestCeiling  \* max_request_amount_paise

ASSUME AgentAssumption == Shop \in Merchants /\ Asks \subseteq Int /\ None \notin Cart

VARIABLES
  run,            \* run[a]: the state of attempt a
  asked           \* history: authorization requests the control plane got

agentVars == <<run, asked>>

Goals == {"purchase", "browse", "status", "unsupported"}
Stages == {"idle", "discover", "create_cart", "add_to_cart", "checkout", "authorize", "report"}

Fresh == [stage |-> "idle", goal |-> None, wants |-> {}, budget |-> None, quantity |-> 0,
          pick |-> None, cart |-> None, total |-> 0, opened |-> {}]

AgentInit ==
  /\ run = [a \in Attempts |-> Fresh]
  /\ asked = <<>>

-----------------------------------------------------------------------------
(* recommend: what the buyer can afford of what the search returned.        *)
Affordable(a, row) ==
  /\ row.stock >= run[a].quantity
  /\ \/ run[a].budget = None
     \/ row.price * run[a].quantity <= run[a].budget

CheaperFirst(r, s) == r.price < s.price \/ (r.price = s.price /\ r.sku <= s.sku)

(* The first recommendation, the only one that is bought.                   *)
Recommended(a, rows) ==
  LET affordable == {r \in rows : Affordable(a, r)}
  IN IF affordable = {} THEN None
     ELSE CHOOSE r \in affordable : \A s \in affordable : CheaperFirst(r, s)

(* parse_intent: a request outside the agent's authority makes no call.     *)
Start(a, goal, wants, budget, q) ==
  /\ run[a].stage = "idle"
  /\ run' = [run EXCEPT ![a] = [Fresh EXCEPT
       !.stage = IF goal = "unsupported" THEN "report" ELSE "discover",
       !.goal = goal, !.wants = wants, !.budget = budget, !.quantity = q]]
  /\ UNCHANGED <<asked, cartVars>>

(* discover and recommend.  Three lost reads, or no credential: Fails.      *)
Discover(a) ==
  LET found == {products[i] : i \in Listing(products, Shop)}
      pick == Recommended(a, {r \in found : r.sku \in run[a].wants})
  IN /\ run[a].stage = "discover"
     /\ run' = [run EXCEPT ![a].pick = pick,
                  ![a].stage = IF pick = None \/ run[a].goal # "purchase" THEN "report"
                               ELSE "create_cart"]
     /\ UNCHANGED <<asked, cartVars>>

(* The answer of a request that was served: read, or lost on the way back.  *)
Answered(a, state) ==
  \/ run' = [run EXCEPT ![a] = state]
  \/ run' = [run EXCEPT ![a] = [@ EXCEPT !.stage = "report", !.opened = state.opened]]

OpenCart(a, c) ==
  /\ run[a].stage = "create_cart"
  /\ CreateCart(c, Shop)
  /\ Answered(a, [run[a] EXCEPT !.stage = "add_to_cart", !.cart = c, !.opened = @ \union {c}])
  /\ UNCHANGED asked

(* The price is whatever the catalogue says now.  Totals the new line made  *)
(* too large are refused after it is written.                               *)
AddLine(a) ==
  /\ run[a].stage = "add_to_cart"
  /\ AddItem(run[a].cart, Shop, run[a].pick.sku, run[a].quantity)
  /\ Answered(a, [run[a] EXCEPT
       !.stage = IF Totals((cart')[run[a].cart].items) THEN "checkout" ELSE "report"])
  /\ UNCHANGED asked

PlaceOrder(a) ==
  /\ run[a].stage = "checkout"
  /\ Checkout(run[a].cart, Shop, 0)
  /\ LET total == Last(orders').total
     IN Answered(a, [run[a] EXCEPT !.total = total,
                       !.stage = IF total <= 0 THEN "report" ELSE "authorize"])
  /\ UNCHANGED asked

(* Variant of AmountAsked: the amount comes from the recommendation.        *)
AmountRecommended(a) == run[a].pick.price * run[a].quantity

(* The total the control plane answered the checkout with.                  *)
AmountAsked(a) == run[a].total

(* request_authorization; over the ceiling nothing is sent.                 *)
Authorize(a) ==
  /\ run[a].stage = "authorize"
  /\ IF RequestCeiling # 0 /\ run[a].total > RequestCeiling THEN
       /\ run' = [run EXCEPT ![a].stage = "report"]
       /\ UNCHANGED asked
     ELSE
       /\ asked' = Append(asked, [by |-> a, cart |-> run[a].cart, amount |-> AmountAsked(a)])
       /\ Answered(a, [run[a] EXCEPT !.stage = "report"])
  /\ UNCHANGED cartVars

(* The call is refused, never arrives, or is not made: the run reports it.  *)
Fails(a) ==
  /\ run[a].stage \in Stages \ {"idle", "report"}
  /\ run' = [run EXCEPT ![a].stage = "report"]
  /\ UNCHANGED <<asked, cartVars>>

AgentStep(a) ==
  \/ \E goal \in Goals, wants \in SUBSET Skus, b \in Budgets, q \in Asks :
       Start(a, goal, wants, b, q)
  \/ Discover(a)
  \/ \E c \in CartIds : OpenCart(a, c)
  \/ AddLine(a)
  \/ PlaceOrder(a)
  \/ Authorize(a)
  \/ Fails(a)

AgentNext ==
  \/ CatalogNext /\ UNCHANGED <<agentVars, cartVars>>
  \/ (\E a \in Attempts : AgentStep(a)) /\ UNCHANGED catalogVars

AgentSpec == CartsInit /\ AgentInit /\ [][AgentNext]_<<catalogVars, cartVars, agentVars>>

-----------------------------------------------------------------------------
AgentTypeOK ==
  /\ CartsTypeOK
  /\ \A a \in Attempts : run[a].stage \in Stages /\ run[a].opened \subseteq CartIds
  /\ \A i \in DOMAIN asked : asked[i].by \in Attempts /\ asked[i].cart \in CartIds

(* "Retrying a POST that may have been received is how one cart becomes two *)
(* carts, or one authorization request becomes two": whatever answers are   *)
(* lost and prices change, an attempt opens one cart, orders the one line   *)
(* it recommended, and asks once, for exactly what that order costs and no  *)
(* more than its ceiling.                                                   *)
AsksForWhatItOrdered ==
  \A a \in Attempts :
    LET made == {i \in DOMAIN orders : orders[i].cart \in run[a].opened}
        requests == {q \in DOMAIN asked : asked[q].by = a}
    IN /\ \A S \in {run[a].opened, made, requests} : Cardinality(S) <= 1
       /\ \A i \in made :
            /\ Len(orders[i].items) = 1
            /\ orders[i].items[1].sku = run[a].pick.sku
            /\ orders[i].items[1].quantity = run[a].quantity
       /\ \A q \in requests :
            /\ \E i \in made : asked[q].cart = orders[i].cart /\ asked[q].amount = orders[i].total
            /\ ~ (RequestCeiling # 0 /\ asked[q].amount > RequestCeiling)

(* "Derived from the run id so a retry of the same run produces the same    *)
(* order rather than a second one".                                         *)
OneOrderPerRun == Len(orders) <= 1
=============================================================================
