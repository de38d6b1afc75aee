----------------------------- MODULE LegacyGate -----------------------------
(***************************************************************************)
(* CheckoutGuardian over its three engines: a checkout is scored, and unless*)
(* it is blocked gets an authorization of its cart and amount, good for one *)
(* payment and a few minutes; a passport notes each step.  Only tests use   *)
(* it; the routes go through modules/authorization.                         *)
(*                                                                         *)
(* Everything is a dictionary in memory: one action per call.  Scores are   *)
(* thousandths.  The hash chain of a passport is in AuditChain; here it is  *)
(* the steps it notes.                                                      *)
(***************************************************************************)
EXTENDS Integers, FiniteSetsExt, SequencesExt

CONSTANTS
  CheckoutSessions,  \* session ids
  Prefix,       \* Prefix[s]: the first eight characters of a session id
  CartShapes,   \* contents of a cart
  CartAmounts,
  Injections,   \* injection patterns found in the shopper's text
  PerMinute,    \* request_count_per_minute
  FailedToday,  \* previous_attempts_today
  GateLife,     \* ttl_seconds
  MaxGateTime,  \* bound: clock
  MaxCheckouts  \* bound: checkouts

ASSUME LegacyAssumption ==
  /\ GateLife \in Nat \ {0} /\ MaxGateTime \in Nat /\ MaxCheckouts \in Nat
  /\ Injections \subseteq Nat /\ PerMinute \subseteq Nat /\ FailedToday \subseteq Nat
  /\ CheckoutSessions \subseteq DOMAIN Prefix

VARIABLES
  gateTime,
  grants,       \* _authorizations, in the order they were made
  journeys,     \* _passports: the steps noted per transaction id
  guarded,      \* history: the signals of each checkout, and what came of it
  paid          \* history: validated and consumed: [grant, cart, amount, at]

legacyVars == <<gateTime, grants, journeys, guarded, paid>>

Grant == [session : CheckoutSessions, cart : CartShapes, amount : CartAmounts, expires : Nat,
          status : {"AUTHORIZED", "CONSUMED", "REVOKED", "EXPIRED"}]

-----------------------------------------------------------------------------
(* _score_velocity and _score_repeated_failures: 0, 200, 500, 900.          *)
Graded(n, bounds) == <<0, 200, 500, 900>>[1 + Cardinality({i \in 1..3 : n >= bounds[i]})]

(* Each signal scaled by its emphasis.  The guardian asks for no discount,  *)
(* so that signal is silent.                                                *)
GateSignals(r) ==
  [injection |-> Min({1000, (Min({1000, r.injections * 300}) * 6) \div 5}),
   discount  |-> 0,
   velocity  |-> Graded(r.perMinute, <<5, 15, 30>>),
   anomaly   |-> (Graded(r.failedToday, <<3, 5, 10>>) * 4) \div 5]

Strongest(s) == Max({s[k] : k \in DOMAIN s})

(* Variant of AtLeast: a plain weighted average.                            *)
AtLeastOnAverage(s, bar) ==
  30 * s.injection + 25 * s.discount + 25 * s.velocity + 20 * s.anomaly >= bar * 100

(* The composite score reaches bar: the strongest signal, raised through    *)
(* its headroom by c / (1 + c), c the sum of the others.                    *)
AtLeast(s, bar) ==
  LET base == Strongest(s)
      c == s.injection + s.discount + s.velocity + s.anomaly - base
  IN base * (1000 + c) + (1000 - base) * c >= bar * (1000 + c)

(* score_transaction: 0 PROCEED, 1 MONITOR, 2 ESCALATE, 3 BLOCK.            *)
Recommendation(s) == Cardinality({bar \in {300, 650, 850} : AtLeast(s, bar)})

LegacyInit ==
  /\ gateTime = 0
  /\ grants = <<>>
  /\ journeys = [p \in {Prefix[s] : s \in CheckoutSessions} |-> <<>>]
  /\ guarded = <<>>
  /\ paid = <<>>

(* guard_checkout.  A new passport replaces the one under the same id; a    *)
(* block ends the checkout, an escalation is noted and goes on.             *)
Guard(s, cart, amount, r) ==
  LET advice == Recommendation(GateSignals(r))
      noted == <<"CHECKOUT_STARTED", "RISK_ASSESSED">>
               \o (CASE advice = 3 -> <<"CHECKPOINT_BLOCKED">>
                     [] advice = 2 -> <<"CHECKPOINT_ESCALATED">>
                     [] OTHER -> <<>>)
               \o (IF advice = 3 THEN <<>> ELSE <<"AUTHORIZATION_CREATED", "CHECKPOINT_PASSED">>)
  IN /\ Len(guarded) < MaxCheckouts
     /\ journeys' = [journeys EXCEPT ![Prefix[s]] = noted]
     /\ guarded' = Append(guarded, [signals |-> r, advice |-> advice])
     /\ grants' = IF advice = 3 THEN grants
                  ELSE Append(grants, [session |-> s, cart |-> cart, amount |-> amount,
                                       expires |-> gateTime + GateLife, status |-> "AUTHORIZED"])
     /\ UNCHANGED <<gateTime, paid>>

(* validate_authorization: still good at the very end of its life.          *)
Validated(g, cart, amount) ==
  /\ g.status = "AUTHORIZED" /\ gateTime <= g.expires
  /\ g.amount = amount /\ g.cart = cart

(* Variant of Consumable: the clock is left to validate_authorization.      *)
ConsumableLate(g) == g.status = "AUTHORIZED"

(* consume_authorization succeeds: no longer good at the end of its life.   *)
Consumable(g) == g.status = "AUTHORIZED" /\ gateTime < g.expires

(* What a caller pays by: validate, then consume, with the cart and amount  *)
(* it is about to charge.                                                   *)
Pay(g, cart, amount) ==
  /\ Validated(grants[g], cart, amount) /\ Consumable(grants[g])
  /\ grants' = [grants EXCEPT ![g].status = "CONSUMED"]
  /\ paid' = Append(paid, [grant |-> g, cart |-> cart, amount |-> amount, at |-> gateTime])
  /\ UNCHANGED <<gateTime, journeys, guarded>>

(* revoke_authorization: whatever its status.                               *)
RevokeGrant(g) ==
  /\ grants' = [grants EXCEPT ![g].status = "REVOKED"]
  /\ UNCHANGED <<gateTime, journeys, guarded, paid>>

(* cleanup_expired: everything past its life, but what was consumed.        *)
CleanupExpired ==
  /\ grants' = [g \in DOMAIN grants |->
                  IF gateTime > grants[g].expires /\ grants[g].status # "CONSUMED"
                  THEN [grants[g] EXCEPT !.status = "EXPIRED"] ELSE grants[g]]
  /\ UNCHANGED <<gateTime, journeys, guarded, paid>>

GateTick ==
  /\ gateTime < MaxGateTime
  /\ gateTime' = gateTime + 1
  /\ UNCHANGED <<grants, journeys, guarded, paid>>

SignalGrid == [injections : Injections, perMinute : PerMinute, failedToday : FailedToday]

LegacyNext ==
  \/ \E s \in CheckoutSessions, cart \in CartShapes, amount \in CartAmounts, r \in SignalGrid :
       Guard(s, cart, amount, r)
  \/ \E g \in DOMAIN grants :
       \/ RevokeGrant(g)
       \/ \E cart \in CartShapes, amount \in CartAmounts : Pay(g, cart, amount)
  \/ CleanupExpired
  \/ GateTick

LegacySpec == LegacyInit /\ [][LegacyNext]_legacyVars

-----------------------------------------------------------------------------
LegacyTypeOK ==
  /\ gateTime \in 0..MaxGateTime
  /\ grants \in Seq(Grant)
  /\ Len(paid) <= Len(grants)

(* "Single-use (one payment per auth)", "Expires after 5 minutes", "scoped  *)
(* to a cart hash": through revocations, clean-ups and the clock, payments  *)
(* are made from different authorizations, each of its own cart and amount  *)
(* and before its end, and no checkout that was blocked has one.            *)
PaysOnceWhatWasGuarded ==
  /\ \A i \in DOMAIN paid :
       LET g == grants[paid[i].grant]
       IN /\ paid[i].at < g.expires /\ g.cart = paid[i].cart /\ g.amount = paid[i].amount
          /\ \A j \in DOMAIN paid : paid[i].grant = paid[j].grant => i = j
  /\ Len(grants) = Cardinality({i \in DOMAIN guarded : guarded[i].advice < 3})

(* "The dominant signal sets the floor, corroborating signals escalate from *)
(* there": no quiet signal dilutes a loud one.  What one signal asks for by *)
(* itself is asked for at least, and no checkout with every signal as loud  *)
(* gets a milder answer.                                                    *)
NoSignalIsDiluted ==
  \A i \in DOMAIN guarded :
    LET s == GateSignals(guarded[i].signals)
    IN /\ guarded[i].advice >= Cardinality({bar \in {300, 650, 850} : Strongest(s) >= bar})
       /\ \A j \in DOMAIN guarded :
            (\A k \in DOMAIN s : s[k] <= GateSignals(guarded[j].signals)[k]) =>
              guarded[i].advice <= guarded[j].advice
=============================================================================
