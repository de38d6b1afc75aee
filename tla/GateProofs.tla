----------------------------- MODULE GateProofs ------------------------------
(* Proofs about what stands before money moves: modules LegacyGate,         *)
(* MoneyActions, Discounts and Offers, for every bound and every table.     *)
EXTENDS LegacyGate, MoneyActions, Discounts, Offers, FiniteSetTheorems, SequenceTheorems,
        NaturalsInduction, TLAPS

(* A sequence with one more element at its end.                             *)
LEMMA OneMore ==
  ASSUME NEW S, NEW s \in Seq(S), NEW e \in S
  PROVE  /\ Append(s, e) \in Seq(S) /\ Len(Append(s, e)) = Len(s) + 1
         /\ DOMAIN Append(s, e) = DOMAIN s \union {Len(s) + 1}
         /\ Len(s) + 1 \notin DOMAIN s
         /\ \A i \in DOMAIN s : Append(s, e)[i] = s[i]
         /\ Append(s, e)[Len(s) + 1] = e
<1>1. Append(s, e) \in Seq(S) /\ Len(Append(s, e)) = Len(s) + 1
  OBVIOUS
<1>2. DOMAIN s = 1 .. Len(s) /\ DOMAIN Append(s, e) = 1 .. (Len(s) + 1) /\ Len(s) \in Nat
  BY <1>1
<1>3. 1 .. (Len(s) + 1) = (1 .. Len(s)) \union {Len(s) + 1} /\ Len(s) + 1 \notin 1 .. Len(s)
  BY <1>2
<1>4. /\ \A i \in DOMAIN s : Append(s, e)[i] = s[i]
      /\ Append(s, e)[Len(s) + 1] = e
  OBVIOUS
<1> QED
  BY <1>1, <1>2, <1>3, <1>4

LEMMA Counting == \A n \in Nat : IsFiniteSet(1 .. n) /\ Cardinality(1 .. n) = n
  BY FS_Interval

(* The greatest of a set of integers, when there is one.                    *)
LEMMA Greatest ==
  ASSUME NEW S \in SUBSET Int, NEW x \in S, \A y \in S : x >= y
  PROVE  Max(S) = x
<1>1. \E m \in S : \A y \in S : m >= y
  OBVIOUS
<1>2. Max(S) \in S /\ \A y \in S : Max(S) >= y
  BY <1>1, Zenon DEF Max
<1>3. Max(S) >= x /\ x >= Max(S) /\ Max(S) \in Int /\ x \in Int
  BY <1>2
<1> QED
  BY <1>3

LEMMA GreaterOf ==
  ASSUME NEW x \in Int, NEW y \in Int
  PROVE  Max({x, y}) = IF x >= y THEN x ELSE y
<1>1. CASE x >= y
  BY <1>1, Greatest
<1>2. CASE ~(x >= y)
  BY <1>2, Greatest
<1> QED
  BY <1>1, <1>2

LEMMA LesserOf ==
  ASSUME NEW x \in Int, NEW y \in Int
  PROVE  Min({x, y}) = IF x <= y THEN x ELSE y
<1>1. \A m \in {x, y} : (\A z \in {x, y} : m <= z) => m = IF x <= y THEN x ELSE y
  OBVIOUS
<1>2. \E m \in {x, y} : \A z \in {x, y} : m <= z
  OBVIOUS
<1> QED
  BY <1>1, <1>2 DEF Min

LEMMA GreatestOfFour ==
  ASSUME NEW w \in Int, NEW x \in Int, NEW y \in Int, NEW z \in Int
  PROVE  /\ Max({w, x, y, z}) \in {w, x, y, z}
         /\ \A v \in {w, x, y, z} : Max({w, x, y, z}) >= v
<1>1. PICK m \in {w, x, y, z} : m >= w /\ m >= x /\ m >= y /\ m >= z
  OBVIOUS
<1>2. Max({w, x, y, z}) = m
  BY <1>1, Greatest
<1> QED
  BY <1>1, <1>2

-----------------------------------------------------------------------------
(* The guardian and its authorizations: LegacyGate.                         *)

PaidRecord == [grant : Nat, cart : CartShapes, amount : CartAmounts, at : Nat]

(* The advice noted of a checkout is the one for its signals.               *)
GuardRecord ==
  {g \in [signals : SignalGrid, advice : 0 .. 3] :
     g.advice = Recommendation(GateSignals(g.signals))}

(* The checkouts of g that were not blocked.                                *)
Unblocked(g) == {i \in DOMAIN g : g[i].advice < 3}

LegacyTyped ==
  /\ gateTime \in 0 .. MaxGateTime
  /\ grants \in Seq(Grant) /\ paid \in Seq(PaidRecord) /\ guarded \in Seq(GuardRecord)

(* What was paid by has left AUTHORIZED, and nothing returns to it.         *)
SpentInv ==
  \A i \in DOMAIN paid :
    /\ paid[i].grant \in DOMAIN grants
    /\ LET g == grants[paid[i].grant]
       IN /\ g.status # "AUTHORIZED" /\ paid[i].at < g.expires
          /\ g.cart = paid[i].cart /\ g.amount = paid[i].amount
    /\ \A j \in DOMAIN paid : paid[i].grant = paid[j].grant => i = j

GuardedInv ==
  IsFiniteSet(Unblocked(guarded)) /\ Len(grants) = Cardinality(Unblocked(guarded))

LegacyInv == LegacyTyped /\ SpentInv /\ GuardedInv

LEMMA AdviceGrades == \A s : Recommendation(s) \in 0 .. 3
<1> SUFFICES ASSUME NEW s PROVE Recommendation(s) \in 0 .. 3
  OBVIOUS
<1> DEFINE bars == {300, 650, 850}
           met == {bar \in bars : AtLeast(s, bar)}
<1>1. IsFiniteSet({300}) /\ Cardinality({300}) = 1
  BY FS_Singleton
<1>2. IsFiniteSet({300} \union {650}) /\ Cardinality({300} \union {650}) = 2
  BY <1>1, FS_AddElement
<1>3. IsFiniteSet(({300} \union {650}) \union {850}) /\ Cardinality(({300} \union {650}) \union {850}) = 3
  BY <1>2, FS_AddElement
<1>4. bars = ({300} \union {650}) \union {850}
  OBVIOUS
<1>5. met \in SUBSET bars /\ IsFiniteSet(bars) /\ Cardinality(bars) = 3
  BY <1>3, <1>4
<1> HIDE DEF met, bars
<1>6. IsFiniteSet(met) /\ Cardinality(met) <= 3
  BY <1>5, FS_Subset
<1>7. Cardinality(met) \in Nat
  BY <1>6, FS_CardinalityType
<1> QED
  BY <1>6, <1>7 DEF Recommendation, met, bars

LEMMA LegacyInitInv == LegacyInit => LegacyInv
<1> SUFFICES ASSUME LegacyInit PROVE LegacyInv
  OBVIOUS
<1>1. LegacyTyped /\ SpentInv
  BY LegacyAssumption DEF LegacyInit, LegacyTyped, SpentInv
<1>2. Unblocked(guarded) = {} /\ Len(grants) = 0
  BY DEF LegacyInit, Unblocked
<1>3. GuardedInv
  BY <1>2, FS_EmptySet DEF GuardedInv
<1> QED
  BY <1>1, <1>3 DEF LegacyInv

(* A checkout that is not blocked gets one more authorization, and what was *)
(* paid by keeps its place.                                                 *)
LEMMA GuardInv ==
  ASSUME LegacyInv, NEW s \in CheckoutSessions, NEW cart \in CartShapes,
         NEW amount \in CartAmounts, NEW r \in SignalGrid, Guard(s, cart, amount, r)
  PROVE  LegacyInv'
<1> USE DEF LegacyInv
<1> DEFINE advice == Recommendation(GateSignals(r))
           checkout == [signals |-> r, advice |-> advice]
           g == [session |-> s, cart |-> cart, amount |-> amount,
                 expires |-> gateTime + GateLife, status |-> "AUTHORIZED"]
<1>1. /\ guarded' = Append(guarded, checkout)
      /\ grants' = IF advice = 3 THEN grants ELSE Append(grants, g)
      /\ UNCHANGED <<gateTime, paid>>
  BY DEF Guard
<1>2. advice \in 0 .. 3 /\ advice = Recommendation(GateSignals(r))
  BY AdviceGrades
<1> HIDE DEF advice
<1>3. checkout \in GuardRecord /\ checkout.advice = advice
  BY <1>2 DEF GuardRecord
<1>4. g \in Grant
  BY LegacyAssumption DEF Grant, LegacyTyped
<1> HIDE DEF checkout, g
<1>5. /\ guarded' \in Seq(GuardRecord)
      /\ DOMAIN (guarded') = DOMAIN guarded \union {Len(guarded) + 1}
      /\ Len(guarded) + 1 \notin DOMAIN guarded
      /\ \A i \in DOMAIN guarded : (guarded')[i] = guarded[i]
      /\ (guarded')[Len(guarded) + 1] = checkout
  BY <1>1, <1>3, OneMore DEF LegacyTyped
<1>6. /\ grants' \in Seq(Grant) /\ DOMAIN grants \subseteq DOMAIN (grants')
      /\ \A i \in DOMAIN grants : (grants')[i] = grants[i]
      /\ Len(grants') = IF advice = 3 THEN Len(grants) ELSE Len(grants) + 1
  <2>1. CASE advice = 3
    BY <1>1, <2>1 DEF LegacyTyped
  <2>2. CASE advice # 3
    BY <1>1, <1>4, <2>2, OneMore DEF LegacyTyped
  <2> QED
    BY <2>1, <2>2
<1>7. Unblocked(guarded') = IF advice = 3 THEN Unblocked(guarded)
                            ELSE Unblocked(guarded) \union {Len(guarded) + 1}
  BY <1>2, <1>3, <1>5 DEF Unblocked
<1>8. GuardedInv'
  <2>1. Len(guarded) + 1 \notin Unblocked(guarded)
    BY <1>5 DEF Unblocked
  <2>2. CASE advice = 3
    BY <1>6, <1>7, <2>2 DEF GuardedInv
  <2>3. CASE advice # 3
    <3>1. /\ IsFiniteSet(Unblocked(guarded) \union {Len(guarded) + 1})
          /\ Cardinality(Unblocked(guarded) \union {Len(guarded) + 1})
               = Cardinality(Unblocked(guarded)) + 1
      BY <2>1, FS_AddElement DEF GuardedInv
    <3> QED
      BY <1>6, <1>7, <2>3, <3>1 DEF GuardedInv
  <2> QED
    BY <2>2, <2>3
<1>9. LegacyTyped'
  BY <1>1, <1>5, <1>6 DEF LegacyTyped
<1>10. SpentInv'
  BY <1>1, <1>6 DEF SpentInv
<1> QED
  BY <1>8, <1>9, <1>10

(* Authorizations keep what they are for and their end, and none becomes    *)
(* good again.                                                              *)
LEMMA GrantsChange ==
  ASSUME LegacyInv, UNCHANGED <<paid, guarded>>, gateTime' \in 0 .. MaxGateTime,
         grants' \in Seq(Grant), Len(grants') = Len(grants),
         \A i \in DOMAIN grants :
           /\ (grants')[i].cart = grants[i].cart /\ (grants')[i].amount = grants[i].amount
           /\ (grants')[i].expires = grants[i].expires
           /\ (grants')[i].status = "AUTHORIZED" => grants[i].status = "AUTHORIZED"
  PROVE  LegacyInv'
<1> USE DEF LegacyInv
<1>1. DOMAIN (grants') = DOMAIN grants
  BY DEF LegacyTyped
<1>2. LegacyTyped'
  BY DEF LegacyTyped
<1>3. SpentInv'
  BY <1>1 DEF SpentInv
<1>4. GuardedInv'
  BY DEF GuardedInv
<1> QED
  BY <1>2, <1>3, <1>4

(* One status set in a sequence of authorizations.                          *)
LEMMA StatusSet ==
  ASSUME grants \in Seq(Grant), NEW g \in DOMAIN grants,
         NEW v \in {"AUTHORIZED", "CONSUMED", "REVOKED", "EXPIRED"},
         grants' = [grants EXCEPT ![g].status = v]
  PROVE  /\ grants' \in Seq(Grant) /\ Len(grants') = Len(grants)
         /\ \A i \in DOMAIN grants \ {g} : (grants')[i] = grants[i]
         /\ (grants')[g].cart = grants[g].cart /\ (grants')[g].amount = grants[g].amount
         /\ (grants')[g].expires = grants[g].expires /\ (grants')[g].status = v
<1>1. grants[g] \in Grant
  OBVIOUS
<1>2. [grants[g] EXCEPT !.status = v] \in Grant
  BY <1>1 DEF Grant
<1>3. grants' = [grants EXCEPT ![g] = [grants[g] EXCEPT !.status = v]]
  OBVIOUS
<1>4. grants' \in Seq(Grant) /\ Len(grants') = Len(grants)
  BY <1>2, <1>3
<1>5. \A i \in DOMAIN grants \ {g} : (grants')[i] = grants[i]
  BY <1>3
<1>6. (grants')[g] = [grants[g] EXCEPT !.status = v]
  BY <1>3
<1> QED
  BY <1>1, <1>4, <1>5, <1>6 DEF Grant

(* A payment is by an authorization that was good, which it consumes.       *)
LEMMA PayInv ==
  ASSUME LegacyInv, NEW g \in DOMAIN grants, NEW cart \in CartShapes,
         NEW amount \in CartAmounts, Pay(g, cart, amount)
  PROVE  LegacyInv'
<1> USE DEF LegacyInv
<1> DEFINE p == [grant |-> g, cart |-> cart, amount |-> amount, at |-> gateTime]
<1>1. /\ grants' = [grants EXCEPT ![g].status = "CONSUMED"]
      /\ paid' = Append(paid, p)
      /\ UNCHANGED <<gateTime, guarded>>
      /\ grants[g].status = "AUTHORIZED" /\ gateTime < grants[g].expires
      /\ grants[g].amount = amount /\ grants[g].cart = cart
  BY DEF Pay, Validated, Consumable
<1>2. p \in PaidRecord /\ p.grant = g /\ p.cart = cart /\ p.amount = amount /\ p.at = gateTime
  BY DEF PaidRecord, LegacyTyped
<1> HIDE DEF p
<1>3. /\ grants' \in Seq(Grant) /\ Len(grants') = Len(grants)
      /\ \A i \in DOMAIN grants \ {g} : (grants')[i] = grants[i]
      /\ (grants')[g].cart = cart /\ (grants')[g].amount = amount
      /\ (grants')[g].expires = grants[g].expires /\ (grants')[g].status = "CONSUMED"
  BY <1>1, StatusSet DEF LegacyTyped
<1>4. DOMAIN (grants') = DOMAIN grants
  BY <1>3 DEF LegacyTyped
<1>5. /\ paid' \in Seq(PaidRecord)
      /\ DOMAIN (paid') = DOMAIN paid \union {Len(paid) + 1}
      /\ \A i \in DOMAIN paid : (paid')[i] = paid[i]
      /\ (paid')[Len(paid) + 1] = p
  BY <1>1, <1>2, OneMore DEF LegacyTyped
<1>6. LegacyTyped' /\ GuardedInv'
  BY <1>1, <1>3, <1>5 DEF LegacyTyped, GuardedInv
<1>7. \A i \in DOMAIN paid : (paid')[i].grant \in DOMAIN grants \ {g}
  BY <1>1, <1>5 DEF SpentInv
<1>8. SpentInv'
  <2> SUFFICES ASSUME NEW i \in DOMAIN (paid')
               PROVE  /\ (paid')[i].grant \in DOMAIN grants
                      /\ LET a == (grants')[(paid')[i].grant]
                         IN /\ a.status # "AUTHORIZED" /\ (paid')[i].at < a.expires
                            /\ a.cart = (paid')[i].cart /\ a.amount = (paid')[i].amount
                      /\ \A j \in DOMAIN (paid') : (paid')[i].grant = (paid')[j].grant => i = j
    BY <1>4 DEF SpentInv
  <2>1. CASE i \in DOMAIN paid
    BY <1>2, <1>3, <1>5, <1>7, <2>1 DEF SpentInv
  <2>2. CASE i = Len(paid) + 1
    BY <1>1, <1>2, <1>3, <1>5, <1>7, <2>2
  <2> QED
    BY <1>5, <2>1, <2>2
<1> QED
  BY <1>6, <1>8

LEMMA LegacyNextInv == LegacyInv /\ [LegacyNext]_legacyVars => LegacyInv'
<1> SUFFICES ASSUME LegacyInv, [LegacyNext]_legacyVars PROVE LegacyInv'
  OBVIOUS
<1>1. ASSUME NEW g \in DOMAIN grants, RevokeGrant(g) PROVE LegacyInv'
  <2>1. /\ grants' \in Seq(Grant) /\ Len(grants') = Len(grants)
        /\ \A i \in DOMAIN grants \ {g} : (grants')[i] = grants[i]
        /\ (grants')[g].cart = grants[g].cart /\ (grants')[g].amount = grants[g].amount
        /\ (grants')[g].expires = grants[g].expires /\ (grants')[g].status = "REVOKED"
    BY <1>1, StatusSet DEF RevokeGrant, LegacyInv, LegacyTyped
  <2> QED
    BY <1>1, <2>1, GrantsChange DEF RevokeGrant, LegacyInv, LegacyTyped
<1>2. ASSUME CleanupExpired PROVE LegacyInv'
  <2> DEFINE after(i) == IF gateTime > grants[i].expires /\ grants[i].status # "CONSUMED"
                         THEN [grants[i] EXCEPT !.status = "EXPIRED"] ELSE grants[i]
  <2>1. grants' = [i \in DOMAIN grants |-> after(i)] /\ grants \in Seq(Grant)
    BY <1>2 DEF CleanupExpired, LegacyInv, LegacyTyped
  <2>2. \A i \in DOMAIN grants :
          /\ after(i) \in Grant
          /\ after(i).cart = grants[i].cart /\ after(i).amount = grants[i].amount
          /\ after(i).expires = grants[i].expires
          /\ after(i).status = "AUTHORIZED" => grants[i].status = "AUTHORIZED"
    <3> SUFFICES ASSUME NEW i \in DOMAIN grants
                 PROVE  /\ after(i) \in Grant
                        /\ after(i).cart = grants[i].cart /\ after(i).amount = grants[i].amount
                        /\ after(i).expires = grants[i].expires
                        /\ after(i).status = "AUTHORIZED" => grants[i].status = "AUTHORIZED"
      OBVIOUS
    <3>1. grants[i] \in Grant
      BY <2>1
    <3> QED
      BY <3>1 DEF Grant
  <2> HIDE DEF after
  <2>3. grants' \in Seq(Grant) /\ Len(grants') = Len(grants)
    BY <2>1, <2>2
  <2>4. \A i \in DOMAIN grants : (grants')[i] = after(i)
    BY <2>1
  <2> QED
    BY <1>2, <2>2, <2>3, <2>4, GrantsChange DEF CleanupExpired, LegacyInv, LegacyTyped
<1>3. ASSUME GateTick PROVE LegacyInv'
  <2>1. gateTime' \in 0 .. MaxGateTime
    BY <1>3, LegacyAssumption DEF GateTick, LegacyInv, LegacyTyped
  <2> QED
    BY <1>3, <2>1, GrantsChange DEF GateTick, LegacyInv, LegacyTyped
<1>4. CASE UNCHANGED legacyVars
  BY <1>4 DEF legacyVars, LegacyInv, LegacyTyped, SpentInv, GuardedInv
<1> QED
  BY <1>1, <1>2, <1>3, <1>4, GuardInv, PayInv DEF LegacyNext

LEMMA LegacyInvariant == LegacySpec => []LegacyInv
<1> QED
  BY LegacyInitInv, LegacyNextInv, PTL DEF LegacySpec

(* Through revocations, clean-ups and the clock, no authorization pays      *)
(* twice, late, or for another cart, and no blocked checkout has one.       *)
THEOREM GuardedPaysOnce == LegacySpec => []PaysOnceWhatWasGuarded
<1>1. LegacyInv => PaysOnceWhatWasGuarded
  BY DEF LegacyInv, SpentInv, GuardedInv, Unblocked, PaysOnceWhatWasGuarded
<1> QED
  BY <1>1, LegacyInvariant, PTL

(* Every payment is by an authorization of its own, so there are no more.   *)
THEOREM LegacyTypeCorrect == LegacySpec => []LegacyTypeOK
<1>1. ASSUME LegacyInv PROVE LegacyTypeOK
  <2>1. /\ Len(paid) \in Nat /\ Len(grants) \in Nat
        /\ DOMAIN paid = 1 .. Len(paid) /\ DOMAIN grants = 1 .. Len(grants)
    BY <1>1 DEF LegacyInv, LegacyTyped
  <2> DEFINE by == [i \in DOMAIN paid |-> paid[i].grant]
  <2>2. by \in Injection(DOMAIN paid, DOMAIN grants)
    BY <1>1 DEF LegacyInv, SpentInv, Injection, IsInjective
  <2> HIDE DEF by
  <2>4. /\ IsFiniteSet(DOMAIN grants) /\ Cardinality(DOMAIN grants) = Len(grants)
        /\ Cardinality(DOMAIN paid) = Len(paid)
    BY <2>1, Counting, Zenon
  <2>5. Cardinality(DOMAIN paid) <= Cardinality(DOMAIN grants)
    BY <2>2, <2>4, FS_Injection
  <2> QED
    BY <1>1, <2>4, <2>5 DEF LegacyInv, LegacyTyped, LegacyTypeOK
<1> QED
  BY <1>1, LegacyInvariant, PTL

(* The answers a signal gives are amounts.                                  *)
LEMMA SignalsAreAmounts ==
  ASSUME NEW r \in SignalGrid
  PROVE  /\ DOMAIN GateSignals(r) = {"injection", "discount", "velocity", "anomaly"}
         /\ \A k \in DOMAIN GateSignals(r) : GateSignals(r)[k] \in Nat
<1> DEFINE bars == 1 .. 3
<1>1. ASSUME NEW n, NEW bounds PROVE Graded(n, bounds) \in {0, 200, 500, 900}
  <2> DEFINE met == {i \in bars : n >= bounds[i]}
  <2>1. IsFiniteSet(bars) /\ Cardinality(bars) = 3
    BY Counting
  <2>2. met \in SUBSET bars
    OBVIOUS
  <2> HIDE DEF met, bars
  <2>3. IsFiniteSet(met) /\ Cardinality(met) <= 3
    BY <2>1, <2>2, FS_Subset
  <2>4. Cardinality(met) \in 0 .. 3
    BY <2>3, FS_CardinalityType
  <2>5. \A c \in 0 .. 3 : <<0, 200, 500, 900>>[1 + c] \in {0, 200, 500, 900}
    OBVIOUS
  <2> QED
    BY <2>4, <2>5 DEF Graded, met, bars
<1>2. ASSUME NEW x \in Nat PROVE Min({1000, x}) \in Nat
  <2> DEFINE full == 1000
  <2>1. full \in Nat /\ full \in Int /\ x \in Int
    OBVIOUS
  <2> HIDE DEF full
  <2>2. Min({full, x}) = IF full <= x THEN full ELSE x
    BY <2>1, LesserOf, Zenon
  <2>3. Min({full, x}) \in Nat
    BY <2>1, <2>2
  <2> QED
    BY <2>3 DEF full
<1>3. \A x \in Nat : (x * 6) \div 5 \in Nat /\ (x * 4) \div 5 \in Nat
  OBVIOUS
<1>4. r.injections * 300 \in Nat
  <2>1. r.injections \in Nat
    BY LegacyAssumption DEF SignalGrid
  <2> QED
    BY <2>1
<1>5. Min({1000, (Min({1000, r.injections * 300}) * 6) \div 5}) \in Nat
  BY <1>2, <1>3, <1>4
<1>6. (Graded(r.failedToday, <<3, 5, 10>>) * 4) \div 5 \in Nat
  BY <1>1, <1>3
<1> QED
  BY <1>1, <1>5, <1>6 DEF GateSignals

Loudness(s) == s.injection + s.discount + s.velocity + s.anomaly

(* What the score of a checkout is made of: its loudest signal, and the sum *)
(* of them all.                                                             *)
LEMMA LoudestAndAll ==
  ASSUME NEW s, DOMAIN s = {"injection", "discount", "velocity", "anomaly"},
         \A k \in DOMAIN s : s[k] \in Nat
  PROVE  /\ Strongest(s) \in Nat /\ Loudness(s) \in Nat /\ Loudness(s) >= Strongest(s)
         /\ \A k \in DOMAIN s : s[k] <= Strongest(s)
         /\ \E k \in DOMAIN s : s[k] = Strongest(s)
<1> DEFINE base == Strongest(s)
<1>1. s.injection \in Nat /\ s.discount \in Nat /\ s.velocity \in Nat /\ s.anomaly \in Nat
  OBVIOUS
<1>2. {s[k] : k \in DOMAIN s} = {s.injection, s.discount, s.velocity, s.anomaly}
  OBVIOUS
<1>3. /\ base \in {s.injection, s.discount, s.velocity, s.anomaly}
      /\ \A v \in {s.injection, s.discount, s.velocity, s.anomaly} : base >= v
  <2>1. s.injection \in Int /\ s.discount \in Int /\ s.velocity \in Int /\ s.anomaly \in Int
    BY <1>1
  <2>2. base = Max({s.injection, s.discount, s.velocity, s.anomaly})
    BY <1>2 DEF Strongest
  <2> HIDE DEF base
  <2> QED
    BY <2>1, <2>2, GreatestOfFour
<1> HIDE DEF base
<1>4. Loudness(s) \in Nat /\ base \in Nat /\ Loudness(s) >= base
  <2>1. \A w, x, y, z \in Nat : /\ w + x + y + z \in Nat
                                /\ \A b \in {w, x, y, z} : w + x + y + z >= b
    OBVIOUS
  <2>2. /\ s.injection + s.discount + s.velocity + s.anomaly \in Nat
        /\ s.injection + s.discount + s.velocity + s.anomaly >= base
    BY <1>1, <1>3, <2>1, Zenon
  <2>3. base \in Nat
    BY <1>1, <1>3
  <2> QED
    BY <2>2, <2>3, Zenon DEF Loudness
<1>5. /\ \A k \in DOMAIN s : s[k] <= base
      /\ \E k \in DOMAIN s : s[k] = base
  BY <1>1, <1>3
<1> QED
  BY <1>4, <1>5 DEF base

(* The two forms of the question whether a score reaches a bar.             *)
Raised(b, c, bar) == b * (1000 + c) + (1000 - b) * c >= bar * (1000 + c)
Weighted(a, b, bar) == (1000 - bar) * a + bar * b >= 1000 * bar

(* A bar is reached when a weighted sum of the loudest signal and of all of *)
(* them is: the products in the score cancel.                               *)
LEMMA ReachesBar ==
  ASSUME NEW s, DOMAIN s = {"injection", "discount", "velocity", "anomaly"},
         \A k \in DOMAIN s : s[k] \in Nat,
         Strongest(s) \in Nat, NEW bar \in Int
  PROVE  AtLeast(s, bar) <=> Weighted(Loudness(s), Strongest(s), bar)
<1>1. PICK w \in Nat, x \in Nat, y \in Nat, z \in Nat, b \in Nat :
        /\ w = s.injection /\ x = s.discount /\ y = s.velocity /\ z = s.anomaly
        /\ b = Strongest(s)
  OBVIOUS
<1>2. Loudness(s) = w + x + y + z
  BY <1>1, Zenon DEF Loudness
<1>3. AtLeast(s, bar) <=> Raised(b, w + x + y + (z - b), bar)
  <2>1. AtLeast(s, bar) <=>
          Raised(Strongest(s),
                 s.injection + s.discount + s.velocity + (s.anomaly - Strongest(s)), bar)
    BY DEF AtLeast, Raised
  <2>2. s.injection + s.discount + s.velocity + (s.anomaly - Strongest(s)) = w + x + y + (z - b)
    BY <1>1
  <2> QED
    BY <1>1, <2>1, <2>2, Zenon
<1>4. Raised(b, w + x + y + (z - b), bar) <=> Weighted(w + x + y + z, b, bar)
  <2>1. \A v \in Int : Raised(b, v - b, bar) <=> Weighted(v, b, bar)
    BY DEF Raised, Weighted
  <2>2. w + x + y + z \in Int /\ (w + x + y + z) - b = w + x + y + (z - b)
    OBVIOUS
  <2> QED
    BY <2>1, <2>2, Zenon
<1> QED
  BY <1>1, <1>2, <1>3, <1>4, Zenon

(* More signal reaches every bar the less did, and a bar below a thousand   *)
(* is reached by a signal that reaches it alone.                            *)
LEMMA MoreReachesMore ==
  ASSUME NEW r \in SignalGrid, NEW t \in SignalGrid
  PROVE  LET s == GateSignals(r)
         IN /\ Cardinality({bar \in {300, 650, 850} : Strongest(s) >= bar}) <= Recommendation(s)
            /\ (\A k \in DOMAIN s : s[k] <= GateSignals(t)[k]) =>
                 Recommendation(s) <= Recommendation(GateSignals(t))
<1> DEFINE s == GateSignals(r)
           u == GateSignals(t)
           bars == {300, 650, 850}
           alone == {bar \in bars : Strongest(s) >= bar}
           met == {bar \in bars : AtLeast(s, bar)}
           more == {bar \in bars : AtLeast(u, bar)}
<1>1. /\ DOMAIN s = {"injection", "discount", "velocity", "anomaly"} /\ DOMAIN u = DOMAIN s
      /\ \A k \in DOMAIN s : s[k] \in Nat /\ u[k] \in Nat
  BY SignalsAreAmounts
<1> HIDE DEF s, u
<1>2. /\ Strongest(s) \in Nat /\ Loudness(s) \in Nat /\ Loudness(s) >= Strongest(s)
      /\ \E k \in DOMAIN s : s[k] = Strongest(s)
      /\ Strongest(u) \in Nat /\ Loudness(u) \in Nat
      /\ \A k \in DOMAIN s : u[k] <= Strongest(u)
  BY <1>1, LoudestAndAll
<1>3. \A bar \in Int : /\ AtLeast(s, bar) <=> Weighted(Loudness(s), Strongest(s), bar)
                       /\ AtLeast(u, bar) <=> Weighted(Loudness(u), Strongest(u), bar)
  <2> SUFFICES ASSUME NEW bar \in Int
               PROVE  /\ AtLeast(s, bar) <=> Weighted(Loudness(s), Strongest(s), bar)
                      /\ AtLeast(u, bar) <=> Weighted(Loudness(u), Strongest(u), bar)
    OBVIOUS
  <2>1. AtLeast(s, bar) <=> Weighted(Loudness(s), Strongest(s), bar)
    BY <1>1, <1>2, ReachesBar
  <2>2. AtLeast(u, bar) <=> Weighted(Loudness(u), Strongest(u), bar)
    BY <1>1, <1>2, ReachesBar
  <2> QED
    BY <2>1, <2>2, Zenon
<1>4. (\A k \in DOMAIN s : s[k] <= u[k]) =>
        Strongest(s) <= Strongest(u) /\ Loudness(s) <= Loudness(u)
  <2> SUFFICES ASSUME \A k \in DOMAIN s : s[k] <= u[k]
               PROVE  Strongest(s) <= Strongest(u) /\ Loudness(s) <= Loudness(u)
    OBVIOUS
  <2>1. /\ s.injection \in Nat /\ s.discount \in Nat /\ s.velocity \in Nat /\ s.anomaly \in Nat
        /\ u.injection \in Nat /\ u.discount \in Nat /\ u.velocity \in Nat /\ u.anomaly \in Nat
        /\ s.injection <= u.injection /\ s.discount <= u.discount
        /\ s.velocity <= u.velocity /\ s.anomaly <= u.anomaly
    BY <1>1
  <2>2. \A p, q, x, y \in Nat : p <= q /\ x <= y =>
          p + x <= q + y /\ p + x \in Nat /\ q + y \in Nat
    OBVIOUS
  <2> DEFINE p == s.injection + s.discount
             q == u.injection + u.discount
  <2>3. p <= q /\ p \in Nat /\ q \in Nat
    BY <2>1, <2>2, Zenon
  <2>4. p + s.velocity <= q + u.velocity /\ p + s.velocity \in Nat /\ q + u.velocity \in Nat
    BY <2>1, <2>2, <2>3, Zenon
  <2>5. Loudness(s) <= Loudness(u)
    BY <2>1, <2>2, <2>4, Zenon DEF Loudness
  <2>6. PICK k \in DOMAIN s : s[k] = Strongest(s)
    BY <1>2
  <2>7. s[k] <= u[k] /\ u[k] <= Strongest(u) /\ s[k] \in Nat /\ u[k] \in Nat
    BY <1>1, <1>2
  <2> QED
    BY <1>2, <2>5, <2>6, <2>7
<1>5. alone \subseteq met
  <2>1. \A bar \in bars : \A a, b \in Nat : a >= b /\ b >= bar => Weighted(a, b, bar)
    BY DEF Weighted
  <2> SUFFICES ASSUME NEW bar \in bars, Strongest(s) >= bar
               PROVE  AtLeast(s, bar)
    OBVIOUS
  <2>2. bar \in Int
    OBVIOUS
  <2> HIDE DEF bars
  <2>3. Weighted(Loudness(s), Strongest(s), bar)
    BY <1>2, <2>1, Zenon
  <2> QED
    BY <1>3, <2>2, <2>3, Zenon
<1>6. (\A k \in DOMAIN s : s[k] <= u[k]) => met \subseteq more
  <2>1. \A bar \in bars : \A a, b, c, d \in Nat :
          a <= b /\ c <= d /\ Weighted(a, c, bar) => Weighted(b, d, bar)
    BY DEF Weighted
  <2>2. bars \subseteq Int
    OBVIOUS
  <2> HIDE DEF bars
  <2> SUFFICES ASSUME \A k \in DOMAIN s : s[k] <= u[k], NEW bar \in bars, AtLeast(s, bar)
               PROVE  AtLeast(u, bar)
    BY DEF met, more
  <2>3. bar \in Int
    BY <2>2
  <2>4. Weighted(Loudness(s), Strongest(s), bar)
    BY <1>3, <2>3, Zenon
  <2>5. Strongest(s) <= Strongest(u) /\ Loudness(s) <= Loudness(u)
    BY <1>4, Zenon
  <2>6. Weighted(Loudness(u), Strongest(u), bar)
    BY <1>2, <2>1, <2>4, <2>5, Zenon
  <2> QED
    BY <1>3, <2>3, <2>6, Zenon
<1>7. IsFiniteSet(bars)
  <2>1. IsFiniteSet(1 .. 850)
    <3> DEFINE top == 850
    <3>1. top \in Nat
      OBVIOUS
    <3> HIDE DEF top
    <3>2. IsFiniteSet(1 .. top)
      BY <3>1, Counting, Zenon
    <3> QED
      BY <3>2 DEF top
  <2> DEFINE range == 1 .. 850
  <2>2. bars \subseteq range
    OBVIOUS
  <2>3. IsFiniteSet(range)
    BY <2>1
  <2> HIDE DEF bars, range
  <2> QED
    BY <2>2, <2>3, FS_Subset, Zenon
<1>8. Recommendation(s) = Cardinality(met) /\ Recommendation(u) = Cardinality(more)
  BY DEF Recommendation
<1>9. IsFiniteSet(met) /\ IsFiniteSet(more)
  BY <1>7, FS_Subset
<1>10. Cardinality(alone) <= Cardinality(met)
  BY <1>5, <1>9, FS_Subset
<1>11. (\A k \in DOMAIN s : s[k] <= u[k]) => Cardinality(met) <= Cardinality(more)
  BY <1>6, <1>9, FS_Subset
<1> QED
  BY <1>8, <1>10, <1>11 DEF s, u

(* No quiet signal dilutes a loud one: what one signal asks for by itself   *)
(* is asked for, and no checkout with every signal as loud gets a milder    *)
(* answer.                                                                  *)
THEOREM SignalsAddUp == LegacySpec => []NoSignalIsDiluted
<1>1. ASSUME LegacyInv PROVE NoSignalIsDiluted
  <2>1. \A i \in DOMAIN guarded :
          /\ guarded[i].signals \in SignalGrid
          /\ guarded[i].advice = Recommendation(GateSignals(guarded[i].signals))
    BY <1>1 DEF LegacyInv, LegacyTyped, GuardRecord
  <2> SUFFICES ASSUME NEW i \in DOMAIN guarded, NEW j \in DOMAIN guarded
               PROVE  LET s == GateSignals(guarded[i].signals)
                      IN /\ guarded[i].advice >= Cardinality({bar \in {300, 650, 850} : Strongest(s) >= bar})
                         /\ (\A k \in DOMAIN s : s[k] <= GateSignals(guarded[j].signals)[k]) =>
                              guarded[i].advice <= guarded[j].advice
    BY DEF NoSignalIsDiluted
  <2>2. guarded[i].signals \in SignalGrid /\ guarded[j].signals \in SignalGrid
    BY <2>1
  <2> QED
    BY <2>1, <2>2, MoreReachesMore
<1> QED
  BY <1>1, LegacyInvariant, PTL

-----------------------------------------------------------------------------
(* The gate and the refund guard: MoneyActions.                             *)

(* What a request may carry, a refund's defaults included.                  *)
AnyAction ==
  [kind : ActionKinds, role : Roles, amount : Nat, today : Nat, count : Nat,
   captured : Nat, refunded : Nat, age : Nat, orders : Nat,
   buyer : Countries \union {"IN"}, ip : Countries \union {"IN"}]

(* The last answer is the gate's, to what was asked; a refund was eligible. *)
ActionsInv ==
  answered # Nothing =>
    /\ answered.action \in AnyAction /\ answered.gate = Gate(answered.action)
    /\ answered.order # Nothing =>
         LET a == answered.action
         IN /\ answered.order \in RefundOrder /\ Eligible(answered.order, a.amount)
            /\ a.kind = "refund" /\ a.captured = Captured /\ a.buyer = "IN"
            /\ a.refunded = answered.order.refunded

USE ActionAssumption

LEMMA ActionsInvariant == ActionsSpec => []ActionsInv
<1>1. ActionsInit => ActionsInv
  BY DEF ActionsInit, ActionsInv
<1>2. ASSUME ActionsInv, [ActionsNext]_answered PROVE ActionsInv'
  <2>1. ASSUME NEW a \in FinancialAction, RequestAction(a) PROVE ActionsInv'
    <3>1. a \in AnyAction
      BY DEF FinancialAction, AnyAction, ActionKinds
    <3> QED
      BY <2>1, <3>1 DEF RequestAction, Answer, ActionsInv
  <2>2. ASSUME NEW order \in RefundOrder, NEW amount \in Amounts, NEW role \in Roles,
               NEW count \in HourCounts, NEW today \in DayTotals,
               RequestRefund(order, amount, role, count, today)
        PROVE  ActionsInv'
    <3> DEFINE a == ToAction(order, amount, role, count, today)
    <3>1. a \in AnyAction /\ a.amount = amount /\ a.kind = "refund" /\ a.captured = Captured
          /\ a.buyer = "IN" /\ a.refunded = order.refunded
      BY DEF ToAction, AnyAction, RefundOrder, ActionKinds
    <3> HIDE DEF a
    <3>2. answered' = [order |-> order, action |-> a, gate |-> Gate(a)]
          /\ Eligible(order, amount)
      BY <2>2 DEF RequestRefund, Answer, a
    <3> QED
      BY <3>1, <3>2, Zenon DEF ActionsInv
  <2>3. CASE UNCHANGED answered
    BY <1>2, <2>3 DEF ActionsInv
  <2> QED
    BY <1>2, <2>1, <2>2, <2>3 DEF ActionsNext
<1> QED
  BY <1>1, <1>2, PTL DEF ActionsSpec

(* A denial and an approval, and how many must approve.                     *)
LEMMA GateAnswers ==
  ASSUME NEW a
  PROVE  /\ Outcome(a) = "deny" <=> Denied(a)
         /\ Outcome(a) = "escalate" <=> ~Denied(a) /\ Escalated(a)
         /\ Band(a) \in {"low", "medium", "high"}
         /\ Gate(a).status = "denied" <=> Denied(a)
         /\ ~Denied(a) => Gate(a).required = Required(Outcome(a), Band(a))
         /\ Gate(a).status = "approved" => ~Escalated(a)
         /\ Gate(a).status \in {"denied", "pending", "approved"}
<1>1. /\ Outcome(a) = "deny" <=> Denied(a)
      /\ Outcome(a) = "escalate" <=> ~Denied(a) /\ Escalated(a)
  BY DEF Outcome
<1>2. Band(a) \in {"low", "medium", "high"}
  BY DEF Band
<1>3. Max({2, QuorumSize}) # 0
  <2>1. QuorumSize \in Int /\ 2 \in Int
    BY ActionAssumption
  <2>2. Max({2, QuorumSize}) = IF 2 >= QuorumSize THEN 2 ELSE QuorumSize
    BY <2>1, GreaterOf, Zenon
  <2> QED
    BY <2>1, <2>2
<1>4. Required("escalate", Band(a)) # 0
  BY <1>3 DEF Required
<1> QED
  BY <1>1, <1>2, <1>4 DEF Gate

(* What the refund guard passes the gate's refund rule passes too, and what *)
(* the guard says needs a human is not approved without one.                *)
THEOREM GuardAndGateAgree == ActionsSpec => []GuardAgreesWithTheGate
<1>1. ASSUME ActionsInv PROVE GuardAgreesWithTheGate
  <2> DEFINE order == answered.order
             a == answered.action
  <2> SUFFICES ASSUME answered # Nothing, order # Nothing
               PROVE  /\ a.amount + order.refunded <= Captured
                      /\ NeedsAuthorization(order, a.amount) => answered.gate.status # "approved"
                      /\ answered.gate.status = "denied" =>
                           \/ a.amount > Ceiling["refund"] \/ a.today + a.amount > DailyCap
                           \/ a.count >= MaxCount \/ a.role \notin ActorMatrix["refund"]
                           \/ "IN" \in BlockedCountries
    BY DEF GuardAgreesWithTheGate
  <2>1. /\ a \in AnyAction /\ answered.gate = Gate(a)
        /\ order \in RefundOrder /\ Eligible(order, a.amount)
        /\ a.kind = "refund" /\ a.captured = Captured /\ a.buyer = "IN"
        /\ a.refunded = order.refunded
    BY <1>1, Zenon DEF ActionsInv
  <2> HIDE DEF order, a
  <2>2. a.amount \in Nat /\ order.refunded \in Nat /\ Captured \in Nat
    BY <2>1 DEF AnyAction, RefundOrder
  <2>3. Refundable(order) = IF 0 >= Captured - order.refunded THEN 0
                            ELSE Captured - order.refunded
    BY <2>2, GreaterOf DEF Refundable
  <2>4. /\ a.amount > 0 /\ a.amount <= Refundable(order) /\ Refundable(order) > 0
    BY <2>1 DEF Eligible
  <2>5. a.amount + order.refunded <= Captured /\ Captured - order.refunded > 0
    BY <2>2, <2>3, <2>4
  <2>6. NeedsAuthorization(order, a.amount) => Escalated(a)
    BY <2>1 DEF NeedsAuthorization, Escalated
  <2>7. Denied(a) => \/ a.amount > Ceiling["refund"] \/ a.today + a.amount > DailyCap
                     \/ a.count >= MaxCount \/ a.role \notin ActorMatrix["refund"]
                     \/ "IN" \in BlockedCountries
    BY <2>1, <2>2, <2>4, <2>5 DEF Denied
  <2> QED
    BY <2>1, <2>5, <2>6, <2>7, GateAnswers
<1> QED
  BY <1>1, ActionsInvariant, PTL

(* Every request is denied, approved or left to approvers.                  *)
THEOREM ActionsTypeCorrect == ActionsSpec => []ActionsTypeOK
<1>1. ASSUME ActionsInv PROVE ActionsTypeOK
  BY <1>1, GateAnswers DEF ActionsInv, ActionsTypeOK
<1> QED
  BY <1>1, ActionsInvariant, PTL

-----------------------------------------------------------------------------
(* w is a with one fact worse, or as it was.                                *)
NoBetter(a, w) ==
  /\ w.kind = a.kind /\ w.role = a.role /\ w.captured = a.captured /\ w.buyer = a.buyer
  /\ w.amount = a.amount \/ (w.amount > a.amount /\ a.amount > 0)
  /\ w.today >= a.today /\ w.count >= a.count /\ w.refunded >= a.refunded
  /\ w.age <= a.age /\ w.orders <= a.orders
  /\ w.ip = a.ip \/ a.ip = a.buyer

LEMMA WorseIsNoBetter ==
  ASSUME NEW a \in AnyAction, NEW w \in Worse(a)
  PROVE  w \in AnyAction /\ NoBetter(a, w)
<1> USE DEF AnyAction, NoBetter
<1>1. ASSUME NEW x \in {y \in Amounts : y > a.amount /\ a.amount > 0}, w = [a EXCEPT !.amount = x]
      PROVE  w \in AnyAction /\ NoBetter(a, w)
  BY <1>1
<1>2. ASSUME NEW x \in {y \in DayTotals : y > a.today}, w = [a EXCEPT !.today = x]
      PROVE  w \in AnyAction /\ NoBetter(a, w)
  BY <1>2
<1>3. ASSUME NEW x \in {y \in HourCounts : y > a.count}, w = [a EXCEPT !.count = x]
      PROVE  w \in AnyAction /\ NoBetter(a, w)
  BY <1>3
<1>4. ASSUME NEW x \in {y \in Refunded : y > a.refunded}, w = [a EXCEPT !.refunded = x]
      PROVE  w \in AnyAction /\ NoBetter(a, w)
  BY <1>4
<1>5. ASSUME NEW x \in {y \in Ages : y < a.age}, w = [a EXCEPT !.age = x]
      PROVE  w \in AnyAction /\ NoBetter(a, w)
  BY <1>5
<1>6. ASSUME NEW x \in {y \in PriorOrders : y < a.orders}, w = [a EXCEPT !.orders = x]
      PROVE  w \in AnyAction /\ NoBetter(a, w)
  BY <1>6
<1>7. ASSUME NEW x \in Countries, a.ip = a.buyer, w = [a EXCEPT !.ip = x]
      PROVE  w \in AnyAction /\ NoBetter(a, w)
  BY <1>7
<1> QED
  BY <1>1, <1>2, <1>3, <1>4, <1>5, <1>6, <1>7, Zenon DEF Worse

LEMMA DenialsAndEscalationsStay ==
  ASSUME NEW a \in AnyAction, NEW w \in AnyAction, NoBetter(a, w)
  PROVE  (Denied(a) => Denied(w)) /\ (Escalated(a) => Escalated(w))
<1>1. /\ a.amount \in Nat /\ w.amount \in Nat /\ a.today \in Nat /\ w.today \in Nat
      /\ a.count \in Nat /\ w.count \in Nat /\ a.refunded \in Nat /\ w.refunded \in Nat
      /\ a.captured \in Nat /\ a.kind \in ActionKinds /\ Ceiling[a.kind] \in Nat
      /\ a.kind \in DOMAIN ReviewAbove => ReviewAbove[a.kind] \in Nat
  BY DEF AnyAction
<1>2. Denied(a) => Denied(w)
  BY <1>1 DEF NoBetter, Denied
<1>3. Escalated(a) => Escalated(w)
  BY <1>1 DEF NoBetter, Escalated
<1> QED
  BY <1>2, <1>3

(* A signal is never quieter for a fact that is worse.                      *)
LEMMA SignalsGrow ==
  ASSUME NEW a \in AnyAction, NEW w \in AnyAction, NoBetter(a, w)
  PROVE  /\ \A s \in {"amount", "geography", "newBuyer", "velocity"} :
              /\ Signals(a)[s] \in 0 .. 100 /\ Signals(w)[s] \in 0 .. 100
              /\ Signals(a)[s] <= Signals(w)[s]
<1>1. /\ a.amount \in Nat /\ w.amount \in Nat /\ a.count \in Nat /\ w.count \in Nat
      /\ a.age \in Nat /\ w.age \in Nat /\ a.orders \in Nat /\ w.orders \in Nat
      /\ a.kind \in ActionKinds /\ w.kind = a.kind
      /\ w.amount >= a.amount /\ w.count >= a.count /\ w.age <= a.age /\ w.orders <= a.orders
  BY DEF AnyAction, NoBetter
<1>2. ScoreAmount(a) \in {0, 20, 45, 70, 90} /\ ScoreAmount(w) \in {0, 20, 45, 70, 90}
      /\ ScoreAmount(a) <= ScoreAmount(w)
  <2> DEFINE ref == Reference(a.kind)
  <2>1. ref \in Nat
    <3>1. ASSUME NEW x \in Nat PROVE Max({1, x}) \in Nat
      <4>1. 1 \in Int /\ x \in Int
        OBVIOUS
      <4>2. Max({1, x}) = IF 1 >= x THEN 1 ELSE x
        BY <4>1, GreaterOf, Zenon
      <4> QED
        BY <4>2
    <3> QED
      BY <1>1, <3>1 DEF Reference
  <2>2. ref = Reference(w.kind)
    BY <1>1
  <2> HIDE DEF ref
  <2>3. /\ ScoreAmount(a) = IF 2 * a.amount <= ref THEN 0 ELSE IF a.amount <= ref THEN 20
                            ELSE IF a.amount <= 2 * ref THEN 45
                            ELSE IF a.amount <= 4 * ref THEN 70 ELSE 90
        /\ ScoreAmount(w) = IF 2 * w.amount <= ref THEN 0 ELSE IF w.amount <= ref THEN 20
                            ELSE IF w.amount <= 2 * ref THEN 45
                            ELSE IF w.amount <= 4 * ref THEN 70 ELSE 90
    BY <1>1, <2>1, <2>2 DEF ScoreAmount, ref
  <2> QED
    BY <1>1, <2>1, <2>3
<1>3. /\ Signals(a).amount \in 0 .. 100 /\ Signals(w).amount \in 0 .. 100
      /\ Signals(a).amount <= Signals(w).amount
  <2> DEFINE Loud(x) == Min({100, (x * 6) \div 5})
  <2>1. \A x \in Int : Min({100, x}) = IF 100 <= x THEN 100 ELSE x
    <3> DEFINE full == 100
    <3>1. full \in Int
      OBVIOUS
    <3> HIDE DEF full
    <3>2. \A x \in Int : Min({full, x}) = IF full <= x THEN full ELSE x
      BY <3>1, LesserOf, Zenon
    <3> QED
      BY <3>2 DEF full
  <2>2. Loud(0) = 0 /\ Loud(20) = 24 /\ Loud(45) = 54 /\ Loud(70) = 84 /\ Loud(90) = 100
    BY <2>1
  <2> HIDE DEF Loud
  <2>3. Loud(ScoreAmount(a)) \in 0 .. 100 /\ Loud(ScoreAmount(w)) \in 0 .. 100
        /\ Loud(ScoreAmount(a)) <= Loud(ScoreAmount(w))
    BY <1>2, <2>2
  <2>4. Signals(a).amount = Loud(ScoreAmount(a)) /\ Signals(w).amount = Loud(ScoreAmount(w))
    BY DEF Signals, Loud
  <2> QED
    BY <2>3, <2>4
<1>4. /\ Signals(a).geography \in 0 .. 100 /\ Signals(w).geography \in 0 .. 100
      /\ Signals(a).geography <= Signals(w).geography
  BY DEF Signals, ScoreGeography, NoBetter
<1>5. /\ Signals(a).newBuyer \in 0 .. 100 /\ Signals(w).newBuyer \in 0 .. 100
      /\ Signals(a).newBuyer <= Signals(w).newBuyer
  BY <1>1 DEF Signals, ScoreNewBuyer
<1>6. /\ Signals(a).velocity \in 0 .. 100 /\ Signals(w).velocity \in 0 .. 100
      /\ Signals(a).velocity <= Signals(w).velocity
  <2> DEFINE e == Max({1, ReviewCount})
             h == Max({e + 1, MaxCount})
  <2>1. e \in Nat /\ e >= 1
    <3>1. ReviewCount \in Int /\ 1 \in Int
      BY ActionAssumption
    <3>2. e = IF 1 >= ReviewCount THEN 1 ELSE ReviewCount
      BY <3>1, GreaterOf, Zenon
    <3> QED
      BY <3>1, <3>2
  <2> HIDE DEF e
  <2>2. h \in Nat /\ h > e
    <3>1. MaxCount \in Int /\ e + 1 \in Int
      BY <2>1, ActionAssumption
    <3>2. h = IF e + 1 >= MaxCount THEN e + 1 ELSE MaxCount
      BY <3>1, GreaterOf, Zenon
    <3> QED
      BY <2>1, <3>1, <3>2
  <2> HIDE DEF h
  <2>3. /\ ScoreVelocity(a) = IF 2 * a.count < e THEN 0 ELSE IF a.count < e THEN 30
                              ELSE IF a.count < h THEN 70 ELSE 100
        /\ ScoreVelocity(w) = IF 2 * w.count < e THEN 0 ELSE IF w.count < e THEN 30
                              ELSE IF w.count < h THEN 70 ELSE 100
    BY <1>1, <2>1, <2>2 DEF ScoreVelocity, e, h
  <2>4. Signals(a).velocity = ScoreVelocity(a) /\ Signals(w).velocity = ScoreVelocity(w)
    BY DEF Signals
  <2> QED
    BY <1>1, <2>1, <2>2, <2>3, <2>4
<1> QED
  BY <1>3, <1>4, <1>5, <1>6

LEMMA Totals ==
  ASSUME NEW g, g.amount \in 0 .. 100, g.geography \in 0 .. 100,
         g.newBuyer \in 0 .. 100, g.velocity \in 0 .. 100
  PROVE  Total(g) \in Nat
<1>1. \A w, x, y, z \in 0 .. 100 : w + x + y + z \in Nat
  OBVIOUS
<1> QED
  BY <1>1, Zenon DEF Total

(* A band weighs the loudest signal and the sum of all, both the worse the  *)
(* higher.                                                                  *)
LEMMA BandOf ==
  ASSUME NEW a, \A s \in {"amount", "geography", "newBuyer", "velocity"} : Signals(a)[s] \in 0 .. 100
  PROVE  \E base \in 0 .. 100 :
           /\ \A s \in {"amount", "geography", "newBuyer", "velocity"} : Signals(a)[s] <= base
           /\ \E s \in {"amount", "geography", "newBuyer", "velocity"} : Signals(a)[s] = base
           /\ Band(a) = IF 35 * base + 65 * Total(Signals(a)) < 3500 THEN "low"
                        ELSE IF 70 * base + 30 * Total(Signals(a)) < 7000 THEN "medium"
                        ELSE "high"
<1> DEFINE g == Signals(a)
           base == Max({g[s] : s \in DOMAIN g})
<1>1. DOMAIN g = {"amount", "geography", "newBuyer", "velocity"}
  BY DEF Signals
<1>2. g.amount \in 0 .. 100 /\ g.geography \in 0 .. 100 /\ g.newBuyer \in 0 .. 100 /\ g.velocity \in 0 .. 100
  OBVIOUS
<1> HIDE DEF g
<1>3. {g[s] : s \in DOMAIN g} = {g.amount, g.geography, g.newBuyer, g.velocity}
  BY <1>1
<1>4. /\ base \in {g.amount, g.geography, g.newBuyer, g.velocity}
      /\ \A v \in {g.amount, g.geography, g.newBuyer, g.velocity} : base >= v
  <2>1. g.amount \in Int /\ g.geography \in Int /\ g.newBuyer \in Int /\ g.velocity \in Int
    BY <1>2
  <2>2. base = Max({g.amount, g.geography, g.newBuyer, g.velocity})
    BY <1>3
  <2> HIDE DEF base
  <2> QED
    BY <2>1, <2>2, GreatestOfFour
<1>5. ShortOfCertain(g) = [n |-> (100 - base) * 100, d |-> 100 + Total(g) - base]
  BY DEF ShortOfCertain
<1> HIDE DEF base
<1>6. Total(g) \in Nat /\ base \in 0 .. 100
  <2>1. Total(g) \in Nat
    BY <1>2, Totals
  <2> QED
    BY <1>2, <1>4, <2>1
<1>7. /\ (100 - base) * 100 > 65 * (100 + Total(g) - base) <=> 35 * base + 65 * Total(g) < 3500
      /\ (100 - base) * 100 > 30 * (100 + Total(g) - base) <=> 70 * base + 30 * Total(g) < 7000
  BY <1>6
<1>8. Band(a) = IF 35 * base + 65 * Total(g) < 3500 THEN "low"
                ELSE IF 70 * base + 30 * Total(g) < 7000 THEN "medium" ELSE "high"
  BY <1>5, <1>7 DEF Band, g
<1>9. /\ \A s \in {"amount", "geography", "newBuyer", "velocity"} : g[s] <= base
      /\ \E s \in {"amount", "geography", "newBuyer", "velocity"} : g[s] = base
  BY <1>2, <1>4
<1> DEFINE Weighs(b) ==
             /\ \A s \in {"amount", "geography", "newBuyer", "velocity"} : Signals(a)[s] <= b
             /\ \E s \in {"amount", "geography", "newBuyer", "velocity"} : Signals(a)[s] = b
             /\ Band(a) = IF 35 * b + 65 * Total(Signals(a)) < 3500 THEN "low"
                          ELSE IF 70 * b + 30 * Total(Signals(a)) < 7000 THEN "medium"
                          ELSE "high"
<1>10. Weighs(base)
  BY <1>8, <1>9 DEF g
<1> SUFFICES \E b \in 0 .. 100 : Weighs(b)
  OBVIOUS
<1> HIDE DEF Weighs
<1> QED
  BY <1>6, <1>10

BandRank(band) == IF band = "low" THEN 0 ELSE IF band = "medium" THEN 1 ELSE 2

LEMMA BandsGrow ==
  ASSUME NEW a \in AnyAction, NEW w \in AnyAction, NoBetter(a, w)
  PROVE  BandRank(Band(a)) <= BandRank(Band(w))
<1> DEFINE Names == {"amount", "geography", "newBuyer", "velocity"}
<1>1. \A s \in Names : /\ Signals(a)[s] \in 0 .. 100 /\ Signals(w)[s] \in 0 .. 100
                       /\ Signals(a)[s] <= Signals(w)[s]
  BY SignalsGrow
<1>2. PICK b \in 0 .. 100 :
        /\ \E s \in Names : Signals(a)[s] = b
        /\ Band(a) = IF 35 * b + 65 * Total(Signals(a)) < 3500 THEN "low"
                     ELSE IF 70 * b + 30 * Total(Signals(a)) < 7000 THEN "medium" ELSE "high"
  BY <1>1, BandOf
<1>3. PICK c \in 0 .. 100 :
        /\ \A s \in Names : Signals(w)[s] <= c
        /\ Band(w) = IF 35 * c + 65 * Total(Signals(w)) < 3500 THEN "low"
                     ELSE IF 70 * c + 30 * Total(Signals(w)) < 7000 THEN "medium" ELSE "high"
  BY <1>1, BandOf
<1>4. b <= c
  <2>1. PICK s \in Names : Signals(a)[s] = b
    BY <1>2
  <2> DEFINE x == Signals(a)[s]
             y == Signals(w)[s]
  <2> HIDE DEF Names
  <2>2. x <= y /\ y \in 0 .. 100
    BY <1>1
  <2>3. y <= c
    BY <1>3
  <2>4. x = b
    BY <2>1
  <2> HIDE DEF x, y
  <2> QED
    BY <2>2, <2>3, <2>4
<1>5. /\ Total(Signals(a)) \in Nat /\ Total(Signals(w)) \in Nat
      /\ Total(Signals(a)) <= Total(Signals(w))
  <2>1. /\ Signals(a).amount \in 0 .. 100 /\ Signals(w).amount \in 0 .. 100
        /\ Signals(a).amount <= Signals(w).amount
        /\ Signals(a).geography \in 0 .. 100 /\ Signals(w).geography \in 0 .. 100
        /\ Signals(a).geography <= Signals(w).geography
        /\ Signals(a).newBuyer \in 0 .. 100 /\ Signals(w).newBuyer \in 0 .. 100
        /\ Signals(a).newBuyer <= Signals(w).newBuyer
        /\ Signals(a).velocity \in 0 .. 100 /\ Signals(w).velocity \in 0 .. 100
        /\ Signals(a).velocity <= Signals(w).velocity
    BY <1>1
  <2>2. \A p, q, u, v \in Nat : p <= u /\ q <= v =>
          p + q <= u + v /\ p + q \in Nat /\ u + v \in Nat
    OBVIOUS
  <2>3. \A x \in 0 .. 100 : x \in Nat
    OBVIOUS
  <2> DEFINE p == Signals(a).amount + Signals(a).geography
             u == Signals(w).amount + Signals(w).geography
  <2>4. p <= u /\ p \in Nat /\ u \in Nat
    BY <2>1, <2>2, <2>3, Zenon
  <2>5. p + Signals(a).newBuyer <= u + Signals(w).newBuyer
        /\ p + Signals(a).newBuyer \in Nat /\ u + Signals(w).newBuyer \in Nat
    BY <2>1, <2>2, <2>3, <2>4, Zenon
  <2>6. Total(Signals(a)) <= Total(Signals(w))
    BY <2>1, <2>2, <2>3, <2>5, Zenon DEF Total
  <2> QED
    BY <2>1, <2>6, Totals
<1> QED
  BY <1>2, <1>3, <1>4, <1>5 DEF BandRank

(* Making one fact of an action worse never makes the gate ask for less:    *)
(* rules that denied or escalated still do, and no signal gets quieter.     *)
THEOREM NoneEasierForRiskier == ActionsSpec => []NoEasierForRiskier
<1>1. ASSUME ActionsInv PROVE NoEasierForRiskier
  <2> SUFFICES ASSUME answered # Nothing, NEW w \in Worse(answered.action)
               PROVE  Demand(Gate(w)) >= Demand(answered.gate)
    BY DEF NoEasierForRiskier
  <2> DEFINE a == answered.action
             most == Max({2, QuorumSize})
  <2>1. a \in AnyAction /\ answered.gate = Gate(a)
    BY <1>1 DEF ActionsInv
  <2>2. w \in AnyAction /\ NoBetter(a, w)
    BY <2>1, WorseIsNoBetter
  <2> HIDE DEF a
  <2>3. /\ Denied(a) => Denied(w)
        /\ Escalated(a) => Escalated(w)
        /\ BandRank(Band(a)) <= BandRank(Band(w))
    BY <2>1, <2>2, DenialsAndEscalationsStay, BandsGrow
  <2>4. most \in Nat /\ most >= 2 /\ most <= QuorumSize + 3
    <3>1. QuorumSize \in Nat /\ QuorumSize \in Int /\ 2 \in Int
      BY ActionAssumption
    <3>2. most = IF 2 >= QuorumSize THEN 2 ELSE QuorumSize
      BY <3>1, GreaterOf, Zenon
    <3> QED
      BY <3>1, <3>2
  <2> DEFINE need(x) == IF Denied(x) THEN QuorumSize + 3
                        ELSE IF BandRank(Band(x)) = 2 THEN most
                        ELSE IF Escalated(x) \/ BandRank(Band(x)) = 1 THEN 1 ELSE 0
  <2>5. \A x : Demand(Gate(x)) = need(x)
    <3> SUFFICES ASSUME NEW x PROVE Demand(Gate(x)) = need(x)
      OBVIOUS
    <3>1. Band(x) \in {"low", "medium", "high"} /\ (Gate(x).status = "denied" <=> Denied(x))
      BY GateAnswers
    <3>2. ~Denied(x) => /\ Gate(x).required = Required(Outcome(x), Band(x))
                        /\ Outcome(x) = "escalate" <=> Escalated(x)
      BY GateAnswers
    <3> QED
      BY <3>1, <3>2 DEF Demand, Required, BandRank
  <2> HIDE DEF most
  <2>6. \A x : BandRank(Band(x)) \in {0, 1, 2}
    BY DEF BandRank
  <2>7. need(w) >= need(a)
    BY <2>3, <2>4, <2>6
  <2> QED
    BY <2>1, <2>5, <2>7
<1> QED
  BY <1>1, ActionsInvariant, PTL

-----------------------------------------------------------------------------
(* The discounts a policy grants in a day: Discounts.                       *)

(* The least of a set of numbers.                                           *)
LEMMA LeastOf ==
  ASSUME NEW T, T \subseteq Nat, T # {}
  PROVE  Min(T) \in T /\ \A y \in T : Min(T) <= y
<1> DEFINE Below == {ss \in Nat \X Nat : ss[1] < ss[2]}
<1>1. IsWellFoundedOn(Below, Nat)
  BY NatLessThanWellFounded, Zenon DEF OpToRel
<1> HIDE DEF Below
<1>2. PICK x \in T : \A y \in T : ~(<<y, x>> \in Below)
  BY <1>1, WFMin, Zenon
<1>3. \A y \in T : x <= y
  <2> SUFFICES ASSUME NEW y \in T PROVE x <= y
    OBVIOUS
  <2>1. x \in Nat /\ y \in Nat /\ ~(<<y, x>> \in Below)
    BY <1>2
  <2>2. <<y, x>> \in Below <=> y < x
    <3>1. <<y, x>> \in Nat \X Nat /\ <<y, x>>[1] = y /\ <<y, x>>[2] = x
      BY <2>1
    <3> QED
      BY <3>1, Zenon DEF Below
  <2> QED
    BY <2>1, <2>2
<1>4. \E m \in T : \A y \in T : m <= y
  BY <1>3
<1> QED
  BY <1>4, Zenon DEF Min

DiscountGrant == [user : UserTypes, asked : Asked, amount : Nat]

(* f holds the running totals of a day's grants.                            *)
Tally(f, gs) == f = [i \in 0 .. Len(gs) |-> IF i = 0 THEN 0 ELSE f[i - 1] + gs[i].amount]

LEMMA OneTally ==
  ASSUME NEW gs \in Seq(DiscountGrant), NEW f, NEW h, Tally(f, gs), Tally(h, gs)
  PROVE  f = h
<1> DEFINE differ == {i \in 0 .. Len(gs) : f[i] # h[i]}
<1>1. Len(gs) \in Nat
  OBVIOUS
<1>2. \A i \in 0 .. Len(gs) : /\ f[i] = IF i = 0 THEN 0 ELSE f[i - 1] + gs[i].amount
                              /\ h[i] = IF i = 0 THEN 0 ELSE h[i - 1] + gs[i].amount
  BY DEF Tally
<1>3. differ = {}
  <2> SUFFICES ASSUME differ # {} PROVE FALSE
    OBVIOUS
  <2> DEFINE n == Min(differ)
  <2>1. differ \subseteq Nat
    BY <1>1
  <2> HIDE DEF differ
  <2>2. n \in differ /\ \A y \in differ : n <= y
    BY <2>1, LeastOf
  <2> HIDE DEF n
  <2>3. n \in 0 .. Len(gs) /\ f[n] # h[n]
    BY <2>2 DEF differ
  <2>4. n # 0
    BY <1>2, <2>3
  <2>5. n - 1 \in 0 .. Len(gs) /\ n - 1 < n /\ n - 1 \notin differ
    BY <1>1, <2>2, <2>3, <2>4
  <2>6. f[n - 1] = h[n - 1]
    BY <2>5 DEF differ
  <2> QED
    BY <1>2, <2>3, <2>4, <2>6, Zenon
<1>4. \A i \in 0 .. Len(gs) : f[i] = h[i]
  BY <1>3
<1>5. f = [i \in 0 .. Len(gs) |-> f[i]] /\ h = [i \in 0 .. Len(gs) |-> h[i]]
  BY DEF Tally
<1> QED
  BY <1>4, <1>5

LEMMA SpentIsTheTally ==
  ASSUME NEW gs \in Seq(DiscountGrant), NEW f, Tally(f, gs)
  PROVE  SpentOn(gs) = f[Len(gs)]
<1> DEFINE sum == CHOOSE s : Tally(s, gs)
<1>1. SpentOn(gs) = sum[Len(gs)]
  BY Zenon DEF SpentOn, Tally
<1>2. Tally(sum, gs)
  BY Zenon
<1> QED
  BY <1>1, <1>2, OneTally, Zenon

LEMMA TallyGrows ==
  ASSUME NEW gs \in Seq(DiscountGrant), NEW g \in DiscountGrant, NEW f, Tally(f, gs)
  PROVE  \E h : Tally(h, Append(gs, g)) /\ h[Len(gs) + 1] = f[Len(gs)] + g.amount
<1> DEFINE n == Len(gs) + 1
           h == [i \in 0 .. n |-> IF i = n THEN f[Len(gs)] + g.amount ELSE f[i]]
<1>1. n \in Nat /\ n # 0 /\ n - 1 = Len(gs) /\ Len(gs) \in Nat
  OBVIOUS
<1>2. Len(Append(gs, g)) = n /\ Append(gs, g)[n] = g
      /\ \A i \in 1 .. Len(gs) : Append(gs, g)[i] = gs[i]
  OBVIOUS
<1> HIDE DEF n
<1>3. \A i \in 0 .. Len(gs) : f[i] = IF i = 0 THEN 0 ELSE f[i - 1] + gs[i].amount
  BY DEF Tally
<1>4. \A i \in 0 .. n :
        h[i] = IF i = 0 THEN 0 ELSE h[i - 1] + Append(gs, g)[i].amount
  <2> SUFFICES ASSUME NEW i \in 0 .. n
               PROVE  h[i] = IF i = 0 THEN 0 ELSE h[i - 1] + Append(gs, g)[i].amount
    OBVIOUS
  <2>1. CASE i = n
    <3>1. i - 1 \in 0 .. n /\ i - 1 # n /\ i - 1 = Len(gs) /\ i # 0
      BY <1>1, <2>1
    <3> QED
      BY <1>2, <2>1, <3>1
  <2>2. CASE i # n /\ i # 0
    <3>1. i \in 1 .. Len(gs) /\ i - 1 \in 0 .. n /\ i - 1 # n /\ i \in 0 .. Len(gs)
      BY <1>1, <2>2
    <3>2. h[i] = f[i] /\ h[i - 1] = f[i - 1]
      BY <2>2, <3>1
    <3> QED
      BY <1>2, <1>3, <2>2, <3>1, <3>2, Zenon
  <2>3. CASE i # n /\ i = 0
    <3>1. 0 \in 0 .. Len(gs)
      BY <1>1
    <3> QED
      BY <1>3, <2>3, <3>1
  <2> QED
    BY <2>1, <2>2, <2>3
<1>5. h[n] = f[Len(gs)] + g.amount
  BY <1>1
<1>6. Tally(h, Append(gs, g))
  <2>1. h = [i \in 0 .. n |-> h[i]]
    OBVIOUS
  <2> HIDE DEF h
  <2> QED
    BY <1>2, <1>4, <2>1, Zenon DEF Tally
<1>7. h[Len(gs) + 1] = f[Len(gs)] + g.amount
  BY <1>5, Zenon DEF n
<1> HIDE DEF h
<1> QED
  BY <1>6, <1>7, Zenon

(* What a policy used today is what its grants add up to, and is within its *)
(* budget.                                                                  *)
BudgetInv ==
  \A p \in DOMAIN Policies :
    /\ used[p] <= Policies[p].budget
    /\ \E f : Tally(f, granted[p]) /\ f[Len(granted[p])] = used[p]

AllowedInv ==
  \A p \in DOMAIN Policies : \A i \in DOMAIN granted[p] :
    granted[p][i].amount <= Min({granted[p][i].asked, MaxFor(p, granted[p][i].user)})

DiscountsInv == DiscountsTypeOK /\ BudgetInv /\ AllowedInv

LEMMA EmptyTally == \E f : Tally(f, <<>>) /\ f[Len(<<>>)] = 0
<1> DEFINE f == [i \in 0 .. 0 |-> 0]
<1>1. f = [i \in 0 .. Len(<<>>) |-> IF i = 0 THEN 0 ELSE f[i - 1] + <<>>[i].amount]
  OBVIOUS
<1>2. f[Len(<<>>)] = 0
  OBVIOUS
<1> QED
  BY <1>1, <1>2 DEF Tally

LEMMA DiscountsInitInv == DiscountsInit => DiscountsInv
<1> SUFFICES ASSUME DiscountsInit PROVE DiscountsInv
  OBVIOUS
<1>1. DiscountsTypeOK
  BY DEF DiscountsInit, DiscountsTypeOK
<1>2. \A p \in DOMAIN Policies : used[p] = 0 /\ granted[p] = <<>>
  BY DEF DiscountsInit
<1>3. \A p \in DOMAIN Policies : 0 <= Policies[p].budget
  BY DiscountAssumption
<1>4. BudgetInv
  BY <1>2, <1>3, EmptyTally, Zenon DEF BudgetInv
<1>5. AllowedInv
  BY <1>2 DEF AllowedInv
<1> QED
  BY <1>1, <1>4, <1>5 DEF DiscountsInv

(* What is granted is what the request, the tier and what is left of the    *)
(* budget allow, less a cut.                                                *)
LEMMA AmountFits ==
  ASSUME DiscountsInv, NEW p \in DOMAIN Policies, NEW user \in UserTypes, NEW asked \in Asked,
         Uncombined(p, WithinBudget(p, Min({asked, MaxFor(p, user)}))) > 0
  PROVE  LET amount == Uncombined(p, WithinBudget(p, Min({asked, MaxFor(p, user)})))
         IN /\ amount \in Nat /\ amount <= Min({asked, MaxFor(p, user)})
            /\ used[p] + amount <= Policies[p].budget
<1> DEFINE wanted == Min({asked, MaxFor(p, user)})
           left == Policies[p].budget - used[p]
           within == WithinBudget(p, wanted)
           amount == Uncombined(p, within)
<1>1. asked \in Int /\ MaxFor(p, user) \in Int
  <2>1. Policies[p].max \in Int
    BY DiscountAssumption
  <2>2. user \in DOMAIN Tier[p] => Tier[p][user] \in Int
    BY DiscountAssumption
  <2> QED
    BY <2>1, <2>2, DiscountAssumption DEF MaxFor
<1>2. wanted \in Int
  BY <1>1, LesserOf
<1>3. left \in Nat /\ used[p] \in Nat /\ Policies[p].budget \in Nat
  BY DiscountAssumption DEF DiscountsInv, DiscountsTypeOK, BudgetInv
<1> HIDE DEF wanted, left
<1>4. Max({0, left}) = left
  <2>1. 0 \in Int /\ left \in Int
    BY <1>3
  <2>2. Max({0, left}) = IF 0 >= left THEN 0 ELSE left
    BY <2>1, GreaterOf, Zenon
  <2> QED
    BY <1>3, <2>2
<1>5. within = Min({wanted, left})
  BY <1>4, Zenon DEF WithinBudget, left
<1>6. within \in Int /\ within <= wanted /\ within <= left
  BY <1>2, <1>3, <1>5, LesserOf
<1> HIDE DEF within
<1>7. amount \in Int /\ (amount <= within \/ amount = 0)
  <2>1. within - Cut \in Int /\ within - Cut <= within
    BY <1>6, DiscountAssumption
  <2>2. Max({0, within - Cut}) = IF 0 >= within - Cut THEN 0 ELSE within - Cut
    BY <2>1, GreaterOf
  <2> QED
    BY <1>6, <2>1, <2>2 DEF Uncombined
<1>8. amount > 0
  BY DEF wanted, within
<1> HIDE DEF amount
<1>9. amount \in Nat /\ amount <= wanted /\ used[p] + amount <= Policies[p].budget
  BY <1>2, <1>3, <1>6, <1>7, <1>8 DEF left
<1> QED
  BY <1>9 DEF amount, within, wanted

(* The policy that is found is one of them.                                 *)
LEMMA PolicyFound ==
  ASSUME DiscountsTypeOK, NEW merchant, NEW product,
         GetPolicy(merchant, product) # NoPolicy
  PROVE  GetPolicy(merchant, product) \in DOMAIN Policies
<1> DEFINE found == {i \in DOMAIN registered : /\ Policies[registered[i]].merchant = merchant
                                               /\ Policies[registered[i]].product = product}
<1>1. found # {} /\ GetPolicy(merchant, product) = registered[Min(found)]
  BY Zenon DEF GetPolicy
<1>2. found \subseteq Nat
  BY DEF DiscountsTypeOK
<1>3. Min(found) \in found
  BY <1>1, <1>2, LeastOf, Zenon
<1>4. Min(found) \in DOMAIN registered
  BY <1>3, Zenon
<1> QED
  BY <1>1, <1>4 DEF DiscountsTypeOK

LEMMA AskKeeps ==
  ASSUME DiscountsInv, NEW q \in DOMAIN Policies, NEW user \in UserTypes, NEW asked \in Asked,
         AskDiscount(Policies[q].merchant, Policies[q].product, user, asked)
  PROVE  DiscountsInv'
<1>1. PICK p : p = GetPolicy(Policies[q].merchant, Policies[q].product)
  OBVIOUS
<1>2. PICK amount : amount = Uncombined(p, WithinBudget(p, Min({asked, MaxFor(p, user)})))
  OBVIOUS
<1>3. PICK g : g = [user |-> user, asked |-> asked, amount |-> amount]
  OBVIOUS
<1>4. /\ p # NoPolicy /\ amount > 0
      /\ used' = [used EXCEPT ![p] = @ + amount]
      /\ granted' = [granted EXCEPT ![p] = Append(@, g)]
      /\ UNCHANGED registered
  BY <1>1, <1>2, <1>3 DEF AskDiscount
<1>5. p \in DOMAIN Policies
  BY <1>1, <1>4, PolicyFound DEF DiscountsInv
<1>6. /\ amount \in Nat /\ amount <= Min({asked, MaxFor(p, user)})
      /\ used[p] + amount <= Policies[p].budget
  BY <1>2, <1>4, <1>5, AmountFits
<1>7. /\ g \in DiscountGrant /\ g.amount = amount /\ g.asked = asked /\ g.user = user
  BY <1>3, <1>6 DEF DiscountGrant
<1>8. /\ used \in [DOMAIN Policies -> Nat] /\ granted \in [DOMAIN Policies -> Seq(DiscountGrant)]
  BY DEF DiscountsInv, DiscountsTypeOK, DiscountGrant
<1>9. \A r \in DOMAIN Policies :
        /\ used'[r] = IF r = p THEN used[p] + amount ELSE used[r]
        /\ granted'[r] = IF r = p THEN Append(granted[p], g) ELSE granted[r]
  BY <1>4, <1>8
<1>10. granted[p] \in Seq(DiscountGrant)
  BY <1>5, <1>8
<1>11. /\ Append(granted[p], g) \in Seq(DiscountGrant)
       /\ Len(Append(granted[p], g)) = Len(granted[p]) + 1
       /\ DOMAIN Append(granted[p], g) = DOMAIN granted[p] \union {Len(granted[p]) + 1}
       /\ \A i \in DOMAIN granted[p] : Append(granted[p], g)[i] = granted[p][i]
       /\ Append(granted[p], g)[Len(granted[p]) + 1] = g
  BY <1>7, <1>10, OneMore
<1>12. DiscountsTypeOK'
  <2>1. used[p] + amount \in Nat
    BY <1>5, <1>6, <1>8
  <2>2. used' \in [DOMAIN Policies -> Nat]
    BY <1>4, <1>8, <2>1
  <2>3. granted' \in [DOMAIN Policies -> Seq(DiscountGrant)]
    BY <1>4, <1>8, <1>11
  <2> QED
    BY <1>4, <2>2, <2>3 DEF DiscountsInv, DiscountsTypeOK, DiscountGrant
<1>13. BudgetInv'
  <2> SUFFICES ASSUME NEW r \in DOMAIN Policies
               PROVE  /\ used'[r] <= Policies[r].budget
                      /\ \E f : Tally(f, granted'[r]) /\ f[Len(granted'[r])] = used'[r]
    BY DEF BudgetInv
  <2>1. CASE r # p
    BY <1>9, <2>1, Zenon DEF DiscountsInv, BudgetInv
  <2>2. CASE r = p
    <3>1. PICK f : Tally(f, granted[p]) /\ f[Len(granted[p])] = used[p]
      BY <1>5, Zenon DEF DiscountsInv, BudgetInv
    <3>2. \E h : /\ Tally(h, Append(granted[p], g))
                 /\ h[Len(granted[p]) + 1] = f[Len(granted[p])] + g.amount
      BY <1>7, <1>10, <3>1, TallyGrows
    <3> QED
      BY <1>6, <1>7, <1>9, <1>11, <2>2, <3>1, <3>2, Zenon
  <2> QED
    BY <2>1, <2>2
<1>14. AllowedInv'
  <2> SUFFICES ASSUME NEW r \in DOMAIN Policies, NEW i \in DOMAIN granted'[r]
               PROVE  granted'[r][i].amount
                        <= Min({granted'[r][i].asked, MaxFor(r, granted'[r][i].user)})
    BY DEF AllowedInv, MaxFor
  <2>1. CASE r # p
    BY <1>9, <2>1, Zenon DEF DiscountsInv, AllowedInv
  <2>2. CASE r = p /\ i \in DOMAIN granted[p]
    BY <1>5, <1>9, <1>11, <2>2, Zenon DEF DiscountsInv, AllowedInv
  <2>3. CASE r = p /\ i = Len(granted[p]) + 1
    BY <1>6, <1>7, <1>9, <1>11, <2>3, Zenon
  <2>4. r = p => i \in DOMAIN granted[p] \/ i = Len(granted[p]) + 1
    <3>1. granted'[p] = Append(granted[p], g)
      BY <1>5, <1>9
    <3>2. r = p => i \in DOMAIN Append(granted[p], g)
      BY <3>1
    <3> QED
      BY <1>11, <3>2
  <2> QED
    BY <2>1, <2>2, <2>3, <2>4, Zenon
<1> QED
  BY <1>12, <1>13, <1>14 DEF DiscountsInv

LEMMA ResetKeeps ==
  ASSUME DiscountsInv, NEW ps \in SUBSET DOMAIN Policies, ResetDaily(ps)
  PROVE  DiscountsInv'
<1>1. /\ used \in [DOMAIN Policies -> Nat] /\ granted \in [DOMAIN Policies -> Seq(DiscountGrant)]
  BY DEF DiscountsInv, DiscountsTypeOK, DiscountGrant
<1>2. \A p \in DOMAIN Policies :
        /\ used'[p] = IF p \in ps THEN 0 ELSE used[p]
        /\ granted'[p] = IF p \in ps THEN <<>> ELSE granted[p]
  BY <1>1 DEF ResetDaily
<1>3. DiscountsTypeOK'
  <2>1. <<>> \in Seq(DiscountGrant)
    OBVIOUS
  <2>2. used' \in [DOMAIN Policies -> Nat]
    BY <1>1 DEF ResetDaily
  <2>3. granted' \in [DOMAIN Policies -> Seq(DiscountGrant)]
    BY <1>1, <2>1 DEF ResetDaily
  <2> QED
    BY <2>2, <2>3 DEF ResetDaily, DiscountsInv, DiscountsTypeOK, DiscountGrant
<1>4. BudgetInv'
  <2>1. \A p \in DOMAIN Policies : 0 <= Policies[p].budget
    BY DiscountAssumption
  <2> SUFFICES ASSUME NEW p \in DOMAIN Policies
               PROVE  /\ used'[p] <= Policies[p].budget
                      /\ \E f : Tally(f, granted'[p]) /\ f[Len(granted'[p])] = used'[p]
    BY DEF BudgetInv
  <2> QED
    BY <1>2, <2>1, EmptyTally, Zenon DEF DiscountsInv, BudgetInv
<1>5. AllowedInv'
  <2> SUFFICES ASSUME NEW p \in DOMAIN Policies, NEW i \in DOMAIN granted'[p]
               PROVE  granted'[p][i].amount
                        <= Min({granted'[p][i].asked, MaxFor(p, granted'[p][i].user)})
    BY DEF AllowedInv, MaxFor
  <2>1. p \notin ps /\ granted'[p] = granted[p]
    BY <1>2
  <2> QED
    BY <2>1, Zenon DEF DiscountsInv, AllowedInv
<1> QED
  BY <1>3, <1>4, <1>5 DEF DiscountsInv

LEMMA DiscountsInvariant == DiscountsSpec => []DiscountsInv
<1>1. DiscountsInv /\ [DiscountsNext]_discountVars => DiscountsInv'
  <2> SUFFICES ASSUME DiscountsInv, [DiscountsNext]_discountVars PROVE DiscountsInv'
    OBVIOUS
  <2>1. ASSUME NEW p \in DOMAIN Policies, Register(p) PROVE DiscountsInv'
    <3>1. UNCHANGED <<used, granted>> /\ registered' \in Seq(DOMAIN Policies)
      BY <2>1 DEF Register, DiscountsInv, DiscountsTypeOK
    <3> QED
      BY <3>1 DEF DiscountsInv, DiscountsTypeOK, BudgetInv, AllowedInv
  <2>2. ASSUME UNCHANGED discountVars PROVE DiscountsInv'
    BY <2>2 DEF discountVars, DiscountsInv, DiscountsTypeOK, BudgetInv, AllowedInv
  <2> QED
    BY <2>1, <2>2, AskKeeps, ResetKeeps DEF DiscountsNext
<1> QED
  BY <1>1, DiscountsInitInv, PTL DEF DiscountsSpec

(* However requests and resets follow each other, what a policy granted in  *)
(* a day fits its budget, and no request got more than it asked for or its  *)
(* tier allows.                                                             *)
THEOREM GrantsFit == DiscountsSpec => []GrantsFitTheDay
<1>1. DiscountsInv => GrantsFitTheDay
  <2> SUFFICES ASSUME DiscountsInv, NEW p \in DOMAIN Policies
               PROVE  /\ SpentOn(granted[p]) <= Policies[p].budget
                      /\ \A i \in DOMAIN granted[p] :
                           granted[p][i].amount
                             <= Min({granted[p][i].asked, MaxFor(p, granted[p][i].user)})
    BY Zenon DEF GrantsFitTheDay
  <2>1. PICK f : Tally(f, granted[p]) /\ f[Len(granted[p])] = used[p]
    BY Zenon DEF DiscountsInv, BudgetInv
  <2>2. granted[p] \in Seq(DiscountGrant)
    BY DEF DiscountsInv, DiscountsTypeOK, DiscountGrant
  <2>3. SpentOn(granted[p]) = used[p]
    BY <2>1, <2>2, SpentIsTheTally
  <2> QED
    BY <2>3, Zenon DEF DiscountsInv, BudgetInv, AllowedInv
<1> QED
  BY <1>1, DiscountsInvariant, PTL

(* Every variable of the discounts keeps its type.                          *)
THEOREM DiscountsTypeCorrect == DiscountsSpec => []DiscountsTypeOK
<1>1. DiscountsInv => DiscountsTypeOK
  BY DEF DiscountsInv
<1> QED
  BY <1>1, DiscountsInvariant, PTL

-----------------------------------------------------------------------------
(* The offer a message makes and the rules that clamp it: Offers.           *)

(* Rounded to the nearest, and no less than nothing.                        *)
LEMMA Nearest ==
  ASSUME NEW n \in Nat, NEW d \in Nat \ {0}
  PROVE  LET r == RoundHalfEven(n, d)
         IN r \in Nat /\ 2 * (d * r) - 2 * n <= d /\ 2 * n - 2 * (d * r) <= d
<1> DEFINE q == n \div d
           m == n % d
<1>1. q \in Nat /\ m \in Nat /\ m < d /\ n = d * q + m
  OBVIOUS
<1> HIDE DEF q, m
<1>2. RoundHalfEven(n, d) = IF 2 * m < d \/ (2 * m = d /\ q % 2 = 0) THEN q ELSE q + 1
  BY Zenon DEF RoundHalfEven, q, m
<1>3. CASE RoundHalfEven(n, d) = q /\ 2 * m <= d
  <2>1. 2 * (d * q) - 2 * n = 0 - 2 * m /\ d * q \in Nat
    BY <1>1
  <2> QED
    BY <1>1, <1>3, <2>1
<1>4. CASE RoundHalfEven(n, d) = q + 1 /\ 2 * m >= d
  <2>1. d * (q + 1) = d * q + d /\ d * q \in Nat
    BY <1>1
  <2> QED
    BY <1>1, <1>4, <2>1
<1>5. (RoundHalfEven(n, d) = q /\ 2 * m <= d) \/ (RoundHalfEven(n, d) = q + 1 /\ 2 * m >= d)
  BY <1>1, <1>2
<1> QED
  BY <1>3, <1>4, <1>5

LEMMA SumOfOne == ASSUME NEW x \in Int PROVE Sum(<<x>>) = x
<1> DEFINE one == <<x>>
           Step(it) == [s \in SUBSET (DOMAIN one) |->
                          IF s = {} THEN 0
                          ELSE one[CHOOSE y \in s : TRUE] + it[s \ {CHOOSE y \in s : TRUE}]]
           iter == CHOOSE it : it = Step(it)
<1>1. Sum(one) = iter[DOMAIN one]
  BY Zenon DEF Sum, FoldSeq, FoldFunction, FoldFunctionOnSet, MapThenFoldSet
<1>2. DOMAIN one = {1} /\ one[1] = x
  OBVIOUS
<1>3. SUBSET {1} = {{}, {1}}
  OBVIOUS
<1>4. (CHOOSE y \in {1} : TRUE) = 1 /\ {1} \ {1} = {} /\ {1} # {}
  OBVIOUS
<1> DEFINE f == [s \in {{}, {1}} |-> IF s = {} THEN 0 ELSE x]
<1>5. f = Step(f)
  <2>1. \A s \in {{}, {1}} :
          f[s] = IF s = {} THEN 0
                 ELSE one[CHOOSE y \in s : TRUE] + f[s \ {CHOOSE y \in s : TRUE}]
    BY <1>2, <1>4
  <2> QED
    BY <1>2, <1>3, <2>1
<1> HIDE DEF f
<1>6. iter = Step(iter)
  BY <1>5, Zenon
<1> HIDE DEF iter
<1>7. iter[{}] = 0
  BY <1>2, <1>3, <1>6
<1>8. iter[{1}] = one[1] + iter[{}]
  BY <1>2, <1>3, <1>4, <1>6
<1> QED
  BY <1>1, <1>2, <1>7, <1>8

(* A percentage between none and all.                                       *)
Share(p) == p \in [n : Nat, d : Nat \ {0}] /\ p.n <= 100 * p.d

(* What a unit costs with p percent off.                                    *)
CutPrice(l, p) == PercentOf([n |-> 100 * p.d - p.n, d |-> p.d], l.price)

LEMMA CutPriceIsNat ==
  ASSUME NEW l \in LineItem, NEW p, Share(p)
  PROVE  /\ CutPrice(l, p) \in Nat /\ PercentOf(p, l.price * l.quantity) \in Nat
         /\ 2 * ((100 * p.d) * CutPrice(l, p)) - 2 * (l.price * (100 * p.d - p.n)) <= 100 * p.d
         /\ 2 * (l.price * (100 * p.d - p.n)) - 2 * ((100 * p.d) * CutPrice(l, p)) <= 100 * p.d
         /\ 2 * ((100 * p.d) * PercentOf(p, l.price * l.quantity))
              - 2 * ((l.price * l.quantity) * p.n) <= 100 * p.d
         /\ 2 * ((l.price * l.quantity) * p.n)
              - 2 * ((100 * p.d) * PercentOf(p, l.price * l.quantity)) <= 100 * p.d
<1>1. /\ p.n \in Nat /\ p.d \in Nat \ {0} /\ p.n <= 100 * p.d
      /\ l.price \in Nat /\ l.quantity \in Nat
  BY DEF Share, LineItem
<1>2. 100 * p.d - p.n \in Nat /\ 100 * p.d \in Nat \ {0}
  BY <1>1
<1>3. l.price * (100 * p.d - p.n) \in Nat /\ l.price * l.quantity \in Nat
  BY <1>1, <1>2
<1>4. (l.price * l.quantity) * p.n \in Nat
  BY <1>1, <1>3
<1>5. CutPrice(l, p) = RoundHalfEven(l.price * (100 * p.d - p.n), 100 * p.d)
  BY Zenon DEF CutPrice, PercentOf
<1>6. PercentOf(p, l.price * l.quantity) = RoundHalfEven((l.price * l.quantity) * p.n, 100 * p.d)
  BY Zenon DEF PercentOf
<1>7. \A n \in Nat, d \in Nat \ {0} :
        /\ RoundHalfEven(n, d) \in Nat
        /\ 2 * (d * RoundHalfEven(n, d)) - 2 * n <= d
        /\ 2 * n - 2 * (d * RoundHalfEven(n, d)) <= d
  BY Nearest
<1> DEFINE whole == 100 * p.d
           cut   == l.price * (whole - p.n)
           part  == (l.price * l.quantity) * p.n
<1>8. whole \in Nat \ {0} /\ cut \in Nat /\ part \in Nat
  BY <1>2, <1>3, <1>4
<1>9. CutPrice(l, p) = RoundHalfEven(cut, whole)
      /\ PercentOf(p, l.price * l.quantity) = RoundHalfEven(part, whole)
  BY <1>5, <1>6
<1> SUFFICES /\ CutPrice(l, p) \in Nat /\ PercentOf(p, l.price * l.quantity) \in Nat
             /\ 2 * (whole * CutPrice(l, p)) - 2 * cut <= whole
             /\ 2 * cut - 2 * (whole * CutPrice(l, p)) <= whole
             /\ 2 * (whole * PercentOf(p, l.price * l.quantity)) - 2 * part <= whole
             /\ 2 * part - 2 * (whole * PercentOf(p, l.price * l.quantity)) <= whole
  OBVIOUS
<1> HIDE DEF whole, cut, part
<1> QED
  BY <1>7, <1>8, <1>9, Zenon

(* An offer of one line is its line at the cut price.                       *)
LEMMA RecalcOfOne ==
  ASSUME NEW l \in LineItem, NEW p, Share(p)
  PROVE  /\ [l EXCEPT !.unit = CutPrice(l, p)] \in LineItem
         /\ Recalc(<<l>>, p) =
              [lines |-> <<[l EXCEPT !.unit = CutPrice(l, p)]>>, pct |-> p,
               discount |-> PercentOf(p, l.price * l.quantity),
               final |-> CutPrice(l, p) * l.quantity]
<1> DEFINE u == CutPrice(l, p)
           m == [l EXCEPT !.unit = u]
           lines == <<l>>
           cut == [i \in DOMAIN lines |->
                     [lines[i] EXCEPT !.unit =
                        PercentOf([n |-> 100 * p.d - p.n, d |-> p.d], lines[i].price)]]
<1>1. u \in Nat
  BY CutPriceIsNat
<1>2. DOMAIN lines = {1} /\ lines[1] = l /\ DOMAIN <<m>> = {1} /\ <<m>>[1] = m
  OBVIOUS
<1>3. cut = <<m>>
  <2>1. cut = [i \in {1} |-> m]
    BY <1>2 DEF CutPrice
  <2>2. <<m>> = [i \in {1} |-> m]
    BY <1>2
  <2> QED
    BY <2>1, <2>2, Zenon
<1> HIDE DEF u
<1>4. m \in LineItem /\ m.unit = u /\ m.quantity = l.quantity
  BY <1>1 DEF LineItem
<1> HIDE DEF m, cut
<1>5. Billable(cut) = u * l.quantity
  <2>1. [i \in DOMAIN cut |-> cut[i].unit * cut[i].quantity] = <<u * l.quantity>>
    BY <1>2, <1>3, <1>4
  <2>2. u * l.quantity \in Int
    BY <1>1 DEF LineItem
  <2> QED
    BY <2>1, <2>2, SumOfOne DEF Billable
<1>6. ListTotal(lines) = l.price * l.quantity
  <2>1. [i \in DOMAIN lines |-> lines[i].price * lines[i].quantity] = <<l.price * l.quantity>>
    BY <1>2
  <2>2. l.price * l.quantity \in Int
    BY DEF LineItem
  <2> QED
    BY <2>1, <2>2, SumOfOne DEF ListTotal
<1>7. Recalc(lines, p) = [lines |-> cut, pct |-> p, discount |-> PercentOf(p, ListTotal(lines)),
                          final |-> Billable(cut)]
  BY Zenon DEF Recalc, cut
<1>8. m = [l EXCEPT !.unit = CutPrice(l, p)] /\ u = CutPrice(l, p)
  BY Zenon DEF m, u
<1> QED
  BY <1>3, <1>4, <1>5, <1>6, <1>7, <1>8, Zenon

(* Recalculated again, an offer is cut from the list price again.           *)
LEMMA RecalcAgain ==
  ASSUME NEW l \in LineItem, NEW p, NEW q, Share(p), Share(q)
  PROVE  Recalc(Recalc(<<l>>, p).lines, q) = Recalc(<<l>>, q)
<1> DEFINE m == [l EXCEPT !.unit = CutPrice(l, p)]
<1>1. m \in LineItem /\ Recalc(<<l>>, p).lines = <<m>>
  <2>1. /\ m \in LineItem
        /\ Recalc(<<l>>, p) = [lines |-> <<m>>, pct |-> p,
                               discount |-> PercentOf(p, l.price * l.quantity),
                               final |-> CutPrice(l, p) * l.quantity]
    BY RecalcOfOne, Zenon
  <2> HIDE DEF m
  <2> QED
    BY <2>1
<1>2. m.price = l.price /\ m.quantity = l.quantity
  BY DEF LineItem
<1>3. CutPrice(m, q) = CutPrice(l, q) /\ \A v : [m EXCEPT !.unit = v] = [l EXCEPT !.unit = v]
  BY <1>2 DEF CutPrice, LineItem
<1> HIDE DEF m
<1>4. Recalc(<<m>>, q) =
        [lines |-> <<[m EXCEPT !.unit = CutPrice(m, q)]>>, pct |-> q,
         discount |-> PercentOf(q, m.price * m.quantity),
         final |-> CutPrice(m, q) * m.quantity]
  BY <1>1, RecalcOfOne
<1>5. Recalc(<<l>>, q) =
        [lines |-> <<[l EXCEPT !.unit = CutPrice(l, q)]>>, pct |-> q,
         discount |-> PercentOf(q, l.price * l.quantity),
         final |-> CutPrice(l, q) * l.quantity]
  BY RecalcOfOne
<1> QED
  BY <1>1, <1>2, <1>3, <1>4, <1>5, Zenon

(* A share no larger than one no larger than a third is no larger than it.  *)
LEMMA AtMostAtMost ==
  ASSUME NEW p, NEW q, Share(p), Share(q), NEW c \in Nat,
         PercentAtMost(p, q), PercentAtMost(q, Percent(c))
  PROVE  PercentAtMost(p, Percent(c))
<1>1. /\ p.n \in Nat /\ p.d \in Nat \ {0} /\ q.n \in Nat /\ q.d \in Nat \ {0}
      /\ p.n * q.d <= q.n * p.d /\ q.n <= c * q.d
  BY DEF Share, PercentAtMost, Percent
<1>2. \A a, b, x, y \in Nat : b # 0 /\ y # 0 /\ a * y <= x * b /\ x <= c * y => a <= c * b
  <2> SUFFICES ASSUME NEW a \in Nat, NEW b \in Nat, NEW x \in Nat, NEW y \in Nat,
                      b # 0, y # 0, a * y <= x * b, x <= c * y, a > c * b
               PROVE  FALSE
    OBVIOUS
  <2>1. a * y > (c * b) * y
    OBVIOUS
  <2>2. x * b <= (c * y) * b
    OBVIOUS
  <2>3. (c * b) * y = (c * y) * b
    OBVIOUS
  <2>4. a * y \in Nat /\ x * b \in Nat /\ (c * b) * y \in Nat
    OBVIOUS
  <2> QED
    BY <2>1, <2>2, <2>3, <2>4
<1>3. p.n <= c * p.d
  BY <1>1, <1>2, Zenon
<1> QED
  BY <1>1, <1>3 DEF PercentAtMost, Percent

LEMMA WholePercent ==
  ASSUME NEW c \in 0 .. 100
  PROVE  Share(Percent(c)) /\ PercentAtMost(Percent(c), Percent(c))
BY DEF Share, Percent, PercentAtMost

(* The cap of an offer of one line is no more than that of its sku.         *)
LEMMA CapOfOne ==
  ASSUME NEW l \in LineItem
  PROVE  DiscountCap(<<l>>) \in 0 .. 100 /\ DiscountCap(<<l>>) <= SkuCap(l.sku)
         /\ SkuCap(l.sku) \in 0 .. 100
<1>1. SkuCap(l.sku) \in 0 .. 100 /\ MaxDiscountPct \in 0 .. 100
  BY OfferAssumption DEF SkuCap
<1>2. {MaxDiscountPct} \union {SkuCap(<<l>>[i].sku) : i \in DOMAIN <<l>>}
        = {MaxDiscountPct, SkuCap(l.sku)}
  <2>1. DOMAIN <<l>> = {1} /\ <<l>>[1] = l
    OBVIOUS
  <2> QED
    BY <2>1
<1>3. DiscountCap(<<l>>) = Min({MaxDiscountPct, SkuCap(l.sku)})
  BY <1>2, Zenon DEF DiscountCap
<1>4. DiscountCap(<<l>>) = IF MaxDiscountPct <= SkuCap(l.sku) THEN MaxDiscountPct ELSE SkuCap(l.sku)
  <2>1. MaxDiscountPct \in Int /\ SkuCap(l.sku) \in Int
    BY <1>1
  <2> QED
    BY <1>3, <2>1, LesserOf, Zenon
<1> QED
  BY <1>1, <1>4

(* What the clamps leave is the same line at some smaller discount, within  *)
(* the cap of its sku.                                                      *)
LEMMA Clamped ==
  ASSUME NEW l \in LineItem, NEW p, Share(p)
  PROVE  \E s : /\ Share(s) /\ PercentAtMost(s, Percent(SkuCap(l.sku)))
                /\ MaxAbsolute(MaxDiscount(Recalc(<<l>>, p))) = Recalc(<<l>>, s)
<1> DEFINE Fits(s) == Share(s) /\ PercentAtMost(s, Percent(SkuCap(l.sku)))
           made == Recalc(<<l>>, p)
<1>1. \A s : Share(s) => /\ Recalc(<<l>>, s).pct = s
                          /\ Recalc(<<l>>, s).final \in Nat
                          /\ Recalc(<<l>>, s).discount \in Nat
                          /\ Recalc(<<l>>, s).lines = <<[l EXCEPT !.unit = CutPrice(l, s)]>>
  <2> SUFFICES ASSUME NEW s, Share(s)
               PROVE  /\ Recalc(<<l>>, s).pct = s
                      /\ Recalc(<<l>>, s).final \in Nat
                      /\ Recalc(<<l>>, s).discount \in Nat
                      /\ Recalc(<<l>>, s).lines = <<[l EXCEPT !.unit = CutPrice(l, s)]>>
    OBVIOUS
  <2>1. Recalc(<<l>>, s) =
          [lines |-> <<[l EXCEPT !.unit = CutPrice(l, s)]>>, pct |-> s,
           discount |-> PercentOf(s, l.price * l.quantity),
           final |-> CutPrice(l, s) * l.quantity]
    BY RecalcOfOne
  <2>2. CutPrice(l, s) * l.quantity \in Nat /\ PercentOf(s, l.price * l.quantity) \in Nat
    <3>1. CutPrice(l, s) \in Nat /\ l.quantity \in Nat /\ PercentOf(s, l.price * l.quantity) \in Nat
      BY CutPriceIsNat DEF LineItem
    <3> QED
      BY <3>1
  <2> QED
    BY <2>1, <2>2
<1>2. \A s, q : Share(s) /\ Share(q) => Recalc(Recalc(<<l>>, s).lines, q) = Recalc(<<l>>, q)
  BY RecalcAgain
<1>3. SkuCap(l.sku) \in Nat
  <2>1. SkuCap(l.sku) \in 0 .. 100
    BY CapOfOne, Zenon
  <2> QED
    BY <2>1
<1>4. PICK s : Fits(s) /\ MaxDiscount(made) = Recalc(<<l>>, s)
  <2> DEFINE cap == DiscountCap(made.lines)
             m == [l EXCEPT !.unit = CutPrice(l, p)]
  <2>1. made.lines = <<m>> /\ made.pct = p
    BY <1>1
  <2>2. m \in LineItem /\ m.sku = l.sku
    BY RecalcOfOne DEF LineItem
  <2> HIDE DEF m
  <2>3. cap \in 0 .. 100 /\ cap <= SkuCap(l.sku)
    BY <2>1, <2>2, CapOfOne
  <2> HIDE DEF cap
  <2>4. Share(Percent(cap)) /\ PercentAtMost(Percent(cap), Percent(cap))
    BY <2>3, WholePercent
  <2>5. \A s : Share(s) /\ PercentAtMost(s, Percent(cap)) => PercentAtMost(s, Percent(SkuCap(l.sku)))
    <3> SUFFICES ASSUME NEW s, Share(s), PercentAtMost(s, Percent(cap))
                 PROVE  PercentAtMost(s, Percent(SkuCap(l.sku)))
      OBVIOUS
    <3>1. PercentAtMost(Percent(cap), Percent(SkuCap(l.sku)))
      BY <2>3, <1>3 DEF PercentAtMost, Percent
    <3> QED
      BY <2>4, <3>1, <1>3, AtMostAtMost
  <2>6. CASE PercentAtMost(p, Percent(cap))
    <3>1. MaxDiscount(made) = made
      BY <2>1, <2>6, Zenon DEF MaxDiscount, cap
    <3> QED
      BY <2>5, <2>6, <3>1
  <2>7. CASE ~PercentAtMost(p, Percent(cap))
    <3>1. MaxDiscount(made) = Recalc(made.lines, Percent(cap))
      BY <2>1, <2>7, Zenon DEF MaxDiscount, cap
    <3>2. Recalc(made.lines, Percent(cap)) = Recalc(<<l>>, Percent(cap))
      BY <1>2, <2>4
    <3> QED
      BY <2>4, <2>5, <3>1, <3>2
  <2> QED
    BY <2>6, <2>7
<1> DEFINE held == Recalc(<<l>>, s)
           cap == IF held.final = 0 THEN Percent(0)
                  ELSE [n |-> 100 * MaxAbsoluteDiscount, d |-> held.final]
<1>5. held.pct = s /\ held.final \in Nat
  BY <1>1, <1>4
<1>6. MaxAbsolute(held) = held \/ MaxAbsolute(held) = Recalc(held.lines, s)
        \/ (~PercentAtMost(s, cap) /\ MaxAbsolute(held) = Recalc(held.lines, cap))
  BY <1>5, Zenon DEF MaxAbsolute
<1>7. CASE MaxAbsolute(held) = held \/ MaxAbsolute(held) = Recalc(held.lines, s)
  BY <1>2, <1>4, <1>7
<1>8. CASE ~PercentAtMost(s, cap) /\ MaxAbsolute(held) = Recalc(held.lines, cap)
  <2>1. cap \in [n : Nat, d : Nat \ {0}]
    <3>1. 100 * MaxAbsoluteDiscount \in Nat
      BY OfferAssumption
    <3> QED
      BY <1>5, <3>1 DEF Percent
  <2> HIDE DEF cap
  <2>2. s.n \in Nat /\ s.d \in Nat \ {0} /\ s.n <= 100 * s.d /\ ~(s.n * cap.d <= cap.n * s.d)
    BY <1>4, <1>8 DEF Share, PercentAtMost
  <2>3. \A a, b, x, y \in Nat : b # 0 /\ y # 0 /\ a <= 100 * b /\ ~(a * y <= x * b) =>
          x * b <= a * y /\ x <= 100 * y
    <3> SUFFICES ASSUME NEW a \in Nat, NEW b \in Nat, NEW x \in Nat, NEW y \in Nat,
                        b # 0, y # 0, a <= 100 * b, ~(a * y <= x * b)
                 PROVE  x * b <= a * y /\ x <= 100 * y
      OBVIOUS
    <3>1. a * y \in Nat /\ x * b \in Nat /\ (100 * y) * b \in Nat
      OBVIOUS
    <3>2. x * b <= a * y
      BY <3>1
    <3>3. a * y <= (100 * b) * y /\ (100 * b) * y = (100 * y) * b
      OBVIOUS
    <3>4. x * b <= (100 * y) * b
      BY <3>1, <3>2, <3>3
    <3>5. x <= 100 * y
      <4> SUFFICES ASSUME x >= 100 * y + 1 PROVE FALSE
        OBVIOUS
      <4>1. x * b >= (100 * y + 1) * b
        OBVIOUS
      <4>2. (100 * y + 1) * b = (100 * y) * b + b
        OBVIOUS
      <4> QED
        BY <3>1, <3>4, <4>1, <4>2
    <3> QED
      BY <3>2, <3>5
  <2>4. cap.n * s.d <= s.n * cap.d /\ cap.n <= 100 * cap.d
    BY <2>1, <2>2, <2>3, Zenon
  <2>5. Share(cap) /\ PercentAtMost(cap, s)
    BY <2>1, <2>4 DEF Share, PercentAtMost
  <2>6. PercentAtMost(cap, Percent(SkuCap(l.sku)))
    BY <1>3, <1>4, <2>5, AtMostAtMost
  <2>7. Recalc(held.lines, cap) = Recalc(<<l>>, cap)
    BY <1>2, <1>4, <2>5
  <2> QED
    BY <1>4, <1>8, <2>5, <2>6, <2>7
<1> QED
  BY <1>6, <1>7, <1>8

(* A rounded discount and a rounded unit price part by no more than the     *)
(* units there are.                                                         *)
LEMMA RoundingsMeet ==
  ASSUME NEW u \in Nat, NEW v \in Nat, NEW w \in Nat \ {0}, NEW n \in Nat,
         NEW x \in Nat, NEW q \in Nat \ {0},
         2 * (w * u) - 2 * (x * (w - n)) <= w, 2 * (x * (w - n)) - 2 * (w * u) <= w,
         2 * (w * v) - 2 * ((x * q) * n) <= w, 2 * ((x * q) * n) - 2 * (w * v) <= w
  PROVE  Distance(v, x * q - u * q) <= q
<1> DEFINE a == 2 * (w * u) - 2 * (x * (w - n))
           b == 2 * (w * v) - 2 * ((x * q) * n)
           e == v - (x * q - u * q)
<1>1. a \in Int /\ b \in Int /\ e \in Int
  OBVIOUS
<1>2. a <= w /\ 0 - a <= w /\ b <= w /\ 0 - b <= w
  OBVIOUS
<1>3. 2 * (w * e) = b + q * a
  OBVIOUS
<1>4. Distance(v, x * q - u * q) = IF e >= 0 THEN e ELSE 0 - e
  BY DEF Distance
<1> HIDE DEF a, b, e
<1>5. q * a <= q * w /\ 0 - (q * a) <= q * w /\ q * a \in Int /\ q * w \in Int
  <2>1. \A i, j \in Int : i <= j => q * i <= q * j
    OBVIOUS
  <2>2. q * a <= q * w
    BY <1>1, <1>2, <2>1
  <2>3. q * (0 - a) <= q * w /\ q * (0 - a) = 0 - (q * a)
    BY <1>1, <1>2, <2>1
  <2> QED
    BY <1>1, <2>2, <2>3
<1>6. w <= q * w
  OBVIOUS
<1>7. w * e \in Int /\ w * e <= q * w /\ 0 - (w * e) <= q * w
  BY <1>1, <1>2, <1>3, <1>5, <1>6
<1>8. \A i \in Int : w * i <= q * w => i <= q
  <2> SUFFICES ASSUME NEW i \in Int, w * i <= q * w, i >= q + 1 PROVE FALSE
    OBVIOUS
  <2>1. w * i >= w * (q + 1) /\ w * (q + 1) = q * w + w /\ w * i \in Int /\ q * w \in Int
    OBVIOUS
  <2> QED
    BY <2>1
<1>9. e <= q /\ 0 - e <= q
  <2>1. w * (0 - e) = 0 - (w * e) /\ 0 - e \in Int
    BY <1>1
  <2> QED
    BY <1>1, <1>7, <1>8, <2>1
<1> QED
  BY <1>1, <1>4, <1>9

(* An offer that keeps every limit, for a product of some price.            *)
KeepsTheLimits(offer, price, available) ==
  LET l == offer.lines[1]
  IN /\ Len(offer.lines) = 1 /\ l.price = price
     /\ PercentAtMost(offer.pct, Percent(SkuCap(l.sku)))
     /\ l.cost > 0 => 100 * (l.unit - l.cost) >= MinMarginPct * l.unit
     /\ l.quantity <= available
     /\ offer.final = l.unit * l.quantity /\ offer.final > 0
     /\ Distance(offer.discount, ListTotal(offer.lines) - offer.final) <= l.quantity

(* What the clamps leave and no rule refuses is such an offer.              *)
LEMMA ApprovedOffer ==
  ASSUME NEW l \in LineItem, NEW p, Share(p), NEW text, NEW available \in Nat,
         NEW rounds,
         Aggregate(MaxAbsolute(MaxDiscount(Recalc(<<l>>, p))), text, available, rounds) = "APPROVED"
  PROVE  KeepsTheLimits(MaxAbsolute(MaxDiscount(Recalc(<<l>>, p))), l.price, available)
<1>1. PICK s : /\ Share(s) /\ PercentAtMost(s, Percent(SkuCap(l.sku)))
               /\ MaxAbsolute(MaxDiscount(Recalc(<<l>>, p))) = Recalc(<<l>>, s)
  BY Clamped
<1>2. PICK m : m = [l EXCEPT !.unit = CutPrice(l, s)]
  OBVIOUS
<1>3. PICK offer : offer = MaxAbsolute(MaxDiscount(Recalc(<<l>>, p)))
  OBVIOUS
<1>4. /\ m \in LineItem
      /\ offer = [lines |-> <<m>>, pct |-> s, discount |-> PercentOf(s, l.price * l.quantity),
                  final |-> CutPrice(l, s) * l.quantity]
  BY <1>1, <1>2, <1>3, RecalcOfOne, Zenon
<1>5. /\ m.unit = CutPrice(l, s) /\ m.quantity = l.quantity /\ m.price = l.price /\ m.sku = l.sku
      /\ m.unit \in Nat /\ m.quantity \in Nat \ {0} /\ m.cost \in Nat /\ m.price \in Nat
  BY <1>2, <1>4 DEF LineItem
<1>6. /\ Len(offer.lines) = 1 /\ offer.lines[1] = m /\ DOMAIN offer.lines = {1}
      /\ offer.pct = s /\ offer.discount = PercentOf(s, l.price * l.quantity)
      /\ offer.final = m.unit * m.quantity /\ offer.lines = <<m>>
  BY <1>4, <1>5
<1>7. ~Rejects(offer, text, available)
  BY <1>3, Zenon DEF Aggregate
<1>8. /\ MarginOk(m) /\ offer.final > 0 /\ Unit(m) > 0 /\ ~(m.quantity > available)
  BY <1>6, <1>7 DEF Rejects, PriceSane
<1>9. m.unit # 0
  <2>1. m.unit = 0 => m.unit * m.quantity = 0
    BY <1>5
  <2> QED
    BY <1>6, <1>8, <2>1
<1>10. m.cost > 0 => 100 * (m.unit - m.cost) >= MinMarginPct * m.unit
  BY <1>5, <1>8, <1>9 DEF MarginOk, Unit
<1>11. ListTotal(offer.lines) = m.price * m.quantity
  <2>1. [i \in DOMAIN offer.lines |-> offer.lines[i].price * offer.lines[i].quantity]
          = <<m.price * m.quantity>>
    <3>1. DOMAIN <<m.price * m.quantity>> = {1} /\ <<m.price * m.quantity>>[1] = m.price * m.quantity
      OBVIOUS
    <3> QED
      BY <1>6, <3>1
  <2>2. m.price * m.quantity \in Int
    BY <1>5
  <2> QED
    BY <2>1, <2>2, SumOfOne DEF ListTotal
<1>12. Distance(offer.discount, m.price * m.quantity - m.unit * m.quantity) <= m.quantity
  <2> DEFINE v == PercentOf(s, l.price * l.quantity)
             u == CutPrice(l, s)
             w == 100 * s.d
  <2>1. /\ u \in Nat /\ v \in Nat /\ w \in Nat \ {0} /\ s.n \in Nat
        /\ l.price \in Nat /\ l.quantity \in Nat \ {0}
        /\ 2 * (w * u) - 2 * (l.price * (w - s.n)) <= w /\ 2 * (l.price * (w - s.n)) - 2 * (w * u) <= w
        /\ 2 * (w * v) - 2 * ((l.price * l.quantity) * s.n) <= w
        /\ 2 * ((l.price * l.quantity) * s.n) - 2 * (w * v) <= w
    BY <1>1, CutPriceIsNat DEF Share, LineItem
  <2>2. offer.discount = v /\ m.unit = u /\ m.price = l.price /\ m.quantity = l.quantity
    BY <1>5, <1>6
  <2> HIDE DEF v, u, w
  <2>3. Distance(v, l.price * l.quantity - u * l.quantity) <= l.quantity
    BY <2>1, RoundingsMeet
  <2> QED
    BY <2>2, <2>3, Zenon
<1> QED
  BY <1>1, <1>3, <1>5, <1>6, <1>8, <1>10, <1>11, <1>12 DEF KeepsTheLimits

(* Refused or not, it has the form of an offer, at no more than all off.    *)
LEMMA WorkingTyped ==
  ASSUME NEW l \in LineItem, NEW p, Share(p)
  PROVE  LET working == MaxAbsolute(MaxDiscount(Recalc(<<l>>, p)))
         IN working \in ProposedOffer /\ PercentAtMost(working.pct, Percent(100))
<1>1. PICK s : Share(s) /\ MaxAbsolute(MaxDiscount(Recalc(<<l>>, p))) = Recalc(<<l>>, s)
  BY Clamped
<1> DEFINE line == [l EXCEPT !.unit = CutPrice(l, s)]
           off == PercentOf(s, l.price * l.quantity)
           final == CutPrice(l, s) * l.quantity
<1>2. /\ line \in LineItem
      /\ Recalc(<<l>>, s) = [lines |-> <<line>>, pct |-> s, discount |-> off, final |-> final]
  BY <1>1, RecalcOfOne
<1>3. off \in Nat /\ final \in Nat
  <2>1. off \in Nat /\ CutPrice(l, s) \in Nat /\ l.quantity \in Nat
    BY <1>1, CutPriceIsNat DEF LineItem
  <2> QED
    BY <2>1
<1> HIDE DEF line, off, final
<1>4. [lines |-> <<line>>, pct |-> s, discount |-> off, final |-> final] \in ProposedOffer
  <2>1. <<line>> \in Seq(LineItem) /\ s \in [n : Nat, d : Nat \ {0}]
    BY <1>1, <1>2 DEF Share
  <2> QED
    BY <1>3, <2>1 DEF ProposedOffer
<1>5. PercentAtMost(s, Percent(100))
  BY <1>1 DEF Share, PercentAtMost, Percent
<1> QED
  BY <1>1, <1>2, <1>4, <1>5

OfferInv == OffersTypeOK /\ ApprovedKeepsTheLimits

LEMMA NegotiateKeeps ==
  ASSUME OfferInv, NEW product \in OfferedProducts, NEW q \in OfferQuantities,
         NEW asks \in BOOLEAN, NEW available \in OnHand, NEW text,
         Negotiate(product, q, asks, available, text)
  PROVE  OfferInv'
<1>1. PICK l : l = [sku |-> product.sku, quantity |-> q, price |-> product.price,
                    cost |-> product.cost, unit |-> product.price]
  OBVIOUS
<1>2. PICK p : p = Percent(SuggestedPct(asks, round))
  OBVIOUS
<1>3. l \in LineItem /\ l.price = product.price
  BY <1>1, OfferAssumption DEF LineItem
<1>4. Share(p)
  <2>1. SuggestedPct(asks, round) \in 0 .. 100
    BY OfferAssumption DEF SuggestedPct, OfferInv, OffersTypeOK
  <2> QED
    BY <1>2, <2>1, WholePercent
<1>5. BuildOffer(product, q, Percent(SuggestedPct(asks, round))) = Recalc(<<l>>, p)
  BY <1>1, <1>2, Zenon DEF BuildOffer
<1>6. PICK working : working = MaxAbsolute(MaxDiscount(Recalc(<<l>>, p)))
  OBVIOUS
<1>7. PICK outcome : outcome = Aggregate(working, text, available, round)
  OBVIOUS
<1>8. /\ round' = round + 1
      /\ judged' = [outcome |-> outcome, available |-> available, product |-> product,
                    offer |-> IF outcome = "APPROVED" THEN working ELSE NoOffer]
  BY <1>5, <1>6, <1>7 DEF Negotiate
<1>9. available \in Nat
  BY OfferAssumption
<1>10. outcome = "APPROVED" => KeepsTheLimits(working, l.price, available)
  <2>1. outcome = "APPROVED" =>
          Aggregate(MaxAbsolute(MaxDiscount(Recalc(<<l>>, p))), text, available, round) = "APPROVED"
    BY <1>6, <1>7, Zenon
  <2> QED
    BY <1>3, <1>4, <1>6, <1>9, <2>1, ApprovedOffer, Zenon
<1>11. ApprovedKeepsTheLimits'
  <2> SUFFICES ASSUME Approved' PROVE ApprovedKeepsTheLimits'
    BY DEF ApprovedKeepsTheLimits
  <2>1. outcome = "APPROVED" /\ judged'.offer = working /\ judged'.available = available
        /\ judged'.product = product
    BY <1>8 DEF Approved
  <2> QED
    BY <1>3, <1>10, <2>1, Zenon DEF ApprovedKeepsTheLimits, KeepsTheLimits
<1>12. working \in ProposedOffer /\ PercentAtMost(working.pct, Percent(100))
  BY <1>3, <1>4, <1>6, WorkingTyped, Zenon
<1>13. judged' \in GuardrailDecision
  <2>1. outcome \in {"APPROVED", "REJECTED", "ESCALATED"}
    BY <1>7 DEF Aggregate
  <2>2. (IF outcome = "APPROVED" THEN working ELSE NoOffer) \in ProposedOffer \union {NoOffer}
    BY <1>12
  <2> QED
    BY <1>8, <2>1, <2>2 DEF GuardrailDecision
<1>14. OffersTypeOK'
  <2>1. round' \in 0..MaxMessages
    BY <1>8, OfferAssumption DEF Negotiate, OfferInv, OffersTypeOK
  <2>2. working # NoOffer
    BY <1>12, OfferAssumption
  <2>3. judged'.outcome = outcome /\ judged'.offer = IF outcome = "APPROVED" THEN working ELSE NoOffer
    BY <1>8
  <2> QED
    BY <1>12, <1>13, <2>1, <2>2, <2>3 DEF OffersTypeOK
<1> QED
  BY <1>11, <1>14 DEF OfferInv

LEMMA OfferInvariant == OffersSpec => []OfferInv
<1>1. OffersInit => OfferInv
  BY OfferAssumption DEF OffersInit, OfferInv, OffersTypeOK, ApprovedKeepsTheLimits, Approved
<1>2. OfferInv /\ [OffersNext]_offerVars => OfferInv'
  <2> SUFFICES ASSUME OfferInv, [OffersNext]_offerVars PROVE OfferInv'
    OBVIOUS
  <2>1. CASE UNCHANGED offerVars
    BY <2>1 DEF offerVars, OfferInv, OffersTypeOK, ApprovedKeepsTheLimits, Approved
  <2>2. CASE OffersNext
    BY <2>2, NegotiateKeeps DEF OffersNext
  <2> QED
    BY <2>1, <2>2
<1> QED
  BY <1>1, <1>2, PTL DEF OffersSpec

(* However the clamps moved an approved offer, it keeps the margin floor    *)
(* and the cap of its sku, is for units on hand, costs what its line costs  *)
(* and names the discount its price gives, to the paise a unit rounds.      *)
THEOREM ApprovedOffersKeepTheLimits == OffersSpec => []ApprovedKeepsTheLimits
<1>1. OfferInv => ApprovedKeepsTheLimits
  BY DEF OfferInv
<1> QED
  BY <1>1, OfferInvariant, PTL

(* A decision has the form of one, and carries an offer when it approves:   *)
(* one of lines at no more than their whole price off (GuardrailDecision).  *)
THEOREM OffersTypeCorrect == OffersSpec => []OffersTypeOK
<1>1. OfferInv => OffersTypeOK
  BY DEF OfferInv
<1> QED
  BY <1>1, OfferInvariant, PTL
=============================================================================
