------------------------ MODULE CampaignBudgetProofs ------------------------
(***************************************************************************)
(* The cap, the ledger and the keys of campaign budgets hold for every set  *)
(* of campaigns, orders and requests.                                       *)
(***************************************************************************)
EXTENDS CampaignBudget, TLAPS

(* Request r holds the key of the order it reserves for.                    *)
Holds(r, o) ==
  call[r].kind = "reserve" /\ call[r].order = o
  /\ call[r].at \in {"claimed", "checked", "reserved"}

(* A key is held by one request at most; until that request has written,    *)
(* and as long as nobody holds the key, there is no reservation under it.   *)
KeyInv ==
  /\ \A r \in Requests :
       /\ call[r].at # "idle" => call[r].order \in Orders
       /\ call[r].at \in {"claimed", "reserved"} => call[r].kind = "reserve"
  /\ \A r \in Requests, o \in Orders : Holds(r, o) =>
       /\ key[o] = "in_progress"
       /\ call[r].at # "reserved" /\ o \notin expired => ReserveRows(o) = {}
       /\ call[r].at = "reserved" => ReserveRows(o) # {}
  /\ \A r, s \in Requests, o \in Orders : Holds(r, o) /\ Holds(s, o) => r = s
  /\ \A o \in Orders \ expired : key[o] = "free" => ReserveRows(o) = {}

IInv ==
  /\ TypeOK /\ WithinBudget /\ LedgerExplainsCounters
  /\ KeyInv /\ OneReservationPerKey /\ ReplayWasReserved

USE BudgetAssumption, OrderAssumption

(* A request's record keeps its type when the request moves on.             *)
LEMMA AdvanceTyped ==
  ASSUME TypeOK, NEW r \in Requests, NEW at \in {"claimed", "checked", "reserved", "done"},
         Advance(r, at)
  PROVE  call' \in [Requests -> CallRecord]
<1>1. call[r] \in CallRecord /\ call \in [Requests -> CallRecord]
  BY DEF TypeOK
<1>2. [call[r] EXCEPT !.at = at] \in CallRecord
  BY <1>1 DEF CallRecord
<1>3. QED
  BY <1>1, <1>2 DEF Advance

(* No counter has moved and no key is held.                                 *)
LEMMA InitIInv == Init => IInv
<1> SUFFICES ASSUME Init PROVE IInv
  OBVIOUS
<1>1. TypeOK
  BY DEF Init, TypeOK, CallRecord, Kind
<1>2. WithinBudget /\ LedgerExplainsCounters
  BY DEF Init, WithinBudget, LedgerExplainsCounters, BalanceAfter, Remaining
<1>3. \A o \in Orders : ReserveRows(o) = {}
  BY DEF Init, ReserveRows
<1>4. KeyInv /\ OneReservationPerKey /\ ReplayWasReserved
  BY <1>3 DEF Init, KeyInv, Holds, OneReservationPerKey, ReplayWasReserved
<1>5. QED
  BY <1>1, <1>2, <1>4 DEF IInv

(* While the ledger and the counters stand still, so does what follows      *)
(* from them.                                                               *)
LEMMA CountersUntouched ==
  ASSUME IInv, UNCHANGED counters
  PROVE  /\ WithinBudget' /\ LedgerExplainsCounters'
         /\ \A o \in Orders : ReserveRows(o)' = ReserveRows(o)
  BY DEF IInv, counters, WithinBudget, LedgerExplainsCounters, BalanceAfter, Remaining,
         ReserveRows

(* A new row is the last one, and a reservation of its order if it is one.  *)
LEMMA AppendedRow ==
  ASSUME TypeOK, NEW kind \in Kind, NEW o \in Orders, AppendLedger(kind, o),
         LedgerBalance(CampaignOf[o]) \in Int
  PROVE  LET c == CampaignOf[o]
             n == Len(ledger[c])
         IN /\ ledger' \in [Campaigns -> Seq(LedgerRow)]
            /\ \A d \in Campaigns \ {c} : ledger'[d] = ledger[d]
            /\ Len(ledger'[c]) = n + 1 /\ n \in Nat
            /\ \A i \in 1 .. n : ledger'[c][i] = ledger[c][i]
            /\ ledger'[c][n + 1] = [kind |-> kind, order |-> o, amount |-> Amount[o],
                                    balance |-> LedgerBalance(c)]
<1> DEFINE c == CampaignOf[o]
           row == [kind |-> kind, order |-> o, amount |-> Amount[o],
                   balance |-> LedgerBalance(c)]
<1>1. row \in LedgerRow
  BY DEF LedgerRow
<1>2. c \in Campaigns /\ ledger[c] \in Seq(LedgerRow)
  BY DEF TypeOK
<1>3. ledger' = [ledger EXCEPT ![c] = Append(ledger[c], row)]
  BY DEF AppendLedger
<1> HIDE DEF row
<1>4. /\ Len(Append(ledger[c], row)) = Len(ledger[c]) + 1 /\ Len(ledger[c]) \in Nat
      /\ \A i \in 1 .. Len(ledger[c]) : Append(ledger[c], row)[i] = ledger[c][i]
      /\ Append(ledger[c], row)[Len(ledger[c]) + 1] = row
      /\ Append(ledger[c], row) \in Seq(LedgerRow)
  BY <1>1, <1>2
<1>5. ledger'[c] = Append(ledger[c], row)
  BY <1>2, <1>3 DEF TypeOK
<1>6. ledger' \in [Campaigns -> Seq(LedgerRow)]
  BY <1>2, <1>3, <1>4 DEF TypeOK
<1>7. \A d \in Campaigns \ {c} : ledger'[d] = ledger[d]
  BY <1>3 DEF TypeOK
<1>8. QED
  BY <1>4, <1>5, <1>6, <1>7 DEF row

(* Only a reserve row adds to the reservations of its order.                *)
LEMMA AppendedReservation ==
  ASSUME TypeOK, NEW kind \in Kind, NEW o \in Orders, AppendLedger(kind, o),
         LedgerBalance(CampaignOf[o]) \in Int, NEW x \in Orders
  PROVE  ReserveRows(x)' = IF kind = "reserve" /\ x = o
                           THEN ReserveRows(x) \union {Len(ledger[CampaignOf[o]]) + 1}
                           ELSE ReserveRows(x)
<1> DEFINE c == CampaignOf[o]
           n == Len(ledger[c])
<1>1. /\ \A d \in Campaigns \ {c} : ledger'[d] = ledger[d]
      /\ Len(ledger'[c]) = n + 1 /\ n \in Nat
      /\ \A i \in 1 .. n : ledger'[c][i] = ledger[c][i]
      /\ ledger'[c][n + 1].kind = kind /\ ledger'[c][n + 1].order = o
  <2> DEFINE row == [kind |-> kind, order |-> o, amount |-> Amount[o],
                     balance |-> LedgerBalance(c)]
  <2>1. row.kind = kind /\ row.order = o
    OBVIOUS
  <2> HIDE DEF row
  <2>2. ledger'[c][n + 1] = row
    BY AppendedRow DEF row
  <2>3. QED
    BY <2>1, <2>2, AppendedRow
<1>2. CASE CampaignOf[x] # c
  BY <1>1, <1>2 DEF ReserveRows
<1>3. CASE CampaignOf[x] = c
  <2> DEFINE Is(row) == row.kind = "reserve" /\ row.order = x
  <2>1. 1 .. (n + 1) = (1 .. n) \union {n + 1}
    BY <1>1
  <2>2. ReserveRows(x) = {i \in 1 .. n : Is(ledger[c][i])}
    BY <1>3 DEF ReserveRows
  <2>3. ReserveRows(x)' = {i \in 1 .. (n + 1) : Is(ledger'[c][i])}
    BY <1>1, <1>3 DEF ReserveRows
  <2>4. Is(ledger'[c][n + 1]) <=> kind = "reserve" /\ x = o
    BY <1>1
  <2>5. \A i \in 1 .. n : Is(ledger'[c][i]) <=> Is(ledger[c][i])
    BY <1>1
  <2> HIDE DEF Is
  <2>6. QED
    BY <2>1, <2>2, <2>3, <2>4, <2>5
<1>4. QED
  BY <1>2, <1>3

(* What a row makes of the balance before it.                               *)
Follows(row, before) ==
  row.balance = CASE row.kind = "reserve" -> before - row.amount
                  [] row.kind = "release" -> before + row.amount
                  [] OTHER -> before

(* Rows that start from the budget and end at what remains.                 *)
Explains(rows, c, remaining) ==
  LET After(i) == IF i = 0 THEN Budget[c] ELSE rows[i].balance
  IN /\ \A i \in 1 .. Len(rows) : Follows(rows[i], After(i - 1))
     /\ After(Len(rows)) = remaining

(* The ledger property, said of one campaign's rows at a time.              *)
LEMMA Explained ==
  LedgerExplainsCounters <=>
    \A c \in Campaigns : Explains(ledger[c], c, Remaining(c))
  BY DEF LedgerExplainsCounters, Explains, Follows, BalanceAfter

(* The new row follows from the one before it, and is the counters.         *)
LEMMA LedgerFollows ==
  ASSUME TypeOK, LedgerExplainsCounters,
         NEW kind \in Kind, NEW o \in Orders, AppendLedger(kind, o),
         LedgerBalance(CampaignOf[o]) \in Int,
         \A d \in Campaigns \ {CampaignOf[o]} : Remaining(d)' = Remaining(d),
         LedgerBalance(CampaignOf[o]) =
           CASE kind = "reserve" -> Remaining(CampaignOf[o]) - Amount[o]
             [] kind = "release" -> Remaining(CampaignOf[o]) + Amount[o]
             [] OTHER -> Remaining(CampaignOf[o])
  PROVE  LedgerExplainsCounters'
<1> DEFINE c == CampaignOf[o]
           n == Len(ledger[c])
           row == [kind |-> kind, order |-> o, amount |-> Amount[o],
                   balance |-> LedgerBalance(c)]
           Before(i) == IF i = 0 THEN Budget[c] ELSE ledger[c][i].balance
           After(i) == IF i = 0 THEN Budget[c] ELSE ledger'[c][i].balance
<1>1. /\ \A d \in Campaigns \ {c} : ledger'[d] = ledger[d]
      /\ Len(ledger'[c]) = n + 1 /\ n \in Nat
      /\ \A i \in 1 .. n : ledger'[c][i] = ledger[c][i]
      /\ ledger'[c][n + 1] = row
  BY AppendedRow
<1>2. row.balance = Remaining(c)' /\ Follows(row, Remaining(c))
  BY DEF Follows, LedgerBalance
<1> HIDE DEF row
<1>3. \A d \in Campaigns : Explains(ledger[d], d, Remaining(d))
  BY Explained
<1>4. \A i \in 0 .. n : After(i) = Before(i)
  <2>1. TAKE i \in 0 .. n
  <2>2. i = 0 \/ i \in 1 .. n
    BY <1>1
  <2>3. QED
    BY <1>1, <2>2
<1>5. /\ \A i \in 1 .. n : Follows(ledger[c][i], Before(i - 1))
      /\ Before(n) = Remaining(c)
  BY <1>3 DEF Explains
<1>6. \A i \in 1 .. n + 1 : Follows(ledger'[c][i], After(i - 1))
  <2>1. TAKE i \in 1 .. n + 1
  <2>2. CASE i = n + 1
    <3>1. i - 1 = n /\ n \in 0 .. n
      BY <1>1, <2>2
    <3>2. After(n) = Remaining(c) /\ ledger'[c][i] = row
      BY <1>1, <1>4, <1>5, <2>2, <3>1
    <3>3. QED
      BY <3>1, <3>2, <1>2
  <2>3. CASE i # n + 1
    <3>1. i \in 1 .. n /\ i - 1 \in 0 .. n
      BY <1>1, <2>3
    <3>2. ledger'[c][i] = ledger[c][i] /\ After(i - 1) = Before(i - 1)
      BY <1>1, <1>4, <3>1
    <3>3. QED
      BY <1>5, <3>1, <3>2
  <2>4. QED
    BY <2>2, <2>3
<1>7. After(n + 1) = Remaining(c)'
  BY <1>1, <1>2
<1>8. Explains(ledger'[c], c, Remaining(c)')
  BY <1>1, <1>6, <1>7 DEF Explains
<1>9. \A d \in Campaigns : Explains(ledger'[d], d, Remaining(d)')
  BY <1>1, <1>3, <1>8
<1>10. QED
  BY <1>9 DEF LedgerExplainsCounters, Explains, Follows, BalanceAfter

-----------------------------------------------------------------------------
(* Steps that move no money: what they do to calls, keys and expiry.        *)
LEMMA ClaimKeyStep ==
  ASSUME IInv, NEW r \in Requests, NEW o \in Orders, ClaimKey(r, o)
  PROVE  IInv'
<1> USE DEF IInv, ClaimKey
<1>1. /\ WithinBudget' /\ LedgerExplainsCounters'
      /\ \A x \in Orders : ReserveRows(x)' = ReserveRows(x)
  BY CountersUntouched
<1>2. TypeOK'
  <2>1. call' \in [Requests -> CallRecord]
    BY DEF TypeOK, CallRecord, Kind
  <2>2. QED
    BY <2>1 DEF TypeOK, counters
<1>3. /\ call'[r].kind = "reserve" /\ call'[r].order = o /\ call'[r].at = "claimed"
      /\ \A s \in Requests \ {r} : call'[s] = call[s]
      /\ \A x \in Orders \ {o} : key'[x] = key[x]
      /\ key'[o] = "in_progress" /\ key[o] = "free" /\ expired' = expired
  BY DEF TypeOK
<1>4. \A s \in Requests : ~Holds(s, o)
  BY DEF KeyInv
<1>5. /\ Holds(r, o)' /\ \A x \in Orders \ {o} : ~Holds(r, x)'
      /\ \A s \in Requests \ {r}, x \in Orders : Holds(s, x)' <=> Holds(s, x)
  BY <1>3 DEF Holds
<1>6. KeyInv'
  BY <1>1, <1>3, <1>4, <1>5 DEF KeyInv
<1>7. OneReservationPerKey' /\ ReplayWasReserved'
  BY <1>1, <1>3 DEF OneReservationPerKey, ReplayWasReserved
<1>8. QED
  BY <1>1, <1>2, <1>6, <1>7

(* The check changes nothing but how far the request has come.              *)
LEMMA CheckReserveStep ==
  ASSUME IInv, NEW r \in Requests, NEW o \in Orders, CheckReserve(r, o)
  PROVE  IInv'
<1> USE DEF IInv, CheckReserve, Advance, Serving
<1>1. /\ WithinBudget' /\ LedgerExplainsCounters'
      /\ \A x \in Orders : ReserveRows(x)' = ReserveRows(x)
  BY CountersUntouched
<1>2. TypeOK'
  <2>1. call' \in [Requests -> CallRecord]
    BY AdvanceTyped
  <2>2. QED
    BY <2>1 DEF TypeOK, counters
<1>3. /\ call'[r].kind = "reserve" /\ call'[r].order = o /\ call'[r].at = "checked"
      /\ call[r].kind = "reserve" /\ call[r].order = o /\ call[r].at = "claimed"
      /\ \A s \in Requests \ {r} : call'[s] = call[s]
      /\ key' = key /\ expired' = expired
  BY DEF TypeOK, CallRecord
<1>4. /\ \A s \in Requests, x \in Orders : Holds(s, x)' <=> Holds(s, x)
      /\ \A s \in Requests, x \in Orders :
           Holds(s, x) => (call'[s].at = "reserved" <=> call[s].at = "reserved")
  BY <1>3 DEF Holds
<1>5. KeyInv'
  <2>1. \A s \in Requests :
          /\ call'[s].at # "idle" => call'[s].order \in Orders
          /\ call'[s].at \in {"claimed", "reserved"} => call'[s].kind = "reserve"
    BY <1>3 DEF KeyInv
  <2>2. QED
    BY <1>1, <1>3, <1>4, <2>1 DEF KeyInv
<1>6. OneReservationPerKey' /\ ReplayWasReserved'
  BY <1>1, <1>3 DEF OneReservationPerKey, ReplayWasReserved
<1>7. QED
  BY <1>1, <1>2, <1>5, <1>6

(* The key that is given back has no reservation under it.                  *)
LEMMA GiveBackKeyStep ==
  ASSUME IInv, NEW r \in Requests, NEW o \in Orders, GiveBackKey(r, o),
         Holds(r, o), call[r].at # "reserved"
  PROVE  IInv'
<1> USE DEF IInv, GiveBackKey, Advance
<1>1. /\ WithinBudget' /\ LedgerExplainsCounters'
      /\ \A x \in Orders : ReserveRows(x)' = ReserveRows(x)
  BY CountersUntouched
<1>2. TypeOK'
  <2>1. call' \in [Requests -> CallRecord]
    BY AdvanceTyped
  <2>2. QED
    BY <2>1 DEF TypeOK, counters
<1>3. /\ call'[r].order = call[r].order /\ call'[r].at = "done" /\ call[r].at # "idle"
      /\ \A s \in Requests \ {r} : call'[s] = call[s]
      /\ \A x \in Orders \ {o} : key'[x] = key[x]
      /\ key'[o] = "free" /\ expired' = expired
  BY DEF TypeOK, CallRecord, KeyInv, Holds
<1>4. /\ o \notin expired => ReserveRows(o) = {}
      /\ \A s \in Requests \ {r} : ~Holds(s, o)
  BY DEF KeyInv
<1>5. /\ \A x \in Orders : ~Holds(r, x)'
      /\ \A s \in Requests \ {r}, x \in Orders : Holds(s, x)' <=> Holds(s, x)
  BY <1>3 DEF Holds
<1>6. KeyInv'
  BY <1>1, <1>3, <1>4, <1>5 DEF KeyInv
<1>7. OneReservationPerKey' /\ ReplayWasReserved'
  BY <1>1, <1>3 DEF OneReservationPerKey, ReplayWasReserved
<1>8. QED
  BY <1>1, <1>2, <1>6, <1>7

(* The response is stored only once the reservation is written.             *)
LEMMA CompleteReserveStep ==
  ASSUME IInv, NEW r \in Requests, NEW o \in Orders, CompleteReserve(r, o)
  PROVE  IInv'
<1> USE DEF IInv, CompleteReserve, Advance, Serving
<1>1. /\ WithinBudget' /\ LedgerExplainsCounters'
      /\ \A x \in Orders : ReserveRows(x)' = ReserveRows(x)
  BY CountersUntouched
<1>2. TypeOK'
  <2>1. call' \in [Requests -> CallRecord]
    BY AdvanceTyped
  <2>2. QED
    BY <2>1 DEF TypeOK, counters
<1>3. /\ call'[r].order = o /\ call'[r].at = "done" /\ Holds(r, o) /\ call[r].at = "reserved"
      /\ \A s \in Requests \ {r} : call'[s] = call[s]
      /\ \A x \in Orders \ {o} : key'[x] = key[x]
      /\ key'[o] = "completed" /\ expired' = expired
  BY DEF TypeOK, CallRecord, Holds
<1>4. ReserveRows(o) # {} /\ \A s \in Requests \ {r} : ~Holds(s, o)
  BY <1>3 DEF KeyInv
<1>5. /\ \A x \in Orders : ~Holds(r, x)'
      /\ \A s \in Requests \ {r}, x \in Orders : Holds(s, x)' <=> Holds(s, x)
  BY <1>3 DEF Holds
<1>6. KeyInv'
  BY <1>1, <1>3, <1>4, <1>5 DEF KeyInv
<1>7. OneReservationPerKey' /\ ReplayWasReserved'
  BY <1>1, <1>3, <1>4 DEF OneReservationPerKey, ReplayWasReserved
<1>8. QED
  BY <1>1, <1>2, <1>6, <1>7

(* A key that runs out is held by nobody.                                   *)
LEMMA ExpireKeyStep ==
  ASSUME IInv, NEW o \in Orders, ExpireKey(o)
  PROVE  IInv'
<1> USE DEF IInv, ExpireKey
<1>1. /\ WithinBudget' /\ LedgerExplainsCounters'
      /\ \A x \in Orders : ReserveRows(x)' = ReserveRows(x)
  BY CountersUntouched
<1>2. TypeOK'
  BY DEF TypeOK, counters
<1>3. /\ \A r \in Requests : ~Holds(r, o)
      /\ \A r \in Requests, x \in Orders : Holds(r, x)' <=> Holds(r, x)
      /\ \A x \in Orders \ {o} : key'[x] = key[x]
      /\ key'[o] = "free" /\ o \in expired'
  BY DEF TypeOK, Holds
<1>4. KeyInv'
  BY <1>1, <1>3 DEF KeyInv
<1>5. OneReservationPerKey' /\ ReplayWasReserved'
  BY <1>1, <1>3 DEF OneReservationPerKey, ReplayWasReserved
<1>6. QED
  BY <1>1, <1>2, <1>4, <1>5

(* A release or a settlement holds no key, before or after it is refused.   *)
LEMMA CheckMoveStep ==
  ASSUME IInv, NEW r \in Requests, NEW o \in Orders, NEW kind \in {"release", "spend"},
         CheckMove(r, kind, o) \/ MoveRefused(r, kind, o)
  PROVE  IInv'
<1> USE DEF IInv, CheckMove, MoveRefused, Advance, Serving
<1>1. /\ WithinBudget' /\ LedgerExplainsCounters'
      /\ \A x \in Orders : ReserveRows(x)' = ReserveRows(x)
  BY CountersUntouched
<1>2. TypeOK'
  <2>1. call' \in [Requests -> CallRecord]
    <3>1. CASE CheckMove(r, kind, o)
      BY <3>1 DEF TypeOK, CallRecord, Kind
    <3>2. CASE MoveRefused(r, kind, o)
      BY <3>2, AdvanceTyped
    <3>3. QED
      BY <3>1, <3>2
  <2>2. QED
    BY <2>1 DEF TypeOK, counters
<1>3. /\ call'[r].order = o /\ call'[r].kind = kind /\ call'[r].at \in {"checked", "done"}
      /\ call[r].at = "idle" \/ call[r].kind = kind
      /\ \A s \in Requests \ {r} : call'[s] = call[s]
      /\ key' = key /\ expired' = expired
  BY DEF TypeOK, CallRecord
<1>4. /\ \A s \in Requests, x \in Orders : Holds(s, x)' <=> Holds(s, x)
      /\ \A s \in Requests, x \in Orders :
           Holds(s, x) => (call'[s].at = "reserved" <=> call[s].at = "reserved")
  BY <1>3 DEF Holds
<1>5. KeyInv'
  <2>1. \A s \in Requests :
          /\ call'[s].at # "idle" => call'[s].order \in Orders
          /\ call'[s].at \in {"claimed", "reserved"} => call'[s].kind = "reserve"
    BY <1>3 DEF KeyInv
  <2>2. QED
    BY <1>1, <1>3, <1>4, <2>1 DEF KeyInv
<1>6. OneReservationPerKey' /\ ReplayWasReserved'
  BY <1>1, <1>3 DEF OneReservationPerKey, ReplayWasReserved
<1>7. QED
  BY <1>1, <1>2, <1>5, <1>6

(* Time alone changes no counter and no key.                                *)
LEMMA TickStep ==
  ASSUME IInv, \/ \E c \in Campaigns : Tick(c)
               \/ UNCHANGED vars
  PROVE  IInv'
<1> USE DEF IInv
<1>1. UNCHANGED <<counters, key, call, expired>>
  BY DEF Tick, vars, counters
<1>2. /\ WithinBudget' /\ LedgerExplainsCounters'
      /\ \A x \in Orders : ReserveRows(x)' = ReserveRows(x)
  BY <1>1, CountersUntouched
<1>3. TypeOK'
  BY <1>1 DEF TypeOK, counters, Tick, vars
<1>4. \A s \in Requests, x \in Orders : Holds(s, x)' <=> Holds(s, x)
  BY <1>1 DEF Holds
<1>5. KeyInv'
  BY <1>1, <1>2, <1>4 DEF KeyInv
<1>6. OneReservationPerKey' /\ ReplayWasReserved'
  BY <1>1, <1>2 DEF OneReservationPerKey, ReplayWasReserved
<1>7. QED
  BY <1>2, <1>3, <1>5, <1>6

-----------------------------------------------------------------------------
(* The write is the check: it fits when it is made, whatever was read.      *)
LEMMA ReserveStep ==
  ASSUME IInv, NEW r \in Requests, NEW o \in Orders, Reserve(r, o)
  PROVE  IInv'
<1> DEFINE c == CampaignOf[o]
<1> USE DEF IInv, Reserve, WriteReserve, Serving
<1>1. /\ c \in Campaigns /\ Amount[o] \in Nat /\ Amount[o] <= Remaining(c)
      /\ reserved' = [reserved EXCEPT ![c] = @ + Amount[o]] /\ spent' = spent
      /\ \A d \in Campaigns \ {c} : Remaining(d)' = Remaining(d)
      /\ LedgerBalance(c) = Remaining(c) - Amount[o] /\ LedgerBalance(c) \in Int
  BY DEF TypeOK, Fits, Remaining, LedgerBalance
<1>2. "reserve" \in Kind /\ AppendLedger("reserve", o)
  BY DEF Kind
<1>3. /\ ReserveRows(o)' = ReserveRows(o) \union {Len(ledger[c]) + 1}
      /\ \A x \in Orders \ {o} : ReserveRows(x)' = ReserveRows(x)
  BY <1>1, <1>2, AppendedReservation
<1>4. LedgerExplainsCounters'
  BY <1>1, <1>2, LedgerFollows
<1>5. WithinBudget'
  BY <1>1 DEF WithinBudget, TypeOK, Remaining
<1>6. TypeOK'
  <2>1. ledger' \in [Campaigns -> Seq(LedgerRow)]
    BY <1>1, <1>2, AppendedRow
  <2>2. call' \in [Requests -> CallRecord]
    BY AdvanceTyped
  <2>3. reserved' \in [Campaigns -> Nat]
    BY <1>1 DEF TypeOK
  <2>4. QED
    BY <1>1, <2>1, <2>2, <2>3 DEF TypeOK
<1>7. /\ call'[r].order = o /\ call'[r].kind = "reserve" /\ call'[r].at = "reserved"
      /\ Holds(r, o) /\ call[r].at = "checked"
      /\ \A s \in Requests \ {r} : call'[s] = call[s]
      /\ key' = key /\ expired' = expired
  BY DEF TypeOK, CallRecord, Advance, Holds
<1>8. /\ o \notin expired => ReserveRows(o) = {}
      /\ \A s \in Requests \ {r} : ~Holds(s, o)
      /\ key[o] = "in_progress"
  BY <1>7 DEF KeyInv
<1>9. \A s \in Requests, x \in Orders : Holds(s, x)' <=> Holds(s, x)
  BY <1>7 DEF Holds
<1>10. /\ ReserveRows(o)' # {}
       /\ o \notin expired => \A i, j \in ReserveRows(o)' : i = j
  BY <1>3, <1>8
<1>11. KeyInv'
  <2>1. \A s \in Requests :
          /\ call'[s].at # "idle" => call'[s].order \in Orders
          /\ call'[s].at \in {"claimed", "reserved"} => call'[s].kind = "reserve"
    BY <1>7 DEF KeyInv
  <2>2. \A s \in Requests \ {r}, x \in Orders : Holds(s, x) => x # o
    BY <1>8
  <2>3. \A x \in Orders : Holds(r, x) => x = o
    BY <1>7 DEF Holds
  <2>4. \A s \in Requests, x \in Orders : Holds(s, x)' =>
          /\ key'[x] = "in_progress"
          /\ call'[s].at # "reserved" /\ x \notin expired' => ReserveRows(x)' = {}
          /\ call'[s].at = "reserved" => ReserveRows(x)' # {}
    <3>1. TAKE s \in Requests, x \in Orders
    <3>2. CASE s = r
      BY <1>7, <1>8, <1>9, <1>10, <2>3, <3>2
    <3>3. CASE s # r
      <4>1. HAVE Holds(s, x)'
      <4>2. /\ Holds(s, x) /\ x # o /\ call'[s] = call[s]
            /\ ReserveRows(x)' = ReserveRows(x)
        BY <1>3, <1>7, <1>9, <2>2, <3>3, <4>1
      <4>3. QED
        BY <1>7, <4>2 DEF KeyInv
    <3>4. QED
      BY <3>2, <3>3
  <2>5. \A x \in Orders \ expired : key[x] = "free" => ReserveRows(x)' = {}
    BY <1>3, <1>8 DEF KeyInv
  <2>6. QED
    BY <1>7, <1>9, <2>1, <2>4, <2>5 DEF KeyInv
<1>12. OneReservationPerKey' /\ ReplayWasReserved'
  <2>1. \A x \in Orders \ expired : \A i, j \in ReserveRows(x)' : i = j
    <3>1. TAKE x \in Orders \ expired
    <3>2. \A i, j \in ReserveRows(x) : i = j
      BY DEF OneReservationPerKey
    <3>3. x # o => ReserveRows(x)' = ReserveRows(x)
      BY <1>3
    <3>4. QED
      BY <1>10, <3>2, <3>3
  <2>2. \A x \in Orders : key[x] = "completed" => ReserveRows(x)' # {}
    BY <1>3, <1>10 DEF ReplayWasReserved
  <2>3. QED
    BY <1>7, <2>1, <2>2 DEF OneReservationPerKey, ReplayWasReserved
<1>13. QED
  BY <1>4, <1>5, <1>6, <1>11, <1>12

(* What is moved was reserved when it is moved.                             *)
LEMMA MoveStep ==
  ASSUME IInv, NEW r \in Requests, NEW o \in Orders, NEW kind \in {"release", "spend"},
         Move(r, kind, o)
  PROVE  IInv'
<1> DEFINE c == CampaignOf[o]
<1> USE DEF IInv, Move, WriteMove, Serving
<1>1. /\ c \in Campaigns /\ Amount[o] \in Nat /\ Amount[o] <= reserved[c]
      /\ reserved' = [reserved EXCEPT ![c] = @ - Amount[o]]
      /\ spent' = [spent EXCEPT ![c] = IF kind = "spend" THEN @ + Amount[o] ELSE @]
  BY DEF TypeOK
<1>2. /\ \A d \in Campaigns \ {c} : Remaining(d)' = Remaining(d)
      /\ LedgerBalance(c) = IF kind = "release" THEN Remaining(c) + Amount[o] ELSE Remaining(c)
      /\ LedgerBalance(c) \in Int
  BY <1>1 DEF TypeOK, Remaining, LedgerBalance
<1>3. kind \in Kind /\ AppendLedger(kind, o) /\ kind # "reserve"
  BY DEF Kind
<1>4. \A x \in Orders : ReserveRows(x)' = ReserveRows(x)
  BY <1>2, <1>3, AppendedReservation
<1>5. LedgerExplainsCounters'
  BY <1>2, <1>3, LedgerFollows
<1>6. WithinBudget'
  BY <1>1 DEF WithinBudget, TypeOK
<1>7. TypeOK'
  <2>1. ledger' \in [Campaigns -> Seq(LedgerRow)]
    BY <1>2, <1>3, AppendedRow
  <2>2. call' \in [Requests -> CallRecord]
    BY AdvanceTyped
  <2>3. reserved' \in [Campaigns -> Nat] /\ spent' \in [Campaigns -> Nat]
    BY <1>1 DEF TypeOK
  <2>4. QED
    BY <2>1, <2>2, <2>3 DEF TypeOK
<1>8. /\ call'[r].order = o /\ call'[r].kind = kind /\ call'[r].at = "done"
      /\ call[r].kind = kind
      /\ \A s \in Requests \ {r} : call'[s] = call[s]
      /\ key' = key /\ expired' = expired
  BY DEF TypeOK, CallRecord, Advance
<1>9. /\ \A s \in Requests, x \in Orders : Holds(s, x)' <=> Holds(s, x)
      /\ \A s \in Requests, x \in Orders :
           Holds(s, x) => (call'[s].at = "reserved" <=> call[s].at = "reserved")
  BY <1>3, <1>8 DEF Holds
<1>10. KeyInv'
  <2>1. \A s \in Requests :
          /\ call'[s].at # "idle" => call'[s].order \in Orders
          /\ call'[s].at \in {"claimed", "reserved"} => call'[s].kind = "reserve"
    BY <1>8 DEF KeyInv
  <2>2. QED
    BY <1>4, <1>8, <1>9, <2>1 DEF KeyInv
<1>11. OneReservationPerKey' /\ ReplayWasReserved'
  BY <1>4, <1>8 DEF OneReservationPerKey, ReplayWasReserved
<1>12. QED
  BY <1>5, <1>6, <1>7, <1>10, <1>11

-----------------------------------------------------------------------------
(* No step leaves the invariant.                                            *)
LEMMA NextIInv == IInv /\ [Next]_vars => IInv'
<1> SUFFICES ASSUME IInv, [Next]_vars PROVE IInv'
  OBVIOUS
<1>1. ASSUME NEW r \in Requests, NEW o \in Orders, Serve(r, o)
      PROVE  IInv'
  <2>1. CASE CheckRefuses(r, o) \/ ReserveRefused(r, o) \/ ReserveRaises(r, o)
    BY <2>1, GiveBackKeyStep DEF CheckRefuses, ReserveRefused, ReserveRaises, Serving, Holds
  <2>2. CASE CheckReserve(r, o) \/ Reserve(r, o) \/ CompleteReserve(r, o)
    BY <2>2, CheckReserveStep, ReserveStep, CompleteReserveStep
  <2>3. CASE \E kind \in {"release", "spend"} : Move(r, kind, o) \/ MoveRefused(r, kind, o)
    BY <2>3, MoveStep, CheckMoveStep
  <2>4. QED
    BY <1>1, <2>1, <2>2, <2>3 DEF Serve
<1>2. QED
  BY <1>1, ClaimKeyStep, CheckMoveStep, ExpireKeyStep, TickStep DEF Next

(* The invariant holds throughout every behaviour.                          *)
LEMMA Invariant == Spec => []IInv
<1>1. QED
  BY InitIInv, NextIInv, PTL DEF Spec

(* Every variable of campaign budgets keeps its type: no counter is ever    *)
(* negative.                                                                *)
THEOREM TypeCorrect == Spec => []TypeOK
<1>1. IInv => TypeOK
  BY DEF IInv
<1>2. QED
  BY <1>1, Invariant, PTL

(* Whatever is interleaved with whatever, no campaign promises and spends   *)
(* more than its budget.                                                    *)
THEOREM HardCap == Spec => []WithinBudget
<1>1. IInv => WithinBudget
  BY DEF IInv
<1>2. QED
  BY <1>1, Invariant, PTL

(* The ledger recomputes the counters, row by row.                          *)
THEOREM LedgerIsComplete == Spec => []LedgerExplainsCounters
<1>1. IInv => LedgerExplainsCounters
  BY DEF IInv
<1>2. QED
  BY <1>1, Invariant, PTL

(* A key reserves once while it lives.                                      *)
THEOREM KeyReservesOnce == Spec => []OneReservationPerKey
<1>1. IInv => OneReservationPerKey
  BY DEF IInv
<1>2. QED
  BY <1>1, Invariant, PTL

(* A replay reports a reservation that was made.                            *)
THEOREM ReplaysAreReservations == Spec => []ReplayWasReserved
<1>1. IInv => ReplayWasReserved
  BY DEF IInv
<1>2. QED
  BY <1>1, Invariant, PTL
=============================================================================
