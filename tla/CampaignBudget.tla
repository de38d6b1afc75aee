--------------------------- MODULE CampaignBudget ---------------------------
(***************************************************************************)
(* Campaign budgets: CampaignService.reserve, release and settle over a     *)
(* repository whose checks and writes are one statement, with an            *)
(* idempotency key in front of reserve and an append-only ledger behind     *)
(* every movement.                                                          *)
(*                                                                         *)
(* "Every await is a scheduling point" (repositories/campaigns.py): a       *)
(* request is preempted between reading a campaign and writing it, whether  *)
(* the repository is the SQL one or the one in memory.                      *)
(***************************************************************************)
EXTENDS Integers, Sequences, FiniteSetsExt

CONSTANTS
  Campaigns,    \* campaigns, each opened with a budget that never changes
  Orders,       \* orders a discount is reserved for, each under a key of its own
  Requests,     \* requests to reserve, release or settle (bounds the history)
  Budget,       \* Budget[c]: budget_paise of campaign c
  CampaignOf,   \* CampaignOf[o]: the campaign that funds order o
  Amount,       \* Amount[o]: the paise order o asks for
  None          \* no order

ASSUME BudgetAssumption == Budget \in [Campaigns -> Nat]
ASSUME OrderAssumption ==
  /\ CampaignOf \in [Orders -> Campaigns]
  /\ Amount \in [Orders -> Nat \ {0}]
  /\ None \notin Orders

VARIABLES
  reserved,     \* reserved[c]: reserved_paise
  spent,        \* spent[c]: spent_paise
  ledger,       \* ledger[c]: rows of budget_ledger, oldest first
  window,       \* window[c]: where the clock is between starts_at and ends_at
  key,          \* key[o]: state of the idempotency record of order o's reserve
  call,         \* call[r]: what request r does, and how far it has come
  expired       \* history: orders whose key outlived its 24 hours

counters == <<reserved, spent, ledger>>
vars == <<reserved, spent, ledger, window, key, call, expired>>

Kind == {"reserve", "release", "spend"}
CallRecord == [kind : Kind, order : Orders \union {None},
               at : {"idle", "claimed", "checked", "reserved", "done"}]
LedgerRow == [kind : Kind, order : Orders, amount : Nat, balance : Int]

Init ==
  /\ reserved = [c \in Campaigns |-> 0]
  /\ spent = [c \in Campaigns |-> 0]
  /\ ledger = [c \in Campaigns |-> <<>>]
  /\ window \in [Campaigns -> {"before", "open"}]
  /\ key = [o \in Orders |-> "free"]
  /\ call = [r \in Requests |-> [kind |-> "reserve", order |-> None, at |-> "idle"]]
  /\ expired = {}

-----------------------------------------------------------------------------
Remaining(c) == Budget[c] - reserved[c] - spent[c]

Fits(o) == Amount[o] <= Remaining(CampaignOf[o])

(* Request r is serving order o and has come this far.                      *)
Serving(r, kind, o, at) ==
  call[r].kind = kind /\ call[r].order = o /\ call[r].at = at

Advance(r, at) == call' = [call EXCEPT ![r].at = at]

(* Variant of LedgerBalance: read before the counters are written.          *)
LedgerBalanceBefore(c) == Remaining(c)

(* balance_after_paise, read back after the counters are written.           *)
LedgerBalance(c) == Remaining(c)'

AppendLedger(kind, o) ==
  LET c == CampaignOf[o]
  IN ledger' = [ledger EXCEPT ![c] = Append(@, [kind |-> kind, order |-> o,
                  amount |-> Amount[o], balance |-> LedgerBalance(c)])]

-----------------------------------------------------------------------------
(* Variant of ClaimKey: a claim in progress does not stop another.          *)
ClaimKeyTwice(r, o) ==
  /\ call[r].at = "idle" /\ key[o] # "completed"
  /\ key' = [key EXCEPT ![o] = "in_progress"]
  /\ call' = [call EXCEPT ![r] = [kind |-> "reserve", order |-> o, at |-> "claimed"]]
  /\ UNCHANGED <<counters, window, expired>>

(* reserve: the key is claimed first.  A key that is not free is answered   *)
(* with a replay or a conflict, and nothing moves.                          *)
ClaimKey(r, o) ==
  /\ call[r].at = "idle" /\ key[o] = "free"
  /\ key' = [key EXCEPT ![o] = "in_progress"]
  /\ call' = [call EXCEPT ![r] = [kind |-> "reserve", order |-> o, at |-> "claimed"]]
  /\ UNCHANGED <<counters, window, expired>>

(* The campaign as read is open and has room.                               *)
CheckReserve(r, o) ==
  /\ Serving(r, "reserve", o, "claimed")
  /\ window[CampaignOf[o]] = "open" /\ Fits(o)
  /\ Advance(r, "checked")
  /\ UNCHANGED <<counters, window, key, expired>>

(* Nothing moved: the key is freed, and an honest retry works.              *)
GiveBackKey(r, o) ==
  /\ key' = [key EXCEPT ![o] = IF @ = "in_progress" THEN "free" ELSE @]
  /\ Advance(r, "done")
  /\ UNCHANGED <<counters, window, expired>>

(* The campaign is not open, has no room, or the read raised.               *)
CheckRefuses(r, o) ==
  /\ Serving(r, "reserve", o, "claimed")
  /\ GiveBackKey(r, o)

(* The write, whose condition is evaluated under the row's lock.            *)
WriteReserve(r, o) ==
  LET c == CampaignOf[o]
  IN /\ Serving(r, "reserve", o, "checked")
     /\ reserved' = [reserved EXCEPT ![c] = @ + Amount[o]]
     /\ UNCHANGED spent
     /\ AppendLedger("reserve", o)
     /\ Advance(r, "reserved")
     /\ UNCHANGED <<window, key, expired>>

(* Variant of Reserve: the check made before the write is trusted.          *)
ReserveUnchecked(r, o) == WriteReserve(r, o)

Reserve(r, o) == WriteReserve(r, o) /\ Fits(o)

(* Variant of ReserveRefused: the refusal keeps the key.                    *)
ReserveRefusedKeepingKey(r, o) ==
  /\ Serving(r, "reserve", o, "checked") /\ ~Fits(o)
  /\ Advance(r, "done")
  /\ UNCHANGED <<counters, window, key, expired>>

(* Someone else took the room between the check and the write.              *)
ReserveRefused(r, o) ==
  /\ Serving(r, "reserve", o, "checked") /\ ~Fits(o)
  /\ GiveBackKey(r, o)

(* The write raised, and with it the transaction was rolled back.           *)
ReserveRaises(r, o) ==
  /\ Serving(r, "reserve", o, "checked")
  /\ GiveBackKey(r, o)

CompleteReserve(r, o) ==
  /\ Serving(r, "reserve", o, "reserved")
  /\ key' = [key EXCEPT ![o] = "completed"]
  /\ Advance(r, "done")
  /\ UNCHANGED <<counters, window, expired>>

(* A record older than a day is claimed as new; no request lives that long. *)
ExpireKey(o) ==
  /\ key[o] # "free"
  /\ \A r \in Requests : call[r].order = o => call[r].at \in {"idle", "done"}
  /\ key' = [key EXCEPT ![o] = "free"]
  /\ expired' = expired \union {o}
  /\ UNCHANGED <<counters, window, call>>

-----------------------------------------------------------------------------
(* release and settle: what is to be moved is still reserved, as read.      *)
CheckMove(r, kind, o) ==
  /\ call[r].at = "idle"
  /\ Amount[o] <= reserved[CampaignOf[o]]
  /\ call' = [call EXCEPT ![r] = [kind |-> kind, order |-> o, at |-> "checked"]]
  /\ UNCHANGED <<counters, window, key, expired>>

WriteMove(r, kind, o) ==
  LET c == CampaignOf[o]
  IN /\ Serving(r, kind, o, "checked")
     /\ reserved' = [reserved EXCEPT ![c] = @ - Amount[o]]
     /\ spent' = [spent EXCEPT ![c] = IF kind = "spend" THEN @ + Amount[o] ELSE @]
     /\ AppendLedger(kind, o)
     /\ Advance(r, "done")
     /\ UNCHANGED <<window, key, expired>>

Move(r, kind, o) == WriteMove(r, kind, o) /\ Amount[o] <= reserved[CampaignOf[o]]

MoveRefused(r, kind, o) ==
  /\ Serving(r, kind, o, "checked") /\ Amount[o] > reserved[CampaignOf[o]]
  /\ Advance(r, "done")
  /\ UNCHANGED <<counters, window, key, expired>>

(* Time passes over starts_at, and over ends_at.                            *)
Tick(c) ==
  /\ window[c] # "ended"
  /\ window' = [window EXCEPT ![c] = IF @ = "before" THEN "open" ELSE "ended"]
  /\ UNCHANGED <<counters, key, call, expired>>

-----------------------------------------------------------------------------
(* What a request does once it has started, without anybody else's help.    *)
Serve(r, o) ==
  \/ CheckReserve(r, o) \/ CheckRefuses(r, o)
  \/ Reserve(r, o) \/ ReserveRefused(r, o) \/ ReserveRaises(r, o)
  \/ CompleteReserve(r, o)
  \/ \E kind \in {"release", "spend"} : Move(r, kind, o) \/ MoveRefused(r, kind, o)

Next ==
  \/ \E r \in Requests, o \in Orders :
       \/ ClaimKey(r, o) \/ Serve(r, o)
       \/ \E kind \in {"release", "spend"} : CheckMove(r, kind, o)
  \/ \E o \in Orders : ExpireKey(o)
  \/ \E c \in Campaigns : Tick(c)

Spec == Init /\ [][Next]_vars

(* The event loop runs every handler that can run.                          *)
Fairness == \A r \in Requests, o \in Orders : WF_vars(Serve(r, o))

FairSpec == Spec /\ Fairness

-----------------------------------------------------------------------------
TypeOK ==
  /\ reserved \in [Campaigns -> Nat]
  /\ spent \in [Campaigns -> Nat]
  /\ ledger \in [Campaigns -> Seq(LedgerRow)]
  /\ window \in [Campaigns -> {"before", "open", "ended"}]
  /\ key \in [Orders -> {"free", "in_progress", "completed"}]
  /\ call \in [Requests -> CallRecord]
  /\ expired \in SUBSET Orders

(* The hard cap: what is promised and what is gone never exceed the budget, *)
(* however many requests saw the same last rupee.                           *)
WithinBudget == \A c \in Campaigns : reserved[c] + spent[c] <= Budget[c]

(* What is left of campaign c after the first i rows of its ledger.         *)
BalanceAfter(c, i) == IF i = 0 THEN Budget[c] ELSE ledger[c][i].balance

(* The ledger is enough to recompute what is left: each row follows from    *)
(* the one before it, and the last one is the counters.                     *)
LedgerExplainsCounters ==
  \A c \in Campaigns :
    /\ \A i \in 1 .. Len(ledger[c]) :
         BalanceAfter(c, i) = CASE ledger[c][i].kind = "reserve" ->
                                     BalanceAfter(c, i - 1) - ledger[c][i].amount
                                [] ledger[c][i].kind = "release" ->
                                     BalanceAfter(c, i - 1) + ledger[c][i].amount
                                [] OTHER -> BalanceAfter(c, i - 1)
    /\ BalanceAfter(c, Len(ledger[c])) = Remaining(c)

ReserveRows(o) ==
  {i \in 1 .. Len(ledger[CampaignOf[o]]) :
     ledger[CampaignOf[o]][i].kind = "reserve" /\ ledger[CampaignOf[o]][i].order = o}

(* A retry, concurrent or later, never reserves a second time while the key *)
(* lives.                                                                   *)
OneReservationPerKey ==
  \A o \in Orders \ expired : \A i, j \in ReserveRows(o) : i = j

(* A response that a key replays reports a reservation that was made.       *)
ReplayWasReserved ==
  \A o \in Orders : key[o] = "completed" => ReserveRows(o) # {}

(* Every way out of reserve completes the key or gives it back.             *)
KeysAreGivenBack ==
  \A o \in Orders : key[o] = "in_progress" ~> key[o] # "in_progress"
=============================================================================
