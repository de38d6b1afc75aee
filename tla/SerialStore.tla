----------------------------- MODULE SerialStore -----------------------------
(***************************************************************************)
(* What the SQL layer promises, however the statements of its transactions  *)
(* interleave: requests take effect one after another and each at once, a   *)
(* request changes rows of one tenant, each as the change before left it,   *)
(* and no change breaks a row.                                              *)
(***************************************************************************)
EXTENDS Integers, Sequences

CONSTANTS
  Tenants,
  NoRow         \* no such row

VARIABLES
  rows,         \* rows[id]: the row of that id, or NoRow
  log           \* every change, in the order they took effect

vars == <<rows, log>>

(* What tenant who may make of a row, or of none: a row of its own that     *)
(* keeps its bounds, its cap, and what settled it.                          *)
Permitted(who, from, to) ==
  /\ to.owner = who
  /\ to.reserved + to.spent <= to.cap
  /\ from # NoRow =>
       /\ from.owner = who /\ from.cap = to.cap /\ from.active = to.active
       /\ from.settled # NoRow => to.settled = from.settled

(* The rows after each of some changes, made one after another.             *)
Passing(made) ==
  LET path[i \in 0..Len(made)] ==
        IF i = 0 THEN rows ELSE [path[i - 1] EXCEPT ![made[i].id] = made[i].to]
  IN path

Init == log = <<>>

(* The whole of one request: some changes, each of the row as it then is.   *)
Request(who) ==
  LET made == SubSeq(log', Len(log) + 1, Len(log'))
      path == Passing(made)
  IN /\ log' = log \o made
     /\ \A i \in DOMAIN made :
          /\ made[i].who = who /\ made[i].from = path[i - 1][made[i].id]
          /\ Permitted(who, made[i].from, made[i].to)
     /\ rows' = path[Len(made)]

Next == \E who \in Tenants : Request(who)

Spec == Init /\ [][Next]_vars
=============================================================================
