------------------------------ MODULE SingleUse ------------------------------
(***************************************************************************)
(* What an authorization promises, whoever approves it and however its      *)
(* requests interleave: it is granted or refused, a grant is used once, for *)
(* the action it was granted for, and what is over stays over.              *)
(***************************************************************************)
EXTENDS Sequences

CONSTANTS
  Auths,        \* authorizations
  Actions       \* financial actions they may be granted for

VARIABLES
  grant,        \* grant[a]: where authorization a is in its life
  scope,        \* scope[a]: the actions it may be used for, one once asked
  uses          \* uses[a]: the actions it was used for, in order

vars == <<grant, scope, uses>>

Init ==
  /\ grant = [a \in Auths |-> "absent"]
  /\ scope = [a \in Auths |-> {}]
  /\ uses = [a \in Auths |-> <<>>]

(* It is asked for, and granted or refused at once or later.                *)
Ask(a) ==
  /\ grant[a] = "absent"
  /\ \E act \in Actions, answer \in {"asked", "granted", "over"} :
       /\ grant' = [grant EXCEPT ![a] = answer]
       /\ scope' = [scope EXCEPT ![a] = {act}]
  /\ UNCHANGED uses

Grant(a) ==
  /\ grant[a] = "asked"
  /\ grant' = [grant EXCEPT ![a] = "granted"]
  /\ UNCHANGED <<scope, uses>>

Use(a) ==
  /\ grant[a] = "granted"
  /\ grant' = [grant EXCEPT ![a] = "used"]
  /\ \E act \in scope[a] : uses' = [uses EXCEPT ![a] = Append(@, act)]
  /\ UNCHANGED scope

(* It is withdrawn, or its time is up.                                      *)
End(a) ==
  /\ grant[a] \in {"asked", "granted"}
  /\ grant' = [grant EXCEPT ![a] = "over"]
  /\ UNCHANGED <<scope, uses>>

Next == \E a \in Auths : Ask(a) \/ Grant(a) \/ Use(a) \/ End(a)

Spec == Init /\ [][Next]_vars
=============================================================================
