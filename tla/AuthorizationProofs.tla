------------------------- MODULE AuthorizationProofs -------------------------
(***************************************************************************)
(* What holds of the authorization gate for every set of records, people    *)
(* and calls, every action and every quorum.                                *)
(***************************************************************************)
EXTENDS Authorization, FiniteSetTheorems, SequenceTheorems, TLAPS

Busy(t) == task[t].op # "idle"

(* A record that exists names its action and its requester, and one that    *)
(* risk scored high asks for two.                                           *)
RecordInv ==
  \A a \in Auths :
    /\ status[a] = "absent" => approvers[a] = <<>> /\ a \notin late
    /\ status[a] # "absent" => opened[a].action \in Actions /\ opened[a].requested_by \in People
    /\ opened[a].band = "high" => opened[a].required >= 2

(* A call between its check and its write is about a record that exists;    *)
(* what is spent is what was asked for.                                     *)
TaskInv ==
  \A t \in Tasks :
    /\ Busy(t) => task[t].auth \in Auths /\ status[task[t].auth] # "absent"
    /\ task[t].op = "approve" => task[t].who \in People
    /\ task[t].op = "consume" => task[t].action = opened[task[t].auth].action

IInv == TypeOK /\ RecordInv /\ TaskInv

Approvers(a) == {approvers[a][i] : i \in 1 .. Len(approvers[a])}

(* The approvals of a record are of as many people, the requester not one   *)
(* of them, and a record reads approved once there are enough.              *)
CountInv ==
  \A a \in Auths :
    /\ IsFiniteSet(Approvers(a))
    /\ Cardinality(Approvers(a)) = Len(approvers[a])
    /\ opened[a].requested_by \notin Approvers(a)
    /\ status[a] \in {"approved", "consumed"} => Len(approvers[a]) >= opened[a].required

(* Calls run whole, so that what approve checked is still so when it writes. *)
WholeInv ==
  /\ \A t, u \in Tasks : Busy(t) /\ Busy(u) => t = u
  /\ \A t \in Tasks : task[t].op = "approve" =>
       /\ task[t].who \notin Approvers(task[t].auth)
       /\ task[t].who # opened[task[t].auth].requested_by

FourEyesInv == IInv /\ CountInv /\ WholeInv

-----------------------------------------------------------------------------
LEMMA InitIInv == Init => IInv
<1> SUFFICES ASSUME Init PROVE IInv
  OBVIOUS
<1>1. NotOpened \in Opening
  BY DEF NotOpened, Opening, Outcome, Unscored
<1>2. Idle \in TaskRecord
  BY DEF Idle, TaskRecord
<1>3. TypeOK
  BY <1>1, <1>2 DEF Init, TypeOK, Status, TERMINAL
<1>4. RecordInv
  BY DEF Init, RecordInv, NotOpened, Unscored
<1>5. TaskInv
  BY DEF Init, TaskInv, Busy, Idle
<1> QED
  BY <1>3, <1>4, <1>5 DEF IInv

LEMMA RequiredIsNat ==
  ASSUME NEW outcome \in Outcome, NEW band \in RiskBand
  PROVE  /\ RequiredApprovals(outcome, band) \in Nat
         /\ band = "high" => RequiredApprovals(outcome, band) >= 2
BY QuorumAssumption DEF RequiredApprovals

(* A new record keeps the invariant, whatever its first status.             *)
LEMMA CreateStep ==
  ASSUME IInv, NEW a \in Auths, NEW action \in Actions, NEW who \in People,
         NEW outcome \in Outcome, NEW band \in RiskBand \union {Unscored},
         NEW required \in Nat, NEW first \in Status \ {"absent"},
         band = "high" => required >= 2,
         Create(a, action, who, outcome, band, required, first)
  PROVE  IInv'
<1> USE DEF IInv, Create
<1>1. [action |-> action, requested_by |-> who, outcome |-> outcome, band |-> band,
       required |-> required] \in Opening
  BY DEF Opening
<1>2. TypeOK'
  BY <1>1 DEF TypeOK
<1>3. RecordInv'
  BY DEF RecordInv, TypeOK
<1>4. TaskInv'
  BY DEF TaskInv, TypeOK, Busy
<1> QED
  BY <1>2, <1>3, <1>4

(* A call starts on a record that exists.                                   *)
LEMMA StartStep ==
  ASSUME IInv, NEW t \in Tasks, NEW a \in Auths,
         NEW op \in {"approve", "revoke", "consume"},
         NEW who \in People \union {None}, NEW action \in Actions \union {None},
         status[a] # "absent",
         op = "approve" => who \in People,
         op = "consume" => action = opened[a].action,
         StartWrite(t, op, a, who, action)
  PROVE  IInv'
<1> USE DEF IInv, StartWrite
<1>1. [op |-> op, auth |-> a, who |-> who, action |-> action] \in TaskRecord
  BY DEF TaskRecord
<1>2. TypeOK'
  BY <1>1 DEF TypeOK
<1>3. RecordInv'
  BY DEF RecordInv
<1>4. TaskInv'
  BY DEF TaskInv, TypeOK, Busy
<1> QED
  BY <1>2, <1>3, <1>4

(* A write that leaves the records that exist in existence, and the task    *)
(* idle, keeps the invariant.                                               *)
LEMMA WriteStep ==
  ASSUME IInv, NEW t \in Tasks, NEW a \in Auths, Busy(t), task[t].auth = a,
         task' = [task EXCEPT ![t] = Idle],
         status' \in [Auths -> Status], approvers' \in [Auths -> Seq(People)],
         uses' \in [Auths -> Seq(Actions)],
         \A b \in Auths : b # a => status'[b] = status[b] /\ approvers'[b] = approvers[b],
         status'[a] # "absent",
         UNCHANGED <<opened, late, suspends>>
  PROVE  IInv'
<1> USE DEF IInv
<1>1. Idle \in TaskRecord
  BY DEF Idle, TaskRecord
<1>2. TypeOK'
  BY <1>1 DEF TypeOK
<1>3. status[a] # "absent"
  BY DEF TaskInv
<1>4. RecordInv'
  BY <1>3 DEF RecordInv
<1>5. TaskInv'
  BY <1>3 DEF TaskInv, TypeOK, Busy, Idle
<1> QED
  BY <1>2, <1>4, <1>5

LEMMA ApproveStep == IInv /\ (\E t \in Tasks : AppendApproval(t)) => IInv'
<1> SUFFICES ASSUME IInv, NEW t \in Tasks, AppendApproval(t) PROVE IInv'
  OBVIOUS
<1> DEFINE a == task[t].auth
<1>1. a \in Auths /\ Busy(t) /\ task[t].who \in People /\ status[a] # "absent"
  BY DEF IInv, TaskInv, AppendApproval, Approve, Busy
<1>2. Append(approvers[a], task[t].who) \in Seq(People)
  BY <1>1, AppendProperties DEF IInv, TypeOK
<1>3. status' \in [Auths -> Status] /\ approvers' \in [Auths -> Seq(People)]
  BY <1>1, <1>2 DEF IInv, TypeOK, AppendApproval, Approve, Status
<1>4. status'[a] # "absent"
  BY <1>1 DEF IInv, TypeOK, AppendApproval, Approve
<1>5. \A b \in Auths : b # a => status'[b] = status[b] /\ approvers'[b] = approvers[b]
  BY <1>1 DEF IInv, TypeOK, AppendApproval, Approve
<1>6. uses' \in [Auths -> Seq(Actions)] /\ UNCHANGED <<opened, late, suspends>>
      /\ task' = [task EXCEPT ![t] = Idle]
  BY DEF IInv, TypeOK, AppendApproval, Approve
<1> QED
  BY <1>1, <1>3, <1>4, <1>5, <1>6, WriteStep

LEMMA RevokeStep == IInv /\ (\E t \in Tasks : Revoke(t)) => IInv'
<1> SUFFICES ASSUME IInv, NEW t \in Tasks, Revoke(t) PROVE IInv'
  OBVIOUS
<1> DEFINE a == task[t].auth
<1>1. a \in Auths /\ Busy(t) /\ status[a] # "absent"
  BY DEF IInv, TaskInv, Revoke, Busy
<1>2. status' \in [Auths -> Status] /\ status'[a] # "absent"
  BY <1>1 DEF IInv, TypeOK, Revoke, Status, TERMINAL
<1>3. \A b \in Auths : b # a => status'[b] = status[b] /\ approvers'[b] = approvers[b]
  BY <1>1 DEF IInv, TypeOK, Revoke
<1> QED
  BY <1>1, <1>2, <1>3, WriteStep DEF IInv, TypeOK, Revoke

LEMMA ConsumeStep == IInv /\ (\E t \in Tasks : MarkConsumed(t)) => IInv'
<1> SUFFICES ASSUME IInv, NEW t \in Tasks, MarkConsumed(t) PROVE IInv'
  OBVIOUS
<1> USE DEF MarkConsumed, Consume
<1> DEFINE a == task[t].auth
<1>1. a \in Auths /\ Busy(t) /\ status[a] # "absent" /\ task[t].action = opened[a].action
  BY DEF IInv, TaskInv, Busy
<1>2. task[t].action \in Actions
  BY <1>1 DEF IInv, RecordInv
<1>3. Append(uses[a], task[t].action) \in Seq(Actions)
  BY <1>1, <1>2, AppendProperties DEF IInv, TypeOK
<1>4. status' \in [Auths -> Status] /\ uses' \in [Auths -> Seq(Actions)]
  BY <1>1, <1>3 DEF IInv, TypeOK, Status, TERMINAL
<1>5. status'[a] # "absent"
  BY <1>1 DEF IInv, TypeOK
<1>6. \A b \in Auths : b # a => status'[b] = status[b] /\ approvers'[b] = approvers[b]
  BY <1>1 DEF IInv, TypeOK
<1>7. approvers' \in [Auths -> Seq(People)] /\ UNCHANGED <<opened, late, suspends>>
      /\ task' = [task EXCEPT ![t] = Idle]
  BY DEF IInv, TypeOK
<1> QED
  BY <1>1, <1>4, <1>5, <1>6, <1>7, WriteStep

LEMMA ClockStep ==
  ASSUME IInv, NEW a \in Auths, Tick(a) \/ ReadLate(a)
  PROVE  IInv'
<1> USE DEF IInv
<1>1. TypeOK'
  BY DEF TypeOK, Tick, ReadLate, MarkExpired, Status, TERMINAL
<1>2. RecordInv'
  BY DEF RecordInv, TypeOK, Tick, ReadLate, MarkExpired, TERMINAL
<1>3. TaskInv'
  BY DEF TaskInv, TypeOK, Busy, Tick, ReadLate, MarkExpired, TERMINAL
<1> QED
  BY <1>1, <1>2, <1>3

LEMMA NextIInv == IInv /\ [Next]_vars => IInv'
<1> SUFFICES ASSUME IInv, [Next]_vars PROVE IInv'
  OBVIOUS
<1>1. CASE UNCHANGED vars
  BY <1>1 DEF vars, IInv, TypeOK, RecordInv, TaskInv, Busy
<1>2. ASSUME NEW a \in Auths, NEW action \in Actions, NEW who \in People,
             RequestDenied(a, action, who)
      PROVE  IInv'
  <2>1. "deny" \in Outcome /\ "denied" \in Status \ {"absent"} /\ Unscored # "high"
    BY DEF Outcome, Status, TERMINAL, Unscored
  <2> QED
    BY <1>2, <2>1, CreateStep DEF RequestDenied
<1>3. ASSUME NEW a \in Auths, NEW action \in Actions, NEW who \in People,
             NEW outcome \in Outcome, NEW band \in RiskBand,
             Request(a, action, who, outcome, band)
      PROVE  IInv'
  <2> DEFINE required == RequiredApprovals(outcome, band)
             first == IF required = 0 THEN "approved" ELSE "pending"
  <2>1. required \in Nat /\ (band = "high" => required >= 2)
    BY RequiredIsNat
  <2>2. first \in Status \ {"absent"}
    BY DEF Status
  <2>3. Create(a, action, who, outcome, band, required, first)
    BY <1>3 DEF Request
  <2> HIDE DEF required, first
  <2> QED
    BY <2>1, <2>2, <2>3, CreateStep
<1>4. ASSUME NEW t \in Tasks, NEW a \in Auths, NEW who \in People, CheckApprove(t, a, who)
      PROVE  IInv'
  BY <1>4, StartStep DEF CheckApprove
<1>5. ASSUME NEW t \in Tasks, NEW a \in Auths, CheckRevoke(t, a)
      PROVE  IInv'
  BY <1>5, StartStep DEF CheckRevoke
<1>6. ASSUME NEW t \in Tasks, NEW a \in Auths, NEW action \in Actions,
             CheckConsume(t, a, action)
      PROVE  IInv'
  BY <1>6, StartStep DEF CheckConsume
<1> QED
  BY <1>1, <1>2, <1>3, <1>4, <1>5, <1>6, ApproveStep, RevokeStep, ConsumeStep,
     ClockStep DEF Next

LEMMA Invariant == Spec => []IInv
BY InitIInv, NextIInv, PTL DEF Spec

(* Every variable keeps its type, for every quorum a policy may ask for.    *)
THEOREM TypeCorrect == Spec => []TypeOK
<1>1. IInv => TypeOK
  BY DEF IInv
<1> QED
  BY <1>1, Invariant, PTL

(* What is denied, consumed, expired or revoked stays so, even when another *)
(* call is let in between every check and its write.                        *)
THEOREM OverStaysOver == Spec => TerminalIsFinal
<1> DEFINE Final == \A a \in Auths : status[a] \in TERMINAL => status'[a] = status[a]
<1>1. IInv /\ [Next]_vars => [Final]_vars
  <2> SUFFICES ASSUME IInv, Next PROVE Final
    OBVIOUS
  <2> USE DEF IInv, TypeOK, TERMINAL
  <2>1. ASSUME NEW a \in Auths, Tick(a) \/ ReadLate(a) PROVE Final
    BY <2>1 DEF Tick, ReadLate, MarkExpired
  <2>2. ASSUME NEW a \in Auths, NEW action \in Actions, NEW who \in People,
               RequestDenied(a, action, who)
        PROVE  Final
    BY <2>2 DEF RequestDenied, Create
  <2>3. ASSUME NEW a \in Auths, NEW action \in Actions, NEW who \in People,
               NEW outcome \in Outcome, NEW band \in RiskBand,
               Request(a, action, who, outcome, band)
        PROVE  Final
    BY <2>3 DEF Request, Create
  <2>4. ASSUME NEW t \in Tasks, NEW a \in Auths,
               \/ \E who \in People : CheckApprove(t, a, who)
               \/ \E action \in Actions : CheckConsume(t, a, action)
               \/ CheckRevoke(t, a)
        PROVE  Final
    BY <2>4 DEF CheckApprove, CheckConsume, CheckRevoke, StartWrite
  <2>5. ASSUME NEW t \in Tasks, AppendApproval(t) PROVE Final
    BY <2>5 DEF AppendApproval, Approve
  <2>6. ASSUME NEW t \in Tasks, Revoke(t) PROVE Final
    BY <2>6 DEF Revoke
  <2>7. ASSUME NEW t \in Tasks, MarkConsumed(t) PROVE Final
    BY <2>7 DEF MarkConsumed, Consume
  <2> HIDE DEF Final, IInv, TypeOK, TERMINAL
  <2> QED
    BY <2>1, <2>2, <2>3, <2>4, <2>5, <2>6, <2>7 DEF Next
<1> QED
  BY <1>1, Invariant, PTL DEF Spec, TerminalIsFinal

-----------------------------------------------------------------------------
(* The life SingleUse gives a record, as the refinement maps it.            *)
Grants == [a \in Auths |-> GrantOf(a)]
Scopes == [a \in Auths |-> {opened[a].action} \ {None}]

LEMMA InitRefines == Init => SU!Init
BY DEF Init, SU!Init, GrantOf, NotOpened

(* A record whose status alone moves, as one in a life of SingleUse does.   *)
LEMMA GrantMoves ==
  ASSUME IInv, NEW a \in Auths, NEW b \in Auths,
         \A c \in Auths : c # a => status'[c] = status[c],
         b # a
  PROVE  GrantOf(b)' = GrantOf(b)
BY DEF GrantOf

LEMMA AskRefines ==
  ASSUME IInv, NEW a \in Auths, NEW action \in Actions, NEW who \in People,
         NEW outcome, NEW band, NEW required, NEW first \in {"denied", "approved", "pending"},
         Create(a, action, who, outcome, band, required, first)
  PROVE  SU!Next
<1> USE DEF IInv, Create
<1> DEFINE answer == CASE first = "pending" -> "asked"
                       [] first = "approved" -> "granted"
                       [] OTHER -> "over"
<1>1. Grants[a] = "absent" /\ answer \in {"asked", "granted", "over"}
  BY DEF Grants, GrantOf
<1>2. Grants' = [Grants EXCEPT ![a] = answer]
  <2>1. GrantOf(a)' = answer
    BY DEF GrantOf, TypeOK
  <2>2. \A b \in Auths : b # a => GrantOf(b)' = GrantOf(b)
    BY DEF GrantOf, TypeOK
  <2> QED
    BY <2>1, <2>2 DEF Grants
<1>3. Scopes' = [Scopes EXCEPT ![a] = {action}]
  <2>1. {opened'[a].action} \ {None} = {action}
    BY NoneAssumption DEF TypeOK
  <2>2. \A b \in Auths : b # a => opened'[b] = opened[b]
    BY DEF TypeOK
  <2> QED
    BY <2>1, <2>2 DEF Scopes
<1> HIDE DEF answer, Create
<1>4. SU!Ask(a)
  BY <1>1, <1>2, <1>3 DEF SU!Ask, Grants, Scopes, Create
<1> QED
  BY <1>4 DEF SU!Next

(* A step that gives one record another status and leaves its scope.        *)
LEMMA StatusRefines ==
  ASSUME IInv, NEW a \in Auths, NEW new \in Status,
         status' = [status EXCEPT ![a] = new], UNCHANGED <<opened, uses>>,
         \/ new = status[a]
         \/ status[a] = "pending" /\ new = "approved"
         \/ status[a] \in {"pending", "approved"} /\ new \in {"expired", "revoked"}
  PROVE  [SU!Next]_(SU!vars)
<1> USE DEF IInv
<1>1. Scopes' = Scopes
  BY DEF Scopes
<1>2. \A b \in Auths : b # a => GrantOf(b)' = GrantOf(b)
  BY DEF GrantOf, TypeOK
<1>3. CASE new = status[a]
  <2>1. GrantOf(a)' = GrantOf(a)
    BY <1>3 DEF GrantOf, TypeOK
  <2>2. Grants' = Grants
    BY <1>2, <2>1 DEF Grants
  <2> QED
    BY <1>1, <2>2 DEF SU!vars, Grants, Scopes
<1>4. CASE status[a] = "pending" /\ new = "approved"
  <2>1. GrantOf(a) = "asked" /\ GrantOf(a)' = "granted"
    BY <1>4 DEF GrantOf, TypeOK
  <2>2. Grants' = [Grants EXCEPT ![a] = "granted"] /\ Grants[a] = "asked"
    BY <1>2, <2>1 DEF Grants
  <2>3. SU!Grant(a)
    BY <1>1, <2>2 DEF SU!Grant, Grants, Scopes
  <2> QED
    BY <2>3 DEF SU!Next
<1>5. CASE status[a] \in {"pending", "approved"} /\ new \in {"expired", "revoked"}
  <2>1. GrantOf(a) \in {"asked", "granted"} /\ GrantOf(a)' = "over"
    BY <1>5 DEF GrantOf, TypeOK
  <2>2. Grants' = [Grants EXCEPT ![a] = "over"] /\ Grants[a] \in {"asked", "granted"}
    BY <1>2, <2>1 DEF Grants
  <2>3. SU!End(a)
    BY <1>1, <2>2 DEF SU!End, Grants, Scopes
  <2> QED
    BY <2>3 DEF SU!Next
<1> QED
  BY <1>3, <1>4, <1>5

LEMMA UseRefines ==
  ASSUME IInv, NEW t \in Tasks, NEW a \in Auths, task[t].auth = a, MarkConsumed(t)
  PROVE  [SU!Next]_(SU!vars)
<1> USE DEF IInv, MarkConsumed, Consume
<1>1. task[t].action = opened[a].action /\ status[a] # "absent"
  BY DEF TaskInv, Busy
<1>2. opened[a].action \in Actions
  BY <1>1 DEF RecordInv
<1>3. Scopes' = Scopes /\ task[t].action \in Scopes[a]
  BY <1>1, <1>2, NoneAssumption DEF Scopes
<1>4. CASE status[a] = "approved"
  <2>1. GrantOf(a) = "granted" /\ GrantOf(a)' = "used"
    BY <1>1, <1>4 DEF GrantOf, TypeOK
  <2>2. \A b \in Auths : b # a => GrantOf(b)' = GrantOf(b)
    BY <1>1, <1>4 DEF GrantOf, TypeOK
  <2>3. Grants' = [Grants EXCEPT ![a] = "used"] /\ Grants[a] = "granted"
    BY <1>1, <2>1, <2>2 DEF Grants
  <2>4. uses' = [uses EXCEPT ![a] = Append(@, task[t].action)]
    BY <1>4
  <2>5. SU!Use(a)
    BY <1>3, <2>3, <2>4 DEF SU!Use, Grants, Scopes
  <2> QED
    BY <1>1, <2>5 DEF SU!Next
<1>5. CASE status[a] # "approved"
  BY <1>3, <1>5 DEF SU!vars, Grants, Scopes, GrantOf
<1> QED
  BY <1>4, <1>5

LEMMA StepRefines == IInv /\ [Next]_vars => [SU!Next]_(SU!vars)
<1> SUFFICES ASSUME IInv, [Next]_vars PROVE [SU!Next]_(SU!vars)
  OBVIOUS
<1>1. ASSUME UNCHANGED <<status, opened, uses>> PROVE [SU!Next]_(SU!vars)
  BY <1>1 DEF SU!vars, GrantOf
<1>2. ASSUME NEW a \in Auths, NEW action \in Actions, NEW who \in People,
             RequestDenied(a, action, who)
      PROVE  SU!Next
  BY <1>2, AskRefines DEF RequestDenied
<1>3. ASSUME NEW a \in Auths, NEW action \in Actions, NEW who \in People,
             NEW outcome \in Outcome, NEW band \in RiskBand,
             Request(a, action, who, outcome, band)
      PROVE  SU!Next
  <2> DEFINE required == RequiredApprovals(outcome, band)
             first == IF required = 0 THEN "approved" ELSE "pending"
  <2>1. first \in {"denied", "approved", "pending"}
    OBVIOUS
  <2>2. Create(a, action, who, outcome, band, required, first)
    BY <1>3 DEF Request
  <2> HIDE DEF required, first
  <2> QED
    BY <2>1, <2>2, AskRefines
<1>4. ASSUME NEW a \in Auths, ReadLate(a) PROVE [SU!Next]_(SU!vars)
  <2> DEFINE new == IF status[a] \in TERMINAL THEN status[a] ELSE "expired"
  <2>1. status[a] # "absent"
    BY <1>4 DEF ReadLate, IInv, RecordInv
  <2>2. new \in Status /\ status' = [status EXCEPT ![a] = new]
    BY <1>4 DEF ReadLate, MarkExpired, IInv, TypeOK, Status, TERMINAL
  <2>3. new = status[a] \/ (status[a] \in {"pending", "approved"} /\ new = "expired")
    <3>1. status[a] \in Status \ {"absent"}
      BY <2>1 DEF IInv, TypeOK
    <3> QED
      BY <3>1 DEF Status
  <2> HIDE DEF new
  <2> QED
    BY <1>4, <2>2, <2>3, StatusRefines DEF ReadLate
<1>5. ASSUME NEW t \in Tasks, Revoke(t) PROVE [SU!Next]_(SU!vars)
  <2> DEFINE a == task[t].auth
             new == IF status[a] \in TERMINAL THEN status[a] ELSE "revoked"
  <2>1. a \in Auths /\ status[a] # "absent"
    BY <1>5 DEF Revoke, IInv, TaskInv, Busy
  <2>2. new \in Status /\ status' = [status EXCEPT ![a] = new] /\ UNCHANGED <<opened, uses>>
    BY <1>5, <2>1 DEF Revoke, IInv, TypeOK, Status, TERMINAL
  <2>3. new = status[a] \/ (status[a] \in {"pending", "approved"} /\ new = "revoked")
    <3>1. status[a] \in Status \ {"absent"}
      BY <2>1 DEF IInv, TypeOK
    <3> QED
      BY <3>1 DEF Status
  <2> HIDE DEF new, a
  <2> QED
    BY <2>1, <2>2, <2>3, StatusRefines
<1>6. ASSUME NEW t \in Tasks, AppendApproval(t) PROVE [SU!Next]_(SU!vars)
  <2> DEFINE a == task[t].auth
             enough == Len(Append(approvers[a], task[t].who)) >= opened[a].required
             new == IF status[a] = "pending" /\ enough THEN "approved" ELSE status[a]
  <2>1. a \in Auths
    BY <1>6 DEF AppendApproval, Approve, IInv, TaskInv, Busy
  <2>2. new \in Status /\ status' = [status EXCEPT ![a] = new] /\ UNCHANGED <<opened, uses>>
    BY <1>6, <2>1 DEF AppendApproval, Approve, IInv, TypeOK, Status
  <2>3. new = status[a] \/ (status[a] = "pending" /\ new = "approved")
    OBVIOUS
  <2> HIDE DEF new, enough, a
  <2> QED
    BY <2>1, <2>2, <2>3, StatusRefines
<1>7. ASSUME NEW a \in Auths, Tick(a) PROVE UNCHANGED <<status, opened, uses>>
  BY <1>7 DEF Tick
<1>8. ASSUME NEW t \in Tasks, NEW a \in Auths,
             \/ \E who \in People : CheckApprove(t, a, who)
             \/ \E action \in Actions : CheckConsume(t, a, action)
             \/ CheckRevoke(t, a)
      PROVE  UNCHANGED <<status, opened, uses>>
  BY <1>8 DEF CheckApprove, CheckConsume, CheckRevoke, StartWrite
<1>9. ASSUME NEW t \in Tasks, MarkConsumed(t) PROVE [SU!Next]_(SU!vars)
  <2>1. task[t].auth \in Auths
    BY <1>9 DEF MarkConsumed, Consume, IInv, TaskInv, Busy
  <2> QED
    BY <1>9, <2>1, UseRefines
<1>10. UNCHANGED vars => UNCHANGED <<status, opened, uses>>
  BY DEF vars
<1> QED
  BY <1>1, <1>2, <1>3, <1>4, <1>5, <1>6, <1>7, <1>8, <1>9, <1>10 DEF Next

(* However calls interleave, an authorization is granted or refused, used   *)
(* at most once and for the action it was asked for.                        *)
THEOREM GateIsSingleUse == Spec => ImplementsSingleUse
BY InitRefines, StepRefines, Invariant, PTL DEF Spec, ImplementsSingleUse, SU!Spec

-----------------------------------------------------------------------------
(* Four eyes, for calls that run whole.                                     *)
LEMMA InitCount == Init => CountInv /\ WholeInv
<1> SUFFICES ASSUME Init PROVE CountInv /\ WholeInv
  OBVIOUS
<1>1. \A a \in Auths : Approvers(a) = {} /\ Len(approvers[a]) = 0
  BY DEF Init, Approvers
<1>2. CountInv
  BY <1>1, FS_EmptySet DEF Init, CountInv
<1>3. WholeInv
  BY DEF Init, WholeInv, Busy, Idle
<1> QED
  BY <1>2, <1>3

(* One more approval, by somebody new, is one more person.                  *)
LEMMA OneMore ==
  ASSUME NEW s \in Seq(People), NEW p \in People
  PROVE  /\ Append(s, p) \in Seq(People) /\ Len(Append(s, p)) = Len(s) + 1
         /\ {Append(s, p)[i] : i \in 1 .. Len(Append(s, p))} = {s[i] : i \in 1 .. Len(s)} \union {p}
<1>1. Len(s) \in Nat /\ Len(Append(s, p)) = Len(s) + 1
  BY AppendProperties, LenProperties
<1>2. /\ \A i \in 1 .. Len(s) : Append(s, p)[i] = s[i]
      /\ Append(s, p)[Len(s) + 1] = p
  BY AppendProperties
<1>3. 1 .. Len(Append(s, p)) = (1 .. Len(s)) \union {Len(s) + 1}
  BY <1>1
<1> QED
  BY <1>1, <1>2, <1>3, AppendProperties

(* A step that adds no approval and approves or spends nothing new.         *)
LEMMA CountFrame ==
  ASSUME CountInv, UNCHANGED <<approvers, opened>>,
         \A a \in Auths : status'[a] \in {"approved", "consumed"} =>
                             status[a] \in {"approved", "consumed"}
  PROVE  CountInv'
BY DEF CountInv, Approvers

LEMMA CreateCount ==
  ASSUME FourEyesInv, NEW a \in Auths, NEW action \in Actions, NEW who \in People,
         NEW outcome, NEW band, NEW required \in Nat, NEW first,
         first = "approved" => required = 0, first # "consumed",
         Create(a, action, who, outcome, band, required, first)
  PROVE  CountInv' /\ WholeInv'
<1> USE DEF FourEyesInv, IInv, Create
<1>1. approvers[a] = <<>>
  BY DEF RecordInv
<1>2. Approvers(a)' = {} /\ Len(approvers'[a]) = 0
  BY <1>1 DEF Approvers
<1>3. opened'[a].required = required /\ status'[a] = first
  BY DEF TypeOK
<1>4. \A b \in Auths : b # a =>
        /\ opened'[b] = opened[b] /\ status'[b] = status[b] /\ approvers'[b] = approvers[b]
        /\ Approvers(b)' = Approvers(b)
  BY DEF TypeOK, Approvers
<1>5. CountInv'
  <2> DEFINE Counted(b) ==
        /\ IsFiniteSet(Approvers(b)')
        /\ Cardinality(Approvers(b)') = Len(approvers'[b])
        /\ opened'[b].requested_by \notin Approvers(b)'
        /\ status'[b] \in {"approved", "consumed"} => Len(approvers'[b]) >= opened'[b].required
  <2>1. Counted(a)
    BY <1>2, <1>3, FS_EmptySet
  <2>2. ASSUME NEW b \in Auths, b # a PROVE Counted(b)
    BY <1>4, <2>2 DEF CountInv
  <2> HIDE DEF Create
  <2>3. \A b \in Auths : Counted(b)
    BY <2>1, <2>2
  <2> QED
    BY <2>3 DEF CountInv
<1>6. \A t \in Tasks : Busy(t) => task[t].auth # a /\ task[t].auth \in Auths
  BY DEF TaskInv
<1>7. WholeInv'
  BY <1>4, <1>6 DEF WholeInv, Busy
<1> QED
  BY <1>5, <1>7

LEMMA StartCount ==
  ASSUME ~suspends, FourEyesInv, NEW t \in Tasks, NEW a \in Auths,
         NEW op, NEW who, NEW action,
         op = "approve" => who \notin Approvers(a) /\ who # opened[a].requested_by,
         StartWrite(t, op, a, who, action)
  PROVE  CountInv' /\ WholeInv'
<1> USE DEF FourEyesInv, IInv, StartWrite
<1>1. CountInv'
  BY CountFrame
<1>2. \A u \in Tasks : u # t => ~Busy(u)' /\ task'[u].op # "approve"
  BY DEF Quiet, Idle, Busy, TypeOK
<1>3. task'[t].op = op /\ task'[t].auth = a /\ task'[t].who = who
  BY DEF TypeOK
<1>4. \A b \in Auths : Approvers(b)' = Approvers(b)
  BY DEF Approvers
<1>5. WholeInv'
  BY <1>2, <1>3, <1>4 DEF WholeInv
<1> QED
  BY <1>1, <1>5

(* After a write no call is under way.                                      *)
LEMMA DoneIsQuiet ==
  ASSUME FourEyesInv, NEW t \in Tasks, Busy(t), task' = [task EXCEPT ![t] = Idle]
  PROVE  WholeInv'
<1>1. \A u \in Tasks : task'[u].op = "idle"
  BY DEF FourEyesInv, IInv, TypeOK, WholeInv, Busy, Idle
<1> QED
  BY <1>1 DEF WholeInv, Busy

LEMMA ApproveCount ==
  ASSUME FourEyesInv, NEW t \in Tasks, NEW a \in Auths, task[t].auth = a, AppendApproval(t)
  PROVE  CountInv' /\ WholeInv'
<1> USE DEF AppendApproval, Approve
<1>1. WholeInv'
  BY DoneIsQuiet DEF Busy
<1>2. CASE status[a] # "pending"
  BY <1>1, <1>2, CountFrame DEF FourEyesInv
<1>3. CASE status[a] = "pending"
  <2> DEFINE p == task[t].who
             all == Append(approvers[a], p)
  <2>1. p \in People /\ p \notin Approvers(a) /\ p # opened[a].requested_by
    BY DEF FourEyesInv, WholeInv, IInv, TaskInv
  <2>2. approvers[a] \in Seq(People)
    BY DEF FourEyesInv, IInv, TypeOK
  <2>3. approvers'[a] = all /\ opened' = opened
    BY <1>3 DEF FourEyesInv, IInv, TypeOK
  <2>4. status'[a] \in {"approved", "consumed"} => Len(all) >= opened[a].required
    BY <1>3 DEF FourEyesInv, IInv, TypeOK
  <2>5. \A b \in Auths : b # a => status'[b] = status[b] /\ approvers'[b] = approvers[b]
                                   /\ Approvers(b)' = Approvers(b)
    BY <1>3 DEF FourEyesInv, IInv, TypeOK, Approvers
  <2>6. Approvers(a)' = Approvers(a) \union {p} /\ Len(all) = Len(approvers[a]) + 1
    BY <2>1, <2>2, <2>3, OneMore DEF Approvers
  <2>7. /\ IsFiniteSet(Approvers(a)') /\ opened[a].requested_by \notin Approvers(a)'
        /\ Cardinality(Approvers(a)') = Len(all)
    BY <2>1, <2>6, FS_AddElement DEF FourEyesInv, CountInv
  <2>8. CountInv'
    BY <2>3, <2>4, <2>5, <2>7 DEF FourEyesInv, CountInv
  <2> QED
    BY <1>1, <2>8
<1> QED
  BY <1>2, <1>3

LEMMA NextFourEyes ==
  ASSUME ~suspends
  PROVE  FourEyesInv /\ [Next]_vars => CountInv' /\ WholeInv'
<1> SUFFICES ASSUME FourEyesInv, [Next]_vars PROVE CountInv' /\ WholeInv'
  OBVIOUS
<1>1. CASE UNCHANGED vars
  <2>1. CountInv'
    BY <1>1 DEF vars, FourEyesInv, CountInv, Approvers
  <2> QED
    BY <1>1, <2>1 DEF vars, FourEyesInv, WholeInv, Approvers, Busy
<1>2. ASSUME NEW a \in Auths, Tick(a) \/ ReadLate(a) PROVE CountInv' /\ WholeInv'
  <2>1. UNCHANGED <<approvers, opened, task>>
    BY <1>2 DEF Tick, ReadLate
  <2>2. \A b \in Auths : status'[b] \in {"approved", "consumed"} =>
                            status[b] \in {"approved", "consumed"}
    BY <1>2 DEF Tick, ReadLate, MarkExpired, FourEyesInv, IInv, TypeOK, TERMINAL
  <2>3. CountInv'
    BY <2>1, <2>2, CountFrame DEF FourEyesInv
  <2> QED
    BY <2>1, <2>3 DEF FourEyesInv, WholeInv, Busy, Approvers
<1>3. ASSUME NEW a \in Auths, NEW action \in Actions, NEW who \in People,
             RequestDenied(a, action, who)
      PROVE  CountInv' /\ WholeInv'
  BY <1>3, CreateCount DEF RequestDenied
<1>4. ASSUME NEW a \in Auths, NEW action \in Actions, NEW who \in People,
             NEW outcome \in Outcome, NEW band \in RiskBand,
             Request(a, action, who, outcome, band)
      PROVE  CountInv' /\ WholeInv'
  <2> DEFINE required == RequiredApprovals(outcome, band)
             first == IF required = 0 THEN "approved" ELSE "pending"
  <2>1. required \in Nat
    BY RequiredIsNat
  <2>2. (first = "approved" => required = 0) /\ first # "consumed"
    OBVIOUS
  <2>3. Create(a, action, who, outcome, band, required, first)
    BY <1>4 DEF Request
  <2> HIDE DEF required, first
  <2> QED
    BY <2>1, <2>2, <2>3, CreateCount
<1>5. ASSUME NEW t \in Tasks, NEW a \in Auths, NEW who \in People, CheckApprove(t, a, who)
      PROVE  CountInv' /\ WholeInv'
  <2>1. who \notin Approvers(a) /\ who # opened[a].requested_by
    BY <1>5 DEF CheckApprove, Contains, Approvers
  <2> QED
    BY <1>5, <2>1, StartCount DEF CheckApprove
<1>6. ASSUME NEW t \in Tasks, NEW a \in Auths, CheckRevoke(t, a)
      PROVE  CountInv' /\ WholeInv'
  BY <1>6, StartCount DEF CheckRevoke
<1>7. ASSUME NEW t \in Tasks, NEW a \in Auths, NEW action \in Actions,
             CheckConsume(t, a, action)
      PROVE  CountInv' /\ WholeInv'
  BY <1>7, StartCount DEF CheckConsume
<1>8. ASSUME NEW t \in Tasks, AppendApproval(t) PROVE CountInv' /\ WholeInv'
  <2>1. task[t].auth \in Auths
    BY <1>8 DEF AppendApproval, Approve, FourEyesInv, IInv, TaskInv, Busy
  <2> QED
    BY <1>8, <2>1, ApproveCount
<1>9. ASSUME NEW t \in Tasks, Revoke(t) \/ MarkConsumed(t) PROVE CountInv' /\ WholeInv'
  <2>1. Busy(t) /\ task[t].auth \in Auths /\ task' = [task EXCEPT ![t] = Idle]
    BY <1>9 DEF Revoke, MarkConsumed, Consume, Busy, FourEyesInv, IInv, TaskInv
  <2>2. UNCHANGED <<approvers, opened>>
    BY <1>9 DEF Revoke, MarkConsumed, Consume
  <2>3. \A b \in Auths : status'[b] \in {"approved", "consumed"} =>
                            status[b] \in {"approved", "consumed"}
    BY <1>9, <2>1 DEF Revoke, MarkConsumed, Consume, FourEyesInv, IInv, TypeOK, TERMINAL
  <2> QED
    BY <2>1, <2>2, <2>3, CountFrame, DoneIsQuiet DEF FourEyesInv
<1> QED
  BY <1>1, <1>2, <1>3, <1>4, <1>5, <1>6, <1>7, <1>8, <1>9 DEF Next

(* What a behaviour of calls that run whole keeps; whether it is one never  *)
(* changes.                                                                 *)
RunsWholeInv == IInv /\ (~suspends => FourEyesInv)

LEMMA FourEyesInvariant == Spec => []RunsWholeInv
<1>1. Init => RunsWholeInv
  BY InitIInv, InitCount DEF FourEyesInv, RunsWholeInv
<1>2. RunsWholeInv /\ [Next]_vars => RunsWholeInv'
  <2> SUFFICES ASSUME RunsWholeInv, [Next]_vars PROVE RunsWholeInv'
    OBVIOUS
  <2>1. IInv'
    BY NextIInv DEF RunsWholeInv
  <2>2. suspends' = suspends
    BY DEF Next, vars, RequestDenied, Request, Create, Tick, ReadLate, CheckApprove,
           CheckConsume, CheckRevoke, StartWrite, AppendApproval, Approve, Revoke,
           MarkConsumed, Consume
  <2>3. CASE suspends
    BY <2>1, <2>2, <2>3 DEF RunsWholeInv
  <2>4. CASE ~suspends
    BY <2>1, <2>2, <2>4, NextFourEyes DEF RunsWholeInv, FourEyesInv
  <2> QED
    BY <2>3, <2>4
<1> QED
  BY <1>1, <1>2, PTL DEF Spec

LEMMA ApproversAreOthers ==
  ASSUME FourEyesInv, NEW a \in Auths
  PROVE  Cardinality(OthersWhoApproved(a)) = Len(approvers[a])
<1>1. DOMAIN approvers[a] = 1 .. Len(approvers[a])
  BY LenProperties DEF FourEyesInv, IInv, TypeOK
<1>2. OthersWhoApproved(a) = Approvers(a)
  BY <1>1 DEF OthersWhoApproved, Approvers, FourEyesInv, CountInv
<1> QED
  BY <1>2 DEF FourEyesInv, CountInv

LEMMA EnoughOthers == FourEyesInv => ApprovedByEnoughOthers
BY ApproversAreOthers DEF ApprovedByEnoughOthers, FourEyesInv, CountInv

LEMMA TwoOthers == FourEyesInv => HighRiskNeedsTwo
<1> SUFFICES ASSUME FourEyesInv, NEW a \in Auths, status[a] \in {"approved", "consumed"},
                    opened[a].band = "high"
             PROVE  Cardinality(OthersWhoApproved(a)) >= 2
  BY DEF HighRiskNeedsTwo
<1>1. opened[a].required >= 2 /\ opened[a].required \in Nat
  BY DEF FourEyesInv, IInv, RecordInv, TypeOK, Opening
<1>2. Len(approvers[a]) >= opened[a].required /\ Len(approvers[a]) \in Nat
  BY LenProperties DEF FourEyesInv, IInv, CountInv, TypeOK
<1> QED
  BY <1>1, <1>2, ApproversAreOthers

(* While calls run whole, as over the repository in memory: an authorization *)
(* reads approved or was spent only if as many people as risk asked for,    *)
(* none of them the requester and none counted twice, approved it; and two  *)
(* at least where risk scored it high, whatever the policy's quorum.        *)
THEOREM FourEyes == Spec => []FourEyesWhenWhole
<1>1. RunsWholeInv => FourEyesWhenWhole
  BY EnoughOthers, TwoOthers DEF RunsWholeInv, FourEyesWhenWhole
<1> QED
  BY <1>1, FourEyesInvariant, PTL
=============================================================================
