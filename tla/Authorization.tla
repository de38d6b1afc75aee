---------------------------- MODULE Authorization ----------------------------
(***************************************************************************)
(* The authorization gate: AuthorizationService.request, approve, revoke    *)
(* and consume over the transitions of AuthorizationRepository, with expiry *)
(* applied when a record is read.                                           *)
(*                                                                         *)
(* approve and consume read a record, decide, and then write through a      *)
(* transition that looks at the status again.  The repository in this       *)
(* repository is in memory and its awaits do not suspend, so the two run    *)
(* together; suspends says whether a behaviour is of a repository over a      *)
(* database, which lets other calls in.                                     *)
(***************************************************************************)
EXTENDS Integers, Sequences, FiniteSets, SequencesExt

CONSTANTS
  Auths,        \* authorization ids that may be handed out
  Actions,      \* financial actions, told apart by their fingerprint
  People,       \* users whose role may approve; they may also request
  Tasks,        \* concurrent calls of approve and consume
  Quorum,       \* quorum_approvals of the merchant's policy
  None          \* nobody, nothing

ASSUME QuorumAssumption == Quorum \in Nat
ASSUME NoneAssumption == None \notin Auths \union Actions \union People

VARIABLES
  status,       \* status[a]: status of the record, "absent" before it exists
  opened,       \* opened[a]: what policy and risk said when it was requested
  approvers,    \* approvers[a]: approver_id of the approvals, in order
  late,         \* the records whose expires_at is past
  task,         \* task[t]: the call whose checks passed and that has yet to write
  uses,         \* history: uses[a]: actions presented to successful consumes
  suspends      \* whether the repository's awaits let another task run

vars == <<status, opened, approvers, late, task, uses, suspends>>

Outcome == {"allow", "escalate", "deny"}
RiskBand == {"low", "medium", "high"}
Unscored == "unscored"
TERMINAL == {"denied", "consumed", "expired", "revoked"}
Status == {"absent", "pending", "approved"} \union TERMINAL

Opening == [action : Actions \union {None}, requested_by : People \union {None},
            outcome : Outcome, band : RiskBand \union {Unscored}, required : Nat]
TaskRecord == [op : {"idle", "approve", "revoke", "consume"}, auth : Auths \union {None},
               who : People \union {None}, action : Actions \union {None}]

NotOpened == [action |-> None, requested_by |-> None, outcome |-> "deny",
              band |-> Unscored, required |-> 0]
Idle == [op |-> "idle", auth |-> None, who |-> None, action |-> None]

Init ==
  /\ status = [a \in Auths |-> "absent"]
  /\ opened = [a \in Auths |-> NotOpened]
  /\ approvers = [a \in Auths |-> <<>>]
  /\ late = {}
  /\ task = [t \in Tasks |-> Idle]
  /\ uses = [a \in Auths |-> <<>>]
  /\ suspends \in BOOLEAN

-----------------------------------------------------------------------------

(* How many people must say yes: two at least to what risk scores high.     *)
RequiredApprovals(outcome, band) ==
  IF band = "high" THEN (IF Quorum > 2 THEN Quorum ELSE 2)
  ELSE IF outcome = "escalate" \/ band = "medium" THEN 1 ELSE 0

Create(a, action, who, outcome, band, required, first) ==
  /\ status[a] = "absent"
  /\ status' = [status EXCEPT ![a] = first]
  /\ opened' = [opened EXCEPT ![a] = [action |-> action, requested_by |-> who,
                  outcome |-> outcome, band |-> band, required |-> required]]
  /\ UNCHANGED <<approvers, late, task, uses, suspends>>

(* request, denied by policy: a record that is over, and that risk never    *)
(* scored.                                                                  *)
RequestDenied(a, action, who) ==
  Create(a, action, who, "deny", Unscored, 0, "denied")

(* request, scored by risk: approved at once when nobody has to say yes.    *)
Request(a, action, who, outcome, band) ==
  LET required == RequiredApprovals(outcome, band)
  IN Create(a, action, who, outcome, band, required,
            IF required = 0 THEN "approved" ELSE "pending")

(* Time passes over expires_at, which a denied record does not have.        *)
Tick(a) ==
  /\ status[a] \notin {"absent", "denied"} /\ a \notin late
  /\ late' = late \union {a}
  /\ UNCHANGED <<status, opened, approvers, task, uses, suspends>>

(* No call is between its checks and its write, or an await suspended it.   *)
Quiet == suspends \/ \A t \in Tasks : task[t] = Idle

(* mark_expired: a record that is over stays what it is.                    *)
MarkExpired(a) ==
  status' = [status EXCEPT ![a] = IF @ \in TERMINAL THEN @ ELSE "expired"]

(* get, which every operation calls first, on a record past its time.       *)
ReadLate(a) ==
  /\ a \in late
  /\ Quiet
  /\ MarkExpired(a)
  /\ UNCHANGED <<opened, approvers, late, task, uses, suspends>>

-----------------------------------------------------------------------------

(* A call whose checks on the record it read have passed.                   *)
StartWrite(t, op, a, who, action) ==
  /\ task[t] = Idle /\ Quiet
  /\ a \notin late
  /\ task' = [task EXCEPT ![t] = [op |-> op, auth |-> a, who |-> who, action |-> action]]
  /\ UNCHANGED <<status, opened, approvers, late, uses, suspends>>

(* Variant of CheckApprove: an approver may approve again.                  *)
CheckApproveAgain(t, a, who) ==
  /\ status[a] = "pending"
  /\ who # opened[a].requested_by
  /\ StartWrite(t, "approve", a, who, None)

(* approve, up to the write: pending, not one's own, not twice.             *)
CheckApprove(t, a, who) ==
  /\ status[a] = "pending"
  /\ who # opened[a].requested_by
  /\ ~Contains(approvers[a], who)
  /\ StartWrite(t, "approve", a, who, None)

Approve(t, from) ==
  LET a == task[t].auth
      all == Append(approvers[a], task[t].who)
  IN /\ task[t].op = "approve"
     /\ task' = [task EXCEPT ![t] = Idle]
     /\ IF status[a] \in from
        THEN /\ approvers' = [approvers EXCEPT ![a] = all]
             /\ status' = [status EXCEPT ![a] = IF Len(all) >= opened[a].required
                                                THEN "approved" ELSE @]
        ELSE UNCHANGED <<approvers, status>>
     /\ UNCHANGED <<opened, late, uses, suspends>>

(* append_approval looks at the status again, and at nothing else.          *)
AppendApproval(t) == Approve(t, {"pending"})

(* revoke, up to the write: the record exists.                              *)
CheckRevoke(t, a) ==
  /\ status[a] # "absent"
  /\ StartWrite(t, "revoke", a, None, None)

(* The repository's revoke: only what is not over yet.                      *)
Revoke(t) ==
  LET a == task[t].auth
  IN /\ task[t].op = "revoke"
     /\ task' = [task EXCEPT ![t] = Idle]
     /\ status' = [status EXCEPT ![a] = IF @ \in TERMINAL THEN @ ELSE "revoked"]
     /\ UNCHANGED <<opened, approvers, late, uses, suspends>>

(* Variant of CheckConsume: any action may be presented.                    *)
CheckConsumeUnscoped(t, a, action) ==
  /\ status[a] = "approved"
  /\ StartWrite(t, "consume", a, None, action)

(* consume, up to the write: approved, in time, and for this action.        *)
CheckConsume(t, a, action) ==
  /\ status[a] = "approved"
  /\ action = opened[a].action
  /\ StartWrite(t, "consume", a, None, action)

Consume(t, from) ==
  LET a == task[t].auth
  IN /\ task[t].op = "consume"
     /\ task' = [task EXCEPT ![t] = Idle]
     /\ IF status[a] \in from
        THEN /\ status' = [status EXCEPT ![a] = "consumed"]
             /\ uses' = [uses EXCEPT ![a] = Append(@, task[t].action)]
        ELSE UNCHANGED <<status, uses>>
     /\ UNCHANGED <<opened, approvers, late, suspends>>

(* mark_consumed looks at the status again; the loser of a race is refused. *)
MarkConsumed(t) == Consume(t, {"approved"})

-----------------------------------------------------------------------------
Next ==
  \/ \E a \in Auths :
       \/ \E action \in Actions, who \in People :
            \/ RequestDenied(a, action, who)
            \/ \E outcome \in Outcome \ {"deny"}, band \in RiskBand :
                 Request(a, action, who, outcome, band)
       \/ Tick(a) \/ ReadLate(a)
  \/ \E t \in Tasks :
       \/ \E a \in Auths, who \in People : CheckApprove(t, a, who)
       \/ \E a \in Auths, action \in Actions : CheckConsume(t, a, action)
       \/ \E a \in Auths : CheckRevoke(t, a)
       \/ AppendApproval(t) \/ Revoke(t) \/ MarkConsumed(t)

Spec == Init /\ [][Next]_vars

-----------------------------------------------------------------------------
TypeOK ==
  /\ status \in [Auths -> Status]
  /\ opened \in [Auths -> Opening]
  /\ approvers \in [Auths -> Seq(People)]
  /\ late \in SUBSET Auths
  /\ task \in [Tasks -> TaskRecord]
  /\ uses \in [Auths -> Seq(Actions)]
  /\ suspends \in BOOLEAN

(* The people who approved a, the requester left out.                       *)
OthersWhoApproved(a) ==
  {approvers[a][i] : i \in DOMAIN approvers[a]} \ {opened[a].requested_by}

(* No self-approval and no double counting: an authorization reads approved *)
(* or was spent only if as many other people said yes as risk asked for.    *)
ApprovedByEnoughOthers ==
  \A a \in Auths : status[a] \in {"approved", "consumed"} =>
    Cardinality(OthersWhoApproved(a)) >= opened[a].required

(* What risk flagged high needs two other people, whatever the policy says. *)
HighRiskNeedsTwo ==
  \A a \in Auths : status[a] \in {"approved", "consumed"} /\ opened[a].band = "high" =>
    Cardinality(OthersWhoApproved(a)) >= 2

(* No self-approval and no double counting while calls run whole: what      *)
(* reads approved or was spent had as many other people saying yes as risk  *)
(* asked for, and two at least where it scored high.                        *)
FourEyesWhenWhole == ~suspends => ApprovedByEnoughOthers /\ HighRiskNeedsTwo

(* A record that is over never moves again.                                 *)
TerminalIsFinal ==
  [][\A a \in Auths : status[a] \in TERMINAL => status'[a] = status[a]]_vars

(* Where a record is in the life that SingleUse gives it.                   *)
GrantOf(a) ==
  CASE status[a] = "absent" -> "absent"
    [] status[a] = "pending" -> "asked"
    [] status[a] = "approved" -> "granted"
    [] status[a] = "consumed" -> "used"
    [] OTHER -> "over"

SU == INSTANCE SingleUse
        WITH grant <- [a \in Auths |-> GrantOf(a)],
             scope <- [a \in Auths |-> {opened[a].action} \ {None}]

(* The gate grants, and is used once, for the action it was asked for.      *)
ImplementsSingleUse == SU!Spec
=============================================================================
