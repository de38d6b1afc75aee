----------------------------- MODULE TenantStore -----------------------------
(* The SQL layer (api/db): requests borrow pooled connections, pin the      *)
(* connection's transaction to one tenant, and change rows by conditional   *)
(* UPDATEs and INSERTs under READ COMMITTED and row-level security.         *)
(* A statement that would wait for a row another transaction has written is *)
(* not enabled until that transaction ends; a statement that matches no row *)
(* changes nothing and is left out, one that breaks a CHECK or a unique key *)
(* aborts its transaction.                                                  *)
EXTENDS Integers, Sequences, FiniteSets, SequencesExt

CONSTANTS
  Tenants, NoTenant,      \* NoTenant: a session that was never pinned
  Conns,                  \* the connections of the pool
  Campaigns, Products, Orders, PaymentIds,   \* the row ids
  SeedRows,               \* the campaigns and products the tables start with
  NoRow,                 \* no such row
  Sums,                   \* the amounts of a statement
  Refs,                   \* the references a settlement names
  MaxOps, MaxWrites       \* bounds: statements of a transaction, committed changes

RowIds == Campaigns \union Products \union Orders \union PaymentIds

VARIABLES
  table,       \* the committed version of each row
  ledger,     \* the committed lines of budget_ledger: a set, see LedgerLine
  tenantPin,  \* app.tenant_id on each connection, NoTenant when unset
  tx,         \* the open transaction of each connection, or NoRow
  history     \* the committed changes, in commit order

tenantVars == <<table, ledger, tenantPin, tx, history>>

TableRow ==
  [owner : Tenants, active : BOOLEAN, cap : Int, reserved : Int, spent : Int,
   settled : Refs \union {NoRow}]

RowChange ==
  [id : RowIds, who : Tenants \union {NoTenant}, from : TableRow \union {NoRow}, to : TableRow]

(* A line's other columns say nothing of when it was written: created_at is *)
(* NOW(), when its transaction began, and id is random.  So the table has   *)
(* no order here, and lines of the same contents count once.                *)
LedgerLine ==
  [type : {"reserve", "release", "spend"}, campaign : Campaigns, amount : Int, balance : Int]

Transaction ==
  [who : Tenants \union {NoTenant}, wrote : [RowIds -> TableRow \union {NoRow}],
   changes : Seq(RowChange), entries : SUBSET LedgerLine, aborted : BOOLEAN]

ASSUME TenantAssumption ==
  /\ NoTenant \notin Tenants /\ NoRow \notin TableRow /\ NoRow \notin Transaction
  /\ DOMAIN SeedRows \subseteq RowIds /\ \A id \in DOMAIN SeedRows : SeedRows[id] \in TableRow
  /\ Campaigns \intersect (Products \union Orders \union PaymentIds) = {}
  /\ Sums \subseteq Int /\ MaxOps \in Nat /\ MaxWrites \in Nat

NewRow(owner) ==
  [owner |-> owner, active |-> TRUE, cap |-> 0, reserved |-> 0, spent |-> 0, settled |-> NoRow]

Remaining(row) == row.cap - row.reserved - row.spent

(* Variant of KeepsChecks: the tables without their CHECKs. *)
KeepsChecksNone(row) == TRUE

(* campaigns_budget_not_exceeded and products_reserved_lte_on_hand *)
KeepsChecks(row) == row.reserved + row.spent <= row.cap

-----------------------------------------------------------------------------
(* The version a statement of k works on: its own write, or what is         *)
(* committed when it runs.                                                  *)
Version(k, id) == IF tx[k].wrote[id] # NoRow THEN tx[k].wrote[id] ELSE table[id]

(* Variant of Lockable: nobody waits for another transaction's write.      *)
LockableAlways(k, id) == TRUE

(* The row lock of an UPDATE, and the index entry of an INSERT, are held    *)
(* until the transaction ends.                                              *)
Lockable(k, id) == \A other \in Conns \ {k} : tx[other] # NoRow => tx[other].wrote[id] = NoRow

(* The policy tenant_isolation: the row belongs to the pinned tenant. *)
Seen(k, id) ==
  /\ Version(k, id) # NoRow
  /\ tenantPin[k] # NoTenant
  /\ Version(k, id).owner = tenantPin[k]

Running(k) == tx[k] # NoRow /\ ~tx[k].aborted /\ Len(tx[k].changes) < MaxOps

(* What transaction t holds after one more change and its ledger line.      *)
Written(t, id, from, new, entries) ==
  [t EXCEPT !.wrote = [@ EXCEPT ![id] = new],
            !.changes = Append(@, [id |-> id, who |-> t.who, from |-> from, to |-> new]),
            !.entries = @ \union entries]

(* One UPDATE or INSERT, and the ledger line written after it; a broken     *)
(* CHECK aborts the transaction instead.                                    *)
Execute(k, id, new, entries) ==
  /\ \/ /\ KeepsChecks(new)
        /\ tx' = [tx EXCEPT ![k] = Written(tx[k], id, Version(k, id), new, entries)]
     \/ /\ ~KeepsChecks(new)
        /\ tx' = [tx EXCEPT ![k].aborted = TRUE]
  /\ UNCHANGED <<table, ledger, tenantPin, history>>

Entry(type, id, n, new) ==
  {[type |-> type, campaign |-> id, amount |-> n, balance |-> Remaining(new)]}

-----------------------------------------------------------------------------
(* A request borrows a connection: tenant_session and get_tenant_db pin it  *)
(* to the tenant of the principal, get_db leaves the setting as it finds it.*)
Begin(k, who) ==
  /\ tx[k] = NoRow
  /\ tx' = [tx EXCEPT ![k] = [who |-> who, wrote |-> [id \in RowIds |-> NoRow], changes |-> <<>>,
                              entries |-> {}, aborted |-> FALSE]]
  /\ tenantPin' = [tenantPin EXCEPT ![k] = IF who = NoTenant THEN @ ELSE who]
  /\ UNCHANGED <<table, ledger, history>>

(* Variant of PinAfterEnd: the setting belongs to the connection.          *)
PinAfterEndKept(p) == p

(* Statements of set_config(..., true) last as long as the transaction. *)
PinAfterEnd(p) == NoTenant

Commit(k) ==
  /\ tx[k] # NoRow
  /\ ~tx[k].aborted
  /\ Len(history) + Len(tx[k].changes) <= MaxWrites
  /\ table' = [id \in RowIds |-> Version(k, id)]
  /\ ledger' = ledger \union tx[k].entries
  /\ history' = history \o tx[k].changes
  /\ tx' = [tx EXCEPT ![k] = NoRow]
  /\ tenantPin' = [tenantPin EXCEPT ![k] = PinAfterEnd(@)]

(* The request raised: an error of its own, a statement of its own that was *)
(* refused, or the database broke a deadlock.                               *)
Rollback(k) ==
  /\ tx[k] # NoRow
  /\ tx' = [tx EXCEPT ![k] = NoRow]
  /\ tenantPin' = [tenantPin EXCEPT ![k] = PinAfterEnd(@)]
  /\ UNCHANGED <<table, ledger, history>>

-----------------------------------------------------------------------------
Given(row, n) == [row EXCEPT !.reserved = IF @ > n THEN @ - n ELSE 0]    \* GREATEST(... - n, 0)

Updates(k, id) == Running(k) /\ Lockable(k, id) /\ Seen(k, id)

ReserveBudget(k, c, n) ==
  /\ Updates(k, c)
  /\ Version(k, c).active
  /\ n <= Remaining(Version(k, c))
  /\ LET new == [Version(k, c) EXCEPT !.reserved = @ + n]
     IN  Execute(k, c, new, Entry("reserve", c, n, new))

ReleaseBudget(k, c, n) ==
  /\ Updates(k, c)
  /\ LET new == Given(Version(k, c), n) IN Execute(k, c, new, Entry("release", c, n, new))

CommitSpend(k, c, n) ==
  /\ Updates(k, c)
  /\ LET new == [Given(Version(k, c), n) EXCEPT !.spent = @ + n]
     IN  Execute(k, c, new, Entry("spend", c, n, new))

ReserveStock(k, p, n) ==
  /\ Updates(k, p)
  /\ Version(k, p).active
  /\ n <= Remaining(Version(k, p))
  /\ Execute(k, p, [Version(k, p) EXCEPT !.reserved = @ + n], {})

ReleaseStock(k, p, n) ==
  /\ Updates(k, p)
  /\ Execute(k, p, Given(Version(k, p), n), {})

(* The tenant of a new row is the session's; a session without one raises,  *)
(* and an id or idempotency key already taken breaks its unique key.        *)
Inserts(k, id) ==
  /\ Running(k)
  /\ Lockable(k, id)
  /\ tenantPin[k] # NoTenant
  /\ IF Version(k, id) = NoRow
     THEN Execute(k, id, NewRow(tenantPin[k]), {})
     ELSE /\ tx' = [tx EXCEPT ![k].aborted = TRUE]
          /\ UNCHANGED <<table, ledger, tenantPin, history>>

CreatePending(k, o) == Inserts(k, o)

CreatePayment(k, p) == Inserts(k, p)

MarkPaid(k, o, ref) ==
  /\ Updates(k, o)
  /\ Version(k, o).settled = NoRow
  /\ Execute(k, o, [Version(k, o) EXCEPT !.settled = ref], {})

MarkCaptured(k, p, ref) ==
  /\ Updates(k, p)
  /\ Version(k, p).settled = NoRow
  /\ Execute(k, p, [Version(k, p) EXCEPT !.settled = ref], {})

-----------------------------------------------------------------------------
FirstVersion == [id \in RowIds |-> IF id \in DOMAIN SeedRows THEN SeedRows[id] ELSE NoRow]

TenantInit ==
  /\ table = FirstVersion
  /\ ledger = {}
  /\ tenantPin = [k \in Conns |-> NoTenant]
  /\ tx = [k \in Conns |-> NoRow]
  /\ history = <<>>

TenantNext ==
  \E k \in Conns :
    \/ \E who \in Tenants \union {NoTenant} : Begin(k, who)
    \/ Commit(k)
    \/ Rollback(k)
    \/ \E c \in Campaigns, n \in Sums :
         ReserveBudget(k, c, n) \/ ReleaseBudget(k, c, n) \/ CommitSpend(k, c, n)
    \/ \E p \in Products, n \in Sums : ReserveStock(k, p, n) \/ ReleaseStock(k, p, n)
    \/ \E o \in Orders : CreatePending(k, o) \/ \E ref \in Refs : MarkPaid(k, o, ref)
    \/ \E p \in PaymentIds : CreatePayment(k, p) \/ \E ref \in Refs : MarkCaptured(k, p, ref)

TenantSpec == TenantInit /\ [][TenantNext]_tenantVars

TenantTypeOK ==
  /\ table \in [RowIds -> TableRow \union {NoRow}]
  /\ ledger \subseteq LedgerLine
  /\ tenantPin \in [Conns -> Tenants \union {NoTenant}]
  /\ tx \in [Conns -> Transaction \union {NoRow}]
  /\ history \in Seq(RowChange) /\ Len(history) <= MaxWrites

-----------------------------------------------------------------------------
(* s[j] is the next change of its row after s[i]. *)
Follows(s, i, j) == i < j /\ s[i].id = s[j].id /\ \A n \in (i + 1)..(j - 1) : s[n].id # s[j].id

(* Each change of s was made from the version the change of the row before  *)
(* it left, and the first from what the row was at the start.               *)
Linked(s, start) ==
  \A j \in DOMAIN s :
    /\ (\A i \in 1..(j - 1) : s[i].id # s[j].id) => s[j].from = start[s[j].id]
    /\ \A i \in DOMAIN s : Follows(s, i, j) => s[j].from = s[i].to

(* The last change of each row of s left it at its end.                     *)
LeadsTo(s, start, end) ==
  \A id \in RowIds :
    /\ (\A i \in DOMAIN s : s[i].id # id) => end[id] = start[id]
    /\ \A i \in DOMAIN s :
         s[i].id = id /\ (\A n \in (i + 1)..Len(s) : s[n].id # id) => end[id] = s[i].to

(* Each change of a campaign has a line with the balance it left, and each  *)
(* line is of such a change.                                                *)
Recorded(s, lines) ==
  LET Explains(line, change) ==
        line.campaign = change.id /\ line.balance = Remaining(change.to)
  IN /\ \A i \in DOMAIN s : s[i].id \in Campaigns => \E line \in lines : Explains(line, s[i])
     /\ \A line \in lines : \E i \in DOMAIN s : Explains(line, s[i])

(* "So two callers racing for the last rupee cannot both succeed": the      *)
(* committed changes of a row form one chain, each made from the version    *)
(* the change before it left, that ends in the row; and budget_ledger has a *)
(* line for every movement of a campaign, and for none that did not commit. *)
(* Which line is the newest it does not say (LedgerLine).                   *)
ChangesFormOneChain ==
  /\ Linked(history, FirstVersion)
  /\ LeadsTo(history, FirstVersion, table)
  /\ Recorded(history, ledger)

(* A pin "cannot leak to the next borrower of the pooled connection":       *)
(* whatever was committed through a connection before, a request changes    *)
(* only rows of the tenant it came for, and none when it never named one.    *)
RequestsChangeTheirOwn ==
  \A i \in 1..Len(history) : history[i].to.owner = history[i].who

(* "Postgres takes a row lock for the update and re-evaluates the WHERE     *)
(* clause under that lock": however their statements interleave, requests   *)
(* take effect as if each ran alone when it committed, for its own tenant,  *)
(* on the rows as they then are, and what settled a row goes on settling it.*)
Serial == INSTANCE SerialStore WITH rows <- table, log <- history

ImplementsSerialStore == Serial!Spec
=============================================================================
