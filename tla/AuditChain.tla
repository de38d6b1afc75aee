----------------------------- MODULE AuditChain -----------------------------
(***************************************************************************)
(* The audit ledger of a merchant, whose entries commit to the one before,  *)
(* and the passport of one payment, a signed extract of it.  The older      *)
(* TransactionPassport chains its entries the same way, without numbers.    *)
(*                                                                         *)
(* Someone who can write the store may change rows after they were written; *)
(* the chain does not stop that, it is meant to show it.  A hash is the     *)
(* body it was computed from: no two bodies share one.                      *)
(***************************************************************************)
EXTENDS Integers, FiniteSets, SequencesExt

CONSTANTS
  Payment, ItsOrder, Other,  \* what entries are about; the rest of a body is
                             \* edited and hashed alike, and left out
  ExportLimit,  \* entries of one subject a passport takes at most
  MaxEntries,   \* bound: entries
  MaxChanges    \* bound: changes to rows already written

ASSUME AuditAssumption == {ExportLimit, MaxEntries, MaxChanges} \subseteq Nat

VARIABLES
  rows,         \* the chain as it is stored
  changes,      \* changes to rows made so far
  kept          \* the head hash somebody kept, and the rows it was the head of

auditVars == <<rows, changes, kept>>

EntrySubjects == {Payment, ItsOrder, Other}

(* GENESIS_HASH, which is the hash of no body.  Also: no head is kept.      *)
Genesis == <<>>

-----------------------------------------------------------------------------
(* Variant of Hash: the link is stored beside the body.                     *)
HashUnlinked(e) == [seq |-> e.seq, about |-> e.about]

(* hashable_body, hashed: every field but the hash.                         *)
Hash(e) == [seq |-> e.seq, about |-> e.about, prev |-> e.prev]

(* An entry with its hash. *)
Rehashed(e) == [e EXCEPT !.hash = Hash(e)]

HeadHash(es) == IF es = <<>> THEN Genesis ELSE Last(es).hash

HashMatches(e) == e.hash = Hash(e)

(* AuditLedger.verify, and verify_exported_chain of a whole chain.          *)
Verified(es) ==
  \A i \in DOMAIN es :
    /\ es[i].seq = i
    /\ HashMatches(es[i])
    /\ es[i].prev = HeadHash(SubSeq(es, 1, i - 1))

(* TransactionPassport.verify: entries have an id and no number.            *)
VerifiedUnnumbered(es) ==
  \A i \in DOMAIN es : HashMatches(es[i]) /\ es[i].prev = HeadHash(SubSeq(es, 1, i - 1))

(* Variant of VerifiedExtract: an extract must not skip numbers.            *)
VerifiedExtractContiguous(es) ==
  /\ \A i \in DOMAIN es : HashMatches(es[i])
  /\ \A i \in 2..Len(es) : es[i].seq = es[i - 1].seq + 1 /\ es[i].prev = es[i - 1].hash

(* verify_exported_chain, contiguous=False: numbers may skip.               *)
VerifiedExtract(es) ==
  /\ \A i \in DOMAIN es : HashMatches(es[i])
  /\ \A i \in 2..Len(es) :
       /\ es[i].seq > es[i - 1].seq
       /\ es[i].seq = es[i - 1].seq + 1 => es[i].prev = es[i - 1].hash

(* verify_passport: the signature is of this body, and its chain holds.     *)
VerifiedPassport(p) == p.signature = p.body /\ VerifiedExtract(p.body)

-----------------------------------------------------------------------------
AuditInit == rows = <<>> /\ changes = 0 /\ kept = Genesis

(* append (and TransactionPassport.add_entry).                              *)
Record(about) ==
  /\ Len(rows) < MaxEntries
  /\ LET e == [seq |-> Len(rows) + 1, about |-> about,
               prev |-> HeadHash(rows), hash |-> Genesis]
     IN rows' = Append(rows, Rehashed(e))
  /\ UNCHANGED <<changes, kept>>

(* A verifier keeps the head_hash of a chain that verifies.                 *)
KeepHead ==
  /\ kept = Genesis
  /\ Verified(rows)
  /\ kept' = [hash |-> HeadHash(rows), rows |-> rows]
  /\ UNCHANGED <<rows, changes>>

(* entries_for, its first page: where they are.                             *)
EntriesFor(about) ==
  {i \in DOMAIN rows :
     rows[i].about = about /\ Cardinality({j \in 1..i : rows[j].about = about}) <= ExportLimit}

(* PassportService.issue for the payment: both pages, by number.            *)
Passport ==
  LET pages == EntriesFor(Payment) \union EntriesFor(ItsOrder)
      places == 1..Cardinality(pages)
      sorted == CHOOSE f \in [places -> pages] :
                  \A i, j \in places : i < j => f[i] # f[j] /\ rows[f[i]].seq <= rows[f[j]].seq
      body == [i \in places |-> rows[sorted[i]]]
  IN [body |-> body, signature |-> body]

(* A row is edited, linked or numbered anew, hashed again or not; or it is  *)
(* removed, or moved.  Bound: once a head is kept; before, nobody could tell.*)
Change ==
  /\ kept # Genesis /\ changes < MaxChanges
  /\ changes' = changes + 1
  /\ \E i \in DOMAIN rows :
       \/ \E v \in EntrySubjects, prev \in {rows[i].prev, HeadHash(SubSeq(rows, 1, i - 1))},
             seq \in {rows[i].seq, i} :
            LET e == [rows[i] EXCEPT !.about = v, !.prev = prev, !.seq = seq]
            IN \E f \in {e, Rehashed(e)} : f # rows[i] /\ rows' = [rows EXCEPT ![i] = f]
       \/ rows' = RemoveAt(rows, i)
       \/ i > 1 /\ rows' = [rows EXCEPT ![i] = rows[i - 1], ![i - 1] = rows[i]]
  /\ UNCHANGED kept

AuditNext ==
  \/ \E about \in EntrySubjects : Record(about)
  \/ KeepHead
  \/ Change

AuditSpec == AuditInit /\ [][AuditNext]_auditVars

-----------------------------------------------------------------------------
AuditTypeOK ==
  /\ Len(rows) <= MaxEntries
  /\ \A i \in DOMAIN rows : rows[i].about \in EntrySubjects

(* "A reader who kept only the head hash can detect that the history        *)
(* changed": whatever was done to the stored rows, when the chain verifies  *)
(* and still has the kept hash at some entry, it has the kept history up to *)
(* there; numbered or not.                                                  *)
KeptHeadPinsHistory ==
  kept # Genesis /\ VerifiedUnnumbered(rows) =>
    \A i \in DOMAIN rows : rows[i].hash = kept.hash => SubSeq(rows, 1, i) = kept.rows

(* No false alarm: a chain nobody changed verifies, and so does the         *)
(* passport of a payment in it, whose entries lie among others.             *)
HonestHistoryVerifies ==
  changes = 0 =>
    Verified(rows) /\ VerifiedUnnumbered(rows) /\ VerifiedPassport(Passport)
=============================================================================
