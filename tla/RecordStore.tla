---------------------------- MODULE RecordStore ----------------------------
(***************************************************************************)
(* The authoritative store of membrain: one table of memory records, seen  *)
(* as a function from record ids to records, and the operations every      *)
(* service performs on it (src/membrain/pkg/storage/store.go, implemented  *)
(* by sqlite.go and postgres.go).                                          *)
(*                                                                         *)
(* The operations are operators on a store VALUE, so that the same         *)
(* definitions serve the committed store (variable store) and the private  *)
(* view of a transaction that is still open (module RevisionTx).           *)
(*                                                                         *)
(* Abstractions.  Salience is counted in units, MaxSalience of them being  *)
(* the code's 1.0.  The audit log is the set of actions it has entries     *)
(* for, the relations the set of their (predicate, target) pairs.  The     *)
(* content of a record (triple, event kind, tool signature) is one member  *)
(* of Facts.  Confidence, scope, tags, sensitivity and timestamps are left *)
(* out.                                                                    *)
(***************************************************************************)
EXTENDS Integers

CONSTANTS
    Ids,          \* the record ids a behaviour may use up
    NoId,         \* the empty id string
    NoRecord,     \* what the table holds for an id without a row
    Facts,        \* the contents a record may have
    MaxSalience   \* units of salience in 1.0

VARIABLES
    store,        \* the committed rows
    used          \* ids handed out so far (uuid.New never repeats one)

MemoryType     == {"episodic", "working", "semantic", "competence", "plan_graph"}
RevisionStatus == {"none", "active", "contested", "retracted"}
DeletionPolicy == {"auto_prune", "manual_only", "never"}
Outcome        == {"none", "success", "failure", "partial"}
AuditAction    == {"create", "revise", "fork", "merge", "delete",
                   "reinforce", "decay"}
Predicate      == {"supersedes", "derived_from", "contested_by"}
Salience       == 0 .. MaxSalience
Relation       == [predicate : Predicate, target : Ids]

Record ==
    [type         : MemoryType,
     fact         : Facts,
     salience     : Salience,
     floor        : Salience,             \* Lifecycle.Decay.MinSalience
     gain         : Salience,             \* Lifecycle.Decay.ReinforcementGain
     ages         : BOOLEAN,              \* Lifecycle.Decay.MaxAgeSeconds > 0
     pinned       : BOOLEAN,
     policy       : DeletionPolicy,
     outcome      : Outcome,              \* EpisodicPayload.Outcome
     evidence     : BOOLEAN,              \* evidence or provenance is not empty
     status       : RevisionStatus,       \* SemanticPayload.Revision.Status
     supersedes   : Ids \cup {NoId},      \* SemanticPayload.Revision.Supersedes
     supersededBy : Ids \cup {NoId},
     relations    : SUBSET Relation,
     audit        : SUBSET AuditAction]

ASSUME RecordStoreAssumption ==
    /\ NoId \notin Ids
    /\ NoRecord \notin Record
    /\ MaxSalience \in Nat \ {0}

StoreType == [Ids -> Record \cup {NoRecord}]

StoreTypeOK == store \in StoreType /\ used \subseteq Ids

-----------------------------------------------------------------------------
(* Helpers.                                                                *)

Exists(s, i) == s[i] # NoRecord
Live(s)      == {i \in Ids : Exists(s, i)}
OfType(s, t) == {i \in Live(s) : s[i].type = t}
Rel(p, i)    == [predicate |-> p, target |-> i]
AtLeast(v, low)  == IF v < low THEN low ELSE v
AtMost(v, high)  == IF v > high THEN high ELSE v

\* The foreign key of the relations table: a row needs both of its records.
TargetsExist(s, r) == \A rel \in r.relations : Exists(s, rel.target)

\* An id no record ever had.  An id that is taken makes INSERT fail with
\* ErrAlreadyExists, which changes nothing.
FreshUpsert(i) == TRUE   \* wrong: INSERT OR REPLACE
Fresh(i) == i \notin used

-----------------------------------------------------------------------------
(* Store operations.                                                       *)

CreateRecord(s, i, r) == [s EXCEPT ![i] = r]

\* UPDATE rewrites the row, the decay profile, the payload and the relations
\* from the record it is given, and leaves the audit_log table alone.
UpdateRecordWhole(s, i, r) == [s EXCEPT ![i] = r]   \* wrong: rewrites the log
UpdateRecord(s, i, r) == [s EXCEPT ![i] = [r EXCEPT !.audit = s[i].audit]]

\* ON DELETE CASCADE takes the relations that point at the record with it.
DeleteRecordOnly(s, i) == [s EXCEPT ![i] = NoRecord]   \* wrong: no cascade
DeleteRecord(s, i) ==
    [j \in Ids |->
        IF j = i \/ ~Exists(s, j)
        THEN NoRecord
        ELSE [s[j] EXCEPT !.relations = {rel \in s[j].relations : rel.target # i}]]

UpdateSalience(s, i, v) == [s EXCEPT ![i] = [s[i] EXCEPT !.salience = v]]

AddAuditEntry(s, i, a) ==
    [s EXCEPT ![i] = [s[i] EXCEPT !.audit = s[i].audit \cup {a}]]

AddRelation(s, i, rel) ==
    [s EXCEPT ![i] = [s[i] EXCEPT !.relations = s[i].relations \cup {rel}]]

InitStore == store = [i \in Ids |-> NoRecord] /\ used = {}
=============================================================================
