----------------------------- MODULE RevisionTx -----------------------------
(***************************************************************************)
(* The revision service with its transactions open: storage.WithTransaction*)
(* (src/membrain/pkg/storage/transaction.go) around the statements of each *)
(* operation, several of them at once, next to ingestion and pruning.      *)
(*                                                                         *)
(* Both stores begin a transaction at the level Serializable.  It reads a  *)
(* snapshot; when a row it rewrites was changed by another transaction     *)
(* since, or a row it refers to is gone, the database refuses the write or *)
(* the commit, and the operation fails.  What it inserts, audit entries    *)
(* and relations, joins what other transactions inserted.                  *)
(*                                                                         *)
(* The abstract specification is module Revision, where an operation is    *)
(* one step on the committed store: property AtomicRevisions.              *)
(***************************************************************************)
EXTENDS Revision, FiniteSets, SequencesExt

CONSTANTS
    Sessions,     \* concurrent calls of the revision service
    Readers,      \* concurrent calls of GetRecord
    NoTx,         \* a session without a transaction, a reader without a read
    MaxCalls      \* how many calls of the revision service a behaviour has

VARIABLES
    txs,          \* per session: its open transaction
    begun,        \* calls begun so far
    reads         \* per reader: the parts read so far, and what there was to see

ASSUME RevisionTxAssumption == MaxCalls \in Nat

txVars == <<store, used, txs, begun, reads>>

\* What a revision writes, one store call each.
Update(i, r)   == [op |-> "update", id |-> i, row |-> r]
Audit(i, a)    == [op |-> "audit", id |-> i, action |-> a]
Relate(i, rel) == [op |-> "relate", id |-> i, rel |-> rel]
Insert(i, r)   == [op |-> "create", id |-> i, row |-> r]

Executed(s, st) ==
    CASE st.op = "update" -> UpdateRecord(s, st.id, st.row)
      [] st.op = "audit"  -> AddAuditEntry(s, st.id, st.action)
      [] st.op = "relate" -> AddRelation(s, st.id, st.rel)
      [] st.op = "create" -> CreateRecord(s, st.id, st.row)

After(s, calls) ==
    LET upTo[n \in 0 .. Len(calls)] ==
            IF n = 0 THEN s ELSE Executed(upTo[n - 1], calls[n])
    IN  upTo[Len(calls)]

-----------------------------------------------------------------------------
(* The statements of an operation, computed from the records it got.       *)

SupersedeCalls(s, old, new, d) ==
    <<Update(old, Superseded(s[old], new, d)), Audit(old, "revise"),
      Insert(new, Successor(old, d))>>

ForkCalls(source, new, d) ==
    <<Audit(source, "fork"), Insert(new, Derived(d, "derived_from", {source}))>>

MergeCalls(s, ids, new, d) ==
    [k \in DOMAIN ids |-> Update(ids[k], Retracted(s[ids[k]]))]
      \o [k \in DOMAIN ids |-> Audit(ids[k], "merge")]
      \o <<Insert(new, Derived(d, "derived_from", Range(ids)))>>

RetractCalls(s, i) == <<Update(i, Retracted(s[i])), Audit(i, "delete")>>

ContestCalls(s, i, ref) ==
    <<Update(i, Contested(s[i]))>>
      \o (IF ref = NoId THEN <<>> ELSE <<Relate(i, Rel("contested_by", ref))>>)
      \o <<Audit(i, "revise")>>

-----------------------------------------------------------------------------
\* Ids that open transactions are about to insert.  No two callers choose the
\* same id; an id that is taken all the same fails the insert (Rollback).
Reserved == {txs[c].new : c \in {x \in Sessions : txs[x] # NoTx}}

Unreserved == Ids \ (used \cup Reserved)

Open(c, new, calls) ==
    /\ txs[c] = NoTx
    /\ begun < MaxCalls
    /\ begun' = begun + 1
    /\ txs' = [txs EXCEPT ![c] = [base |-> store, new |-> new,
                                  calls |-> calls, done |-> 0]]
    /\ UNCHANGED <<store, used>>

\* Begin, Get and the checks.  A check that fails rolls back with nothing
\* written.
OpenSupersede(c, old, new, d) ==
    CanSupersede(store, old, d) /\ Open(c, new, SupersedeCalls(store, old, new, d))

OpenFork(c, source, new, d) ==
    CanFork(store, source, d) /\ Open(c, new, ForkCalls(source, new, d))

OpenMerge(c, ids, new, d) ==
    CanMerge(store, Range(ids), d) /\ Open(c, new, MergeCalls(store, ids, new, d))

OpenRetract(c, i) ==
    Revisable(store, i) /\ Open(c, NoId, RetractCalls(store, i))

OpenContest(c, i, ref) ==
    Revisable(store, i) /\ Open(c, NoId, ContestCalls(store, i, ref))

\* The next statement.  The foreign key refuses a relation to a record the
\* snapshot does not have.
Execute(c) ==
    /\ txs[c] # NoTx
    /\ txs[c].done < Len(txs[c].calls)
    /\ LET st == txs[c].calls[txs[c].done + 1]
       IN  st.op = "relate" => Exists(txs[c].base, st.rel.target)
    /\ txs' = [txs EXCEPT ![c].done = txs[c].done + 1]
    /\ UNCHANGED <<store, used, begun>>

\* The rows a statement inserts find the rows they refer to.
Inserts(st) ==
    CASE st.op = "update" -> Exists(store, st.id)
      [] st.op = "audit"  -> Exists(store, st.id)
      [] st.op = "relate" -> Exists(store, st.id) /\ Exists(store, st.rel.target)
      [] st.op = "create" -> ~Exists(store, st.id) /\ TargetsExist(store, st.row)

\* And the row an update rewrites is the one the transaction read.
Serializable(c) ==
    \A st \in Range(txs[c].calls) :
        Inserts(st) /\ (st.op = "update" => store[st.id] = txs[c].base[st.id])

CommitIf(c, admitted) ==
    /\ txs[c] # NoTx
    /\ txs[c].done = Len(txs[c].calls)
    /\ admitted
    /\ store' = After(store, txs[c].calls)
    /\ used' = used \cup ({txs[c].new} \ {NoId})
    /\ txs' = [txs EXCEPT ![c] = NoTx]
    /\ UNCHANGED begun

\* Wrong: a weaker isolation level, where the last writer wins.
CommitAnyway(c) == CommitIf(c, \A st \in Range(txs[c].calls) : Inserts(st))
Commit(c)       == CommitIf(c, Serializable(c))

\* A statement or the commit fails, the function panics, or the process dies.
Rollback(c) ==
    /\ txs[c] # NoTx
    /\ txs' = [txs EXCEPT ![c] = NoTx]
    /\ UNCHANGED <<store, used, begun>>

-----------------------------------------------------------------------------
(* The other services: ingestion creates records, sweeps delete them.      *)

Created(i, r) ==
    /\ i \in Unreserved
    /\ store' = CreateRecord(store, i, r)
    /\ used' = used \cup {i}

Pruned(i) ==
    /\ Exists(store, i)
    /\ store[i].salience = 0
    /\ store' = DeleteRecord(store, i)
    /\ UNCHANGED used

OtherServices ==
    \/ \E i \in Ids, d \in Drafts :
         HasEvidence(d.rec) /\ Created(i, [d.rec EXCEPT !.audit = {"create"}])
    \/ \E i \in Ids : Pruned(i)

-----------------------------------------------------------------------------
(* GetRecord (getRecord of the store): one query per table, outside any    *)
(* transaction.  seen gathers the versions of the record there were while  *)
(* the read went on.                                                       *)

TablesAuditFirst ==   \* wrong: the log before the payload
    <<{"type", "salience"}, {"floor", "gain", "ages", "pinned", "policy"},
      {"audit"}, {"relations"},
      {"fact", "outcome", "evidence", "status", "supersedes", "supersededBy"}>>

Tables ==
    <<{"type", "salience"}, {"floor", "gain", "ages", "pinned", "policy"},
      {"fact", "outcome", "evidence", "status", "supersedes", "supersededBy"},
      {"relations"}, {"audit"}>>

\* What a query finds; nothing when the record was deleted since the first.
Columns(r, k) == IF r = NoRecord THEN NoRecord ELSE [x \in Tables[k] |-> r[x]]

ReadStart(c, i) ==
    /\ reads[c] = NoTx
    /\ Exists(store, i)
    /\ reads' = [reads EXCEPT ![c] =
           [id |-> i, got |-> <<Columns(store[i], 1)>>, seen |-> {store[i]}]]
    /\ UNCHANGED <<store, used, txs, begun>>

ReadTable(c) ==
    /\ reads[c] # NoTx
    /\ Len(reads[c].got) < Len(Tables)
    /\ LET r == store[reads[c].id]
       IN  reads' = [reads EXCEPT ![c].got =
                        Append(reads[c].got, Columns(r, Len(reads[c].got) + 1))]
    /\ UNCHANGED <<store, used, txs, begun>>

ReadEnd(c) ==
    /\ reads[c] # NoTx
    /\ Len(reads[c].got) = Len(Tables)
    /\ reads' = [reads EXCEPT ![c] = NoTx]
    /\ UNCHANGED <<store, used, txs, begun>>

Witnessed ==
    reads' = [c \in Readers |->
                 IF reads[c] = NoTx THEN NoTx
                 ELSE [reads[c] EXCEPT !.seen = reads[c].seen \cup {store'[reads[c].id]}]]

-----------------------------------------------------------------------------
TxInit ==
    /\ InitStore
    /\ txs = [c \in Sessions |-> NoTx]
    /\ begun = 0
    /\ reads = [c \in Readers |-> NoTx]

SessionNext(c) ==
    \/ \E old \in Ids, new \in Unreserved, d \in Drafts :
         OpenSupersede(c, old, new, d) \/ OpenFork(c, old, new, d)
    \/ \E sources \in SUBSET Ids, new \in Unreserved, d \in Drafts :
         /\ IsFiniteSet(sources)
         /\ \E ids \in SetToSeqs(sources) : OpenMerge(c, ids, new, d)
    \/ \E i \in Ids : OpenRetract(c, i)
    \/ \E i \in Ids, ref \in Refs : OpenContest(c, i, ref)
    \/ Execute(c)
    \/ Commit(c)
    \/ Rollback(c)

ReaderNext(c) ==
    \/ \E i \in Ids : ReadStart(c, i)
    \/ ReadTable(c)
    \/ ReadEnd(c)

TxNext ==
    \/ \E c \in Sessions : SessionNext(c) /\ Witnessed
    \/ OtherServices /\ UNCHANGED <<txs, begun>> /\ Witnessed
    \/ \E c \in Readers : ReaderNext(c)

TxSpec == TxInit /\ [][TxNext]_txVars

-----------------------------------------------------------------------------
\* Every committed change is one whole revision of the store as it is when it
\* commits, whatever other transactions, failures and rollbacks there were
\* between its statements; what is rolled back was never there.
AtomicRevisions == InitStore /\ [][RevisionNext \/ OtherServices]_<<store, used>>

ReadComplete(c) == reads[c] # NoTx /\ Len(reads[c].got) = Len(Tables)

\* The value of column x that a complete read returns.
Shown(c, x) ==
    LET k == CHOOSE n \in DOMAIN Tables : x \in Tables[n]
    IN  reads[c].got[k][x]

\* A read may mix versions of a record, but as the log is
\* read last and only grows, a retraction or a contest it shows comes with the
\* audit entry that explains it.
RevisionExplained ==
    \A c \in Readers :
        ReadComplete(c) /\ NoRecord \notin reads[c].seen =>
            /\ Shown(c, "status") = "retracted" =>
                   Shown(c, "audit") \cap {"revise", "merge", "delete"} # {}
            /\ Shown(c, "status") = "contested" => "revise" \in Shown(c, "audit")
=============================================================================
