------------------------------ MODULE Revision ------------------------------
(***************************************************************************)
(* The revision service (src/membrain/pkg/revision): supersede, fork,      *)
(* merge, retract and contest.  Every operation runs in one transaction    *)
(* (storage.WithTransaction), so here it is one step; a failed check rolls *)
(* the transaction back and changes nothing.  Module RevisionTx opens the  *)
(* transactions up and shows that they implement these steps.              *)
(*                                                                         *)
(* What an operation does to the store is an operator on store values      *)
(* (SupersededStore, ...), what it requires a predicate on them            *)
(* (CanSupersede, ...).                                                    *)
(***************************************************************************)
EXTENDS RecordStore

CONSTANTS
    Drafts,   \* the records clients hand to supersede, fork and merge
    Refs      \* what clients contest with: the ids they name, NoId for none

\* A draft comes without relations, audit entries or revision links of its
\* own.  Its type and its profile are the client's choice; named says that
\* the client chose the id too, instead of leaving it to the service.
Draft ==
    {d \in [rec : Record, named : BOOLEAN] :
        /\ d.rec.relations = {}
        /\ d.rec.audit = {}
        /\ d.rec.supersedes = NoId
        /\ d.rec.supersededBy = NoId
        /\ d.rec.outcome = "none"
        /\ d.rec.status \in {"none", "active"}
        /\ d.rec.status = "active" => d.rec.type = "semantic"}

ASSUME RevisionAssumption ==
    /\ Drafts \subseteq Draft
    /\ Refs \subseteq Ids \cup {NoId}

-----------------------------------------------------------------------------
IsSemantic(r) == r.type = "semantic"

\* ensureRevisable, on a record that exists.
RevisableAny(s, i) == Exists(s, i)   \* wrong: episodic records too
Revisable(s, i) == Exists(s, i) /\ s[i].type # "episodic"

\* ensureEvidence.
HasEvidenceAlways(r) == TRUE   \* wrong: not checked
HasEvidence(r) == IsSemantic(r) => r.evidence

\* retractRecord.
Retracted(r) ==
    [r EXCEPT !.salience = 0,
              !.status = IF IsSemantic(r) THEN "retracted" ELSE r.status]

\* A draft as it is stored: related to its sources, with its first entry.
Derived(d, predicate, sources) ==
    [d.rec EXCEPT !.relations = {Rel(predicate, j) : j \in sources},
                  !.audit = {"create"}]

-----------------------------------------------------------------------------
\* Supersede.  The superseded-by link is copied from the new record's id
\* before an id is assigned to a record that came without one.
Superseded(r, new, d) ==
    IF IsSemantic(r)
    THEN [Retracted(r) EXCEPT !.supersededBy = IF d.named THEN new ELSE NoId]
    ELSE Retracted(r)

SuccessorUnrelated(old, d) ==   \* wrong: no relation
    [Derived(d, "supersedes", {}) EXCEPT !.evidence = TRUE]

Successor(old, d) ==
    LET r == [Derived(d, "supersedes", {old}) EXCEPT !.evidence = TRUE]
    IN  IF IsSemantic(r)
        THEN [r EXCEPT !.supersedes = old, !.status = "active"]
        ELSE r

CanSupersede(s, old, d) == Revisable(s, old) /\ HasEvidence(d.rec)

SupersededStore(s, old, new, d) ==
    CreateRecord(
        AddAuditEntry(
            UpdateRecord(s, old, Superseded(s[old], new, d)), old, "revise"),
        new, Successor(old, d))

\* Fork: the source stays as it is and gets an audit entry.
CanFork(s, source, d) == Revisable(s, source) /\ HasEvidence(d.rec)

ForkedStore(s, source, new, d) ==
    CreateRecord(AddAuditEntry(s, source, "fork"),
                 new, Derived(d, "derived_from", {source}))

\* Merge: every source is retracted.
CanMerge(s, sources, d) ==
    /\ sources # {}
    /\ \A j \in sources : Revisable(s, j)
    /\ HasEvidence(d.rec)

MergedStoreUnaudited(s, sources, new, d) ==   \* wrong: no audit entries
    CreateRecord([j \in Ids |-> IF j \in sources THEN Retracted(s[j]) ELSE s[j]],
                 new, Derived(d, "derived_from", sources))

MergedStore(s, sources, new, d) ==
    CreateRecord(
        [j \in Ids |->
            IF j \in sources
            THEN [Retracted(s[j]) EXCEPT !.audit = s[j].audit \cup {"merge"}]
            ELSE s[j]],
        new, Derived(d, "derived_from", sources))

\* Retract.
RetractedStore(s, i) ==
    AddAuditEntry(UpdateRecord(s, i, Retracted(s[i])), i, "delete")

\* Contest: ref is the conflicting record, or empty.
Contested(r) == IF IsSemantic(r) THEN [r EXCEPT !.status = "contested"] ELSE r

CanContest(s, i, ref) == Revisable(s, i) /\ (ref # NoId => Exists(s, ref))

ContestedStore(s, i, ref) ==
    LET marked  == UpdateRecord(s, i, Contested(s[i]))
        related == IF ref = NoId THEN marked
                   ELSE AddRelation(marked, i, Rel("contested_by", ref))
    IN  AddAuditEntry(related, i, "revise")

-----------------------------------------------------------------------------
Supersede(old, new, d) ==
    /\ CanSupersede(store, old, d)
    /\ Fresh(new)
    /\ store' = SupersededStore(store, old, new, d)
    /\ used' = used \cup {new}

Fork(source, new, d) ==
    /\ CanFork(store, source, d)
    /\ Fresh(new)
    /\ store' = ForkedStore(store, source, new, d)
    /\ used' = used \cup {new}

Merge(sources, new, d) ==
    /\ CanMerge(store, sources, d)
    /\ Fresh(new)
    /\ store' = MergedStore(store, sources, new, d)
    /\ used' = used \cup {new}

Retract(i) ==
    /\ Revisable(store, i)
    /\ store' = RetractedStore(store, i)
    /\ UNCHANGED used

Contest(i, ref) ==
    /\ CanContest(store, i, ref)
    /\ store' = ContestedStore(store, i, ref)
    /\ UNCHANGED used

RevisionNext ==
    \/ \E old, new \in Ids, d \in Drafts : Supersede(old, new, d) \/ Fork(old, new, d)
    \/ \E sources \in SUBSET Ids, new \in Ids, d \in Drafts : Merge(sources, new, d)
    \/ \E i \in Ids : Retract(i)
    \/ \E i \in Ids, ref \in Refs : Contest(i, ref)
=============================================================================
