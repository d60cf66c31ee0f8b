--------------------------- MODULE ServiceProofs ---------------------------
(***************************************************************************)
(* What ingestion, decay and revision do to the store, in whatever         *)
(* composition: they keep its type, they let the records that exist grow,  *)
(* and revision keeps the rows good.  The difficulty is the state these    *)
(* services carry from one step to a later one: the record an              *)
(* IngestOutcome call read and will write back, the list a sweep will      *)
(* delete from.  The invariant Agree says how far both still agree with    *)
(* the store.                                                              *)
(***************************************************************************)
EXTENDS Ingestion, Decay, Revision, TLAPS

-----------------------------------------------------------------------------
(* The store operations: what they keep of the type of a store, and which  *)
(* rows and fields they leave alone.                                       *)

\* A row that exists is a record.
LEMMA ExistsRecord ==
    ASSUME NEW s \in StoreType, NEW i \in Ids, Exists(s, i)
    PROVE  s[i] \in Record
BY DEF StoreType, Exists

\* A record is never the mark of a missing row.
LEMMA RecordExists ==
    ASSUME NEW r \in Record
    PROVE  r # NoRecord
BY RecordStoreAssumption

\* Changing one field of a record within the field's type makes a record.
LEMMA RecordSalience ==
    ASSUME NEW r \in Record, NEW v \in Salience
    PROVE  [r EXCEPT !.salience = v] \in Record
BY DEF Record

\* A record with another log is a record.
LEMMA RecordAudit ==
    ASSUME NEW r \in Record, NEW a \in SUBSET AuditAction
    PROVE  [r EXCEPT !.audit = a] \in Record
BY DEF Record

\* A record with other relations is a record.
LEMMA RecordRelations ==
    ASSUME NEW r \in Record, NEW x \in SUBSET Relation
    PROVE  [r EXCEPT !.relations = x] \in Record
BY DEF Record

\* A record with another revision status is a record.
LEMMA RecordStatus ==
    ASSUME NEW r \in Record, NEW x \in RevisionStatus
    PROVE  [r EXCEPT !.status = x] \in Record
BY DEF Record

\* A record with another successor is a record.
LEMMA RecordSupersededBy ==
    ASSUME NEW r \in Record, NEW x \in Ids \cup {NoId}
    PROVE  [r EXCEPT !.supersededBy = x] \in Record
BY DEF Record

-----------------------------------------------------------------------------
\* Every store operation keeps the type of the store.
LEMMA CreateRecordType ==
    ASSUME NEW s \in StoreType, NEW i \in Ids, NEW r \in Record
    PROVE  CreateRecord(s, i, r) \in StoreType
BY DEF StoreType, CreateRecord

\* Update of an existing record keeps the type of the store.
LEMMA UpdateRecordType ==
    ASSUME NEW s \in StoreType, NEW i \in Ids, NEW r \in Record, Exists(s, i)
    PROVE  UpdateRecord(s, i, r) \in StoreType
<1>1. s[i].audit \in SUBSET AuditAction
  BY ExistsRecord DEF Record
<1>2. [r EXCEPT !.audit = s[i].audit] \in Record
  BY <1>1, RecordAudit
<1> QED BY <1>2 DEF StoreType, UpdateRecord

\* UpdateSalience of an existing record keeps the type of the store.
LEMMA UpdateSalienceType ==
    ASSUME NEW s \in StoreType, NEW i \in Ids, NEW v \in Salience, Exists(s, i)
    PROVE  UpdateSalience(s, i, v) \in StoreType
<1>1. [s[i] EXCEPT !.salience = v] \in Record
  BY ExistsRecord, RecordSalience
<1> QED BY <1>1 DEF StoreType, UpdateSalience

\* AddAuditEntry to an existing record keeps the type of the store.
LEMMA AddAuditEntryType ==
    ASSUME NEW s \in StoreType, NEW i \in Ids, NEW a \in AuditAction, Exists(s, i)
    PROVE  AddAuditEntry(s, i, a) \in StoreType
<1>1. s[i] \in Record
  BY ExistsRecord
<1>2. s[i].audit \cup {a} \in SUBSET AuditAction
  BY <1>1 DEF Record
<1>3. [s[i] EXCEPT !.audit = s[i].audit \cup {a}] \in Record
  BY <1>1, <1>2, RecordAudit
<1> QED BY <1>3 DEF StoreType, AddAuditEntry

\* AddRelation to an existing record keeps the type of the store.
LEMMA AddRelationType ==
    ASSUME NEW s \in StoreType, NEW i \in Ids, NEW rel \in Relation, Exists(s, i)
    PROVE  AddRelation(s, i, rel) \in StoreType
<1>1. s[i] \in Record
  BY ExistsRecord
<1>2. s[i].relations \cup {rel} \in SUBSET Relation
  BY <1>1 DEF Record
<1>3. [s[i] EXCEPT !.relations = s[i].relations \cup {rel}] \in Record
  BY <1>1, <1>2, RecordRelations
<1> QED BY <1>3 DEF StoreType, AddRelation

\* Delete, with its cascade, keeps the type of the store.
LEMMA DeleteRecordType ==
    ASSUME NEW s \in StoreType, NEW i \in Ids
    PROVE  DeleteRecord(s, i) \in StoreType
<1> DEFINE row(j) ==
        IF j = i \/ ~Exists(s, j)
        THEN NoRecord
        ELSE [s[j] EXCEPT !.relations = {rel \in s[j].relations : rel.target # i}]
<1>1. SUFFICES ASSUME NEW j \in Ids
               PROVE  row(j) \in Record \cup {NoRecord}
  BY DEF StoreType, DeleteRecord
<1>2. CASE j = i \/ ~Exists(s, j)
  BY <1>2
<1>3. CASE j # i /\ Exists(s, j)
  <2>1. s[j] \in Record
    BY <1>3, ExistsRecord
  <2>2. {rel \in s[j].relations : rel.target # i} \in SUBSET Relation
    BY <2>1 DEF Record
  <2> QED BY <1>3, <2>1, <2>2, RecordRelations
<1> QED BY <1>2, <1>3

-----------------------------------------------------------------------------
\* Which rows exist after an operation: the ones that did, and the new one.
LEMMA UpdateRecordExists ==
    ASSUME NEW s \in StoreType, NEW i \in Ids, NEW r \in Record, Exists(s, i)
    PROVE  \A j \in Ids : Exists(UpdateRecord(s, i, r), j) <=> Exists(s, j)
<1>1. [r EXCEPT !.audit = s[i].audit] \in Record
  BY ExistsRecord, RecordAudit DEF Record
<1>2. [r EXCEPT !.audit = s[i].audit] # NoRecord
  BY <1>1, RecordExists
<1> QED BY <1>2 DEF Exists, UpdateRecord, StoreType

\* AddRelation creates and deletes no record.
LEMMA AddRelationExists ==
    ASSUME NEW s \in StoreType, NEW i \in Ids, NEW rel \in Relation, Exists(s, i)
    PROVE  \A j \in Ids : Exists(AddRelation(s, i, rel), j) <=> Exists(s, j)
<1>1. s[i] \in Record
  BY ExistsRecord
<1>2. s[i].relations \cup {rel} \in SUBSET Relation
  BY <1>1 DEF Record
<1>3. [s[i] EXCEPT !.relations = s[i].relations \cup {rel}] # NoRecord
  BY <1>1, <1>2, RecordRelations, RecordExists
<1> QED BY <1>3 DEF Exists, AddRelation, StoreType

\* UpdateSalience creates and deletes no record.
LEMMA UpdateSalienceExists ==
    ASSUME NEW s \in StoreType, NEW i \in Ids, NEW v \in Salience, Exists(s, i)
    PROVE  \A j \in Ids : Exists(UpdateSalience(s, i, v), j) <=> Exists(s, j)
<1>1. [s[i] EXCEPT !.salience = v] # NoRecord
  BY ExistsRecord, RecordSalience, RecordExists
<1> QED BY <1>1 DEF Exists, UpdateSalience, StoreType

\* AddAuditEntry creates and deletes no record.
LEMMA AddAuditEntryExists ==
    ASSUME NEW s \in StoreType, NEW i \in Ids, NEW a \in AuditAction, Exists(s, i)
    PROVE  \A j \in Ids : Exists(AddAuditEntry(s, i, a), j) <=> Exists(s, j)
<1>1. s[i] \in Record
  BY ExistsRecord
<1>2. s[i].audit \cup {a} \in SUBSET AuditAction
  BY <1>1 DEF Record
<1>3. [s[i] EXCEPT !.audit = s[i].audit \cup {a}] # NoRecord
  BY <1>1, <1>2, RecordAudit, RecordExists
<1> QED BY <1>3 DEF Exists, AddAuditEntry, StoreType

-----------------------------------------------------------------------------
(* What the operators of the services return.                              *)

\* Lifting a value to a floor yields a salience (Penalize, decay).
LEMMA AtLeastType ==
    ASSUME NEW v \in Int, NEW low \in Salience, v <= MaxSalience
    PROVE  AtLeast(v, low) \in Salience
BY RecordStoreAssumption DEF AtLeast, Salience

\* Capping a value at the maximum yields a salience (Reinforce).
LEMMA AtMostType ==
    ASSUME NEW v \in Nat
    PROVE  AtMost(v, MaxSalience) \in Salience
BY RecordStoreAssumption DEF AtMost, Salience

\* What ingestion builds is a record.
LEMMA IngestedType ==
    ASSUME NEW r \in Ingested
    PROVE  r \in Record
<1>1. PICK t \in {"episodic", "semantic", "working"}, f \in Facts :
        r = IngestedRecord(t, f)
  BY IngestionAssumption
<1> QED BY <1>1, RecordStoreAssumption
        DEF IngestedRecord, Record, MemoryType, Salience, DeletionPolicy,
            Outcome, RevisionStatus, AuditAction

\* Reinforce yields a record.
LEMMA ReinforcedType ==
    ASSUME NEW r \in Record
    PROVE  Reinforced(r) \in Record
<1>1. r.salience + r.gain \in Nat
  BY RecordStoreAssumption DEF Record, Salience
<1> QED BY <1>1, AtMostType, RecordSalience DEF Reinforced

\* Penalize yields a salience.
LEMMA PenalizedType ==
    ASSUME NEW r \in Record, NEW amount \in Penalties
    PROVE  Penalized(r, amount) \in Salience
<1>1. r.salience - amount \in Int /\ r.salience - amount <= MaxSalience
  BY RecordStoreAssumption, DecayAssumption DEF Record, Salience
<1>2. r.floor \in Salience
  BY DEF Record
<1> QED BY <1>1, <1>2, AtLeastType DEF Penalized

\* Decay yields a salience.
LEMMA DecayedToType ==
    ASSUME NEW r \in Record, NEW v \in DecayedTo(r)
    PROVE  v \in Salience
<1>1. 0 \in Salience
  BY RecordStoreAssumption DEF Salience
<1>2. r.salience \in Salience /\ r.floor \in Salience
  BY DEF Record
<1>3. ASSUME NEW u \in 0 .. r.salience
      PROVE  AtLeast(u, r.floor) \in Salience
  <2>1. u \in Int /\ u <= MaxSalience
    BY <1>2, RecordStoreAssumption DEF Salience
  <2> QED BY <2>1, <1>2, AtLeastType
<1> QED BY <1>1, <1>2, <1>3 DEF DecayedTo, Exponential

\* Retraction of a record yields a record.
LEMMA RetractedType ==
    ASSUME NEW r \in Record
    PROVE  Retracted(r) \in Record
<1> DEFINE status == IF IsSemantic(r) THEN "retracted" ELSE r.status
<1>1. 0 \in Salience
  BY RecordStoreAssumption DEF Salience
<1>2. status \in RevisionStatus
  BY DEF Record, RevisionStatus
<1> QED BY <1>1, <1>2 DEF Retracted, Record

\* A contest of a record yields a record.
LEMMA ContestedType ==
    ASSUME NEW r \in Record
    PROVE  Contested(r) \in Record
BY RecordStatus DEF Contested, RevisionStatus

\* The record that Fork and Merge create is a record.
LEMMA DerivedType ==
    ASSUME NEW d \in Drafts, NEW p \in Predicate, NEW S \in SUBSET Ids
    PROVE  Derived(d, p, S) \in Record
<1>1. d.rec \in Record
  BY RevisionAssumption DEF Draft
<1>2. {Rel(p, j) : j \in S} \in SUBSET Relation
  BY DEF Rel, Relation
<1>3. {"create"} \in SUBSET AuditAction
  BY DEF AuditAction
<1> QED BY <1>1, <1>2, <1>3, RecordRelations, RecordAudit DEF Derived

\* Superseding a record yields a record.
LEMMA SupersededType ==
    ASSUME NEW r \in Record, NEW new \in Ids, NEW d \in Drafts
    PROVE  Superseded(r, new, d) \in Record
<1>1. (IF d.named THEN new ELSE NoId) \in Ids \cup {NoId}
  OBVIOUS
<1> QED BY <1>1, RetractedType, RecordSupersededBy DEF Superseded

\* The record that Supersede creates is a record.
LEMMA SuccessorType ==
    ASSUME NEW old \in Ids, NEW d \in Drafts
    PROVE  Successor(old, d) \in Record
<1>1. Derived(d, "supersedes", {old}) \in Record
  BY DerivedType DEF Predicate
<1> QED BY <1>1 DEF Successor, Record, RevisionStatus

-----------------------------------------------------------------------------
(* Type correctness, one lemma per service.                                *)

\* Ingestion keeps the types of the store and of pending outcomes.
LEMMA IngestionTypes ==
    ASSUME StoreTypeOK, OutcomesTypeOK, IngestionNext
    PROVE  StoreTypeOK' /\ OutcomesTypeOK'
<1> USE DEF StoreTypeOK, OutcomesTypeOK
<1>1. ASSUME NEW i \in Ids, NEW r \in Ingested, Ingest(i, r)
      PROVE  StoreTypeOK' /\ OutcomesTypeOK'
  BY <1>1, IngestedType, CreateRecordType DEF Ingest
<1>2. ASSUME NEW c \in Clients, NEW i \in Ids, NEW o \in Reported, OutcomeRead(c, i, o)
      PROVE  StoreTypeOK' /\ OutcomesTypeOK'
  <2> DEFINE r == [store[i] EXCEPT !.outcome = o, !.evidence = TRUE,
                                   !.audit = store[i].audit \cup {"revise"}]
  <2>1. store[i] \in Record
    BY <1>2, ExistsRecord DEF OutcomeRead
  <2>2. r \in Record
    <3>1. o \in Outcome
      BY IngestionAssumption
    <3>2. store[i].audit \cup {"revise"} \in SUBSET AuditAction
      BY <2>1 DEF Record, AuditAction
    <3> QED BY <2>1, <3>1, <3>2 DEF Record
  <2> HIDE DEF r
  <2>3. outcomes' = [outcomes EXCEPT ![c] = [id |-> i, rec |-> r]]
    BY <1>2 DEF OutcomeRead, r
  <2> QED BY <1>2, <2>2, <2>3 DEF OutcomeRead
<1>3. ASSUME NEW c \in Clients, OutcomeWrite(c)
      PROVE  StoreTypeOK' /\ OutcomesTypeOK'
  <2>1. outcomes[c] \in [id : Ids, rec : Record]
    BY <1>3 DEF OutcomeWrite
  <2> QED BY <1>3, <2>1, UpdateRecordType DEF OutcomeWrite
<1>4. ASSUME NEW c \in Clients, OutcomeLost(c)
      PROVE  StoreTypeOK' /\ OutcomesTypeOK'
  BY <1>4 DEF OutcomeLost
<1>5. ASSUME NEW c \in Clients, OutcomeTorn(c)
      PROVE  StoreTypeOK' /\ OutcomesTypeOK'
  <2>1. outcomes[c] \in [id : Ids, rec : Record]
    BY <1>5 DEF OutcomeTorn
  <2>2. PICK kept \in SUBSET {rel \in outcomes[c].rec.relations : Exists(store, rel.target)} :
          store' = UpdateRecord(store, outcomes[c].id,
                                [outcomes[c].rec EXCEPT !.relations = kept])
    BY <1>5 DEF OutcomeTorn
  <2>3. kept \in SUBSET Relation
    BY <2>1 DEF Record
  <2>4. [outcomes[c].rec EXCEPT !.relations = kept] \in Record
    BY <2>1, <2>3, RecordRelations
  <2>5. store' \in StoreType
    BY <1>5, <2>1, <2>2, <2>4, UpdateRecordType DEF OutcomeTorn
  <2> QED BY <1>5, <2>5 DEF OutcomeTorn
<1> QED BY <1>1, <1>2, <1>3, <1>4, <1>5 DEF IngestionNext

\* Decay and pruning keep the types of the store and of sweeps.
LEMMA DecayTypes ==
    ASSUME StoreTypeOK, SweepsTypeOK, DecayNext
    PROVE  StoreTypeOK' /\ SweepsTypeOK'
<1> USE DEF StoreTypeOK, SweepsTypeOK
<1>1. ASSUME NEW i \in Ids, Reinforce(i)
      PROVE  StoreTypeOK' /\ SweepsTypeOK'
  <2> DEFINE s1 == UpdateRecord(store, i, Reinforced(store[i]))
  <2>1. Exists(store, i) /\ store[i] \in Record
    BY <1>1, ExistsRecord DEF Reinforce
  <2>2. s1 \in StoreType /\ Exists(s1, i)
    BY <2>1, ReinforcedType, UpdateRecordType, UpdateRecordExists
  <2> QED BY <1>1, <2>2, AddAuditEntryType DEF Reinforce, AuditAction
<1>2. ASSUME NEW i \in Ids, NEW v \in Salience, Exists(store, i)
      PROVE  DecayedStore(store, i, v) \in StoreType
  <2>1. UpdateSalience(store, i, v) \in StoreType /\ Exists(UpdateSalience(store, i, v), i)
    BY <1>2, UpdateSalienceType, UpdateSalienceExists
  <2> QED BY <2>1, AddAuditEntryType DEF DecayedStore, AuditAction
<1>3. ASSUME NEW i \in Ids, NEW amount \in Penalties, Penalize(i, amount)
      PROVE  StoreTypeOK' /\ SweepsTypeOK'
  <2>1. Exists(store, i) /\ Penalized(store[i], amount) \in Salience
    BY <1>3, ExistsRecord, PenalizedType DEF Penalize
  <2> QED BY <1>2, <1>3, <2>1 DEF Penalize, DecayedStore
<1>4. ASSUME NEW d \in Daemons, SweepNext(d)
      PROVE  StoreTypeOK' /\ SweepsTypeOK'
  <2> USE DEF SweepType
  <2>1. CASE SweepStart(d)
    BY <2>1 DEF SweepStart, Live
  <2>2. CASE SweepDecay(d)
    <3>1. PICK i \in sweeps[d].todo :
            /\ Exists(store, i)
            /\ \E v \in DecayedTo(store[i]) : store' = DecayedStore(store, i, v)
            /\ sweeps' = [sweeps EXCEPT ![d].todo = sweeps[d].todo \ {i}]
      BY <2>2 DEF SweepDecay
    <3>2. i \in Ids
      OBVIOUS
    <3>3. store' \in StoreType
      BY <3>1, <3>2, <1>2, ExistsRecord, DecayedToType
    <3> QED BY <2>2, <3>1, <3>3 DEF SweepDecay
  <2>3. CASE SweepList(d)
    BY <2>3 DEF SweepList, Live
  <2>4. CASE SweepPrune(d)
    <3>1. PICK i \in sweeps[d].todo :
            /\ Exists(store, i)
            /\ store' = DeleteRecord(AddAuditEntry(store, i, "delete"), i)
            /\ sweeps' = [sweeps EXCEPT ![d].todo = sweeps[d].todo \ {i}]
      BY <2>4 DEF SweepPrune
    <3>2. i \in Ids
      OBVIOUS
    <3>3. store' \in StoreType
      BY <3>1, <3>2, AddAuditEntryType, DeleteRecordType DEF AuditAction
    <3> QED BY <2>4, <3>1, <3>3 DEF SweepPrune
  <2>5. CASE SweepEnd(d)
    BY <2>5 DEF SweepEnd, IdleSweep
  <2>6. CASE SweepNotFound(d)
    BY <2>6 DEF SweepNotFound, IdleSweep
  <2>7. CASE SweepFault(d)
    BY <2>7, DecayAssumption DEF SweepFault, IdleSweep
  <2> QED BY <1>4, <2>1, <2>2, <2>3, <2>4, <2>5, <2>6, <2>7 DEF SweepNext
<1> QED BY <1>1, <1>3, <1>4, DecayAssumption DEF DecayNext

\* Revision keeps the type of the store.
LEMMA RevisionTypes ==
    ASSUME StoreTypeOK, RevisionNext
    PROVE  StoreTypeOK'
<1> USE DEF StoreTypeOK
<1>1. ASSUME NEW old \in Ids, NEW new \in Ids, NEW d \in Drafts, Supersede(old, new, d)
      PROVE  StoreTypeOK'
  <2> DEFINE s1 == UpdateRecord(store, old, Superseded(store[old], new, d))
             s2 == AddAuditEntry(s1, old, "revise")
  <2>1. Exists(store, old) /\ store[old] \in Record
    BY <1>1, ExistsRecord DEF Supersede, CanSupersede, Revisable
  <2>2. s1 \in StoreType /\ Exists(s1, old)
    BY <2>1, SupersededType, UpdateRecordType, UpdateRecordExists
  <2>3. s2 \in StoreType
    BY <2>2, AddAuditEntryType DEF AuditAction
  <2>4. CreateRecord(s2, new, Successor(old, d)) \in StoreType
    BY <2>3, SuccessorType, CreateRecordType
  <2> QED BY <1>1, <2>4 DEF Supersede, SupersededStore
<1>2. ASSUME NEW source \in Ids, NEW new \in Ids, NEW d \in Drafts, Fork(source, new, d)
      PROVE  StoreTypeOK'
  <2>1. AddAuditEntry(store, source, "fork") \in StoreType
    BY <1>2, AddAuditEntryType DEF AuditAction, Fork, CanFork, Revisable
  <2>2. Derived(d, "derived_from", {source}) \in Record
    BY DerivedType DEF Predicate
  <2> QED BY <1>2, <2>1, <2>2, CreateRecordType DEF Fork, ForkedStore
<1>3. ASSUME NEW S \in SUBSET Ids, NEW new \in Ids, NEW d \in Drafts, Merge(S, new, d)
      PROVE  StoreTypeOK'
  <2> DEFINE row(j) == [Retracted(store[j]) EXCEPT !.audit = store[j].audit \cup {"merge"}]
             s1 == [j \in Ids |-> IF j \in S THEN row(j) ELSE store[j]]
  <2>1. ASSUME NEW j \in S  PROVE  row(j) \in Record
    <3>1. store[j] \in Record
      BY <1>3, ExistsRecord DEF Merge, CanMerge, Revisable
    <3>2. store[j].audit \cup {"merge"} \in SUBSET AuditAction
      BY <3>1 DEF Record, AuditAction
    <3> QED BY <3>1, <3>2, RetractedType, RecordAudit
  <2>2. s1 \in StoreType
    BY <2>1 DEF StoreType
  <2>3. Derived(d, "derived_from", S) \in Record
    BY DerivedType DEF Predicate
  <2>4. CreateRecord(s1, new, Derived(d, "derived_from", S)) \in StoreType
    BY <2>2, <2>3, CreateRecordType
  <2> QED BY <1>3, <2>4 DEF Merge, MergedStore
<1>4. ASSUME NEW i \in Ids, Retract(i)
      PROVE  StoreTypeOK'
  <2> DEFINE s1 == UpdateRecord(store, i, Retracted(store[i]))
  <2>1. Exists(store, i) /\ store[i] \in Record
    BY <1>4, ExistsRecord DEF Retract, Revisable
  <2>2. s1 \in StoreType /\ Exists(s1, i)
    BY <2>1, RetractedType, UpdateRecordType, UpdateRecordExists
  <2> QED BY <1>4, <2>2, AddAuditEntryType DEF Retract, RetractedStore, AuditAction
<1>5. ASSUME NEW i \in Ids, NEW ref \in Refs, Contest(i, ref)
      PROVE  StoreTypeOK'
  <2> DEFINE s1 == UpdateRecord(store, i, Contested(store[i]))
             s2 == AddRelation(s1, i, Rel("contested_by", ref))
  <2>1. Exists(store, i) /\ store[i] \in Record
    BY <1>5, ExistsRecord DEF Contest, CanContest, Revisable
  <2>2. s1 \in StoreType /\ Exists(s1, i)
    BY <2>1, ContestedType, UpdateRecordType, UpdateRecordExists
  <2>3. CASE ref = NoId
    BY <1>5, <2>2, <2>3, AddAuditEntryType DEF Contest, ContestedStore, AuditAction
  <2>4. CASE ref # NoId
    <3>1. Rel("contested_by", ref) \in Relation
      BY <2>4, RevisionAssumption DEF Rel, Relation, Predicate
    <3>2. s2 \in StoreType /\ Exists(s2, i)
      BY <2>2, <3>1, AddRelationType, AddRelationExists
    <3> QED BY <1>5, <2>4, <3>2, AddAuditEntryType DEF Contest, ContestedStore, AuditAction
  <2> QED BY <2>3, <2>4
<1> QED BY <1>1, <1>2, <1>3, <1>4, <1>5 DEF RevisionNext

-----------------------------------------------------------------------------
(* Growth.                                                                 *)

SameContent(r, q) ==
    /\ q.type = r.type
    /\ q.fact = r.fact
    /\ q.pinned = r.pinned
    /\ q.policy = r.policy
    /\ q.supersedes = r.supersedes

Protected(r) == r.pinned \/ r.policy # "auto_prune"

\* The rows of t, those in N apart, are rows of s with a log at least as
\* long, and the rows of s that t lacks were not protected.
Grown(s, t, N) ==
    \A j \in Ids \ N :
        /\ Exists(t, j) =>
               Exists(s, j) /\ SameContent(s[j], t[j]) /\ s[j].audit \subseteq t[j].audit
        /\ Exists(s, j) /\ ~Exists(t, j) => ~Protected(s[j])

\* No record lives under an id that was never handed out.
UsedCovers == Live(store) \subseteq used

\* What a call will write back is an episode that says what the stored one
\* says, if that is still there.
PendingAgrees ==
    \A c \in Clients : outcomes[c] # NoCall =>
        /\ outcomes[c].id \in used
        /\ outcomes[c].rec.type = "episodic"
        /\ Exists(store, outcomes[c].id) =>
               SameContent(store[outcomes[c].id], outcomes[c].rec)

\* What a sweep will delete is gone, or neither pinned nor kept by policy.
PruneListed ==
    \A d \in Daemons : sweeps[d].phase = "prune" => \A i \in sweeps[d].todo :
        /\ i \in used
        /\ Exists(store, i) => ~Protected(store[i])

Agree ==
    /\ StoreTypeOK
    /\ OutcomesTypeOK
    /\ SweepsTypeOK
    /\ UsedCovers
    /\ PendingAgrees
    /\ PruneListed

\* How a step changes the store: every row but those under new ids grows.
Evolves == \E N \in SUBSET (Ids \ used) : Grown(store, store', N) /\ used' = used \cup N

\* A store has grown out of itself.
LEMMA GrownSame == ASSUME NEW s PROVE Grown(s, s, {})
BY DEF Grown, SameContent

\* Growth composes: two steps of a transaction are one.
LEMMA GrownTrans ==
    ASSUME NEW s, NEW t, NEW u, NEW N, NEW M, Grown(s, t, N), Grown(t, u, M)
    PROVE  Grown(s, u, N \cup M)
BY DEF Grown, SameContent, Protected

\* Update that keeps the content of a record is growth.
LEMMA GrownUpdate ==
    ASSUME NEW s \in StoreType, NEW i \in Ids, NEW r \in Record, Exists(s, i),
           SameContent(s[i], r)
    PROVE  Grown(s, UpdateRecord(s, i, r), {})
<1> DEFINE q == [r EXCEPT !.audit = s[i].audit]
<1>1. SameContent(s[i], q) /\ q.audit = s[i].audit
  BY DEF SameContent, Record
<1> HIDE DEF q
<1>2. UpdateRecord(s, i, r) = [s EXCEPT ![i] = q]
  BY DEF UpdateRecord, q
<1> QED BY <1>1, <1>2, UpdateRecordExists DEF Grown, SameContent, StoreType, Exists

\* UpdateSalience is growth.
LEMMA GrownSalience ==
    ASSUME NEW s \in StoreType, NEW i \in Ids, NEW v \in Salience, Exists(s, i)
    PROVE  Grown(s, UpdateSalience(s, i, v), {})
<1> DEFINE q == [s[i] EXCEPT !.salience = v]
<1>1. SameContent(s[i], q) /\ q.audit = s[i].audit
  BY ExistsRecord DEF SameContent, Record
<1> HIDE DEF q
<1>2. UpdateSalience(s, i, v) = [s EXCEPT ![i] = q]
  BY DEF UpdateSalience, q
<1> QED BY <1>1, <1>2, UpdateSalienceExists DEF Grown, SameContent, StoreType, Exists

\* AddAuditEntry is growth.
LEMMA GrownAudit ==
    ASSUME NEW s \in StoreType, NEW i \in Ids, NEW a \in AuditAction, Exists(s, i)
    PROVE  Grown(s, AddAuditEntry(s, i, a), {})
<1> DEFINE q == [s[i] EXCEPT !.audit = s[i].audit \cup {a}]
<1>1. SameContent(s[i], q) /\ s[i].audit \subseteq q.audit
  BY ExistsRecord DEF SameContent, Record
<1> HIDE DEF q
<1>2. AddAuditEntry(s, i, a) = [s EXCEPT ![i] = q]
  BY DEF AddAuditEntry, q
<1> QED BY <1>1, <1>2, AddAuditEntryExists DEF Grown, SameContent, StoreType, Exists

\* AddRelation is growth.
LEMMA GrownRelation ==
    ASSUME NEW s \in StoreType, NEW i \in Ids, NEW rel \in Relation, Exists(s, i)
    PROVE  Grown(s, AddRelation(s, i, rel), {})
<1> DEFINE q == [s[i] EXCEPT !.relations = s[i].relations \cup {rel}]
<1>1. SameContent(s[i], q) /\ q.audit = s[i].audit
  BY ExistsRecord DEF SameContent, Record
<1> HIDE DEF q
<1>2. AddRelation(s, i, rel) = [s EXCEPT ![i] = q]
  BY DEF AddRelation, q
<1> QED BY <1>1, <1>2, AddRelationExists DEF Grown, SameContent, StoreType, Exists

\* Create is growth outside the new id.
LEMMA GrownCreate ==
    ASSUME NEW s \in StoreType, NEW i \in Ids, NEW r
    PROVE  Grown(s, CreateRecord(s, i, r), {i})
BY DEF Grown, SameContent, CreateRecord, StoreType, Exists

\* Delete of an unprotected record, with its cascade, is growth.
LEMMA GrownDelete ==
    ASSUME NEW s \in StoreType, NEW i \in Ids, ~Protected(s[i])
    PROVE  Grown(s, DeleteRecord(s, i), {})
<1>1. ASSUME NEW j \in Ids, Exists(s, j), j # i
      PROVE  /\ Exists(DeleteRecord(s, i), j)
             /\ SameContent(s[j], DeleteRecord(s, i)[j])
             /\ s[j].audit \subseteq DeleteRecord(s, i)[j].audit
  <2> DEFINE left == {rel \in s[j].relations : rel.target # i}
             q    == [s[j] EXCEPT !.relations = left]
  <2>1. DeleteRecord(s, i)[j] = q
    BY <1>1 DEF DeleteRecord
  <2>2. s[j] \in Record
    BY <1>1, ExistsRecord
  <2>3. left \in SUBSET Relation
    BY <2>2 DEF Record
  <2>4. q \in Record
    BY <2>2, <2>3, RecordRelations
  <2>5. SameContent(s[j], q) /\ q.audit = s[j].audit
    BY <2>2 DEF SameContent, Record
  <2> HIDE DEF q
  <2> QED BY <2>1, <2>4, <2>5, RecordExists DEF Exists
<1>2. ASSUME NEW j \in Ids, ~Exists(s, j) \/ j = i
      PROVE  ~Exists(DeleteRecord(s, i), j)
  BY <1>2 DEF DeleteRecord, Exists
<1> QED BY <1>1, <1>2 DEF Grown

\* An update of one row followed by an audit entry, the shape of most steps.
LEMMA GrownAudited ==
    ASSUME NEW s \in StoreType, NEW i \in Ids, NEW r \in Record, NEW a \in AuditAction,
           Exists(s, i), SameContent(s[i], r)
    PROVE  /\ Grown(s, AddAuditEntry(UpdateRecord(s, i, r), i, a), {})
           /\ AddAuditEntry(UpdateRecord(s, i, r), i, a) \in StoreType
<1> DEFINE t == UpdateRecord(s, i, r)
<1>1. t \in StoreType /\ Exists(t, i) /\ Grown(s, t, {})
  BY UpdateRecordType, UpdateRecordExists, GrownUpdate
<1> HIDE DEF t
<1>2. Grown(t, AddAuditEntry(t, i, a), {}) /\ AddAuditEntry(t, i, a) \in StoreType
  BY <1>1, GrownAudit, AddAuditEntryType
<1>3. Grown(s, AddAuditEntry(t, i, a), {} \cup {})
  BY <1>1, <1>2, GrownTrans
<1> QED BY <1>2, <1>3 DEF t

\* UpdateSalience with its audit entry is growth.
LEMMA GrownSalienceAudited ==
    ASSUME NEW s \in StoreType, NEW i \in Ids, NEW v \in Salience, NEW a \in AuditAction,
           Exists(s, i)
    PROVE  Grown(s, AddAuditEntry(UpdateSalience(s, i, v), i, a), {})
<1> DEFINE t == UpdateSalience(s, i, v)
<1>1. t \in StoreType /\ Exists(t, i) /\ Grown(s, t, {})
  BY UpdateSalienceType, UpdateSalienceExists, GrownSalience
<1> HIDE DEF t
<1>2. Grown(t, AddAuditEntry(t, i, a), {})
  BY <1>1, GrownAudit
<1>3. Grown(s, AddAuditEntry(t, i, a), {} \cup {})
  BY <1>1, <1>2, GrownTrans
<1> QED BY <1>3 DEF t

\* Reinforce keeps the content of a record.
LEMMA ReinforcedContent ==
    ASSUME NEW r \in Record
    PROVE  SameContent(r, Reinforced(r))
BY DEF SameContent, Reinforced, Record

-----------------------------------------------------------------------------
(* The services let the records that exist grow, and create others under   *)
(* fresh ids only.                                                         *)

\* A step that creates one record under an unused id is a legal one.
LEMMA EvolvesCreate ==
    ASSUME NEW s \in StoreType, NEW new \in Ids, NEW r, Grown(store, s, {}),
           Fresh(new), store' = CreateRecord(s, new, r), used' = used \cup {new}
    PROVE  Evolves
<1>1. Grown(store, store', {} \cup {new})
  BY GrownCreate, GrownTrans
<1>2. {} \cup {new} = {new} /\ {new} \in SUBSET (Ids \ used)
  BY DEF Fresh
<1> QED BY <1>1, <1>2 DEF Evolves

\* A step that creates nothing is a legal one.
LEMMA EvolvesKept ==
    ASSUME Grown(store, store', {}), used' = used
    PROVE  Evolves
BY DEF Evolves

\* An outcome written back carries the content the stored record has.
LEMMA OutcomeEvolves ==
    ASSUME Agree, IngestionNext
    PROVE  Evolves
<1> USE DEF Agree, StoreTypeOK, OutcomesTypeOK
<1>1. ASSUME NEW i \in Ids, NEW r \in Ingested, Ingest(i, r)
      PROVE  Evolves
  BY <1>1, GrownSame, EvolvesCreate DEF Ingest
<1>2. ASSUME NEW c \in Clients, NEW i \in Ids, NEW o \in Reported, OutcomeRead(c, i, o)
      PROVE  Evolves
  BY <1>2, GrownSame, EvolvesKept DEF OutcomeRead
<1>3. ASSUME NEW c \in Clients, OutcomeWrite(c)
      PROVE  Evolves
  <2>1. /\ outcomes[c] # NoCall
        /\ outcomes[c] \in [id : Ids, rec : Record]
        /\ Exists(store, outcomes[c].id)
    BY <1>3 DEF OutcomeWrite
  <2>2. SameContent(store[outcomes[c].id], outcomes[c].rec)
    BY <2>1 DEF PendingAgrees
  <2> QED BY <1>3, <2>1, <2>2, GrownUpdate, EvolvesKept DEF OutcomeWrite
<1>4. ASSUME NEW c \in Clients, OutcomeLost(c)
      PROVE  Evolves
  BY <1>4, GrownSame, EvolvesKept DEF OutcomeLost
<1>5. ASSUME NEW c \in Clients, OutcomeTorn(c)
      PROVE  Evolves
  <2>1. /\ outcomes[c] # NoCall
        /\ outcomes[c] \in [id : Ids, rec : Record]
        /\ Exists(store, outcomes[c].id)
    BY <1>5 DEF OutcomeTorn
  <2>2. PICK kept \in SUBSET {rel \in outcomes[c].rec.relations : Exists(store, rel.target)} :
          store' = UpdateRecord(store, outcomes[c].id,
                                [outcomes[c].rec EXCEPT !.relations = kept])
    BY <1>5 DEF OutcomeTorn
  <2> DEFINE r == [outcomes[c].rec EXCEPT !.relations = kept]
  <2>3. kept \in SUBSET Relation
    BY <2>1 DEF Record
  <2>4. r \in Record
    BY <2>1, <2>3, RecordRelations
  <2>5. SameContent(store[outcomes[c].id], outcomes[c].rec)
    BY <2>1 DEF PendingAgrees
  <2>6. SameContent(store[outcomes[c].id], r)
    BY <2>1, <2>5 DEF SameContent, Record
  <2> HIDE DEF r
  <2> QED BY <1>5, <2>1, <2>2, <2>4, <2>6, GrownUpdate, EvolvesKept DEF OutcomeTorn, r
<1> QED BY <1>1, <1>2, <1>3, <1>4, <1>5 DEF IngestionNext

\* Decay and pruning take legal steps only.
LEMMA DecayEvolves ==
    ASSUME Agree, DecayNext
    PROVE  Evolves
<1> USE DEF Agree, StoreTypeOK, SweepsTypeOK, SweepType
<1>1. ASSUME NEW i \in Ids, Reinforce(i)
      PROVE  Evolves
  <2>1. Exists(store, i) /\ store[i] \in Record
    BY <1>1, ExistsRecord DEF Reinforce
  <2>2. Reinforced(store[i]) \in Record /\ SameContent(store[i], Reinforced(store[i]))
    BY <2>1, ReinforcedType, ReinforcedContent
  <2> QED BY <1>1, <2>1, <2>2, GrownAudited, EvolvesKept DEF Reinforce, AuditAction
<1>2. ASSUME NEW i \in Ids, NEW amount \in Penalties, Penalize(i, amount)
      PROVE  Evolves
  <2>1. Exists(store, i) /\ Penalized(store[i], amount) \in Salience
    BY <1>2, ExistsRecord, PenalizedType DEF Penalize
  <2> QED BY <1>2, <2>1, GrownSalienceAudited, EvolvesKept DEF Penalize, AuditAction
<1>3. ASSUME NEW d \in Daemons, SweepNext(d)
      PROVE  Evolves
  <2>1. CASE SweepDecay(d)
    <3>1. PICK i \in sweeps[d].todo : 
            Exists(store, i) /\ \E v \in DecayedTo(store[i]) : store' = DecayedStore(store, i, v)
      BY <2>1 DEF SweepDecay
    <3>2. PICK v \in DecayedTo(store[i]) : store' = DecayedStore(store, i, v)
      BY <3>1
    <3>3. v \in Salience
      BY <3>1, ExistsRecord, DecayedToType
    <3> QED BY <2>1, <3>1, <3>2, <3>3, GrownSalienceAudited, EvolvesKept
            DEF SweepDecay, DecayedStore, AuditAction
  <2>2. CASE SweepPrune(d)
    <3>1. PICK i \in sweeps[d].todo :
            Exists(store, i) /\ store' = DeleteRecord(AddAuditEntry(store, i, "delete"), i)
      BY <2>2 DEF SweepPrune
    <3> DEFINE s1 == AddAuditEntry(store, i, "delete")
    <3>2. s1 \in StoreType /\ Grown(store, s1, {}) /\ Exists(s1, i)
      BY <3>1, AddAuditEntryType, AddAuditEntryExists, GrownAudit DEF AuditAction
    <3> HIDE DEF s1
    <3>3. ~Protected(store[i])
      BY <2>2, <3>1 DEF SweepPrune, PruneListed
    <3>4. ~Protected(s1[i])
      BY <3>2, <3>3 DEF Grown, SameContent, Protected
    <3>5. Grown(s1, DeleteRecord(s1, i), {})
      BY <3>2, <3>4, GrownDelete
    <3>6. Grown(store, store', {} \cup {})
      BY <3>1, <3>2, <3>5, GrownTrans DEF s1
    <3> QED BY <2>2, <3>6, EvolvesKept DEF SweepPrune
  <2>3. CASE UNCHANGED <<store, used>>
    BY <2>3, GrownSame, EvolvesKept
  <2> QED BY <1>3, <2>1, <2>2, <2>3
          DEF SweepNext, SweepStart, SweepList, SweepEnd, SweepNotFound, SweepFault
<1> QED BY <1>1, <1>2, <1>3, DecayAssumption DEF DecayNext

\* Revision of a record keeps its content.
LEMMA RevisedContent ==
    ASSUME NEW r \in Record, NEW x, NEW d
    PROVE  /\ SameContent(r, Retracted(r))
           /\ SameContent(r, Contested(r))
           /\ SameContent(r, Superseded(r, x, d))
BY DEF SameContent, Retracted, Contested, Superseded, Record

\* Revision takes legal steps only.
LEMMA RevisionEvolves ==
    ASSUME StoreTypeOK, RevisionNext
    PROVE  Evolves
<1> USE DEF StoreTypeOK
<1>1. ASSUME NEW old \in Ids, NEW new \in Ids, NEW d \in Drafts, Supersede(old, new, d)
      PROVE  Evolves
  <2>1. Exists(store, old) /\ store[old] \in Record
    BY <1>1, ExistsRecord DEF Supersede, CanSupersede, Revisable
  <2>2. /\ Superseded(store[old], new, d) \in Record
        /\ SameContent(store[old], Superseded(store[old], new, d))
    BY <2>1, SupersededType, RevisedContent
  <2> DEFINE s1 == AddAuditEntry(UpdateRecord(store, old, Superseded(store[old], new, d)),
                                 old, "revise")
  <2>3. Grown(store, s1, {}) /\ s1 \in StoreType
    BY <2>1, <2>2, GrownAudited DEF AuditAction
  <2> HIDE DEF s1
  <2> QED BY <1>1, <2>3, EvolvesCreate DEF Supersede, SupersededStore, s1
<1>2. ASSUME NEW source \in Ids, NEW new \in Ids, NEW d \in Drafts, Fork(source, new, d)
      PROVE  Evolves
  <2>1. Exists(store, source)
    BY <1>2 DEF Fork, CanFork, Revisable
  <2>2. /\ AddAuditEntry(store, source, "fork") \in StoreType
        /\ Grown(store, AddAuditEntry(store, source, "fork"), {})
    BY <2>1, AddAuditEntryType, GrownAudit DEF AuditAction
  <2> QED BY <1>2, <2>2, EvolvesCreate DEF Fork, ForkedStore
<1>3. ASSUME NEW S \in SUBSET Ids, NEW new \in Ids, NEW d \in Drafts, Merge(S, new, d)
      PROVE  Evolves
  <2> DEFINE row(j) == [Retracted(store[j]) EXCEPT !.audit = store[j].audit \cup {"merge"}]
             s1 == [j \in Ids |-> IF j \in S THEN row(j) ELSE store[j]]
  <2>1. ASSUME NEW j \in S
        PROVE  /\ Exists(store, j)
               /\ row(j) \in Record
               /\ SameContent(store[j], row(j))
               /\ store[j].audit \subseteq row(j).audit
    <3>1. Exists(store, j) /\ store[j] \in Record
      BY <1>3, ExistsRecord DEF Merge, CanMerge, Revisable
    <3>2. Retracted(store[j]) \in Record /\ SameContent(store[j], Retracted(store[j]))
      BY <3>1, RetractedType, RevisedContent
    <3>3. store[j].audit \cup {"merge"} \in SUBSET AuditAction
      BY <3>1 DEF Record, AuditAction
    <3>4. row(j) \in Record
      BY <3>2, <3>3, RecordAudit
    <3>5. SameContent(store[j], row(j)) /\ row(j).audit = store[j].audit \cup {"merge"}
      BY <3>2 DEF SameContent, Record
    <3> QED BY <3>1, <3>4, <3>5
  <2> HIDE DEF row
  <2>2. s1 \in StoreType
    BY <2>1 DEF StoreType
  <2>3. Grown(store, s1, {})
    BY <2>1, RecordExists DEF Grown, SameContent, Exists
  <2>4. store' = CreateRecord(s1, new, Derived(d, "derived_from", S))
    BY <1>3 DEF Merge, MergedStore, row
  <2> HIDE DEF s1
  <2> QED BY <1>3, <2>2, <2>3, <2>4, EvolvesCreate DEF Merge
<1>4. ASSUME NEW i \in Ids, Retract(i)
      PROVE  Evolves
  <2>1. Exists(store, i) /\ store[i] \in Record
    BY <1>4, ExistsRecord DEF Retract, Revisable
  <2>2. Retracted(store[i]) \in Record /\ SameContent(store[i], Retracted(store[i]))
    BY <2>1, RetractedType, RevisedContent
  <2> QED BY <1>4, <2>1, <2>2, GrownAudited, EvolvesKept DEF Retract, RetractedStore, AuditAction
<1>5. ASSUME NEW i \in Ids, NEW ref \in Refs, Contest(i, ref)
      PROVE  Evolves
  <2> DEFINE s1 == UpdateRecord(store, i, Contested(store[i]))
             s2 == IF ref = NoId THEN s1 ELSE AddRelation(s1, i, Rel("contested_by", ref))
  <2>1. Exists(store, i) /\ store[i] \in Record
    BY <1>5, ExistsRecord DEF Contest, CanContest, Revisable
  <2>2. Contested(store[i]) \in Record /\ SameContent(store[i], Contested(store[i]))
    BY <2>1, ContestedType, RevisedContent
  <2>3. s1 \in StoreType /\ Exists(s1, i) /\ Grown(store, s1, {})
    BY <2>1, <2>2, UpdateRecordType, UpdateRecordExists, GrownUpdate
  <2>4. store' = AddAuditEntry(s2, i, "revise")
    BY <1>5 DEF Contest, ContestedStore
  <2> HIDE DEF s1
  <2>5. s2 \in StoreType /\ Exists(s2, i) /\ Grown(s1, s2, {})
    <3>1. CASE ref = NoId
      BY <2>3, <3>1, GrownSame
    <3>2. CASE ref # NoId
      <4>1. Rel("contested_by", ref) \in Relation
        BY <3>2, RevisionAssumption DEF Rel, Relation, Predicate
      <4> QED BY <2>3, <3>2, <4>1, AddRelationType, AddRelationExists, GrownRelation
    <3> QED BY <3>1, <3>2
  <2> HIDE DEF s2
  <2>6. Grown(s2, store', {})
    BY <2>4, <2>5, GrownAudit DEF AuditAction
  <2>7. Grown(store, store', ({} \cup {}) \cup {})
    BY <2>3, <2>5, <2>6, GrownTrans
  <2> QED BY <1>5, <2>7, EvolvesKept DEF Contest
<1> QED BY <1>1, <1>2, <1>3, <1>4, <1>5 DEF RevisionNext

\* Two records that agree in content with a third agree.
LEMMA SameContentAgrees ==
    ASSUME NEW r, NEW q, NEW p, SameContent(r, q), SameContent(r, p)
    PROVE  SameContent(q, p)
BY DEF SameContent

\* A call that stays as it is still agrees with the store after any step,
\* and a call that begins agrees with the store it reads.
LEMMA PendingStep ==
    ASSUME Agree, Evolves, IngestionNext \/ UNCHANGED outcomes
    PROVE  PendingAgrees'
<1> USE DEF Agree, StoreTypeOK, OutcomesTypeOK
<1>1. PICK N \in SUBSET (Ids \ used) : Grown(store, store', N) /\ used' = used \cup N
  BY DEF Evolves
<1>2. ASSUME NEW c \in Clients, outcomes[c] # NoCall, outcomes'[c] = outcomes[c]
      PROVE  /\ outcomes'[c].id \in used'
             /\ outcomes'[c].rec.type = "episodic"
             /\ Exists(store', outcomes'[c].id) =>
                    SameContent(store'[outcomes'[c].id], outcomes'[c].rec)
  <2> DEFINE i == outcomes[c].id
  <2>1. i \in used /\ i \in Ids \ N /\ outcomes[c].rec.type = "episodic"
    BY <1>2 DEF PendingAgrees
  <2>2. ASSUME Exists(store', i)
        PROVE  SameContent(store'[i], outcomes[c].rec)
    <3>1. Exists(store, i) /\ SameContent(store[i], store'[i])
      BY <1>1, <2>1, <2>2 DEF Grown
    <3>2. SameContent(store[i], outcomes[c].rec)
      BY <1>2, <3>1 DEF PendingAgrees
    <3> QED BY <3>1, <3>2, SameContentAgrees
  <2> QED BY <1>1, <1>2, <2>1, <2>2
<1>3. ASSUME NEW e \in Clients, NEW i \in Ids, NEW o \in Reported, OutcomeRead(e, i, o)
      PROVE  PendingAgrees'
  <2>1. SUFFICES ASSUME NEW c \in Clients, outcomes'[c] # NoCall
        PROVE  /\ outcomes'[c].id \in used'
               /\ outcomes'[c].rec.type = "episodic"
               /\ Exists(store', outcomes'[c].id) =>
                      SameContent(store'[outcomes'[c].id], outcomes'[c].rec)
    BY DEF PendingAgrees
  <2>2. CASE c # e
    BY <1>2, <1>3, <2>1, <2>2 DEF OutcomeRead
  <2>3. CASE c = e
    <3> DEFINE r == [store[i] EXCEPT !.outcome = o, !.evidence = TRUE,
                                     !.audit = store[i].audit \cup {"revise"}]
    <3>1. store[i] \in Record /\ i \in used /\ store[i].type = "episodic"
      BY <1>3, ExistsRecord DEF OutcomeRead, UsedCovers, Live
    <3>2. SameContent(store[i], r)
      BY <3>1 DEF SameContent, Record
    <3> HIDE DEF r
    <3>3. outcomes'[c] = [id |-> i, rec |-> r] /\ UNCHANGED <<store, used>>
      BY <1>3, <2>3 DEF OutcomeRead, r
    <3> QED BY <3>1, <3>2, <3>3 DEF SameContent
  <2> QED BY <2>2, <2>3
<1>4. ASSUME NEW e \in Clients, outcomes' = [outcomes EXCEPT ![e] = NoCall]
      PROVE  PendingAgrees'
  BY <1>2, <1>4 DEF PendingAgrees
<1>5. CASE UNCHANGED outcomes
  BY <1>2, <1>5 DEF PendingAgrees
<1> QED BY <1>3, <1>4, <1>5
        DEF IngestionNext, Ingest, OutcomeWrite, OutcomeLost, OutcomeTorn

\* A list a sweep is still working on stays good, and a new one is good.
LEMMA PruneStep ==
    ASSUME Agree, Evolves, DecayNext \/ UNCHANGED sweeps
    PROVE  PruneListed'
<1> USE DEF Agree, StoreTypeOK, SweepsTypeOK, SweepType
<1>1. PICK N \in SUBSET (Ids \ used) : Grown(store, store', N) /\ used' = used \cup N
  BY DEF Evolves
<1>2. ASSUME NEW d \in Daemons, sweeps'[d].phase = "prune", sweeps[d].phase = "prune",
             sweeps'[d].todo \subseteq sweeps[d].todo, NEW i \in sweeps'[d].todo
      PROVE  /\ i \in used'
             /\ Exists(store', i) => ~Protected(store'[i])
  <2>1. i \in used /\ i \in Ids \ N
    BY <1>2 DEF PruneListed
  <2>2. ASSUME Exists(store', i)
        PROVE  Exists(store, i) /\ SameContent(store[i], store'[i])
    BY <1>1, <2>1, <2>2 DEF Grown
  <2> QED BY <1>1, <1>2, <2>1, <2>2 DEF PruneListed, SameContent, Protected
<1>3. ASSUME \A d \in Daemons : sweeps'[d].phase = "prune" =>
                sweeps[d].phase = "prune" /\ sweeps'[d].todo \subseteq sweeps[d].todo
      PROVE  PruneListed'
  BY <1>2, <1>3 DEF PruneListed
<1>4. ASSUME NEW e \in Daemons, SweepNext(e)
      PROVE  PruneListed'
  <2>1. CASE SweepList(e)
    <3>1. SUFFICES ASSUME NEW d \in Daemons, sweeps'[d].phase = "prune", NEW i \in sweeps'[d].todo
          PROVE  /\ i \in used'
                 /\ Exists(store', i) => ~Protected(store'[i])
      BY DEF PruneListed
    <3>2. CASE d # e
      BY <1>2, <2>1, <3>1, <3>2 DEF SweepList
    <3>3. CASE d = e
      BY <2>1, <3>1, <3>3 DEF SweepList, UsedCovers, Prunable, Protected
    <3> QED BY <3>2, <3>3
  <2>2. CASE SweepStart(e)
    BY <1>3, <2>2 DEF SweepStart
  <2>3. CASE SweepDecay(e)
    BY <1>3, <2>3 DEF SweepDecay
  <2>4. CASE SweepPrune(e)
    BY <1>3, <2>4 DEF SweepPrune
  <2>5. CASE SweepEnd(e) \/ SweepNotFound(e) \/ SweepFault(e)
    BY <1>3, <2>5 DEF SweepEnd, SweepNotFound, SweepFault, IdleSweep
  <2> QED BY <1>4, <2>1, <2>2, <2>3, <2>4, <2>5 DEF SweepNext
<1>5. CASE UNCHANGED sweeps
  BY <1>3, <1>5
<1> QED BY <1>4, <1>5 DEF DecayNext, Reinforce, Penalize

\* A legal step of any composition, in which outcomes and sweeps are changed
\* by the services they belong to, keeps the agreement.
LEMMA AgreeStep ==
    ASSUME Agree, Evolves, StoreTypeOK', OutcomesTypeOK', SweepsTypeOK',
           IngestionNext \/ UNCHANGED outcomes, DecayNext \/ UNCHANGED sweeps
    PROVE  Agree'
<1>1. UsedCovers'
  BY DEF Evolves, Agree, UsedCovers, Live, Grown
<1> QED BY <1>1, PendingStep, PruneStep DEF Agree

-----------------------------------------------------------------------------
(* What the rows of revised records say: of a retraction or a contest the  *)
(* log has an entry, an episode is never revised, a fact has evidence.     *)

Uncontested(r) == \A rel \in r.relations : rel.predicate # "contested_by"

RowOK(r) ==
    /\ r.status = "retracted" => r.audit \cap {"revise", "merge", "delete"} # {}
    /\ r.status = "contested" => "revise" \in r.audit
    /\ r.supersededBy # NoId => "revise" \in r.audit
    /\ r.type = "episodic" =>
           /\ r.status = "none"
           /\ r.supersededBy = NoId
           /\ r.audit \subseteq {"create", "reinforce", "decay"}
           /\ Uncontested(r)
    /\ r.type = "semantic" => r.evidence

RowsOK(s) == \A j \in Ids : Exists(s, j) => RowOK(s[j])

\* Replacing one row by a good one leaves a store of good rows.
LEMMA RowsExcept ==
    ASSUME NEW s \in StoreType, RowsOK(s), NEW i \in Ids, NEW q \in Record, RowOK(q)
    PROVE  RowsOK([s EXCEPT ![i] = q])
BY DEF RowsOK, StoreType, Exists

\* An update with its audit entry is one new row.
LEMMA UpdateAudited ==
    ASSUME NEW s \in StoreType, NEW i \in Ids, NEW r \in Record, NEW a \in AuditAction,
           Exists(s, i)
    PROVE  /\ AddAuditEntry(UpdateRecord(s, i, r), i, a)
                = [s EXCEPT ![i] = [r EXCEPT !.audit = s[i].audit \cup {a}]]
           /\ [r EXCEPT !.audit = s[i].audit \cup {a}] \in Record
<1>1. s[i] \in Record
  BY ExistsRecord
<1>2. s[i].audit \cup {a} \in SUBSET AuditAction
  BY <1>1 DEF Record
<1>3. [r EXCEPT !.audit = s[i].audit \cup {a}] \in Record
  BY <1>2, RecordAudit
<1> DEFINE q == [r EXCEPT !.audit = s[i].audit]
<1>4. q.audit = s[i].audit /\ [q EXCEPT !.audit = q.audit \cup {a}]
                               = [r EXCEPT !.audit = s[i].audit \cup {a}]
  BY DEF Record
<1>5. UpdateRecord(s, i, r) = [s EXCEPT ![i] = q]
  BY DEF UpdateRecord
<1> HIDE DEF q
<1> QED BY <1>3, <1>4, <1>5 DEF AddAuditEntry, StoreType

\* So the update keeps the rows as they should be if that row is.
LEMMA UpdateRows ==
    ASSUME NEW s \in StoreType, RowsOK(s), NEW i \in Ids, NEW r \in Record,
           NEW a \in AuditAction, Exists(s, i),
           RowOK([r EXCEPT !.audit = s[i].audit \cup {a}])
    PROVE  /\ RowsOK(AddAuditEntry(UpdateRecord(s, i, r), i, a))
           /\ AddAuditEntry(UpdateRecord(s, i, r), i, a) \in StoreType
<1> DEFINE q == [r EXCEPT !.audit = s[i].audit \cup {a}]
<1>1. q \in Record /\ RowOK(q) /\ AddAuditEntry(UpdateRecord(s, i, r), i, a) = [s EXCEPT ![i] = q]
  BY UpdateAudited
<1> HIDE DEF q
<1>2. RowsOK([s EXCEPT ![i] = q]) /\ [s EXCEPT ![i] = q] \in StoreType
  BY <1>1, RowsExcept DEF StoreType
<1> QED BY <1>1, <1>2

\* A client's draft, as revision stores it.
LEMMA DraftRows ==
    ASSUME NEW d \in Drafts, HasEvidence(d.rec), NEW p \in {"supersedes", "derived_from"},
           NEW S \in SUBSET Ids
    PROVE  RowOK(Derived(d, p, S))
<1>1. Uncontested(Derived(d, p, S))
  BY RevisionAssumption DEF Draft, Derived, Uncontested, Rel, Record
<1>2. Derived(d, p, S).audit = {"create"}
  BY RevisionAssumption DEF Draft, Derived, Record
<1> QED BY <1>1, <1>2, RevisionAssumption DEF Draft, Derived, RowOK, HasEvidence, IsSemantic, Record

\* The record that Supersede creates is a good row.
LEMMA SuccessorRows ==
    ASSUME NEW d \in Drafts, HasEvidence(d.rec), NEW old \in Ids
    PROVE  RowOK(Successor(old, d))
<1> DEFINE q == Derived(d, "supersedes", {old})
<1>1. q \in Record /\ RowOK(q)
  BY DraftRows, DerivedType DEF Predicate
<1> HIDE DEF q
<1> QED BY <1>1 DEF Successor, RowOK, Uncontested, IsSemantic, Record, q

\* Revision keeps all rows good.
LEMMA RevisionRows ==
    ASSUME StoreTypeOK, RowsOK(store), RevisionNext
    PROVE  RowsOK(store')
<1> USE DEF StoreTypeOK
<1>1. ASSUME NEW i \in Ids, Revisable(store, i)
      PROVE  /\ Exists(store, i)
             /\ store[i] \in Record
             /\ RowOK(store[i])
             /\ store[i].type # "episodic"
  BY <1>1, ExistsRecord DEF Revisable, RowsOK
<1>2. ASSUME NEW s \in StoreType, RowsOK(s), NEW new \in Ids, NEW d \in Drafts,
             HasEvidence(d.rec), NEW S \in SUBSET Ids
      PROVE  RowsOK(CreateRecord(s, new, Derived(d, "derived_from", S)))
  BY <1>2, DraftRows, DerivedType, RowsExcept DEF CreateRecord, Predicate
<1>3. ASSUME NEW old \in Ids, NEW new \in Ids, NEW d \in Drafts, Supersede(old, new, d)
      PROVE  RowsOK(store')
  <2> DEFINE r  == Superseded(store[old], new, d)
             q  == [r EXCEPT !.audit = store[old].audit \cup {"revise"}]
             s1 == AddAuditEntry(UpdateRecord(store, old, r), old, "revise")
  <2>1. r \in Record /\ Exists(store, old) /\ RowOK(store[old]) /\ store[old] \in Record
        /\ store[old].type # "episodic"
    BY <1>1, <1>3, SupersededType DEF Supersede, CanSupersede
  <2>2. r.type = store[old].type /\ (r.type = "semantic" => r.evidence)
    BY <2>1 DEF Superseded, Retracted, IsSemantic, Record, RowOK
  <2> HIDE DEF r, RowsOK
  <2>3. RowOK(q) /\ "revise" \in AuditAction /\ store \in StoreType /\ RowsOK(store)
    BY <2>1, <2>2 DEF RowOK, Record, AuditAction
  <2>5. RowsOK(s1) /\ s1 \in StoreType
    BY <2>1, <2>3, UpdateRows
  <2>6. store' = CreateRecord(s1, new, Successor(old, d))
    BY <1>3 DEF Supersede, SupersededStore, r
  <2> HIDE DEF s1
  <2>7. HasEvidence(d.rec)
    BY <1>3 DEF Supersede, CanSupersede
  <2> QED BY <2>5, <2>6, <2>7, SuccessorRows, SuccessorType, RowsExcept DEF CreateRecord
<1>4. ASSUME NEW source \in Ids, NEW new \in Ids, NEW d \in Drafts, Fork(source, new, d)
      PROVE  RowsOK(store')
  <2> DEFINE q  == [store[source] EXCEPT !.audit = store[source].audit \cup {"fork"}]
             s1 == AddAuditEntry(store, source, "fork")
  <2>1. Exists(store, source) /\ RowOK(store[source]) /\ store[source] \in Record
        /\ store[source].type # "episodic"
    BY <1>1, <1>4 DEF Fork, CanFork
  <2>2. s1 \in StoreType
    BY <2>1, AddAuditEntryType DEF AuditAction
  <2>3. store[source].audit \cup {"fork"} \in SUBSET AuditAction
    BY <2>1 DEF Record, AuditAction
  <2>4. q \in Record
    BY <2>1, <2>3, RecordAudit
  <2>5. RowOK(q)
    BY <2>1 DEF RowOK, Record
  <2>6. s1 = [store EXCEPT ![source] = q]
    BY DEF AddAuditEntry
  <2> HIDE DEF q
  <2>7. RowsOK(s1)
    BY <2>4, <2>5, <2>6, RowsExcept
  <2>8. store' = CreateRecord(s1, new, Derived(d, "derived_from", {source}))
    BY <1>4 DEF Fork, ForkedStore
  <2> HIDE DEF s1
  <2> QED BY <1>2, <1>4, <2>2, <2>7, <2>8 DEF Fork, CanFork
<1>5. ASSUME NEW S \in SUBSET Ids, NEW new \in Ids, NEW d \in Drafts, Merge(S, new, d)
      PROVE  RowsOK(store')
  <2> DEFINE row(j) == [Retracted(store[j]) EXCEPT !.audit = store[j].audit \cup {"merge"}]
             s1 == [j \in Ids |-> IF j \in S THEN row(j) ELSE store[j]]
  <2>1. ASSUME NEW j \in S  PROVE  row(j) \in Record /\ RowOK(row(j))
    <3>1. store[j] \in Record /\ RowOK(store[j]) /\ store[j].type # "episodic"
      BY <1>1, <1>5 DEF Merge, CanMerge
    <3>2. store[j].audit \cup {"merge"} \in SUBSET AuditAction
      BY <3>1 DEF Record, AuditAction
    <3>3. row(j) \in Record
      BY <3>1, <3>2, RetractedType, RecordAudit
    <3>4. RowOK(row(j))
      BY <3>1 DEF RowOK, Retracted, IsSemantic, Record
    <3> QED BY <3>3, <3>4
  <2> HIDE DEF row
  <2>2. s1 \in StoreType /\ RowsOK(s1)
    BY <2>1 DEF StoreType, RowsOK, Exists
  <2>3. store' = CreateRecord(s1, new, Derived(d, "derived_from", S))
    BY <1>5 DEF Merge, MergedStore, row
  <2> HIDE DEF s1
  <2> QED BY <1>2, <1>5, <2>2, <2>3 DEF Merge, CanMerge
<1>6. ASSUME NEW i \in Ids, Retract(i)
      PROVE  RowsOK(store')
  <2> DEFINE r == Retracted(store[i])
             q == [r EXCEPT !.audit = store[i].audit \cup {"delete"}]
  <2>1. r \in Record /\ Exists(store, i) /\ RowOK(store[i]) /\ store[i] \in Record
        /\ store[i].type # "episodic"
    BY <1>1, <1>6, RetractedType DEF Retract
  <2>2. store' = AddAuditEntry(UpdateRecord(store, i, r), i, "delete")
    BY <1>6 DEF Retract, RetractedStore
  <2>3. RowOK(q) /\ "delete" \in AuditAction /\ store \in StoreType /\ RowsOK(store)
    BY <2>1 DEF RowOK, Retracted, IsSemantic, Record, AuditAction
  <2> HIDE DEF r
  <2> QED BY <2>1, <2>2, <2>3, UpdateRows
<1>7. ASSUME NEW i \in Ids, NEW ref \in Refs, Contest(i, ref)
      PROVE  RowsOK(store')
  <2> DEFINE r  == Contested(store[i])
             rels == IF ref = NoId THEN r.relations
                     ELSE r.relations \cup {Rel("contested_by", ref)}
             q  == [[r EXCEPT !.relations = rels]
                      EXCEPT !.audit = store[i].audit \cup {"revise"}]
  <2>1. r \in Record /\ Exists(store, i) /\ RowOK(store[i]) /\ store[i] \in Record
        /\ store[i].type # "episodic"
    BY <1>1, <1>7, ContestedType DEF Contest, CanContest
  <2>2. rels \in SUBSET Relation
    BY <2>1, RevisionAssumption DEF Rel, Relation, Predicate, Record
  <2>3. store[i].audit \cup {"revise"} \in SUBSET AuditAction
    BY <2>1 DEF Record, AuditAction
  <2>4. q \in Record
    BY <2>1, <2>2, <2>3, RecordRelations, RecordAudit
  <2>5. RowOK(q)
    BY <2>1 DEF RowOK, Contested, IsSemantic, Record
  <2>6. store' = [store EXCEPT ![i] = q]
    BY <1>7, <2>1 DEF Contest, ContestedStore, UpdateRecord, AddRelation, AddAuditEntry,
                      StoreType, Record
  <2> HIDE DEF q
  <2> QED BY <2>4, <2>5, <2>6, RowsExcept
<1> QED BY <1>3, <1>4, <1>5, <1>6, <1>7 DEF RevisionNext
=============================================================================
