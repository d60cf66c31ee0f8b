-------------------------- MODULE MembrainProofs --------------------------
(***************************************************************************)
(* Theorems of module Membrain, for every value of its constants: its      *)
(* types, what no step of any service may do to the records that exist,    *)
(* and what every revised record and every link between records keeps.     *)
(* The invariants add to the types that pending outcomes and listed        *)
(* deletions agree with the store (ServiceProofs).                         *)
(***************************************************************************)
EXTENDS Membrain, ServiceProofs, FiniteSetTheorems

-----------------------------------------------------------------------------
(* What the operators of the services return.                              *)

\* A reinforcement by consolidation yields a salience.
LEMMA RaisedType ==
    ASSUME NEW v \in Salience
    PROVE  Raised(v) \in Salience
<1>1. v + Step \in Nat
  BY RecordStoreAssumption, ConsolidationAssumption DEF Salience
<1> QED BY <1>1, AtMostType DEF Raised

\* Episodic compression yields a salience.
LEMMA CompressedType ==
    ASSUME NEW v \in Salience
    PROVE  Compressed(v) \in Salience
<1>1. v \div 2 \in Int /\ v \div 2 <= MaxSalience
  BY RecordStoreAssumption DEF Salience
<1> QED BY <1>1, AtLeastType, ConsolidationAssumption DEF Compressed

\* The record that consolidation creates is a record.
LEMMA DistilledType ==
    ASSUME NEW t \in {"semantic", "competence", "plan_graph"}, NEW f \in Facts,
           NEW S \in SUBSET Ids
    PROVE  Distilled(t, f, S) \in Record
BY RecordStoreAssumption
DEF Distilled, Record, MemoryType, Salience, DeletionPolicy, Outcome,
    RevisionStatus, AuditAction, Rel, Relation, Predicate


-----------------------------------------------------------------------------
(* Type correctness.  One lemma per service: its steps keep the types of   *)
(* the variables it writes.                                                *)

\* What the stages list is of the type the runs keep it in.
LEMMA ListingTypes ==
    ASSUME StoreTypeOK
    PROVE  /\ \A old \in SUBSET Episodes(store) : Cuts(store, old) \in SUBSET Cut
           /\ \A stage \in {"semantic", "competence", "plan"} :
                  ItemsAt(stage, store) \in SUBSET Item
           /\ \A t : Indexes(store, t) \subseteq SUBSET Entry
<1> USE DEF StoreTypeOK
<1>1. ASSUME NEW i \in Live(store)
      PROVE  i \in Ids /\ store[i].fact \in Facts /\ store[i].salience \in Salience
  <2>1. i \in Ids /\ store[i] \in Record
    BY ExistsRecord DEF Live
  <2> QED BY <2>1 DEF Record
<1>2. ASSUME NEW old \in SUBSET Episodes(store)
      PROVE  Cuts(store, old) \in SUBSET Cut
  <2>1. \A i \in old : i \in Ids /\ Compressed(store[i].salience) \in Salience
    BY <1>1, CompressedType DEF Episodes, OfType
  <2> QED BY <2>1 DEF Cuts, Cut
<1>3. Succeeded(store) \subseteq Live(store) /\ Episodes(store) \subseteq Live(store)
  BY DEF Succeeded, Episodes, OfType
<1>4. ItemsAt("semantic", store) \in SUBSET Item
  BY <1>1, <1>3 DEF ItemsAt, Item
<1>5. ItemsAt("competence", store) \in SUBSET Item
  <2> DEFINE of(f) == {i \in Succeeded(store) : store[i].fact = f}
             Often    == {g \in ToolFacts : Cardinality(of(g)) >= 2}
  <2>1. ItemsAt("competence", store) = {[key |-> f, sources |-> of(f)] : f \in Often}
    BY DEF ItemsAt
  <2>2. Often \subseteq Facts
    BY ConsolidationAssumption
  <2>3. \A f : of(f) \in SUBSET Ids
    BY <1>1, <1>3
  <2> HIDE DEF Often, of
  <2> QED BY <2>1, <2>2, <2>3 DEF Item
<1>6. ItemsAt("plan", store) \in SUBSET Item
  BY <1>1, <1>3 DEF ItemsAt, Item
<1>7. ASSUME NEW t
      PROVE  Indexes(store, t) \subseteq SUBSET Entry
  BY <1>1 DEF Indexes, Entry, OfType
<1> QED BY <1>2, <1>4, <1>5, <1>6, <1>7

\* Consolidation keeps the types of the store and of runs.
LEMMA ConsolidationTypes ==
    ASSUME StoreTypeOK, RunsTypeOK, ConsolidationNext
    PROVE  StoreTypeOK' /\ RunsTypeOK'
<1> USE DEF StoreTypeOK, RunsTypeOK
<1>1. PICK d \in Consolidators : RunNext(d)
  BY DEF ConsolidationNext
<1>2. runs[d] \in RunType
  OBVIOUS
<1>3. IdleRun \in RunType
  BY DEF IdleRun, AtStage, RunType, Stage
<1>4. ASSUME NEW i \in Ids, NEW v \in Salience, Exists(store, i)
      PROVE  /\ CutStore(store, i, v) \in StoreType
             /\ ReinforcedStore(store, i, v) \in StoreType
  <2>1. UpdateSalience(store, i, v) \in StoreType /\ Exists(UpdateSalience(store, i, v), i)
    BY <1>4, UpdateSalienceType, UpdateSalienceExists
  <2> QED BY <2>1, AddAuditEntryType DEF CutStore, ReinforcedStore, AuditAction
<1>5. CASE RunStart(d)
  <2>1. PICK old \in SUBSET Episodes(store) :
          runs' = [runs EXCEPT ![d] = AtStage("compress", Cuts(store, old), {})]
    BY <1>5 DEF RunStart
  <2>2. AtStage("compress", Cuts(store, old), {}) \in RunType
    BY ListingTypes DEF AtStage, RunType, Stage
  <2> QED BY <1>5, <2>1, <2>2 DEF RunStart
<1>6. CASE RunCompress(d)
  <2>1. PICK cut \in runs[d].cuts :
          /\ Exists(store, cut.id)
          /\ store' = CutStore(store, cut.id, cut.to)
          /\ runs' = [runs EXCEPT ![d].cuts = runs[d].cuts \ {cut}]
    BY <1>6 DEF RunCompress
  <2>2. cut \in Cut
    BY <1>2 DEF RunType
  <2>3. store' \in StoreType
    BY <1>4, <2>1, <2>2 DEF Cut
  <2>4. runs' \in [Consolidators -> RunType]
    BY <1>2, <2>1 DEF RunType
  <2> QED BY <1>6, <2>3, <2>4 DEF RunCompress
<1>7. CASE RunAdvance(d)
  <2> DEFINE next == IF runs[d].stage = "compress" THEN "semantic"
                     ELSE NextStage[runs[d].stage]
  <2>1. next \in {"semantic", "competence", "plan"}
    BY <1>7 DEF RunAdvance, NextStage
  <2>2. AtStage(next, {}, ItemsAt(next, store)) \in RunType
    BY <2>1, ListingTypes DEF AtStage, RunType, Stage
  <2> QED BY <1>7, <2>2 DEF RunAdvance
<1>8. CASE RunIndex(d)
  <2>1. PICK index \in Indexes(store, TypeAt[runs[d].stage]) :
          runs' = [runs EXCEPT ![d].listing = FALSE, ![d].index = index]
    BY <1>8 DEF RunIndex
  <2>2. index \in SUBSET Entry
    BY ListingTypes
  <2>3. runs' \in [Consolidators -> RunType]
    BY <1>2, <2>1, <2>2 DEF RunType
  <2> QED BY <1>8, <2>3 DEF RunIndex
<1>9. CASE RunIndexPlans(d)
  <2>1. PICK left \in SUBSET runs[d].todo :
          runs' = [runs EXCEPT ![d].listing = FALSE, ![d].todo = left]
    BY <1>9 DEF RunIndexPlans
  <2>2. runs' \in [Consolidators -> RunType]
    BY <1>2, <2>1 DEF RunType
  <2> QED BY <1>9, <2>2 DEF RunIndexPlans
<1>10. CASE RunReinforce(d)
  <2>1. PICK t \in runs[d].todo, e \in runs[d].index :
          /\ Exists(store, e.id)
          /\ store' = ReinforcedStore(store, e.id, Raised(e.salience))
          /\ runs' = [runs EXCEPT ![d].todo = runs[d].todo \ {t}]
    BY <1>10 DEF RunReinforce
  <2>2. e \in Entry
    BY <1>2 DEF RunType
  <2>3. store' \in StoreType
    BY <1>4, <2>1, <2>2, RaisedType DEF Entry
  <2>4. runs' \in [Consolidators -> RunType]
    BY <1>2, <2>1 DEF RunType
  <2> QED BY <1>10, <2>3, <2>4 DEF RunReinforce
<1>11. ASSUME NEW new \in Ids, RunCreate(d, new)
       PROVE  StoreTypeOK' /\ RunsTypeOK'
  <2>1. PICK t \in runs[d].todo :
          LET r == Distilled(TypeAt[runs[d].stage], t.key, t.sources)
              e == [key |-> t.key, id |-> new, salience |-> MaxSalience]
          IN  /\ store' = CreateRecord(store, new, r)
              /\ runs' = [runs EXCEPT ![d].todo = runs[d].todo \ {t},
                               ![d].index = IF runs[d].stage = "plan" THEN {}
                                            ELSE runs[d].index \cup {e}]
    BY <1>11 DEF RunCreate
  <2>2. t \in Item
    BY <1>2 DEF RunType
  <2>3. TypeAt[runs[d].stage] \in {"semantic", "competence", "plan_graph"}
    BY <1>11 DEF RunCreate, TypeAt
  <2>4. store' \in StoreType
    BY <2>1, <2>2, <2>3, DistilledType, CreateRecordType DEF Item
  <2>5. [key |-> t.key, id |-> new, salience |-> MaxSalience] \in Entry
    BY <2>2, RecordStoreAssumption DEF Item, Entry, Salience
  <2>6. runs' \in [Consolidators -> RunType]
    BY <1>2, <2>1, <2>5 DEF RunType
  <2> QED BY <1>11, <2>4, <2>6 DEF RunCreate
<1>12. CASE RunNotFound(d)
  BY <1>3, <1>12 DEF RunNotFound
<1>13. CASE RunFault(d)
  BY <1>3, <1>13, ConsolidationAssumption DEF RunFault
<1>14. CASE RunEnd(d)
  BY <1>3, <1>14 DEF RunEnd
<1> QED BY <1>1, <1>5, <1>6, <1>7, <1>8, <1>9, <1>10, <1>11, <1>12, <1>13, <1>14 DEF RunNext

\* The variables have their types in every state, whichever services run:
\* no service stores a salience outside its range, a status or an id it
\* should not, and no scheduler keeps a list of anything else.
THEOREM TypeCorrect == Spec => []TypeOK
<1>1. Init => TypeOK
  BY RecordStoreAssumption, DecayAssumption, ConsolidationAssumption
  DEF Init, TypeOK, InitStore, InitOutcomes, InitSweeps, InitRuns, StoreTypeOK, StoreType,
      OutcomesTypeOK, SweepsTypeOK, SweepType, IdleSweep, RunsTypeOK, RunType, IdleRun,
      AtStage, Stage
<1>2. TypeOK /\ [Next]_vars => TypeOK'
  <2> SUFFICES ASSUME TypeOK, [Next]_vars  PROVE TypeOK'
    OBVIOUS
  <2> USE DEF TypeOK
  <2>1. CASE IngestionNext /\ UNCHANGED <<sweeps, faults, runs, breaks>>
    BY <2>1, IngestionTypes DEF SweepsTypeOK, RunsTypeOK
  <2>2. CASE RevisionNext /\ UNCHANGED <<outcomes, sweeps, faults, runs, breaks>>
    BY <2>2, RevisionTypes DEF OutcomesTypeOK, SweepsTypeOK, RunsTypeOK
  <2>3. CASE DecayNext /\ UNCHANGED <<outcomes, runs, breaks>>
    BY <2>3, DecayTypes DEF OutcomesTypeOK, RunsTypeOK
  <2>4. CASE ConsolidationNext /\ UNCHANGED <<outcomes, sweeps, faults>>
    BY <2>4, ConsolidationTypes DEF OutcomesTypeOK, SweepsTypeOK
  <2>5. CASE UNCHANGED vars
    BY <2>5 DEF vars, StoreTypeOK, OutcomesTypeOK, SweepsTypeOK, RunsTypeOK
  <2> QED BY <2>1, <2>2, <2>3, <2>4, <2>5 DEF Next
<1> QED BY <1>1, <1>2, PTL DEF Spec

-----------------------------------------------------------------------------
(* What may happen to the records that exist.                              *)

Carried == TypeOK /\ Agree

-----------------------------------------------------------------------------
(* The services.  Whatever one of them does to the store, it lets the      *)
(* records that exist grow and creates others under fresh ids only.        *)

\* Consolidation takes legal steps only.
LEMMA ConsolidationEvolves ==
    ASSUME Carried, ConsolidationNext
    PROVE  Evolves
<1> USE DEF Carried, Agree, TypeOK, StoreTypeOK, RunsTypeOK
<1>1. PICK d \in Consolidators : RunNext(d)
  BY DEF ConsolidationNext
<1>2. runs[d] \in RunType
  OBVIOUS
<1>3. CASE RunCompress(d)
  <2>1. PICK cut \in runs[d].cuts :
          Exists(store, cut.id) /\ store' = CutStore(store, cut.id, cut.to)
    BY <1>3 DEF RunCompress
  <2>2. cut \in Cut
    BY <1>2 DEF RunType
  <2> QED BY <1>3, <2>1, <2>2, GrownSalienceAudited, EvolvesKept
          DEF RunCompress, CutStore, Cut, AuditAction
<1>4. CASE RunReinforce(d)
  <2>1. PICK t \in runs[d].todo, e \in runs[d].index :
          Exists(store, e.id) /\ store' = ReinforcedStore(store, e.id, Raised(e.salience))
    BY <1>4 DEF RunReinforce
  <2>2. e \in Entry
    BY <1>2 DEF RunType
  <2>3. e.id \in Ids /\ Raised(e.salience) \in Salience
    BY <2>2, RaisedType DEF Entry
  <2> QED BY <1>4, <2>1, <2>3, GrownSalienceAudited, EvolvesKept
          DEF RunReinforce, ReinforcedStore, AuditAction
<1>5. ASSUME NEW new \in Ids, RunCreate(d, new)
      PROVE  Evolves
  BY <1>5, GrownSame, EvolvesCreate DEF RunCreate
<1>6. CASE UNCHANGED <<store, used>>
  BY <1>6, GrownSame, EvolvesKept
<1> QED BY <1>1, <1>3, <1>4, <1>5, <1>6
        DEF RunNext, RunStart, RunAdvance, RunIndex, RunIndexPlans, RunNotFound, RunFault, RunEnd

\* Every step of the composed system is a legal one.
LEMMA StepEvolves ==
    ASSUME Carried, [Next]_vars
    PROVE  Evolves
<1>1. CASE UNCHANGED vars
  BY <1>1, GrownSame, EvolvesKept DEF vars
<1> QED BY <1>1, OutcomeEvolves, RevisionEvolves, DecayEvolves, ConsolidationEvolves
    DEF Next, Carried, Agree

-----------------------------------------------------------------------------
(* The invariant.                                                          *)

\* A step of the composed system keeps the invariant.
LEMMA CarriedStep ==
    ASSUME Carried, TypeOK', [Next]_vars
    PROVE  Carried'
<1>1. Evolves
  BY StepEvolves
<1>2. StoreTypeOK' /\ OutcomesTypeOK' /\ SweepsTypeOK'
  BY DEF TypeOK
<1>3. IngestionNext \/ UNCHANGED outcomes
  BY DEF Next, vars
<1>4. DecayNext \/ UNCHANGED sweeps
  BY DEF Next, vars
<1> QED BY <1>1, <1>2, <1>3, <1>4, AgreeStep DEF Carried

\* The invariant holds of every behaviour.
THEOREM CarriedHolds == Spec => []Carried
<1>1. Init => UsedCovers /\ PendingAgrees /\ PruneListed
  BY DEF Init, InitStore, InitOutcomes, InitSweeps, UsedCovers, PendingAgrees, PruneListed,
         Live, Exists, IdleSweep
<1>2. Carried /\ TypeOK' /\ [Next]_vars => Carried'
  BY CarriedStep
<1>3. UsedCovers /\ PendingAgrees /\ PruneListed /\ TypeOK => Carried
  BY DEF Carried, Agree, TypeOK
<1> QED BY <1>1, <1>2, <1>3, TypeCorrect, PTL DEF Spec

-----------------------------------------------------------------------------
(* The theorems.                                                           *)

\* The audit log of a record only grows: not even an IngestOutcome call that
\* writes back what it read long before drops entries added in between.
THEOREM AuditGrows == Spec => AuditAppendOnly
<1>1. Carried /\ [Next]_vars =>
        \A i \in Live(store) : Exists(store, i)' => store[i].audit \subseteq store'[i].audit
  BY StepEvolves DEF Evolves, Grown, Carried, Agree, UsedCovers, Live, Exists
<1> QED BY <1>1, CarriedHolds, PTL DEF Spec, AuditAppendOnly

\* Type, content, protection and origin of a record never change under its
\* id: no revision, rating, sweep or late write-back touches them.
THEOREM ContentStays == Spec => ContentImmutable
<1>1. Carried /\ [Next]_vars =>
        \A i \in Live(store) :
            Exists(store, i)' =>
                /\ store'[i].type = store[i].type
                /\ store'[i].fact = store[i].fact
                /\ store'[i].pinned = store[i].pinned
                /\ store'[i].policy = store[i].policy
                /\ store'[i].supersedes = store[i].supersedes
  BY StepEvolves DEF Evolves, Grown, SameContent, Carried, Agree, UsedCovers, Live, Exists
<1> QED BY <1>1, CarriedHolds, PTL DEF Spec, ContentImmutable

\* A deleted record never comes back, whatever calls are still under way.
THEOREM DeletionFinal == Spec => DeletedStayDeleted
<1>1. Carried /\ [Next]_vars => \A i \in used : ~Exists(store, i) => ~Exists(store, i)'
  BY StepEvolves DEF Evolves, Grown, Carried, Agree, TypeOK, StoreTypeOK, Exists
<1> QED BY <1>1, CarriedHolds, PTL DEF Spec, DeletedStayDeleted

\* A pinned record, or one whose policy is not auto_prune, is never deleted,
\* however stale the list is that a sweep deletes from.
THEOREM ProtectionHolds == Spec => ProtectedSurvive
<1>1. Carried /\ [Next]_vars =>
        \A i \in Live(store) :
            store[i].pinned \/ store[i].policy # "auto_prune" => Exists(store, i)'
  BY StepEvolves DEF Evolves, Grown, Protected, Carried, Agree, UsedCovers, Live, Exists
<1> QED BY <1>1, CarriedHolds, PTL DEF Spec, ProtectedSurvive

-----------------------------------------------------------------------------
(* What revision promises of the records that stand in the store.  Of each *)
(* record: a revised one says so in its log, an episode is never revised,  *)
(* a fact has evidence; the invariant Revised joins the three, because a   *)
(* record written back by IngestOutcome keeps them only as long as it is   *)
(* an episode nobody revised.  Of the links between records: they lead to  *)
(* records that exist, and both ends of a supersession agree (Linked).     *)

PendingUnrevised ==
    \A c \in Clients : outcomes[c] # NoCall =>
        /\ outcomes[c].rec.status = "none"
        /\ outcomes[c].rec.supersededBy = NoId
        /\ Uncontested(outcomes[c].rec)

Revised == Carried /\ RowsOK(store) /\ PendingUnrevised

-----------------------------------------------------------------------------
\* UpdateSalience with its audit entry leaves a store of good rows.
LEMMA SalienceAudited ==
    ASSUME NEW s \in StoreType, NEW i \in Ids, NEW v \in Salience, NEW a \in AuditAction,
           Exists(s, i), RowsOK(s), a \in {"reinforce", "decay"}
    PROVE  RowsOK(AddAuditEntry(UpdateSalience(s, i, v), i, a))
<1>1. s[i] \in Record
  BY ExistsRecord
<1> DEFINE q == [s[i] EXCEPT !.salience = v]
           p == [q EXCEPT !.audit = q.audit \cup {a}]
<1>2. q \in Record /\ q.audit = s[i].audit
  BY <1>1, RecordSalience DEF Record
<1>3. q.audit \cup {a} \in SUBSET AuditAction
  BY <1>2 DEF Record
<1>4. p \in Record
  BY <1>2, <1>3, RecordAudit
<1>5. RowOK(p)
  BY <1>1 DEF RowOK, RowsOK, Uncontested, Record
<1>6. UpdateSalience(s, i, v) = [s EXCEPT ![i] = q]
  BY DEF UpdateSalience
<1> HIDE DEF q
<1>7. AddAuditEntry([s EXCEPT ![i] = q], i, a) = [s EXCEPT ![i] = p]
  BY DEF AddAuditEntry, StoreType
<1> HIDE DEF p
<1>8. RowsOK([s EXCEPT ![i] = p])
  BY <1>4, <1>5, RowsExcept
<1> QED BY <1>6, <1>7, <1>8

-----------------------------------------------------------------------------
(* The services.                                                           *)

\* Ingestion, late outcomes included, keeps all rows good.
LEMMA IngestionRows ==
    ASSUME Revised, IngestionNext
    PROVE  RowsOK(store') /\ PendingUnrevised'
<1> USE DEF Revised, Carried, Agree, TypeOK, StoreTypeOK, OutcomesTypeOK
<1>1. ASSUME NEW i \in Ids, NEW r \in Ingested, Ingest(i, r)
      PROVE  RowsOK(store') /\ PendingUnrevised'
  <2>1. r \in Record /\ RowOK(r)
    <3>1. PICK t \in {"episodic", "semantic", "working"}, f \in Facts :
            r = IngestedRecord(t, f)
      BY IngestionAssumption
    <3> QED BY <3>1, IngestedType DEF IngestedRecord, RowOK, Uncontested
  <2> QED BY <1>1, <2>1, RowsExcept DEF Ingest, CreateRecord, PendingUnrevised
<1>2. ASSUME NEW c \in Clients, NEW i \in Ids, NEW o \in Reported, OutcomeRead(c, i, o)
      PROVE  RowsOK(store') /\ PendingUnrevised'
  <2> DEFINE r == [store[i] EXCEPT !.outcome = o, !.evidence = TRUE,
                                   !.audit = store[i].audit \cup {"revise"}]
  <2>1. store[i] \in Record /\ RowOK(store[i]) /\ store[i].type = "episodic"
    BY <1>2, ExistsRecord DEF OutcomeRead, RowsOK
  <2>2. r.status = "none" /\ r.supersededBy = NoId /\ Uncontested(r)
    BY <2>1 DEF RowOK, Uncontested, Record
  <2> HIDE DEF r
  <2>3. outcomes' = [outcomes EXCEPT ![c] = [id |-> i, rec |-> r]] /\ UNCHANGED store
    BY <1>2 DEF OutcomeRead, r
  <2> QED BY <2>2, <2>3 DEF PendingUnrevised, RowsOK
<1>3. ASSUME NEW c \in Clients, NEW x \in SUBSET outcomes[c].rec.relations,
             outcomes[c] # NoCall, Exists(store, outcomes[c].id),
             store' = UpdateRecord(store, outcomes[c].id,
                                   [outcomes[c].rec EXCEPT !.relations = x])
      PROVE  RowsOK(store')
  <2> DEFINE i == outcomes[c].id
             q == [[outcomes[c].rec EXCEPT !.relations = x] EXCEPT !.audit = store[i].audit]
  <2>1. outcomes[c].rec \in Record /\ i \in Ids /\ store[i] \in Record
    BY <1>3, ExistsRecord
  <2>2. outcomes[c].rec.status = "none" /\ outcomes[c].rec.supersededBy = NoId
        /\ Uncontested(outcomes[c].rec)
    BY <1>3 DEF PendingUnrevised
  <2>3. outcomes[c].rec.type = "episodic"
    BY <1>3 DEF PendingAgrees
  <2>4. q \in Record
    BY <2>1 DEF Record
  <2>5. RowOK(store[i]) /\ store[i].type = "episodic"
    BY <1>3, <2>1, <2>3 DEF PendingAgrees, SameContent, RowsOK
  <2>6. RowOK(q)
    BY <2>1, <2>2, <2>3, <2>5 DEF RowOK, Uncontested, Record
  <2>7. store' = [store EXCEPT ![i] = q]
    BY <1>3 DEF UpdateRecord
  <2> HIDE DEF q
  <2> QED BY <2>1, <2>4, <2>6, <2>7, RowsExcept
<1>4. ASSUME NEW c \in Clients, OutcomeWrite(c)
      PROVE  RowsOK(store') /\ PendingUnrevised'
  <2>1. /\ outcomes[c] # NoCall
        /\ outcomes[c] \in [id : Ids, rec : Record]
        /\ Exists(store, outcomes[c].id)
    BY <1>4 DEF OutcomeWrite
  <2>2. outcomes[c].rec = [outcomes[c].rec EXCEPT !.relations = outcomes[c].rec.relations]
    BY <2>1 DEF Record
  <2>3. outcomes[c].rec.relations \in SUBSET outcomes[c].rec.relations
    OBVIOUS
  <2> QED BY <1>3, <1>4, <2>1, <2>2, <2>3 DEF OutcomeWrite, PendingUnrevised
<1>5. ASSUME NEW c \in Clients, OutcomeLost(c)
      PROVE  RowsOK(store') /\ PendingUnrevised'
  BY <1>5 DEF OutcomeLost, PendingUnrevised
<1>6. ASSUME NEW c \in Clients, OutcomeTorn(c)
      PROVE  RowsOK(store') /\ PendingUnrevised'
  <2>1. /\ outcomes[c] # NoCall
        /\ outcomes[c] \in [id : Ids, rec : Record]
        /\ Exists(store, outcomes[c].id)
    BY <1>6 DEF OutcomeTorn
  <2>2. PICK kept \in SUBSET {rel \in outcomes[c].rec.relations : Exists(store, rel.target)} :
          store' = UpdateRecord(store, outcomes[c].id,
                                [outcomes[c].rec EXCEPT !.relations = kept])
    BY <1>6 DEF OutcomeTorn
  <2>3. kept \in SUBSET outcomes[c].rec.relations
    OBVIOUS
  <2> QED BY <1>3, <1>6, <2>1, <2>2, <2>3 DEF OutcomeTorn, PendingUnrevised
<1> QED BY <1>1, <1>2, <1>4, <1>5, <1>6 DEF IngestionNext

\* Decay and pruning keep all rows good.
LEMMA DecayRows ==
    ASSUME Revised, DecayNext
    PROVE  RowsOK(store')
<1> USE DEF Revised, Carried, Agree, TypeOK, StoreTypeOK, SweepsTypeOK, SweepType
<1>1. ASSUME NEW i \in Ids, Reinforce(i)
      PROVE  RowsOK(store')
  <2> DEFINE r == Reinforced(store[i])
             q == [r EXCEPT !.audit = store[i].audit \cup {"reinforce"}]
  <2>1. r \in Record /\ Exists(store, i) /\ RowOK(store[i]) /\ store[i] \in Record
    BY <1>1, ReinforcedType, ExistsRecord DEF Reinforce, RowsOK
  <2>2. store' = AddAuditEntry(UpdateRecord(store, i, r), i, "reinforce")
    BY <1>1 DEF Reinforce
  <2>3. RowOK(q) /\ "reinforce" \in AuditAction /\ store \in StoreType /\ RowsOK(store)
    BY <2>1 DEF RowOK, Uncontested, Reinforced, Record, AuditAction
  <2> HIDE DEF r
  <2> QED BY <2>1, <2>2, <2>3, UpdateRows
<1>2. ASSUME NEW i \in Ids, NEW amount \in Penalties, Penalize(i, amount)
      PROVE  RowsOK(store')
  <2>1. Exists(store, i) /\ Penalized(store[i], amount) \in Salience
    BY <1>2, ExistsRecord, PenalizedType DEF Penalize
  <2> QED BY <1>2, <2>1, SalienceAudited DEF Penalize, AuditAction
<1>3. ASSUME NEW d \in Daemons, SweepNext(d)
      PROVE  RowsOK(store')
  <2>1. CASE SweepDecay(d)
    <3>1. PICK i \in sweeps[d].todo :
            Exists(store, i) /\ \E v \in DecayedTo(store[i]) : store' = DecayedStore(store, i, v)
      BY <2>1 DEF SweepDecay
    <3>2. PICK v \in DecayedTo(store[i]) : store' = DecayedStore(store, i, v)
      BY <3>1
    <3>3. v \in Salience
      BY <3>1, ExistsRecord, DecayedToType
    <3> QED BY <2>1, <3>1, <3>2, <3>3, SalienceAudited DEF DecayedStore, AuditAction
  <2>2. CASE SweepPrune(d)
    <3>1. PICK i \in sweeps[d].todo :
            Exists(store, i) /\ store' = DeleteRecord(AddAuditEntry(store, i, "delete"), i)
      BY <2>2 DEF SweepPrune
    <3>2. ASSUME NEW j \in Ids, Exists(store', j)
          PROVE  RowOK(store'[j])
      <4> DEFINE left == {rel \in store[j].relations : rel.target # i}
      <4>1. j # i /\ Exists(store, j) /\ store'[j] = [store[j] EXCEPT !.relations = left]
        BY <3>1, <3>2 DEF DeleteRecord, AddAuditEntry, Exists, StoreType
      <4>2. store[j] \in Record /\ RowOK(store[j])
        BY <4>1, ExistsRecord DEF RowsOK
      <4>3. left \subseteq store[j].relations
        OBVIOUS
      <4> HIDE DEF left
      <4> QED BY <4>1, <4>2, <4>3 DEF RowOK, Uncontested, Record
    <3> QED BY <3>2 DEF RowsOK
  <2>3. CASE UNCHANGED store
    BY <2>3 DEF RowsOK
  <2> QED BY <1>3, <2>1, <2>2, <2>3
          DEF SweepNext, SweepStart, SweepList, SweepEnd, SweepNotFound, SweepFault
<1> QED BY <1>1, <1>2, <1>3, DecayAssumption DEF DecayNext

\* Consolidation keeps all rows good.
LEMMA ConsolidationRows ==
    ASSUME Revised, ConsolidationNext
    PROVE  RowsOK(store')
<1> USE DEF Revised, Carried, Agree, TypeOK, StoreTypeOK, RunsTypeOK
<1>1. PICK d \in Consolidators : RunNext(d)
  BY DEF ConsolidationNext
<1>2. runs[d] \in RunType
  OBVIOUS
<1>3. CASE RunCompress(d)
  <2>1. PICK cut \in runs[d].cuts :
          Exists(store, cut.id) /\ store' = CutStore(store, cut.id, cut.to)
    BY <1>3 DEF RunCompress
  <2>2. cut \in Cut
    BY <1>2 DEF RunType
  <2> QED BY <2>1, <2>2, SalienceAudited DEF CutStore, Cut, AuditAction
<1>4. CASE RunReinforce(d)
  <2>1. PICK t \in runs[d].todo, e \in runs[d].index :
          Exists(store, e.id) /\ store' = ReinforcedStore(store, e.id, Raised(e.salience))
    BY <1>4 DEF RunReinforce
  <2>2. e \in Entry
    BY <1>2 DEF RunType
  <2>3. e.id \in Ids /\ Raised(e.salience) \in Salience
    BY <2>2, RaisedType DEF Entry
  <2> QED BY <2>1, <2>3, SalienceAudited DEF ReinforcedStore, AuditAction
<1>5. ASSUME NEW new \in Ids, RunCreate(d, new)
      PROVE  RowsOK(store')
  <2>1. PICK t \in runs[d].todo :
          store' = CreateRecord(store, new, Distilled(TypeAt[runs[d].stage], t.key, t.sources))
    BY <1>5 DEF RunCreate
  <2>2. t \in Item
    BY <1>2 DEF RunType
  <2>3. TypeAt[runs[d].stage] \in {"semantic", "competence", "plan_graph"}
    BY <1>5 DEF RunCreate, TypeAt
  <2> DEFINE q == Distilled(TypeAt[runs[d].stage], t.key, t.sources)
  <2>4. q \in Record
    BY <2>2, <2>3, DistilledType DEF Item
  <2>5. RowOK(q)
    BY <2>3 DEF Distilled, RowOK, Uncontested, Rel
  <2> HIDE DEF q
  <2> QED BY <2>1, <2>4, <2>5, RowsExcept DEF CreateRecord, q
<1>6. CASE UNCHANGED store
  BY <1>6 DEF RowsOK
<1> QED BY <1>1, <1>3, <1>4, <1>5, <1>6
        DEF RunNext, RunStart, RunAdvance, RunIndex, RunIndexPlans, RunNotFound, RunFault, RunEnd

\* The invariant holds of every behaviour.
THEOREM RevisedHolds == Spec => [](RowsOK(store) /\ PendingUnrevised)
<1>1. Init => RowsOK(store) /\ PendingUnrevised
  BY DEF Init, InitStore, InitOutcomes, RowsOK, PendingUnrevised, Exists
<1>2. Carried /\ RowsOK(store) /\ PendingUnrevised /\ [Next]_vars
        => (RowsOK(store) /\ PendingUnrevised)'
  <2> SUFFICES ASSUME Revised, [Next]_vars
               PROVE  RowsOK(store') /\ PendingUnrevised'
    BY DEF Revised
  <2>1. CASE IngestionNext
    BY <2>1, IngestionRows
  <2>2. CASE RevisionNext /\ UNCHANGED <<outcomes, sweeps, faults, runs, breaks>>
    BY <2>2, RevisionRows DEF Revised, Carried, Agree, PendingUnrevised
  <2>3. CASE DecayNext /\ UNCHANGED <<outcomes, runs, breaks>>
    BY <2>3, DecayRows DEF Revised, PendingUnrevised
  <2>4. CASE ConsolidationNext /\ UNCHANGED <<outcomes, sweeps, faults>>
    BY <2>4, ConsolidationRows DEF Revised, PendingUnrevised
  <2>5. CASE UNCHANGED vars
    BY <2>5 DEF vars, Revised, PendingUnrevised, RowsOK
  <2> QED BY <2>1, <2>2, <2>3, <2>4, <2>5 DEF Next
<1> QED BY <1>1, <1>2, CarriedHolds, PTL DEF Spec

-----------------------------------------------------------------------------
(* The links between records.  An IngestOutcome call writes back the links *)
(* it has read, so the invariant says how far they still are the links of  *)
(* the stored record: they agree on what it supersedes.  It takes that an  *)
(* episode which supersedes a record has no other relation, for a torn     *)
(* write of several relations might lose that one.                         *)

Sup(k) == Rel("supersedes", k)

Alone(r) ==
    r.type = "episodic" => \A k \in Ids : Sup(k) \in r.relations => r.relations = {Sup(k)}

\* The records these relations supersede say that they were revised.
SourcesRevised(s, x) ==
    \A k \in Ids : Exists(s, k) /\ Sup(k) \in x =>
        s[k].type # "episodic" /\ "revise" \in s[k].audit

LinksOK ==
    \A i \in Ids : Exists(store, i) =>
        /\ TargetsExist(store, store[i])
        /\ Alone(store[i])
        /\ store[i].supersededBy \in used \cup {NoId}
        /\ \A j \in Ids : Exists(store, j) /\ store[i].supersededBy = j =>
               Sup(i) \in store[j].relations
        /\ SourcesRevised(store, store[i].relations)

\* Two sets of relations agree on the records of s that they supersede.
SameSup(s, x, y) == \A k \in Ids : Exists(s, k) => (Sup(k) \in x <=> Sup(k) \in y)

PendingLinks ==
    \A c \in Clients : outcomes[c] # NoCall =>
        /\ Alone(outcomes[c].rec)
        /\ \A rel \in outcomes[c].rec.relations : rel.target \in used
        /\ Exists(store, outcomes[c].id) =>
               SameSup(store, outcomes[c].rec.relations, store[outcomes[c].id].relations)

Linked == LinksOK /\ PendingLinks

\* What a step may do to the links: a surviving record keeps what it supersedes,
\* and may only come to be superseded by a new record that says so.
LinkStep ==
    \A i \in Ids : Exists(store', i) =>
        /\ TargetsExist(store', store'[i])
        /\ Alone(store'[i])
        /\ Exists(store, i) =>
               /\ SameSup(store', store'[i].relations, store[i].relations)
               /\ \/ store'[i].supersededBy \in {store[i].supersededBy, NoId}
                  \/ \E j \in used' \ used :
                       store'[i].supersededBy = j /\ Sup(i) \in store'[j].relations
        /\ ~Exists(store, i) =>
               store'[i].supersededBy = NoId /\ SourcesRevised(store', store'[i].relations)

\* Such a step keeps the links of the store.
LEMMA LinksKept ==
    ASSUME Carried, StoreTypeOK', LinksOK, Evolves, LinkStep
    PROVE  LinksOK'
<1> USE DEF StoreTypeOK
<1>1. PICK N \in SUBSET (Ids \ used) : Grown(store, store', N) /\ used' = used \cup N
  BY DEF Evolves
<1>2. Live(store) \subseteq used /\ store \in StoreType
  BY DEF Carried, Agree, UsedCovers
<1>3. ASSUME NEW i \in Ids, Exists(store', i), Exists(store, i)
      PROVE  /\ store'[i].type = store[i].type
             /\ store[i].audit \subseteq store'[i].audit
  BY <1>1, <1>2, <1>3 DEF Grown, SameContent, Live
<1>4. ASSUME NEW i \in Ids, Exists(store', i), ~Exists(store, i)
      PROVE  i \in used' \ used
  BY <1>1, <1>4 DEF Grown
<1>5. SUFFICES ASSUME NEW i \in Ids, Exists(store', i)
      PROVE  /\ store'[i].supersededBy \in used' \cup {NoId}
             /\ \A j \in Ids : Exists(store', j) /\ store'[i].supersededBy = j =>
                    Sup(i) \in store'[j].relations
             /\ SourcesRevised(store', store'[i].relations)
  BY DEF LinksOK, LinkStep
<1>6. CASE ~Exists(store, i)
  <2>1. store'[i].supersededBy = NoId /\ SourcesRevised(store', store'[i].relations)
    BY <1>5, <1>6 DEF LinkStep
  <2> QED BY <2>1, RecordStoreAssumption
<1>7. CASE Exists(store, i)
  <2>1. /\ SameSup(store', store'[i].relations, store[i].relations)
        /\ \/ store'[i].supersededBy \in {store[i].supersededBy, NoId}
           \/ \E j \in used' \ used :
                store'[i].supersededBy = j /\ Sup(i) \in store'[j].relations
    BY <1>5, <1>7 DEF LinkStep
  <2>2. /\ store[i].supersededBy \in used \cup {NoId}
        /\ \A j \in Ids : Exists(store, j) /\ store[i].supersededBy = j =>
               Sup(i) \in store[j].relations
        /\ TargetsExist(store, store[i])
        /\ SourcesRevised(store, store[i].relations)
    BY <1>7 DEF LinksOK
  <2>3. SourcesRevised(store', store'[i].relations)
    <3>1. SUFFICES ASSUME NEW k \in Ids, Exists(store', k), Sup(k) \in store'[i].relations
          PROVE  store'[k].type # "episodic" /\ "revise" \in store'[k].audit
      BY DEF SourcesRevised
    <3>2. Sup(k) \in store[i].relations
      BY <2>1, <3>1 DEF SameSup
    <3>3. Exists(store, k)
      BY <2>2, <3>2 DEF TargetsExist, Sup, Rel
    <3>4. store[k].type # "episodic" /\ "revise" \in store[k].audit
      BY <2>2, <3>2, <3>3 DEF SourcesRevised
    <3> QED BY <1>3, <3>1, <3>3, <3>4
  <2>4. ASSUME NEW j \in Ids, Exists(store', j), store'[i].supersededBy = j
        PROVE  Sup(i) \in store'[j].relations
    <3>1. j # NoId
      BY RecordStoreAssumption
    <3>2. CASE store'[i].supersededBy = store[i].supersededBy
      <4>1. j \in used
        BY <2>2, <2>4, <3>1, <3>2
      <4>2. Exists(store, j)
        BY <1>4, <2>4, <4>1
      <4>3. Sup(i) \in store[j].relations
        BY <2>2, <2>4, <3>2, <4>2
      <4>4. SameSup(store', store'[j].relations, store[j].relations)
        BY <2>4, <4>2 DEF LinkStep
      <4> QED BY <1>5, <4>3, <4>4 DEF SameSup
    <3> QED BY <2>1, <2>4, <3>1, <3>2
  <2>5. store'[i].supersededBy \in used' \cup {NoId}
    BY <1>1, <2>1, <2>2
  <2> QED BY <2>3, <2>4, <2>5
<1> QED BY <1>6, <1>7

\* And it keeps the links that a call will write back in agreement with them.
LEMMA PendingLinksKept ==
    ASSUME Carried, Linked, Evolves, LinkStep, IngestionNext \/ UNCHANGED outcomes
    PROVE  PendingLinks'
<1> USE DEF Carried, Agree, TypeOK, StoreTypeOK, OutcomesTypeOK
<1>1. PICK N \in SUBSET (Ids \ used) : Grown(store, store', N) /\ used' = used \cup N
  BY DEF Evolves
<1>2. ASSUME NEW c \in Clients, outcomes[c] # NoCall, outcomes'[c] = outcomes[c]
      PROVE  /\ Alone(outcomes'[c].rec)
             /\ \A rel \in outcomes'[c].rec.relations : rel.target \in used'
             /\ Exists(store', outcomes'[c].id) =>
                    SameSup(store', outcomes'[c].rec.relations,
                            store'[outcomes'[c].id].relations)
  <2> DEFINE j == outcomes[c].id
             x == outcomes[c].rec.relations
  <2>1. /\ Alone(outcomes[c].rec)
        /\ \A rel \in x : rel.target \in used
        /\ Exists(store, j) => SameSup(store, x, store[j].relations)
        /\ j \in used /\ j \in Ids
    BY <1>2 DEF Linked, PendingLinks, PendingAgrees
  <2>2. ASSUME Exists(store', j), NEW k \in Ids, Exists(store', k)
        PROVE  Sup(k) \in x <=> Sup(k) \in store'[j].relations
    <3>1. Exists(store, j)
      BY <1>1, <2>1, <2>2 DEF Grown
    <3>2. Sup(k) \in store'[j].relations <=> Sup(k) \in store[j].relations
      BY <2>1, <2>2, <3>1 DEF LinkStep, SameSup
    <3>3. CASE k \in used
      <4>1. Exists(store, k)
        BY <1>1, <2>2, <3>3 DEF Grown
      <4> QED BY <2>1, <3>1, <3>2, <4>1 DEF SameSup
    <3>4. CASE k \notin used
      <4>1. ~Exists(store, k)
        BY <3>4 DEF UsedCovers, Live
      <4>2. Sup(k) \notin store[j].relations
        BY <2>1, <3>1, <4>1 DEF Linked, LinksOK, TargetsExist, Sup, Rel
      <4>3. Sup(k) \notin x
        BY <2>1, <3>4 DEF Sup, Rel
      <4> QED BY <3>2, <4>2, <4>3
    <3> QED BY <3>3, <3>4
  <2> QED BY <1>1, <1>2, <2>1, <2>2 DEF SameSup
<1>3. ASSUME NEW e \in Clients, NEW i \in Ids, NEW o \in Reported, OutcomeRead(e, i, o)
      PROVE  PendingLinks'
  <2>1. SUFFICES ASSUME NEW c \in Clients, outcomes'[c] # NoCall
        PROVE  /\ Alone(outcomes'[c].rec)
               /\ \A rel \in outcomes'[c].rec.relations : rel.target \in used'
               /\ Exists(store', outcomes'[c].id) =>
                      SameSup(store', outcomes'[c].rec.relations,
                              store'[outcomes'[c].id].relations)
    BY DEF PendingLinks
  <2>2. CASE c # e
    BY <1>2, <1>3, <2>1, <2>2 DEF OutcomeRead
  <2>3. CASE c = e
    <3> DEFINE r == [store[i] EXCEPT !.outcome = o, !.evidence = TRUE,
                                     !.audit = store[i].audit \cup {"revise"}]
    <3>1. store[i] \in Record /\ Exists(store, i)
      BY <1>3, ExistsRecord DEF OutcomeRead
    <3>2. r.type = store[i].type /\ r.relations = store[i].relations
      BY <3>1 DEF Record
    <3>3. Alone(store[i]) /\ \A rel \in store[i].relations : rel.target \in used
      <4>1. \A rel \in store[i].relations : rel.target \in Ids
        BY <3>1 DEF Record, Relation
      <4> QED BY <3>1, <4>1 DEF Linked, LinksOK, TargetsExist, UsedCovers, Live
    <3> HIDE DEF r
    <3>4. outcomes'[c] = [id |-> i, rec |-> r] /\ UNCHANGED <<store, used>>
      BY <1>3, <2>3 DEF OutcomeRead, r
    <3> QED BY <3>2, <3>3, <3>4 DEF Alone, SameSup
  <2> QED BY <2>2, <2>3
<1>4. ASSUME NEW e \in Clients, outcomes' = [outcomes EXCEPT ![e] = NoCall]
      PROVE  PendingLinks'
  BY <1>2, <1>4 DEF PendingLinks
<1>5. CASE UNCHANGED outcomes
  BY <1>2, <1>5 DEF PendingLinks
<1> QED BY <1>3, <1>4, <1>5
        DEF IngestionNext, Ingest, OutcomeWrite, OutcomeLost, OutcomeTorn

\* A step that changes one row and none of what it supersedes.
LEMMA LinkRow ==
    ASSUME Carried, LinksOK, NEW i \in Ids, Exists(store, i), NEW q \in Record,
           store' = [store EXCEPT ![i] = q],
           TargetsExist(store, q), Alone(q), SameSup(store, q.relations, store[i].relations),
           q.supersededBy \in {store[i].supersededBy, NoId}
    PROVE  LinkStep
<1> USE DEF Carried, Agree, StoreTypeOK
<1>1. store'[i] = q /\ \A j \in Ids : j # i => store'[j] = store[j]
  BY DEF StoreType
<1>2. \A j \in Ids : Exists(store', j) <=> Exists(store, j)
  BY <1>1, RecordExists DEF Exists
<1>3. \A j \in Ids : Exists(store, j) => store[j] \in Record
  BY ExistsRecord
<1>4. ASSUME NEW r \in Record, TargetsExist(store, r)
      PROVE  TargetsExist(store', r)
  BY <1>2, <1>4 DEF TargetsExist, Record, Relation
<1> QED BY <1>1, <1>2, <1>3, <1>4 DEF LinkStep, LinksOK, SameSup

\* A step that creates a record, and changes of the others at most what supersedes them.
LEMMA LinkCreate ==
    ASSUME Carried, LinksOK, NEW s \in StoreType, NEW new \in Ids, NEW q \in Record,
           Fresh(new), used' = used \cup {new}, store' = CreateRecord(s, new, q),
           \A j \in Ids : Exists(s, j) <=> Exists(store, j),
           \A j \in Ids : Exists(store, j) =>
               /\ s[j].type = store[j].type
               /\ s[j].relations = store[j].relations
               /\ \/ s[j].supersededBy \in {store[j].supersededBy, NoId}
                  \/ s[j].supersededBy = new /\ Sup(j) \in q.relations,
           TargetsExist(store, q), Alone(q), q.supersededBy = NoId,
           SourcesRevised(s, q.relations)
    PROVE  LinkStep
<1> USE DEF Carried, Agree, StoreTypeOK
<1>1. ~Exists(store, new) /\ new \in used' \ used
  BY DEF Fresh, UsedCovers, Live
<1>2. store'[new] = q /\ \A j \in Ids : j # new => store'[j] = s[j]
  BY DEF StoreType, CreateRecord
<1>3. \A j \in Ids : Exists(store', j) <=> j = new \/ Exists(store, j)
  BY <1>2, RecordExists DEF Exists
<1>4. \A j \in Ids : Exists(store, j) => store[j] \in Record /\ s[j] \in Record
  BY ExistsRecord
<1>5. ASSUME NEW r \in Record, NEW p \in Record, p.relations = r.relations, TargetsExist(store, r)
      PROVE  TargetsExist(store', p)
  BY <1>3, <1>5 DEF TargetsExist, Record, Relation
<1>6. ASSUME NEW i \in Ids, Exists(store, i)
      PROVE  /\ TargetsExist(store', store'[i])
             /\ Alone(store'[i])
             /\ SameSup(store', store'[i].relations, store[i].relations)
             /\ \/ store'[i].supersededBy \in {store[i].supersededBy, NoId}
                \/ \E j \in used' \ used :
                     store'[i].supersededBy = j /\ Sup(i) \in store'[j].relations
  <2>1. store'[i] = s[i] /\ store[i] \in Record /\ s[i] \in Record
    BY <1>1, <1>2, <1>4, <1>6
  <2>2. TargetsExist(store', store'[i]) /\ Alone(store'[i])
    BY <1>5, <1>6, <2>1 DEF LinksOK, Alone
  <2>3. SameSup(store', store'[i].relations, store[i].relations)
    BY <1>6, <2>1 DEF SameSup
  <2> QED BY <1>1, <1>2, <1>6, <2>1, <2>2, <2>3
<1>7. SourcesRevised(store', q.relations)
  <2>1. SUFFICES ASSUME NEW k \in Ids, Exists(store', k), Sup(k) \in q.relations
        PROVE  store'[k].type # "episodic" /\ "revise" \in store'[k].audit
    BY DEF SourcesRevised
  <2>2. Exists(store, k) /\ k # new
    BY <1>1, <2>1 DEF TargetsExist, Sup, Rel
  <2> QED BY <1>2, <2>1, <2>2 DEF SourcesRevised
<1>8. TargetsExist(store', q)
  BY <1>5
<1> QED BY <1>1, <1>2, <1>3, <1>6, <1>7, <1>8 DEF LinkStep

\* A step that leaves the store alone.
LEMMA LinkSame ==
    ASSUME LinksOK, UNCHANGED store
    PROVE  LinkStep
BY DEF LinkStep, LinksOK, SameSup

\* An update of a row with its audit entry that leaves the relations alone.
LEMMA LinkAudited ==
    ASSUME Carried, LinksOK, NEW i \in Ids, Exists(store, i), NEW r \in Record,
           NEW a \in AuditAction, r.type = store[i].type, r.relations = store[i].relations,
           r.supersededBy \in {store[i].supersededBy, NoId},
           store' = AddAuditEntry(UpdateRecord(store, i, r), i, a)
    PROVE  LinkStep
<1> DEFINE q == [r EXCEPT !.audit = store[i].audit \cup {a}]
<1>1. store \in StoreType /\ store[i] \in Record
  BY ExistsRecord DEF Carried, Agree, StoreTypeOK
<1>2. q \in Record /\ store' = [store EXCEPT ![i] = q]
  BY <1>1, UpdateAudited
<1>3. q.type = r.type /\ q.relations = r.relations /\ q.supersededBy = r.supersededBy
  BY DEF Record
<1> HIDE DEF q
<1>4. TargetsExist(store, q) /\ Alone(q) /\ SameSup(store, q.relations, store[i].relations)
  BY <1>3 DEF LinksOK, TargetsExist, Alone, SameSup
<1> QED BY <1>2, <1>3, <1>4, LinkRow

\* A change of salience with its audit entry.
LEMMA LinkSalience ==
    ASSUME Carried, LinksOK, NEW i \in Ids, Exists(store, i), NEW v \in Salience,
           NEW a \in AuditAction,
           store' = AddAuditEntry(UpdateSalience(store, i, v), i, a)
    PROVE  LinkStep
<1> DEFINE r == [store[i] EXCEPT !.salience = v]
<1>1. store[i] \in Record /\ store \in StoreType
  BY ExistsRecord DEF Carried, Agree, StoreTypeOK
<1>2. /\ r \in Record /\ r.type = store[i].type /\ r.relations = store[i].relations
      /\ r.supersededBy = store[i].supersededBy
      /\ r.audit = store[i].audit
      /\ [r EXCEPT !.audit = store[i].audit] = r
  BY <1>1, RecordSalience DEF Record
<1>3. UpdateSalience(store, i, v) = UpdateRecord(store, i, r)
  BY <1>2 DEF UpdateSalience, UpdateRecord
<1> HIDE DEF r
<1> QED BY <1>2, <1>3, LinkAudited

\* Ingestion, late outcomes included.
LEMMA IngestionLinks ==
    ASSUME Revised, Linked, IngestionNext
    PROVE  LinkStep
<1> USE DEF Revised, Carried, Agree, TypeOK, StoreTypeOK, OutcomesTypeOK, Linked
<1>1. ASSUME NEW i \in Ids, NEW r \in Ingested, Ingest(i, r)
      PROVE  LinkStep
  <2>1. r \in Record /\ r.relations = {} /\ r.supersededBy = NoId
    <3>1. PICK t \in {"episodic", "semantic", "working"}, f \in Facts :
            r = IngestedRecord(t, f)
      BY IngestionAssumption
    <3> QED BY <3>1, IngestedType DEF IngestedRecord
  <2>2. TargetsExist(store, r) /\ Alone(r) /\ SourcesRevised(store, r.relations)
    BY <2>1 DEF TargetsExist, Alone, SourcesRevised
  <2> QED BY <1>1, <2>1, <2>2, LinkCreate DEF Ingest
<1>2. ASSUME NEW c \in Clients, NEW x \in SUBSET outcomes[c].rec.relations,
             outcomes[c] # NoCall, Exists(store, outcomes[c].id),
             \A rel \in x : Exists(store, rel.target),
             x \subseteq outcomes[c].rec.relations,
             \A k \in Ids : Exists(store, k) /\ Sup(k) \in outcomes[c].rec.relations =>
                 Sup(k) \in x,
             store' = UpdateRecord(store, outcomes[c].id,
                                   [outcomes[c].rec EXCEPT !.relations = x])
      PROVE  LinkStep
  <2> DEFINE i == outcomes[c].id
             q == [[outcomes[c].rec EXCEPT !.relations = x] EXCEPT !.audit = store[i].audit]
  <2>1. outcomes[c].rec \in Record /\ i \in Ids /\ store[i] \in Record
    BY <1>2, ExistsRecord
  <2>2. /\ outcomes[c].rec.supersededBy = NoId /\ outcomes[c].rec.type = "episodic"
        /\ Alone(outcomes[c].rec)
        /\ SameSup(store, outcomes[c].rec.relations, store[i].relations)
    BY <1>2 DEF PendingUnrevised, PendingAgrees, PendingLinks
  <2>3. /\ q \in Record /\ q.relations = x /\ q.supersededBy = NoId
        /\ store' = [store EXCEPT ![i] = q]
    <3>1. q \in Record /\ q.relations = x /\ q.supersededBy = NoId
      BY <2>1, <2>2 DEF Record
    <3> QED BY <1>2, <3>1 DEF UpdateRecord
  <2> HIDE DEF q
  <2>4. TargetsExist(store, q)
    BY <1>2, <2>3 DEF TargetsExist
  <2>5. Alone(q)
    BY <1>2, <2>2, <2>3 DEF Alone
  <2>6. SameSup(store, q.relations, store[i].relations)
    BY <1>2, <2>2, <2>3 DEF SameSup
  <2> QED BY <1>2, <2>1, <2>3, <2>4, <2>5, <2>6, LinkRow
<1>3. ASSUME NEW c \in Clients, OutcomeWrite(c)
      PROVE  LinkStep
  <2>1. /\ outcomes[c] # NoCall
        /\ outcomes[c] \in [id : Ids, rec : Record]
        /\ Exists(store, outcomes[c].id)
    BY <1>3 DEF OutcomeWrite
  <2>2. outcomes[c].rec = [outcomes[c].rec EXCEPT !.relations = outcomes[c].rec.relations]
    BY <2>1 DEF Record
  <2>3. outcomes[c].rec.relations \in SUBSET outcomes[c].rec.relations
    OBVIOUS
  <2> QED BY <1>2, <1>3, <2>1, <2>2, <2>3 DEF OutcomeWrite, TargetsExist
<1>4. ASSUME NEW c \in Clients, OutcomeTorn(c)
      PROVE  LinkStep
  <2>1. /\ outcomes[c] # NoCall
        /\ outcomes[c] \in [id : Ids, rec : Record]
        /\ Exists(store, outcomes[c].id)
        /\ ~TargetsExist(store, outcomes[c].rec)
    BY <1>4 DEF OutcomeTorn
  <2>2. PICK kept \in SUBSET {rel \in outcomes[c].rec.relations : Exists(store, rel.target)} :
          store' = UpdateRecord(store, outcomes[c].id,
                                [outcomes[c].rec EXCEPT !.relations = kept])
    BY <1>4 DEF OutcomeTorn
  <2>3. kept \in SUBSET outcomes[c].rec.relations
    OBVIOUS
  <2>4. ASSUME NEW k \in Ids, Exists(store, k), Sup(k) \in outcomes[c].rec.relations
        PROVE  FALSE
    <3>1. outcomes[c].rec.relations = {Sup(k)}
      BY <2>1, <2>4 DEF PendingLinks, PendingAgrees, Alone
    <3> QED BY <2>1, <2>4, <3>1 DEF TargetsExist, Sup, Rel
  <2> QED BY <1>2, <2>1, <2>2, <2>3, <2>4
<1>5. CASE UNCHANGED store
  BY <1>5, LinkSame
<1> QED BY <1>1, <1>3, <1>4, <1>5 DEF IngestionNext, OutcomeRead, OutcomeLost

\* Revision: the only service that makes records supersede others.
LEMMA RevisionLinks ==
    ASSUME Revised, Linked, RevisionNext
    PROVE  LinkStep
<1> USE DEF Revised, Carried, Agree, TypeOK, StoreTypeOK, Linked
<1>1. ASSUME NEW i \in Ids, Revisable(store, i)
      PROVE  Exists(store, i) /\ store[i] \in Record /\ store[i].type # "episodic"
  BY <1>1, ExistsRecord DEF Revisable
<1>2. ASSUME NEW d \in Drafts, NEW S \in SUBSET Ids, \A j \in S : Exists(store, j)
      PROVE  LET q == Derived(d, "derived_from", S)
             IN  /\ q \in Record /\ q.supersededBy = NoId
                 /\ TargetsExist(store, q) /\ Alone(q)
                 /\ \A s \in StoreType : SourcesRevised(s, q.relations)
  <2> DEFINE q == Derived(d, "derived_from", S)
  <2>1. q \in Record
    BY DerivedType DEF Predicate
  <2>2. q.relations = {Rel("derived_from", j) : j \in S} /\ q.supersededBy = NoId
    BY RevisionAssumption DEF Derived, Draft, Record
  <2>3. \A k \in Ids : Sup(k) \notin q.relations
    BY <2>2 DEF Sup, Rel
  <2>4. TargetsExist(store, q)
    BY <1>2, <2>2 DEF TargetsExist, Rel
  <2> HIDE DEF q
  <2> QED BY <2>1, <2>2, <2>3, <2>4 DEF Alone, SourcesRevised, q
<1>3. ASSUME NEW old \in Ids, NEW new \in Ids, NEW d \in Drafts, Supersede(old, new, d)
      PROVE  LinkStep
  <2> DEFINE r  == Superseded(store[old], new, d)
             p  == [r EXCEPT !.audit = store[old].audit \cup {"revise"}]
             s1 == AddAuditEntry(UpdateRecord(store, old, r), old, "revise")
             q  == Successor(old, d)
  <2>1. r \in Record /\ Exists(store, old) /\ store[old] \in Record
        /\ store[old].type # "episodic"
    BY <1>1, <1>3, SupersededType DEF Supersede, CanSupersede
  <2>2. /\ r.type = store[old].type /\ r.relations = store[old].relations
        /\ r.supersededBy \in {store[old].supersededBy, NoId, new}
    BY <2>1 DEF Superseded, Retracted, IsSemantic, Record
  <2>3. /\ q \in Record /\ q.relations = {Sup(old)} /\ q.supersededBy = NoId
    <3>1. /\ d.rec \in Record /\ d.rec.supersededBy = NoId
          /\ {Rel("supersedes", j) : j \in {old}} = {Sup(old)}
      BY RevisionAssumption DEF Draft, Sup
    <3> QED BY <3>1, SuccessorType DEF Successor, Derived, Record
  <2> HIDE DEF r, q
  <2>4. s1 = [store EXCEPT ![old] = p] /\ p \in Record
    BY <2>1, UpdateAudited DEF AuditAction
  <2>5. /\ p.type = store[old].type /\ p.relations = store[old].relations
        /\ p.supersededBy = r.supersededBy /\ "revise" \in p.audit
    BY <2>1, <2>2 DEF Record
  <2> HIDE DEF p
  <2>6. s1 \in StoreType
    BY <2>4 DEF StoreType
  <2>7. /\ \A j \in Ids : Exists(s1, j) <=> Exists(store, j)
        /\ \A j \in Ids : Exists(store, j) =>
               /\ s1[j].type = store[j].type
               /\ s1[j].relations = store[j].relations
               /\ \/ s1[j].supersededBy \in {store[j].supersededBy, NoId}
                  \/ s1[j].supersededBy = new /\ Sup(j) \in q.relations
    <3>1. s1[old] = p /\ \A j \in Ids : j # old => s1[j] = store[j]
      BY <2>4 DEF StoreType
    <3> QED BY <2>1, <2>2, <2>3, <2>4, <2>5, <3>1, RecordExists DEF Exists
  <2>8. s1[old].type # "episodic" /\ "revise" \in s1[old].audit
    BY <2>1, <2>4, <2>5 DEF StoreType
  <2>9. store' = CreateRecord(s1, new, q) /\ Fresh(new) /\ used' = used \cup {new}
    BY <1>3 DEF Supersede, SupersededStore, r, q
  <2> HIDE DEF s1
  <2>10. TargetsExist(store, q) /\ Alone(q) /\ SourcesRevised(s1, q.relations)
    BY <2>1, <2>3, <2>8 DEF TargetsExist, Alone, SourcesRevised, Sup, Rel
  <2> QED BY <2>3, <2>6, <2>7, <2>9, <2>10, LinkCreate
<1>4. ASSUME NEW source \in Ids, NEW new \in Ids, NEW d \in Drafts, Fork(source, new, d)
      PROVE  LinkStep
  <2> DEFINE p  == [store[source] EXCEPT !.audit = store[source].audit \cup {"fork"}]
             s1 == AddAuditEntry(store, source, "fork")
  <2>1. Exists(store, source) /\ store[source] \in Record
    BY <1>1, <1>4 DEF Fork, CanFork
  <2>2. s1 \in StoreType
    BY <2>1, AddAuditEntryType DEF AuditAction
  <2>3. \A j \in Ids : Exists(s1, j) <=> Exists(store, j)
    BY <2>1, AddAuditEntryExists DEF AuditAction
  <2>4. /\ p.type = store[source].type /\ p.relations = store[source].relations
        /\ p.supersededBy = store[source].supersededBy
    BY <2>1 DEF Record
  <2>5. s1[source] = p /\ \A j \in Ids : j # source => s1[j] = store[j]
    BY DEF AddAuditEntry, StoreType
  <2>6. \A j \in Ids : /\ s1[j].type = store[j].type /\ s1[j].relations = store[j].relations
                       /\ s1[j].supersededBy = store[j].supersededBy
    BY <2>4, <2>5
  <2>7. store' = CreateRecord(s1, new, Derived(d, "derived_from", {source}))
        /\ Fresh(new) /\ used' = used \cup {new}
    BY <1>4 DEF Fork, ForkedStore
  <2> HIDE DEF s1
  <2> QED BY <1>2, <2>1, <2>2, <2>3, <2>6, <2>7, LinkCreate
<1>5. ASSUME NEW S \in SUBSET Ids, NEW new \in Ids, NEW d \in Drafts, Merge(S, new, d)
      PROVE  LinkStep
  <2> DEFINE row(j) == [Retracted(store[j]) EXCEPT !.audit = store[j].audit \cup {"merge"}]
             s1 == [j \in Ids |-> IF j \in S THEN row(j) ELSE store[j]]
  <2>1. ASSUME NEW j \in S
        PROVE  /\ Exists(store, j) /\ row(j) \in Record
               /\ row(j).type = store[j].type /\ row(j).relations = store[j].relations
               /\ row(j).supersededBy = store[j].supersededBy
    <3>1. Exists(store, j) /\ store[j] \in Record
      BY <1>1, <1>5 DEF Merge, CanMerge
    <3>2. store[j].audit \cup {"merge"} \in SUBSET AuditAction
      BY <3>1 DEF Record, AuditAction
    <3>3. row(j) \in Record
      BY <3>1, <3>2, RetractedType, RecordAudit
    <3> QED BY <3>1, <3>3 DEF Retracted, Record
  <2> HIDE DEF row
  <2>2. s1 \in StoreType
    BY <2>1 DEF StoreType
  <2>3. \A j \in Ids : Exists(s1, j) <=> Exists(store, j)
    BY <2>1, RecordExists DEF Exists
  <2>4. \A j \in Ids : /\ s1[j].type = store[j].type /\ s1[j].relations = store[j].relations
                       /\ s1[j].supersededBy = store[j].supersededBy
    BY <2>1
  <2>5. store' = CreateRecord(s1, new, Derived(d, "derived_from", S))
        /\ Fresh(new) /\ used' = used \cup {new}
    BY <1>5 DEF Merge, MergedStore, row
  <2> HIDE DEF s1
  <2>6. \A j \in S : Exists(store, j)
    BY <2>1
  <2> QED BY <1>2, <2>2, <2>3, <2>4, <2>5, <2>6, LinkCreate
<1>6. ASSUME NEW i \in Ids, Retract(i)
      PROVE  LinkStep
  <2>1. Exists(store, i) /\ store[i] \in Record /\ Retracted(store[i]) \in Record
    BY <1>1, <1>6, RetractedType DEF Retract
  <2>2. /\ Retracted(store[i]).type = store[i].type
        /\ Retracted(store[i]).relations = store[i].relations
        /\ Retracted(store[i]).supersededBy = store[i].supersededBy
    BY <2>1 DEF Retracted, Record
  <2> QED BY <1>6, <2>1, <2>2, LinkAudited DEF Retract, RetractedStore, AuditAction
<1>7. ASSUME NEW i \in Ids, NEW ref \in Refs, Contest(i, ref)
      PROVE  LinkStep
  <2> DEFINE r  == Contested(store[i])
             rels == IF ref = NoId THEN r.relations
                     ELSE r.relations \cup {Rel("contested_by", ref)}
             q  == [[r EXCEPT !.relations = rels]
                      EXCEPT !.audit = store[i].audit \cup {"revise"}]
  <2>1. r \in Record /\ Exists(store, i) /\ store[i] \in Record /\ store[i].type # "episodic"
    BY <1>1, <1>7, ContestedType DEF Contest, CanContest
  <2>2. rels \in SUBSET Relation
    BY <2>1, RevisionAssumption DEF Rel, Relation, Predicate, Record
  <2>3. store[i].audit \cup {"revise"} \in SUBSET AuditAction
    BY <2>1 DEF Record, AuditAction
  <2>4. q \in Record
    BY <2>1, <2>2, <2>3, RecordRelations, RecordAudit
  <2>5. /\ q.type = store[i].type /\ q.supersededBy = store[i].supersededBy
        /\ r.relations = store[i].relations /\ q.relations = rels
    BY <2>1 DEF Contested, IsSemantic, Record
  <2>6. store' = [store EXCEPT ![i] = q]
    BY <1>7, <2>1 DEF Contest, ContestedStore, UpdateRecord, AddRelation, AddAuditEntry,
                      StoreType, Record
  <2>7. TargetsExist(store, q)
    BY <1>7, <2>1, <2>5 DEF TargetsExist, LinksOK, Contest, CanContest, Rel
  <2>8. SameSup(store, q.relations, store[i].relations)
    BY <2>5 DEF SameSup, Sup, Rel
  <2>9. Alone(q)
    BY <2>1, <2>5 DEF Alone
  <2> HIDE DEF q
  <2> QED BY <2>1, <2>4, <2>5, <2>6, <2>7, <2>8, <2>9, LinkRow
<1> QED BY <1>3, <1>4, <1>5, <1>6, <1>7 DEF RevisionNext

\* Decay changes no links, and pruning takes those to the record it deletes with it.
LEMMA DecayLinks ==
    ASSUME Revised, Linked, DecayNext
    PROVE  LinkStep
<1> USE DEF Revised, Carried, Agree, TypeOK, StoreTypeOK, SweepsTypeOK, SweepType, Linked
<1>1. ASSUME NEW i \in Ids, Reinforce(i)
      PROVE  LinkStep
  <2>1. /\ Exists(store, i) /\ store[i] \in Record
        /\ Reinforced(store[i]) \in Record
    BY <1>1, ReinforcedType, ExistsRecord DEF Reinforce
  <2>2. /\ Reinforced(store[i]).type = store[i].type
        /\ Reinforced(store[i]).relations = store[i].relations
        /\ Reinforced(store[i]).supersededBy = store[i].supersededBy
    BY <2>1 DEF Reinforced, Record
  <2> QED BY <1>1, <2>1, <2>2, LinkAudited DEF Reinforce, AuditAction
<1>2. ASSUME NEW i \in Ids, NEW amount \in Penalties, Penalize(i, amount)
      PROVE  LinkStep
  <2>1. Exists(store, i) /\ Penalized(store[i], amount) \in Salience
    BY <1>2, ExistsRecord, PenalizedType DEF Penalize
  <2> QED BY <1>2, <2>1, LinkSalience DEF Penalize, AuditAction
<1>3. ASSUME NEW d \in Daemons, SweepNext(d)
      PROVE  LinkStep
  <2>1. CASE SweepDecay(d)
    <3>1. PICK i \in sweeps[d].todo :
            Exists(store, i) /\ \E v \in DecayedTo(store[i]) : store' = DecayedStore(store, i, v)
      BY <2>1 DEF SweepDecay
    <3>2. PICK v \in DecayedTo(store[i]) : store' = DecayedStore(store, i, v)
      BY <3>1
    <3>3. v \in Salience
      BY <3>1, ExistsRecord, DecayedToType
    <3> QED BY <3>1, <3>2, <3>3, LinkSalience DEF DecayedStore, AuditAction
  <2>2. CASE SweepPrune(d)
    <3>1. PICK i \in sweeps[d].todo :
            Exists(store, i) /\ store' = DeleteRecord(AddAuditEntry(store, i, "delete"), i)
      BY <2>2 DEF SweepPrune
    <3> DEFINE left(j) == {rel \in store[j].relations : rel.target # i}
               row(j)  == [store[j] EXCEPT !.relations = left(j)]
    <3>2. ASSUME NEW j \in Ids
          PROVE  /\ Exists(store', j) <=> j # i /\ Exists(store, j)
                 /\ Exists(store', j) => store'[j] = row(j) /\ store[j] \in Record
      <4>1. CASE j # i /\ Exists(store, j)
        <5>1. store'[j] = row(j) /\ store[j] \in Record
          BY <3>1, <4>1, ExistsRecord DEF DeleteRecord, AddAuditEntry, Exists, StoreType
        <5>2. left(j) \in SUBSET Relation
          BY <5>1 DEF Record
        <5>3. row(j) \in Record
          BY <5>1, <5>2, RecordRelations
        <5> HIDE DEF row
        <5> QED BY <4>1, <5>1, <5>3, RecordExists DEF Exists
      <4>2. CASE j = i \/ ~Exists(store, j)
        BY <3>1, <4>2 DEF DeleteRecord, AddAuditEntry, Exists, StoreType
      <4> QED BY <4>1, <4>2
    <3>3. ASSUME NEW j \in Ids, Exists(store', j)
          PROVE  /\ TargetsExist(store', store'[j])
                 /\ Alone(store'[j])
                 /\ SameSup(store', store'[j].relations, store[j].relations)
                 /\ store'[j].supersededBy = store[j].supersededBy
      <4>1. j # i /\ Exists(store, j) /\ store'[j] = row(j) /\ store[j] \in Record
        BY <3>2, <3>3
      <4>2. /\ row(j).relations = left(j) /\ row(j).type = store[j].type
            /\ row(j).supersededBy = store[j].supersededBy
        BY <4>1 DEF Record
      <4> HIDE DEF row
      <4>3. \A rel \in left(j) : rel.target \in Ids /\ rel.target # i /\ Exists(store, rel.target)
        BY <4>1 DEF Record, Relation, LinksOK, TargetsExist
      <4>4. TargetsExist(store', store'[j])
        BY <3>2, <4>1, <4>2, <4>3 DEF TargetsExist
      <4>5. SameSup(store', store'[j].relations, store[j].relations)
        BY <3>2, <4>1, <4>2 DEF SameSup, Sup, Rel
      <4>6. Alone(store'[j])
        BY <4>1, <4>2 DEF LinksOK, Alone
      <4> QED BY <4>1, <4>2, <4>4, <4>5, <4>6
    <3> QED BY <3>2, <3>3 DEF LinkStep
  <2>3. CASE UNCHANGED store
    BY <2>3, LinkSame
  <2> QED BY <1>3, <2>1, <2>2, <2>3
          DEF SweepNext, SweepStart, SweepList, SweepEnd, SweepNotFound, SweepFault
<1> QED BY <1>1, <1>2, <1>3, DecayAssumption DEF DecayNext

\* Consolidation links what it distils to the episodes, which exist.
LEMMA ConsolidationLinks ==
    ASSUME Revised, Linked, ConsolidationNext
    PROVE  LinkStep
<1> USE DEF Revised, Carried, Agree, TypeOK, StoreTypeOK, RunsTypeOK, Linked
<1>1. PICK d \in Consolidators : RunNext(d)
  BY DEF ConsolidationNext
<1>2. runs[d] \in RunType
  OBVIOUS
<1>3. CASE RunCompress(d)
  <2>1. PICK cut \in runs[d].cuts :
          Exists(store, cut.id) /\ store' = CutStore(store, cut.id, cut.to)
    BY <1>3 DEF RunCompress
  <2>2. cut \in Cut
    BY <1>2 DEF RunType
  <2> QED BY <2>1, <2>2, LinkSalience DEF CutStore, Cut, AuditAction
<1>4. CASE RunReinforce(d)
  <2>1. PICK t \in runs[d].todo, e \in runs[d].index :
          Exists(store, e.id) /\ store' = ReinforcedStore(store, e.id, Raised(e.salience))
    BY <1>4 DEF RunReinforce
  <2>2. e \in Entry
    BY <1>2 DEF RunType
  <2>3. e.id \in Ids /\ Raised(e.salience) \in Salience
    BY <2>2, RaisedType DEF Entry
  <2> QED BY <2>1, <2>3, LinkSalience DEF ReinforcedStore, AuditAction
<1>5. ASSUME NEW new \in Ids, RunCreate(d, new)
      PROVE  LinkStep
  <2>1. PICK t \in runs[d].todo :
          /\ TargetsExist(store, Distilled(TypeAt[runs[d].stage], t.key, t.sources))
          /\ store' = CreateRecord(store, new, Distilled(TypeAt[runs[d].stage], t.key, t.sources))
    BY <1>5 DEF RunCreate
  <2>2. t \in Item
    BY <1>2 DEF RunType
  <2>3. TypeAt[runs[d].stage] \in {"semantic", "competence", "plan_graph"}
    BY <1>5 DEF RunCreate, TypeAt
  <2> DEFINE q == Distilled(TypeAt[runs[d].stage], t.key, t.sources)
  <2>4. q \in Record
    BY <2>2, <2>3, DistilledType DEF Item
  <2>5. /\ q.supersededBy = NoId
        /\ \A k \in Ids : Sup(k) \notin q.relations
    BY DEF Distilled, Sup, Rel
  <2>6. TargetsExist(store, q) /\ store' = CreateRecord(store, new, q)
    BY <2>1
  <2> HIDE DEF q
  <2>7. Alone(q) /\ SourcesRevised(store, q.relations)
    BY <2>5 DEF Alone, SourcesRevised
  <2> QED BY <1>5, <2>4, <2>5, <2>6, <2>7, LinkCreate DEF RunCreate
<1>6. CASE UNCHANGED store
  BY <1>6, LinkSame
<1> QED BY <1>1, <1>3, <1>4, <1>5, <1>6
        DEF RunNext, RunStart, RunAdvance, RunIndex, RunIndexPlans, RunNotFound, RunFault, RunEnd

\* The links are as they should be in every behaviour.
THEOREM LinkedHolds == Spec => []Linked
<1>1. Init => Linked
  BY DEF Init, InitStore, InitOutcomes, Linked, LinksOK, PendingLinks, Exists
<1>2. Carried /\ RowsOK(store) /\ PendingUnrevised /\ Linked /\ TypeOK' /\ [Next]_vars => Linked'
  <2> SUFFICES ASSUME Revised, Linked, TypeOK', [Next]_vars
               PROVE  Linked'
    BY DEF Revised
  <2>1. LinkStep
    <3>1. CASE UNCHANGED vars
      BY <3>1, LinkSame DEF vars, Linked
    <3> QED BY <3>1, IngestionLinks, RevisionLinks, DecayLinks, ConsolidationLinks DEF Next
  <2>2. Evolves
    BY StepEvolves DEF Revised
  <2>3. IngestionNext \/ UNCHANGED outcomes
    BY DEF Next, vars
  <2> QED BY <2>1, <2>2, <2>3, LinksKept, PendingLinksKept DEF Revised, Linked, TypeOK
<1> QED BY <1>1, <1>2, TypeCorrect, CarriedHolds, RevisedHolds, PTL DEF Spec

-----------------------------------------------------------------------------
(* The theorems.                                                           *)

\* A record that stands retracted, contested or superseded has the audit
\* entry of the revision that made it so.
THEOREM RevisionIsAudited == Spec => []RevisionAudited
<1>1. RowsOK(store) => RevisionAudited
  BY DEF RowsOK, RowOK, RevisionAudited, Live
<1> QED BY <1>1, RevisedHolds, PTL

\* A fact has evidence, whichever service created it and whoever wrote to it.
THEOREM EvidenceHolds == Spec => []FactsHaveEvidence
<1>1. RowsOK(store) => FactsHaveEvidence
  BY DEF RowsOK, RowOK, FactsHaveEvidence, OfType, Live
<1> QED BY <1>1, RevisedHolds, PTL

\* No service ever retracts, contests, supersedes, forks or merges an episode.
THEOREM EpisodesUnrevised == Spec => []EpisodicUnrevised
<1>1. RowsOK(store) => EpisodicUnrevised
  BY DEF RowsOK, RowOK, Uncontested, EpisodicUnrevised, OfType, Live
<1> QED BY <1>1, RevisedHolds, PTL
\* No relation points at a record that is gone, whatever calls still hold
\* relations they read before the deletion.
THEOREM RelationsStand == Spec => []RelationsResolve
<1>1. LinksOK => RelationsResolve
  BY DEF LinksOK, RelationsResolve, Live
<1> QED BY <1>1, LinkedHolds, PTL DEF Linked

\* While both ends of a supersession live they agree: the successor has its
\* relation back, and what it superseded is no episode and says it was revised.
THEOREM SupersessionsStand == Spec => []SupersessionAgrees
<1>1. LinksOK => SupersessionAgrees
  BY DEF LinksOK, SourcesRevised, Sup, SupersessionAgrees, Live
<1> QED BY <1>1, LinkedHolds, PTL DEF Linked

-----------------------------------------------------------------------------
(* One consolidation scheduler.  What its index does not name is not there *)
(* when it creates it, since nobody else creates knowledge and no record   *)
(* comes to be derived from an episode later on.                           *)

Knowledge == {"semantic", "competence", "plan_graph"}

\* The consolidation of one daemon is the only one to create knowledge, and
\* no plan graph fails to be read.
OnlyConsolidator ==
    /\ \A c, d \in Consolidators : c = d
    /\ MaxMisses = 0
    /\ \A r \in Ingested : r.type \notin Knowledge
    /\ \A d \in Drafts : d.rec.type \notin Knowledge

\* The records that r is derived from.
Origins(r) == {k \in Ids : Rel("derived_from", k) \in r.relations}

\* What run x has listed holds of the store s.
RunKnows(x, s) ==
    /\ x.stage \in {"semantic", "competence"} /\ ~x.listing =>
           \A i \in OfType(s, x.stage) : \E e \in x.index : e.key = s[i].fact
    /\ x.stage = "plan" =>
           \A t, u \in x.todo : t.sources \cap u.sources # {} => t = u
    /\ x.stage = "plan" /\ ~x.listing =>
           \A t \in x.todo, i \in OfType(s, "plan_graph") : t.sources \cap Origins(s[i]) = {}

AllKnow == \A d \in Consolidators : RunKnows(runs[d], store)

\* KnowledgeDistinct of any store.
DistinctIn(s) ==
    /\ \A t \in {"semantic", "competence"} : \A i, j \in OfType(s, t) :
         s[i].fact = s[j].fact => i = j
    /\ \A i, j \in OfType(s, "plan_graph") :
         Origins(s[i]) \cap Origins(s[j]) # {} => i = j

LEMMA DistinctNow == KnowledgeDistinct <=> DistinctIn(store)
BY DEF KnowledgeDistinct, DistinctIn, Origins

-----------------------------------------------------------------------------
(* Nothing comes to be derived from an episode later on.                   *)

OriginsKept ==
    \A i \in Ids : Exists(store, i) /\ Exists(store', i) /\ store[i].type # "episodic" =>
        Origins(store'[i]) \subseteq Origins(store[i])

\* One row changes.
LEMMA OriginsRow ==
    ASSUME NEW i \in Ids, NEW q, store \in StoreType, store' = [store EXCEPT ![i] = q],
           Exists(store, i) /\ store[i].type # "episodic" => Origins(q) \subseteq Origins(store[i])
    PROVE  OriginsKept
BY DEF OriginsKept, StoreType

\* One record is created, and the relations of the others stay.
LEMMA OriginsCreate ==
    ASSUME NEW new \in Ids, NEW q, NEW s \in StoreType, ~Exists(store, new),
           store' = CreateRecord(s, new, q), \A j \in Ids : s[j].relations = store[j].relations
    PROVE  OriginsKept
BY DEF OriginsKept, StoreType, CreateRecord, Origins

\* A record is updated, with its audit entry.
LEMMA OriginsAudited ==
    ASSUME Carried, NEW i \in Ids, Exists(store, i), NEW r \in Record, NEW a \in AuditAction,
           r.relations = store[i].relations,
           store' = AddAuditEntry(UpdateRecord(store, i, r), i, a)
    PROVE  OriginsKept
<1> DEFINE q == [r EXCEPT !.audit = store[i].audit \cup {a}]
<1>1. store \in StoreType
  BY DEF Carried, Agree, StoreTypeOK
<1>2. store' = [store EXCEPT ![i] = q] /\ q \in Record
  BY <1>1, UpdateAudited
<1>3. q.relations = r.relations
  BY DEF Record
<1> HIDE DEF q
<1> QED BY <1>1, <1>2, <1>3, OriginsRow DEF Origins

\* Its salience is updated.
LEMMA OriginsSalience ==
    ASSUME Carried, NEW i \in Ids, Exists(store, i), NEW v, NEW a,
           store' = AddAuditEntry(UpdateSalience(store, i, v), i, a)
    PROVE  OriginsKept
<1>1. store \in StoreType /\ store[i] \in Record
  BY ExistsRecord DEF Carried, Agree, StoreTypeOK
<1>2. store'[i].relations = store[i].relations /\ \A j \in Ids : j # i => store'[j] = store[j]
  BY <1>1 DEF AddAuditEntry, UpdateSalience, StoreType, Record
<1> QED BY <1>2 DEF OriginsKept, Origins

\* Ingestion creates records and writes back episodes.
LEMMA IngestionOrigins ==
    ASSUME Carried, IngestionNext
    PROVE  OriginsKept
<1> USE DEF Carried, Agree, StoreTypeOK, OutcomesTypeOK
<1>1. ASSUME NEW i \in Ids, NEW r \in Ingested, Ingest(i, r)
      PROVE  OriginsKept
  BY <1>1, OriginsRow DEF Ingest, CreateRecord, Fresh, UsedCovers, Live
<1>2. ASSUME NEW c \in Clients, OutcomeWrite(c) \/ OutcomeTorn(c)
      PROVE  OriginsKept
  <2>1. outcomes[c] # NoCall /\ outcomes[c].id \in Ids /\ Exists(store, outcomes[c].id)
    BY <1>2 DEF OutcomeWrite, OutcomeTorn
  <2>2. store[outcomes[c].id].type = "episodic"
    BY <2>1 DEF PendingAgrees, SameContent
  <2>3. \E r : store' = [store EXCEPT ![outcomes[c].id] = r]
    BY <1>2 DEF OutcomeWrite, OutcomeTorn, UpdateRecord
  <2> QED BY <2>1, <2>2, <2>3, OriginsRow
<1>3. CASE UNCHANGED store
  BY <1>3 DEF OriginsKept
<1> QED BY <1>1, <1>2, <1>3 DEF IngestionNext, OutcomeRead, OutcomeLost

\* Pruning takes relations away.
LEMMA DecayOrigins ==
    ASSUME Carried, DecayNext
    PROVE  OriginsKept
<1> USE DEF Carried, Agree, TypeOK, StoreTypeOK, SweepsTypeOK, SweepType
<1>1. ASSUME NEW i \in Ids, Reinforce(i)
      PROVE  OriginsKept
  <2>1. /\ Exists(store, i) /\ store[i] \in Record
        /\ Reinforced(store[i]) \in Record
    BY <1>1, ReinforcedType, ExistsRecord DEF Reinforce
  <2>2. Reinforced(store[i]).relations = store[i].relations
    BY <2>1 DEF Reinforced, Record
  <2> QED BY <1>1, <2>1, <2>2, OriginsAudited DEF Reinforce, AuditAction
<1>2. ASSUME NEW i \in Ids, NEW amount \in Penalties, Penalize(i, amount)
      PROVE  OriginsKept
  BY <1>2, OriginsSalience DEF Penalize
<1>3. ASSUME NEW d \in Daemons, SweepNext(d)
      PROVE  OriginsKept
  <2>1. CASE SweepDecay(d)
    <3>1. PICK i \in sweeps[d].todo :
            Exists(store, i) /\ \E v \in DecayedTo(store[i]) : store' = DecayedStore(store, i, v)
      BY <2>1 DEF SweepDecay
    <3> QED BY <3>1, OriginsSalience DEF DecayedStore
  <2>2. CASE SweepPrune(d)
    <3>1. PICK i \in sweeps[d].todo :
            Exists(store, i) /\ store' = DeleteRecord(AddAuditEntry(store, i, "delete"), i)
      BY <2>2 DEF SweepPrune
    <3>2. ASSUME NEW j \in Ids, Exists(store', j), Exists(store, j)
          PROVE  store'[j].relations \subseteq store[j].relations
      <4>1. store[j] \in Record /\ j # i /\ i \in Ids
        BY <3>1, <3>2, ExistsRecord DEF DeleteRecord, Exists
      <4>2. store'[j] = [store[j] EXCEPT
                           !.relations = {rel \in store[j].relations : rel.target # i}]
        BY <3>1, <3>2, <4>1 DEF DeleteRecord, AddAuditEntry, StoreType, Exists
      <4> QED BY <4>1, <4>2 DEF Record
    <3> QED BY <3>2 DEF OriginsKept, Origins
  <2>3. CASE UNCHANGED store
    BY <2>3 DEF OriginsKept
  <2> QED BY <1>3, <2>1, <2>2, <2>3
          DEF SweepNext, SweepStart, SweepList, SweepEnd, SweepNotFound, SweepFault
<1> QED BY <1>1, <1>2, <1>3, DecayAssumption DEF DecayNext

\* A revision relates its new record to the old ones, and a contested one to its rival.
LEMMA RevisionOrigins ==
    ASSUME Carried, RevisionNext
    PROVE  OriginsKept
<1> USE DEF Carried, Agree, StoreTypeOK
<1>1. \A i \in Ids : Exists(store, i) => store[i] \in Record
  BY ExistsRecord
<1>2. \A new \in Ids : Fresh(new) => ~Exists(store, new)
  BY DEF Fresh, UsedCovers, Live
<1>3. ASSUME NEW old \in Ids, NEW new \in Ids, NEW d \in Drafts, Supersede(old, new, d)
      PROVE  OriginsKept
  <2> DEFINE r  == Superseded(store[old], new, d)
             p  == [r EXCEPT !.audit = store[old].audit \cup {"revise"}]
             s1 == AddAuditEntry(UpdateRecord(store, old, r), old, "revise")
  <2>1. Exists(store, old) /\ store[old] \in Record /\ r \in Record
    BY <1>1, <1>3, SupersededType DEF Supersede, CanSupersede, Revisable
  <2>2. r.relations = store[old].relations
    BY <2>1 DEF Superseded, Retracted, Record
  <2> HIDE DEF r
  <2>3. s1 = [store EXCEPT ![old] = p] /\ p \in Record
    BY <2>1, UpdateAudited DEF AuditAction
  <2>4. p.relations = r.relations
    BY <2>1 DEF Record
  <2> HIDE DEF p
  <2>5. s1 \in StoreType /\ \A j \in Ids : s1[j].relations = store[j].relations
    BY <2>2, <2>3, <2>4 DEF StoreType
  <2>6. store' = CreateRecord(s1, new, Successor(old, d)) /\ Fresh(new)
    BY <1>3 DEF Supersede, SupersededStore, r
  <2> QED BY <1>2, <2>5, <2>6, OriginsCreate
<1>4. ASSUME NEW source \in Ids, NEW new \in Ids, NEW d \in Drafts, Fork(source, new, d)
      PROVE  OriginsKept
  <2> DEFINE s1 == AddAuditEntry(store, source, "fork")
  <2>1. Exists(store, source) /\ store[source] \in Record
    BY <1>1, <1>4 DEF Fork, CanFork, Revisable
  <2>2. s1 \in StoreType
    BY <2>1, AddAuditEntryType DEF AuditAction
  <2>3. \A j \in Ids : s1[j].relations = store[j].relations
    BY <2>1 DEF AddAuditEntry, StoreType, Record
  <2>4. store' = CreateRecord(s1, new, Derived(d, "derived_from", {source})) /\ Fresh(new)
    BY <1>4 DEF Fork, ForkedStore
  <2> QED BY <1>2, <2>2, <2>3, <2>4, OriginsCreate
<1>5. ASSUME NEW S \in SUBSET Ids, NEW new \in Ids, NEW d \in Drafts, Merge(S, new, d)
      PROVE  OriginsKept
  <2> DEFINE row(j) == [Retracted(store[j]) EXCEPT !.audit = store[j].audit \cup {"merge"}]
             s1 == [j \in Ids |-> IF j \in S THEN row(j) ELSE store[j]]
  <2>1. ASSUME NEW j \in S
        PROVE  row(j) \in Record /\ row(j).relations = store[j].relations
    <3>1. Exists(store, j) /\ store[j] \in Record
      BY <1>1, <1>5 DEF Merge, CanMerge, Revisable
    <3>2. store[j].audit \cup {"merge"} \in SUBSET AuditAction
      BY <3>1 DEF Record, AuditAction
    <3>3. row(j) \in Record
      BY <3>1, <3>2, RetractedType, RecordAudit
    <3> QED BY <3>1, <3>3 DEF Retracted, Record
  <2> HIDE DEF row
  <2>2. s1 \in StoreType /\ \A j \in Ids : s1[j].relations = store[j].relations
    BY <2>1 DEF StoreType
  <2>3. store' = CreateRecord(s1, new, Derived(d, "derived_from", S)) /\ Fresh(new)
    BY <1>5 DEF Merge, MergedStore, row
  <2> QED BY <1>2, <2>2, <2>3, OriginsCreate
<1>6. ASSUME NEW i \in Ids, Retract(i)
      PROVE  OriginsKept
  <2>1. Exists(store, i) /\ store[i] \in Record /\ Retracted(store[i]) \in Record
    BY <1>1, <1>6, RetractedType DEF Retract, Revisable
  <2>2. Retracted(store[i]).relations = store[i].relations
    BY <2>1 DEF Retracted, Record
  <2> QED BY <1>6, <2>1, <2>2, OriginsAudited DEF Retract, RetractedStore, AuditAction
<1>7. ASSUME NEW i \in Ids, NEW ref \in Refs, Contest(i, ref)
      PROVE  OriginsKept
  <2> DEFINE r  == Contested(store[i])
             rels == IF ref = NoId THEN r.relations
                     ELSE r.relations \cup {Rel("contested_by", ref)}
             q  == [[r EXCEPT !.relations = rels]
                      EXCEPT !.audit = store[i].audit \cup {"revise"}]
  <2>1. r \in Record /\ Exists(store, i) /\ store[i] \in Record
    BY <1>1, <1>7, ContestedType DEF Contest, CanContest, Revisable
  <2>2. r.relations = store[i].relations /\ q.relations = rels
    BY <2>1 DEF Contested, IsSemantic, Record
  <2>3. store' = [store EXCEPT ![i] = q]
    BY <1>7, <2>1 DEF Contest, ContestedStore, UpdateRecord, AddRelation, AddAuditEntry,
                      StoreType, Record
  <2>4. Origins(q) = Origins(store[i])
    BY <2>2 DEF Origins, Rel
  <2> HIDE DEF q
  <2> QED BY <2>3, <2>4, OriginsRow
<1> QED BY <1>3, <1>4, <1>5, <1>6, <1>7 DEF RevisionNext

\* What consolidation derives is new.
LEMMA ConsolidationOrigins ==
    ASSUME Carried, ConsolidationNext
    PROVE  OriginsKept
<1> USE DEF Carried, Agree, StoreTypeOK
<1>1. PICK d \in Consolidators : RunNext(d)
  BY DEF ConsolidationNext
<1>2. runs[d] \in RunType
  BY DEF TypeOK, RunsTypeOK
<1>3. CASE RunCompress(d)
  <2>1. PICK cut \in runs[d].cuts :
          Exists(store, cut.id) /\ store' = CutStore(store, cut.id, cut.to)
    BY <1>3 DEF RunCompress
  <2>2. cut.id \in Ids
    BY <1>2, <2>1 DEF RunType, Cut
  <2> QED BY <2>1, <2>2, OriginsSalience DEF CutStore
<1>4. CASE RunReinforce(d)
  <2>1. PICK t \in runs[d].todo, e \in runs[d].index :
          Exists(store, e.id) /\ store' = ReinforcedStore(store, e.id, Raised(e.salience))
    BY <1>4 DEF RunReinforce
  <2>2. e.id \in Ids
    BY <1>2, <2>1 DEF RunType, Entry
  <2> QED BY <2>1, <2>2, OriginsSalience DEF ReinforcedStore
<1>5. ASSUME NEW new \in Ids, RunCreate(d, new)
      PROVE  OriginsKept
  BY <1>5, OriginsRow DEF RunCreate, CreateRecord, Fresh, UsedCovers, Live
<1>6. CASE UNCHANGED store
  BY <1>6 DEF OriginsKept
<1> QED BY <1>1, <1>3, <1>4, <1>5, <1>6
        DEF RunNext, RunStart, RunAdvance, RunIndex, RunIndexPlans, RunNotFound, RunFault, RunEnd

-----------------------------------------------------------------------------
(* The steps.                                                              *)

\* No knowledge has come, and what there is says what it said.
NoMore ==
    \A i \in Ids : Exists(store', i) /\ store'[i].type \in Knowledge =>
        /\ Exists(store, i) /\ store'[i].type = store[i].type /\ store'[i].fact = store[i].fact
        /\ Origins(store'[i]) \subseteq Origins(store[i])

\* A step that creates none and keeps the origins is such a step.
LEMMA NoMoreStep ==
    ASSUME Carried, Carried', Evolves, OriginsKept,
           \A i \in used' \ used : Exists(store', i) => store'[i].type \notin Knowledge
    PROVE  NoMore
<1>1. PICK N \in SUBSET (Ids \ used) : Grown(store, store', N) /\ used' = used \cup N
  BY DEF Evolves
<1>2. ASSUME NEW i \in Ids, Exists(store', i), store'[i].type \in Knowledge
      PROVE  /\ Exists(store, i) /\ store'[i].type = store[i].type
             /\ store'[i].fact = store[i].fact
             /\ Origins(store'[i]) \subseteq Origins(store[i])
  <2>1. i \in used'
    BY <1>2 DEF Carried, Agree, UsedCovers, Live
  <2>2. i \notin N
    BY <1>1, <1>2, <2>1
  <2>3. Exists(store, i) /\ store'[i].type = store[i].type /\ store'[i].fact = store[i].fact
    BY <1>1, <1>2, <2>2 DEF Grown, SameContent
  <2>4. store[i].type # "episodic"
    BY <1>2, <2>3 DEF Knowledge
  <2> QED BY <1>2, <2>3, <2>4 DEF OriginsKept
<1> QED BY <1>2 DEF NoMore

\* Then what a run knows is still so, and the knowledge is still distinct.
LEMMA KnowsOn ==
    ASSUME NoMore, NEW x, RunKnows(x, store)
    PROVE  RunKnows(x, store')
<1>1. ASSUME NEW t \in Knowledge, NEW i \in OfType(store', t)
      PROVE  /\ i \in OfType(store, t) /\ store'[i].fact = store[i].fact
             /\ Origins(store'[i]) \subseteq Origins(store[i])
  BY <1>1 DEF NoMore, OfType, Live
<1>2. "plan_graph" \in Knowledge /\ "semantic" \in Knowledge /\ "competence" \in Knowledge
  BY DEF Knowledge
<1> QED BY <1>1, <1>2 DEF RunKnows

LEMMA DistinctOn ==
    ASSUME NoMore, DistinctIn(store)
    PROVE  DistinctIn(store')
<1>1. ASSUME NEW t \in Knowledge, NEW i \in OfType(store', t)
      PROVE  /\ i \in OfType(store, t) /\ store'[i].fact = store[i].fact
             /\ Origins(store'[i]) \subseteq Origins(store[i])
  BY <1>1 DEF NoMore, OfType, Live
<1>2. "plan_graph" \in Knowledge /\ "semantic" \in Knowledge /\ "competence" \in Knowledge
  BY DEF Knowledge
<1> QED BY <1>1, <1>2 DEF DistinctIn

\* Ingestion, revision and decay create no knowledge.
LEMMA OthersAddNone ==
    ASSUME OnlyConsolidator, Carried, IngestionNext \/ RevisionNext \/ DecayNext,
           NEW i \in used' \ used
    PROVE  store'[i].type \notin Knowledge
<1> USE DEF Carried, Agree, StoreTypeOK
<1>1. ASSUME NEW new \in Ids, NEW s \in StoreType, NEW q, store' = CreateRecord(s, new, q),
             used' = used \cup {new}, q.type \notin Knowledge
      PROVE  store'[i].type \notin Knowledge
  BY <1>1 DEF CreateRecord, StoreType
<1>2. CASE IngestionNext
  <2>1. PICK new \in Ids, r \in Ingested : Ingest(new, r)
    BY <1>2 DEF IngestionNext, OutcomeRead, OutcomeWrite, OutcomeLost, OutcomeTorn
  <2> QED BY <1>1, <2>1 DEF Ingest, OnlyConsolidator
<1>3. CASE DecayNext
  BY <1>3 DEF DecayNext, Reinforce, Penalize, SweepNext, SweepStart, SweepDecay, SweepList,
              SweepPrune, SweepEnd, SweepNotFound, SweepFault
<1>4. ASSUME NEW d \in Drafts, NEW p, NEW S
      PROVE  Derived(d, p, S).type \notin Knowledge
  <2>1. d.rec \in Record /\ d.rec.type \notin Knowledge
    BY RevisionAssumption DEF OnlyConsolidator, Draft
  <2> QED BY <2>1 DEF Derived, Record
<1>5. ASSUME NEW old \in Ids, NEW d \in Drafts
      PROVE  Successor(old, d).type \notin Knowledge
  <2>1. d.rec \in Record /\ d.rec.type \notin Knowledge
    BY RevisionAssumption DEF OnlyConsolidator, Draft
  <2> QED BY <2>1 DEF Successor, Derived, Record
<1>6. CASE RevisionNext
  <2>1. ASSUME NEW s, NEW new \in Ids, NEW q, store' = CreateRecord(s, new, q),
               used' = used \cup {new}, q.type \notin Knowledge, DOMAIN s = Ids
        PROVE  store'[i].type \notin Knowledge
    BY <2>1 DEF CreateRecord
  <2>2. ASSUME NEW old \in Ids, NEW new \in Ids, NEW d \in Drafts, Supersede(old, new, d)
        PROVE  store'[i].type \notin Knowledge
    <3> DEFINE s == AddAuditEntry(UpdateRecord(store, old, Superseded(store[old], new, d)),
                                  old, "revise")
    <3>1. DOMAIN s = Ids
      BY DEF AddAuditEntry, UpdateRecord, StoreType
    <3>2. store' = CreateRecord(s, new, Successor(old, d)) /\ used' = used \cup {new}
      BY <2>2 DEF Supersede, SupersededStore
    <3> HIDE DEF s
    <3> QED BY <1>5, <2>1, <3>1, <3>2
  <2>3. ASSUME NEW source \in Ids, NEW new \in Ids, NEW d \in Drafts, Fork(source, new, d)
        PROVE  store'[i].type \notin Knowledge
    <3> DEFINE s == AddAuditEntry(store, source, "fork")
    <3>1. DOMAIN s = Ids
      BY DEF AddAuditEntry, StoreType
    <3>2. store' = CreateRecord(s, new, Derived(d, "derived_from", {source}))
          /\ used' = used \cup {new}
      BY <2>3 DEF Fork, ForkedStore
    <3> HIDE DEF s
    <3> QED BY <1>4, <2>1, <3>1, <3>2
  <2>4. ASSUME NEW S \in SUBSET Ids, NEW new \in Ids, NEW d \in Drafts, Merge(S, new, d)
        PROVE  store'[i].type \notin Knowledge
    <3> DEFINE s == [j \in Ids |-> IF j \in S
                       THEN [Retracted(store[j]) EXCEPT !.audit = store[j].audit \cup {"merge"}]
                       ELSE store[j]]
    <3>1. DOMAIN s = Ids
      OBVIOUS
    <3>2. store' = CreateRecord(s, new, Derived(d, "derived_from", S)) /\ used' = used \cup {new}
      BY <2>4 DEF Merge, MergedStore
    <3> HIDE DEF s
    <3> QED BY <1>4, <2>1, <3>1, <3>2
  <2> QED BY <1>6, <2>2, <2>3, <2>4 DEF RevisionNext, Retract, Contest
<1> QED BY <1>2, <1>3, <1>6

\* A step of a run that creates nothing and leaves it with x.
LEMMA RunQuiet ==
    ASSUME OnlyConsolidator, Carried, Carried', Evolves, OriginsKept, used' = used,
           DistinctIn(store), NEW d \in Consolidators, NEW x, RunKnows(x, store),
           runs' = [runs EXCEPT ![d] = x]
    PROVE  DistinctIn(store') /\ AllKnow'
<1>1. NoMore
  BY NoMoreStep
<1>2. \A c \in Consolidators : runs'[c] = x
  BY DEF OnlyConsolidator, Carried, TypeOK, RunsTypeOK
<1> QED BY <1>1, <1>2, KnowsOn, DistinctOn DEF AllKnow


\* What a stage lists is right when it has listed it.
LEMMA AdvanceKnows ==
    ASSUME NEW stage \in Stage, NEW cuts
    PROVE  RunKnows(AtStage(stage, cuts, ItemsAt(stage, store)), store)
<1> DEFINE x == AtStage(stage, cuts, ItemsAt(stage, store))
<1>1. /\ x.stage = stage /\ x.todo = ItemsAt(stage, store)
      /\ x.listing = (stage \in {"semantic", "competence", "plan"})
  BY DEF AtStage
<1> HIDE DEF x
<1>2. ASSUME stage = "plan", NEW t \in x.todo, NEW u \in x.todo, t.sources \cap u.sources # {}
      PROVE  t = u
  <2> DEFINE Complex == {j \in Episodes(store) : store[j].fact \in ComplexFacts}
  <2>1. ItemsAt("plan", store) = {[key |-> store[i].fact, sources |-> {i}] : i \in Complex}
    BY DEF ItemsAt
  <2>2. PICK i \in Complex : t = [key |-> store[i].fact, sources |-> {i}]
    BY <1>1, <1>2, <2>1
  <2>3. PICK j \in Complex : u = [key |-> store[j].fact, sources |-> {j}]
    BY <1>1, <1>2, <2>1
  <2>4. i = j
    BY <1>2, <2>2, <2>3
  <2> QED BY <2>2, <2>3, <2>4
<1> QED BY <1>1, <1>2 DEF RunKnows, x

\* So is the index of known facts.
LEMMA IndexKnows ==
    ASSUME NEW x \in RunType, x.stage \in {"semantic", "competence"},
           NEW index \in Indexes(store, TypeAt[x.stage])
    PROVE  RunKnows([x EXCEPT !.listing = FALSE, !.index = index], store)
<1> DEFINE y == [x EXCEPT !.listing = FALSE, !.index = index]
           all == {[key |-> store[i].fact, id |-> i, salience |-> store[i].salience] :
                      i \in OfType(store, TypeAt[x.stage])}
<1>1. y.stage = x.stage /\ y.index = index
  BY DEF RunType
<1>2. \A e \in all : \E f \in index : f.key = e.key
  BY DEF Indexes
<1>3. TypeAt[x.stage] = x.stage
  BY DEF TypeAt
<1>4. ASSUME NEW i \in OfType(store, x.stage)
      PROVE  \E e \in index : e.key = store[i].fact
  <2>1. [key |-> store[i].fact, id |-> i, salience |-> store[i].salience] \in all
    BY <1>3
  <2> QED BY <1>2, <2>1
<1> HIDE DEF y
<1> QED BY <1>1, <1>4 DEF RunKnows, y

\* And what is left when the episodes with a plan graph are dropped.
LEMMA PlansKnow ==
    ASSUME OnlyConsolidator, NEW x \in RunType, x.stage = "plan", RunKnows(x, store),
           NEW missed, IsFiniteSet(missed), Cardinality(missed) <= MaxMisses
    PROVE  LET known == Planned(store, OfType(store, "plan_graph") \ missed)
           IN  RunKnows([x EXCEPT !.listing = FALSE,
                                  !.todo = {t \in x.todo : t.sources \cap known = {}}], store)
<1> DEFINE known == Planned(store, OfType(store, "plan_graph") \ missed)
           y == [x EXCEPT !.listing = FALSE, !.todo = {t \in x.todo : t.sources \cap known = {}}]
<1>1. missed = {}
  <2>1. Cardinality(missed) \in Nat /\ Cardinality(missed) <= 0
    BY FS_CardinalityType DEF OnlyConsolidator
  <2> QED BY <2>1, FS_EmptySet
<1>2. known = {k \in Ids : \E j \in OfType(store, "plan_graph") : k \in Origins(store[j])}
  BY <1>1 DEF Planned, Origins
<1>3. y.stage = "plan" /\ y.todo = {t \in x.todo : t.sources \cap known = {}}
  BY DEF RunType
<1> HIDE DEF y
<1>4. \A t \in y.todo, i \in OfType(store, "plan_graph") : t.sources \cap Origins(store[i]) = {}
  BY <1>2, <1>3 DEF Origins
<1> QED BY <1>3, <1>4 DEF RunKnows, y

\* A run creates a record.
LEMMA CreateKnows ==
    ASSUME OnlyConsolidator, Carried, DistinctIn(store), AllKnow,
           NEW d \in Consolidators, NEW new \in Ids, RunCreate(d, new)
    PROVE  DistinctIn(store') /\ AllKnow'
<1> DEFINE x == runs[d]
           stage == x.stage
           type == TypeAt[stage]
<1> USE DEF Carried, TypeOK, Agree, StoreTypeOK, RunsTypeOK
<1>1. x \in RunType /\ RunKnows(x, store) /\ stage \in {"semantic", "competence", "plan"}
      /\ ~x.listing /\ ~Exists(store, new)
  BY DEF AllKnow, RunCreate, TypeAt, Fresh, UsedCovers, Live
<1>2. PICK t \in x.todo :
        LET r == Distilled(type, t.key, t.sources)
            e == [key |-> t.key, id |-> new, salience |-> MaxSalience]
        IN  /\ \A f \in x.index : f.key # t.key
            /\ store' = CreateRecord(store, new, r)
            /\ runs' = [runs EXCEPT ![d].todo = x.todo \ {t},
                             ![d].index = IF stage = "plan" THEN {} ELSE x.index \cup {e}]
  BY DEF RunCreate
<1> DEFINE r == Distilled(type, t.key, t.sources)
           e == [key |-> t.key, id |-> new, salience |-> MaxSalience]
           y == [x EXCEPT !.todo = x.todo \ {t},
                          !.index = IF stage = "plan" THEN {} ELSE x.index \cup {e}]
<1>3. t.sources \subseteq Ids
  BY <1>1 DEF RunType, Item
<1>4. r.type = type /\ r.fact = t.key /\ Origins(r) = t.sources
  BY <1>3 DEF Distilled, Origins, Rel
<1>5. store' = [store EXCEPT ![new] = r] /\ \A f \in x.index : f.key # t.key
  BY <1>2 DEF CreateRecord
<1>6. runs' = [runs EXCEPT ![d] = y]
  BY <1>2
<1>7. /\ y.stage = stage /\ y.listing = FALSE /\ y.todo = x.todo \ {t}
      /\ y.index = IF stage = "plan" THEN {} ELSE x.index \cup {e}
  BY <1>1 DEF RunType
<1>8. e.key = t.key
  OBVIOUS
<1> HIDE DEF r, e, y
<1>9. \A c \in Consolidators : runs'[c] = y
  BY <1>6 DEF OnlyConsolidator
<1>10. \A i \in Ids : i # new => store'[i] = store[i]
  BY <1>5 DEF StoreType
<1>11. store'[new] = r
  BY <1>5 DEF StoreType
<1>12. \A u, i : i \in OfType(store', u) =>
          \/ i = new /\ u = type
          \/ i \in OfType(store, u) /\ store'[i] = store[i] /\ i # new
  BY <1>1, <1>4, <1>10, <1>11 DEF OfType, Live, Exists
<1> HIDE DEF x
<1>13. CASE stage = "plan"
  <2>1. type = "plan_graph"
    BY <1>13 DEF TypeAt
  <2> HIDE DEF stage, type
  <2>2. \A u \in x.todo, i \in OfType(store, "plan_graph") :
            u.sources \cap Origins(store[i]) = {}
    BY <1>1, <1>13 DEF RunKnows, stage
  <2>3. \A u, v \in x.todo : u.sources \cap v.sources # {} => u = v
    BY <1>1, <1>13 DEF RunKnows, stage
  <2>4. \A i, j \in OfType(store', "plan_graph") :
            Origins(store'[i]) \cap Origins(store'[j]) # {} => i = j
    <3>1. SUFFICES ASSUME NEW i \in OfType(store', "plan_graph"),
                          NEW j \in OfType(store', "plan_graph"), i # j
                   PROVE  Origins(store'[i]) \cap Origins(store'[j]) = {}
      OBVIOUS
    <3>2. CASE i = new
      <4>1. j \in OfType(store, "plan_graph") /\ store'[j] = store[j]
        BY <1>12, <3>1, <3>2
      <4> QED BY <1>4, <1>11, <2>2, <3>2, <4>1
    <3>3. CASE j = new
      <4>1. i \in OfType(store, "plan_graph") /\ store'[i] = store[i]
        BY <1>12, <3>1, <3>3
      <4> QED BY <1>4, <1>11, <2>2, <3>3, <4>1
    <3>4. CASE i # new /\ j # new
      <4>1. /\ i \in OfType(store, "plan_graph") /\ store'[i] = store[i]
            /\ j \in OfType(store, "plan_graph") /\ store'[j] = store[j]
        BY <1>12, <3>1, <3>4
      <4> QED BY <3>1, <4>1 DEF DistinctIn
    <3> QED BY <3>2, <3>3, <3>4
  <2>5. \A u \in {"semantic", "competence"} : \A i \in OfType(store', u) :
            i \in OfType(store, u) /\ store'[i] = store[i]
    BY <1>12, <2>1
  <2>6. DistinctIn(store')
    BY <2>4, <2>5 DEF DistinctIn
  <2>7. ASSUME NEW u \in y.todo, NEW i \in OfType(store', "plan_graph")
        PROVE  u.sources \cap Origins(store'[i]) = {}
    <3>1. u \in x.todo /\ u # t
      BY <1>7, <2>7
    <3>2. CASE i = new
      BY <1>2, <1>4, <1>11, <2>3, <3>1, <3>2
    <3>3. CASE i # new
      <4>1. i \in OfType(store, "plan_graph") /\ store'[i] = store[i]
        BY <1>12, <2>7, <3>3
      <4> QED BY <2>2, <3>1, <4>1
    <3> QED BY <3>2, <3>3
  <2>8. RunKnows(y, store')
    BY <1>7, <1>13, <2>3, <2>7 DEF RunKnows
  <2> QED BY <1>9, <2>6, <2>8 DEF AllKnow
<1>14. CASE stage # "plan"
  <2>1. type = stage /\ stage \in {"semantic", "competence"}
    BY <1>1, <1>14 DEF TypeAt
  <2> HIDE DEF stage, type
  <2>2. \A i \in OfType(store, stage) : \E f \in x.index : f.key = store[i].fact
    BY <1>1, <2>1 DEF RunKnows, stage
  <2>3. \A i \in OfType(store, stage) : store[i].fact # t.key
    BY <1>5, <2>2 DEF x
  <2>4. ASSUME NEW u \in {"semantic", "competence"}, NEW i \in OfType(store', u),
               NEW j \in OfType(store', u), store'[i].fact = store'[j].fact
        PROVE  i = j
    <3>1. CASE i = new /\ j # new
      <4>1. u = stage /\ j \in OfType(store, u) /\ store'[j] = store[j]
        BY <1>1, <1>12, <2>1, <2>4, <3>1 DEF OfType, Live
      <4> QED BY <1>4, <1>11, <2>3, <2>4, <3>1, <4>1
    <3>2. CASE j = new /\ i # new
      <4>1. u = stage /\ i \in OfType(store, u) /\ store'[i] = store[i]
        BY <1>1, <1>12, <2>1, <2>4, <3>2 DEF OfType, Live
      <4> QED BY <1>4, <1>11, <2>3, <2>4, <3>2, <4>1
    <3>3. CASE i # new /\ j # new
      <4>1. /\ i \in OfType(store, u) /\ store'[i] = store[i]
            /\ j \in OfType(store, u) /\ store'[j] = store[j]
        BY <1>12, <2>4, <3>3
      <4> QED BY <2>4, <4>1 DEF DistinctIn
    <3> QED BY <3>1, <3>2, <3>3
  <2>5. \A i \in OfType(store', "plan_graph") :
            i \in OfType(store, "plan_graph") /\ store'[i] = store[i]
    BY <1>12, <2>1
  <2>6. DistinctIn(store')
    BY <2>4, <2>5 DEF DistinctIn
  <2>7. ASSUME NEW i \in OfType(store', stage)
        PROVE  \E f \in y.index : f.key = store'[i].fact
    <3>1. y.index = x.index \cup {e}
      BY <1>7, <1>14
    <3>2. CASE i = new
      BY <1>4, <1>8, <1>11, <3>1, <3>2
    <3>3. CASE i # new
      <4>1. i \in OfType(store, stage) /\ store'[i] = store[i]
        BY <1>12, <2>7, <3>3
      <4> QED BY <2>2, <3>1, <4>1
    <3> QED BY <3>2, <3>3
  <2>8. RunKnows(y, store')
    BY <1>7, <1>14, <2>7 DEF RunKnows
  <2> QED BY <1>9, <2>6, <2>8 DEF AllKnow
<1> QED BY <1>13, <1>14

\* Every step of the run.
LEMMA RunStep ==
    ASSUME OnlyConsolidator, Carried, Carried', DistinctIn(store), AllKnow, ConsolidationNext
    PROVE  DistinctIn(store') /\ AllKnow'
<1>1. PICK d \in Consolidators : RunNext(d)
  BY DEF ConsolidationNext
<1> DEFINE x == runs[d]
<1>2. x \in RunType /\ RunKnows(x, store) /\ runs \in [Consolidators -> RunType]
  BY DEF AllKnow, Carried, TypeOK, RunsTypeOK
<1>3. Evolves /\ OriginsKept
  BY ConsolidationEvolves, ConsolidationOrigins
<1>4. ASSUME NEW y, RunKnows(y, store), runs' = [runs EXCEPT ![d] = y], used' = used
      PROVE  DistinctIn(store') /\ AllKnow'
  BY <1>3, <1>4, RunQuiet
<1>5. RunKnows(IdleRun, store)
  BY DEF RunKnows, IdleRun, AtStage
<1>6. CASE RunStart(d)
  <2>1. PICK old : runs' = [runs EXCEPT ![d] = AtStage("compress", Cuts(store, old), {})]
    BY <1>6 DEF RunStart
  <2>2. RunKnows(AtStage("compress", Cuts(store, old), {}), store)
    BY DEF RunKnows, AtStage
  <2> QED BY <1>4, <1>6, <2>1, <2>2 DEF RunStart
<1>7. CASE RunCompress(d)
  <2>1. PICK cut : runs' = [runs EXCEPT ![d].cuts = runs[d].cuts \ {cut}]
    BY <1>7 DEF RunCompress
  <2> DEFINE y == [x EXCEPT !.cuts = x.cuts \ {cut}]
  <2>2. /\ y.stage = x.stage /\ y.listing = x.listing /\ y.index = x.index /\ y.todo = x.todo
        /\ runs' = [runs EXCEPT ![d] = y]
    BY <1>2, <2>1 DEF RunType
  <2> HIDE DEF y
  <2>3. RunKnows(y, store)
    BY <1>2, <2>2 DEF RunKnows
  <2> QED BY <1>4, <1>7, <2>2, <2>3 DEF RunCompress
<1>8. CASE RunAdvance(d)
  <2>1. PICK next \in Stage :
          runs' = [runs EXCEPT ![d] = AtStage(next, {}, ItemsAt(next, store))]
    <3> DEFINE next == IF x.stage = "compress" THEN "semantic" ELSE NextStage[x.stage]
    <3>1. runs' = [runs EXCEPT ![d] = AtStage(next, {}, ItemsAt(next, store))]
      BY <1>8 DEF RunAdvance
    <3>2. x.stage = "compress" \/ x.stage \in {"semantic", "competence"}
      BY <1>8 DEF RunAdvance, NextStage
    <3>3. next \in Stage
      BY <3>2 DEF NextStage, Stage
    <3> QED BY <3>1, <3>3
  <2> QED BY <1>4, <1>8, <2>1, AdvanceKnows DEF RunAdvance
<1>9. CASE RunIndex(d)
  <2>1. PICK index \in Indexes(store, TypeAt[x.stage]) :
          runs' = [runs EXCEPT ![d].listing = FALSE, ![d].index = index]
    BY <1>9 DEF RunIndex
  <2>2. RunKnows([x EXCEPT !.listing = FALSE, !.index = index], store)
    BY <1>2, <1>9, <2>1, IndexKnows DEF RunIndex
  <2>3. runs' = [runs EXCEPT ![d] = [x EXCEPT !.listing = FALSE, !.index = index]]
    BY <2>1
  <2> QED BY <1>4, <1>9, <2>2, <2>3 DEF RunIndex
<1>10. CASE RunIndexPlans(d)
  <2>1. PICK missed :
          /\ IsFiniteSet(missed) /\ Cardinality(missed) <= MaxMisses
          /\ LET known == Planned(store, OfType(store, "plan_graph") \ missed)
             IN  runs' = [runs EXCEPT ![d].listing = FALSE,
                              ![d].todo = {t \in runs[d].todo : t.sources \cap known = {}}]
    BY <1>10 DEF RunIndexPlans
  <2> DEFINE known == Planned(store, OfType(store, "plan_graph") \ missed)
             y == [x EXCEPT !.listing = FALSE,
                            !.todo = {t \in x.todo : t.sources \cap known = {}}]
  <2>2. RunKnows(y, store)
    BY <1>2, <1>10, <2>1, PlansKnow DEF RunIndexPlans
  <2>3. runs' = [runs EXCEPT ![d] = y]
    BY <2>1
  <2> HIDE DEF y
  <2> QED BY <1>4, <1>10, <2>2, <2>3 DEF RunIndexPlans
<1>11. CASE RunReinforce(d)
  <2>1. PICK t : runs' = [runs EXCEPT ![d].todo = runs[d].todo \ {t}]
    BY <1>11 DEF RunReinforce
  <2> DEFINE y == [x EXCEPT !.todo = x.todo \ {t}]
  <2>2. /\ y.stage = x.stage /\ y.listing = x.listing /\ y.index = x.index
        /\ y.todo = x.todo \ {t} /\ runs' = [runs EXCEPT ![d] = y]
    BY <1>2, <2>1 DEF RunType
  <2> HIDE DEF y
  <2>3. RunKnows(y, store)
    BY <1>2, <2>2 DEF RunKnows
  <2> QED BY <1>4, <1>11, <2>2, <2>3 DEF RunReinforce
<1>12. CASE RunNotFound(d) \/ RunFault(d) \/ RunEnd(d)
  BY <1>4, <1>5, <1>12 DEF RunNotFound, RunFault, RunEnd
<1> QED BY <1>1, <1>6, <1>7, <1>8, <1>9, <1>10, <1>11, <1>12, CreateKnows DEF RunNext

\* Every step of the system.
LEMMA KnowledgeStep ==
    ASSUME OnlyConsolidator, Carried, Carried', [Next]_vars, DistinctIn(store), AllKnow
    PROVE  DistinctIn(store') /\ AllKnow'
<1>1. ASSUME UNCHANGED runs, NoMore
      PROVE  DistinctIn(store') /\ AllKnow'
  BY <1>1, KnowsOn, DistinctOn DEF AllKnow
<1>2. ASSUME IngestionNext \/ RevisionNext \/ DecayNext
      PROVE  NoMore
  <2>1. OriginsKept
    BY <1>2, IngestionOrigins, RevisionOrigins, DecayOrigins
  <2>2. Evolves
    BY <1>2, OutcomeEvolves, RevisionEvolves, DecayEvolves DEF Carried, Agree
  <2> QED BY <1>2, <2>1, <2>2, OthersAddNone, NoMoreStep
<1>3. CASE UNCHANGED vars
  BY <1>3 DEF vars, AllKnow
<1> QED BY <1>1, <1>2, <1>3, RunStep DEF Next

\* KnowledgeDistinct: a daemon whose consolidation alone creates knowledge makes no fact
\* and no competence twice and no two plan graphs of one episode, although each stage
\* works from a listing and an index it made before, while clients revise and report
\* and sweeps delete.
THEOREM OneConsolidatorNoDuplicates == OnlyConsolidator => (Spec => []KnowledgeDistinct)
<1> SUFFICES ASSUME OnlyConsolidator  PROVE Spec => []KnowledgeDistinct
  OBVIOUS
<1>1. Init => DistinctIn(store) /\ AllKnow
  BY DEF Init, InitStore, InitRuns, DistinctIn, AllKnow, RunKnows, IdleRun, AtStage, OfType,
         Live, Exists
<1>2. Carried /\ Carried' /\ [Next]_vars /\ DistinctIn(store) /\ AllKnow
        => (DistinctIn(store) /\ AllKnow)'
  BY KnowledgeStep
<1>3. DistinctIn(store) => KnowledgeDistinct
  BY DistinctNow
<1> QED BY <1>1, <1>2, <1>3, CarriedHolds, PTL DEF Spec
=============================================================================
