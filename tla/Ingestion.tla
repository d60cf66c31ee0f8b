----------------------------- MODULE Ingestion -----------------------------
(***************************************************************************)
(* The ingestion service (src/membrain/pkg/ingestion).  Events, tool       *)
(* outputs, observations and working states become new records; an outcome *)
(* is written into an existing episodic record by a store.Get followed by  *)
(* a store.Update that no transaction ties together, so any other service  *)
(* may run between the two.                                                *)
(***************************************************************************)
EXTENDS RecordStore

CONSTANTS
    Clients,      \* concurrent IngestOutcome calls
    Reported,     \* the outcomes clients report
    Ingested,     \* the records ingestion builds out of the candidates used
    NoCall        \* a client with no outcome call under way

VARIABLE outcomes \* per client, the record its IngestOutcome call has read

\* What the policy engine gives a record: full salience, a floor and a
\* reinforcement gain of zero, unpinned, auto_prune; and the evidence
\* buildRecord adds.
IngestedRecord(type, fact) ==
    [type |-> type, fact |-> fact, salience |-> MaxSalience, floor |-> 0,
     gain |-> 0, ages |-> FALSE, pinned |-> FALSE, policy |-> "auto_prune",
     outcome |-> "none", evidence |-> TRUE, status |-> "none",
     supersedes |-> NoId, supersededBy |-> NoId, relations |-> {},
     audit |-> {"create"}]

ASSUME IngestionAssumption ==
    /\ Reported \subseteq Outcome \ {"none"}
    /\ Ingested \subseteq
         {IngestedRecord(t, f) : t \in {"episodic", "semantic", "working"}, f \in Facts}
    /\ NoCall \notin [id : Ids, rec : Record]

OutcomesTypeOK == outcomes \in [Clients -> [id : Ids, rec : Record] \cup {NoCall}]

InitOutcomes == outcomes = [c \in Clients |-> NoCall]

-----------------------------------------------------------------------------
\* IngestEvent, IngestToolOutput, IngestObservation and IngestWorkingState:
\* classify, apply the policy, build the record under a new uuid, create it.
Ingest(i, r) ==
    /\ Fresh(i)
    /\ store' = CreateRecord(store, i, r)
    /\ used' = used \cup {i}
    /\ UNCHANGED outcomes

\* First half of IngestOutcome: read the record, refuse one whose payload is
\* not episodic, set the outcome and append provenance and an audit entry in
\* memory.
OutcomeRead(c, i, o) ==
    /\ outcomes[c] = NoCall
    /\ Exists(store, i)
    /\ store[i].type = "episodic"
    /\ outcomes' = [outcomes EXCEPT ![c] =
           [id  |-> i,
            rec |-> [store[i] EXCEPT !.outcome = o,
                                     !.evidence = TRUE,
                                     !.audit = store[i].audit \cup {"revise"}]]]
    /\ UNCHANGED <<store, used>>

\* Wrong: the write-back inserts a record that is gone.
OutcomeUpsert(c) ==
    /\ outcomes[c] # NoCall
    /\ store' = CreateRecord(store, outcomes[c].id, outcomes[c].rec)
    /\ outcomes' = [outcomes EXCEPT ![c] = NoCall]
    /\ UNCHANGED used

\* Second half: store.Update writes the whole record back.
OutcomeWrite(c) ==
    /\ outcomes[c] # NoCall
    /\ Exists(store, outcomes[c].id)
    /\ TargetsExist(store, outcomes[c].rec)
    /\ store' = UpdateRecord(store, outcomes[c].id, outcomes[c].rec)
    /\ outcomes' = [outcomes EXCEPT ![c] = NoCall]
    /\ UNCHANGED used

\* The record was deleted since the read: UPDATE hits no row (ErrNotFound).
OutcomeLost(c) ==
    /\ outcomes[c] # NoCall
    /\ ~Exists(store, outcomes[c].id)
    /\ outcomes' = [outcomes EXCEPT ![c] = NoCall]
    /\ UNCHANGED <<store, used>>

\* A record the target is related to was deleted since the read.  The row,
\* the profile and the payload are already rewritten and the old relations
\* deleted, each statement on its own, when the foreign key refuses one of
\* the relations: only those inserted before it remain.
OutcomeTorn(c) ==
    /\ outcomes[c] # NoCall
    /\ Exists(store, outcomes[c].id)
    /\ ~TargetsExist(store, outcomes[c].rec)
    /\ \E kept \in SUBSET {rel \in outcomes[c].rec.relations : Exists(store, rel.target)} :
         store' = UpdateRecord(store, outcomes[c].id,
                               [outcomes[c].rec EXCEPT !.relations = kept])
    /\ outcomes' = [outcomes EXCEPT ![c] = NoCall]
    /\ UNCHANGED used

IngestionNext ==
    \/ \E i \in Ids, r \in Ingested : Ingest(i, r)
    \/ \E c \in Clients :
         \/ \E i \in Ids, o \in Reported : OutcomeRead(c, i, o)
         \/ OutcomeWrite(c)
         \/ OutcomeLost(c)
         \/ OutcomeTorn(c)
=============================================================================
