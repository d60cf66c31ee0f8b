----------------------------- MODULE Extraction -----------------------------
(***************************************************************************)
(* The LLM extractor (src/membrain/pkg/consolidation/semantic_extractor.go)*)
(* and its work queue, the table episodic_extraction_log of the Postgres   *)
(* store.  The workers are the consolidation schedulers of the daemons     *)
(* that share the database.  A worker frees stale claims, claims a batch   *)
(* of episodes and works it off one episode at a time; no transaction      *)
(* spans two of its steps, and a claim does not say whose it is.           *)
(*                                                                         *)
(* The clock is the action Expire: a claim may turn an hour old at any     *)
(* time, also while its worker still waits for the LLM.                    *)
(***************************************************************************)
EXTENDS Ingestion, Decay, FiniteSets

CONSTANTS
    Workers,      \* membraned processes running the extractor
    BatchSize,    \* batchSize (50)
    Silent,       \* contents formatEpisodicContent makes nothing of
    MaxFailures   \* errors and crashes a behaviour may have

VARIABLES
    log,          \* per record: its row of episodic_extraction_log
    workers,      \* per worker: its batch and the episode under way
    failures,     \* errors and crashes so far
    expired       \* history: episodes whose claim was freed as stale

exVars == <<store, used, outcomes, sweeps, faults, log, workers, failures, expired>>
others == <<outcomes, sweeps, faults>>

ASSUME ExtractionAssumption ==
    /\ BatchSize \in Nat \ {0}
    /\ Silent \subseteq Facts
    /\ MaxFailures \in Nat

\* No row; triple_count -1, less or more than an hour old; triple_count >= 0.
LogState == {"none", "claimed", "stale", "done"}

WorkerType ==
    [pc     : {"idle", "claim", "batch", "ask", "upsert", "write"},
     batch  : SUBSET Ids,          \* claimed and not begun
     at     : Ids \cup {NoId},     \* the episode under way
     todo   : SUBSET Facts,        \* its triples that are left
     fact   : Facts \cup {NoId},   \* the triple under way
     hit    : Ids \cup {NoId},     \* the record found for it
     failed : BOOLEAN]             \* hadProcessingError

IdleWorker ==
    [pc |-> "idle", batch |-> {}, at |-> NoId, todo |-> {}, fact |-> NoId,
     hit |-> NoId, failed |-> FALSE]

\* Values have their types, the queue has rows of existing episodes only, and
\* a worker has an episode under way exactly while it works one off.
ExtractionTypeOK ==
    /\ StoreTypeOK
    /\ log \in [Ids -> LogState]
    /\ workers \in [Workers -> WorkerType]
    /\ failures \in 0 .. MaxFailures
    /\ expired \subseteq Ids
    /\ \A i \in Ids : log[i] # "none" => i \in OfType(store, "episodic")
    /\ \A w \in Workers : workers[w].pc \in {"ask", "upsert", "write"} <=> workers[w].at # NoId

-----------------------------------------------------------------------------
UnclaimedOrInFlight ==   \* wrong: takes claims of others
    {i \in OfType(store, "episodic") : log[i] # "done"}

Unclaimed == {i \in OfType(store, "episodic") : log[i] = "none"}

Fails == failures < MaxFailures /\ failures' = failures + 1

\* The log after a step that changes the store: ON DELETE CASCADE.
CascadedNot == log' = log   \* wrong: the table does not cascade
Cascaded    == log' = [i \in Ids |-> IF Exists(store', i) THEN log[i] ELSE "none"]

\* The worker goes on to the next episode of its batch.
Onward(w) == [IdleWorker EXCEPT !.pc = "batch", !.batch = workers[w].batch]

\* CleanStaleExtractionClaims, first thing on a tick.
Free(w, old) ==
    /\ workers[w].pc = "idle"
    /\ log' = [i \in Ids |-> IF i \in old THEN "none" ELSE log[i]]
    /\ expired' = expired \cup old
    /\ workers' = [workers EXCEPT ![w].pc = "claim"]
    /\ UNCHANGED <<store, used, others, failures>>

CleanNone(w) == Free(w, {})   \* wrong: claims are never freed
Clean(w)     == Free(w, {i \in Ids : log[i] = "stale"})

\* ClaimUnextractedEpisodics, one statement: the oldest ones (creation times
\* are left out), up to the batch size, less those that another worker claims
\* at the same moment (ON CONFLICT DO NOTHING).
Claim(w) ==
    /\ workers[w].pc = "claim"
    /\ \E batch \in SUBSET Unclaimed :
         /\ Cardinality(batch) <= BatchSize
         /\ \/ batch = Unclaimed
            \/ Cardinality(batch) = BatchSize
            \/ \E v \in Workers \ {w} : workers[v].batch # {}
         /\ log' = [i \in Ids |-> IF i \in batch THEN "claimed" ELSE log[i]]
         /\ workers' = [workers EXCEPT ![w].pc = "batch", ![w].batch = batch]
    /\ UNCHANGED <<store, used, others, failures, expired>>

\* Get the next episode of the batch.  One deleted since counts as done; one
\* without text goes straight to its mark.
Take(w) ==
    /\ workers[w].pc = "batch"
    /\ \E i \in workers[w].batch :
         workers' = [workers EXCEPT ![w] =
             IF ~Exists(store, i)
             THEN [workers[w] EXCEPT !.batch = workers[w].batch \ {i}]
             ELSE [workers[w] EXCEPT
                     !.batch = workers[w].batch \ {i},
                     !.at = i,
                     !.pc = IF store[i].fact \in Silent /\ store[i].outcome = "none"
                            THEN "upsert" ELSE "ask"]]
    /\ UNCHANGED <<store, used, others, log, failures, expired>>

\* The LLM's answer: any triples, or none.
Answer(w) ==
    /\ workers[w].pc = "ask"
    /\ \E triples \in SUBSET Facts :
         workers' = [workers EXCEPT ![w].pc = "upsert", ![w].todo = triples]
    /\ UNCHANGED <<store, used, others, log, failures, expired>>

FindNothing(w) ==   \* wrong: never finds the record
    /\ workers[w].pc = "upsert"
    /\ \E f \in workers[w].todo :
         workers' = [workers EXCEPT ![w].pc = "write",
                         ![w].todo = workers[w].todo \ {f}, ![w].fact = f]
    /\ UNCHANGED <<store, used, others, log, failures, expired>>

\* FindSemanticExact: any of the records with this triple.
Find(w) ==
    /\ workers[w].pc = "upsert"
    /\ \E f \in workers[w].todo :
         LET known == {i \in OfType(store, "semantic") : store[i].fact = f}
         IN  \E hit \in (IF known = {} THEN {NoId} ELSE known) :
               workers' = [workers EXCEPT ![w].pc = "write",
                               ![w].todo = workers[w].todo \ {f},
                               ![w].fact = f, ![w].hit = hit]
    /\ UNCHANGED <<store, used, others, log, failures, expired>>

\* What was written, or not: on to the next triple.
Wrote(w, ok) ==
    workers' = [workers EXCEPT ![w].pc = "upsert", ![w].fact = NoId, ![w].hit = NoId,
                               ![w].failed = workers[w].failed \/ ~ok]

\* decay.Service.Reinforce of the record found.
ReinforceFound(w) ==
    /\ workers[w].pc = "write"
    /\ workers[w].hit # NoId
    /\ LET i == workers[w].hit
       IN  IF Exists(store, i)
           THEN /\ store' = AddAuditEntry(UpdateRecord(store, i, Reinforced(store[i])),
                                          i, "reinforce")
                /\ Wrote(w, TRUE)
           ELSE UNCHANGED store /\ Wrote(w, FALSE)
    /\ UNCHANGED <<used, others, log, failures, expired>>

\* newExtractedSemanticRecord.
Extracted(f, source) ==
    [IngestedRecord("semantic", f) EXCEPT !.relations = {Rel("derived_from", source)}]

\* Create and AddRelation in one transaction; the foreign key wants the
\* episode.
CreateExtracted(w, new) ==
    /\ workers[w].pc = "write"
    /\ workers[w].hit = NoId
    /\ Fresh(new)
    /\ LET r == Extracted(workers[w].fact, workers[w].at)
       IN  IF TargetsExist(store, r)
           THEN /\ store' = CreateRecord(store, new, r)
                /\ used' = used \cup {new}
                /\ Wrote(w, TRUE)
           ELSE UNCHANGED <<store, used>> /\ Wrote(w, FALSE)
    /\ UNCHANGED <<others, log, failures, expired>>

\* Find, Reinforce or the transaction fails: the triple is skipped.  (So does
\* a transaction for which the instance has no id left.)
TripleFails(w) ==
    /\ workers[w].pc = "write"
    /\ Fails \/ (workers[w].hit = NoId /\ used = Ids /\ UNCHANGED failures)
    /\ Wrote(w, FALSE)
    /\ UNCHANGED <<store, used, others, log, expired>>

\* MarkEpisodicExtracted, whatever became of the triples and of the claim; an
\* UPDATE of a row that is gone changes nothing.
Mark(w) ==
    /\ workers[w].pc = "upsert"
    /\ workers[w].todo = {}
    /\ LET i == workers[w].at
       IN  log' = [log EXCEPT ![i] = IF log[i] = "none" THEN "none" ELSE "done"]
    /\ workers' = [workers EXCEPT ![w] = Onward(w)]
    /\ UNCHANGED <<store, used, others, failures, expired>>

MarkFails(w) ==
    /\ workers[w].pc = "upsert"
    /\ workers[w].todo = {}
    /\ Fails
    /\ workers' = [workers EXCEPT ![w] = Onward(w)]
    /\ UNCHANGED <<store, used, others, log, expired>>

ReleasedAny(i) == [log EXCEPT ![i] = "none"]   \* wrong: also rows that are done
Released(i) == [log EXCEPT ![i] = IF log[i] = "done" THEN "done" ELSE "none"]

\* The Get of an episode or the LLM fails: ReleaseEpisodicClaim, which may
\* fail too.
AskFails(w) ==
    /\ Fails
    /\ \E i \in (CASE workers[w].pc = "batch" -> workers[w].batch
                  [] workers[w].pc = "ask"   -> {workers[w].at}
                  [] OTHER                   -> {}) :
         /\ log' \in {log, Released(i)}
         /\ workers' = [workers EXCEPT ![w] =
                [Onward(w) EXCEPT !.batch = workers[w].batch \ {i}]]
    /\ UNCHANGED <<store, used, others, expired>>

Finish(w) ==
    /\ workers[w].pc = "batch"
    /\ workers[w].batch = {}
    /\ workers' = [workers EXCEPT ![w] = IdleWorker]
    /\ UNCHANGED <<store, used, others, log, failures, expired>>

\* The process dies (and is started again), or the rows it has claimed cannot
\* be read: its claims stay.
Crash(w) ==
    /\ workers[w].pc # "idle"
    /\ Fails
    /\ workers' = [workers EXCEPT ![w] = IdleWorker]
    /\ UNCHANGED <<store, used, others, log, expired>>

Expire(i) ==
    /\ log[i] = "claimed"
    /\ log' = [log EXCEPT ![i] = "stale"]
    /\ UNCHANGED <<store, used, others, workers, failures, expired>>

-----------------------------------------------------------------------------
ExtractionInit ==
    /\ InitStore
    /\ InitOutcomes
    /\ InitSweeps
    /\ log = [i \in Ids |-> "none"]
    /\ workers = [w \in Workers |-> IdleWorker]
    /\ failures = 0
    /\ expired = {}

WorkerNext(w) ==
    \/ Clean(w)
    \/ Claim(w)
    \/ Take(w)
    \/ Answer(w)
    \/ AskFails(w)
    \/ Find(w)
    \/ ReinforceFound(w)
    \/ \E new \in Ids : CreateExtracted(w, new)
    \/ TripleFails(w)
    \/ Mark(w)
    \/ MarkFails(w)
    \/ Finish(w)
    \/ Crash(w)

ExtractionNext ==
    \/ IngestionNext /\ Cascaded /\ UNCHANGED <<sweeps, faults, workers, failures, expired>>
    \/ DecayNext /\ Cascaded /\ UNCHANGED <<outcomes, workers, failures, expired>>
    \/ \E w \in Workers : WorkerNext(w)
    \/ \E i \in Ids : Expire(i)

ExtractionSpec == ExtractionInit /\ [][ExtractionNext]_exVars

\* The scheduler of a daemon keeps ticking, and the clock runs.
ExtractionFairSpec ==
    /\ ExtractionSpec
    /\ \A w \in Workers : WF_exVars(WorkerNext(w))
    /\ \A i \in Ids : WF_exVars(Expire(i))

-----------------------------------------------------------------------------
Held(w) == workers[w].batch \cup ({workers[w].at} \ {NoId})

\* Two workers never have the same episode in hand, unless its claim turned
\* an hour old under the first and was freed.
ClaimExclusive ==
    \A v, w \in Workers : v # w => Held(v) \cap Held(w) \subseteq expired

\* An episode that is extracted is never claimed again, whatever workers with
\* a stale claim to it still do.
DoneStays ==
    [][\A i \in Ids : log[i] = "done" /\ Exists(store, i)' => log'[i] = "done"]_exVars

\* A worker alone never writes one triple twice.
TriplesDistinct ==
    \A i, j \in OfType(store, "semantic") : store[i].fact = store[j].fact => i = j

\* Every episode is extracted in the end or deleted, although the LLM and the
\* database fail and the daemon crashes with claims in hand.
EpisodesExtracted ==
    \A i \in Ids :
        (Exists(store, i) /\ store[i].type = "episodic")
            ~> (~Exists(store, i) \/ log[i] = "done")
=============================================================================
