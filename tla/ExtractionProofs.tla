-------------------------- MODULE ExtractionProofs --------------------------
(***************************************************************************)
(* Theorems of module Extraction, for every value of its constants: any    *)
(* number of workers, episodes, failures and crashes.  A claim does not    *)
(* say whose it is, so exclusion is not local to a step: the invariant     *)
(* says that what a worker has in hand is still claimed, was freed as      *)
(* stale, or is gone.                                                      *)
(***************************************************************************)
EXTENDS Extraction, ServiceProofs

\* What a worker has in hand is neither unclaimed nor done, unless it was
\* freed or deleted, and it is either the episode under way or still to come.
HeldTracked ==
    \A w \in Workers :
        /\ workers[w].at \notin workers[w].batch
        /\ \A i \in Held(w) :
             /\ i \in used
             /\ i \in expired \/ log[i] \in {"claimed", "stale"} \/ ~Exists(store, i)

\* A worker that writes has a triple to write.
Writing == \A w \in Workers : workers[w].pc = "write" => workers[w].fact \in Facts

QueueInv ==
    /\ ExtractionTypeOK
    /\ OutcomesTypeOK
    /\ SweepsTypeOK
    /\ Agree
    /\ Writing
    /\ HeldTracked
    /\ ClaimExclusive

-----------------------------------------------------------------------------
(* Lemmas on one step.                                                     *)

\* If no worker gets a new episode and an episode leaves the claimed states
\* only when it is freed, deleted or let go by its worker, what is in hand
\* stays tracked and exclusive.
LEMMA HeldStep ==
    ASSUME QueueInv, Evolves, expired \subseteq expired',
           \A v \in Workers :
               Held(v)' \subseteq Held(v) /\ workers'[v].at \notin workers'[v].batch,
           \A i \in Ids :
               \/ log'[i] = log[i]
               \/ log'[i] \in {"claimed", "stale"}
               \/ i \in expired'
               \/ ~Exists(store', i)
               \/ \E w \in Workers : i \in Held(w) /\ i \notin Held(w)'
    PROVE  HeldTracked' /\ ClaimExclusive'
<1> USE DEF QueueInv
<1>1. PICK N \in SUBSET (Ids \ used) : Grown(store, store', N) /\ used' = used \cup N
  BY DEF Evolves
<1>2. ASSUME NEW v \in Workers, NEW i \in Held(v)'
      PROVE  /\ i \in used'
             /\ i \in expired' \/ log'[i] \in {"claimed", "stale"} \/ ~Exists(store', i)
  <2>1. i \in Held(v) /\ i \in used /\ i \in Ids
    BY <1>2 DEF HeldTracked, ExtractionTypeOK, StoreTypeOK
  <2>2. i \in expired \/ log[i] \in {"claimed", "stale"} \/ ~Exists(store, i)
    BY <2>1 DEF HeldTracked
  <2>3. ~Exists(store, i) => ~Exists(store', i)
    BY <1>1, <2>1 DEF Grown
  <2>4. ASSUME NEW w \in Workers, i \in Held(w), i \notin Held(w)'
        PROVE  i \in expired'
    <3>1. v # w
      BY <1>2, <2>4
    <3> QED BY <2>1, <2>4, <3>1 DEF ClaimExclusive
  <2> QED BY <1>1, <2>1, <2>2, <2>3, <2>4
<1>3. HeldTracked'
  BY <1>2 DEF HeldTracked
<1>4. ClaimExclusive'
  BY DEF ClaimExclusive
<1> QED BY <1>3, <1>4

\* The queue has rows of episodes only, as long as new rows are made for
\* episodes and rows of what is deleted go.
LEMMA RowsStep ==
    ASSUME QueueInv, Evolves,
           \A i \in Ids : log'[i] # "none" =>
               /\ Exists(store', i)
               /\ log[i] # "none" \/ i \in OfType(store, "episodic")
    PROVE  \A i \in Ids : log'[i] # "none" => i \in OfType(store', "episodic")
<1> USE DEF QueueInv
<1>1. PICK N \in SUBSET (Ids \ used) : Grown(store, store', N) /\ used' = used \cup N
  BY DEF Evolves
<1>2. SUFFICES ASSUME NEW i \in Ids, log'[i] # "none"
               PROVE  i \in OfType(store', "episodic")
  OBVIOUS
<1>3. i \in OfType(store, "episodic")
  BY <1>2 DEF ExtractionTypeOK
<1>4. i \in used
  BY <1>3 DEF OfType, Agree, UsedCovers
<1>5. Exists(store', i) /\ SameContent(store[i], store'[i])
  BY <1>1, <1>2, <1>4 DEF Grown
<1> QED BY <1>3, <1>5 DEF OfType, Live, SameContent

\* Ingestion and the sweeps, with the cascade: the workers go on as before.
LEMMA CascadedStep ==
    ASSUME QueueInv, Evolves, StoreTypeOK', Cascaded, UNCHANGED <<workers, failures, expired>>
    PROVE  ExtractionTypeOK' /\ Writing' /\ HeldTracked' /\ ClaimExclusive'
<1> USE DEF QueueInv
<1>1. \A i \in Ids : log'[i] = (IF Exists(store', i) THEN log[i] ELSE "none")
  BY DEF Cascaded
<1>2. log' \in [Ids -> LogState]
  BY DEF Cascaded, ExtractionTypeOK, LogState
<1>3. \A i \in Ids : log'[i] # "none" => i \in OfType(store', "episodic")
  BY <1>1, RowsStep
<1>4. ExtractionTypeOK'
  BY <1>2, <1>3 DEF ExtractionTypeOK
<1>5. \A v \in Workers : Held(v)' = Held(v) /\ workers'[v].at \notin workers'[v].batch
  BY DEF Held, HeldTracked
<1>6. HeldTracked' /\ ClaimExclusive'
  BY <1>1, <1>5, HeldStep
<1>7. Writing'
  BY DEF Writing
<1> QED BY <1>4, <1>6, <1>7

-----------------------------------------------------------------------------
(* The workers.                                                            *)

\* What the extractor creates is a record.
LEMMA ExtractedType ==
    ASSUME NEW f \in Facts, NEW i \in Ids
    PROVE  Extracted(f, i) \in Record
<1>1. {Rel("derived_from", i)} \in SUBSET Relation
  BY DEF Rel, Relation, Predicate
<1>2. IngestedRecord("semantic", f) \in Record
  BY RecordStoreAssumption
  DEF IngestedRecord, Record, MemoryType, Salience, DeletionPolicy, Outcome,
      RevisionStatus, AuditAction
<1> QED BY <1>1, <1>2, RecordRelations DEF Extracted

\* What a worker writes to the store makes records grow and deletes none.
LEMMA WorkerStore ==
    ASSUME QueueInv, NEW w \in Workers, WorkerNext(w)
    PROVE  /\ Evolves
           /\ StoreTypeOK'
           /\ \A i \in Ids : Exists(store, i) => Exists(store', i)
<1> USE DEF QueueInv, ExtractionTypeOK, StoreTypeOK
<1>1. CASE UNCHANGED <<store, used>>
  BY <1>1, GrownSame, EvolvesKept
<1>2. CASE ReinforceFound(w)
  <2> DEFINE i == workers[w].hit
             t == UpdateRecord(store, i, Reinforced(store[i]))
  <2>1. CASE Exists(store, i)
    <3>1. i \in Ids
      BY <1>2 DEF ReinforceFound, WorkerType
    <3>2. store[i] \in Record
      BY <2>1, <3>1, ExistsRecord
    <3>3. Reinforced(store[i]) \in Record /\ SameContent(store[i], Reinforced(store[i]))
      BY <3>2, ReinforcedType, ReinforcedContent
    <3>4. store' = AddAuditEntry(t, i, "reinforce") /\ used' = used
      BY <1>2, <2>1 DEF ReinforceFound
    <3>5. Grown(store, store', {}) /\ store' \in StoreType
      BY <2>1, <3>1, <3>3, <3>4, GrownAudited DEF AuditAction
    <3>6. t \in StoreType /\ \A j \in Ids : Exists(t, j) <=> Exists(store, j)
      BY <2>1, <3>1, <3>3, UpdateRecordType, UpdateRecordExists
    <3> HIDE DEF t
    <3>7. \A j \in Ids : Exists(store', j) <=> Exists(t, j)
      BY <2>1, <3>1, <3>4, <3>6, AddAuditEntryExists DEF AuditAction
    <3> QED BY <3>4, <3>5, <3>6, <3>7, EvolvesKept
  <2>2. CASE ~Exists(store, i)
    BY <1>1, <1>2, <2>2 DEF ReinforceFound
  <2> QED BY <2>1, <2>2
<1>3. ASSUME NEW new \in Ids, CreateExtracted(w, new)
      PROVE  /\ Evolves
             /\ StoreTypeOK'
             /\ \A i \in Ids : Exists(store, i) => Exists(store', i)
  <2> DEFINE r == Extracted(workers[w].fact, workers[w].at)
  <2>1. CASE TargetsExist(store, r)
    <3>1. Fresh(new) /\ store' = CreateRecord(store, new, r) /\ used' = used \cup {new}
      BY <1>3, <2>1 DEF CreateExtracted
    <3>2. workers[w].at \in Ids /\ workers[w].fact \in Facts
      BY <1>3 DEF CreateExtracted, WorkerType, Writing
    <3>3. r \in Record
      BY <3>2, ExtractedType
    <3> HIDE DEF r
    <3>4. Evolves
      BY <3>1, GrownSame, EvolvesCreate
    <3>5. store' \in StoreType
      BY <3>1, <3>3, CreateRecordType
    <3>6. \A i \in Ids : Exists(store, i) => Exists(store', i)
      BY <3>1, <3>3, RecordExists DEF CreateRecord, StoreType, Exists
    <3> QED BY <3>1, <3>4, <3>5, <3>6
  <2>2. CASE ~TargetsExist(store, r)
    BY <1>1, <1>3, <2>2 DEF CreateExtracted
  <2> QED BY <2>1, <2>2
<1> QED BY <1>1, <1>2, <1>3
        DEF WorkerNext, Clean, Free, Claim, Take, Answer, AskFails, Find, TripleFails,
            Mark, MarkFails, Finish, Crash

\* The state of a worker that is in order, and what it has in hand.
Row(x) ==
    /\ x \in WorkerType
    /\ x.pc \in {"ask", "upsert", "write"} <=> x.at # NoId
    /\ x.pc = "write" => x.fact \in Facts
    /\ x.at \notin x.batch

InHand(x) == x.batch \cup ({x.at} \ {NoId})

\* Every worker is in order.
LEMMA RowNow ==
    ASSUME QueueInv, NEW w \in Workers
    PROVE  Row(workers[w]) /\ Held(w) = InHand(workers[w])
BY DEF QueueInv, ExtractionTypeOK, Writing, HeldTracked, Row, Held, InHand

\* One worker changes its state to x.
LEMMA RowStep ==
    ASSUME QueueInv, NEW w \in Workers, NEW x, Row(x), workers' = [workers EXCEPT ![w] = x]
    PROVE  /\ workers' \in [Workers -> WorkerType]
           /\ \A v \in Workers : Row(workers'[v])
           /\ Writing'
           /\ Held(w)' = InHand(x)
           /\ \A v \in Workers \ {w} : Held(v)' = Held(v)
<1>1. workers \in [Workers -> WorkerType] /\ \A v \in Workers : Row(workers[v])
  BY RowNow DEF QueueInv, ExtractionTypeOK
<1>2. workers'[w] = x /\ \A v \in Workers \ {w} : workers'[v] = workers[v]
  BY <1>1
<1>3. workers' \in [Workers -> WorkerType] /\ \A v \in Workers : Row(workers'[v])
  BY <1>1, <1>2 DEF Row
<1>4. Writing'
  BY <1>3 DEF Row, Writing
<1>5. Held(w)' = InHand(x) /\ \A v \in Workers \ {w} : Held(v)' = Held(v)
  BY <1>2 DEF Held, InHand
<1> QED BY <1>3, <1>4, <1>5

\* A worker that takes nothing new in hand, and frees or finishes only what
\* it lets go, keeps the invariant.
LEMMA WorkerStep ==
    ASSUME QueueInv, Evolves, StoreTypeOK', NEW w \in Workers, NEW x, Row(x),
           workers' = [workers EXCEPT ![w] = x], InHand(x) \subseteq Held(w),
           \A i \in Ids : Exists(store, i) => Exists(store', i),
           log' \in [Ids -> LogState], failures' \in 0 .. MaxFailures,
           expired \subseteq expired', expired' \subseteq Ids,
           \A i \in Ids :
               \/ log'[i] = log[i]
               \/ log'[i] = "none" /\ i \in expired'
               \/ /\ log'[i] = "none" \/ log[i] # "none"
                  /\ i \in Held(w) /\ i \notin InHand(x)
    PROVE  ExtractionTypeOK' /\ Writing' /\ HeldTracked' /\ ClaimExclusive'
<1>1. /\ workers' \in [Workers -> WorkerType]
      /\ \A v \in Workers : Row(workers'[v])
      /\ Writing'
      /\ Held(w)' = InHand(x)
      /\ \A v \in Workers \ {w} : Held(v)' = Held(v)
  BY RowStep
<1>2. \A v \in Workers : Held(v)' \subseteq Held(v) /\ workers'[v].at \notin workers'[v].batch
  BY <1>1 DEF Row
<1>3. \A i \in Ids :
          \/ log'[i] = log[i]
          \/ i \in expired'
          \/ \E v \in Workers : i \in Held(v) /\ i \notin Held(v)'
  BY <1>1
<1>4. HeldTracked' /\ ClaimExclusive'
  BY <1>2, <1>3, HeldStep
<1>5. \A i \in Ids : log[i] # "none" => Exists(store', i)
  BY DEF QueueInv, ExtractionTypeOK, OfType, Live
<1>6. \A i \in Ids : log'[i] # "none" => i \in OfType(store', "episodic")
  BY <1>5, RowsStep
<1>7. ExtractionTypeOK'
  BY <1>1, <1>6 DEF ExtractionTypeOK, Row
<1> QED BY <1>1, <1>4, <1>7

\* The claim: what a worker takes in hand was unclaimed, so whoever still has
\* it in hand lost it when its claim was freed as stale.
LEMMA ClaimStep ==
    ASSUME QueueInv, NEW w \in Workers, Claim(w)
    PROVE  ExtractionTypeOK' /\ Writing' /\ HeldTracked' /\ ClaimExclusive'
<1> USE DEF QueueInv
<1>1. PICK batch \in SUBSET Unclaimed :
        /\ log' = [i \in Ids |-> IF i \in batch THEN "claimed" ELSE log[i]]
        /\ workers' = [workers EXCEPT ![w].pc = "batch", ![w].batch = batch]
  BY DEF Claim
<1>2. UNCHANGED <<store, used, failures, expired>> /\ workers[w].pc = "claim"
  BY DEF Claim
<1>3. batch \subseteq OfType(store, "episodic") /\ \A i \in batch : log[i] = "none"
  BY DEF Unclaimed
<1>4. batch \subseteq Ids /\ batch \subseteq used /\ \A i \in batch : Exists(store, i)
  BY <1>3 DEF OfType, Live, Agree, UsedCovers
<1> DEFINE x == [workers[w] EXCEPT !.pc = "batch", !.batch = batch]
<1>5. workers[w] \in WorkerType /\ workers[w].at = NoId
  BY <1>2 DEF ExtractionTypeOK
<1>6. x \in WorkerType /\ x.pc = "batch" /\ x.at = NoId /\ x.batch = batch
  BY <1>4, <1>5 DEF WorkerType
<1>7. Row(x) /\ InHand(x) = batch
  BY <1>4, <1>6, RecordStoreAssumption DEF Row, InHand
<1>8. workers' = [workers EXCEPT ![w] = x]
  BY <1>1
<1> HIDE DEF x
<1>9. /\ workers' \in [Workers -> WorkerType]
      /\ \A v \in Workers : Row(workers'[v])
      /\ Writing'
      /\ Held(w)' = batch
      /\ \A v \in Workers \ {w} : Held(v)' = Held(v)
  BY <1>7, <1>8, RowStep
<1>10. ASSUME NEW v \in Workers \ {w}, NEW i \in Held(v), i \in batch
       PROVE  i \in expired
  BY <1>3, <1>4, <1>10 DEF HeldTracked
<1>11. ClaimExclusive'
  BY <1>2, <1>9, <1>10 DEF ClaimExclusive
<1>12. \A i \in Ids : log'[i] = IF i \in batch THEN "claimed" ELSE log[i]
  BY <1>1
<1>13. ASSUME NEW v \in Workers, NEW i \in Held(v)'
       PROVE  /\ i \in used'
              /\ i \in expired' \/ log'[i] \in {"claimed", "stale"} \/ ~Exists(store', i)
  <2>1. CASE v = w
    BY <1>2, <1>4, <1>9, <1>12, <1>13, <2>1
  <2>2. CASE v # w
    <3>1. i \in Held(v) /\ i \in Ids
      BY <1>9, <1>13, <2>2 DEF HeldTracked, ExtractionTypeOK, StoreTypeOK
    <3> QED BY <1>2, <1>12, <3>1 DEF HeldTracked
  <2> QED BY <2>1, <2>2
<1>14. HeldTracked'
  BY <1>9, <1>13 DEF HeldTracked, Row
<1>15. log' \in [Ids -> LogState]
  BY <1>1 DEF ExtractionTypeOK, LogState
<1>16. \A i \in Ids : log'[i] # "none" => i \in OfType(store', "episodic")
  BY <1>2, <1>3, <1>12 DEF ExtractionTypeOK, OfType, Live, Exists
<1>17. ExtractionTypeOK'
  BY <1>2, <1>9, <1>15, <1>16 DEF ExtractionTypeOK, StoreTypeOK, Row
<1> QED BY <1>9, <1>11, <1>14, <1>17

\* Every other step of a worker.
LEMMA WorkerKeeps ==
    ASSUME QueueInv, NEW w \in Workers, WorkerNext(w)
    PROVE  ExtractionTypeOK' /\ Writing' /\ HeldTracked' /\ ClaimExclusive'
<1> DEFINE W == workers[w]
<1>1. /\ W \in WorkerType
      /\ workers \in [Workers -> WorkerType]
      /\ Row(W)
      /\ Held(w) = InHand(W)
  BY RowNow DEF QueueInv, ExtractionTypeOK
<1>2. /\ Evolves
      /\ StoreTypeOK'
      /\ \A i \in Ids : Exists(store, i) => Exists(store', i)
  BY WorkerStore
<1>3. log \in [Ids -> LogState] /\ failures \in 0 .. MaxFailures /\ expired \subseteq Ids
  BY DEF QueueInv, ExtractionTypeOK
<1>4. Fails => failures' \in 0 .. MaxFailures
  BY <1>3, ExtractionAssumption DEF Fails
\* Steps that leave the queue alone.
<1>5. ASSUME NEW x, Row(x), InHand(x) \subseteq InHand(W), workers' = [workers EXCEPT ![w] = x],
             UNCHANGED <<log, expired>>, failures' \in 0 .. MaxFailures
      PROVE  ExtractionTypeOK' /\ Writing' /\ HeldTracked' /\ ClaimExclusive'
  BY <1>1, <1>2, <1>3, <1>5, WorkerStep
<1> USE RecordStoreAssumption DEF WorkerType, Row, InHand
<1>6. CASE Clean(w)
  <2> DEFINE x == [W EXCEPT !.pc = "claim"]
  <2>1. Row(x) /\ InHand(x) \subseteq Held(w) /\ workers' = [workers EXCEPT ![w] = x]
    BY <1>1, <1>6 DEF Clean, Free
  <2> HIDE DEF x
  <2>2. /\ log' \in [Ids -> LogState]
        /\ \A i \in Ids : log'[i] = log[i] \/ (log'[i] = "none" /\ i \in expired')
        /\ expired \subseteq expired' /\ expired' \subseteq Ids
        /\ failures' = failures
    BY <1>3, <1>6 DEF Clean, Free, LogState
  <2> QED BY <1>2, <1>3, <2>1, <2>2, WorkerStep
<1>7. CASE Take(w)
  <2>1. PICK i \in W.batch :
          workers' = [workers EXCEPT ![w] =
             IF ~Exists(store, i)
             THEN [workers[w] EXCEPT !.batch = workers[w].batch \ {i}]
             ELSE [workers[w] EXCEPT
                     !.batch = workers[w].batch \ {i},
                     !.at = i,
                     !.pc = IF store[i].fact \in Silent /\ store[i].outcome = "none"
                            THEN "upsert" ELSE "ask"]]
    BY <1>7 DEF Take
  <2> DEFINE pc == IF store[i].fact \in Silent /\ store[i].outcome = "none"
                   THEN "upsert" ELSE "ask"
             x  == IF ~Exists(store, i) THEN [W EXCEPT !.batch = W.batch \ {i}]
                   ELSE [W EXCEPT !.batch = W.batch \ {i}, !.at = i, !.pc = pc]
  <2>2. workers' = [workers EXCEPT ![w] = x]
    BY <2>1
  <2>3. pc \in {"upsert", "ask"} /\ i \in Ids /\ W.pc = "batch"
    BY <1>1, <1>7 DEF Take
  <2> HIDE DEF pc
  <2>4. Row(x) /\ InHand(x) \subseteq InHand(W)
    BY <1>1, <2>3
  <2> QED BY <1>3, <1>5, <1>7, <2>2, <2>4 DEF Take
<1>8. CASE Answer(w)
  <2>1. PICK triples \in SUBSET Facts :
          workers' = [workers EXCEPT ![w].pc = "upsert", ![w].todo = triples]
    BY <1>8 DEF Answer
  <2> DEFINE x == [W EXCEPT !.pc = "upsert", !.todo = triples]
  <2>2. Row(x) /\ InHand(x) \subseteq InHand(W) /\ workers' = [workers EXCEPT ![w] = x]
    BY <1>1, <1>8, <2>1 DEF Answer
  <2> QED BY <1>3, <1>5, <1>8, <2>2 DEF Answer
<1>9. CASE Find(w)
  <2>1. PICK f \in W.todo : \E hit \in Ids \cup {NoId} :
          workers' = [workers EXCEPT ![w].pc = "write", ![w].todo = workers[w].todo \ {f},
                                     ![w].fact = f, ![w].hit = hit]
    BY <1>9 DEF Find, OfType, Live
  <2>2. PICK hit \in Ids \cup {NoId} :
          workers' = [workers EXCEPT ![w].pc = "write", ![w].todo = workers[w].todo \ {f},
                                     ![w].fact = f, ![w].hit = hit]
    BY <2>1
  <2> DEFINE x == [W EXCEPT !.pc = "write", !.todo = W.todo \ {f}, !.fact = f, !.hit = hit]
  <2>3. Row(x) /\ InHand(x) \subseteq InHand(W) /\ workers' = [workers EXCEPT ![w] = x]
    BY <1>1, <1>9, <2>2 DEF Find
  <2> QED BY <1>3, <1>5, <1>9, <2>3 DEF Find
<1>10. ASSUME NEW ok \in BOOLEAN, W.pc = "write", Wrote(w, ok),
              UNCHANGED <<log, expired>>, failures' \in 0 .. MaxFailures
       PROVE  ExtractionTypeOK' /\ Writing' /\ HeldTracked' /\ ClaimExclusive'
  <2> DEFINE x == [W EXCEPT !.pc = "upsert", !.fact = NoId, !.hit = NoId,
                            !.failed = W.failed \/ ~ok]
  <2>1. (W.failed \/ ~ok) \in BOOLEAN
    BY <1>1
  <2>2. Row(x) /\ InHand(x) \subseteq InHand(W) /\ workers' = [workers EXCEPT ![w] = x]
    BY <1>1, <1>10, <2>1 DEF Wrote
  <2> QED BY <1>5, <1>10, <2>2
<1>11. CASE ReinforceFound(w)
  BY <1>3, <1>10, <1>11 DEF ReinforceFound
<1>12. ASSUME NEW new \in Ids, CreateExtracted(w, new)
       PROVE  ExtractionTypeOK' /\ Writing' /\ HeldTracked' /\ ClaimExclusive'
  BY <1>3, <1>10, <1>12 DEF CreateExtracted
<1>13. CASE TripleFails(w)
  BY <1>3, <1>4, <1>10, <1>13 DEF TripleFails
<1>14. Onward(w) = [IdleWorker EXCEPT !.pc = "batch", !.batch = W.batch]
  BY DEF Onward
<1>15. ASSUME NEW batch \in SUBSET W.batch
       PROVE  /\ Row([Onward(w) EXCEPT !.batch = batch])
              /\ InHand([Onward(w) EXCEPT !.batch = batch]) = batch
  BY <1>1, <1>14, <1>15 DEF IdleWorker
<1>16. [Onward(w) EXCEPT !.batch = W.batch] = Onward(w)
  BY <1>14 DEF IdleWorker
<1>17. CASE Mark(w)
  <2>1. Row(Onward(w)) /\ InHand(Onward(w)) = W.batch
    BY <1>15, <1>16
  <2>2. W.at \in Ids /\ W.at \in Held(w) /\ W.at \notin W.batch
    BY <1>1, <1>17 DEF Mark
  <2>3. /\ log' = [log EXCEPT ![W.at] = IF log[W.at] = "none" THEN "none" ELSE "done"]
        /\ workers' = [workers EXCEPT ![w] = Onward(w)]
        /\ UNCHANGED <<failures, expired>>
    BY <1>17 DEF Mark
  <2>4. /\ log' \in [Ids -> LogState]
        /\ \A i \in Ids : log'[i] = log[i] \/ (log[i] # "none" /\ i = W.at)
    BY <1>3, <2>2, <2>3 DEF LogState
  <2>5. InHand(Onward(w)) \subseteq Held(w)
    BY <1>1, <2>1
  <2> HIDE DEF Row, InHand
  <2> QED BY <1>2, <1>3, <2>1, <2>2, <2>3, <2>4, <2>5, WorkerStep
<1>18. CASE MarkFails(w)
  <2>1. Row(Onward(w)) /\ InHand(Onward(w)) = W.batch
    BY <1>15, <1>16
  <2> QED BY <1>4, <1>5, <1>18, <2>1 DEF MarkFails
<1>19. CASE AskFails(w)
  <2>1. PICK i \in (CASE W.pc = "batch" -> W.batch [] W.pc = "ask" -> {W.at} [] OTHER -> {}) :
          /\ log' \in {log, Released(i)}
          /\ workers' = [workers EXCEPT ![w] = [Onward(w) EXCEPT !.batch = workers[w].batch \ {i}]]
    BY <1>19 DEF AskFails
  <2> DEFINE x == [Onward(w) EXCEPT !.batch = W.batch \ {i}]
  <2>2. i \in Held(w) /\ i \in Ids
    BY <1>1, <2>1
  <2> HIDE DEF Row, InHand
  <2>3. Row(x) /\ InHand(x) = W.batch \ {i} /\ workers' = [workers EXCEPT ![w] = x]
    <3>1. W.batch \ {i} \in SUBSET W.batch
      OBVIOUS
    <3> QED BY <1>15, <2>1, <3>1
  <2> HIDE DEF x
  <2>4. /\ log' \in [Ids -> LogState]
        /\ \A j \in Ids : log'[j] = log[j] \/ (log'[j] = "none" /\ j = i)
    BY <1>3, <2>1, <2>2 DEF Released, LogState
  <2>5. expired' = expired /\ failures' \in 0 .. MaxFailures
    BY <1>4, <1>19 DEF AskFails
  <2>6. InHand(x) \subseteq Held(w) /\ i \notin InHand(x)
    BY <1>1, <2>1, <2>3 DEF InHand
  <2> QED BY <1>2, <1>3, <2>2, <2>3, <2>4, <2>5, <2>6, WorkerStep
<1>20. Row(IdleWorker) /\ InHand(IdleWorker) = {}
  BY DEF IdleWorker
<1>21. CASE Finish(w)
  BY <1>3, <1>5, <1>20, <1>21 DEF Finish
<1>22. CASE Crash(w)
  BY <1>4, <1>5, <1>20, <1>22 DEF Crash
<1> QED BY <1>6, <1>7, <1>8, <1>9, <1>11, <1>12, <1>13, <1>17, <1>18, <1>19, <1>21, <1>22,
           ClaimStep DEF WorkerNext

\* The clock turns a claim stale.
LEMMA ExpireKeeps ==
    ASSUME QueueInv, NEW i \in Ids, Expire(i)
    PROVE  ExtractionTypeOK' /\ Writing' /\ HeldTracked' /\ ClaimExclusive'
<1>1. UNCHANGED <<store, used, workers, failures, expired>> /\ log[i] = "claimed"
  BY DEF Expire
<1>2. /\ log' \in [Ids -> LogState]
      /\ \A j \in Ids : log'[j] = log[j] \/ (j = i /\ log'[j] = "stale")
  BY DEF Expire, QueueInv, ExtractionTypeOK, LogState
<1>3. ExtractionTypeOK' /\ Writing' /\ ClaimExclusive'
  BY <1>1, <1>2 DEF QueueInv, ExtractionTypeOK, StoreTypeOK, Writing, ClaimExclusive, Held,
                    OfType, Live, Exists
<1>4. HeldTracked'
  BY <1>1, <1>2 DEF QueueInv, HeldTracked, Held, Exists, ExtractionTypeOK, StoreTypeOK
<1> QED BY <1>3, <1>4

-----------------------------------------------------------------------------
(* The invariant and the theorems.                                         *)

\* The agreement of pending outcomes and listed deletions with the store
\* (ServiceProofs) survives the extractor as well.
LEMMA ExtractionEvolves ==
    ASSUME QueueInv, [ExtractionNext]_exVars
    PROVE  Evolves /\ StoreTypeOK' /\ Agree'
<1> USE DEF QueueInv
<1>1. CASE IngestionNext /\ Cascaded /\ UNCHANGED <<sweeps, faults, workers, failures, expired>>
  <2>1. Evolves /\ StoreTypeOK' /\ OutcomesTypeOK'
    BY <1>1, OutcomeEvolves, IngestionTypes DEF ExtractionTypeOK
  <2>2. SweepsTypeOK' /\ UNCHANGED sweeps
    BY <1>1 DEF SweepsTypeOK
  <2> QED BY <1>1, <2>1, <2>2, AgreeStep
<1>2. CASE DecayNext /\ Cascaded /\ UNCHANGED <<outcomes, workers, failures, expired>>
  <2>1. Evolves /\ StoreTypeOK' /\ SweepsTypeOK'
    BY <1>2, DecayEvolves, DecayTypes DEF ExtractionTypeOK
  <2>2. OutcomesTypeOK' /\ UNCHANGED outcomes
    BY <1>2 DEF OutcomesTypeOK
  <2> QED BY <1>2, <2>1, <2>2, AgreeStep
<1>3. ASSUME Evolves, StoreTypeOK', UNCHANGED others
      PROVE  Evolves /\ StoreTypeOK' /\ Agree'
  <2>1. OutcomesTypeOK' /\ SweepsTypeOK' /\ UNCHANGED <<outcomes, sweeps>>
    BY <1>3 DEF others, OutcomesTypeOK, SweepsTypeOK
  <2> QED BY <1>3, <2>1, AgreeStep
<1>4. ASSUME NEW w \in Workers, WorkerNext(w)
      PROVE  Evolves /\ StoreTypeOK' /\ Agree'
  <2>1. UNCHANGED others
    BY <1>4 DEF WorkerNext, Clean, Free, Claim, Take, Answer, AskFails, Find, ReinforceFound,
                CreateExtracted, TripleFails, Mark, MarkFails, Finish, Crash
  <2> QED BY <1>3, <1>4, <2>1, WorkerStore
<1>5. ASSUME UNCHANGED <<store, used, others>>
      PROVE  Evolves /\ StoreTypeOK' /\ Agree'
  BY <1>3, <1>5, GrownSame, EvolvesKept DEF ExtractionTypeOK, StoreTypeOK
<1> QED BY <1>1, <1>2, <1>4, <1>5 DEF ExtractionNext, Expire, exVars, others

\* A step keeps the invariant.
LEMMA QueueStep ==
    ASSUME QueueInv, [ExtractionNext]_exVars
    PROVE  QueueInv'
<1>1. Evolves /\ StoreTypeOK' /\ Agree'
  BY ExtractionEvolves
<1>2. OutcomesTypeOK' /\ SweepsTypeOK'
  BY <1>1 DEF Agree
<1>3. CASE UNCHANGED exVars
  BY <1>3 DEF exVars, QueueInv, ExtractionTypeOK, StoreTypeOK, OutcomesTypeOK, SweepsTypeOK,
              Agree, UsedCovers, PendingAgrees, PruneListed, Writing, HeldTracked,
              ClaimExclusive, Held, OfType, Live, Exists
<1>4. CASE ExtractionNext
  <2>1. ExtractionTypeOK' /\ Writing' /\ HeldTracked' /\ ClaimExclusive'
    BY <1>1, <1>4, CascadedStep, WorkerKeeps, ExpireKeeps DEF ExtractionNext
  <2> QED BY <1>1, <1>2, <2>1 DEF QueueInv
<1> QED BY <1>3, <1>4

\* The invariant holds of every behaviour.
THEOREM QueueInvHolds == ExtractionSpec => []QueueInv
<1>1. ExtractionInit => QueueInv
  <2> SUFFICES ASSUME ExtractionInit  PROVE QueueInv
    OBVIOUS
  <2> USE DEF ExtractionInit, InitStore, InitOutcomes, InitSweeps
  <2>1. StoreTypeOK /\ OutcomesTypeOK /\ SweepsTypeOK
    BY DecayAssumption
    DEF StoreTypeOK, StoreType, OutcomesTypeOK, SweepsTypeOK, SweepType, IdleSweep
  <2>2. Agree
    BY <2>1 DEF Agree, UsedCovers, PendingAgrees, PruneListed, Live, Exists, IdleSweep
  <2>3. ExtractionTypeOK
    BY <2>1, ExtractionAssumption DEF ExtractionTypeOK, WorkerType, IdleWorker, LogState
  <2>4. \A w \in Workers : Held(w) = {} /\ workers[w] = IdleWorker
    BY DEF Held, IdleWorker
  <2>5. Writing /\ HeldTracked /\ ClaimExclusive
    BY <2>4 DEF Writing, HeldTracked, ClaimExclusive, IdleWorker
  <2> QED BY <2>1, <2>2, <2>3, <2>5 DEF QueueInv
<1>2. QueueInv /\ [ExtractionNext]_exVars => QueueInv'
  BY QueueStep
<1> QED BY <1>1, <1>2, PTL DEF ExtractionSpec

\* The queue, the workers and the store have their types, and the queue has
\* rows of existing episodes only, whatever is deleted under a worker.
THEOREM QueueTypeCorrect == ExtractionSpec => []ExtractionTypeOK
BY QueueInvHolds, PTL DEF QueueInv

\* However many workers there are and wherever they fail or crash, two have
\* the same episode in hand only after its claim turned an hour old under
\* the first and was freed.
THEOREM ClaimsExclude == ExtractionSpec => []ClaimExclusive
BY QueueInvHolds, PTL DEF QueueInv

\* No release, claim, clean-up or late mark takes the extracted mark from an
\* episode that exists.
THEOREM ExtractedForGood == ExtractionSpec => DoneStays
<1>1. ASSUME QueueInv, [ExtractionNext]_exVars, NEW i \in Ids, log[i] = "done", Exists(store, i)'
      PROVE  log'[i] = "done"
  <2> USE DEF QueueInv, ExtractionTypeOK
  <2>1. CASE Cascaded
    BY <1>1, <2>1 DEF Cascaded
  <2>2. ASSUME NEW w \in Workers, WorkerNext(w)
        PROVE  log'[i] = "done"
    <3>1. CASE Claim(w)
      BY <1>1, <3>1 DEF Claim, Unclaimed
    <3>2. CASE Clean(w)
      BY <1>1, <3>2 DEF Clean, Free
    <3>3. CASE Mark(w)
      BY <1>1, <3>3 DEF Mark
    <3>4. CASE AskFails(w)
      BY <1>1, <3>4 DEF AskFails, Released
    <3>5. CASE UNCHANGED log
      BY <1>1, <3>5
    <3> QED BY <2>2, <3>1, <3>2, <3>3, <3>4, <3>5
            DEF WorkerNext, Take, Answer, Find, ReinforceFound, CreateExtracted, TripleFails,
                MarkFails, Finish, Crash
  <2>3. ASSUME NEW j \in Ids, Expire(j)
        PROVE  log'[i] = "done"
    BY <1>1, <2>3 DEF Expire
  <2>4. CASE UNCHANGED exVars
    BY <1>1, <2>4 DEF exVars
  <2> QED BY <1>1, <2>1, <2>2, <2>3, <2>4 DEF ExtractionNext
<1>2. QueueInv /\ [ExtractionNext]_exVars =>
        \A i \in Ids : log[i] = "done" /\ Exists(store, i)' => log'[i] = "done"
  BY <1>1
<1> QED BY <1>2, QueueInvHolds, PTL DEF ExtractionSpec, DoneStays

-----------------------------------------------------------------------------
(* One worker.  What it has not found when it looked is not there when it  *)
(* writes, since nobody else creates facts.                                *)

\* The extractor of one daemon is the only one to create semantic records.
OnlyExtractor ==
    /\ \A v, w \in Workers : v = w
    /\ \A r \in Ingested : r.type # "semantic"

\* The triple a worker is about to create a record for has none.
Searched ==
    \A w \in Workers :
        workers[w].pc = "write" /\ workers[w].hit = NoId =>
            \A i \in OfType(store, "semantic") : store[i].fact # workers[w].fact

\* Where nothing semantic is created, no semantic record comes or changes its fact.
LEMMA NoneAdded ==
    ASSUME QueueInv, QueueInv', Evolves,
           \A i \in used' \ used : Exists(store', i) => store'[i].type # "semantic"
    PROVE  \A i \in OfType(store', "semantic") :
               i \in OfType(store, "semantic") /\ store'[i].fact = store[i].fact
<1>1. PICK N \in SUBSET (Ids \ used) : Grown(store, store', N) /\ used' = used \cup N
  BY DEF Evolves
<1>2. ASSUME NEW i \in Ids, Exists(store', i), store'[i].type = "semantic"
      PROVE  Exists(store, i) /\ store[i].type = "semantic" /\ store'[i].fact = store[i].fact
  <2>1. i \in used'
    BY <1>2 DEF QueueInv, Agree, UsedCovers, Live, Exists
  <2>2. i \notin N
    BY <1>1, <1>2, <2>1
  <2> QED BY <1>1, <1>2, <2>2 DEF Grown, SameContent
<1> QED BY <1>2 DEF OfType, Live

\* A step keeps both.
LEMMA TriplesStep ==
    ASSUME OnlyExtractor, QueueInv, QueueInv', [ExtractionNext]_exVars, TriplesDistinct, Searched
    PROVE  TriplesDistinct' /\ Searched'
<1>1. Evolves
  BY ExtractionEvolves
<1>2. ASSUME \A i \in used' \ used : Exists(store', i) => store'[i].type # "semantic",
             \A w \in Workers :
                 workers'[w].pc = "write" /\ workers'[w].hit = NoId =>
                     \A i \in OfType(store, "semantic") : store[i].fact # workers'[w].fact
      PROVE  TriplesDistinct' /\ Searched'
  <2>1. \A i \in OfType(store', "semantic") :
            i \in OfType(store, "semantic") /\ store'[i].fact = store[i].fact
    BY <1>1, <1>2, NoneAdded
  <2> QED BY <1>2, <2>1 DEF TriplesDistinct, Searched
<1>3. CASE IngestionNext /\ UNCHANGED workers
  <2>1. ASSUME NEW i \in Ids, NEW r \in Ingested, Ingest(i, r), NEW j \in used' \ used
        PROVE  store'[j].type # "semantic"
    <3>1. j = i
      BY <2>1 DEF Ingest
    <3>2. store' = [store EXCEPT ![i] = r] /\ store \in [Ids -> Record \cup {NoRecord}]
      BY <2>1 DEF Ingest, CreateRecord, QueueInv, ExtractionTypeOK, StoreTypeOK, StoreType
    <3> QED BY <2>1, <3>1, <3>2 DEF OnlyExtractor
  <2>2. (\E i \in Ids, r \in Ingested : Ingest(i, r)) \/ used' = used
    BY <1>3 DEF IngestionNext, OutcomeRead, OutcomeWrite, OutcomeLost, OutcomeTorn
  <2> QED BY <1>2, <1>3, <2>1, <2>2 DEF Searched
<1>4. CASE DecayNext /\ UNCHANGED workers
  <2>1. used' = used
    BY <1>4 DEF DecayNext, Reinforce, Penalize, SweepNext, SweepStart, SweepDecay, SweepList,
                SweepPrune, SweepEnd, SweepNotFound, SweepFault
  <2> QED BY <1>2, <1>4, <2>1 DEF Searched
<1>5. ASSUME NEW w \in Workers, WorkerNext(w)
      PROVE  TriplesDistinct' /\ Searched'
  <2>1. \A v \in Workers : v = w
    BY <1>5 DEF OnlyExtractor
  <2>2. workers \in [Workers -> WorkerType]
    BY DEF QueueInv, ExtractionTypeOK
  <2>3. CASE Find(w)
    <3>1. PICK f \in workers[w].todo :
            LET known == {i \in OfType(store, "semantic") : store[i].fact = f}
            IN  \E hit \in (IF known = {} THEN {NoId} ELSE known) :
                  workers' = [workers EXCEPT ![w].pc = "write",
                                  ![w].todo = workers[w].todo \ {f},
                                  ![w].fact = f, ![w].hit = hit]
      BY <2>3 DEF Find
    <3>2. workers'[w].hit = NoId =>
              \A i \in OfType(store, "semantic") : store[i].fact # workers'[w].fact
      BY <2>2, <3>1, RecordStoreAssumption DEF WorkerType, OfType, Live
    <3>3. used' = used
      BY <2>3 DEF Find
    <3> QED BY <1>2, <2>1, <3>2, <3>3
  <2>4. ASSUME NEW new \in Ids, CreateExtracted(w, new)
        PROVE  TriplesDistinct' /\ Searched'
    <3> DEFINE r == Extracted(workers[w].fact, workers[w].at)
    <3>1. workers'[w].pc = "upsert"
      BY <2>2, <2>4 DEF CreateExtracted, Wrote, WorkerType
    <3>2. CASE TargetsExist(store, r)
      <4>1. /\ store' = [store EXCEPT ![new] = r] /\ ~Exists(store, new)
            /\ store \in [Ids -> Record \cup {NoRecord}]
        BY <2>4, <3>2 DEF CreateExtracted, CreateRecord, QueueInv, ExtractionTypeOK,
                          StoreTypeOK, StoreType, Fresh, Agree, UsedCovers, Live, Exists
      <4>2. r.fact = workers[w].fact
        BY DEF Extracted, IngestedRecord
      <4>3. \A i \in OfType(store, "semantic") : store[i].fact # workers[w].fact
        BY <2>4 DEF Searched, CreateExtracted
      <4> HIDE DEF r
      <4>4. \A i \in OfType(store', "semantic") :
                i = new \/ (i \in OfType(store, "semantic") /\ store'[i] = store[i])
        BY <4>1 DEF OfType, Live, Exists
      <4>5. store'[new] = r
        BY <4>1
      <4>6. TriplesDistinct'
        BY <4>2, <4>3, <4>4, <4>5 DEF TriplesDistinct
      <4>7. Searched'
        BY <2>1, <3>1 DEF Searched
      <4> QED BY <4>6, <4>7
    <3>3. CASE ~TargetsExist(store, r)
      <4>1. used' = used
        BY <2>4, <3>3 DEF CreateExtracted
      <4> QED BY <1>2, <2>1, <3>1, <4>1
    <3> QED BY <3>2, <3>3
  <2>5. \A batch : [Onward(w) EXCEPT !.batch = batch].pc = "batch" /\ Onward(w).pc = "batch"
    BY DEF Onward, IdleWorker
  <2>6. ASSUME used' = used, workers'[w].pc # "write"
        PROVE  TriplesDistinct' /\ Searched'
    BY <1>2, <2>1, <2>6
  <2>7. CASE Clean(w) \/ Claim(w) \/ Take(w) \/ Answer(w) \/ AskFails(w)
    <3>1. used' = used
      BY <2>7 DEF Clean, Free, Claim, Take, Answer, AskFails
    <3>2. workers'[w].pc # "write"
      <4>1. CASE Clean(w)
        BY <2>2, <4>1 DEF Clean, Free
      <4>2. CASE Claim(w)
        BY <2>2, <4>2 DEF Claim
      <4>3. CASE Take(w)
        BY <2>2, <4>3 DEF Take, WorkerType
      <4>4. CASE Answer(w)
        BY <2>2, <4>4 DEF Answer, WorkerType
      <4>5. CASE AskFails(w)
        <5>1. \E i : workers' = [workers EXCEPT ![w] =
                         [Onward(w) EXCEPT !.batch = workers[w].batch \ {i}]]
          BY <4>5 DEF AskFails
        <5> QED BY <2>2, <2>5, <5>1
      <4> QED BY <2>7, <4>1, <4>2, <4>3, <4>4, <4>5
    <3> QED BY <2>6, <3>1, <3>2
  <2>8. CASE ReinforceFound(w) \/ TripleFails(w)
    <3>1. used' = used
      BY <2>8 DEF ReinforceFound, TripleFails
    <3>2. workers'[w].pc = "upsert"
      BY <2>2, <2>8 DEF ReinforceFound, TripleFails, Wrote, WorkerType
    <3> QED BY <2>6, <3>1, <3>2
  <2>9. CASE Mark(w) \/ MarkFails(w) \/ Finish(w) \/ Crash(w)
    <3>1. used' = used
      BY <2>9 DEF Mark, MarkFails, Finish, Crash
    <3>2. workers'[w].pc # "write"
      BY <2>2, <2>9, <2>5 DEF Mark, MarkFails, Finish, Crash, IdleWorker
    <3> QED BY <2>6, <3>1, <3>2
  <2> QED BY <1>5, <2>3, <2>4, <2>7, <2>8, <2>9 DEF WorkerNext
<1>6. CASE UNCHANGED <<store, used, workers>>
  BY <1>6 DEF TriplesDistinct, Searched, OfType, Live, Exists
<1> QED BY <1>3, <1>4, <1>5, <1>6 DEF ExtractionNext, Expire, exVars

\* TriplesDistinct: a daemon whose extractor alone creates facts never stores one triple
\* twice, although the search and the creation are separate transactions with ingestion,
\* sweeps and failures in between.
THEOREM OneWorkerWritesOnce == OnlyExtractor => (ExtractionSpec => []TriplesDistinct)
<1> SUFFICES ASSUME OnlyExtractor  PROVE ExtractionSpec => []TriplesDistinct
  OBVIOUS
<1>1. ExtractionInit => TriplesDistinct /\ Searched
  BY DEF ExtractionInit, InitStore, TriplesDistinct, Searched, OfType, Live, Exists, IdleWorker
<1>2. QueueInv /\ QueueInv' /\ [ExtractionNext]_exVars /\ TriplesDistinct /\ Searched
        => TriplesDistinct' /\ Searched'
  BY TriplesStep
<1> QED BY <1>1, <1>2, QueueInvHolds, PTL DEF ExtractionSpec
=============================================================================
