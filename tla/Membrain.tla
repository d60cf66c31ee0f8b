------------------------------ MODULE Membrain ------------------------------
(***************************************************************************)
(* The memory substrate as a whole: clients that ingest, revise, reinforce *)
(* and penalize, the decay sweeps and the consolidation runs, all on one   *)
(* store (src/membrain/pkg/membrane/membrane.go wires them together).      *)
(* Setting Clients, Drafts, Daemons or Consolidators to the empty set      *)
(* takes the corresponding service out of an instance.                     *)
(***************************************************************************)
EXTENDS Ingestion, Revision, Decay, Consolidation

vars == <<store, used, outcomes, sweeps, faults, runs, breaks>>

Init ==
    /\ InitStore
    /\ InitOutcomes
    /\ InitSweeps
    /\ InitRuns

Next ==
    \/ IngestionNext /\ UNCHANGED <<sweeps, faults, runs, breaks>>
    \/ RevisionNext /\ UNCHANGED <<outcomes, sweeps, faults, runs, breaks>>
    \/ DecayNext /\ UNCHANGED <<outcomes, runs, breaks>>
    \/ ConsolidationNext /\ UNCHANGED <<outcomes, sweeps, faults>>

Spec == Init /\ [][Next]_vars

\* A started scheduler goroutine keeps running and its ticker keeps ticking.
\* Nothing is assumed of the clients.
SchedulerFairness ==
    /\ \A d \in Daemons : WF_vars(SweepNext(d) /\ UNCHANGED <<outcomes, runs, breaks>>)
    /\ \A d \in Consolidators :
         WF_vars(RunNext(d) /\ UNCHANGED <<outcomes, sweeps, faults>>)

FairSpec == Spec /\ SchedulerFairness

-----------------------------------------------------------------------------
\* Every variable has its type.
TypeOK == StoreTypeOK /\ OutcomesTypeOK /\ SweepsTypeOK /\ RunsTypeOK

\* No relation points at a record that is gone: revision links are cut when
\* a sweep deletes the target, and a write-back of a stale record does not
\* bring them back (ON DELETE CASCADE, and the foreign key that refuses it).
RelationsResolve == \A i \in Live(store) : TargetsExist(store, store[i])

\* Revision is auditable: a record that stands retracted, contested or
\* superseded has the audit entry of the revision that made it so, whatever
\* whole-record write-backs came after.
RevisionAudited ==
    \A i \in Live(store) :
        /\ store[i].status = "retracted" =>
               store[i].audit \cap {"revise", "merge", "delete"} # {}
        /\ store[i].status = "contested" => "revise" \in store[i].audit
        /\ store[i].supersededBy # NoId => "revise" \in store[i].audit

\* Both ends of a supersession agree: while both records live, the one named
\* as successor has the "supersedes" relation back, and what has such a
\* relation replaced a record that may be revised and says so in its log.
SupersessionAgrees ==
    \A i, j \in Live(store) :
        /\ store[i].supersededBy = j => Rel("supersedes", i) \in store[j].relations
        /\ Rel("supersedes", i) \in store[j].relations =>
               store[i].type # "episodic" /\ "revise" \in store[i].audit

\* Episodic memory is raw experience: the log of an episode that stands in
\* the store tells of its creation, reinforcement and decay and of no
\* supersession, fork, merge, retraction or contest ("revise", "fork",
\* "merge", "delete"), and nothing contests it.  The entry "revise" that
\* IngestOutcome adds to the record it holds is not stored either.
EpisodicUnrevised ==
    \A i \in OfType(store, "episodic") :
        /\ store[i].audit \subseteq {"create", "reinforce", "decay"}
        /\ \A rel \in store[i].relations : rel.predicate # "contested_by"

\* A fact always has evidence, whichever service created it.
FactsHaveEvidence == \A i \in OfType(store, "semantic") : store[i].evidence

\* The audit log of a record only grows, also when IngestOutcome writes back
\* a record it read before other services added entries.
AuditAppendOnly ==
    [][\A i \in Live(store) : Exists(store, i)' => store[i].audit \subseteq store'[i].audit]_vars

\* No sweep, however stale its list, deletes a pinned record or one whose
\* deletion policy is not auto_prune.
ProtectedSurvive ==
    [][\A i \in Live(store) :
          store[i].pinned \/ store[i].policy # "auto_prune" => Exists(store, i)']_vars

\* What a record is and says never changes under an id, nor does its
\* profile: revisions make new records.
ContentImmutable ==
    [][\A i \in Live(store) :
          Exists(store, i)' =>
              /\ store'[i].type = store[i].type
              /\ store'[i].fact = store[i].fact
              /\ store'[i].pinned = store[i].pinned
              /\ store'[i].policy = store[i].policy
              /\ store'[i].supersedes = store[i].supersedes]_vars

\* What was deleted stays deleted: a call that read the record before does
\* not bring it back.
DeletedStayDeleted ==
    [][\A i \in used : ~Exists(store, i) => ~Exists(store, i)']_vars

\* One consolidation scheduler on its own never makes the same knowledge
\* twice: one fact and one competence per content, one plan graph per
\* episode, whatever sweeps delete while it works from its listings.
KnowledgeDistinct ==
    /\ \A t \in {"semantic", "competence"} : \A i, j \in OfType(store, t) :
         store[i].fact = store[j].fact => i = j
    /\ \A i, j \in OfType(store, "plan_graph") :
         (\E k \in Ids : Rel("derived_from", k) \in store[i].relations \cap store[j].relations)
             => i = j

\* A record at zero salience that may be pruned is pruned, unless somebody
\* raises its salience first, although sweeps break off on records other
\* daemons prune and on errors.
FadedIsPruned ==
    \A i \in Ids :
        (Exists(store, i) /\ Prunable(store[i]))
            ~> (~Exists(store, i) \/ ~Prunable(store[i]))
=============================================================================
