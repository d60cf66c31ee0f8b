--------------------------- MODULE Consolidation ---------------------------
(***************************************************************************)
(* The consolidation run (src/membrain/pkg/consolidation): compress old    *)
(* episodic records, then distil semantic facts, competences and plan      *)
(* graphs out of successful episodes.  Each stage lists what it works on   *)
(* first and changes the store one transaction at a time afterwards, using *)
(* the saliences and ids of the listing.  The LLM extractor, the stage in  *)
(* between, has a work queue of its own: module Extraction.                *)
(*                                                                         *)
(* The three distilling stages have one shape: items of work, each a key   *)
(* and the episodes behind it, and an index of the records that already    *)
(* stand for a key.  An item whose key is in the index reinforces that     *)
(* record, any other creates one.                                          *)
(***************************************************************************)
EXTENDS RecordStore, FiniteSets

CONSTANTS
    Consolidators,  \* membraned processes running the consolidation scheduler
    ToolFacts,      \* contents with a tool graph
    ComplexFacts,   \* contents with a tool graph of at least three nodes
    CompressFloor,  \* compressedSalienceFloor (0.05) in units
    Step,           \* what a consolidation reinforcement adds (0.1) in units
    MaxMisses,      \* plan graphs one run may fail to read the relations of
    MaxBreaks       \* how many runs an outside error may break off

VARIABLES
    runs,           \* per consolidator: its stage and what it has listed
    breaks          \* runs broken off by an outside error so far

ASSUME ConsolidationAssumption ==
    /\ ComplexFacts \subseteq ToolFacts
    /\ ToolFacts \subseteq Facts
    /\ CompressFloor \in Salience
    /\ Step \in Salience
    /\ MaxMisses \in Nat
    /\ MaxBreaks \in Nat

Stage == {"idle", "compress", "semantic", "competence", "plan"}
Cut   == [id : Ids, to : Salience]
Item  == [key : Facts, sources : SUBSET Ids]
Entry == [key : Facts, id : Ids, salience : Salience]

RunType ==
    [stage    : Stage,
     listing  : BOOLEAN,        \* the stage still has to list its index
     cuts     : SUBSET Cut,
     todo     : SUBSET Item,
     index    : SUBSET Entry]

RunsTypeOK ==
    /\ runs \in [Consolidators -> RunType]
    /\ breaks \in 0 .. MaxBreaks

AtStage(stage, cuts, todo) ==
    [stage |-> stage, listing |-> stage \in {"semantic", "competence", "plan"},
     cuts |-> cuts, todo |-> todo, index |-> {}]

IdleRun == AtStage("idle", {}, {})

InitRuns == runs = [d \in Consolidators |-> IdleRun] /\ breaks = 0

-----------------------------------------------------------------------------
(* What the stages list.                                                   *)

Episodes(s)  == OfType(s, "episodic")
Succeeded(s) == {i \in Episodes(s) : s[i].outcome = "success"}

\* Episodic compression halves a salience above the floor, down to the floor.
Compressed(v) == AtLeast(v \div 2, CompressFloor)

\* Only records at least 24 hours old are cut.  Creation times are left out,
\* so any set of episodes may be the old ones.
Cuts(s, old) ==
    {[id |-> i, to |-> Compressed(s[i].salience)] :
        i \in {j \in old : s[j].salience > CompressFloor}}

\* The stage after a distilling stage, and the type of record it creates.
NextStage == [semantic |-> "competence", competence |-> "plan"]
TypeAt    == [semantic |-> "semantic", competence |-> "competence",
              plan |-> "plan_graph"]

\* minPatternOccurrences is 2, minToolGraphNodes 3.
ItemsAt(stage, s) ==
    CASE stage = "semantic" ->
           {[key |-> s[i].fact, sources |-> {i}] : i \in Succeeded(s)}
      [] stage = "competence" ->
           LET of(f) == {i \in Succeeded(s) : s[i].fact = f}
           IN  {[key |-> f, sources |-> of(f)] :
                   f \in {g \in ToolFacts : Cardinality(of(g)) >= 2}}
      [] stage = "plan" ->
           {[key |-> s[i].fact, sources |-> {i}] :
               i \in {j \in Episodes(s) : s[j].fact \in ComplexFacts}}

IndexesNone(s, t) == {{}}   \* wrong: known records are not looked up

\* The records that stand for their content already.  Of several with one
\* key the last of the list counts; the list is sorted by falling salience.
Indexes(s, t) ==
    LET all == {[key |-> s[i].fact, id |-> i, salience |-> s[i].salience] :
                   i \in OfType(s, t)}
    IN  {index \in SUBSET all :
            /\ \A e \in all : \E f \in index : f.key = e.key /\ f.salience <= e.salience
            /\ \A e, f \in index : e.key = f.key => e = f}

\* Episodes one of these plan graphs is derived from.
Planned(s, graphs) ==
    {i \in Ids : \E j \in graphs : Rel("derived_from", i) \in s[j].relations}

-----------------------------------------------------------------------------
(* One transaction each.                                                   *)

CutStore(s, i, v) == AddAuditEntry(UpdateSalience(s, i, v), i, "decay")

Raised(v) == AtMost(v + Step, MaxSalience)

ReinforcedStore(s, i, v) == AddAuditEntry(UpdateSalience(s, i, v), i, "reinforce")

\* NewMemoryRecord with the provenance the consolidators give it.
Distilled(type, key, sources) ==
    [type |-> type, fact |-> key, salience |-> MaxSalience, floor |-> 0,
     gain |-> 0, ages |-> FALSE, pinned |-> FALSE, policy |-> "auto_prune",
     outcome |-> "none", evidence |-> TRUE, status |-> "none",
     supersedes |-> NoId, supersededBy |-> NoId,
     relations |-> {Rel("derived_from", i) : i \in sources},
     audit |-> {"create"}]

-----------------------------------------------------------------------------
\* A tick starts RunAll.
RunStart(d) ==
    /\ runs[d].stage = "idle"
    /\ \E old \in SUBSET Episodes(store) :
         runs' = [runs EXCEPT ![d] = AtStage("compress", Cuts(store, old), {})]
    /\ UNCHANGED <<store, used, breaks>>

\* EpisodicConsolidator: one record, to the value computed from the listing.
RunCompress(d) ==
    /\ \E cut \in runs[d].cuts :
         /\ Exists(store, cut.id)
         /\ store' = CutStore(store, cut.id, cut.to)
         /\ runs' = [runs EXCEPT ![d].cuts = runs[d].cuts \ {cut}]
    /\ UNCHANGED <<used, breaks>>

\* A stage is done; the next one begins by listing the episodes.
RunAdvance(d) ==
    /\ \/ runs[d].stage = "compress" /\ runs[d].cuts = {}
       \/ /\ runs[d].stage \in DOMAIN NextStage
          /\ ~runs[d].listing
          /\ runs[d].todo = {}
    /\ LET next == IF runs[d].stage = "compress" THEN "semantic"
                   ELSE NextStage[runs[d].stage]
       IN  runs' = [runs EXCEPT ![d] = AtStage(next, {}, ItemsAt(next, store))]
    /\ UNCHANGED <<store, used, breaks>>

\* Then it lists the records it may reinforce.
RunIndex(d) ==
    /\ runs[d].stage \in {"semantic", "competence"}
    /\ runs[d].listing
    /\ \E index \in Indexes(store, TypeAt[runs[d].stage]) :
         runs' = [runs EXCEPT ![d].listing = FALSE, ![d].index = index]
    /\ UNCHANGED <<store, used, breaks>>

\* The plan stage drops the episodes that have a plan graph.  A graph whose
\* relations cannot be read is passed over as if it had none.
RunIndexPlans(d) ==
    /\ runs[d].stage = "plan"
    /\ runs[d].listing
    /\ \E missed \in SUBSET OfType(store, "plan_graph") :
         /\ IsFiniteSet(missed) /\ Cardinality(missed) <= MaxMisses
         /\ LET known == Planned(store, OfType(store, "plan_graph") \ missed)
            IN  runs' = [runs EXCEPT ![d].listing = FALSE,
                             ![d].todo = {t \in runs[d].todo : t.sources \cap known = {}}]
    /\ UNCHANGED <<store, used, breaks>>

\* An item whose key is known: the salience of the listing, raised, replaces
\* whatever the record has now.
RunReinforce(d) ==
    /\ runs[d].stage \in DOMAIN TypeAt
    /\ ~runs[d].listing
    /\ \E t \in runs[d].todo, e \in runs[d].index :
         /\ e.key = t.key
         /\ Exists(store, e.id)
         /\ store' = ReinforcedStore(store, e.id, Raised(e.salience))
         /\ runs' = [runs EXCEPT ![d].todo = runs[d].todo \ {t}]
    /\ UNCHANGED <<used, breaks>>

\* An item whose key is new.  A plan graph goes by its episode, never by key.
RunCreate(d, new) ==
    /\ runs[d].stage \in DOMAIN TypeAt
    /\ ~runs[d].listing
    /\ Fresh(new)
    /\ \E t \in runs[d].todo :
         LET r == Distilled(TypeAt[runs[d].stage], t.key, t.sources)
             e == [key |-> t.key, id |-> new, salience |-> MaxSalience]
         IN  /\ \A f \in runs[d].index : f.key # t.key
             /\ TargetsExist(store, r)
             /\ store' = CreateRecord(store, new, r)
             /\ runs' = [runs EXCEPT ![d].todo = runs[d].todo \ {t},
                              ![d].index = IF runs[d].stage = "plan" THEN {}
                                           ELSE runs[d].index \cup {e}]
    /\ used' = used \cup {new}
    /\ UNCHANGED breaks

\* A listed record is gone: ErrNotFound, or the foreign key refuses the
\* derived_from relation.  The whole run is broken off.
RunNotFound(d) ==
    /\ \/ \E cut \in runs[d].cuts : ~Exists(store, cut.id)
       \/ /\ ~runs[d].listing
          /\ \E t \in runs[d].todo :
               \/ \E e \in runs[d].index : e.key = t.key /\ ~Exists(store, e.id)
               \/ /\ \A e \in runs[d].index : e.key # t.key
                  /\ \E i \in t.sources : ~Exists(store, i)
    /\ runs' = [runs EXCEPT ![d] = IdleRun]
    /\ UNCHANGED <<store, used, breaks>>

RunFault(d) ==
    /\ runs[d].stage # "idle"
    /\ breaks < MaxBreaks
    /\ breaks' = breaks + 1
    /\ runs' = [runs EXCEPT ![d] = IdleRun]
    /\ UNCHANGED <<store, used>>

RunEnd(d) ==
    /\ runs[d].stage = "plan"
    /\ ~runs[d].listing
    /\ runs[d].todo = {}
    /\ runs' = [runs EXCEPT ![d] = IdleRun]
    /\ UNCHANGED <<store, used, breaks>>

RunNext(d) ==
    \/ RunStart(d)
    \/ RunCompress(d)
    \/ RunAdvance(d)
    \/ RunIndex(d)
    \/ RunIndexPlans(d)
    \/ RunReinforce(d)
    \/ \E new \in Ids : RunCreate(d, new)
    \/ RunNotFound(d)
    \/ RunFault(d)
    \/ RunEnd(d)

ConsolidationNext == \E d \in Consolidators : RunNext(d)
=============================================================================
