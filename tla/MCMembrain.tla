---------------------------- MODULE MCMembrain ----------------------------
(* Small instances of module Membrain: the inputs the configurations draw   *)
(* on.                                                                      *)
EXTENDS Membrain, TLC

\* A draft as a client sends it: full salience, default profile.
PlainDraft(type, fact, named) ==
    [rec |-> [IngestedRecord(type, fact) EXCEPT !.audit = {}], named |-> named]

\* A draft with a profile of the client's own: it can be reinforced, never
\* fades below one unit, and is pinned.
GuardedDraft(type, fact) ==
    [rec |-> [IngestedRecord(type, fact) EXCEPT
                 !.audit = {}, !.salience = 1, !.floor = 1, !.gain = 1,
                 !.pinned = TRUE],
     named |-> TRUE]

\* A draft that fades like any other, but only its owner may delete it.
ManualDraft(type, fact) ==
    [rec |-> [IngestedRecord(type, fact) EXCEPT !.audit = {}, !.policy = "manual_only"],
     named |-> TRUE]

UnprovedDraft(fact) ==
    [rec |-> [IngestedRecord("semantic", fact) EXCEPT
                 !.audit = {}, !.evidence = FALSE, !.gain = 1],
     named |-> FALSE]

BareRef == {NoId}
NoDrafts == {}

OneFact == {"f"}

EpisodesOnly(facts) == {IngestedRecord("episodic", f) : f \in facts}
EpisodesAndFacts(facts) ==
    EpisodesOnly(facts) \cup {IngestedRecord("semantic", f) : f \in facts}

IngestBoth == EpisodesAndFacts(OneFact)
IngestEpisodes == EpisodesOnly(OneFact)
IngestSemantic == {IngestedRecord("semantic", "f")}

RevisionDrafts ==
    {PlainDraft("semantic", "f", TRUE), PlainDraft("semantic", "f", FALSE),
     PlainDraft("episodic", "f", TRUE), UnprovedDraft("f")}
GainfulDraft(fact) ==
    [rec |-> [IngestedRecord("semantic", fact) EXCEPT !.audit = {}, !.gain = 1],
     named |-> TRUE]

SweepDrafts == {GuardedDraft("semantic", "f"), ManualDraft("semantic", "f"), GainfulDraft("f")}

Symmetry == Permutations(Ids)
=============================================================================
