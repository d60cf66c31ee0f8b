--------------------------- MODULE MCRevisionTx ---------------------------
(* A small instance of module RevisionTx.                                   *)
EXTENDS RevisionTx

\* A record of a type that may be revised, as a client sends it.
TxDraft(type) ==
    [rec |-> [type |-> type, fact |-> CHOOSE f \in Facts : TRUE,
              salience |-> MaxSalience, floor |-> 0, gain |-> 0, ages |-> FALSE,
              pinned |-> FALSE, policy |-> "auto_prune", outcome |-> "none",
              evidence |-> TRUE, status |-> "none", supersedes |-> NoId,
              supersededBy |-> NoId, relations |-> {}, audit |-> {}],
     named |-> TRUE]

TxDrafts == {TxDraft("semantic")}
MixedDrafts == {TxDraft("semantic"), TxDraft("episodic")}
TxRefs == Ids
NoRefs == {NoId}
TxSymmetry == Permutations(Ids) \cup Permutations(Sessions)
=============================================================================
