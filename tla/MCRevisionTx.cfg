\* Two revisions at a time over three records, and a read.
SPECIFICATION TxSpec
CONSTANTS
    Ids = {r1, r2, r3}
    NoId = NoId
    NoRecord = NoRecord
    Facts = {f}
    MaxSalience = 1
    Drafts <- TxDrafts
    Refs <- TxRefs
    Sessions = {s1, s2}
    Readers = {c1}
    NoTx = NoTx
    MaxCalls = 2
SYMMETRY TxSymmetry
INVARIANTS
    RevisionExplained
PROPERTIES
    AtomicRevisions
CHECK_DEADLOCK FALSE
