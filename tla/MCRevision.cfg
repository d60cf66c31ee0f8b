\* Every sequence of ingestions and revisions, with an outcome written back late and
\* a sweep.
SPECIFICATION Spec
CONSTANTS
    Ids = {r1, r2, r3}
    NoId = NoId
    NoRecord = NoRecord
    NoCall = NoCall
    Facts <- OneFact
    MaxSalience = 1
    Clients = {c1}
    Reported = {"success"}
    Ingested <- IngestBoth
    Drafts <- RevisionDrafts
    Refs <- BareRef
    Daemons = {d1}
    Rated = {}
    Penalties = {}
    MaxFaults = 0
    Consolidators = {}
    ToolFacts = {}
    ComplexFacts = {}
    CompressFloor = 0
    Step = 1
    MaxMisses = 0
    MaxBreaks = 0
SYMMETRY Symmetry
INVARIANTS
    RevisionAudited
    SupersessionAgrees
    EpisodicUnrevised
    FactsHaveEvidence
    RelationsResolve
PROPERTIES
    AuditAppendOnly
    ContentImmutable
    DeletedStayDeleted
CHECK_DEADLOCK FALSE
