\* The sweeps of two daemons on one store, with errors.
SPECIFICATION FairSpec
CONSTANTS
    Ids = {r1, r2}
    NoId = NoId
    NoRecord = NoRecord
    NoCall = NoCall
    Facts <- OneFact
    MaxSalience = 2
    Clients = {}
    Reported = {"success"}
    Ingested <- IngestSemantic
    Drafts <- SweepDrafts
    Refs = {}
    Daemons = {d1, d2}
    Rated = {r1, r2}
    Penalties = {1}
    MaxFaults = 1
    Consolidators = {}
    ToolFacts = {}
    ComplexFacts = {}
    CompressFloor = 0
    Step = 1
    MaxMisses = 0
    MaxBreaks = 0
INVARIANTS
    TypeOK
PROPERTIES
    ProtectedSurvive
    FadedIsPruned
