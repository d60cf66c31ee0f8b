\* One daemon: consolidation and sweeps on one store, a client that reports outcomes, an error.
SPECIFICATION Spec
CONSTANTS
    Ids = {r1, r2, r3}
    NoId = NoId
    NoRecord = NoRecord
    NoCall = NoCall
    Facts <- OneFact
    MaxSalience = 1
    Clients = {c1}
    Reported = {"success"}
    Ingested <- IngestEpisodes
    Drafts <- NoDrafts
    Refs = {}
    Daemons = {d1}
    Rated = {}
    Penalties = {}
    MaxFaults = 0
    Consolidators = {d1}
    ToolFacts <- OneFact
    ComplexFacts <- OneFact
    CompressFloor = 0
    Step = 1
    MaxMisses = 0
    MaxBreaks = 1
SYMMETRY Symmetry
INVARIANTS
    KnowledgeDistinct
