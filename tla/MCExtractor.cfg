\* One worker: no triple twice, every episode extracted in the end.
SPECIFICATION ExtractionFairSpec
CONSTANTS
    Ids = {r1, r2, r3}
    NoId = NoId
    NoRecord = NoRecord
    NoCall = NoCall
    Facts = {f}
    MaxSalience = 1
    Clients = {}
    Reported = {"success"}
    Ingested <- Episodes
    Daemons = {d1}
    Rated = {}
    Penalties = {}
    MaxFaults = 0
    Workers = {w1}
    BatchSize = 1
    Silent = {}
    MaxFailures = 1
INVARIANTS
    TriplesDistinct
PROPERTIES
    EpisodesExtracted
