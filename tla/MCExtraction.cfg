\* Two workers on one queue, with late claims, failures and sweeps.
SPECIFICATION ExtractionSpec
CONSTANTS
    Ids = {r1, r2}
    NoId = NoId
    NoRecord = NoRecord
    NoCall = NoCall
    Facts = {f, g}
    MaxSalience = 1
    Clients = {}
    Reported = {"success"}
    Ingested <- Episodes
    Daemons = {d1}
    Rated = {}
    Penalties = {}
    MaxFaults = 0
    Workers = {w1, w2}
    BatchSize = 2
    Silent = {g}
    MaxFailures = 1
SYMMETRY ExtractionSymmetry
INVARIANTS
    ExtractionTypeOK
    ClaimExclusive
PROPERTIES
    DoneStays
