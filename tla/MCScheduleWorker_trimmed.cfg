SPECIFICATION Spec
CONSTANTS
    w1 = w1
    w2 = w2
    Workers = {w1}
    Books <- MixedOnly
    Offers <- NoOffer
    Profiles = {"core", "edge"}
    MaxTime = 2
    MaxJobs = 2
    MaxTroubles = 0
    MaxSchedules = 1
    Lease = 2
    Grace = 1
    Day = 3
    RunsKept = 2
INVARIANT
    CatalogValid
