SPECIFICATION Spec
CONSTANTS
    w1 = w1
    w2 = w2
    Workers = {w1, w2}
    Books <- LeaseBooks
    Offers <- NoOffer
    Profiles = {"core", "edge"}
    MaxTime = 3
    MaxJobs = 1
    MaxTroubles = 0
    MaxSchedules = 1
    Lease = 1
    Grace = 1
    Day = 3
    RunsKept = 2
SYMMETRY WorkerSymmetry
INVARIANTS
    LeasesSound
PROPERTIES
    HistoryKept
