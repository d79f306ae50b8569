SPECIFICATION Spec
CONSTANTS
    w1 = w1
    w2 = w2
    Workers = {w1}
    Books <- SingleBooks
    Offers <- OnceOffer
    Profiles = {"core"}
    MaxTime = 2
    MaxJobs = 2
    MaxTroubles = 1
    MaxSchedules = 1
    Lease = 1
    Grace = 1
    Day = 3
    RunsKept = 100
INVARIANTS
    CatalogSound
    CadenceKept
    NeverLaunchedTwice
    EditsSeeTheCatalog
