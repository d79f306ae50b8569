SPECIFICATION FairSpec
CONSTANTS
    Workers <- MCWorkers
    Candidates <- MCCandidates
    Addresses <- MCAddresses
    Completed <- MCCompleted
INVARIANTS
    AtMostOnce
    CompletedMeansAll
    ResumeSetIsHonest
    AtMostOneLate
PROPERTIES
    TerminalIsFinal
    PoolWindsDown
