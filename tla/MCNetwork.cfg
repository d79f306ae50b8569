SPECIFICATION NetworkSpec
CHECK_DEADLOCK FALSE
CONSTANTS
    SeedLists <- MCSeedLists
    Networks <- MCNetworks
    MaxDepth = 2
    MaxDevices = 3
    NoAddress = "-"
    Sessions = {"s", "t"}
    Devices = {"d"}
    HostKeys = {"k", "l"}
    NoHostKey = "none"
    MaxConcurrent = 1
    IdleLimit = 1
    DurationLimit = 2
    TokenLife = 1
    MaxTokens = 2
    MaxClock = 2
    MaxRekeys = 1
    Zones <- MCZones
    DayLength = 6
    LongestGap = 3
    RetryDelay = 2
    EnteredWalls = {4, 7, 8, 9, 10}
    MaxInstant = 18
INVARIANTS
    CrawlSound
    CrawlPolicyKept
    ConsoleSound
    ConsoleTrust
    DailySound
PROPERTIES
    ConsoleClosedTabEnds
