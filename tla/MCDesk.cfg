SPECIFICATION DeskSpec
CHECK_DEADLOCK FALSE
SYMMETRY Symmetry
CONSTANTS
    Conditions = {"c", "d"}
    Profiles = {"p"}
    Collectors = {"t", "x"}
    Operators = {"o"}
    Moves = {"resolved", "snoozed", "unread"}
    Legacy = {"c"}
    MaxItems = 2
    MaxLag = 1
    MaxPolls = 2
    MaxWrites = 3
    Users <- MCOperators
    Admins <- MCAdmins
    LocalOperator = "l"
    Modes = {"local", "password", "proxy"}
    Requests <- MCRequests
    FirstUsers <- MCFirstUsers
    MaxAge = 2
    IdleTimeout = 1
    MaxEdits = 2
    MaxLogins = 1
    MaxTicks = 1
    MaxRestarts = 1
    o1 = o1
    o2 = o2
    Clerks <- MCOperators
    CaseTitles = {"t"}
    FirstCases <- MCFirstCases
    MaxCaseRevision = 8
    MaxLostEvents = 1
    Planners <- MCOperators
    FirstPlans <- MCFirstPlans
    ChangeIds = {1, 2}
    MaxPlanSaves = 4
    MaxChanges = 2
    MaxMishaps = 1
    Curators <- MCOperators
    Described <- MCDescribed
    CurationValues = {"a", "b"}
    MaxCurations = 3
    MaxLost = 1
    Reviewers <- MCOperators
    Views <- MCViews
    CacheEntries = 1
    MaxEvidence = 1
    MaxReviews = 3
    MaxBaselines = 2
    MaxExceptions = 2
INVARIANTS
    InboxSound
    InboxOpenUnlessOvertaken
    AccessSound
    CasesSound
    PlansSound
    CurationSound
    PolicySound
PROPERTIES
    AccessDeadStaysDead
    CurationUndoTakesBack
