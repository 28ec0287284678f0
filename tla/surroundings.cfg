SPECIFICATION Spec
CONSTANTS
    QueueSize = 1
    WireCap = 1
    MaxFaults = 1
    Datasets = {d1, d2}
    None = None
    MaxChanges = 1
    MaxInputs = 3
    PageBars = 2
    Overlap = 1
    Capacity = 3
    BarCounts = {0, 1, 9}
    Nowhere = Nowhere
    MaxOpens = 2
    MaxErrors = 1
    Ids = {1, 2, 3}
    Keys = {1, 2}
    Gone = Gone
    PageSize = 1
    Blocks = {0, 1, 2}
    MaxWalks = 2
    MaxMoves = 1
    MaxMisses = 1
    Sessions = {1, 2, 4, 6, 8, 9, 12, 13}
    CalendarStart = 1
    WeekDays = 4
    LastDay = 8
    SettleTicks = 1
    StreamBars = 1
    Forever = Forever
    Subscriptions <- MCSubscriptions
    MaxStops = 1
    BucketCounts = {1, 2, 4}
    Series = {d1, d2}
    Sdks = {"sdk"}
    Operator = "operator"
    RollupDays = 1
    RecentDays = 2
    LastInstant = 5
    MaxReads = 3
    Calendared = {"ALPACA"}
    Bare = {"IB"}
    RowChoices <- MCRows
    Queries <- MCQueries
    StaleChoices = {1, 2}
    BucketStarts = {0, 1, 3}
    ExpiringSoonDays = 1
    TableBytes = {0, 10, 100}
    CatalogReadsCap = 1
    Subs = {1, 2, 3}
    RequestOf <- MCRequestOf
    DayTicks = 2
    SettleDelay = 1
    MaxPerPass = 2
    MaxInARow = 2
    Lookback = 9
    LastTick = 2
    MaxTroubles = 1
    Second = 2
    LastMoment = 4
    Delays = {0, 1, 2, 3}
    NoReset = NoReset
SYMMETRY SameDatasets
INVARIANTS
    TypeOK
    ShowsItsOwn
    QuietIsCurrent
    ViewerShowsTheWindow
    WalkIsConsistent
    CoverageAgrees
    UsageOutlivesTheRollup
    CatalogAgrees
    DueIsAsked
    OncePerClose
    FailuresAreTold
PROPERTY
    TimeOnlyWorsens
CHECK_DEADLOCK FALSE
