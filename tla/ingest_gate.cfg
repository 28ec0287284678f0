\* Two fetches, one of which may reach a foreign peer, over two vendor requests.
SPECIFICATION Spec
CONSTANTS
    Callers = {c1, c2}
    ForeignCallers = {c1}
    Keys = {k1, k2}
    Token = 1
    Burst = 2
    Reserve = 1
    Deadline = 1
    BarCounts = {0, 3}
    VendorReasons = {"VENDOR_UNAVAILABLE"}
    PageBars = 2
    WireCap = 1
    MaxForeign = 1
    None = None
INVARIANTS
    TypeOK
    NobodyStranded
    BackfillLeavesTheRest
    StoredIsComplete
PROPERTIES
    NoStartPastDeadline
    ImplementsFetch
    FetchesEnd
