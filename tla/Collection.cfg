CONSTANTS
    Clients = {c1, c2}
    Urls = {u1}
    NoUrl = NoUrl
    Hashes = {h1, h2}
    NoHash = NoHash
    RunIds = {r1}
    NoRun = NoRun
    NoClient = NoClient
    UseLock = FALSE
    ItemDays = 0
    RunDays = 0
    MaxTime = 1
    Openers = {p1, p2}
    CURRENT_VERSION = 1
    UpSql <- MCUpSql
    Threads = {w1, w2}
    Cost = 2
    Rate = 1
    Capacity = 4
    MaxClock = 5
    Backfill <- MCBackfill
    Backoff <- MCBackoff
    PageSize = 1
    PageLimit = 3
    BackfillPageLimit = 2
    Attempts = 2
    MinInterval = 1
    MaxPerWindow = 2
    WindowDuration = 4
    Warmup = 1
    Cooldown = 3
    RetryAfters = {0, 4}
    Gaps = {0, 1}
    MaxListed = 2
    Unparsed = {2}
    NoTag = 0
    Order <- StrictThenFeed
    Kind <- FaultKind
    UsesEtag = {"strict", "feed"}
    UsesDate = {"feed"}
    Undated = {}
    Window = 2
    MaxItems = 2
    PageCap = 1
    MaxVersion = 3
    PreferOrder <- MCNoOrder
    SourceLists <- MCSourceLists
    Platform <- MCPlatform
    Things = {1, 2}
    QualitySources = {"keyword", "daily", "code"}
    OwnPages = {1}
    ItemCap = 1
    PageFetches = 1
    Lookback = 2
    MaxEdits = 3
    Failures = {"http", "parse", "store", "crash"}
SPECIFICATION CollectionSpec
INVARIANTS RowCovered WindowCovered EditStored OneStory StatusTold NewOnce RateBounded SchemaWhole
PROPERTY Polite
CHECK_DEADLOCK FALSE
