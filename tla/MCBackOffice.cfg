\* Side by side: two sign-ins, five sends and two requests at once; keys for
\* one more than the limiter keeps; one item's alerts; two backups; two
\* requests of the import page, with one other change of the catalogue; two
\* product forms; two adjustments and two loads of their log; two scans.
SPECIFICATION BackSpec
CONSTANTS
    Account = {a}
    SignIn = {s1, s2}
    AuthRequest = {r1, r2}
    MAX_WRONG_CODES = 2
    MAX_SENDS = 3
    MAX_SENDS_PER_HOUR = 2
    RESEND_WAIT = 0
    CODE_LIFE = 1
    HOUR = 0
    LastMinute = 1
    MaxEdits = 1
    NoRow = NoRow
    LimitKey = {k1, k2, k3}
    LimitedRequest = {q1, q2}
    MaxInWindow = 2
    WindowMs = 2
    MAX_KEYS = 2
    CountsAll = FALSE
    LastInstant = 2
    Arrivals = 3
    StockItem = {i1}
    Scheduled = timer
    ByHand = {hand}
    MAX_ATTEMPTS = 2
    BATCH = 1
    Level = {0, 1, 2}
    Minima = {0, 1}
    MailEnvs <- MCMailEnvs
    MaxAlerts = 2
    MaxRestarts = 1
    MaxBackups = 2
    Setups <- MCSetups
    BackupDay = 2
    LastHour = 3
    MaxRedeploys = 1
    Text = {"menu", "drinks", "wrong"}
    RowsOf <- MCRowsOf
    Excel = {"menu"}
    Barcode = {"b1"}
    NoBarcode = NoBarcode
    Nothing = Nothing
    Request = {p1, p2}
    MaxChoices = 2
    MaxOthers = 1
    MaxMishaps = 1
    LastProduct = 2
    Form = {f1, f2}
    FormBarcode = {"b1"}
    MaxCounted = 1
    Fillings <- MCFillings
    MaxSubmits = 2
    MaxFailures = 1
    None = None
    Item = {g1, g2}
    LastAdjustment = 2
    LastLoad = 2
    MaxCount = 2
    MaxPicks = 1
    MaxLogFaults = 1
    Asks <- MCAsks
    Everything = Everything
    Code = {c1, c2}
    LastScan = 2
    MaxStockChanges = 2
    MaxDrops = 1
    Unknown = Unknown
CHECK_DEADLOCK FALSE
INVARIANTS
    BackTypeOK
    CodesAreLimited
    CountsAreExact
    
    
    ImportedAgainIsExplained
    FormSavesAreExplained
    LogIsExplained
    LookupIsExplained
PROPERTIES
    EndedStaysEnded
    AlertsAreSettled
    WholeBackupsAreKept
