\* Five pages side by side: two presses of "Place order", two orders with
\* their tickets, an order that changes twice on the board or the queue, a
\* session in two tabs, and two people's accounts in two browsers.
SPECIFICATION FrontSpec
CONSTANTS
    Dish = {sisig}
    MaxQty = 2
    MaxPresses = 2
    MaxTouches = 5
    NoOrder = NoOrder
    LastOrder = 2
    Load = {l1, l2}
    MaxUpsets = 1
    NoJob = NoJob
    Shown = {o1}
    ScreenLoad = {ld1, ld2}
    MaxChanges = 2
    MaxClicks = 1
    MaxFaults = 1
    Tab = {t1, t2}
    REFRESH_EVERY = 1
    ACCESS_LIFE = 2
    IDLE_LIMIT = 1
    COOKIE_LIFE = 2
    MaxActs = 1
    None = None
    Person = {"ana", "ben"}
    Address = {"x", "y", "z"}
    Browser = {w1, w2}
    FirstAddress <- MCFirstAddress
    MaxSaves = 2
    NoAccount = NoAccount
    Nobody = Nobody
CHECK_DEADLOCK FALSE
INVARIANTS
    FrontTypeOK
    SecondOrderIsExplained
    
    LagIsExplained
    ChimesAreExplained
    AccessEnds
    SomeAdminRemains
    EditsKeepOthers
PROPERTIES
    KioskComesBack
    
    TicketsArePrinted
    BoardCatchesUp
    SignedOutStaysOut
    ScreensComeToLogin
