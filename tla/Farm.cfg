\* modules/jobs/routes, scheduler
CONSTANTS
    Job = {j1}
    Printer = {p1}
    NoPrinter = NoPrinter
    Caller = {c1}
    Horizon = 2
\* spools
    Spool = {a}
    NoSpool = NoSpool
    SlotNumber = {1, 2}
    Full = 2
    RouteThread = {h1}
\* quota
    Request = {r1, r2}
    Quota = 2
    Periods = 2
    MaxCrashes = 1
    MaxMade = 6
\* polling monitors
    MaxRows = 4
\* ws_events
    Client = {b1, b2}
    CleanupEvery = 1
    EventTtl = 2
    BusyWait = 1
    MaxEvents = 2
    MaxTick = 3
    MaxLives = 2
\* vision
    Thread = {t1, t2}
    NoThread = NoThread
    Cooldown = 1
    MaxFrames = 2
    MaxFound = 2
\* digest
    Recipient = {1, 2}
    NoRecipient = 0
    Worker = {w1, w2}
    MaxWindows = 2
    MaxFaults = 1
\* telemetry
    MaxClock = 1
\* sessions
    Credential = {1, 2}
    LockoutAfter = 1
\* orders
    OrderItem = {1}
    PerBed = 2
    Quantity = {1, 3}
    MaxStock = 1
    MaxBeds = 3
\* printers, cameras
    Machine = {m1}
    Syncer = {y1, y2}
    MaxPrinters = 1
    MaxSlots = 2
    CoolTicks = 2
\* models library
    Coroutine = {q1, q2}
    ModelName = {"benchy"}
    MaxModels = 2
    MaxFiles = 2
\* timelapses
    TimelapseJob = {1, 2}
    MaxClips = 2
    MaxStops = 1
    StaleEvery = 2
\* alerts
    Reader = {1}
    Dispatcher = {d1}
    CacheTicks = 1
    MaxAlerts = 1
    MaxEdits = 1
\* itar, webhooks, republisher
    Host = {s1}
    NoHost = NoHost
    Outgoing = {o1}
\* printer commands
    Controller = {k1}
    NoController = NoController
    MaxRuns = 2
\* users, groups, organisations
    Person = {u1, u2}
    Tenant = {g1, g2}
    NoTenant = NoTenant
    AdminCall = {x1, x2}
    OrgPrinter = {pr1}
\* archive
    Curator = {v1}
    Tag = {n1, n2}
    OrgId = {g3}
    ArchivePrinter = {ap}
    MaxArchives = 1
    MaxProjects = 1
\* filament slots
    SlotSync = {z1, z2}
\* smart plugs
    CoolTimer = {k1}
    PlugKind = {"homeassistant"}
\* maintenance
    UpkeepTask = {"k1"}
    Fitter = {f1, f2}
    Interval = 1
    MaxHours = 1
    MaxLogs = 1
    MaxNozzles = 2
\* setup wizard
    Visitor = {w1, w2}
    MaxWizard = 2
SPECIFICATION FarmSpec
CHECK_DEADLOCK FALSE
INVARIANTS
    FarmTypeOK ChargedOnce NeverOvercharged EveryJobCounted MoonrakerOneRunning EventsKept
    ClientsInOrder OneThreadGoesOn DigestOnce ParityKnown SpentStaysSpent BedsHoldTheOrder
    UploadsShareModels PinsHold NozzlesBehind
PROPERTIES
    ColumnsSurvive EndsNewestRow RestartsApart CapturesEnd
    ScopedAdminsStay
