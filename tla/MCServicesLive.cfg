SPECIFICATION ServicesSpec
CONSTANTS
    Msg = {1, 2}
    Turn = {1, 2, 3}
    PendingMax = 1
    ErrorRounds = 1
    DrainMax = 1
    Faults = {"panic"}
    Item = {1}
    RoundsMax = 4
    DryRounds = 1
    MissionErrors = 1
    Runner = {k1}
    ModelCount = 4
    Served = {1, 3, 4}
    Local = {1}
    Token = {t1}
    Retries = 1
    Node = {n1, n2}
    IdleWaiter = {w1}
    ActiveWaiter = {}
    CancelWaiter = {}
    UntilWaiter = {}
    Session = {s1}
    OwnSession = s1
    OwedMax = 1
    Job = {j1, j2}
    OneShot = {j1}
    RunSlot = {r1, r2}
    UserOps = {"add"}
    JobFaults = {"panic"}
    ToolCaller = {c1}
    IdMax = 1
    VersionMax = 1
    LinkFaults = {"late", "die", "close"}
    UpdateMax = 1
    MaxAuth = 2
    MaxConn = 2
    Mail = {1, 2}
    Urgent = {2}
    Processor = {q1}
    QueueMax = 1
    MaxAttempts = 1
    Burst = 1
    EventMax = 1
    LimitsMax = 1
    Life = {l1}
    Pid = {p1}
    Locking = TRUE
    InstanceFaults = {}
    SessId = {e1, e3}
    Channel = e3
    Title = {x1}
    Place = {y1}
    Pin = {z1}
    ReplyTo = {u1, u2}
    SessClient = {d1}
    AskMax = 1
    MsgMax = 2
    RestartMax = 0
    Null = Null
    Card = {c1}
    Recurring = {}
    DayMax = 2
    Sweeper = {}
    EditMax = 0
CHECK_DEADLOCK FALSE
PROPERTIES
    SessionReleased
    MissionEnds
    DueTasksRun
    StepsDecided
    WalkEnds
    MailSettles
