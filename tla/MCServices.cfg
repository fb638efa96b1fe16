SPECIFICATION ServicesSafety
CONSTANTS
    Msg = {1, 2, 3}
    Turn = {1, 2}
    PendingMax = 2
    ErrorRounds = 1
    DrainMax = 1
    Faults = {"panic", "seed"}
    Item = {1}
    RoundsMax = 7
    DryRounds = 2
    MissionErrors = 1
    Runner = {k1, k2}
    ModelCount = 4
    Served = {1, 3, 4}
    Local = {1}
    Token = {t1}
    Retries = 2
    Node = {n1, n2}
    IdleWaiter = {w1}
    ActiveWaiter = {w2}
    CancelWaiter = {w3}
    UntilWaiter = {w4}
    Session = {s1, s2}
    OwnSession = s1
    OwedMax = 1
    Job = {j1, j2}
    OneShot = {j1}
    RunSlot = {r1, r2}
    UserOps = {"enable", "disable", "now", "remove"}
    JobFaults = {"panic", "death"}
    ToolCaller = {c1}
    IdMax = 2
    VersionMax = 2
    LinkFaults = {"late", "die", "close"}
    UpdateMax = 4
    MaxAuth = 3
    MaxConn = 5
    Mail = {1, 2}
    Urgent = {2}
    Processor = {q1, q2}
    QueueMax = 1
    MaxAttempts = 2
    Burst = 1
    EventMax = 1
    LimitsMax = 1
    Life = {l1, l2}
    Pid = {p1, p2}
    Locking = TRUE
    InstanceFaults = {"kill", "panic", "boot", "io", "reuse"}
    SessId = {e1, e2, e3}
    Channel = e3
    Title = {x1}
    Place = {y1}
    Pin = {z1}
    ReplyTo = {u1, u2}
    SessClient = {d1, d2}
    AskMax = 3
    MsgMax = 2
    RestartMax = 1
    Null = Null
    Card = {c1}
    Recurring = {c1}
    DayMax = 2
    Sweeper = {w1}
    EditMax = 3
CHECK_DEADLOCK FALSE
INVARIANTS
    ChatSound
    MissionSound
    QuietRoundsBounded
    LadderSound
    NoLostWakeUp
    SchedulerSound
    McpSound
    ListenerSound
    MailSound
    InstanceSound
    WalkSound
    SessionsSound
    DueSound
