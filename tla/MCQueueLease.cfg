CONSTANTS
    c1 = c1
    q1 = q1  q2 = q2
    NoQueue = NoQueue
    NoTask = NoTask
    Chats <- OneChat
    QueueIds <- TwoQueueIds
    MaxTasks = 3
    MaxConcurrent = 1
    ChanCap = 1
    RetentionLimit = 1
    p1 = p1  p2 = p2
    g1 = g1  g2 = g2
    NoPod = NoPod
    Pods <- TwoPods
    Loops <- TwoLoops
    PodOf <- OneEach
    HotLoops <- LastHot
    Offset <- LastFast
    TTL = 6
    RenewInterval = 2
    RetryInterval = 2
    MaxLate = 1
    MaxMisses = 2
    Skew = 1
SPECIFICATION BothSpec
INVARIANTS NoSendOnClosed TasksInOrder LeaseExcludes
PROPERTIES RefinesPool EveryTaskEnds AccountServed
CHECK_DEADLOCK FALSE
