CONSTANTS
    c1 = c1  c2 = c2  x1 = x1  x2 = x2  x3 = x3
    NoChat = NoChat  NoCall = NoCall
    Chats = {c1, c2}
    Calls = {x1, x2, x3}
    Class <- CallClass
    Sandboxed = FALSE
    MaxRound = 3
    MaxParallel = 2
    PlanTurns = TRUE
    m1 = m1  m2 = m2  m3 = m3  t1 = t1  t2 = t2
    NoMsg = NoMsg
    MaxIter = 1
    h1 = h1  NoCaller = NoCaller  Hooks = {h1}
    PipeCap = 1
    BusSize = 1
    MaxCalls = 2
    MaxInbound = 1
SPECIFICATION OverlapSpec
SYMMETRY Symmetry
INVARIANTS ConsentBeforeRun CallsKept DenialHolds PluginServes
PROPERTIES RegistryOwn PairedUnlessBlocked NoneLost
CHECK_DEADLOCK FALSE
