CONSTANTS
    m1 = m1  m2 = m2  m3 = m3  m4 = m4  t1 = t1
    NoMsg = NoMsg  NoCall = NoCall
    Messages = {m1, m2, m3, m4}
    WebMsgs = {}
    AmbientMsgs = {m4}
    Turns = {t1}
    Kinds = {"loop"}
    MaxIter = 2
    QueueOverlap = FALSE
    c1 = c1  x1 = x1  x2 = x2  x3 = x3  x4 = x4
    NoChat = NoChat
    MaxRound = 3
    MaxParallel = 2
SPECIFICATION TurnSpec
INVARIANT ResultsPaired
CHECK_DEADLOCK FALSE
