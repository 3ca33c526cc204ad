CONSTANTS
    p1 = p1  j1 = j1  NoJob = NoJob
    Period = 2
    LockTTL = 2
    Idle = 2
    MaxHold = 1
    MaxFailures = 2
    MaxTroubles = 2
    c1 = c1  c2 = c2  NoChat = NoChat
    Chats = {c1, c2}  WebChats = {c1}
    BusSize = 1  MaxRounds = 1  MaxSends = 3  MaxTokens = 1
SPECIFICATION LiveSpec
 
PROPERTY DueFires GoalKept ChainEnds
CHECK_DEADLOCK FALSE
