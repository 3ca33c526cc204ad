CONSTANTS
    u1 = u1 u2 = u2 ag = ag c1 = c1 c2 = c2 a1 = a1 a2 = a2
    System = System Free = Free
    Users = {u1, u2} Agents = {ag} Callers = {c1, c2} Admins = {a1}
    OwnerOf <- AgentOwner Kinds <- KindsOf
    MaxSpaces = 6 MaxCalls = 2 MaxWrites = 1 MaxFaults = 1
    g1 = g1 g2 = g2 g3 = g3 b1 = b1 b2 = b2
    s1 = s1 s2 = s2 s3 = s3 dm = dm ask = ask
    NoKey = NoKey NoBot = NoBot NoSlot = NoSlot NoAgent = NoAgent Purger = Purger
    Owners = {u1, u2} Bots = {b1, b2} Slots = {s1, s2, s3} Handlers = {a1, a2}
    UserOf <- UserOfSlot AgentOf <- AgentOfSlot Owned <- AgentsOfUser Lead <- LeadOfUser
    Messages = {dm, ask} Info <- MessageInfo Boots <- Tables
    Sorts = {"telegram", "discord", "wechat"}
    MaxOps = 2 MaxMishaps = 1 MaxSent = 1
    o1 = o1 o2 = o2 o3 = o3 NoOp = NoOp Ops = {o1, o2, o3}
    MaxBoxes = 3 MaxTroubles = 1 MaxRestarts = 1
SPECIFICATION GatewaySpec
INVARIANTS  Reaches  
 
CHECK_DEADLOCK FALSE
