CONSTANTS
    NoOne = NoOne
    a1 = a1  a2 = a2  s1 = s1  s2 = s2  s3 = s3  t1 = t1  t2 = t2  w1 = w1  w2 = w2  w3 = w3
    g1 = g1  g2 = g2  r1 = r1  r2 = r2  k1 = k1  k2 = k2  k3 = k3  m1 = m1  o1 = o1  o2 = o2
    p1 = p1  p2 = p2  x1 = x1  x2 = x2  x3 = x3
    MaxMishaps = 1
    Agents = {a1, a2}  Sources = {s1, s2, s3}  AgentOf <- AgentsOf
    Pages = {t1, t2, w1, w2, w3}  SourcePages = {w1, w2, w3}  PlansOf <- Plans  OwnPage <- OwnPages
    WikiJobs = {g1, g2}  JobPod <- JobPods  Requests <- Asked  MaxDeletes = 1
    NoAgent = NoOne  NoSource = NoOne  NoPage = NoOne
    Plain = {0, 2, 3}  MaxSeq = 3  MinMessages = 3  Runs = {r1, r2}
    Pods = {p1, p2}  Skills = {k1, k2, k3, m1}  Installs = {k1, k2, k3}  Candidates <- Pairs
    Targets <- Name  Ops = {o1, o2}  Rounds = {r1, r2}  RoundPod <- RoundPods
    Props = {x1, x2, x3}  Queues <- Starts  MaxSkillDeletes = 1
    NoPod = NoOne  NoSkill = NoOne  NoProp = NoOne
SPECIFICATION UpkeepSpec
INVARIANTS AppliedHolds
CHECK_DEADLOCK FALSE
