CONSTANTS
    r1 = r1  r2 = r2  r3 = r3
    p1 = p1  p2 = p2
    Past = Past  NoRow = NoRow  NoSnap = NoSnap
    Requests <- AllThree
    Pods <- BothPods
    Scenes <- Each
    PruneTurnAge = 2
    MaxKey = 6
SPECIFICATION FairSpec
PROPERTIES  SameObject CommandsHold Finishes
CHECK_DEADLOCK FALSE
