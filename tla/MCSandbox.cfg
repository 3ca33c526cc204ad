CONSTANTS
    c1 = c1  c2 = c2
    Sweeper = Sweeper  Handler = Handler  Free = Free
    Callers <- TwoCallers
    Kinds <- KindsOf
    MaxBoxes = 3
    MaxWrites = 2
    MaxCalls = 2
    MaxFaults = 1
    Moves = TRUE
    Size <- Lengths
SPECIFICATION FairSpec
 
PROPERTIES  Settles
CHECK_DEADLOCK FALSE
