SPECIFICATION Spec
CONSTANTS
    a = a  b = b  c = c  h1 = h1  h2 = h2
    None = None
    Hosts <- TwoHosts
    Order <- TrioOrder
    Home <- TrioHome
    MaxGen = 3
    MaxCommands = 2
    MaxFaults = 1
    Freezes = TRUE
    Waits = TRUE
INVARIANTS TypeOK PauseExplained CopyRemains MemberOwned
PROPERTY RestoreWins
CHECK_DEADLOCK FALSE
