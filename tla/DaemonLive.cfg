SPECIFICATION FairSpec
CONSTANTS
    p1 = p1  p2 = p2  p3 = p3  c1 = c1
    NoPid = NoPid
    Pids <- MCPids
    Cmds <- OneCmd
    Ops <- CheckedOps
    InterruptAt <- NoInterrupts

PROPERTIES SparesOtherPrograms StopEndsLeader
