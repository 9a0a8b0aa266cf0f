SPECIFICATION Spec
CONSTANTS
    a = a  b = b  c = c  h1 = h1  h2 = h2
    None = None
    Inst <- TrioInst
    Hosts <- OneHost
    HostOf <- TrioHostOf
    KeepData = TRUE
    LooseDrop = FALSE
    AnyTarget = FALSE
    CrashInBackup = FALSE
INVARIANT ReplicaBootsStandby
