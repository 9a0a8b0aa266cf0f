SPECIFICATION Spec
CONSTANTS
    a = a  b = b  c = c  h1 = h1  h2 = h2
    None = None
    Inst <- PairInst
    Hosts <- TwoHosts
    HostOf <- PairHostOf
    KeepData = TRUE
    LooseDrop = TRUE
    AnyTarget = TRUE
    CrashInBackup = TRUE
INVARIANT TypeOK
PROPERTY ReplicaNeverInitdb
