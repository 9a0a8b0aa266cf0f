SPECIFICATION Spec
CONSTANTS
    a = a  b = b  c = c  h1 = h1  h2 = h2
    None = None
    Inst <- TrioInst
    Hosts <- OneHost
    HostOf <- TrioHostOf
    KeepData = FALSE
    LooseDrop = FALSE
    AnyTarget = TRUE
    CrashInBackup = TRUE
SYMMETRY TrioSymmetry
INVARIANTS RolesAgree StandbyKeepsSlot
