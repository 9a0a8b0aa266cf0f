SPECIFICATION Spec
CONSTANTS
  None = None
  Names = {a}
  Procs = {p}
  Kinds <- AllKinds
  Rerole <- RoleKinds
  Settings = {s1, s2, bad, solo}
  Default = s1
  Bad = {bad}
  Alone = {solo}
  Secrets = {1, 2}
  MaxFaults = 1
  Tears = FALSE
INVARIANTS TypeOK BuildApplies KnownSecret RestartSafe OwnedBox
PROPERTY Implements
