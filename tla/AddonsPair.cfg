SPECIFICATION Spec
CONSTANTS
  None = None
  Names = {a, b}
  Procs = {p, q}
  Kinds <- PairKinds
  Rerole <- NoKinds
  Settings = {s1}
  Default = s1
  Bad = {}
  Alone = {}
  Secrets = {1}
  MaxFaults = 1
  Tears = TRUE
INVARIANTS NoLostUpdate
SYMMETRY Alike
CONSTRAINT Careful
