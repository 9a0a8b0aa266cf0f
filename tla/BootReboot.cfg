SPECIFICATION FairSpec
CONSTANTS
    a = a  k = k  bk = bk  u = u
    Instances <- MCInstances
    Pitr <- MCInstances
    Bouncers <- NoBouncers
    Brokers <- MCBrokers
    Users <- MCUsers
    Backup = bk
    Service = boot
    None = None
    MaxCommands = 1
    MaxReboots = 1
    Initially <- AllUp
CHECK_DEADLOCK FALSE
INVARIANTS TypeOK KeptStaysDown
PROPERTIES StopNeverStarts BootServes
