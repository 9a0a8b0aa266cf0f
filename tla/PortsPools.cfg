SPECIFICATION Spec
CONSTANTS
    Entries <- MCEntries
    StartPort <- MCStartPort
    Optional <- MCOptional
    Away = {}
    PinPorts = {2}
    Listening <- MCListening
    MaxPort = 7
    MaxEntries = 2
INVARIANTS TypeOK PoolsApart SavedPortsAreSet SavedIsValid DrawnPortsAreValid
PROPERTIES PortsRespected
