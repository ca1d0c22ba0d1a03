SPECIFICATION Spec
CONSTANTS
    NumBits = 4
    NumSteps = 2
    Register = {0, 1}
    Partial <- MCPartial
    Watched = 1
    NumPairs = 2
    NumEntries = 2
    NumVpn = 1
    NumAsid = 2
    Global = {FALSE}
    NumLo = 1
    Masks <- MCMasks
    MaxSpecial = 2
    NumAddr = 2
    NumValue = 2
    BusPromises = {"steady", "held", "late"}
INVARIANTS ComputesRight OperandsRight QuotientsRight TlbRight InterruptsRight BusRight
PROPERTY BusAnswers
\* A behaviour of Execute ends with its result.
CHECK_DEADLOCK FALSE
