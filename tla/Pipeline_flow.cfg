SPECIFICATION FairSpec
CONSTANTS
    NumPc = 3
    Target = 1
    Promises = {"slots", "alone", "apart"}
INVARIANTS InOrder RestartsRight 
PROPERTY Progress
