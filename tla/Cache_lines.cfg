SPECIFICATION Spec
CONSTANTS
    Tag = {"x", "y"}
    NumWords = 2
    NumBytes = 2
    Lines <- MCLines
    Watched <- MCWatched
    RamMode = "no_change"
    Promises = {"steady", "apart", "whole", "gapless"}
INVARIANTS LoadsRight Coherent 
