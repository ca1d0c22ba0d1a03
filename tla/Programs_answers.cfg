SPECIFICATION Spec
CONSTANTS
    MaxNode = 4
    FileNode = 3
    MaxLine = 3
    MaxWeight = 2
    N = 6
    MaxCount = 11
    Rows <- MCRows
    Duels <- MCDuels
    Size = 6
    Top = 3
    Key = {1, 2, 3}
    MaxLen = 6
    NumNode = 3
    MaxArc = 4
    MaxValue = 3
    Letter = {1, 2}
    MaxWord = 3
    MaxWords = 3
    MaxFirst = 5
    MaxSecond = 3
    MaxTree = 8
    MaxKey = 3
    SCREEN_WIDTH = 2
    SCREEN_HEIGHT = 4
    BUFF = 4
    Task = {1, 2}
    Formats <- MCFormats
    MaxCalls = 3
INVARIANTS TreeMinimal  AnswersRight
\* Each program ends.
CHECK_DEADLOCK FALSE
