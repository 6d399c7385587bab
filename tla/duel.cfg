SPECIFICATION FairSpec
CONSTANTS
    Height = 2
    Width = 2
    Players = {p1, p2}
    Mode = "Dual"
    Shapes <- DuelShapes
    Keys = {"z"}
    MaxSent = 0
    MaxAnswers = 1
INVARIANT Mirror
PROPERTY EveryoneIsTold
CHECK_DEADLOCK FALSE
