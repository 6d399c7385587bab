SPECIFICATION FairSpec
CONSTANTS
    Height = 3
    Width = 3
    Players = {p1}
    Mode = "Endless"
    Shapes <- SoloShapes
    Keys <- AllKeys
    MaxSent = 1
    MaxAnswers = 2
INVARIANT TypeOK
INVARIANT Mirror
INVARIANT FallingFits
PROPERTY PieceLands
PROPERTY RowsCollapse
CHECK_DEADLOCK FALSE
