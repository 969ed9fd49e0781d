SPECIFICATION DriveSpec
CONSTANTS
    Temps = {0}
    HotCols = {8}
    Distances = {1, 11, 12, 30, 50}
    TiltStep = 300
    PanPerColumn = 5
    PanStep = 450
    BrakeTicks = 2
    RevTicks = 18
    FwdTurnTicks = 22
    RecoverTicks = 12
    CooldownTicks = 15
    HoldTicks = 6
PROPERTIES
    YawKept
    CrashAnswered
    ManoeuvreEnds
    ClearPathResumes
    TriesBothSides
