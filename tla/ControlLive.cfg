SPECIFICATION FairControl
CONSTANTS
    Temps = {30, 45, 200}
    HotCols = {8}
    Distances = {11, 29, 60}
    TiltStep = 0
    PanStep = 0
    PanPerColumn = 150
    BrakeTicks = 4
    RevTicks = 2
    FwdTurnTicks = 2
    RecoverTicks = 1
    CooldownTicks = 2
    HoldTicks = 1
    SprayDuration = 1
    ExtinguishTry = 2
    LockFrames = 1
    StableFrames = 1
INVARIANTS
    AvoidanceAtRest
PROPERTIES
    BrakeBeforeReverse
    EstopNoticed
    SprayEnds
    FireGoneResumesSearch
