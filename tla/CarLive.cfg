SPECIFICATION FairCar
CONSTANTS
    Temps = {0}
    HotCols = {8}
    Distances = {60}
    TiltStep = 0
    PanStep = 0
    PanPerColumn = 150
    BrakeTicks = 1
    RevTicks = 1
    FwdTurnTicks = 1
    RecoverTicks = 1
    CooldownTicks = 1
    HoldTicks = 1
    SprayDuration = 1
    ExtinguishTry = 1
    LockFrames = 1
    StableFrames = 1
PROPERTIES
    EstopReachesWheels
    HaltReachesWheels
    ShutdownCompletes
