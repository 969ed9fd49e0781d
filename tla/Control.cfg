SPECIFICATION AimingSpec
CONSTANTS
    Temps = {30, 45, 180, 200}
    HotCols = {8, 9, 10, 12}
    Distances = {45, 60}
    TiltStep = 0
    PanStep = 0
    PanPerColumn = 150
    BrakeTicks = 2
    RevTicks = 1
    FwdTurnTicks = 1
    RecoverTicks = 1
    CooldownTicks = 1
    HoldTicks = 1
    SprayDuration = 2
    ExtinguishTry = 2
    LockFrames = 3
    StableFrames = 2
INVARIANTS
    ControlTypeOK
    SafeStopLatched
    HaltedStandStill
    SprayAccounted
    SprayAtStandstill
PROPERTIES
    ImplementsSupervisor
    LockEarned
