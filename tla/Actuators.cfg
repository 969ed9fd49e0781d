SPECIFICATION FairActuators
CONSTANTS
    Speeds = {2000}
    Angles = {450, 1350}
    MaxFailures = 2
    MaxLives = 2
INVARIANTS
    BridgeSafe
    NoBlindBurst
    ChipReady
    ExitAtRest
    PumpFollows
PROPERTIES
    ShortHeals
