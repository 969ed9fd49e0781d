SPECIFICATION NeckSpec
CONSTANTS
    TiltStep = 7
    PanStep = 40
    PanPerColumn = 70
INVARIANTS
    ServosInRange
PROPERTY SweepsBothWays
