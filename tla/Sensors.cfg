SPECIFICATION FairSensors
CONSTANTS
    Words = 2
    WordData = {{0, 3, 9}, {1, 2, 4, 5, 6, 7, 8, 10}}
    Frames = 2
    MaxTries = 3
    Blocks = 2
    Stamps = 3
    Samples = 2
    Timeout = 10
    ClockSize = 32
    ClockStarts = {28}
    Rises = {0, 2}
    Widths = {8, 11}
    MaxDelay = 2
INVARIANTS
    EepromSound
    PublishedFresh
    FrameWhole
    DistanceTrue
PROPERTIES
    SensorStops
