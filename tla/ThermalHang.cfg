SPECIFICATION FairThread
CONSTANTS
    Words = 2
    WordData = {{0, 3, 9}, {1, 2, 4, 5, 6, 7, 8, 10}}
    Frames = 2
    MaxTries = 3
    Blocks = 2
    Stamps = 3
    Samples = 2
    Timeout = 3
    ClockSize = 16
    ClockStarts = {13}
    Rises = {0, 2}
    Widths = {2, 5}
    MaxDelay = 2
PROPERTIES
    ThermalReadReturns
