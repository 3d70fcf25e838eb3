SPECIFICATION Spec
CONSTANTS
    Prec = 10
    MaxUnits = 270
    Prices = {10, 17, 45}
    Retention = 3
    AgeChoices = {0, 1, 2, 9}
    Windows = {1, 2, 3, 4, 12}
    MaxSeconds = 8
    MaxTime = 6
INVARIANTS
    TypeOK
    WindowRetained
    TwapFreshAsPrice
    TwapWithinWindow
    TwapIsMean
CHECK_DEADLOCK FALSE
