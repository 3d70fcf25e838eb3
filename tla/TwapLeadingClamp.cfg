SPECIFICATION Spec
CONSTANTS
    Prec = 10
    MaxUnits = 270
    Prices = {10, 45}
    Retention = 3
    AgeChoices = {0, 1, 2, 9}
    Windows = {2}
    MaxSeconds = 8
    MaxTime = 4
INVARIANT LeadingClamp
CHECK_DEADLOCK FALSE
