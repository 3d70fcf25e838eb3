SPECIFICATION Spec
CONSTANTS
    Prec = 1000
    MaxUnits = 3
    MaxEntries = 4
    ScanPrices = {1, 2, 3}
    Fractions = {333, 334, 500, 501, 600, 666, 667, 1000}
    Deviations = {100, 500, 1000}
INVARIANTS ScanIsWeightedMedian ScanIsUnweightedMedian QuorumWithinHalfUnit SourcesDecide
