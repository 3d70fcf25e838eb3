SPECIFICATION Spec
CONSTANTS
    v1 = v1  v2 = v2  v3 = v3  a1 = a1  a2 = a2  f1 = f1  pA = pA  pB = pB
    Prec = 1000
    MaxUnits = 3
    Validators = {v1, v2, v3}
    Accounts = {a1, a2, f1}
    OperAcc <- MCOperAcc3
    Delegates = {a1, f1}
    Pairs = {pA}
    Prices = {100, 104, 110}
    ParamChoices <- AggregationParams
    PowerMaps <- AggregationPowers
    MaxHeight = 4
INVARIANTS PublishedPriceReported FeederIndexAgreement
PROPERTIES PublishedWithinMajority AgreeingMajorityNotSlashed
