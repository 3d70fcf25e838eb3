SPECIFICATION HistSpec
CONSTANTS
    v1 = v1  v2 = v2  v3 = v3  a1 = a1  a2 = a2  f1 = f1  pA = pA  pB = pB
    Prec = 1000
    MaxUnits = 2
    Validators = {v1, v2}
    Accounts = {a1, a2}
    OperAcc <- MCOperAcc2
    Delegates = {}
    Pairs = {pA, pB}
    Prices = {100}
    ParamChoices <- GovernanceParams
    PowerMaps <- MissPowers
    MaxHeight = 5
INVARIANTS TypeOK FeedsOfOpenWindow CountersWithinWindow DiligentNeverMissSlashed
PROPERTIES MissSlashesApart
