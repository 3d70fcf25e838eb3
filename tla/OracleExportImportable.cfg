SPECIFICATION Spec
CONSTANTS
    v1 = v1  v2 = v2  v3 = v3  a1 = a1  a2 = a2  f1 = f1  pA = pA  pB = pB
    Prec = 1000
    MaxUnits = 1
    Validators = {v1, v2}
    Accounts = {a1, a2, f1}
    OperAcc <- MCOperAcc2
    Delegates = {a1, a2, f1}
    Pairs = {pA}
    Prices = {100}
    ParamChoices <- DelegationParams
    PowerMaps <- DelegationPowers
    MaxHeight = 3
INVARIANT ExportImportable
