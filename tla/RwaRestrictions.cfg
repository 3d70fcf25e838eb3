SPECIFICATION Spec
CONSTANTS
    i1 = i1  i2 = i2  h1 = h1  rwa = rwa  collector = collector  pool = pool
    A = A  B = B  pA = pA
    ModuleAddress = rwa
    FeeCollector = collector
    Pool = pool
    Pairs = {pA}
    Prec = 2
    MaxUnits = 3
    MaxSupply = 3
    Assets = {A}
    Accounts = {i1, i2, h1}
    GenesisCoins <- RestrictionCoins
    Amounts = {1, 2}
    Restrictions <- RestrictionChanges
    ParamChoices <- RestrictionParams
INVARIANTS RedeemedInFull
PROPERTIES BarredHoldersFrozen
