SPECIFICATION Spec
CONSTANTS
    i1 = i1  i2 = i2  h1 = h1  rwa = rwa  collector = collector  pool = pool
    A = A  B = B  pA = pA
    ModuleAddress = rwa
    FeeCollector = collector
    Pool = pool
    Pairs = {pA}
    Prec = 2
    MaxUnits = 4
    MaxSupply = 2
    Assets = {A, B}
    Accounts = {i1, i2}
    GenesisCoins <- EscrowCoins
    Amounts = {1, 2}
    Restrictions = {}
    ParamChoices <- EscrowParams
INVARIANTS TypeOK BondsEscrowed SupplyTracksNotional
PROPERTIES ImplementsLifecycle
SYMMETRY AssetSymmetry
