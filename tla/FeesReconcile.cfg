SPECIFICATION Spec
CONSTANTS
    Prec = 10
    Amounts = {1, 3}
    GenesisSpread <- SplitGenesis
    ParamChoices <- SplitParams
    MaxPaid = 9
INVARIANT SupplyReconciles
