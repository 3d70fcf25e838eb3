SPECIFICATION FairSpec
CONSTANTS
    btc = btc  vtx = vtx  None = None
    Pairs = {btc, vtx}
    Unchecked = {btc}
    Sources <- MCSources
    MinProviders = 1
    Retries = 2
    ConfigWindow = 0
    ParamChoices <- MCParams
    MaxHeight = 2
INVARIANTS TypeOK ResyncedInSync
PROPERTIES UndisturbedOncePerWindow MaybeSubmitReturns QuietWindowFed HealthyPairFed
