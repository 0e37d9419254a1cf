\* Two clients, both of which may start, and three faults.
SPECIFICATION FairSpec
CONSTANTS
    Clients = {a, b}
    ManualKeys = {m}
    NoKey = NoKey
    MaxPairs = 2
    MaxLink = 2
    MaxFaults = 3
INVARIANTS NoStrandedKey SecretsOverOwnPair
PROPERTIES CompleteMeansShared ExchangesEnd
