SPECIFICATION Spec
CONSTANTS
    Chains = {"arbitrum", "arbitrum-testnet"}
    Size = 2
    Staging = v1
    DataDir = v2
    MaxFree <- MCMaxFree
INVARIANTS
    TypeOK
    CanFinish
PROPERTIES
    NeverReinitialised
    DownloadsAreRepeated
