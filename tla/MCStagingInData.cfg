SPECIFICATION Spec
CONSTANTS
    Chains = {"arbitrum", "arbitrum-testnet"}
    Size = 2
    Staging = v1
    DataDir = v1
    MaxFree <- MCMaxFree
INVARIANTS
    CanFinish
