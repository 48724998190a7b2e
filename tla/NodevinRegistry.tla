--------------------------- MODULE NodevinRegistry ---------------------------
(***************************************************************************)
(* The contents of networkInfoMap (internal/utils/utils.go): which network *)
(* runs as which container, which clients can be chosen, and which network *)
(* runs in whose stack.  Every network but IPFS and its cluster is also    *)
(* registered with "-testnet" appended to its key and its containers.      *)
(***************************************************************************)
EXTENDS Registry, TLC, Sequences

TestnetName(s) == s \o "-testnet"

(* Networks of one chain with a container of their own choosing.           *)
Chains ==
    "bitcoin" :> "bitcoin-core" @@ "ord" :> "ord" @@
    "litecoin" :> "litecoin-core" @@ "ord-litecoin" :> "ord-litecoin" @@
    "dogecoin" :> "dogecoin-core" @@ "ethereum-classic" :> "core-geth" @@
    "arbitrum" :> "nitro" @@ "base" :> "base-reth" @@ "bsc" :> "bsc"

NoTestnet == "ipfs" :> "ipfs" @@ "ipfs-cluster" :> "ipfs-cluster"

Ethereum == "ethereum" :> "reth"

ExecutionAlternates == {"geth", "erigon", "besu", "nethermind"}

ConsensusNetworks == {"lighthouse", "prysm", "teku", "nimbus", "lodestar"}

Components == [c \in ConsensusNetworks |-> "ethereum"] @@ "base-consensus" :> "base"

Mainnet == Chains @@ Ethereum @@ [c \in DOMAIN Components |-> c]

MainnetNames == {Mainnet[n] : n \in DOMAIN Mainnet} \cup ExecutionAlternates

(* f with a second copy of its domain and values under the testnet names.  *)
Doubled(f) ==
    f @@ [m \in {TestnetName(n) : n \in DOMAIN f} |->
             TestnetName(f[CHOOSE n \in DOMAIN f : TestnetName(n) = m])]

RegContainerName == Doubled(Mainnet) @@ NoTestnet

RegNetworks == DOMAIN RegContainerName

BaseNames == MainnetNames \cup DOMAIN NoTestnet

RegNames == BaseNames \cup {TestnetName(c) : c \in BaseNames}

RegAlternates ==
    "ethereum" :> ExecutionAlternates @@
    TestnetName("ethereum") :> {TestnetName(c) : c \in ExecutionAlternates} @@
    [n \in RegNetworks |-> {}]

RegPartOf == Doubled(Components) @@ [n \in RegNetworks |-> None]

RegTestnetOf ==
    [n \in DOMAIN Mainnet |-> TestnetName(n)] @@ [n \in RegNetworks |-> None]

RegTestnetNames == {TestnetName(c) : c \in BaseNames}

RegAppended == [c \in RegNames |-> TestnetName(c)]
=============================================================================
