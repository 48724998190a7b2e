---------------------------- MODULE NodevinStacks ----------------------------
(***************************************************************************)
(* What the compose builders (pkg/docker/compose/*_config.go) put into the *)
(* services of each container - the host ports it publishes and the other  *)
(* containers' data it mounts - and which services `start` puts together   *)
(* (pkg/nodes/*/*.go).  TCP and UDP ports are not told apart: no builder   *)
(* uses a number for one that another uses for the other.                  *)
(***************************************************************************)
EXTENDS NodevinRegistry

(* The service of container c and of its testnet twin.                     *)
Pair(c, ports, testnetPorts) ==
    c :> [ports |-> ports, reads |-> {}] @@
    TestnetName(c) :> [ports |-> testnetPorts, reads |-> {}]

Reading(c, ports, reads) == c :> [ports |-> ports, reads |-> {reads}]

BitcoinServices == Pair("bitcoin-core", {8332, 8333}, {18332, 18333})
LitecoinServices == Pair("litecoin-core", {9332, 9333}, {19332, 19333})
DogecoinServices == Pair("dogecoin-core", {22555, 22556}, {44555, 44556})
ClassicServices == Pair("core-geth", {8545, 30303}, {8546, 30304})
ArbitrumServices == Pair("nitro", {8552, 8553, 9642}, {8556, 8557, 9643})
BaseServices == Pair("base-reth", {8558, 8559, 30307, 9200}, {8563, 8564, 30308, 9201})
BaseConsensusServices == Pair("base-consensus", {9545, 9222, 9223}, {9546, 9224, 9225})
BscServices == Pair("bsc", {8565, 8566, 30311}, {8567, 8568, 30312})

OrdServices ==
    Reading("ord", {80}, "bitcoin-core") @@
    Reading(TestnetName("ord"), {8081}, TestnetName("bitcoin-core"))

OrdLitecoinServices ==
    Reading("ord-litecoin", {8082}, "litecoin-core") @@
    Reading(TestnetName("ord-litecoin"), {8083}, TestnetName("litecoin-core"))

KuboServices == "ipfs" :> [ports |-> {4001, 5001, 8080}, reads |-> {}]
ClusterServices == Reading("ipfs-cluster", {9094, 9096}, "ipfs")

(* The five execution clients share their ports, chain by chain.           *)
ExecutionClientNames == ExecutionAlternates \cup {"reth"}
ExecutionServices ==
    [c \in ExecutionClientNames |-> [ports |-> {8547, 8548, 30305}, reads |-> {}]] @@
    [c \in {TestnetName(x) : x \in ExecutionClientNames} |->
        [ports |-> {8549, 8550, 30306}, reads |-> {}]]

(* The consensus clients use the same ports on both chains.                *)
Consensus(c, ports) == Pair(c, ports, ports)
ConsensusServices ==
    Consensus("lighthouse", {5052, 9000}) @@ Consensus("prysm", {3500, 13000, 12000}) @@
    Consensus("teku", {5051, 9000}) @@ Consensus("nimbus", {5052, 9000, 9001}) @@
    Consensus("lodestar", {9596, 9000})

ServicesOf ==
    BitcoinServices @@ LitecoinServices @@ DogecoinServices @@ ClassicServices @@
    ArbitrumServices @@ BaseServices @@ BaseConsensusServices @@ BscServices @@
    OrdServices @@ OrdLitecoinServices @@ KuboServices @@ ClusterServices @@
    ExecutionServices @@ ConsensusServices @@
    [c \in RegNames \cup {"watchtower"} |-> [ports |-> {}, reads |-> {}]]

RegPorts == [c \in AllContainerNames \cup {"watchtower"} |-> ServicesOf[c].ports]
RegReads == [c \in RegNames |-> ServicesOf[c].reads]

(* The image of each service: both chains share one, and only Watchtower's *)
(* is not nodevin's own.                                                   *)
RegImageOf ==
    [s \in AllContainerNames \cup {"watchtower"} |->
        IF s = "watchtower" THEN None
        ELSE IF s = "ipfs" THEN "kubo"
        ELSE CHOOSE c \in BaseNames : s \in {c, TestnetName(c)}]

(* The images that hold nothing to seed a data directory with.             *)
SkipInitCopy == {"nitro", "base-reth", "base-consensus", "bsc"}

RegSeeded == {s \in AllContainerNames : RegImageOf[s] \notin SkipInitCopy}

(* The services `start` adds to a network's own, or None.                  *)
BitcoinExtras == "bitcoin" :> {None, "ord"}
LitecoinExtras == "litecoin" :> {None, "ord-litecoin"}
KuboExtras == "ipfs" :> {None, "ipfs-cluster"}
EthereumExtras == "ethereum" :> ConsensusNetworks \cup {None}
BaseExtras == "base" :> {"base-consensus"}

RegStartable ==
    {"bitcoin", "ord", "litecoin", "ord-litecoin", "ipfs", "dogecoin", "ethereum",
     "ethereum-classic", "arbitrum", "base", "bsc"}

ExtrasOf ==
    BitcoinExtras @@ LitecoinExtras @@ KuboExtras @@ EthereumExtras @@ BaseExtras @@
    [n \in RegStartable |-> {None}]

(* Written first without the extra, whose service has a fixed name, which  *)
(* always restarts, and which keeps to its own data.                       *)
RegPlainFirst == {"bitcoin", "litecoin", "ipfs"}
RegOwnKey == {"ord", "ord-litecoin"}
RegAlwaysUp == {"ord", "ord-litecoin", "ipfs-cluster"}
RegOwnDataOnly == {"base-consensus"}

(* Its two clients share a secret that nodevin makes.                      *)
RegMinting == {"base", "base-testnet"}
=============================================================================
