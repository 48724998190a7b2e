------------------------------ MODULE Registry ------------------------------
(***************************************************************************)
(* The network registry (internal/utils/utils.go) and the operators that   *)
(* read it (internal/utils/resolve.go).  A network has one default         *)
(* container, possibly alternates its client flag selects between, and may *)
(* be part of another network's compose stack.                             *)
(***************************************************************************)
EXTENDS FiniteSets, Naturals

CONSTANTS
    Networks,       \* keys of networkInfoMap
    Names,          \* container names, also names of data directories
    None,           \* an absent value
    ContainerName,  \* network -> its default container
    Alternates,     \* network -> the other containers it can run as
    PartOf,         \* network -> the network whose stack it runs in, or None
    TestnetOf,      \* network -> the key with "-testnet" appended, or None
    TestnetNames,   \* the names that end in "-testnet"
    Appended        \* name -> the name with "-testnet" after it

(* Every container the primary service of n may run as. *)
CandidateContainerNames(n) == {ContainerName[n]} \cup Alternates[n]

(* Every container any registered network can run as. *)
AllContainerNames == UNION {CandidateContainerNames(n) : n \in Networks}

(* Networks whose client a flag selects (ClientFlag is set exactly on the  *)
(* networks with alternates).                                              *)
Selectable(n) == Alternates[n] # {}

InStack(n) == PartOf[n] # None

ComponentNetworks(n) == {m \in Networks : PartOf[m] = n}

(* Under --testnet only the Ethereum stack and stack components change key;*)
(* every other network keeps its key and its callers add the suffix.       *)
EffectiveNetwork(n, testnet) ==
    IF testnet /\ (Selectable(n) \/ InStack(n)) /\ TestnetOf[n] # None
    THEN TestnetOf[n]
    ELSE n

IsTestnet(c) == c \in TestnetNames

(* Mutant: the name is not looked at first.                                *)
OnChainTwice(c, testnet) == IF testnet THEN Appended[c] ELSE c

(* What stop and delete do to a resolved name: append the suffix under     *)
(* --testnet unless it is there already.                                   *)
OnChain(c, testnet) == IF testnet /\ ~IsTestnet(c) THEN Appended[c] ELSE c

ASSUME RegistryAssumption ==
    /\ None \notin Networks \cup Names
    /\ IsFiniteSet(Names)
    /\ ContainerName \in [Networks -> Names]
    /\ Alternates \in [Networks -> SUBSET Names]
    /\ PartOf \in [Networks -> Networks \cup {None}]
    /\ TestnetOf \in [Networks -> Networks \cup {None}]
    /\ TestnetNames \subseteq Names
    /\ DOMAIN Appended = Names
    /\ \A c \in Names \ TestnetNames : Appended[c] \in TestnetNames
    \* a component is never itself selectable, nor its stack a component
    /\ \A n \in Networks : InStack(n) => ~Selectable(n) /\ ~InStack(PartOf[n])
    \* a container runs in one stack
    /\ \A m, n \in Networks : ContainerName[m] = ContainerName[n] => PartOf[m] = PartOf[n]
    \* a network's clients are all of one chain
    /\ \A n \in Networks : \A c, d \in CandidateContainerNames(n) :
          IsTestnet(c) <=> IsTestnet(d)
=============================================================================
