------------------------------- MODULE MCBitcoin -------------------------------
(***************************************************************************)
(* NodeLifecycle with Bitcoin and ord, mainnet and testnet: the commands   *)
(* of several terminals at once, or one after the other.                   *)
(***************************************************************************)
EXTENDS NodeLifecycle, NodevinStacks

CONSTANTS p1, p2, b1

Symmetry == Permutations({p1, p2})

MCNetworks == {"bitcoin", "bitcoin-testnet", "ord", "ord-testnet"}

MCNames ==
    {"bitcoin-core", "bitcoin-core-testnet", "ord", "ord-testnet", "mynode", "mynode-testnet"}

MCContainerName == [n \in MCNetworks |-> RegContainerName[n]]
MCAlternates == [n \in MCNetworks |-> RegAlternates[n]]
MCPartOf == [n \in MCNetworks |-> RegPartOf[n]]
MCTestnetOf == [n \in MCNetworks |-> RegTestnetOf[n]]

(* "mynode" is what a user may call a container.                           *)
MCTestnetNames == {"bitcoin-core-testnet", "ord-testnet", "mynode-testnet"}
MCAppended == [c \in MCNames |-> TestnetName(c)]
MCReads == [c \in MCNames |-> IF c \in RegNames THEN RegReads[c] ELSE {}]

MCMinting == {}

Command(op, net, testnet, extra) ==
    [op |-> op, net |-> net, testnet |-> testnet, client |-> None,
     extra |-> extra, cname |-> None, base |-> b1, l1 |-> {}]

(* Commands of two terminals on mainnet.                                   *)
MCTerminals ==
    {Command("start", "bitcoin", FALSE, "ord"), Command("stop", "bitcoin", FALSE, None),
     Command("delete", "bitcoin", FALSE, None), Command("delete", "ord", FALSE, None),
     Command("deleteAll", "bitcoin", FALSE, None), Command("stopAll", "bitcoin", FALSE, None)}

MCCommands == MCTerminals \cup {Command("update", "bitcoin", FALSE, None)}

(* A user who names the container.                                         *)
MCCustomCommands ==
    {[Command("start", "bitcoin", FALSE, None) EXCEPT !.cname = "mynode"],
     Command("delete", "bitcoin", FALSE, None)}

(* A user who runs mainnet and testnet.                                    *)
MCBothChains ==
    {Command("start", "bitcoin", testnet, extra) :
        testnet \in BOOLEAN, extra \in {None, "ord"}}

(* The same without ord.                                                   *)
MCTwoNodes == {Command("start", "bitcoin", testnet, None) : testnet \in BOOLEAN}
=============================================================================
