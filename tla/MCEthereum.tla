------------------------------ MODULE MCEthereum ------------------------------
(***************************************************************************)
(* NodeLifecycle with the Ethereum and Base part of the registry: two      *)
(* Ethereum clients per chain, one consensus client, one data directory.   *)
(***************************************************************************)
EXTENDS NodeLifecycle, NodevinStacks

CONSTANTS p1, b1

Chain(S) == S \cup {TestnetName(x) : x \in S}

MCNetworks == Chain({"ethereum", "lighthouse", "base", "base-consensus"})
MCNames == Chain({"reth", "geth", "lighthouse", "base-reth", "base-consensus"})

MCContainerName == [n \in MCNetworks |-> RegContainerName[n]]
MCAlternates == [n \in MCNetworks |-> RegAlternates[n] \cap MCNames]
MCPartOf == [n \in MCNetworks |-> RegPartOf[n]]
MCTestnetOf == [n \in MCNetworks |-> RegTestnetOf[n]]
MCTestnetNames == RegTestnetNames \cap MCNames
MCAppended == [c \in MCNames |-> RegAppended[c]]
MCReads == [c \in MCNames |-> RegReads[c]]

MCMinting == RegMinting

Command(op, testnet, client, extra) ==
    [op |-> op, net |-> "ethereum", testnet |-> testnet, client |-> client,
     extra |-> extra, cname |-> None, base |-> b1, l1 |-> {}]

(* Base attached to the default Ethereum node.                             *)
StartBase ==
    [Command("start", FALSE, None, "base-consensus")
        EXCEPT !.net = "base", !.l1 = {"reth", "lighthouse"}]

MCCommands ==
    {Command("start", FALSE, None, "lighthouse"), Command("start", FALSE, "geth", "lighthouse"),
     Command("start", TRUE, None, "lighthouse"), StartBase,
     Command("stop", FALSE, None, None), Command("stop", FALSE, "geth", None),
     Command("delete", FALSE, "geth", None),
     [Command("delete", FALSE, None, None) EXCEPT !.net = "lighthouse"],
     Command("stopAll", FALSE, None, None), Command("deleteAll", FALSE, None, None)}
=============================================================================
