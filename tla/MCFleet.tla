------------------------------- MODULE MCFleet -------------------------------
(***************************************************************************)
(* NodeLifecycle with the whole registry: every way to start a node after  *)
(* every other, on either chain, and to bring it up to date; and two stacks*)
(* of Ethereum, Base or Bitcoin, brought up to date together.              *)
(***************************************************************************)
EXTENDS NodeLifecycle, NodevinStacks

CONSTANTS p1, b1

Start(net, testnet, client, extra) ==
    [op |-> "start", net |-> net, testnet |-> testnet, client |-> client,
     extra |-> extra, cname |-> None, base |-> b1, l1 |-> {}]

MCClients(net) == IF net = "ethereum" THEN {None, "nethermind"} ELSE {None}

MCTestnets(net) == IF TestnetOf[net] = None THEN {FALSE} ELSE BOOLEAN

(* One of the ord extras only, see RegOwnKey.                              *)
MCStarts ==
    {c \in UNION {{Start(net, testnet, client, extra) :
                      testnet \in MCTestnets(net), client \in MCClients(net),
                      extra \in ExtrasOf[net]} : net \in RegStartable} :
        c.testnet => c.extra \notin RegOwnKey}

MCUpdate == [Start("bitcoin", FALSE, None, None) EXCEPT !.op = "update"]

(* Layer-2 nodes attached to an Ethereum node of nodevin's own.            *)
MCAttached ==
    {[c EXCEPT !.l1 = {StartNode(e), OnChain(e.extra, c.testnet)}] :
        c \in {d \in MCStarts : d.net \in {"arbitrum", "base"}},
        e \in {d \in MCStarts : d.net = "ethereum" /\ d.extra = "lighthouse"}}

(* The stacks that are updated in pairs: with clients that share a second  *)
(* one, with two clients, or with an image in common.                      *)
MCPairs == {"reth", "nethermind", "base-reth", "bitcoin-core", "bitcoin-core-testnet"}
MCSecond == {"lighthouse", "base-consensus", Watchtower}

MCPublished == {"bitcoin-core", "reth", "nethermind", "lighthouse", "base-reth", "base-consensus"}

(* Bounds: newer images are published while an update is under way, the    *)
(* only one to look for them, and with three commands as it begins; the    *)
(* third command is the update, after two starts of MCPairs and one exit.  *)
(* Containers still exit after other starts, but no command will see it.   *)
MCBounded ==
    /\ outdated # {} => cmd[p1].op = "update"
    /\ begun = 3 => /\ cmd[p1].op = "update"
                    /\ Cardinality({s \in Services : status[s] = "exited"}) <= 1
    /\ begun = 3 \/ (begun = 2 /\ pc[p1] \in Resting) =>
          \A n \in Names : \A d \in files[<<b1, n>>] :
              n \in MCPairs /\ d.svc \in MCPairs \cup MCSecond

MCPublishing == begun = 3 /\ pc[p1] # "images" => outdated' \subseteq outdated

MCCommands ==
    MCStarts \cup {MCUpdate} \cup
    {c \in MCAttached : \A x \in c.l1 : IsTestnet(x) <=> c.testnet}
=============================================================================
