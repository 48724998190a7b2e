------------------------------ MODULE Discovery ------------------------------
(***************************************************************************)
(* The environment container discovery reads: what runs, what has data or  *)
(* a compose file, whether Docker answers, and the flags of the next       *)
(* command.  Any of it can change between two commands, by other commands, *)
(* by crashes or by hand, so every combination is reachable.               *)
(***************************************************************************)
EXTENDS Resolve

CONSTANTS
    Host,     \* the names that may run or leave anything on this host
    Clients   \* the client-flag values a user may give, None for no flag

ASSUME DiscoveryAssumption == None \in Clients

VARIABLES
    running,  \* names `docker ps` would list
    filed,    \* names with a compose file
    dirs,     \* names with a data directory
    psOk,     \* whether Docker answers
    flags     \* flags of the next command

vars == <<running, filed, dirs, psOk, flags>>

Ps == [ok |-> psOk, names |-> IF psOk THEN running ELSE {}]

(* hasFootprint: a data directory or a compose file.                       *)
Disk == dirs \cup filed

TypeOK ==
    /\ running \subseteq Host
    /\ filed \subseteq Host
    /\ dirs \subseteq Host
    /\ psOk \in BOOLEAN
    /\ flags \in [testnet : BOOLEAN, client : Clients]

Init ==
    /\ running = {} /\ filed = {} /\ dirs = {}
    /\ psOk = TRUE
    /\ flags = [testnet |-> FALSE, client |-> None]

(* A container nodevin generated a file for comes up or goes away.         *)
ContainerChanges ==
    /\ \E c \in Host : running' \in {running \cup {c}, running \ {c}}
    /\ UNCHANGED <<filed, dirs, psOk, flags>>

(* A start leaves a directory and a file, a delete removes them.           *)
DiskChanges ==
    /\ \E c \in Host : \/ /\ filed' \in {filed \cup {c}, filed \ {c}}
                          /\ UNCHANGED dirs
                       \/ /\ dirs' \in {dirs \cup {c}, dirs \ {c}}
                          /\ UNCHANGED filed
    /\ UNCHANGED <<running, psOk, flags>>

NextCommand ==
    /\ flags' \in [testnet : BOOLEAN, client : Clients]
    /\ psOk' \in BOOLEAN
    /\ UNCHANGED <<running, filed, dirs>>

Next == ContainerChanges \/ DiskChanges \/ NextCommand

Spec == Init /\ [][Next]_vars

-----------------------------------------------------------------------------
Resolved(n) == ResolveContainerName(n, flags, Ps, Disk)
Deleted(n) == ExplicitContainerName(n, flags)

(* `delete` finds the data it removes with one function and the node it    *)
(* stops first with another (delete.go:66 and :95, stop_node.go:53).  They *)
(* must agree, or delete stops one client and removes another's data.      *)
DeleteStopsWhatItDeletes ==
    \A n \in Networks : Deleted(n).kind = "found" => Resolved(n) = Deleted(n)

(* Whether r is container c, once the command has put it on its chain.     *)
Means(r, c) == r.kind = "found" /\ OnChain(TheOne(r.names), flags.testnet) = c

(* What `start` brought up, the same command line finds again: on either   *)
(* chain, with the suffix given by the registry's key for some networks    *)
(* and by the command for others, never by both, `delete` and `stop` arrive*)
(* at the name `start` gave the container of client k - `stop` without the *)
(* flag as well, if that client is the one that runs.  Networks without a  *)
(* testnet are left out: `start` takes them for mainnet under --testnet.   *)
NodesAreFoundAgain ==
    \A n \in {m \in Networks : TestnetOf[m] # None \/ IsTestnet(ContainerName[m])} :
        IF Selectable(n)
        THEN LET rivals == CandidateContainerNames(Registered(n, flags.testnet)) IN
             \A k \in Clients :
                LET made == StartNode([net |-> n, testnet |-> flags.testnet, client |-> k]) IN
                made \in rivals =>
                    /\ flags.client = k /\ k # None =>
                          Means(Deleted(n), made) /\ Means(Resolved(n), made)
                    /\ flags.client = None /\ psOk /\ rivals \cap running = {made} =>
                          Means(Resolved(n), made)
        ELSE LET made == StartNode([net |-> n, testnet |-> flags.testnet, client |-> None]) IN
             Means(Deleted(n), made) /\ Means(Resolved(n), made)

(* A running client is never passed over: when Docker answers and no flag  *)
(* is given, a command either acts on the only running client of the       *)
(* network or says that several run; it never falls back to what is on     *)
(* disk, so `stop` cannot report an idle network while a client runs.      *)
RunningClientIsFound ==
    \A n \in Networks :
        LET up == CandidateContainerNames(EffectiveNetwork(n, flags.testnet)) \cap running
        IN  psOk /\ flags.client = None /\ Selectable(n) /\ up # {}
            => Resolved(n) \in {Found(c) : c \in up} \cup {AmbiguousRunning(up)}
               /\ (Resolved(n).kind = "found" => up = Resolved(n).names)

(* An update of a stack component rewires nothing: a running component     *)
(* without a file of its own is managed by the file of the one client of   *)
(* its own stack that runs, whatever other clients left on disk, provided  *)
(* the command names no other client.                                      *)
ComponentsFollowTheRunningClient ==
    \A n \in {m \in Networks : InStack(m)} : \A c \in CandidateContainerNames(PartOf[n]) :
        LET stack == CandidateContainerNames(PartOf[n]) \cap running
        IN  psOk /\ ~flags.testnet /\ flags.client = None
            /\ stack = {c} /\ c \in filed /\ ContainerName[n] \notin filed
            => FindComposeFileForContainer(ContainerName[n], flags, Ps, Disk, filed) = c
=============================================================================
