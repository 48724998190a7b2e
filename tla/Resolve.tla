------------------------------- MODULE Resolve -------------------------------
(***************************************************************************)
(* How `start` names a node's container (pkg/nodes/*, pkg/docker/compose/  *)
(* *_config.go), and how every other command finds the container it acts   *)
(* on: the client flag, then what runs, then what is on disk               *)
(* (internal/utils/resolve.go).                                            *)
(*                                                                         *)
(*   flags  [testnet |-> BOOLEAN, client |-> a name or None]               *)
(*   ps     what `docker ps` answered, [ok |-> BOOLEAN, names |-> set]     *)
(*   disk   the names that have a data directory or a compose file         *)
(***************************************************************************)
EXTENDS Registry

Found(c) == [kind |-> "found", names |-> {c}]
Refused == [kind |-> "refused", names |-> {}]
AmbiguousRunning(S) == [kind |-> "ambiguousRunning", names |-> S]
AmbiguousOnDisk(S) == [kind |-> "ambiguousOnDisk", names |-> S]

TheOne(S) == CHOOSE x \in S : TRUE

(* The key `start` reads the registry with: on either chain its own.       *)
Registered(n, testnet) ==
    IF testnet /\ TestnetOf[n] # None THEN TestnetOf[n] ELSE n

(* The container and service name `start` gives the primary service of a   *)
(* command with the fields net, testnet and client.                        *)
StartNode(c) ==
    IF Selectable(c.net) /\ c.client # None
    THEN IF c.testnet THEN Appended[c.client] ELSE c.client
    ELSE ContainerName[Registered(c.net, c.testnet)]

(* The candidates the flag's value names: "geth" also means "geth-testnet".*)
ExplicitClient(n, flags) ==
    {c \in CandidateContainerNames(n) :
        flags.client # None /\ c \in {flags.client, Appended[flags.client]}}

(* Mutant: only the default container is looked for.                       *)
RunningDefault(n, ps) == {ContainerName[n]} \cap ps.names

RunningCandidates(n, ps) == CandidateContainerNames(n) \cap ps.names

ResolveContainerName(network, flags, ps, disk) ==
    LET n       == EffectiveNetwork(network, flags.testnet)
        running == RunningCandidates(n, ps)
        present == CandidateContainerNames(n) \cap disk
    IN  CASE ~Selectable(n) -> Found(ContainerName[n])
          [] Selectable(n) /\ flags.client # None ->
                IF ExplicitClient(n, flags) = {} THEN Refused
                ELSE Found(TheOne(ExplicitClient(n, flags)))
          [] Selectable(n) /\ flags.client = None ->
                IF ps.ok /\ running # {}
                THEN IF Cardinality(running) = 1 THEN Found(TheOne(running))
                     ELSE AmbiguousRunning(running)
                ELSE IF present = {} THEN Found(ContainerName[n])
                     ELSE IF Cardinality(present) = 1 THEN Found(TheOne(present))
                     ELSE AmbiguousOnDisk(present)

(* Mutant: without a flag the default client is taken.                     *)
ExplicitOrDefault(network, flags) ==
    LET n == EffectiveNetwork(network, flags.testnet)
    IN  IF ExplicitClient(n, flags) = {} THEN Found(ContainerName[n])
        ELSE Found(TheOne(ExplicitClient(n, flags)))

(* For the destructive commands: a selectable client is never inferred.    *)
ExplicitContainerName(network, flags) ==
    LET n == EffectiveNetwork(network, flags.testnet)
    IN  IF ~Selectable(n) THEN Found(ContainerName[n])
        ELSE IF ExplicitClient(n, flags) = {} THEN Refused
        ELSE Found(TheOne(ExplicitClient(n, flags)))

(* Mutant: a component is managed by the file of the default client.       *)
FindDefaultStackFile(c, flags, ps, disk, filed) ==
    LET owners == {PartOf[n] : n \in {m \in Networks : ContainerName[m] = c /\ InStack(m)}}
    IN  IF c \in filed THEN c
        ELSE IF owners # {} /\ ContainerName[TheOne(owners)] \in filed
             THEN ContainerName[TheOne(owners)]
        ELSE None

(* The name whose compose file manages container c, or None: its own, or   *)
(* that of the stack it is a component of.  filed: names with such a file. *)
FindComposeFileForContainer(c, flags, ps, disk, filed) ==
    LET owners == {PartOf[n] : n \in {m \in Networks : ContainerName[m] = c /\ InStack(m)}}
        stack  == ResolveContainerName(TheOne(owners), flags, ps, disk)
    IN  IF c \in filed THEN c
        ELSE IF owners # {} /\ stack.kind = "found" /\ stack.names \subseteq filed
             THEN TheOne(stack.names)
        ELSE None
=============================================================================
