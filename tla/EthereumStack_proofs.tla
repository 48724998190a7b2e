------------------------- MODULE EthereumStack_proofs -------------------------
(***************************************************************************)
(* A start that succeeds made the stack it was asked for, and of Ethereum  *)
(* one stack runs at most, for commands given one after the other.         *)
(***************************************************************************)
EXTENDS StopTruth_proofs

-----------------------------------------------------------------------------
(* Starts that passed their checks                                         *)

(* From createComposeFileForNetwork on a start only works for its network. *)
AtStart == {"mint", "plain", "pullExtra", "write", "up", "starting", "cleanup"}
Starting(p) == cmd[p].op = "start" /\ pc[p] \in AtStart

LEMMA StartComesFrom ==
  ASSUME TypeInv, [Next]_vars, NEW p \in Procs, Starting(p)'
  PROVE  cmd'[p] = cmd[p] /\ (Starting(p) \/ Create(p))
<1> USE Types DEF Starting, AtStart
<1>1. CASE Begin(p) \/ Kill(p)
  BY <1>1, Leads
<1>2. CASE Step(p)
  <2>1. cmd'[p] = cmd[p]
    BY <1>2, CommandKeeps
  <2>2. UpdatePull(p) => cmd[p].op = "update"
    BY DEF UpdatePull, At, TypeInv, Control, ControlOf
  <2>3. Mint(p) \/ WritePlain(p) \/ PullExtra(p) \/ Write(p) \/ UpCreate(p) \/ UpStart(p)
        \/ UpReturns(p) => pc[p] \in AtStart
    BY DEF Mint, WritePlain, PullExtra, Write, UpCreate, UpStart, UpReturns, At
  <2> QED BY <1>2, <2>1, <2>2, <2>3, Leads DEF Step
<1>3. ASSUME NEW q \in Procs \ {p}, Begin(q) \/ Kill(q) \/ Step(q)
      PROVE  cmd'[p] = cmd[p] /\ Starting(p)
  BY <1>3, OthersKeep
<1>4. CASE ContainerExits \/ Publish \/ UNCHANGED vars
  BY <1>4 DEF ContainerExits, Publish, vars
<1> QED BY <1>1, <1>2, <1>3, <1>4 DEF Next

(* Its network is one that `start` knows.                                  *)
Accepted == \A p \in Procs : Starting(p) => cmd[p].net \in Startable

LEMMA AcceptedNext ==
  ASSUME TypeInv, Accepted, [Next]_vars
  PROVE  Accepted'
<1> SUFFICES ASSUME NEW p \in Procs, Starting(p)'
             PROVE  cmd[p].net \in Startable /\ cmd'[p] = cmd[p]
  BY DEF Accepted
<1>1. CASE Create(p)
  BY <1>1, StartComesFrom, Types DEF Create, Goto, Starting, AtStart
<1> QED BY <1>1, StartComesFrom DEF Accepted

-----------------------------------------------------------------------------
(* The stack a start makes                                                 *)

LEMMA CommandFields ==
  ASSUME NEW c \in Commands
  PROVE  /\ c.net \in Networks /\ c.testnet \in BOOLEAN /\ c.base \in Bases
         /\ c.extra \in Networks \cup {None}
  BY LifecycleAssumption

(* Its services have different names.                                      *)
LEMMA ServicesDiffer ==
  ASSUME NEW c \in Commands, c.op = "start", c.net \in Startable, NEW k,
         NEW d \in FullStack(c, k), NEW e \in FullStack(c, k), d.svc = e.svc
  PROVE  d = e
<1> DEFINE W == [NoDef EXCEPT !.watch = {r.svc : r \in Requested(c, k)}]
<1>1. W.svc = Watchtower
  BY DEF NoDef
<1>2. MainDef(c, k).svc = StartNode(c) /\ StartNode(c) \in Names
  BY LifecycleAssumption, ContainersAreNames DEF MainDef
<1>3. ASSUME c.extra # None
      PROVE  ExtraDef(c, k).svc \in Names \ {StartNode(c)}
  <2>1. Registered(c.extra, c.testnet) \in Networks /\ c.extra \in Networks
    BY <1>3, CommandFields, EffectiveIsNetwork
  <2>2. ExtraDef(c, k).svc
          \in {ContainerName[c.extra], ContainerName[Registered(c.extra, c.testnet)]}
    BY DEF ExtraDef
  <2> QED BY <1>3, <2>1, <2>2, RegistryAssumption, StackAssumption
<1>4. FullStack(c, k) = Requested(c, k) \cup {W}
  BY DEF FullStack, WithWatchtower
<1> HIDE DEF W
<1>5. Watchtower \notin Names
  BY LifecycleAssumption
<1>6. \A r \in Requested(c, k) : r.svc # W.svc
  BY <1>1, <1>2, <1>3, <1>5 DEF Requested
<1>7. d \in Requested(c, k) /\ e \in Requested(c, k) => d = e
  BY <1>2, <1>3 DEF Requested
<1> QED BY <1>4, <1>6, <1>7

(* Once its compose file is written, a start has the file, and then the    *)
(* containers, of exactly the services it was asked for.                   *)
MadeBy(p) ==
    LET D == FullStack(cmd[p], secret[p]) IN
    /\ pc[p] = "up" => files[ComposeFile(p)] = D
    /\ pc[p] \in {"starting", "cleanup"} =>
          /\ ids[p] = {d.svc : d \in D}
          /\ \A d \in D : Exists(d.svc) /\ def[d.svc] = d

StackMade == \A p \in Procs : Starting(p) => MadeBy(p)

LEMMA StackMadeNext ==
  ASSUME OneProcess, "mkdir" \notin Faults, TypeInv, Accepted, StackMade, [Next]_vars
  PROVE  StackMade'
<1> SUFFICES ASSUME NEW p \in Procs, Starting(p)', pc'[p] \in {"up", "starting", "cleanup"}
             PROVE  MadeBy(p)'
  BY DEF StackMade, MadeBy
<1> USE Types
<1> DEFINE c == cmd[p]
           D == FullStack(c, secret[p])
<1>1. c \in Commands /\ c.op = "start" /\ cmd'[p] = c /\ Starting(p) /\ c.net \in Startable
  BY StartComesFrom, Leads DEF Starting, Accepted
<1>2. \A q \in Procs : q = p
  BY DEF OneProcess
<1>3. CASE Write(p)
  <2>1. pc'[p] = "up"
    BY <1>3, Leads
  <2>2. files' = [files EXCEPT ![ComposeFile(p)] = D] /\ UNCHANGED <<cmd, secret, node>>
    BY <1>3, <2>1 DEF Write, WriteFile, WriteFails, CallFails, local, held
  <2>3. ComposeFile(p) \in Bases \X Names /\ ComposeFile(p)' = ComposeFile(p)
    BY <1>3, <2>2, StartWrites DEF ComposeFile
  <2> QED BY <2>1, <2>2, <2>3 DEF MadeBy
<1>4. CASE UpCreate(p)
  <2>1. pc[p] = "up" /\ UNCHANGED <<cmd, secret>>
    BY <1>4 DEF UpCreate, At, held
  <2>2. files[ComposeFile(p)] = D /\ pc'[p] = "starting"
    BY <1>1, <1>4, <2>1, Leads DEF StackMade, MadeBy
  <2>3. PICK T \in SUBSET D :
          /\ ids' = [ids EXCEPT ![p] = {d.svc : d \in T}]
          /\ \A d \in T : \E e \in T : e.svc = d.svc /\ def'[d.svc] = e
          /\ \A d \in T : status'[d.svc] # "absent"
          /\ T = D
    <3>1. ~UpFails(p) /\ ~UpEnds(p, "failed")
      BY <1>1, <2>2 DEF UpFails, UpEnds, Goto
    <3> QED BY <1>4, <2>2, <3>1, UpEffect
  <2>4. \A d \in D : def'[d.svc] = d
    BY <1>1, <2>3, ServicesDiffer
  <2> QED BY <2>1, <2>2, <2>3, <2>4 DEF MadeBy, Exists
<1>5. CASE ~Write(p) /\ ~UpCreate(p)
  <2>1. CASE Begin(p) \/ Kill(p)
    BY <2>1, Leads DEF Starting, AtStart
  <2>2. CASE UpStart(p) \/ UpReturns(p) \/ ContainerExits \/ Publish \/ UNCHANGED vars
    <3>1. UNCHANGED <<files, cmd, secret, node, ids>>
      BY <2>2 DEF UpStart, UpReturns, ContainerExits, Publish, vars, host, local, held
    <3>2. pc'[p] = pc[p] \/ (pc[p] = "starting" /\ pc'[p] = "cleanup")
      BY <1>1, <2>2, Leads
         DEF UpStart, UpReturns, UpEnds, UpFails, At, Goto, ContainerExits, Publish, vars
    <3>3. def' = def /\ \A s \in Services : status'[s] # "absent" <=> Exists(s)
      <4>1. CASE UpStart(p)
        <5>1. PICK s : status[s] = "created" /\ status' = [status EXCEPT ![s] = "running"]
          BY <4>1 DEF UpStart
        <5> QED BY <4>1, <5>1 DEF UpStart, Exists
      <4>2. CASE UpReturns(p) \/ ContainerExits \/ Publish \/ UNCHANGED vars
        BY <4>2 DEF UpReturns, host, ContainerExits, Publish, vars, Running, Exists
      <4> QED BY <2>2, <4>1, <4>2
    <3>4. ComposeFile(p)' = ComposeFile(p)
      BY <3>1 DEF ComposeFile
    <3>5. \A d \in D : d.svc \in Services
      <4>1. secret[p] \in Secrets \cup {None}
        OBVIOUS
      <4> QED BY <1>1, <4>1, RequestedIsTyped, DefinitionFields
    <3> QED BY <1>1, <3>1, <3>2, <3>3, <3>4, <3>5 DEF StackMade, MadeBy, Exists
  <2>3. CASE Step(p) /\ ~UpStart(p) /\ ~UpReturns(p)
    <3>1. UpdatePull(p)
      BY <1>5, <2>3, Leads DEF Step
    <3> QED BY <1>1, <3>1 DEF UpdatePull, At, TypeInv, Control, ControlOf
  <2> QED BY <1>2, <2>1, <2>2, <2>3 DEF Next
<1> QED BY <1>3, <1>4, <1>5

LEMMA StackMadeInvariant ==
  ASSUME OneProcess, "mkdir" \notin Faults
  PROVE  Spec => [](TypeInv /\ Accepted /\ StackMade)
<1>1. Init => Accepted /\ StackMade
  BY DEF Init, Accepted, StackMade, Starting, AtStart
<1>2. TypeInv /\ Accepted /\ StackMade /\ [Next]_vars => Accepted' /\ StackMade'
  BY AcceptedNext, StackMadeNext
<1> QED BY <1>1, <1>2, TypeCorrect, PTL DEF Spec

(* What the invariant says when a start ends: its services are there as    *)
(* asked for, and Watchtower is told of all of them.                       *)
LEMMA StackIsTrue ==
  ASSUME NoCustomNames, KeysMatchNames, TypeInv, StackMade, NEW p \in Procs, At(p, "cleanup")
  PROVE  /\ \A d \in Requested(cmd[p], secret[p]) :
               /\ Exists(d.svc) /\ def[d.svc] = d
               /\ d.name \in def[Watchtower].watch
         /\ Exists(Watchtower)
<1> DEFINE R == Requested(cmd[p], secret[p])
           W == [NoDef EXCEPT !.watch = {d.svc : d \in R}]
<1>1. Starting(p) /\ MadeBy(p)
  BY DEF At, Starting, AtStart, StackMade, TypeInv, Control, ControlOf, StartLabels
<1>2. FullStack(cmd[p], secret[p]) = R \cup {W}
  BY DEF FullStack, WithWatchtower
<1>3. \A d \in R \cup {W} : Exists(d.svc) /\ def[d.svc] = d
  BY <1>1, <1>2 DEF MadeBy, At
<1>4. W.svc = Watchtower /\ W.watch = {d.svc : d \in R}
  BY DEF NoDef
<1>5. \A d \in R : d.name = d.svc
  <2>1. cmd[p] \in Commands /\ cmd[p].op = "start"
    BY DEF At, TypeInv, TypeOK, Control, ControlOf, StartLabels
  <2> QED BY <1>2, <2>1, RequestedIsKeyed
<1> HIDE DEF R, W
<1>6. def[Watchtower] = W /\ Exists(Watchtower)
  BY <1>3, <1>4
<1> QED BY <1>3, <1>4, <1>5, <1>6 DEF R

(* Whatever other commands left behind, and wherever calls fail or a       *)
(* command is interrupted: a start that succeeds has made every container  *)
(* it was asked for, from this request, and put each on the watch list     *)
(* (compose.go:485-531).  An extra whose directory cannot be made is left  *)
(* out, and Watchtower, told service names, misses a container of another  *)
(* name: the hypotheses exclude both.                                      *)
THEOREM StartsTellTheTruth ==
  ASSUME OneProcess, "mkdir" \notin Faults, NoCustomNames, KeysMatchNames
  PROVE  Spec => StartTruth
<1>1. ASSUME TypeInv, StackMade
      PROVE  \A p \in Procs : (At(p, "cleanup") /\ pc'[p] = "done") =>
               /\ \A d \in Requested(cmd[p], secret[p]) :
                     /\ Exists(d.svc) /\ def[d.svc] = d
                     /\ d.name \in def[Watchtower].watch
               /\ Exists(Watchtower)
  BY <1>1, StackIsTrue
<1> QED BY <1>1, StackMadeInvariant, PTL DEF StartTruth

-----------------------------------------------------------------------------
(* The Ethereum containers of a start                                      *)

Clients == ExecutionClients \cup ConsensusClients

Members(c) ==
    {StartNode(c)} \cup IF c.extra = None THEN {}
                        ELSE {ContainerName[Registered(c.extra, c.testnet)]}

(* Services and containers have the same names.                            *)
LEMMA ServicesAreMembers ==
  ASSUME NoCustomNames, KeysMatchNames, NEW c \in Commands, c.op = "start", NEW k,
         NEW D \in {PlainStack(c, k), FullStack(c, k)}, NEW d \in D
  PROVE  d.svc \in Members(c) \cup {Watchtower}
<1>1. MainDef(c, k).svc = StartNode(c)
  BY DEF MainDef
<1>2. ExtraDef(c, k).svc = ContainerName[Registered(c.extra, c.testnet)]
  BY DEF ExtraDef, KeysMatchNames
<1>3. \A r \in Requested(c, k) : r.svc \in Members(c)
  BY <1>1, <1>2 DEF Requested, Members
<1>4. \A S : \A r \in WithWatchtower(S) : r \in S \/ r.svc = Watchtower
  BY DEF WithWatchtower, NoDef
<1>5. MainDef(c, k) \in Requested(c, k)
  BY DEF Requested
<1> QED BY <1>3, <1>4, <1>5 DEF PlainStack, FullStack

(* The check for conflicts sees every Ethereum client of both chains.      *)
LEMMA NoConflictsLeft ==
  ASSUME NEW c \in Commands, c.net \in Startable, Selectable(c.net),
         NEW names, ConflictingContainers(c, names) = {}
  PROVE  names \cap Clients \subseteq Members(c)
<1> SUFFICES ASSUME NEW x \in names \cap Clients
             PROVE  \E n \in {c.net, TestnetOf[c.net]} \ {None} : x \in EthereumMembers(n)
  BY DEF ConflictingContainers, Members
<1>1. \A m \in Networks : Selectable(m) => m \in {c.net, TestnetOf[c.net]} \ {None}
  BY CommandFields, StackAssumption, RegistryAssumption
<1>2. CASE x \in ExecutionClients
  <2>1. PICK m \in Networks : Selectable(m) /\ x \in CandidateContainerNames(m)
    BY <1>2 DEF ExecutionClients
  <2> QED BY <1>1, <2>1 DEF EthereumMembers
<1>3. CASE x \in ConsensusClients
  <2>1. PICK n \in Networks : InStack(n) /\ Selectable(PartOf[n]) /\ x = ContainerName[n]
    BY <1>3 DEF ConsensusClients
  <2>2. PartOf[n] \in Networks
    BY <2>1, RegistryAssumption DEF InStack
  <2>3. x \in EthereumMembers(PartOf[n])
    BY <2>1 DEF EthereumMembers, ComponentNetworks, CandidateContainerNames
  <2> QED BY <1>1, <2>1, <2>2, <2>3
<1> QED BY <1>2, <1>3 DEF Clients

(* A network's main container is of no other stack.                        *)
LEMMA MainContainer ==
  ASSUME NEW n \in Networks
  PROVE  /\ ContainerName[n] \in ExecutionClients <=> Selectable(n)
         /\ ContainerName[n] \in ConsensusClients <=> InStack(n) /\ Selectable(PartOf[n])
<1>1. ContainerName[n] \in CandidateContainerNames(n)
  BY DEF CandidateContainerNames
<1>2. \A m \in Networks : ContainerName[n] \in CandidateContainerNames(m) => m = n
  BY <1>1, StackAssumption
<1>3. \A m \in Networks : ContainerName[n] = ContainerName[m] => PartOf[m] = PartOf[n]
  BY RegistryAssumption
<1> QED BY <1>1, <1>2, <1>3 DEF ExecutionClients, ConsensusClients, InStack

(* A start of Ethereum has one client of each kind, of one chain.          *)
LEMMA EthereumStart ==
  ASSUME NEW c \in Commands, c.op = "start", c.net \in Startable, Selectable(c.net)
  PROVE  /\ StartNode(c) \in ExecutionClients \ ConsensusClients
         /\ c.extra # None =>
               LET x == ContainerName[Registered(c.extra, c.testnet)]
               IN  /\ x \in ConsensusClients \ ExecutionClients
                   /\ IsTestnet(x) <=> IsTestnet(StartNode(c))
<1> DEFINE n == Registered(c.net, c.testnet)
           e == Registered(c.extra, c.testnet)
<1>1. n \in Networks /\ Selectable(n) /\ StartNode(c) \in CandidateContainerNames(n)
  BY CommandFields, EffectiveIsNetwork, StackAssumption
<1>2. StartNode(c) \notin ConsensusClients
  <2> SUFFICES ASSUME NEW m \in Networks, InStack(m), StartNode(c) = ContainerName[m]
               PROVE  FALSE
    BY DEF ConsensusClients
  <2>1. m = n
    BY <1>1, StackAssumption DEF CandidateContainerNames
  <2> QED BY <1>1, <2>1, RegistryAssumption
<1>3. ASSUME c.extra # None
      PROVE  /\ ContainerName[e] \in ConsensusClients \ ExecutionClients
             /\ IsTestnet(ContainerName[e]) <=> IsTestnet(StartNode(c))
  <2>1. c.extra \in Networks /\ c.testnet \in BOOLEAN /\ e \in Networks
    BY <1>3, CommandFields, EffectiveIsNetwork
  <2>2. ~Selectable(c.extra) /\ PartOf[c.extra] = c.net
    BY <1>3, StackAssumption
  <2>3. InStack(c.extra)
    BY <2>2, CommandFields, RegistryAssumption DEF InStack
  <2>4. ~Selectable(e) /\ PartOf[e] = n
    BY <2>1, <2>2, <2>3, StackAssumption
  <2>5. InStack(e)
    BY <1>1, <2>4, RegistryAssumption DEF InStack
  <2>6. IsTestnet(ContainerName[e]) <=> IsTestnet(ContainerName[n])
    BY <2>1, <2>4, <2>5, StackAssumption
  <2>7. IsTestnet(ContainerName[n]) <=> IsTestnet(StartNode(c))
    <3>1. ContainerName[n] \in CandidateContainerNames(n)
      BY DEF CandidateContainerNames
    <3> QED BY <1>1, <3>1, RegistryAssumption
  <2> QED BY <1>1, <2>1, <2>4, <2>5, <2>6, <2>7, MainContainer
<1>4. StartNode(c) \in ExecutionClients
  BY <1>1 DEF ExecutionClients
<1> QED BY <1>2, <1>3, <1>4

(* A start of another network has none.                                    *)
LEMMA OtherStart ==
  ASSUME NEW c \in Commands, c.op = "start", c.net \in Startable, ~Selectable(c.net)
  PROVE  Members(c) \cap Clients = {}
<1> DEFINE n == Registered(c.net, c.testnet)
           e == Registered(c.extra, c.testnet)
<1>1. n \in Networks /\ ~Selectable(n) /\ StartNode(c) = ContainerName[n]
  BY CommandFields, EffectiveIsNetwork, StackAssumption DEF StartNode
<1>2. ~InStack(n)
  BY CommandFields, StackAssumption DEF InStack
<1>3. ASSUME c.extra # None
      PROVE  e \in Networks /\ ~Selectable(e) /\ ~(InStack(e) /\ Selectable(PartOf[e]))
  <2>1. c.extra \in Networks /\ c.testnet \in BOOLEAN /\ e \in Networks
    BY <1>3, CommandFields, EffectiveIsNetwork
  <2>2. ~Selectable(c.extra) /\ (PartOf[c.extra] = c.net \/ ~InStack(c.extra))
    BY <1>3, StackAssumption
  <2>3. ~Selectable(e)
        /\ PartOf[e] = IF InStack(c.extra) THEN Registered(PartOf[c.extra], c.testnet) ELSE None
    BY <2>1, <2>2, StackAssumption
  <2> QED BY <1>1, <2>1, <2>2, <2>3 DEF InStack
<1>4. \A m \in Networks : ~Selectable(m) /\ ~(InStack(m) /\ Selectable(PartOf[m]))
                          => ContainerName[m] \notin Clients
  BY MainContainer DEF Clients
<1> QED BY <1>1, <1>2, <1>3, <1>4 DEF Members

-----------------------------------------------------------------------------
(* What runs while a start is under way                                    *)

LEMMA ClientsAreNames == Clients \subseteq Names /\ Watchtower \notin Clients
  BY ContainersAreNames, RegistryAssumption, LifecycleAssumption
     DEF Clients, ExecutionClients, ConsensusClients, AllContainerNames

(* A container name only comes to run when compose up starts its service.  *)
LEMMA NamesKeep ==
  ASSUME Keyed, Keyed', [Next]_vars, NEW x \in RunningNames'
  PROVE  \/ x \in RunningNames
         \/ \E p \in Procs : UpStart(p) /\ x \in ids[p] /\ x \in Running' /\ def' = def
<1>1. PICK s \in Running' : x = def'[s].name
  BY DEF RunningNames
<1>2. def'[s].name = s
  BY DEF Running, Keyed, DefsKeyed, Exists
<1> QED BY <1>1, <1>2, RunningKeeps DEF Keyed, RunningNames

(* A start of Ethereum that passed its check is the only one whose clients *)
(* run, and what it brings up are the services it was asked for.           *)
CheckedAt(p) ==
    /\ Selectable(cmd[p].net) => RunningNames \cap Clients \subseteq Members(cmd[p])
    /\ pc[p] = "up" =>
          /\ files[ComposeFile(p)] # {}
          /\ \A d \in files[ComposeFile(p)] : d.svc \in Members(cmd[p]) \cup {Watchtower}
    /\ pc[p] = "starting" =>
          ids[p] \subseteq Members(cmd[p]) \cup {Watchtower} /\ stale[p] = {}

Checked == \A p \in Procs : Starting(p) => CheckedAt(p)

(* The check is made against what runs, and only the start itself adds to  *)
(* that.                                                                   *)
LEMMA CheckHolds ==
  ASSUME OneProcess, PsAnswersAlways, Keyed, Keyed', Accepted, Accepted', Checked, [Next]_vars,
         NEW p \in Procs, Starting(p)', Selectable(cmd'[p].net)
  PROVE  RunningNames' \cap Clients \subseteq Members(cmd'[p])
<1> SUFFICES ASSUME NEW x \in RunningNames' \cap Clients
             PROVE  x \in Members(cmd[p]) /\ cmd'[p] = cmd[p]
  OBVIOUS
<1>1. cmd'[p] = cmd[p] /\ (Starting(p) \/ Create(p))
  BY StartComesFrom DEF Keyed
<1>2. CASE Create(p)
  <2>1. /\ UNCHANGED <<def, status>>
        /\ ConflictingContainers(cmd[p], RunningNames) = {}
    <3>1. PICK ps \in PsAnswers :
            \/ pc'[p] = "failed"
            \/ ~(Selectable(cmd[p].net) /\ ConflictingContainers(cmd[p], ps.names) # {})
      BY <1>2, Types DEF Create, Goto, Keyed
    <3>2. ps.names = RunningNames
      BY <3>1 DEF PsAnswers, PsAnswersAlways
    <3> QED BY <1>1, <1>2, <3>1, <3>2 DEF Create, host, Starting, AtStart
  <2>2. x \in RunningNames
    BY <2>1 DEF RunningNames, Running
  <2>3. cmd[p] \in Commands /\ cmd[p].net \in Startable
    BY <1>1, Types DEF Keyed, Accepted
  <2> QED BY <1>1, <2>1, <2>2, <2>3, NoConflictsLeft
<1>3. CASE Starting(p)
  <2>1. CASE x \in RunningNames
    BY <1>1, <1>3, <2>1 DEF Checked, CheckedAt
  <2>2. ASSUME NEW q \in Procs, UpStart(q), x \in ids[q]
        PROVE  x \in Members(cmd[p])
    <3>1. q = p /\ pc[p] = "starting"
      BY <2>2 DEF OneProcess, UpStart, At
    <3> QED BY <1>3, <2>2, <3>1, ClientsAreNames DEF Checked, CheckedAt
  <2> QED BY <1>1, <2>1, <2>2, NamesKeep
<1> QED BY <1>1, <1>2, <1>3

(* The compose file and the containers of a start are its own.             *)
LEMMA OwnServices ==
  ASSUME OneProcess, NoCustomNames, KeysMatchNames, Keyed, Accepted', Checked, [Next]_vars,
         NEW p \in Procs, Starting(p)'
  PROVE  /\ pc'[p] = "up" =>
               /\ files'[ComposeFile(p)'] # {}
               /\ \A d \in files'[ComposeFile(p)'] :
                     d.svc \in Members(cmd'[p]) \cup {Watchtower}
         /\ pc'[p] = "starting" =>
               ids'[p] \subseteq Members(cmd'[p]) \cup {Watchtower} /\ stale'[p] = {}
<1> USE Types DEF Keyed
<1> DEFINE c == cmd[p]
<1>1. c \in Commands /\ c.op = "start" /\ cmd'[p] = c
  BY StartComesFrom DEF Starting
<1>2. \A q \in Procs : q = p
  BY DEF OneProcess
<1>3. CASE Write(p)
  <2>1. CASE pc'[p] = "up"
    <3>1. PICK D \in {PlainStack(c, secret[p]), FullStack(c, secret[p])} : WriteFile(p, D)
      BY <1>3, <2>1 DEF Write, WriteFails, CallFails
    <3>2. files' = [files EXCEPT ![ComposeFile(p)] = D] /\ UNCHANGED <<cmd, node>>
      BY <3>1 DEF WriteFile, local
    <3>3. ComposeFile(p) \in Bases \X Names /\ ComposeFile(p)' = ComposeFile(p)
      BY <1>3, <3>2, StartWrites DEF ComposeFile
    <3>4. files'[ComposeFile(p)'] = D
      BY <3>2, <3>3
    <3>5. D # {} /\ \A d \in D : d.svc \in Members(c) \cup {Watchtower}
      BY <1>1, RequestedIsKeyed, ServicesAreMembers
    <3> QED BY <1>1, <2>1, <3>4, <3>5
  <2>2. CASE pc'[p] # "up"
    BY <1>3, <2>2, Leads
  <2> QED BY <2>1, <2>2
<1>4. CASE UpCreate(p)
  <2>1. pc'[p] \in {"starting", "next", "failed"} /\ pc[p] = "up" /\ Starting(p)
    BY <1>1, <1>4, Leads DEF UpCreate, At, Starting, AtStart
  <2>2. PICK T \in SUBSET files[ComposeFile(p)] :
          ids' = [ids EXCEPT ![p] = {d.svc : d \in T}] /\ stale'[p] = {}
    BY <1>4, UpEffect
  <2>3. \A d \in T : d.svc \in Members(c) \cup {Watchtower}
    BY <2>1 DEF Checked, CheckedAt
  <2> QED BY <1>1, <2>1, <2>2, <2>3
<1>5. CASE ~Write(p) /\ ~UpCreate(p)
  <2>1. CASE Begin(p) \/ Kill(p)
    BY <2>1, Leads DEF Starting, AtStart
  <2>2. CASE UpStart(p) \/ ContainerExits \/ Publish \/ UNCHANGED vars
    <3>1. UNCHANGED <<files, cmd, node, ids, stale, pc>>
      BY <2>2 DEF UpStart, ContainerExits, Publish, vars, local
    <3>2. ComposeFile(p)' = ComposeFile(p)
      BY <3>1 DEF ComposeFile
    <3> QED BY <3>1, <3>2 DEF Checked, CheckedAt, Starting
  <2>3. CASE Step(p) /\ ~UpStart(p)
    <3>1. CASE UpdatePull(p)
      BY <1>1, <3>1 DEF UpdatePull, At, TypeInv, Control, ControlOf
    <3>2. CASE ~UpdatePull(p)
      BY <1>5, <2>3, <3>2, Leads DEF Step
    <3> QED BY <3>1, <3>2
  <2> QED BY <1>2, <2>1, <2>2, <2>3 DEF Next
<1> QED BY <1>3, <1>4, <1>5

CheckInv == Keyed /\ Accepted /\ Checked

LEMMA CheckInvariant ==
  ASSUME OneProcess, PsAnswersAlways, NoCustomNames, KeysMatchNames
  PROVE  Spec => []CheckInv
<1>1. Init => Accepted /\ Checked
  BY DEF Init, Accepted, Checked, Starting, AtStart
<1>2. ASSUME Keyed, Keyed', Accepted, Checked, [Next]_vars
      PROVE  Accepted' /\ Checked'
  <2>1. Accepted'
    BY <1>2, AcceptedNext DEF Keyed
  <2>2. Checked'
    BY <1>2, <2>1, CheckHolds, OwnServices DEF Checked, CheckedAt
  <2> QED BY <2>1, <2>2
<1> QED BY <1>1, <1>2, KeyedInvariant, PTL DEF Spec, CheckInv

-----------------------------------------------------------------------------
(* One Ethereum stack                                                      *)

(* Where an Ethereum client comes to run, none runs but those of one start.*)
LEMMA ClientStarts ==
  ASSUME NoUpdates, CheckInv, CheckInv', [Next]_vars, NEW s \in Running', def'[s].name \in Clients
  PROVE  \/ s \in Running /\ def'[s] = def[s]
         \/ \E p \in Procs : /\ Starting(p)' /\ pc'[p] = "starting" /\ Selectable(cmd'[p].net)
                             /\ RunningNames' \cap Clients \subseteq Members(cmd'[p])
<1> USE DEF CheckInv
<1> SUFFICES ASSUME NEW p \in Procs, UpStart(p), s \in ids[p] \ stale[p]
             PROVE  /\ Starting(p)' /\ pc'[p] = "starting" /\ Selectable(cmd'[p].net)
                    /\ RunningNames' \cap Clients \subseteq Members(cmd'[p])
  BY RunningKeeps DEF Keyed
<1>1. pc[p] = "starting" /\ UNCHANGED <<pc, cmd>>
  BY DEF UpStart, At
<1>2. cmd[p] \in Commands /\ cmd[p].op = "start"
  BY <1>1, Types DEF NoUpdates, Keyed, TypeInv, Control, ControlOf
<1>3. Starting(p) /\ Starting(p)'
  BY <1>1, <1>2 DEF Starting, AtStart
<1>4. s = def'[s].name
  BY DEF Running, Keyed, DefsKeyed, Exists
<1>5. s \in Members(cmd[p])
  BY <1>1, <1>3, <1>4, ClientsAreNames DEF Checked, CheckedAt
<1>6. Selectable(cmd[p].net)
  BY <1>2, <1>3, <1>4, <1>5, OtherStart DEF Accepted
<1> QED BY <1>1, <1>3, <1>6 DEF Checked, CheckedAt

(* Of the clients of one start there is one of each kind, on one chain.    *)
LEMMA OneOfEach ==
  ASSUME NEW c \in Commands, c.op = "start", c.net \in Startable, Selectable(c.net),
         NEW x \in Members(c), NEW y \in Members(c)
  PROVE  /\ IsTestnet(x) <=> IsTestnet(y)
         /\ (x \in ExecutionClients <=> y \in ExecutionClients) => x = y
<1>1. CASE c.extra = None
  BY <1>1 DEF Members
<1>2. CASE c.extra # None
  BY <1>2, EthereumStart DEF Members
<1> QED BY <1>1, <1>2

LEMMA OneStackNext ==
  ASSUME NoUpdates, CheckInv, CheckInv', OneEthereumStack, [Next]_vars
  PROVE  OneEthereumStack'
<1> SUFFICES ASSUME NEW x \in RunningNames' \cap Clients, NEW y \in RunningNames' \cap Clients
             PROVE  /\ IsTestnet(x) <=> IsTestnet(y)
                    /\ (x \in ExecutionClients <=> y \in ExecutionClients) => x = y
  BY DEF OneEthereumStack, Clients
<1>1. PICK s \in Running', t \in Running' : x = def'[s].name /\ y = def'[t].name
  BY DEF RunningNames
<1>2. CASE /\ s \in Running /\ def'[s] = def[s]
           /\ t \in Running /\ def'[t] = def[t]
  BY <1>1, <1>2 DEF OneEthereumStack, RunningNames, Clients
<1>3. ASSUME NEW p \in Procs, Starting(p)', Selectable(cmd'[p].net),
             RunningNames' \cap Clients \subseteq Members(cmd'[p])
      PROVE  /\ IsTestnet(x) <=> IsTestnet(y)
             /\ (x \in ExecutionClients <=> y \in ExecutionClients) => x = y
  <2>1. cmd'[p] \in Commands /\ cmd'[p].op = "start" /\ cmd'[p].net \in Startable
    BY <1>3 DEF Starting, CheckInv, Accepted, Keyed, TypeInv, TypeOK
  <2> QED BY <1>3, <2>1, OneOfEach
<1> QED BY <1>1, <1>2, <1>3, ClientStarts

(* Commands given one after the other, wherever they are interrupted and   *)
(* whatever fails or exits, never bring up a second execution client, a    *)
(* second consensus client or one of the other chain (ethereum.go:59-63).  *)
(* An update makes no such check.                                          *)
THEOREM OneStack ==
  ASSUME OneProcess, NoUpdates, PsAnswersAlways, NoCustomNames, KeysMatchNames
  PROVE  Spec => []OneEthereumStack
<1>1. Init => OneEthereumStack
  BY DEF Init, OneEthereumStack, RunningNames, Running
<1> QED BY <1>1, OneStackNext, CheckInvariant, PTL DEF Spec

LEMMA PairedNext ==
  ASSUME NoUpdates, KeysMatchNames, CheckInv, CheckInv', StackMade', ConsensusIsPaired,
         [Next]_vars
  PROVE  ConsensusIsPaired'
<1> SUFFICES ASSUME NEW s \in Running', NEW e \in Running',
                    def'[s].name \in ConsensusClients, def'[e].name \in ExecutionClients
             PROVE  def'[e].own \in def'[s].mounts
  BY DEF ConsensusIsPaired
<1>1. CASE /\ s \in Running /\ def'[s] = def[s]
           /\ e \in Running /\ def'[e] = def[e]
  BY <1>1 DEF ConsensusIsPaired
<1>2. ASSUME NEW p \in Procs, Starting(p)', pc'[p] = "starting", Selectable(cmd'[p].net),
             RunningNames' \cap Clients \subseteq Members(cmd'[p])
      PROVE  def'[e].own \in def'[s].mounts
  <2> DEFINE c == cmd'[p]
             k == secret'[p]
  <2>1. c \in Commands /\ c.op = "start" /\ c.net \in Startable
    BY <1>2 DEF Starting, CheckInv, Accepted, Keyed, TypeInv, TypeOK
  <2>2. def'[s].name = s /\ def'[e].name = e
    BY DEF Running, CheckInv, Keyed, DefsKeyed, Exists
  <2>3. s \in Members(c) /\ e \in Members(c)
    BY <1>2, <2>2 DEF RunningNames, Clients
  <2>4. e = StartNode(c) /\ c.extra # None
        /\ s = ContainerName[Registered(c.extra, c.testnet)]
    BY <1>2, <2>1, <2>2, <2>3, EthereumStart DEF Members
  <2>5. ExtraDef(c, k).svc = s /\ MainDef(c, k).svc = e
    BY <2>1, <2>4 DEF ExtraDef, MainDef, KeysMatchNames
  <2>6. ExtraDef(c, k) \in FullStack(c, k) /\ MainDef(c, k) \in FullStack(c, k)
    BY <2>4 DEF FullStack, WithWatchtower, Requested
  <2>7. \A d \in FullStack(c, k) : def'[d.svc] = d
    BY <1>2 DEF StackMade, MadeBy
  <2>8. c.extra \notin OwnDataOnly
    BY <1>2, <2>1, <2>4, StackAssumption
  <2>9. MainDef(c, k).own \in ExtraDef(c, k).mounts
    BY <2>8 DEF MainDef, ExtraDef
  <2> QED BY <2>5, <2>6, <2>7, <2>9
<1> QED BY <1>1, <1>2, ClientStarts DEF Clients

(* Moreover the consensus client that runs has the data of the execution   *)
(* client that runs, where its JWT secret is (ethereum_config.go:410-466). *)
THEOREM ConsensusPaired ==
  ASSUME OneProcess, NoUpdates, PsAnswersAlways, NoCustomNames, KeysMatchNames,
         "mkdir" \notin Faults
  PROVE  Spec => []ConsensusIsPaired
<1>1. Init => ConsensusIsPaired
  BY DEF Init, ConsensusIsPaired, Running
<1> QED BY <1>1, PairedNext, CheckInvariant, StackMadeInvariant, PTL DEF Spec
=============================================================================
