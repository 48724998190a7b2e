------------------------- MODULE NodeLifecycle_proofs -------------------------
(***************************************************************************)
(* Proofs about NodeLifecycle, for any number of commands and processes,   *)
(* any registry and any faults the theorems do not exclude.                *)
(***************************************************************************)
EXTENDS NodeLifecycle, TLAPS

-----------------------------------------------------------------------------
(* The registry and the names commands are given                           *)

LEMMA TheOneIsOne == ASSUME NEW S, S # {} PROVE TheOne(S) \in S
  BY DEF TheOne

LEMMA ContainersAreNames == AllContainerNames \subseteq Names
  BY RegistryAssumption DEF AllContainerNames, CandidateContainerNames

LEMMA CandidatesAreContainers ==
  ASSUME NEW n \in Networks
  PROVE  CandidateContainerNames(n) \subseteq AllContainerNames
  BY DEF AllContainerNames

LEMMA EffectiveIsNetwork ==
  ASSUME NEW n \in Networks, NEW t \in BOOLEAN
  PROVE  EffectiveNetwork(n, t) \in Networks /\ Registered(n, t) \in Networks
  BY RegistryAssumption DEF EffectiveNetwork, Registered

LEMMA OnChainIsName ==
  ASSUME NEW x \in Names, NEW t \in BOOLEAN
  PROVE  OnChain(x, t) \in Names
<1>1. CASE t /\ ~IsTestnet(x)
  <2>1. OnChain(x, t) = Appended[x] /\ x \in Names \ TestnetNames
    BY <1>1 DEF OnChain, IsTestnet
  <2> QED BY <2>1, RegistryAssumption
<1>2. CASE ~(t /\ ~IsTestnet(x))
  BY <1>2 DEF OnChain
<1> QED BY <1>1, <1>2

(* Whatever Docker answers and the disk holds, a container that is found   *)
(* is one of the network's.                                                *)
LEMMA ResolvedIsCandidate ==
  ASSUME NEW net \in Networks, NEW flags, flags.testnet \in BOOLEAN,
         NEW ps, NEW disk,
         ResolveContainerName(net, flags, ps, disk).kind = "found"
  PROVE  TheOne(ResolveContainerName(net, flags, ps, disk).names)
            \in CandidateContainerNames(EffectiveNetwork(net, flags.testnet))
<1> DEFINE n == EffectiveNetwork(net, flags.testnet)
           E == ExplicitClient(n, flags)
           U == RunningCandidates(n, ps)
           P == CandidateContainerNames(n) \cap disk
<1>1. E \subseteq CandidateContainerNames(n) /\ U \subseteq CandidateContainerNames(n)
      /\ P \subseteq CandidateContainerNames(n) /\ ContainerName[n] \in CandidateContainerNames(n)
  BY DEF ExplicitClient, RunningCandidates, CandidateContainerNames
<1>2. \A c : TheOne(Found(c).names) = c
  BY DEF TheOne, Found
<1>3. CASE ~Selectable(n)
  BY <1>1, <1>2, <1>3 DEF ResolveContainerName
<1>4. CASE Selectable(n) /\ flags.client # None
  BY <1>1, <1>2, <1>4, TheOneIsOne DEF ResolveContainerName, Refused
<1>5. CASE Selectable(n) /\ flags.client = None
  BY <1>1, <1>2, <1>5, TheOneIsOne
     DEF ResolveContainerName, AmbiguousRunning, AmbiguousOnDisk
<1> QED BY <1>3, <1>4, <1>5

LEMMA FoundIsOne ==
  ASSUME NEW net, NEW flags, NEW ps, NEW disk,
         ResolveContainerName(net, flags, ps, disk).kind = "found"
  PROVE  ResolveContainerName(net, flags, ps, disk).names # {}
<1> DEFINE n == EffectiveNetwork(net, flags.testnet)
<1>1. \A x : Found(x).names # {}
  BY DEF Found
<1>2. CASE ~Selectable(n)
  BY <1>1, <1>2 DEF ResolveContainerName
<1>3. CASE Selectable(n) /\ flags.client # None
  BY <1>1, <1>3 DEF ResolveContainerName, Refused
<1>4. CASE Selectable(n) /\ flags.client = None
  BY <1>1, <1>4 DEF ResolveContainerName, AmbiguousRunning, AmbiguousOnDisk
<1> QED BY <1>2, <1>3, <1>4

(* The compose file an update finds is one that is there.                  *)
LEMMA UpdateFileIsName ==
  ASSUME NEW c, NEW x, NEW ps
  PROVE  UpdateFile(c, x, ps) \in Names \cup {None}
<1> DEFINE filed  == {n \in Names : files[<<c.base, n>>] # {}}
           owners == {PartOf[n] : n \in {m \in Networks : ContainerName[m] = x /\ InStack(m)}}
           stack  == ResolveContainerName(TheOne(owners), Flags(c), ps, Footprint(c.base))
<1>1. UpdateFile(c, x, ps) =
        IF x \in filed THEN x
        ELSE IF owners # {} /\ stack.kind = "found" /\ stack.names \subseteq filed
             THEN TheOne(stack.names)
        ELSE None
  BY DEF UpdateFile, FindComposeFileForContainer
<1>2. stack.kind = "found" => TheOne(stack.names) \in stack.names
  BY FoundIsOne, TheOneIsOne
<1>3. filed \subseteq Names
  OBVIOUS
<1> HIDE DEF filed, owners, stack
<1> QED BY <1>1, <1>2, <1>3

LEMMA DefinitionFields ==
  ASSUME NEW d \in Definitions
  PROVE  d.svc \in Services /\ d.own \in Dirs \cup {None} /\ d.mounts \in SUBSET Dirs
  BY DEF Definitions

LEMMA DirsOfIsDirs == \A D \in SUBSET Definitions : DirsOf(D) \subseteq Dirs
  BY DefinitionFields DEF DirsOf

LEMMA RequestedIsTyped ==
  ASSUME NEW c \in Commands, c.op = "start", NEW k \in Secrets \cup {None}
  PROVE  /\ StartNode(c) \in AllContainerNames
         /\ MainDef(c, k) \in Definitions
         /\ c.extra # None => ExtraDef(c, k) \in Definitions
         /\ PlainStack(c, k) \subseteq Definitions
         /\ FullStack(c, k) \subseteq Definitions
<1>1. StartNode(c) \in AllContainerNames /\ StartNode(c) \in Names
  BY LifecycleAssumption, ContainersAreNames
<1>2. c.base \in Bases /\ c.cname \in Names \cup {None} /\ c.testnet \in BOOLEAN
      /\ c.extra \in Networks \cup {None} /\ c.l1 \in SUBSET Names
  BY LifecycleAssumption
<1>3. MainDef(c, k) \in Definitions
  BY <1>1, <1>2, LifecycleAssumption DEF MainDef, Definitions, Services, Dirs
<1>4. ASSUME c.extra # None PROVE ExtraDef(c, k) \in Definitions
  <2>1. c.extra \in Networks /\ Registered(c.extra, c.testnet) \in Networks
    BY <1>2, <1>4, EffectiveIsNetwork
  <2>2. ContainerName[c.extra] \in AllContainerNames
        /\ ContainerName[Registered(c.extra, c.testnet)] \in AllContainerNames
    BY <2>1, CandidatesAreContainers DEF CandidateContainerNames
  <2> QED
    BY <1>1, <1>2, <2>2, ContainersAreNames DEF ExtraDef, Definitions, Services, Dirs
<1>5. ASSUME NEW D \in SUBSET Definitions
      PROVE  WithWatchtower(D) \subseteq Definitions
  <2>1. {d.svc : d \in D} \in SUBSET Services
    BY DefinitionFields
  <2>2. [NoDef EXCEPT !.watch = {d.svc : d \in D}] \in Definitions
    BY <2>1 DEF NoDef, Definitions, Services
  <2> QED BY <2>2 DEF WithWatchtower
<1> QED
  BY <1>1, <1>3, <1>4, <1>5 DEF PlainStack, FullStack, Requested

-----------------------------------------------------------------------------
(* Type correctness                                                        *)

StartLabels == {"pull", "create", "mint", "plain", "pullExtra", "write", "cleanup"}

(* Only the commands that have them come to the steps that read what start *)
(* asks for and to those of compose up; the steps that read another        *)
(* command's compose file have found it.                                   *)
ControlOf(label, c, x) ==
    /\ label \in StartLabels => c.op = "start"
    /\ label \in {"up", "starting"} => c.op \in {"start", "update"}
    /\ label = "refresh" => c.op = "update"
    /\ label \in {"target", "resolve", "ps"} => c.op # "update"
    /\ label \in {"ps", "down", "refresh"} \/ (label = "up" /\ c.op # "start") => x \in Names

Control == \A p \in Procs : ControlOf(pc[p], cmd[p], node[p])

TypeInv == TypeOK /\ Control

LEMMA ControlKept ==
  ASSUME Control, NEW p \in Procs, ControlOf(pc'[p], cmd'[p], node'[p]),
         \A q \in Procs \ {p} : pc'[q] = pc[q] /\ cmd'[q] = cmd[q] /\ node'[q] = node[q]
  PROVE  Control'
  BY DEF Control

LEMMA TypeInit == Init => TypeInv
<1> SUFFICES ASSUME Init PROVE TypeInv
  OBVIOUS
<1>1. NoDef \in Definitions
  BY DEF NoDef, Definitions, Services
<1>2. (CHOOSE c \in Commands : TRUE) \in Commands
  BY LifecycleAssumption
<1>3. 0 \in 0..MaxCommands
  BY LifecycleAssumption
<1> QED
  BY <1>1, <1>2, <1>3 DEF Init, TypeInv, TypeOK, Labels, Control, ControlOf, StartLabels, Dirs

(* The steps of start up to the compose file, and its last.                *)
LEMMA TypeStart ==
  ASSUME TypeInv, NEW p \in Procs,
         \/ Pull(p) \/ Create(p) \/ Mint(p) \/ WritePlain(p) \/ PullExtra(p) \/ Write(p)
         \/ Cleanup(p)
  PROVE  TypeInv'
<1> USE DEF At, Goto, host, hub, local, held, CallFails
<1>1. CASE Pull(p)
  BY <1>1 DEF Pull, TypeInv, TypeOK, Labels, Control, ControlOf, StartLabels
<1>2. CASE Create(p)
  <2>1. cmd[p].op = "start" /\ cmd[p].base \in Bases
    BY <1>2, LifecycleAssumption
       DEF Create, TypeInv, TypeOK, Labels, Control, ControlOf, StartLabels
  <2>2. SecretsRead(cmd[p]) \subseteq Secrets \cup {None}
    BY <2>1 DEF SecretsRead, SecretKept, Mints, JwtFile, TypeInv, TypeOK, Labels
  <2>3. PICK k \in SecretsRead(cmd[p]) :
          /\ pc' \in {[pc EXCEPT ![p] = l] :
                       l \in {"failed", "mint", "write", "plain", "pullExtra"}}
          /\ secret' = [secret EXCEPT ![p] = k]
          /\ UNCHANGED <<host, cmd, node, ids, stale, upSince, todo, image, begun>>
    BY <1>2 DEF Create, FirstWrite
  <2> QED
    BY <2>1, <2>2, <2>3 DEF TypeInv, TypeOK, Labels, Control, ControlOf, StartLabels
<1>3. CASE PullExtra(p)
  BY <1>3 DEF PullExtra, TypeInv, TypeOK, Labels, Control, ControlOf, StartLabels
<1>4. CASE Cleanup(p)
  <2>1. PICK T \in SUBSET {s \in Seeded : status[s] = "created"} :
          stale' = [q \in Procs |->
                      IF At(q, "starting") THEN stale[q] \cup (ids[q] \cap T) ELSE stale[q]]
    BY <1>4 DEF Cleanup
  <2>2. stale' \in [Procs -> SUBSET Services]
    BY <2>1 DEF TypeInv, TypeOK, Labels
  <2>3. /\ pc' = [pc EXCEPT ![p] = "done"]
        /\ UNCHANGED <<host, cmd, node, ids, upSince, held, begun>>
    BY <1>4 DEF Cleanup
  <2> QED
    BY <2>2, <2>3 DEF TypeInv, TypeOK, Labels, Control, ControlOf, StartLabels
<1>5. CASE WritePlain(p) \/ Write(p)
  <2>1. cmd[p] \in Commands /\ cmd[p].op = "start" /\ secret[p] \in Secrets \cup {None}
    BY <1>5 DEF WritePlain, Write, TypeInv, TypeOK, Labels, Control, ControlOf, StartLabels
  <2>2. /\ PlainStack(cmd[p], secret[p]) \subseteq Definitions
        /\ FullStack(cmd[p], secret[p]) \subseteq Definitions
        /\ MainDef(cmd[p], secret[p]).own \in Dirs
    BY <2>1, RequestedIsTyped, ContainersAreNames, LifecycleAssumption DEF MainDef, Dirs
  <2>3. ASSUME NEW D \in SUBSET Definitions, WriteFile(p, D)
        PROVE  files' \in [Bases \X Names -> SUBSET Definitions] /\ dirs' \in SUBSET Dirs
    BY <2>3, DirsOfIsDirs DEF WriteFile, TypeInv, TypeOK, Labels
  <2>4. files' \in [Bases \X Names -> SUBSET Definitions] /\ dirs' \in SUBSET Dirs
    BY <1>5, <2>2, <2>3, DirsOfIsDirs DEF WritePlain, Write, WriteFails, TypeInv, TypeOK, Labels
  <2>5. UNCHANGED <<def, status, jwt, hub, cmd, local, begun>>
        /\ pc' \in {[pc EXCEPT ![p] = l] : l \in {"pullExtra", "up", "failed"}}
    BY <1>5 DEF WritePlain, Write, WriteFile, WriteFails
  <2>6. TypeOK'
    BY <2>4, <2>5 DEF TypeInv, TypeOK, Labels
  <2>7. Control'
    BY <2>1, <2>5, ControlKept DEF TypeInv, TypeOK, Labels, ControlOf, StartLabels
  <2> QED BY <2>6, <2>7 DEF TypeInv
<1>6. CASE Mint(p)
  <2>1. cmd[p].op = "start"
    BY <1>6 DEF Mint, TypeInv, TypeOK, Labels, Control, ControlOf, StartLabels
  <2>2. <<p, begun>> \in Secrets
    BY DEF Secrets, TypeInv, TypeOK, Labels
  <2>3. /\ jwt' \in {jwt, [jwt EXCEPT ![JwtFile(cmd[p])] = None],
                     [jwt EXCEPT ![JwtFile(cmd[p])] = <<p, begun>>]}
        /\ secret' \in {secret, [secret EXCEPT ![p] = <<p, begun>>]}
        /\ pc' \in {[pc EXCEPT ![p] = l] : l \in {"failed", "write", "plain", "pullExtra"}}
        /\ UNCHANGED <<files, dirs, def, status, hub, cmd, node, ids, stale, upSince,
                       todo, image, begun>>
    BY <1>6 DEF Mint, FirstWrite
  <2>4. /\ jwt' \in [Bases \X Minting -> Secrets \cup {None}]
        /\ secret' \in [Procs -> Secrets \cup {None}]
    <3>1. ASSUME NEW v \in Secrets \cup {None}, NEW f
          PROVE  /\ [jwt EXCEPT ![f] = v] \in [Bases \X Minting -> Secrets \cup {None}]
                 /\ [secret EXCEPT ![p] = v] \in [Procs -> Secrets \cup {None}]
      BY DEF TypeInv, TypeOK, Labels
    <3>2. jwt \in [Bases \X Minting -> Secrets \cup {None}]
          /\ secret \in [Procs -> Secrets \cup {None}]
      BY DEF TypeInv, TypeOK, Labels
    <3> QED BY <2>2, <2>3, <3>1, <3>2
  <2>5. TypeOK'
    BY <2>3, <2>4 DEF TypeInv, TypeOK, Labels
  <2>6. Control'
    BY <2>1, <2>3, ControlKept DEF TypeInv, TypeOK, Labels, ControlOf, StartLabels
  <2> QED BY <2>5, <2>6 DEF TypeInv
<1> QED BY <1>1, <1>2, <1>3, <1>4, <1>5, <1>6

(* The compose file at hand is one of those the data directories can hold. *)
LEMMA ComposeFileIsKnown ==
  ASSUME TypeInv, NEW p \in Procs, pc[p] = "up"
  PROVE  ComposeFile(p) \in Bases \X Names
<1>1. cmd[p] \in Commands /\ cmd[p].base \in Bases
  BY LifecycleAssumption DEF TypeInv, TypeOK, Labels
<1>2. CASE cmd[p].op = "start"
  BY <1>1, <1>2, LifecycleAssumption, ContainersAreNames DEF ComposeFile
<1>3. CASE cmd[p].op # "start"
  BY <1>1, <1>3 DEF ComposeFile, TypeInv, Control, ControlOf
<1> QED BY <1>2, <1>3

(* compose up.                                                             *)
LEMMA TypeUp ==
  ASSUME TypeInv, NEW p \in Procs, UpCreate(p) \/ UpStart(p) \/ UpReturns(p)
  PROVE  TypeInv'
<1> USE DEF At, Goto, host, hub, local, held, Gone, Starts, Running, UpEnds, UpFails
<1>1. CASE UpCreate(p)
  <2> DEFINE F == files[ComposeFile(p)]
             fresh(T) == {d \in T : ~Exists(d.svc) \/ def[d.svc] # d \/ d.svc \in old}
             new(T) == {d.svc : d \in fresh(T)}
  <2>1. pc[p] = "up" /\ cmd[p].op \in {"start", "update"}
    BY <1>1 DEF UpCreate, TypeInv, TypeOK, Labels, Control, ControlOf
  <2>2. F \in SUBSET Definitions
    BY <2>1, ComposeFileIsKnown DEF TypeInv, TypeOK, Labels
  <2>3. PICK T \in SUBSET F :
          /\ def' = [s \in Services |->
                       IF s \in new(T) THEN TheOne({d \in fresh(T) : d.svc = s}) ELSE def[s]]
          /\ status' = [s \in Services |->
                          IF s \in {d.svc : d \in T} /\ (s \in new(T) \/ status[s] = "exited")
                          THEN "created" ELSE status[s]]
          /\ old' = old \ new(T)
          /\ stale' = [q \in Procs |-> IF q = p THEN {} ELSE stale[q] \cup (ids[q] \cap new(T))]
          /\ ids' = [ids EXCEPT ![p] = {d.svc : d \in T}]
          /\ pc' \in {[pc EXCEPT ![p] = l] : l \in {"starting", "failed", "next"}}
    BY <1>1 DEF UpCreate
  <2>4. def' \in [Services -> Definitions]
    <3>1. ASSUME NEW s \in Services, s \in new(T)
          PROVE  TheOne({d \in fresh(T) : d.svc = s}) \in Definitions
      BY <2>2, <3>1, TheOneIsOne
    <3> QED BY <2>3, <3>1 DEF TypeInv, TypeOK, Labels
  <2>5. ids' \in [Procs -> SUBSET Services] /\ stale' \in [Procs -> SUBSET Services]
    BY <2>2, <2>3 DEF TypeInv, TypeOK, Labels, Definitions
  <2>6. status' \in [Services -> {"absent", "created", "running", "exited"}]
        /\ old' \in SUBSET Services
    BY <2>3 DEF TypeInv, TypeOK, Labels
  <2>7. UNCHANGED <<files, dirs, jwt, outdated, cmd, node, upSince, held, begun>>
    BY <1>1 DEF UpCreate
  <2>8. TypeOK'
    <3>1. pc' \in [Procs -> Labels]
      BY <2>3 DEF TypeInv, TypeOK, Labels
    <3> HIDE DEF F, fresh, new
    <3> QED BY <2>4, <2>5, <2>6, <2>7, <3>1 DEF TypeInv, TypeOK, Labels
  <2>9. Control'
    BY <2>1, <2>3, <2>7, ControlKept DEF TypeInv, TypeOK, Labels, ControlOf, StartLabels
  <2> QED BY <2>8, <2>9 DEF TypeInv
<1>2. CASE UpStart(p)
  <2>1. PICK s \in ids[p] \ stale[p] :
          /\ status' = [status EXCEPT ![s] = "running"]
          /\ dirs' = dirs \cup def[s].mounts
          /\ upSince' = [q \in Procs |-> IF q = p THEN upSince[q] ELSE upSince[q] \cup {s}]
    BY <1>2 DEF UpStart
  <2>2. s \in Services /\ def[s].mounts \in SUBSET Dirs
    BY DEF TypeInv, TypeOK, Labels, Definitions
  <2> QED
    BY <1>2, <2>1, <2>2 DEF UpStart, TypeInv, TypeOK, Labels, Control, ControlOf, StartLabels
<1>3. CASE UpReturns(p)
  <2>1. pc[p] = "starting" /\ cmd[p].op \in {"start", "update"}
    BY <1>3 DEF UpReturns, TypeInv, TypeOK, Labels, Control, ControlOf
  <2>2. \E l \in {"cleanup", "failed", "next"} :
          pc' = [pc EXCEPT ![p] = l] /\ (l = "cleanup" => cmd[p].op # "update")
    BY <1>3, Zenon DEF UpReturns
  <2>3. UNCHANGED <<host, cmd, local, begun>>
    BY <1>3 DEF UpReturns
  <2> QED
    BY <2>1, <2>2, <2>3 DEF TypeInv, TypeOK, Labels, Control, ControlOf, StartLabels
<1> QED BY <1>1, <1>2, <1>3

(* stop, stop all and the compose down of update.                          *)
LEMMA TypeStop ==
  ASSUME TypeInv, NEW p \in Procs,
         StopResolve(p) \/ StopPs(p) \/ StopDown(p) \/
         StopAllList(p) \/ StopAllStop(p) \/ StopAllRemove(p)
  PROVE  TypeInv'
<1> USE DEF At, Goto, host, hub, local, held, Looks, Gone, Running, AfterStop,
            StopReturns, StopFails, AllReturns, AllFails
<1>1. CASE StopResolve(p)
  <2>1. cmd[p] \in Commands /\ cmd[p].net \in Networks /\ cmd[p].testnet \in BOOLEAN
    BY LifecycleAssumption DEF TypeInv, TypeOK, Labels
  <2>2. ASSUME NEW ps,
               ResolveContainerName(cmd[p].net, Flags(cmd[p]), ps, Footprint(cmd[p].base)).kind
                 = "found"
        PROVE  OnChain(TheOne(ResolveContainerName(cmd[p].net, Flags(cmd[p]), ps,
                                Footprint(cmd[p].base)).names), cmd[p].testnet) \in Names
    <3>1. Flags(cmd[p]).testnet = cmd[p].testnet
      BY DEF Flags
    <3> QED
      BY <2>1, <2>2, <3>1, ResolvedIsCandidate, EffectiveIsNetwork, CandidatesAreContainers,
         ContainersAreNames, OnChainIsName
  <2>3. \/ /\ node' \in {node, [node EXCEPT ![p] = node'[p]]} /\ node'[p] \in Names \cup {None}
           /\ StopReturns(p, "failed") \/ StopReturns(p, "done")
        \/ node' = [node EXCEPT ![p] = node'[p]] /\ node'[p] \in Names /\ Goto(p, "ps")
    <3>1. PICK ps \in PsAnswers :
            LET c  == cmd[p]
                r  == ResolveContainerName(c.net, Flags(c), ps, Footprint(c.base))
                to == OnChain(TheOne(r.names), c.testnet)
            IN \/ StopReturns(p, "failed") /\ UNCHANGED node
               \/ StopReturns(p, "done") /\ UNCHANGED node
               \/ /\ r.kind = "found"
                  /\ node' = [node EXCEPT ![p] = to]
                  /\ StopReturns(p, "failed") \/ Goto(p, "ps")
      BY <1>1 DEF StopResolve
    <3>2. node[p] \in Names \cup {None} /\ node \in [Procs -> Names \cup {None}]
      BY DEF TypeInv, TypeOK, Labels
    <3> HIDE DEF StopReturns, Goto
    <3> QED BY <2>2, <3>1, <3>2
  <2>4. pc[p] = "resolve" /\ UNCHANGED <<host, cmd, ids, stale, held, begun>>
        /\ upSince' = [upSince EXCEPT ![p] = {}]
    BY <1>1 DEF StopResolve
  <2>5. node' \in [Procs -> Names \cup {None}] /\ \A q \in Procs \ {p} : node'[q] = node[q]
    BY <2>3 DEF TypeInv, TypeOK, Labels
  <2>6. \E l \in {"guard", "failed", "done", "ps"} :
          pc' = [pc EXCEPT ![p] = l] /\ (l = "ps" => node'[p] \in Names)
    BY <2>3, <2>4 DEF TypeInv, Control, ControlOf
  <2>7. TypeOK'
    BY <2>4, <2>5, <2>6 DEF TypeInv, TypeOK, Labels
  <2>8. Control'
    <3>1. cmd[p].op # "update"
      BY <2>4 DEF TypeInv, Control, ControlOf
    <3>2. ControlOf(pc'[p], cmd'[p], node'[p])
      BY <2>4, <2>6, <3>1 DEF TypeInv, TypeOK, Labels, ControlOf, StartLabels
    <3>3. \A q \in Procs \ {p} : pc'[q] = pc[q] /\ cmd'[q] = cmd[q] /\ node'[q] = node[q]
      BY <2>4, <2>5, <2>6 DEF TypeInv, TypeOK
    <3> QED BY <3>2, <3>3, ControlKept DEF TypeInv
  <2> QED BY <2>7, <2>8 DEF TypeInv
<1>2. CASE StopPs(p)
  BY <1>2 DEF StopPs, TypeInv, TypeOK, Labels, Control, ControlOf, StartLabels
<1>3. CASE StopDown(p)
  <2>1. /\ status' \in [Services -> {"absent", "created", "running", "exited"}]
        /\ stale' \in [Procs -> SUBSET Services]
    BY <1>3 DEF StopDown, TypeInv, TypeOK, Labels
  <2>2. /\ pc[p] = "down"
        /\ StopReturns(p, "done") \/ StopReturns(p, "failed")
        /\ UNCHANGED <<files, dirs, def, jwt, hub, cmd, node, ids, upSince, held, begun>>
    BY <1>3 DEF StopDown
  <2>3. TypeOK'
    BY <2>1, <2>2 DEF TypeInv, TypeOK, Labels
  <2>4. Control'
    BY <2>2, ControlKept DEF TypeInv, TypeOK, Labels, Control, ControlOf, StartLabels
  <2> QED BY <2>3, <2>4 DEF TypeInv
<1>4. CASE StopAllList(p)
  BY <1>4 DEF StopAllList, TypeInv, TypeOK, Labels, Control, ControlOf, StartLabels
<1>5. CASE StopAllStop(p)
  <2>1. status' \in [Services -> {"absent", "created", "running", "exited"}]
    BY <1>5 DEF StopAllStop, TypeInv, TypeOK, Labels
  <2>2. /\ pc' \in {[pc EXCEPT ![p] = l] : l \in {"dockerRm", "failed", "guard"}}
        /\ UNCHANGED <<files, dirs, def, jwt, hub, cmd, local, begun>>
    BY <1>5 DEF StopAllStop
  <2>3. TypeOK'
    BY <2>1, <2>2 DEF TypeInv, TypeOK, Labels
  <2>4. Control'
    BY <2>2, ControlKept DEF TypeInv, TypeOK, Labels, ControlOf, StartLabels
  <2> QED BY <2>3, <2>4 DEF TypeInv
<1>6. CASE StopAllRemove(p)
  <2>1. /\ status' \in [Services -> {"absent", "created", "running", "exited"}]
        /\ stale' \in [Procs -> SUBSET Services]
    BY <1>6 DEF StopAllRemove, TypeInv, TypeOK, Labels
  <2>2. /\ pc' \in {[pc EXCEPT ![p] = l] : l \in {"done", "failed", "guard"}}
        /\ UNCHANGED <<files, dirs, def, jwt, hub, cmd, node, ids, upSince, held, begun>>
    BY <1>6 DEF StopAllRemove
  <2>3. TypeOK'
    BY <2>1, <2>2 DEF TypeInv, TypeOK, Labels
  <2>4. Control'
    BY <2>2, ControlKept DEF TypeInv, TypeOK, Labels, ControlOf, StartLabels
  <2> QED BY <2>3, <2>4 DEF TypeInv
<1> QED BY <1>1, <1>2, <1>3, <1>4, <1>5, <1>6

(* delete.                                                                 *)
LEMMA TypeDelete ==
  ASSUME TypeInv, NEW p \in Procs, DeleteTarget(p) \/ Guard(p) \/ Remove(p)
  PROVE  TypeInv'
<1> USE DEF At, Goto, host, hub, local, held, Looks, CallFails
<1>1. CASE DeleteTarget(p)
  BY <1>1 DEF DeleteTarget, TypeInv, TypeOK, Labels, Control, ControlOf, StartLabels
<1>2. CASE Guard(p)
  BY <1>2 DEF Guard, TypeInv, TypeOK, Labels, Control, ControlOf, StartLabels
<1>3. CASE Remove(p)
  <2>1. files' \in [Bases \X Names -> SUBSET Definitions] /\ dirs' \in SUBSET Dirs
        /\ pc' \in {[pc EXCEPT ![p] = l] : l \in {"done", "failed"}}
    BY <1>3 DEF Remove, TypeInv, TypeOK, Labels
  <2>2. jwt' \in [Bases \X Minting -> Secrets \cup {None}]
    <3>1. PICK S : jwt' = [f \in Bases \X Minting |-> IF f \in S THEN None ELSE jwt[f]]
      <4> DEFINE all == cmd[p].op = "deleteAll"
                 secrets == IF all THEN {cmd[p].base} \X Minting ELSE {}
                 Without(S) == [f \in Bases \X Minting |-> IF f \in S THEN None ELSE jwt[f]]
      <4>1. jwt' = Without(secrets) \/ \E S \in SUBSET secrets : jwt' = Without(S)
        BY <1>3 DEF Remove
      <4> HIDE DEF secrets
      <4> QED BY <4>1
    <3> QED BY <3>1 DEF TypeInv, TypeOK, Labels
  <2>3. UNCHANGED <<def, status, hub, cmd, local, begun>>
    BY <1>3 DEF Remove
  <2>4. TypeOK'
    BY <2>1, <2>2, <2>3 DEF TypeInv, TypeOK, Labels
  <2>5. Control'
    BY <2>1, <2>3, ControlKept DEF TypeInv, TypeOK, Labels, ControlOf, StartLabels
  <2> QED BY <2>4, <2>5 DEF TypeInv
<1> QED BY <1>1, <1>2, <1>3

(* update, whose compose down and up are those of stop and start.          *)
LEMMA TypeUpdate ==
  ASSUME TypeInv, NEW p \in Procs, UpdateList(p) \/ UpdateNext(p) \/ UpdatePull(p)
  PROVE  TypeInv'
<1> USE DEF At, Goto, host, hub, local, held, CallFails
<1>1. CASE UpdateList(p)
  <2> DEFINE listed == {s \in Services \ old : Exists(s) /\ ImageOf[s] # None}
  <2>1. {<<def[s].name, ImageOf[s]>> : s \in listed}
          \in SUBSET ((Names \cup {Watchtower}) \X Images)
    BY DEF Images, TypeInv, TypeOK, Labels, Definitions
  <2>2. todo' \in [Procs -> SUBSET ((Names \cup {Watchtower}) \X Images)]
        /\ pc' \in {[pc EXCEPT ![p] = l] : l \in {"next", "failed"}}
    BY <1>1, <2>1 DEF UpdateList, TypeInv, TypeOK, Labels
  <2>3. UNCHANGED <<host, cmd, node, ids, stale, upSince, image, secret, begun>>
    BY <1>1 DEF UpdateList
  <2> QED BY <2>2, <2>3 DEF TypeInv, TypeOK, Labels, Control, ControlOf, StartLabels
<1>2. CASE UpdateNext(p)
  <2>1. CASE todo[p] = {} /\ Goto(p, "done") /\ UNCHANGED <<node, todo, image>>
    BY <1>2, <2>1 DEF UpdateNext, TypeInv, TypeOK, Labels, Control, ControlOf, StartLabels
  <2>2. CASE todo[p] # {}
    <3>1. PICK x \in todo[p] :
            /\ todo' = [todo EXCEPT ![p] = @ \ {x}]
            /\ \/ UNCHANGED <<pc, node, image>>
               \/ \E ps \in PsAnswers :
                    LET file == UpdateFile(cmd[p], x[1], ps) IN
                    IF file = None THEN UNCHANGED <<pc, node, image>>
                    ELSE /\ node' = [node EXCEPT ![p] = file]
                         /\ image' = [image EXCEPT ![p] = x[2]]
                         /\ Goto(p, "down")
      BY <1>2, <2>2 DEF UpdateNext
    <3>2. x[2] \in Images /\ todo' \in [Procs -> SUBSET ((Names \cup {Watchtower}) \X Images)]
      BY <3>1 DEF TypeInv, TypeOK, Labels
    <3>3. UNCHANGED <<host, cmd, ids, stale, upSince, secret, begun>>
      BY <1>2 DEF UpdateNext
    <3>4. CASE UNCHANGED <<pc, node, image>>
      BY <3>2, <3>3, <3>4 DEF TypeInv, TypeOK, Labels, Control
    <3>5. CASE ~UNCHANGED <<pc, node, image>>
      <4>1. PICK ps \in PsAnswers :
              /\ UpdateFile(cmd[p], x[1], ps) # None
              /\ node' = [node EXCEPT ![p] = UpdateFile(cmd[p], x[1], ps)]
              /\ image' = [image EXCEPT ![p] = x[2]]
              /\ pc' = [pc EXCEPT ![p] = "down"]
        BY <3>1, <3>5
      <4>2. UpdateFile(cmd[p], x[1], ps) \in Names
        BY <4>1, UpdateFileIsName
      <4>3. TypeOK'
        BY <3>2, <3>3, <4>1, <4>2 DEF TypeInv, TypeOK, Labels
      <4>4. Control'
        BY <3>3, <4>1, <4>2, ControlKept DEF TypeInv, TypeOK, Labels, ControlOf, StartLabels
      <4> QED BY <4>3, <4>4 DEF TypeInv
    <3> QED BY <3>4, <3>5
  <2> QED BY <1>2, <2>1, <2>2 DEF UpdateNext
<1>3. CASE UpdatePull(p)
  <2>1. cmd[p].op = "update" /\ node[p] \in Names
    BY <1>3 DEF UpdatePull, TypeInv, Control, ControlOf
  <2>2. outdated' \in SUBSET Images /\ old' \in SUBSET Services
    BY <1>3 DEF UpdatePull, TypeInv, TypeOK, Labels
  <2>3. UNCHANGED <<files, dirs, def, status, jwt, cmd, local, begun>>
        /\ pc' \in {[pc EXCEPT ![p] = l] : l \in {"up", "next"}}
    BY <1>3 DEF UpdatePull
  <2> QED BY <2>1, <2>2, <2>3 DEF TypeInv, TypeOK, Labels, Control, ControlOf, StartLabels
<1> QED BY <1>1, <1>2, <1>3

LEMMA TypeBegin ==
  ASSUME TypeInv, NEW p \in Procs, Begin(p)
  PROVE  TypeInv'
<1>1. PICK c \in Commands :
        /\ cmd' = [cmd EXCEPT ![p] = c]
        /\ Goto(p, CASE c.op = "start" -> "pull"
                     [] c.op = "stop" -> "resolve"
                     [] c.op = "delete" -> "target"
                     [] c.op \in {"stopAll", "deleteAll"} -> "list"
                     [] c.op = "update" -> "images")
  BY DEF Begin
<1>2. c.op \in Ops
  BY LifecycleAssumption
<1>3. \E l \in {"pull", "resolve", "target", "list", "images"} :
        Goto(p, l) /\ (l = "pull" => c.op = "start")
        /\ (l \in {"target", "resolve"} => c.op # "update")
  BY <1>1, <1>2 DEF Ops
<1>4. begun' \in 0..MaxCommands
  BY LifecycleAssumption DEF Begin, TypeInv, TypeOK, Labels
<1>5. /\ UNCHANGED host
      /\ node' = [node EXCEPT ![p] = None] /\ ids' = [ids EXCEPT ![p] = {}]
      /\ stale' = [stale EXCEPT ![p] = {}] /\ upSince' = [upSince EXCEPT ![p] = {}]
      /\ todo' = [todo EXCEPT ![p] = {}] /\ image' = [image EXCEPT ![p] = None]
      /\ secret' = [secret EXCEPT ![p] = None]
  BY DEF Begin, Looks
<1>6. TypeOK'
  <2>1. cmd' \in [Procs -> Commands]
    BY <1>1 DEF TypeInv, TypeOK, Labels
  <2>2. pc' \in [Procs -> Labels]
    BY <1>3 DEF Goto, TypeInv, TypeOK, Labels
  <2>3. /\ node' \in [Procs -> Names \cup {None}] /\ ids' \in [Procs -> SUBSET Services]
        /\ stale' \in [Procs -> SUBSET Services] /\ upSince' \in [Procs -> SUBSET Services]
    BY <1>5 DEF TypeInv, TypeOK, Labels
  <2>4. /\ todo' \in [Procs -> SUBSET ((Names \cup {Watchtower}) \X Images)]
        /\ image' \in [Procs -> Images \cup {None}]
        /\ secret' \in [Procs -> Secrets \cup {None}]
    BY <1>5 DEF TypeInv, TypeOK, Labels
  <2> QED BY <1>4, <1>5, <2>1, <2>2, <2>3, <2>4 DEF TypeInv, TypeOK, Labels, host, hub
<1>7. Control'
  <2>1. PICK l \in {"pull", "resolve", "target", "list", "images"} :
          pc' = [pc EXCEPT ![p] = l] /\ (l = "pull" => c.op = "start")
          /\ (l \in {"target", "resolve"} => c.op # "update")
    BY <1>3 DEF Goto
  <2>2. pc'[p] = l /\ cmd'[p] = c
    BY <1>1, <2>1 DEF TypeInv, TypeOK, Labels
  <2>3. ControlOf(pc'[p], cmd'[p], node'[p])
    BY <2>1, <2>2 DEF ControlOf, StartLabels
  <2>4. \A q \in Procs \ {p} : pc'[q] = pc[q] /\ cmd'[q] = cmd[q] /\ node'[q] = node[q]
    BY <1>1, <1>5, <2>1 DEF TypeInv, TypeOK, Labels
  <2> QED BY <2>3, <2>4, ControlKept DEF TypeInv
<1> QED BY <1>6, <1>7 DEF TypeInv

LEMMA TypeNext == TypeInv /\ [Next]_vars => TypeInv'
<1> SUFFICES ASSUME TypeInv, [Next]_vars PROVE TypeInv'
  OBVIOUS
<1>1. ASSUME NEW p \in Procs, Begin(p) PROVE TypeInv'
  BY <1>1, TypeBegin
<1>2. ASSUME NEW p \in Procs, Kill(p) PROVE TypeInv'
  BY <1>2 DEF Kill, Goto, host, hub, local, held, TypeInv, TypeOK, Labels, Control, ControlOf,
              StartLabels
<1>3. ASSUME NEW p \in Procs, Step(p) PROVE TypeInv'
  BY <1>3, TypeStart, TypeUp, TypeStop, TypeDelete, TypeUpdate DEF Step
<1>4. CASE ContainerExits \/ Publish
  <2>1. TypeOK'
    <3>1. CASE ContainerExits
      <4>1. status' \in [Services -> {"absent", "created", "running", "exited"}]
        BY <3>1 DEF ContainerExits, TypeInv, TypeOK, Labels
      <4> QED BY <3>1, <4>1 DEF ContainerExits, hub, local, held, TypeInv, TypeOK, Labels
    <3>2. CASE Publish
      <4>1. outdated' \in SUBSET Images
        BY <3>2, LifecycleAssumption DEF Publish, TypeInv, TypeOK, Labels
      <4> QED BY <3>2, <4>1 DEF Publish, local, held, TypeInv, TypeOK, Labels
    <3> QED BY <1>4, <3>1, <3>2
  <2>2. Control'
    BY <1>4 DEF ContainerExits, Publish, local, TypeInv, Control
  <2> QED BY <2>1, <2>2 DEF TypeInv
<1>5. CASE UNCHANGED vars
  <2>1. TypeOK'
    BY <1>5 DEF vars, TypeInv, TypeOK, Labels
  <2>2. Control'
    BY <1>5 DEF vars, TypeInv, Control
  <2> QED BY <2>1, <2>2 DEF TypeInv
<1> QED BY <1>1, <1>2, <1>3, <1>4, <1>5 DEF Next

(* Every variable keeps its type, and only start commands reach the steps  *)
(* of start.                                                               *)
THEOREM TypeCorrect == Spec => []TypeInv
  BY TypeInit, TypeNext, PTL DEF Spec

(* The type invariant the runs check.                                      *)
THEOREM TypeCorrectOK == Spec => []TypeOK
<1>1. TypeInv => TypeOK
  BY DEF TypeInv
<1> QED BY <1>1, TypeCorrect, PTL

-----------------------------------------------------------------------------
(* Deletion                                                                *)

(* A container that has data of its own mounts it and has the name of its  *)
(* data directory, one the registry knows: `docker ps` gives it away.      *)
(* Watchtower, which has none, shares no secret either.                    *)
Telling(d) ==
    /\ d.own # None => /\ d.name = d.own[2] /\ d.name \in AllContainerNames
                       /\ d.own \in d.mounts
    /\ d.own = None => d.secret = None

FilesTelling == \A f \in Bases \X Names : \A d \in files[f] : Telling(d)
DefsTelling == \A s \in Services : Telling(def[s])

(* Between its check and the removal, a deletion only misses containers    *)
(* that another command started.                                           *)
RemoveGuarded ==
    \A p \in Procs : At(p, "remove") =>
        \A s \in Running : def[s].own \in Doomed(cmd[p]) => s \in upSince[p]

DeleteInv == TypeInv /\ FilesTelling /\ DefsTelling /\ RemoveGuarded

(* What the theorem excludes: a docker ps that fails while containers run, *)
(* and containers given another name.                                      *)
PsAnswersAlways == "ps" \notin Faults
NoCustomNames == \A c \in Commands : c.cname = None

LEMMA RequestedIsTelling ==
  ASSUME NoCustomNames, NEW c \in Commands, c.op = "start", NEW k
  PROVE  (\A d \in PlainStack(c, k) : Telling(d)) /\ (\A d \in FullStack(c, k) : Telling(d))
<1>1. StartNode(c) \in AllContainerNames /\ c.cname = None
      /\ c.extra \in Networks \cup {None} /\ c.testnet \in BOOLEAN
  BY LifecycleAssumption DEF NoCustomNames
<1>0. \A x \in AllContainerNames : <<c.base, x>> # None
  BY LifecycleAssumption, ContainersAreNames DEF Dirs
<1>2. Telling(MainDef(c, k))
  BY <1>0, <1>1 DEF Telling, MainDef
<1>3. ASSUME c.extra # None PROVE Telling(ExtraDef(c, k))
  <2>1. ContainerName[Registered(c.extra, c.testnet)] \in AllContainerNames
    BY <1>1, <1>3, EffectiveIsNetwork, CandidatesAreContainers DEF CandidateContainerNames
  <2> QED BY <1>0, <2>1 DEF Telling, ExtraDef
<1>4. \A D : (\A d \in D : Telling(d)) => \A d \in WithWatchtower(D) : Telling(d)
  BY DEF WithWatchtower, NoDef, Telling
<1> QED
  BY <1>2, <1>3, <1>4 DEF PlainStack, FullStack, Requested

(* What a deletion is to remove is a registered container's.               *)
LEMMA TargetsAreNames ==
  ASSUME NEW c \in Commands
  PROVE  DeleteTargets(c) \subseteq Names
<1> DEFINE n == EffectiveNetwork(c.net, c.testnet)
           r == ExplicitContainerName(c.net, Flags(c))
<1>1. c.net \in Networks /\ c.testnet \in BOOLEAN /\ Flags(c).testnet = c.testnet
  BY LifecycleAssumption DEF Flags
<1>2. n \in Networks
  BY <1>1, EffectiveIsNetwork
<1>3. ExplicitClient(n, Flags(c)) \subseteq CandidateContainerNames(n)
      /\ ContainerName[n] \in CandidateContainerNames(n)
  BY DEF ExplicitClient, CandidateContainerNames
<1>4. r.names \subseteq CandidateContainerNames(n)
  BY <1>1, <1>3, TheOneIsOne DEF ExplicitContainerName, Found, Refused
<1>5. r.names \subseteq Names
  BY <1>2, <1>4, CandidatesAreContainers, ContainersAreNames
<1> QED
  BY <1>1, <1>5, OnChainIsName DEF DeleteTargets

(* The guard lets a deletion on only if nothing that has data there runs.  *)
LEMMA GuardHolds ==
  ASSUME PsAnswersAlways, DeleteInv, NEW c \in Commands, TRUE \in GuardAnswers(c)
  PROVE  \A s \in Running : def[s].own \notin Doomed(c)
<1>1. Guarded(c) \cap RunningNames = {}
  <2>1. PICK ps \in PsAnswers : ~ps.ok \/ Guarded(c) \cap ps.names = {}
    BY Zenon DEF GuardAnswers
  <2>2. ps = [ok |-> TRUE, names |-> RunningNames]
    BY <2>1 DEF PsAnswers, PsAnswersAlways
  <2> QED BY <2>1, <2>2
<1>2. SUFFICES ASSUME NEW s \in Running, def[s].own \in Doomed(c) PROVE FALSE
  OBVIOUS
<1>3. s \in Services /\ def[s].name \in RunningNames
  BY <1>2 DEF Running, RunningNames
<1>4. def[s].own # None
  <2>1. c.base \in Bases
    BY LifecycleAssumption
  <2>2. Doomed(c) \subseteq Dirs
    BY <2>1, TargetsAreNames DEF Doomed, Dirs
  <2> QED BY <1>2, <2>2, LifecycleAssumption
<1>5. def[s].name = def[s].own[2] /\ def[s].name \in AllContainerNames
  BY <1>3, <1>4 DEF DeleteInv, DefsTelling, Telling
<1>6. def[s].name \in Guarded(c)
  BY <1>2, <1>5 DEF Doomed, Guarded
<1> QED BY <1>1, <1>3, <1>6

LEMMA DeleteInit == Init => DeleteInv
<1> SUFFICES ASSUME Init PROVE DeleteInv
  OBVIOUS
<1>1. FilesTelling /\ DefsTelling /\ RemoveGuarded
  BY DEF Init, FilesTelling, DefsTelling, RemoveGuarded, Telling, NoDef, At, Dirs
<1> QED BY <1>1, TypeInit DEF DeleteInv

(* A step that starts nothing and lets no deletion on keeps RemoveGuarded. *)
LEMMA GuardedKept ==
  ASSUME RemoveGuarded,
         \A s \in Running' : s \in Running /\ def'[s] = def[s],
         \A q \in Procs : pc'[q] = "remove" =>
            pc[q] = "remove" /\ cmd'[q] = cmd[q] /\ upSince'[q] = upSince[q]
  PROVE  RemoveGuarded'
  BY DEF RemoveGuarded, At, Doomed

(* The files: only start writes one, from what its command asks for.       *)
LEMMA FilesNext ==
  ASSUME NoCustomNames, DeleteInv, [Next]_vars
  PROVE  FilesTelling'
<1>1. CASE UNCHANGED files
  BY <1>1 DEF DeleteInv, FilesTelling
<1>2. ASSUME NEW p \in Procs, WritePlain(p) \/ Write(p)
      PROVE  FilesTelling'
  <2>1. cmd[p] \in Commands /\ cmd[p].op = "start"
    BY <1>2 DEF WritePlain, Write, At, DeleteInv, TypeInv, TypeOK, Control, ControlOf,
                StartLabels
  <2>2. ASSUME NEW D, \A d \in D : Telling(d), WriteFile(p, D)
        PROVE  FilesTelling'
    BY <2>2 DEF WriteFile, DeleteInv, TypeInv, TypeOK, Labels, FilesTelling, Telling
  <2>3. ASSUME NEW D, WriteFails(p, D)
        PROVE  FilesTelling'
    BY <1>1, <2>3 DEF WriteFails
  <2> QED
    BY <1>2, <2>1, <2>2, <2>3, RequestedIsTelling DEF WritePlain, Write
<1>3. ASSUME NEW p \in Procs, Remove(p)
      PROVE  FilesTelling'
  BY <1>3 DEF Remove, DeleteInv, FilesTelling, Telling
<1>4. ASSUME NEW p \in Procs, Begin(p) \/ Kill(p) \/ Pull(p) \/ Create(p) \/ Mint(p)
                \/ PullExtra(p)
                \/ UpCreate(p) \/ UpStart(p) \/ UpReturns(p) \/ Cleanup(p)
                \/ StopResolve(p) \/ StopPs(p) \/ StopDown(p)
                \/ StopAllList(p) \/ StopAllStop(p) \/ StopAllRemove(p)
                \/ DeleteTarget(p) \/ Guard(p)
                \/ UpdateList(p) \/ UpdateNext(p) \/ UpdatePull(p)
      PROVE  UNCHANGED files
  BY <1>4 DEF Begin, Kill, Pull, Create, Mint, PullExtra, UpCreate, UpStart, UpReturns, Cleanup,
              StopResolve, StopPs, StopDown, StopAllList, StopAllStop, StopAllRemove,
              DeleteTarget, Guard, UpdateList, UpdateNext, UpdatePull, host
<1>5. CASE ContainerExits \/ Publish \/ UNCHANGED vars
  BY <1>1, <1>5 DEF ContainerExits, Publish, vars
<1> QED BY <1>1, <1>2, <1>3, <1>4, <1>5 DEF Next, Step

(* The containers: compose up makes them from the files.                   *)
LEMMA DefsNext ==
  ASSUME DeleteInv, [Next]_vars
  PROVE  DefsTelling'
<1>1. CASE UNCHANGED def
  BY <1>1 DEF DeleteInv, DefsTelling
<1>2. ASSUME NEW p \in Procs, UpCreate(p)
      PROVE  DefsTelling'
  <2> DEFINE F == files[ComposeFile(p)]
             fresh(T) == {d \in T : ~Exists(d.svc) \/ def[d.svc] # d \/ d.svc \in old}
             new(T) == {d.svc : d \in fresh(T)}
  <2>1. PICK T \in SUBSET F :
          def' = [s \in Services |->
                    IF s \in new(T) THEN TheOne({d \in fresh(T) : d.svc = s}) ELSE def[s]]
    BY <1>2 DEF UpCreate
  <2>2. ComposeFile(p) \in Bases \X Names
    BY <1>2, ComposeFileIsKnown DEF UpCreate, At, DeleteInv
  <2>3. \A d \in F : Telling(d)
    BY <2>2 DEF DeleteInv, FilesTelling
  <2>4. ASSUME NEW s \in Services PROVE Telling(def'[s])
    <3>1. CASE s \in new(T)
      <4>1. {d \in fresh(T) : d.svc = s} # {}
        BY <3>1
      <4>2. TheOne({d \in fresh(T) : d.svc = s}) \in F
        BY <4>1, TheOneIsOne
      <4> QED BY <2>1, <2>3, <3>1, <4>2
    <3>2. CASE s \notin new(T)
      BY <2>1, <3>2 DEF DeleteInv, DefsTelling
    <3> QED BY <3>1, <3>2
  <2> QED BY <2>4 DEF DefsTelling, Telling
<1>3. ASSUME NEW p \in Procs, Begin(p) \/ Kill(p) \/ Pull(p) \/ Create(p) \/ Mint(p)
                \/ WritePlain(p)
                \/ PullExtra(p) \/ Write(p) \/ UpStart(p) \/ UpReturns(p) \/ Cleanup(p)
                \/ StopResolve(p) \/ StopPs(p) \/ StopDown(p)
                \/ StopAllList(p) \/ StopAllStop(p) \/ StopAllRemove(p)
                \/ DeleteTarget(p) \/ Guard(p) \/ Remove(p)
                \/ UpdateList(p) \/ UpdateNext(p) \/ UpdatePull(p)
      PROVE  UNCHANGED def
  BY <1>3 DEF Begin, Kill, Pull, Create, Mint, WritePlain, PullExtra, Write, WriteFile,
              WriteFails, UpStart, UpReturns, Cleanup, StopResolve, StopPs, StopDown,
              StopAllList, StopAllStop, StopAllRemove, DeleteTarget, Guard, Remove,
              UpdateList, UpdateNext, UpdatePull, host
<1>4. CASE ContainerExits \/ Publish \/ UNCHANGED vars
  BY <1>1, <1>4 DEF ContainerExits, Publish, vars
<1> QED BY <1>1, <1>2, <1>3, <1>4 DEF Next, Step

(* The labels steps other than Guard and the first of a command lead to.   *)
OtherLabels == {"done", "failed", "create", "mint", "plain", "pullExtra", "write", "up",
                "cleanup", "resolve", "ps", "down", "guard", "dockerStop", "dockerRm",
                "next", "refresh"}

(* The other steps that touch containers.                                  *)
LEMMA GuardNext ==
  ASSUME PsAnswersAlways, DeleteInv, [Next]_vars
  PROVE  RemoveGuarded'
<1>0. RemoveGuarded
  BY DEF DeleteInv
<1> USE DEF At, Goto, host, hub, local, held, CallFails, Looks
<1>1. ASSUME NEW p \in Procs, Begin(p)
      PROVE  RemoveGuarded'
  <2>1. pc' \in {[pc EXCEPT ![p] = l] : l \in {"pull", "resolve", "target", "list", "images"}}
    <3>1. PICK c \in Commands :
            Goto(p, CASE c.op = "start" -> "pull"
                      [] c.op = "stop" -> "resolve"
                      [] c.op = "delete" -> "target"
                      [] c.op \in {"stopAll", "deleteAll"} -> "list"
                      [] c.op = "update" -> "images")
      BY <1>1 DEF Begin
    <3>2. c.op \in Ops
      BY LifecycleAssumption
    <3> QED BY <3>1, <3>2 DEF Ops
  <2>2. \A q \in Procs \ {p} : cmd'[q] = cmd[q] /\ upSince'[q] = upSince[q]
    BY <1>1 DEF Begin, DeleteInv, TypeInv, TypeOK, Labels
  <2>3. UNCHANGED host
    BY <1>1 DEF Begin
  <2>4. \A q \in Procs : pc'[q] = "remove" => q # p /\ pc[q] = "remove"
    BY <2>1 DEF DeleteInv, TypeInv, TypeOK, Labels
  <2> QED BY <1>0, <2>2, <2>3, <2>4, GuardedKept DEF Running
<1>2. ASSUME NEW p \in Procs, UpCreate(p)
      PROVE  RemoveGuarded'
  <2> DEFINE F == files[ComposeFile(p)]
             fresh(T) == {d \in T : ~Exists(d.svc) \/ def[d.svc] # d \/ d.svc \in old}
             new(T) == {d.svc : d \in fresh(T)}
  <2>1. PICK T \in SUBSET F :
          /\ def' = [s \in Services |->
                       IF s \in new(T) THEN TheOne({d \in fresh(T) : d.svc = s}) ELSE def[s]]
          /\ status' = [s \in Services |->
                          IF s \in {d.svc : d \in T} /\ (s \in new(T) \/ status[s] = "exited")
                          THEN "created" ELSE status[s]]
          /\ pc' \in {[pc EXCEPT ![p] = l] : l \in {"starting", "failed", "next"}}
    BY <1>2 DEF UpCreate, UpEnds, UpFails
  <2>2. ASSUME NEW s \in Running' PROVE s \in Running /\ def'[s] = def[s]
    <3>1. s \in Services /\ status'[s] = "running"
      BY DEF Running
    <3>2. s \notin {d.svc : d \in T} \/ s \notin new(T)
      BY <2>1, <3>1
    <3>3. s \notin new(T) /\ status[s] = "running"
      BY <2>1, <3>1, <3>2
    <3> QED BY <2>1, <3>1, <3>3 DEF Running
  <2>3. UNCHANGED <<cmd, upSince>>
    BY <1>2 DEF UpCreate
  <2>4. \A q \in Procs : pc'[q] = "remove" => pc[q] = "remove"
    BY <2>1 DEF DeleteInv, TypeInv, TypeOK, Labels
  <2> QED BY <1>0, <2>2, <2>3, <2>4, GuardedKept
<1>3. ASSUME NEW p \in Procs, UpStart(p)
      PROVE  RemoveGuarded'
  <2>1. PICK s \in ids[p] \ stale[p] :
          /\ status' = [status EXCEPT ![s] = "running"]
          /\ upSince' = [q \in Procs |-> IF q = p THEN upSince[q] ELSE upSince[q] \cup {s}]
    BY <1>3 DEF UpStart, Starts
  <2>2. pc[p] = "starting" /\ UNCHANGED <<pc, cmd, def>>
    BY <1>3 DEF UpStart
  <2>3. SUFFICES ASSUME NEW q \in Procs, pc[q] = "remove", NEW t \in Running',
                        def[t].own \in Doomed(cmd[q])
                 PROVE  t \in upSince'[q]
    BY <2>2 DEF RemoveGuarded, Doomed
  <2>4. q # p
    BY <2>2, <2>3
  <2>5. CASE t = s
    BY <2>1, <2>4, <2>5
  <2>6. CASE t # s
    <3>1. t \in Running
      BY <2>1, <2>6 DEF Running, DeleteInv, TypeInv, TypeOK, Labels
    <3> QED BY <1>0, <2>1, <2>3, <2>4, <3>1 DEF RemoveGuarded
  <2> QED BY <2>5, <2>6
<1>4. ASSUME NEW p \in Procs, Guard(p)
      PROVE  RemoveGuarded'
  <2>1. UNCHANGED <<def, status, cmd>>
    BY <1>4 DEF Guard
  <2>2. \A q \in Procs \ {p} : pc'[q] = pc[q] /\ upSince'[q] = upSince[q]
    BY <1>4 DEF Guard, DeleteInv, TypeInv, TypeOK, Labels
  <2>3. pc'[p] = "remove" => TRUE \in GuardAnswers(cmd[p])
    <3>1. PICK free \in GuardAnswers(cmd[p]) :
             pc' = [pc EXCEPT ![p] = IF free THEN "remove" ELSE "failed"]
      BY <1>4 DEF Guard
    <3>2. free \in BOOLEAN
      BY DEF GuardAnswers, PsAnswers
    <3> QED BY <3>1, <3>2 DEF DeleteInv, TypeInv, TypeOK, Labels
  <2>4. cmd[p] \in Commands
    BY DEF DeleteInv, TypeInv, TypeOK, Labels
  <2>5. pc'[p] = "remove" => \A s \in Running : def[s].own \notin Doomed(cmd[p])
    BY <2>3, <2>4, GuardHolds
  <2> QED BY <1>0, <2>1, <2>2, <2>5 DEF RemoveGuarded, Running, Doomed
<1>5. ASSUME NEW p \in Procs,
             Kill(p) \/ Pull(p) \/ Create(p) \/ Mint(p) \/ WritePlain(p) \/ PullExtra(p)
             \/ Write(p) \/ UpReturns(p) \/ Cleanup(p) \/ StopPs(p) \/ DeleteTarget(p)
             \/ Remove(p) \/ UpdatePull(p)
      PROVE  RemoveGuarded'
  <2>1. UNCHANGED <<def, status, cmd, upSince>>
    BY <1>5 DEF Kill, Pull, Create, Mint, WritePlain, PullExtra, Write, WriteFile, WriteFails,
                UpReturns, Cleanup, StopPs, DeleteTarget, Remove, UpdatePull
  <2>2. pc' \in {[pc EXCEPT ![p] = l] : l \in OtherLabels}
    BY <1>5 DEF OtherLabels, Kill, Pull, Create, Mint, FirstWrite, WritePlain, PullExtra, Write,
                WriteFile, WriteFails, UpReturns, UpEnds, UpFails, Cleanup, StopPs, StopReturns,
                StopFails, DeleteTarget, Remove, UpdatePull
  <2>3. \A q \in Procs : pc'[q] = "remove" => pc[q] = "remove"
    BY <2>2 DEF OtherLabels, DeleteInv, TypeInv, TypeOK, Labels
  <2> QED BY <1>0, <2>1, <2>3, GuardedKept DEF Running
<1>6. ASSUME NEW p \in Procs,
             StopResolve(p) \/ StopDown(p) \/ StopAllList(p) \/ StopAllStop(p) \/ StopAllRemove(p)
      PROVE  RemoveGuarded'
  <2>1. UNCHANGED <<def, cmd>> /\ \A s \in Running' : s \in Running
    BY <1>6 DEF StopResolve, StopDown, StopAllList, StopAllStop, StopAllRemove, AfterStop, Running
  <2>2. pc' \in {[pc EXCEPT ![p] = l] : l \in OtherLabels}
    BY <1>6 DEF OtherLabels, StopResolve, StopDown, StopAllList, StopAllStop, StopAllRemove,
                StopReturns, StopFails, AllReturns, AllFails
  <2>3. \A q \in Procs \ {p} : upSince'[q] = upSince[q]
    BY <1>6 DEF StopResolve, StopDown, StopAllList, StopAllStop, StopAllRemove,
                DeleteInv, TypeInv, TypeOK, Labels
  <2>4. \A q \in Procs : pc'[q] = "remove" => q # p /\ pc[q] = "remove"
    BY <2>2 DEF OtherLabels, DeleteInv, TypeInv, TypeOK, Labels
  <2> QED BY <1>0, <2>1, <2>3, <2>4, GuardedKept
<1>7. ASSUME NEW p \in Procs, UpdateList(p) \/ UpdateNext(p)
      PROVE  RemoveGuarded'
  <2>1. UNCHANGED <<def, status, cmd, upSince>>
    BY <1>7 DEF UpdateList, UpdateNext
  <2>2. pc' = pc \/ \E l \in OtherLabels : pc' = [pc EXCEPT ![p] = l]
    BY <1>7 DEF OtherLabels, UpdateList, UpdateNext
  <2>3. \A q \in Procs : pc'[q] = "remove" => pc[q] = "remove"
    BY <2>2 DEF OtherLabels, DeleteInv, TypeInv, TypeOK, Labels
  <2> QED BY <1>0, <2>1, <2>3, GuardedKept DEF Running
<1>8. CASE ContainerExits \/ Publish
  <2>1. UNCHANGED <<def, pc, cmd, upSince>> /\ \A s \in Running' : s \in Running
    BY <1>8 DEF ContainerExits, Publish, Running, DeleteInv, TypeInv, TypeOK, Labels
  <2> QED BY <1>0, <2>1, GuardedKept
<1>9. CASE UNCHANGED vars
  BY <1>0, <1>9, GuardedKept DEF vars, Running
<1> QED BY <1>1, <1>2, <1>3, <1>4, <1>5, <1>6, <1>7, <1>8, <1>9 DEF Next, Step

LEMMA DeleteNext ==
  ASSUME PsAnswersAlways, NoCustomNames
  PROVE  DeleteInv /\ [Next]_vars => DeleteInv'
  BY TypeNext, FilesNext, DefsNext, GuardNext DEF DeleteInv

(* As long as docker ps answers and containers keep their own names, a     *)
(* deletion that has passed its check (delete.go:98, :134) only misses     *)
(* containers that another command started since.                          *)
THEOREM DeleteInvariant ==
  ASSUME PsAnswersAlways, NoCustomNames
  PROVE  Spec => []DeleteInv
  BY DeleteInit, DeleteNext, PTL DEF Spec

(* A directory only disappears in Remove, and only one that is doomed.     *)
LEMMA OnlyRemoveRemoves ==
  ASSUME DeleteInv, [Next]_vars, NEW d \in dirs \ dirs'
  PROVE  \E p \in Procs : At(p, "remove") /\ d \in Doomed(cmd[p])
<1>1. ASSUME NEW p \in Procs, Remove(p)
      PROVE  At(p, "remove") /\ d \in Doomed(cmd[p])
  BY <1>1 DEF Remove
<1>2. ASSUME NEW p \in Procs, Begin(p) \/ Kill(p) \/ Pull(p) \/ Create(p) \/ Mint(p)
                \/ PullExtra(p)
                \/ UpCreate(p) \/ UpReturns(p) \/ Cleanup(p)
                \/ StopResolve(p) \/ StopPs(p) \/ StopDown(p)
                \/ StopAllList(p) \/ StopAllStop(p) \/ StopAllRemove(p)
                \/ DeleteTarget(p) \/ Guard(p)
                \/ UpdateList(p) \/ UpdateNext(p) \/ UpdatePull(p)
      PROVE  FALSE
  <2>1. UNCHANGED dirs
    BY <1>2 DEF Begin, Kill, Pull, Create, Mint, PullExtra, UpCreate, UpReturns, Cleanup,
                StopResolve, StopPs, StopDown, StopAllList, StopAllStop, StopAllRemove,
                DeleteTarget, Guard, UpdateList, UpdateNext, UpdatePull, host
  <2> QED BY <2>1
<1>3. ASSUME NEW p \in Procs, WritePlain(p) \/ Write(p) \/ UpStart(p)
      PROVE  FALSE
  <2>1. dirs \subseteq dirs'
    BY <1>3 DEF WritePlain, Write, WriteFile, WriteFails, UpStart
  <2> QED BY <2>1
<1>4. ~ContainerExits /\ ~Publish /\ ~UNCHANGED vars
  BY DEF ContainerExits, Publish, vars
<1> QED BY <1>1, <1>2, <1>3, <1>4 DEF Next, Step

(* A directory that goes has no running node's data, unless another        *)
(* command started the node after the deletion had looked.                 *)
LEMMA DeleteSafeStep ==
  ASSUME DeleteInv, [Next]_vars
  PROVE  \A d \in dirs \ dirs' : \A s \in Running : Uses(s, d) =>
            \E p \in Procs : At(p, "remove") /\ s \in upSince[p]
<1>1. SUFFICES ASSUME NEW d \in dirs \ dirs', NEW s \in Running, Uses(s, d)
               PROVE  \E p \in Procs : At(p, "remove") /\ s \in upSince[p]
  OBVIOUS
<1>2. PICK p \in Procs : At(p, "remove") /\ d \in Doomed(cmd[p])
  BY OnlyRemoveRemoves
<1>3. s \in upSince[p]
  BY <1>1, <1>2 DEF Uses, DeleteInv, RemoveGuarded
<1> QED BY <1>2, <1>3

(* For any number of commands, processes and data directories and any      *)
(* registry: no failed, partial or misdirected stop, no crash and no order *)
(* of other commands leads `delete` or `delete all` to the data of a node  *)
(* that ran when it looked (delete.go:93-103, :128-141).                   *)
THEOREM DeletionSafe ==
  ASSUME PsAnswersAlways, NoCustomNames
  PROVE  Spec => DeleteSafe
  BY DeleteSafeStep, DeleteInvariant, PTL DEF Spec, DeleteSafe

-----------------------------------------------------------------------------
(* One command after the other                                             *)

OneProcess == \A p, q \in Procs : p = q

(* An update brings up compose files that older commands wrote.            *)
NoUpdates == \A c \in Commands : c.op # "update"

(* Nothing is started behind a command's back.                             *)
NothingMissed == \A p \in Procs : upSince[p] = {}

LEMMA MissedNext ==
  ASSUME OneProcess, TypeInv, NothingMissed, [Next]_vars
  PROVE  NothingMissed'
<1> USE DEF local, Looks, NothingMissed
<1>1. ASSUME NEW p \in Procs, UpStart(p)
      PROVE  NothingMissed'
  <2>1. PICK s : Starts(p, s)
    BY <1>1 DEF UpStart
  <2>2. \A q \in Procs : q = p
    BY DEF OneProcess
  <2> QED BY <2>1, <2>2 DEF Starts
<1>2. ASSUME NEW p \in Procs, Begin(p) \/ StopResolve(p) \/ StopAllList(p) \/ Guard(p)
      PROVE  NothingMissed'
  BY <1>2 DEF Begin, StopResolve, StopAllList, Guard, TypeInv, TypeOK, Labels
<1>3. ASSUME NEW p \in Procs, Kill(p) \/ Pull(p) \/ Create(p) \/ Mint(p) \/ WritePlain(p)
                \/ PullExtra(p)
                \/ Write(p) \/ UpCreate(p) \/ UpReturns(p) \/ Cleanup(p)
                \/ StopPs(p) \/ StopDown(p) \/ StopAllStop(p) \/ StopAllRemove(p)
                \/ DeleteTarget(p) \/ Remove(p)
                \/ UpdateList(p) \/ UpdateNext(p) \/ UpdatePull(p)
      PROVE  NothingMissed'
  <2>1. UNCHANGED upSince
    BY <1>3 DEF Kill, Pull, Create, Mint, WritePlain, PullExtra, Write, WriteFile, WriteFails,
                UpCreate, UpReturns, Cleanup, StopPs, StopDown, StopAllStop, StopAllRemove,
                DeleteTarget, Remove, UpdateList, UpdateNext, UpdatePull
  <2> QED BY <2>1
<1>4. CASE ContainerExits \/ Publish \/ UNCHANGED vars
  BY <1>4 DEF ContainerExits, Publish, vars
<1> QED BY <1>1, <1>2, <1>3, <1>4 DEF Next, Step

(* While commands are given one after the other, whatever fails and        *)
(* wherever they are interrupted, the data of a running node is never      *)
(* removed (delete.go:61): the only way to lose it is the window between   *)
(* the check and the removal, open to other commands.                      *)
THEOREM SerialDeletionSafe ==
  ASSUME PsAnswersAlways, NoCustomNames, OneProcess
  PROVE  Spec => RunningDataStays
<1>1. Init => NothingMissed
  BY DEF Init, NothingMissed
<1>2. DeleteInv /\ NothingMissed /\ [Next]_vars => NothingMissed'
  BY MissedNext DEF DeleteInv
<1>3. ASSUME DeleteInv, NothingMissed, [Next]_vars
      PROVE  \A d \in dirs \ dirs' : \A s \in Running : ~Uses(s, d)
  BY <1>3, DeleteSafeStep DEF NothingMissed
<1> QED BY <1>1, <1>2, <1>3, DeleteInvariant, PTL DEF Spec, RunningDataStays
=============================================================================
