--------------------------- MODULE StopTruth_proofs ---------------------------
(***************************************************************************)
(* A stop tells the truth and a start replaces no node, for any number of  *)
(* processes: both rest on services and containers having the same names.  *)
(***************************************************************************)
EXTENDS NodeLifecycle_proofs

-----------------------------------------------------------------------------
(* What steps leave alone                                                  *)

LEMMA Types ==
  ASSUME TypeInv
  PROVE  /\ files \in [Bases \X Names -> SUBSET Definitions]
         /\ def \in [Services -> Definitions]
         /\ status \in [Services -> {"absent", "created", "running", "exited"}]
         /\ pc \in [Procs -> Labels] /\ cmd \in [Procs -> Commands]
         /\ node \in [Procs -> Names \cup {None}]
         /\ ids \in [Procs -> SUBSET Services] /\ stale \in [Procs -> SUBSET Services]
         /\ upSince \in [Procs -> SUBSET Services]
         /\ secret \in [Procs -> Secrets \cup {None}]
  BY DEF TypeInv, TypeOK

(* A process only changes its own place and its own records; what it starts*)
(* the others may miss.                                                    *)
LEMMA OthersKeep ==
  ASSUME TypeInv, NEW p \in Procs, Begin(p) \/ Kill(p) \/ Step(p), NEW q \in Procs \ {p}
  PROVE  /\ pc'[q] = pc[q] /\ cmd'[q] = cmd[q] /\ node'[q] = node[q]
         /\ ids'[q] = ids[q] /\ secret'[q] = secret[q]
         /\ upSince[q] \subseteq upSince'[q]
<1> USE Types DEF At, Goto, CallFails, local, held, Looks, Starts
<1>1. CASE Begin(p) \/ Kill(p) \/ Pull(p) \/ Create(p) \/ Mint(p) \/ PullExtra(p)
  BY <1>1 DEF Begin, Kill, Pull, Create, Mint, PullExtra
<1>2. CASE WritePlain(p) \/ Write(p)
  BY <1>2 DEF WritePlain, Write, WriteFile, WriteFails
<1>3. CASE UpCreate(p) \/ UpStart(p) \/ UpReturns(p) \/ Cleanup(p)
  BY <1>3 DEF UpCreate, UpStart, UpReturns, Cleanup, UpEnds, UpFails
<1>4. CASE StopResolve(p) \/ StopPs(p) \/ StopDown(p)
  BY <1>4 DEF StopResolve, StopPs, StopDown, StopReturns, StopFails
<1>5. CASE StopAllList(p) \/ StopAllStop(p) \/ StopAllRemove(p)
  BY <1>5 DEF StopAllList, StopAllStop, StopAllRemove, AllReturns, AllFails
<1>6. CASE DeleteTarget(p) \/ Guard(p) \/ Remove(p)
  BY <1>6 DEF DeleteTarget, Guard, Remove
<1>7. CASE UpdateList(p) \/ UpdateNext(p) \/ UpdatePull(p)
  BY <1>7 DEF UpdateList, UpdateNext, UpdatePull
<1> QED BY <1>1, <1>2, <1>3, <1>4, <1>5, <1>6, <1>7 DEF Step

(* Where each step leads.                                                  *)
LEMMA Leads ==
  ASSUME TypeInv, NEW p \in Procs
  PROVE  /\ Begin(p) => pc'[p] \in {"pull", "resolve", "target", "list", "images"}
         /\ Kill(p) => pc'[p] = "failed"
         /\ Pull(p) => pc'[p] \in {"create", "failed"}
         /\ Create(p) => pc'[p] \in {"mint", "plain", "pullExtra", "write", "failed"}
         /\ Mint(p) => pc'[p] \in {"plain", "pullExtra", "write", "failed"}
         /\ WritePlain(p) => pc'[p] \in {"pullExtra", "failed"}
         /\ PullExtra(p) => pc'[p] \in {"write", "failed"}
         /\ Write(p) => pc'[p] \in {"up", "failed"}
         /\ UpCreate(p) => pc'[p] \in {"starting", "next", "failed"}
         /\ UpStart(p) => pc[p] = "starting" /\ pc' = pc
         /\ UpReturns(p) => pc'[p] \in {"cleanup", "next", "failed"}
         /\ Cleanup(p) => pc'[p] = "done"
         /\ StopResolve(p) => pc'[p] \in {"ps", "guard", "done", "failed"}
         /\ StopPs(p) => pc'[p] \in {"down", "guard", "done", "failed"}
         /\ StopDown(p) => pc'[p] \in {"refresh", "next", "guard", "done", "failed"}
         /\ StopAllList(p) => pc'[p] \in {"dockerStop", "guard", "done", "failed"}
         /\ StopAllStop(p) => pc'[p] \in {"dockerRm", "guard", "done", "failed"}
         /\ StopAllRemove(p) => pc'[p] \in {"guard", "done", "failed"}
         /\ DeleteTarget(p) => pc'[p] \in {"guard", "resolve", "failed"}
         /\ Guard(p) => pc'[p] \in {"remove", "failed"}
         /\ Remove(p) => pc'[p] \in {"done", "failed"}
         /\ UpdateList(p) => pc'[p] \in {"next", "failed"}
         /\ UpdateNext(p) => pc'[p] \in {"next", "down", "done"}
         /\ UpdatePull(p) => pc'[p] \in {"up", "next"}
<1> USE Types DEF At, Goto, CallFails
<1>1. Begin(p) => pc'[p] \in {"pull", "resolve", "target", "list", "images"}
  <2> SUFFICES ASSUME Begin(p) PROVE pc'[p] \in {"pull", "resolve", "target", "list", "images"}
    OBVIOUS
  <2>1. PICK c \in Commands :
          pc' = [pc EXCEPT ![p] = CASE c.op = "start" -> "pull"
                                    [] c.op = "stop" -> "resolve"
                                    [] c.op = "delete" -> "target"
                                    [] c.op \in {"stopAll", "deleteAll"} -> "list"
                                    [] c.op = "update" -> "images"]
    BY DEF Begin
  <2>2. c.op \in Ops
    BY LifecycleAssumption
  <2> QED BY <2>1, <2>2 DEF Ops
<1>2. /\ Kill(p) => pc'[p] = "failed"
      /\ Pull(p) => pc'[p] \in {"create", "failed"}
      /\ Create(p) => pc'[p] \in {"mint", "plain", "pullExtra", "write", "failed"}
      /\ Mint(p) => pc'[p] \in {"plain", "pullExtra", "write", "failed"}
  BY DEF Kill, Pull, Create, Mint, FirstWrite
<1>3. /\ WritePlain(p) => pc'[p] \in {"pullExtra", "failed"}
      /\ PullExtra(p) => pc'[p] \in {"write", "failed"}
      /\ Write(p) => pc'[p] \in {"up", "failed"}
  BY DEF WritePlain, PullExtra, Write, WriteFails
<1>4. /\ UpCreate(p) => pc'[p] \in {"starting", "next", "failed"}
      /\ UpStart(p) => pc[p] = "starting" /\ pc' = pc
      /\ UpReturns(p) => pc'[p] \in {"cleanup", "next", "failed"}
      /\ Cleanup(p) => pc'[p] = "done"
  BY DEF UpCreate, UpStart, UpReturns, Cleanup, UpEnds, UpFails
<1>5. /\ StopResolve(p) => pc'[p] \in {"ps", "guard", "done", "failed"}
      /\ StopPs(p) => pc'[p] \in {"down", "guard", "done", "failed"}
  BY DEF StopResolve, StopPs, StopReturns, StopFails, TypeInv, Control, ControlOf
<1>6. StopDown(p) => pc'[p] \in {"refresh", "next", "guard", "done", "failed"}
  BY DEF StopDown, StopReturns, StopFails
<1>7. /\ StopAllList(p) => pc'[p] \in {"dockerStop", "guard", "done", "failed"}
      /\ StopAllStop(p) => pc'[p] \in {"dockerRm", "guard", "done", "failed"}
      /\ StopAllRemove(p) => pc'[p] \in {"guard", "done", "failed"}
  BY DEF StopAllList, StopAllStop, StopAllRemove, AllReturns, AllFails
<1>8. /\ DeleteTarget(p) => pc'[p] \in {"guard", "resolve", "failed"}
      /\ Guard(p) => pc'[p] \in {"remove", "failed"}
      /\ Remove(p) => pc'[p] \in {"done", "failed"}
  BY DEF DeleteTarget, Guard, Remove
<1>9. /\ UpdateList(p) => pc'[p] \in {"next", "failed"}
      /\ UpdateNext(p) => pc'[p] \in {"next", "down", "done"}
      /\ UpdatePull(p) => pc'[p] \in {"up", "next"}
  BY DEF UpdateList, UpdateNext, UpdatePull
<1> QED BY <1>1, <1>2, <1>3, <1>4, <1>5, <1>6, <1>7, <1>8, <1>9

(* Compose files are only written by starts and removed by deletions.      *)
LEMMA FilesKeep ==
  ASSUME [Next]_vars, files' # files
  PROVE  \E p \in Procs : WritePlain(p) \/ Write(p) \/ Remove(p)
<1>1. ASSUME NEW p \in Procs, Begin(p) \/ Kill(p) \/ Pull(p) \/ Create(p) \/ Mint(p)
                \/ PullExtra(p) \/ UpCreate(p) \/ UpStart(p) \/ UpReturns(p) \/ Cleanup(p)
                \/ StopResolve(p) \/ StopPs(p) \/ StopDown(p)
                \/ StopAllList(p) \/ StopAllStop(p) \/ StopAllRemove(p)
                \/ DeleteTarget(p) \/ Guard(p)
                \/ UpdateList(p) \/ UpdateNext(p) \/ UpdatePull(p)
      PROVE  UNCHANGED files
  BY <1>1 DEF Begin, Kill, Pull, Create, Mint, PullExtra, UpCreate, UpStart, UpReturns, Cleanup,
              StopResolve, StopPs, StopDown, StopAllList, StopAllStop, StopAllRemove,
              DeleteTarget, Guard, UpdateList, UpdateNext, UpdatePull, host
<1>2. ContainerExits \/ Publish \/ UNCHANGED vars => UNCHANGED files
  BY DEF ContainerExits, Publish, vars
<1> QED BY <1>1, <1>2 DEF Next, Step

(* Containers are only made by compose up, and only removed by compose down*)
(* and docker rm.                                                          *)
LEMMA ContainersKeep ==
  ASSUME TypeInv, [Next]_vars
  PROVE  \/ /\ def' = def
            /\ \A s \in Services : status'[s] # "absent" <=> Exists(s)
         \/ \E p \in Procs : UpCreate(p)
         \/ /\ def' = def
            /\ \A s \in Services : status'[s] # "absent" => Exists(s)
            /\ \E p \in Procs : StopDown(p) \/ StopAllRemove(p)
<1> USE Types DEF Exists
<1>1. ASSUME NEW p \in Procs, Begin(p) \/ Kill(p) \/ Pull(p) \/ Create(p) \/ Mint(p)
                \/ WritePlain(p) \/ PullExtra(p) \/ Write(p) \/ UpReturns(p) \/ Cleanup(p)
                \/ StopResolve(p) \/ StopPs(p) \/ StopAllList(p)
                \/ DeleteTarget(p) \/ Guard(p) \/ Remove(p)
                \/ UpdateList(p) \/ UpdateNext(p) \/ UpdatePull(p)
      PROVE  UNCHANGED <<def, status>>
  BY <1>1 DEF Begin, Kill, Pull, Create, Mint, WritePlain, PullExtra, Write, WriteFile,
              WriteFails, UpReturns, Cleanup, StopResolve, StopPs, StopAllList, DeleteTarget,
              Guard, Remove, UpdateList, UpdateNext, UpdatePull, host
<1>2. ASSUME NEW p \in Procs, UpStart(p) \/ StopAllStop(p)
      PROVE  def' = def /\ \A s \in Services : status'[s] # "absent" <=> Exists(s)
  <2>1. CASE UpStart(p)
    <3>1. PICK s : status[s] = "created" /\ status' = [status EXCEPT ![s] = "running"]
      BY <2>1 DEF UpStart
    <3> QED BY <2>1, <3>1 DEF UpStart
  <2>2. CASE StopAllStop(p)
    BY <2>2 DEF StopAllStop, AfterStop, Running
  <2> QED BY <1>2, <2>1, <2>2
<1>3. ASSUME NEW p \in Procs, StopDown(p) \/ StopAllRemove(p)
      PROVE  def' = def /\ \A s \in Services : status'[s] # "absent" => Exists(s)
  BY <1>3 DEF StopDown, StopAllRemove, AfterStop, Running
<1>4. CASE ContainerExits \/ Publish \/ UNCHANGED vars
  BY <1>4 DEF ContainerExits, Publish, vars, Running
<1> QED BY <1>1, <1>2, <1>3, <1>4 DEF Next, Step

(* What compose up does to the containers before it starts any.            *)
LEMMA UpEffect ==
  ASSUME TypeInv, NEW p \in Procs, UpCreate(p)
  PROVE  \E T \in SUBSET files[ComposeFile(p)] :
           /\ ids' = [ids EXCEPT ![p] = {d.svc : d \in T}] /\ stale'[p] = {}
           /\ \A d \in T : \E e \in T : e.svc = d.svc /\ def'[d.svc] = e
           /\ \A d \in T : status'[d.svc] # "absent"
           /\ \A s \in Services : \/ \E d \in T : d.svc = s
                                  \/ def'[s] = def[s] /\ status'[s] = status[s]
           /\ \A s \in Services :
                status'[s] = "running" => status[s] = "running" /\ def'[s] = def[s]
           /\ \/ T = files[ComposeFile(p)] /\ T # {} /\ Goto(p, "starting")
              \/ UpFails(p)
              \/ (\E d \in files[ComposeFile(p)] : ~Creatable(d)) /\ UpEnds(p, "failed")
              \/ files[ComposeFile(p)] = {} /\ UpEnds(p, "failed")
<1> DEFINE F == files[ComposeFile(p)]
           fresh(T) == {d \in T : ~Exists(d.svc) \/ def[d.svc] # d \/ d.svc \in old}
           new(T) == {d.svc : d \in fresh(T)}
<1>1. PICK T \in SUBSET F :
        /\ def' = [s \in Services |->
                     IF s \in new(T) THEN TheOne({d \in fresh(T) : d.svc = s}) ELSE def[s]]
        /\ status' = [s \in Services |->
                        IF s \in {d.svc : d \in T} /\ (s \in new(T) \/ status[s] = "exited")
                        THEN "created" ELSE status[s]]
        /\ ids' = [ids EXCEPT ![p] = {d.svc : d \in T}]
        /\ stale' = [q \in Procs |-> IF q = p THEN {} ELSE stale[q] \cup (ids[q] \cap new(T))]
        /\ \/ T = F /\ F # {} /\ Goto(p, "starting")
           \/ T # F /\ UpFails(p)
           \/ T # F /\ (\E d \in F \ T : ~Creatable(d)) /\ UpEnds(p, "failed")
           \/ F = {} /\ UpEnds(p, "failed")
  BY DEF UpCreate
<1>2. \A d \in T : d.svc \in Services
  BY ComposeFileIsKnown, Types, DefinitionFields DEF UpCreate, At
<1>3. ASSUME NEW d \in T
      PROVE  (\E e \in T : e.svc = d.svc /\ def'[d.svc] = e) /\ status'[d.svc] # "absent"
  <2>1. CASE d.svc \in new(T)
    <3>1. TheOne({e \in fresh(T) : e.svc = d.svc}) \in {e \in fresh(T) : e.svc = d.svc}
      BY <2>1, TheOneIsOne
    <3> QED BY <1>1, <1>2, <2>1, <3>1
  <2>2. CASE d.svc \notin new(T)
    <3>1. def[d.svc] = d /\ status[d.svc] # "absent"
      BY <2>2 DEF Exists
    <3> QED BY <1>1, <1>2, <2>2, <3>1
  <2> QED BY <2>1, <2>2
<1>4. ASSUME NEW s \in Services
      PROVE  /\ (\E d \in T : d.svc = s) \/ (def'[s] = def[s] /\ status'[s] = status[s])
             /\ status'[s] = "running" => status[s] = "running" /\ def'[s] = def[s]
  <2>1. s \in new(T) => s \in {d.svc : d \in T}
    OBVIOUS
  <2> HIDE DEF new
  <2> QED BY <1>1, <2>1
<1>5. stale'[p] = {}
  BY <1>1
<1> HIDE DEF fresh, new
<1> QED BY <1>1, <1>3, <1>4, <1>5

-----------------------------------------------------------------------------
(* Services and their containers                                           *)

(* The extras whose service name does not carry "-testnet" are only started*)
(* without it, where the service has the name of its container as every    *)
(* other has (bitcoin.go:83-86).                                        *)
KeysMatchNames ==
    \A c \in Commands : c.op = "start" /\ c.extra \in OwnKey =>
        Registered(c.extra, c.testnet) = c.extra

(* Every service has the name of its container, in the compose files and   *)
(* in Docker, and a compose file is named after one of its services.       *)
FilesKeyed ==
    \A f \in Bases \X Names : files[f] # {} =>
        /\ \A d \in files[f] : d.name = d.svc
        /\ \E d \in files[f] : d.svc = f[2]

DefsKeyed == \A s \in Services : Exists(s) => def[s].svc = s /\ def[s].name = s

Keyed == TypeInv /\ FilesKeyed /\ DefsKeyed

(* What start writes: the services of one command.                         *)
LEMMA RequestedIsKeyed ==
  ASSUME NoCustomNames, KeysMatchNames, NEW c \in Commands, c.op = "start", NEW k,
         NEW D \in {PlainStack(c, k), FullStack(c, k)}
  PROVE  /\ \A d \in D : d.name = d.svc
         /\ MainDef(c, k) \in D /\ MainDef(c, k).svc = StartNode(c)
<1>1. MainDef(c, k).svc = StartNode(c) /\ MainDef(c, k).name = StartNode(c)
  BY DEF NoCustomNames, MainDef
<1>2. ExtraDef(c, k).name = ExtraDef(c, k).svc
  BY DEF KeysMatchNames, ExtraDef
<1>3. NoDef.name = NoDef.svc
  BY DEF NoDef
<1>4. \A d \in Requested(c, k) : d.name = d.svc
  BY <1>1, <1>2 DEF Requested
<1>5. \A W : \A d \in WithWatchtower(W) \ W : d.name = d.svc
  BY DEF WithWatchtower, NoDef
<1>6. \A d \in D : d.name = d.svc
  BY <1>1, <1>4, <1>5 DEF PlainStack, FullStack
<1> QED BY <1>1, <1>6 DEF PlainStack, FullStack, WithWatchtower, Requested

(* Where start writes, and what.                                           *)
LEMMA StartWrites ==
  ASSUME TypeInv, NEW p \in Procs, WritePlain(p) \/ Write(p)
  PROVE  /\ cmd[p] \in Commands /\ cmd[p].op = "start"
         /\ ComposeFile(p) = <<cmd[p].base, StartNode(cmd[p])>>
         /\ ComposeFile(p) \in Bases \X Names
         /\ \/ files' = files
            \/ \E D \in {PlainStack(cmd[p], secret[p]), FullStack(cmd[p], secret[p])} :
                  files' = [files EXCEPT ![ComposeFile(p)] = D]
<1>1. cmd[p] \in Commands /\ cmd[p].op = "start"
  BY DEF WritePlain, Write, At, TypeInv, TypeOK, Control, ControlOf, StartLabels
<1>2. ComposeFile(p) = <<cmd[p].base, StartNode(cmd[p])>>
  BY <1>1 DEF ComposeFile
<1>3. ComposeFile(p) \in Bases \X Names
  BY <1>1, <1>2, LifecycleAssumption, ContainersAreNames
<1> QED BY <1>1, <1>2, <1>3 DEF WritePlain, Write, WriteFile, WriteFails

LEMMA FilesKeyedNext ==
  ASSUME NoCustomNames, KeysMatchNames, Keyed, [Next]_vars
  PROVE  FilesKeyed'
<1>1. CASE files' = files
  BY <1>1 DEF Keyed, FilesKeyed
<1>2. ASSUME NEW p \in Procs, WritePlain(p) \/ Write(p), files' # files
      PROVE  FilesKeyed'
  <2>1. PICK D \in {PlainStack(cmd[p], secret[p]), FullStack(cmd[p], secret[p])} :
          files' = [files EXCEPT ![ComposeFile(p)] = D]
    BY <1>2, StartWrites DEF Keyed
  <2>2. cmd[p] \in Commands /\ cmd[p].op = "start"
        /\ ComposeFile(p) = <<cmd[p].base, StartNode(cmd[p])>>
    BY <1>2, StartWrites DEF Keyed
  <2>3. (\A d \in D : d.name = d.svc) /\ \E d \in D : d.svc = ComposeFile(p)[2]
    BY <2>2, RequestedIsKeyed
  <2> QED BY <2>1, <2>3 DEF Keyed, FilesKeyed, TypeInv, TypeOK
<1>3. ASSUME NEW p \in Procs, Remove(p)
      PROVE  FilesKeyed'
  <2>1. \A f \in Bases \X Names : files'[f] = {} \/ files'[f] = files[f]
    BY <1>3 DEF Remove
  <2> QED BY <2>1 DEF Keyed, FilesKeyed
<1> QED BY <1>1, <1>2, <1>3, FilesKeep

LEMMA DefsKeyedNext ==
  ASSUME Keyed, [Next]_vars
  PROVE  DefsKeyed'
<1>1. CASE def' = def /\ \A s \in Services : status'[s] # "absent" => Exists(s)
  BY <1>1 DEF Keyed, DefsKeyed, Exists
<1>2. ASSUME NEW p \in Procs, UpCreate(p)
      PROVE  DefsKeyed'
  <2>1. PICK T \in SUBSET files[ComposeFile(p)] :
          /\ \A d \in T : \E e \in T : e.svc = d.svc /\ def'[d.svc] = e
          /\ \A s \in Services : \/ \E d \in T : d.svc = s
                                 \/ def'[s] = def[s] /\ status'[s] = status[s]
    BY <1>2, UpEffect DEF Keyed
  <2>2. \A d \in T : d.name = d.svc
    BY <1>2, ComposeFileIsKnown DEF UpCreate, At, Keyed, FilesKeyed
  <2> QED BY <2>1, <2>2 DEF Keyed, DefsKeyed, Exists
<1> QED BY <1>1, <1>2, ContainersKeep DEF Keyed

LEMMA KeyedInvariant ==
  ASSUME NoCustomNames, KeysMatchNames
  PROVE  Spec => []Keyed
<1>1. Init => Keyed
  BY TypeInit DEF Init, Keyed, FilesKeyed, DefsKeyed, Exists
<1>2. Keyed /\ [Next]_vars => Keyed'
  BY TypeNext, FilesKeyedNext, DefsKeyedNext DEF Keyed
<1> QED BY <1>1, <1>2, PTL DEF Spec

(* With names and services the same, compose up never takes a container    *)
(* name from another node: whatever other starts run, on whichever data    *)
(* directory, what `start` replaces comes back under the same name         *)
(* (ethereum.go:62).                                                       *)
THEOREM NoNodeIsReplaced ==
  ASSUME NoCustomNames, KeysMatchNames
  PROVE  Spec => StartReplacesNoNode
<1>1. ASSUME Keyed, Keyed', [Next]_vars, NEW p \in Procs, At(p, "up"), pc'[p] = "starting",
             NEW s \in Running \ Running'
      PROVE  def'[s].name = def[s].name
  <2>1. s \in Services /\ Exists(s)
    BY DEF Running, Exists
  <2>2. status'[s] # "absent"
    <3>1. ASSUME NEW q \in Procs, UpCreate(q) PROVE status'[s] # "absent"
      <4>1. PICK T \in SUBSET files[ComposeFile(q)] :
              /\ \A d \in T : status'[d.svc] # "absent"
              /\ \A t \in Services : \/ \E d \in T : d.svc = t
                                     \/ def'[t] = def[t] /\ status'[t] = status[t]
        BY <1>1, <3>1, UpEffect DEF Keyed
      <4> QED BY <2>1, <4>1 DEF Exists
    <3>2. ASSUME NEW q \in Procs, StopDown(q) \/ StopAllRemove(q) PROVE FALSE
      <4>1. pc[q] \in {"down", "dockerRm"} /\ q # p
        BY <1>1, <3>2 DEF StopDown, StopAllRemove, At
      <4>2. pc'[p] = pc[p]
        <5>1. Step(q)
          BY <3>2 DEF Step
        <5> QED BY <1>1, <3>2, <4>1, <5>1, OthersKeep DEF Keyed
      <4> QED BY <1>1, <4>2 DEF At
    <3> QED BY <1>1, <2>1, <3>1, <3>2, ContainersKeep DEF Keyed, Exists
  <2> QED BY <1>1, <2>1, <2>2 DEF Keyed, DefsKeyed, Exists
<1>2. ASSUME Keyed, Keyed', [Next]_vars
      PROVE  \A p \in Procs : (At(p, "up") /\ pc'[p] = "starting") =>
                \A s \in (Running \ Running') \ {Watchtower} : def'[s].name = def[s].name
  BY <1>1, <1>2
<1> QED BY <1>2, KeyedInvariant, PTL DEF Spec, StartReplacesNoNode

-----------------------------------------------------------------------------
(* What stop says                                                          *)

(* Only the second half of compose up starts a container; what runs is left*)
(* as it is or stopped.                                                    *)
LEMMA RunningKeeps ==
  ASSUME TypeInv, [Next]_vars, NEW s \in Running'
  PROVE  \/ s \in Running /\ def'[s] = def[s]
         \/ \E p \in Procs : /\ UpStart(p) /\ Starts(p, s) /\ def' = def
                             /\ s \in ids[p] \ stale[p] /\ PortsFree(s)
<1> USE Types DEF Running
<1>1. ASSUME NEW p \in Procs, UpCreate(p)
      PROVE  s \in Running /\ def'[s] = def[s]
  <2>1. PICK T \in SUBSET files[ComposeFile(p)] :
          \A t \in Services :
             status'[t] = "running" => status[t] = "running" /\ def'[t] = def[t]
    BY <1>1, UpEffect
  <2> QED BY <2>1
<1>2. ASSUME NEW p \in Procs, UpStart(p)
      PROVE  /\ def' = def
             /\ \/ s \in Running
                \/ Starts(p, s) /\ s \in ids[p] \ stale[p] /\ PortsFree(s)
  BY <1>2 DEF UpStart
<1>3. ASSUME NEW p \in Procs, StopDown(p) \/ StopAllStop(p) \/ StopAllRemove(p)
      PROVE  s \in Running /\ def' = def
  BY <1>3 DEF StopDown, StopAllStop, StopAllRemove, AfterStop
<1>4. ASSUME NEW p \in Procs, Begin(p) \/ Kill(p) \/ Pull(p) \/ Create(p) \/ Mint(p)
                \/ WritePlain(p) \/ PullExtra(p) \/ Write(p) \/ UpReturns(p) \/ Cleanup(p)
                \/ StopResolve(p) \/ StopPs(p) \/ StopAllList(p)
                \/ DeleteTarget(p) \/ Guard(p) \/ Remove(p)
                \/ UpdateList(p) \/ UpdateNext(p) \/ UpdatePull(p)
      PROVE  UNCHANGED <<def, status>>
  BY <1>4 DEF Begin, Kill, Pull, Create, Mint, WritePlain, PullExtra, Write, WriteFile,
              WriteFails, UpReturns, Cleanup, StopResolve, StopPs, StopAllList, DeleteTarget,
              Guard, Remove, UpdateList, UpdateNext, UpdatePull, host
<1>5. ContainerExits \/ Publish \/ UNCHANGED vars => s \in Running /\ def' = def
  BY DEF ContainerExits, Publish, vars
<1> QED BY <1>1, <1>2, <1>3, <1>4, <1>5 DEF Next, Step

(* A stop that has resolved nothing yet has no container on record, and    *)
(* `stop all` has on its list whatever runs but what others started since. *)
Unresolved == \A p \in Procs : pc[p] \in {"target", "resolve"} => node[p] = None

Listed ==
    \A p \in Procs : pc[p] \in {"dockerStop", "dockerRm"} =>
        \A s \in Running : def[s].name \in AllContainerNames => s \in ids[p] \cup upSince[p]

LEMMA UnresolvedNext ==
  ASSUME TypeInv, Unresolved, [Next]_vars
  PROVE  Unresolved'
<1>1. ASSUME NEW p \in Procs, Begin(p) \/ Kill(p) \/ Step(p), pc'[p] \in {"target", "resolve"}
      PROVE  node'[p] = None
  <2>1. Begin(p) \/ DeleteTarget(p)
    BY <1>1, Leads DEF Step
  <2> QED
    BY <2>1, Types DEF Unresolved, Begin, DeleteTarget, At, local
<1>2. ASSUME NEW p \in Procs, Begin(p) \/ Kill(p) \/ Step(p)
      PROVE  Unresolved'
  BY <1>1, <1>2, OthersKeep DEF Unresolved
<1>3. CASE ContainerExits \/ Publish \/ UNCHANGED vars
  BY <1>3 DEF ContainerExits, Publish, vars, local, Unresolved
<1> QED BY <1>2, <1>3 DEF Next

LEMMA ListedNext ==
  ASSUME TypeInv, Listed, [Next]_vars
  PROVE  Listed'
<1> SUFFICES ASSUME NEW q \in Procs, pc'[q] \in {"dockerStop", "dockerRm"},
                    NEW s \in Running', def'[s].name \in AllContainerNames
             PROVE  s \in ids'[q] \cup upSince'[q]
  BY DEF Listed
<1>1. CASE ~(Begin(q) \/ Kill(q) \/ Step(q))
  <2>1. pc'[q] = pc[q] /\ ids'[q] = ids[q] /\ upSince[q] \subseteq upSince'[q]
    <3>1. CASE ContainerExits \/ Publish \/ UNCHANGED vars
      BY <3>1 DEF ContainerExits, Publish, vars, local
    <3>2. ASSUME NEW p \in Procs, Begin(p) \/ Kill(p) \/ Step(p)
          PROVE  pc'[q] = pc[q] /\ ids'[q] = ids[q] /\ upSince[q] \subseteq upSince'[q]
      BY <1>1, <3>2, OthersKeep
    <3> QED BY <3>1, <3>2 DEF Next
  <2>2. CASE s \in Running /\ def'[s] = def[s]
    BY <2>1, <2>2 DEF Listed
  <2>3. ASSUME NEW p \in Procs, UpStart(p), Starts(p, s)
        PROVE  s \in upSince'[q]
    <3>1. p # q
      BY <1>1, <2>3 DEF Step
    <3> QED BY <2>3, <3>1 DEF Starts
  <2> QED BY <2>2, <2>3, RunningKeeps
<1>2. CASE Begin(q) \/ Kill(q) \/ Step(q)
  <2>1. StopAllList(q) \/ StopAllStop(q)
    BY <1>2, Leads DEF Step
  <2>2. CASE StopAllList(q)
    <3>1. PICK ps \in PsAnswers :
            LET listed == {t \in Running : ps.ok /\ def[t].name \in StopAllNames}
            IN /\ ids' = [ids EXCEPT ![q] = listed]
               /\ IF ~ps.ok THEN AllReturns(q, "failed")
                  ELSE IF listed = {} THEN AllReturns(q, "done")
                  ELSE Goto(q, "dockerStop")
      BY <2>2 DEF StopAllList
    <3>2. ps.ok
      BY <3>1, Types DEF AllReturns, Goto
    <3>3. s \in Running /\ def' = def
      BY <2>2 DEF StopAllList, host, Running
    <3> QED BY <3>1, <3>2, <3>3, Types DEF StopAllNames
  <2>3. CASE StopAllStop(q)
    <3>1. pc[q] = "dockerStop" /\ UNCHANGED <<def, ids, upSince>> /\ s \in Running
      BY <2>3 DEF StopAllStop, At, local, AfterStop, Running
    <3> QED BY <3>1 DEF Listed
  <2> QED BY <2>1, <2>2, <2>3
<1> QED BY <1>1, <1>2

(* Each step is one of the commands that have it.                          *)
CourseOf(label, op) ==
    /\ label = "target" => op = "delete"
    /\ label \in {"resolve", "ps"} => op \in {"stop", "delete"}
    /\ label = "down" => op \in {"stop", "delete", "update"}
    /\ label \in {"list", "dockerStop", "dockerRm"} => op \in {"stopAll", "deleteAll"}
    /\ label \in {"guard", "remove"} => op \in {"delete", "deleteAll"}
    /\ label \in {"images", "next", "refresh"} => op = "update"

Course == \A p \in Procs : CourseOf(pc[p], cmd[p].op)

LEMMA CommandKeeps ==
  ASSUME NEW p \in Procs, Kill(p) \/ Step(p)
  PROVE  cmd' = cmd
  BY DEF Step, Kill, Pull, Create, Mint, WritePlain, PullExtra, Write, WriteFile, WriteFails,
         UpCreate, UpStart, UpReturns, Cleanup, StopResolve, StopPs, StopDown, StopAllList,
         StopAllStop, StopAllRemove, DeleteTarget, Guard, Remove, UpdateList, UpdateNext,
         UpdatePull

LEMMA CourseNext ==
  ASSUME TypeInv, Course, [Next]_vars
  PROVE  Course'
<1> USE Types DEF At, Goto, CallFails
<1>1. ASSUME NEW p \in Procs, Begin(p)
      PROVE  CourseOf(pc'[p], cmd'[p].op)
  <2>1. PICK c \in Commands :
          /\ cmd' = [cmd EXCEPT ![p] = c]
          /\ pc' = [pc EXCEPT ![p] = CASE c.op = "start" -> "pull"
                                       [] c.op = "stop" -> "resolve"
                                       [] c.op = "delete" -> "target"
                                       [] c.op \in {"stopAll", "deleteAll"} -> "list"
                                       [] c.op = "update" -> "images"]
    BY <1>1 DEF Begin
  <2>2. c.op \in Ops
    BY LifecycleAssumption
  <2> QED BY <2>1, <2>2 DEF Ops, CourseOf
<1>2. ASSUME NEW p \in Procs, Kill(p) \/ Step(p)
      PROVE  CourseOf(pc'[p], cmd[p].op)
  <2>1. CourseOf(pc[p], cmd[p].op)
    BY DEF Course
  <2>2. CASE Kill(p) \/ Pull(p) \/ Create(p) \/ Mint(p) \/ WritePlain(p) \/ PullExtra(p)
             \/ Write(p) \/ UpStart(p) \/ Cleanup(p)
    BY <2>1, <2>2, Leads DEF CourseOf
  <2>3. CASE UpCreate(p) \/ UpReturns(p)
    BY <2>3 DEF UpCreate, UpReturns, UpEnds, UpFails, CourseOf
  <2>4. CASE StopResolve(p) \/ StopPs(p)
    BY <2>1, <2>4 DEF StopResolve, StopPs, StopReturns, StopFails, CourseOf
  <2>5. CASE StopDown(p)
    BY <2>1, <2>5 DEF StopDown, StopReturns, StopFails, CourseOf
  <2>6. CASE StopAllList(p) \/ StopAllStop(p) \/ StopAllRemove(p)
    BY <2>1, <2>6 DEF StopAllList, StopAllStop, StopAllRemove, AllReturns, AllFails, CourseOf
  <2>7. CASE DeleteTarget(p) \/ Guard(p) \/ Remove(p)
    BY <2>1, <2>7 DEF DeleteTarget, Guard, Remove, CourseOf
  <2>8. CASE UpdateList(p) \/ UpdateNext(p) \/ UpdatePull(p)
    BY <2>1, <2>8 DEF UpdateList, UpdateNext, UpdatePull, CourseOf
  <2> QED BY <1>2, <2>2, <2>3, <2>4, <2>5, <2>6, <2>7, <2>8 DEF Step
<1>3. ASSUME NEW p \in Procs, Begin(p) \/ Kill(p) \/ Step(p)
      PROVE  Course'
  <2>1. CourseOf(pc'[p], cmd'[p].op)
    BY <1>1, <1>2, <1>3, CommandKeeps
  <2>2. \A q \in Procs \ {p} : pc'[q] = pc[q] /\ cmd'[q] = cmd[q]
    BY <1>3, OthersKeep
  <2> QED BY <2>1, <2>2 DEF Course
<1>4. CASE ContainerExits \/ Publish \/ UNCHANGED vars
  BY <1>4 DEF ContainerExits, Publish, vars, Course
<1> QED BY <1>3, <1>4 DEF Next

StopInv == Keyed /\ Unresolved /\ Listed /\ Course

LEMMA StopInvariant ==
  ASSUME NoCustomNames, KeysMatchNames
  PROVE  Spec => []StopInv
<1>1. Init => Unresolved /\ Listed /\ Course
  BY DEF Init, Unresolved, Listed, Course, CourseOf
<1>2. Keyed /\ Unresolved /\ Listed /\ Course /\ [Next]_vars
      => Unresolved' /\ Listed' /\ Course'
  BY UnresolvedNext, ListedNext, CourseNext DEF Keyed
<1> QED BY <1>1, <1>2, KeyedInvariant, PTL DEF Spec, StopInv

(* Ambiguous remains on disk mean that no client of the network runs.      *)
LEMMA OnDiskNoneRuns ==
  ASSUME NEW net, NEW flags, NEW ps, NEW disk, ps.ok,
         ResolveContainerName(net, flags, ps, disk).kind = "ambiguousOnDisk"
  PROVE  CandidateContainerNames(EffectiveNetwork(net, flags.testnet)) \cap ps.names = {}
<1> DEFINE n == EffectiveNetwork(net, flags.testnet)
<1>1. CASE ~Selectable(n)
  BY <1>1 DEF ResolveContainerName, Found
<1>2. CASE Selectable(n) /\ flags.client # None
  BY <1>2 DEF ResolveContainerName, Found, Refused
<1>3. CASE Selectable(n) /\ flags.client = None
  <2>1. CASE RunningCandidates(n, ps) = {}
    BY <2>1 DEF RunningCandidates
  <2>2. CASE RunningCandidates(n, ps) # {}
    BY <1>3, <2>2 DEF ResolveContainerName, Found, AmbiguousRunning
  <2> QED BY <2>1, <2>2
<1> QED BY <1>1, <1>2, <1>3

(* `stop` of one network that ends in success: its one container, or all   *)
(* its clients, do not run.                                                *)
LEMMA StopOneEnds ==
  ASSUME PsAnswersAlways, StopInv, NEW p \in Procs, cmd[p].op = "stop", pc'[p] = "done",
         StopResolve(p) \/ StopPs(p) \/ StopDown(p), NEW s \in Running'
  PROVE  def'[s].name \notin StoppedNames(p)'
<1> USE Types DEF At, Goto, StopInv, Keyed
<1>0. s \in Services /\ def' = def /\ cmd' = cmd /\ s \in Running
  BY DEF StopResolve, StopPs, StopDown, host, Running, AfterStop
<1>1. CASE StopResolve(p)
  <2> DEFINE c == cmd[p]
  <2>1. PICK ps \in PsAnswers :
          LET r == ResolveContainerName(c.net, Flags(c), ps, Footprint(c.base))
          IN \/ pc'[p] = "failed"
             \/ r.kind = "ambiguousOnDisk" /\ UNCHANGED node
             \/ pc'[p] = "ps"
    BY <1>1 DEF StopResolve, StopReturns
  <2>2. ps = [ok |-> TRUE, names |-> RunningNames]
    BY <2>1 DEF PsAnswers, PsAnswersAlways
  <2>3. ResolveContainerName(c.net, Flags(c), ps, Footprint(c.base)).kind = "ambiguousOnDisk"
        /\ node' = node
    BY <2>1
  <2>4. CandidateContainerNames(EffectiveNetwork(c.net, c.testnet)) \cap RunningNames = {}
    BY <2>2, <2>3, OnDiskNoneRuns DEF Flags
  <2>5. node'[p] = None
    BY <1>1, <2>3 DEF StopResolve, Unresolved
  <2> QED BY <1>0, <2>4, <2>5 DEF StoppedNames, RunningNames
<1>2. CASE StopPs(p) \/ StopDown(p)
  <2>1. ComposeFile(p) = <<cmd[p].base, node[p]>> /\ ComposeFile(p) \in Bases \X Names
        /\ node[p] # None /\ node' = node
    <3>1. node[p] \in Names /\ node' = node
      BY <1>2 DEF StopPs, StopDown, local, TypeInv, Control, ControlOf
    <3> QED BY <3>1, LifecycleAssumption, RegistryAssumption DEF ComposeFile
  <2>2. files[ComposeFile(p)] # {}
    BY <1>2 DEF StopPs, StopDown, StopReturns, StopFails
  <2>3. PICK d \in files[ComposeFile(p)] : d.svc = node[p]
    BY <2>1, <2>2 DEF FilesKeyed
  <2>4. node[p] \in Services /\ node[p] \notin Running'
    <3>1. node[p] \in Services
      BY <2>1, <2>3, DefinitionFields
    <3>2. CASE StopPs(p)
      <4>1. FALSE \in PsQuietAnswers(files[ComposeFile(p)]) /\ status' = status
        BY <2>2, <3>2 DEF StopPs, StopReturns, StopFails, PsQuietAnswers, host
      <4>2. CASE ComposeV2
        BY <3>1, <4>1, <4>2 DEF PsQuietAnswers, Running
      <4>3. CASE ~ComposeV2
        BY <2>3, <3>1, <4>1, <4>3 DEF PsQuietAnswers, Running, Exists
      <4> QED BY <4>2, <4>3
    <3>3. CASE StopDown(p)
      <4> DEFINE S == {t \in {e.svc : e \in files[ComposeFile(p)]} : Exists(t)}
      <4>1. status' = [t \in Services |-> IF t \in S THEN "absent" ELSE AfterStop(S)[t]]
        BY <2>2, <3>3 DEF StopDown, StopReturns, StopFails
      <4> QED BY <2>3, <3>1, <4>1 DEF Running, AfterStop, Exists
    <3> QED BY <1>2, <3>1, <3>2, <3>3
  <2>5. StoppedNames(p)' = {node[p]}
    BY <1>0, <2>1 DEF StoppedNames
  <2>6. def[s].name = s
    BY <1>0 DEF DefsKeyed, Running, Exists
  <2> QED BY <1>0, <2>4, <2>5, <2>6
<1> QED BY <1>1, <1>2

(* `stop all` that ends in success.                                        *)
LEMMA StopAllEnds ==
  ASSUME PsAnswersAlways, StopInv, NEW p \in Procs, cmd[p].op = "stopAll", pc'[p] = "done",
         StopAllList(p) \/ StopAllStop(p) \/ StopAllRemove(p),
         NEW s \in Running', def'[s].name \in AllContainerNames
  PROVE  s \in upSince'[p]
<1> USE Types DEF At, Goto, StopInv, Keyed
<1>1. CASE StopAllList(p)
  <2>1. {t \in Running : def[t].name \in StopAllNames} = {}
    BY <1>1 DEF StopAllList, AllReturns
  <2> QED BY <1>1, <2>1 DEF StopAllList, StopAllNames, host, Running
<1>2. CASE StopAllStop(p)
  BY <1>2 DEF StopAllStop, AllReturns, AllFails
<1>3. CASE StopAllRemove(p)
  <2>1. /\ status' = [t \in Services |-> IF t \in ids[p] THEN "absent" ELSE status[t]]
        /\ def' = def /\ upSince' = upSince /\ pc[p] = "dockerRm"
    BY <1>3 DEF StopAllRemove, AllReturns, AllFails
  <2>2. s \in Running /\ s \notin ids[p]
    BY <2>1 DEF Running
  <2> QED BY <2>1, <2>2 DEF Listed
<1> QED BY <1>1, <1>2, <1>3

(* For any number of processes, both Compose versions and whatever fails or*)
(* exits: a stop that reports success leaves nothing it names running but  *)
(* what others started since it looked (stop_node.go:39-41, :83-86).       *)
THEOREM StopsTellTheTruth ==
  ASSUME PsAnswersAlways, NoCustomNames, KeysMatchNames
  PROVE  Spec => StopTruth
<1>1. ASSUME StopInv, [Next]_vars, NEW p \in Procs, pc[p] \notin Resting, pc'[p] = "done",
             cmd[p].op \in {"stop", "stopAll"}, NEW s \in Running',
             def'[s].name \in StoppedNames(p)'
      PROVE  s \in upSince'[p]
  <2>1. Kill(p) \/ Step(p)
    <3>1. ~(ContainerExits \/ Publish \/ UNCHANGED vars)
      BY <1>1 DEF ContainerExits, Publish, vars, local, Resting
    <3>2. ASSUME NEW q \in Procs \ {p}, Begin(q) \/ Kill(q) \/ Step(q) PROVE FALSE
      BY <1>1, <3>2, OthersKeep DEF StopInv, Keyed, Resting
    <3>3. ~Begin(p)
      BY <1>1 DEF Begin
    <3> QED BY <1>1, <3>1, <3>2, <3>3 DEF Next
  <2>2. CourseOf(pc[p], cmd[p].op) /\ ControlOf(pc[p], cmd[p], node[p])
    BY <1>1 DEF StopInv, Course, Keyed, TypeInv, Control
  <2>3. \/ StopResolve(p) \/ StopPs(p) \/ StopDown(p)
        \/ StopAllList(p) \/ StopAllStop(p) \/ StopAllRemove(p)
    <3>1. Cleanup(p) \/ StopResolve(p) \/ StopPs(p) \/ StopDown(p) \/ StopAllList(p)
          \/ StopAllStop(p) \/ StopAllRemove(p) \/ Remove(p) \/ UpdateNext(p)
      BY <1>1, <2>1, Leads DEF StopInv, Keyed, Step, Resting
    <3>2. ~Cleanup(p) /\ ~Remove(p) /\ ~UpdateNext(p)
      BY <1>1, <2>2 DEF Cleanup, Remove, UpdateNext, At, CourseOf, ControlOf, StartLabels
    <3> QED BY <3>1, <3>2
  <2>4. CASE cmd[p].op = "stop"
    <3>1. StopResolve(p) \/ StopPs(p) \/ StopDown(p)
      BY <2>2, <2>3, <2>4 DEF StopAllList, StopAllStop, StopAllRemove, At, CourseOf
    <3> QED BY <1>1, <2>4, <3>1, StopOneEnds
  <2>5. CASE cmd[p].op = "stopAll"
    <3>1. StopAllList(p) \/ StopAllStop(p) \/ StopAllRemove(p)
      BY <2>2, <2>3, <2>5 DEF StopResolve, StopPs, StopDown, At, CourseOf
    <3>2. StoppedNames(p)' = AllContainerNames
      BY <2>1, <2>5, CommandKeeps DEF StoppedNames
    <3> QED BY <1>1, <2>5, <3>1, <3>2, StopAllEnds
  <2> QED BY <1>1, <2>4, <2>5
<1>2. ASSUME StopInv, [Next]_vars
      PROVE  \A p \in Procs :
                (pc[p] \notin Resting /\ pc'[p] = "done" /\ cmd[p].op \in {"stop", "stopAll"})
                => \A s \in Running' : def'[s].name \in StoppedNames(p)' => s \in upSince'[p]
  BY <1>1, <1>2
<1> QED BY <1>2, StopInvariant, PTL DEF Spec, StopTruth
=============================================================================
