----------------------------- MODULE Fleet_proofs -----------------------------
(***************************************************************************)
(* Networks run beside each other: a start that passed its checks comes up,*)
(* and an update brings back what it took down, for commands given one     *)
(* after the other and Docker calls that succeed.                          *)
(***************************************************************************)
EXTENDS EthereumStack_proofs

-----------------------------------------------------------------------------
(* Starts                                                                  *)

(* The name of a container is only taken by the container of its service.  *)
LEMMA NamesAreFree ==
  ASSUME Keyed, NEW p \in Procs, pc[p] = "up", NEW d \in files[ComposeFile(p)]
  PROVE  Creatable(d)
<1>1. ComposeFile(p) \in Bases \X Names
  BY ComposeFileIsKnown DEF Keyed
<1>2. d.name = d.svc
  BY <1>1 DEF Keyed, FilesKeyed
<1> QED BY <1>2 DEF Keyed, DefsKeyed, Creatable

(* The ports of a service that a start brings up are only taken by others  *)
(* of the same kind, and those the check for conflicts has found.          *)
LEMMA PortsAreFree ==
  ASSUME CheckInv, NEW p \in Procs, Starting(p), pc[p] = "starting", NEW s \in ids[p]
  PROVE  PortsFree(s)
<1> SUFFICES ASSUME NEW t \in Running \ {s}, Ports[s] \cap Ports[t] # {}
             PROVE  FALSE
  BY DEF PortsFree
<1> DEFINE c == cmd[p]
<1>1. c \in Commands /\ c.op = "start" /\ c.net \in Startable
  BY DEF Starting, CheckInv, Accepted, Keyed, TypeInv, TypeOK
<1>2. s \in Services /\ t \in Services
  BY Types DEF CheckInv, Keyed, Running
<1>3. \/ s \in ExecutionClients /\ t \in ExecutionClients
      \/ s \in ConsensusClients /\ t \in ConsensusClients
  BY <1>2, PortsAssumption
<1>4. s \in Members(c)
  BY <1>3, ClientsAreNames DEF CheckInv, Checked, CheckedAt, Clients
<1>5. Selectable(c.net)
  BY <1>1, <1>3, <1>4, OtherStart DEF Clients
<1>6. t \in Members(c)
  <2>1. def[t].name = t
    BY DEF CheckInv, Keyed, DefsKeyed, Running, Exists
  <2> QED BY <1>3, <1>5, <2>1 DEF CheckInv, Checked, CheckedAt, RunningNames, Clients
<1>7. s = t
  BY <1>1, <1>3, <1>4, <1>5, <1>6, EthereumStart DEF Members
<1> QED BY <1>7

(* Whatever the starts and stops before left running on either chain, and  *)
(* whatever exits: a start that passed its checks finds its container names*)
(* and ports free (registry_test.go:205).                                  *)
THEOREM EveryStartComesUp ==
  ASSUME OneProcess, Faults \subseteq {"mkdir", "read"}, NoCustomNames, KeysMatchNames
  PROVE  Spec => StartsComeUp
<1>0. PsAnswersAlways /\ "kill" \notin Faults /\ "call" \notin Faults
  BY DEF PsAnswersAlways
<1>1. ASSUME CheckInv, [Next]_vars, NEW p \in Procs, pc[p] \in {"up", "starting"}
      PROVE  pc'[p] # "failed"
  <2> SUFFICES ASSUME pc'[p] = "failed" PROVE FALSE
    OBVIOUS
  <2> USE <1>1, Types DEF CheckInv, Keyed
  <2>1. UpCreate(p) \/ UpReturns(p)
    <3>1. ~(ContainerExits \/ Publish \/ UNCHANGED vars)
      BY DEF ContainerExits, Publish, vars
    <3>2. Step(p)
      BY <1>0, <3>1 DEF OneProcess, Next, Kill, Begin, Resting
    <3>3. ~UpStart(p)
      BY DEF UpStart
    <3> QED
      BY <3>2, <3>3
         DEF Step, At, Pull, Create, Mint, WritePlain, PullExtra, Write, Cleanup, StopResolve,
             StopPs, StopDown, StopAllList, StopAllStop, StopAllRemove, DeleteTarget, Guard,
             Remove, UpdateList, UpdateNext, UpdatePull
  <2>2. cmd[p].op = "start"
    <3>1. cmd[p].op # "update"
      BY <1>0, <2>1 DEF UpCreate, UpReturns, UpEnds, UpFails, Goto
    <3> QED BY <3>1 DEF TypeInv, Control, ControlOf
  <2>3. Starting(p)
    BY <2>2 DEF Starting, AtStart
  <2>4. CASE UpCreate(p)
    <3>1. pc[p] = "up"
      BY <2>4 DEF UpCreate, At
    <3>2. files[ComposeFile(p)] # {}
      BY <2>3, <3>1 DEF Checked, CheckedAt
    <3>3. \E d \in files[ComposeFile(p)] : ~Creatable(d)
      BY <1>0, <2>4, <3>2, UpEffect DEF UpFails, Goto
    <3> QED BY <3>1, <3>3, NamesAreFree
  <2>5. CASE UpReturns(p)
    <3>1. pc[p] = "starting"
      BY <2>5 DEF UpReturns, At
    <3>2. stale[p] = {} /\ \A s \in ids[p] : PortsFree(s)
      BY <2>3, <3>1, PortsAreFree DEF Checked, CheckedAt
    <3>3. UpEnds(p, "cleanup")
      BY <1>0, <2>5, <3>2 DEF UpReturns, UpFails
    <3> QED BY <2>2, <3>3 DEF UpEnds, Goto
  <2> QED BY <2>1, <2>4, <2>5
<1>2. ASSUME CheckInv, [Next]_vars
      PROVE  \A p \in Procs : pc[p] \in {"up", "starting"} => pc'[p] # "failed"
  BY <1>1, <1>2
<1>3. Spec => []CheckInv
  BY <1>0, CheckInvariant
<1> QED BY <1>2, <1>3, PTL DEF Spec, StartsComeUp

-----------------------------------------------------------------------------
(* Updates                                                                 *)

OnlyStartsAndUpdates == \A c \in Commands : c.op \in {"start", "update"}

(* The services a command is about to make containers of: those a start    *)
(* has in hand, and those an update has taken down.                        *)
Wanted(p) ==
    IF pc[p] \in {"pullExtra", "write"} THEN {d.svc : d \in FullStack(cmd[p], secret[p])}
    ELSE IF pc[p] \in {"up", "refresh"} THEN {d.svc : d \in files[ComposeFile(p)]}
    ELSE {}

(* No service of any compose file is without its container but those.      *)
NoneLost ==
    \A f \in Bases \X Names : \A d \in files[f] :
        Exists(d.svc) \/ \E p \in Procs : d.svc \in Wanted(p)

(* With no call failing, compose up makes the container of every service.  *)
LEMMA UpMakesAll ==
  ASSUME Keyed, Faults \subseteq {"read"}, NEW p \in Procs, UpCreate(p)
  PROVE  /\ \A d \in files[ComposeFile(p)] : status'[d.svc] # "absent"
         /\ \A s \in Services : Exists(s) => status'[s] # "absent"
<1>1. pc[p] = "up"
  BY DEF UpCreate, At
<1>2. PICK T \in SUBSET files[ComposeFile(p)] :
        /\ \A d \in T : status'[d.svc] # "absent"
        /\ \A s \in Services : \/ \E d \in T : d.svc = s
                               \/ def'[s] = def[s] /\ status'[s] = status[s]
        /\ T = files[ComposeFile(p)]
  <2>1. ~UpFails(p) /\ \A d \in files[ComposeFile(p)] : Creatable(d)
    BY <1>1, NamesAreFree DEF UpFails
  <2> QED BY <2>1, UpEffect DEF Keyed
<1> QED BY <1>2 DEF Exists

LEMMA NoneLostNext ==
  ASSUME OneProcess, OnlyStartsAndUpdates, Faults \subseteq {"read"}, Keyed, Course, NoneLost,
         [Next]_vars
  PROVE  NoneLost'
<1> USE Types DEF Keyed
<1> SUFFICES ASSUME NEW f \in Bases \X Names, NEW d \in files'[f]
             PROVE  status'[d.svc] # "absent" \/ \E p \in Procs : d.svc \in Wanted(p)'
  BY DEF NoneLost, Exists
<1>1. d \in files[f] => d.svc \in Services
  BY DefinitionFields
<1>2. ASSUME UNCHANGED files,
             \A s \in Services : Exists(s) => status'[s] # "absent",
             \A p \in Procs : Wanted(p) \subseteq Wanted(p)'
      PROVE  status'[d.svc] # "absent" \/ \E p \in Procs : d.svc \in Wanted(p)'
  BY <1>1, <1>2 DEF NoneLost
<1>3. ASSUME NEW p \in Procs, Kill(p) \/ StopResolve(p) \/ StopPs(p) \/ StopAllList(p)
                \/ StopAllStop(p) \/ StopAllRemove(p) \/ DeleteTarget(p) \/ Guard(p) \/ Remove(p)
      PROVE  FALSE
  <2>1. cmd[p].op \in {"start", "update"} /\ CourseOf(pc[p], cmd[p].op)
    BY DEF OnlyStartsAndUpdates, Course
  <2> QED
    BY <1>3, <2>1
       DEF CourseOf, At, Kill, StopResolve, StopPs, StopAllList, StopAllStop, StopAllRemove,
           DeleteTarget, Guard, Remove
<1>4. ASSUME NEW p \in Procs, WritePlain(p) \/ Write(p)
      PROVE  status'[d.svc] # "absent" \/ \E q \in Procs : d.svc \in Wanted(q)'
  <2> DEFINE c == cmd[p]
             D == FullStack(c, secret[p])
             F == ComposeFile(p)
  <2>1. UNCHANGED <<cmd, node, secret, status>>
    BY <1>4 DEF WritePlain, Write, WriteFile, WriteFails, local, held
  <2>2. F \in Bases \X Names /\ F' = F
    BY <1>4, <2>1, StartWrites DEF ComposeFile
  <2>3. {e.svc : e \in PlainStack(c, secret[p])} \subseteq {e.svc : e \in D}
    <3>1. ASSUME NEW S, NEW e \in WithWatchtower(S), e \notin S PROVE e.svc = Watchtower
      BY <3>1 DEF WithWatchtower, NoDef
    <3>2. MainDef(c, secret[p]) \in D
      BY DEF FullStack, WithWatchtower, Requested
    <3>3. \E w \in D : w.svc = Watchtower
      <4> DEFINE w == [NoDef EXCEPT !.watch = {r.svc : r \in Requested(c, secret[p])}]
      <4>1. w \in D
        BY DEF FullStack, WithWatchtower
      <4>2. w.svc = Watchtower
        BY DEF NoDef
      <4> QED BY <4>1, <4>2
    <3> SUFFICES ASSUME NEW e \in PlainStack(c, secret[p]) PROVE \E w \in D : w.svc = e.svc
      OBVIOUS
    <3>4. e = MainDef(c, secret[p]) \/ e.svc = Watchtower
      BY <3>1 DEF PlainStack
    <3> HIDE DEF D
    <3> QED BY <3>2, <3>3, <3>4
  <2>4. \/ pc'[p] = "pullExtra" /\ files' = [files EXCEPT ![F] = PlainStack(c, secret[p])]
        \/ pc'[p] = "up" /\ files' = [files EXCEPT ![F] = D]
    BY <1>4 DEF WritePlain, Write, WriteFile, WriteFails, CallFails, Goto
  <2>5. {e.svc : e \in files'[F]} \subseteq Wanted(p)' /\ Wanted(p)' = {e.svc : e \in D}
    <3> HIDE DEF F, D
    <3> QED BY <2>1, <2>2, <2>3, <2>4 DEF Wanted, F, D
  <2>6. CASE f = F
    BY <2>5, <2>6
  <2>7. CASE f # F
    <3>1. d \in files[f]
      BY <2>2, <2>4, <2>7
    <3>2. Wanted(p) \subseteq Wanted(p)'
      BY <1>4, <2>5 DEF Wanted, WritePlain, Write, At
    <3> QED BY <1>1, <2>1, <3>1, <3>2 DEF NoneLost, Exists, OneProcess
  <2> QED BY <2>6, <2>7
<1>5. ASSUME NEW p \in Procs, Begin(p) \/ Pull(p) \/ Create(p) \/ Mint(p) \/ PullExtra(p)
                \/ UpReturns(p) \/ Cleanup(p) \/ UpdateList(p) \/ UpdateNext(p) \/ UpdatePull(p)
      PROVE  status'[d.svc] # "absent" \/ \E q \in Procs : d.svc \in Wanted(q)'
  <2>1. UNCHANGED <<files, status>>
    BY <1>5 DEF Begin, Pull, Create, Mint, PullExtra, UpReturns, Cleanup, UpdateList,
                UpdateNext, UpdatePull, host
  <2>2. Wanted(p) \subseteq Wanted(p)'
    <3>1. CASE PullExtra(p)
      <4>1. pc[p] = "pullExtra" /\ pc'[p] = "write" /\ UNCHANGED <<cmd, secret>>
        BY <3>1 DEF PullExtra, At, Goto, CallFails, local, held
      <4> QED BY <4>1 DEF Wanted
    <3>2. CASE UpdatePull(p)
      <4>1. pc[p] = "refresh" /\ pc'[p] = "up" /\ UNCHANGED <<files, cmd, node>>
        BY <3>2 DEF UpdatePull, At, Goto, local
      <4>2. ComposeFile(p)' = ComposeFile(p)
        BY <4>1 DEF ComposeFile
      <4> QED BY <4>1, <4>2 DEF Wanted
    <3>3. CASE ~PullExtra(p) /\ ~UpdatePull(p)
      BY <1>5, <3>3 DEF Wanted, Begin, Pull, Create, Mint, UpReturns, Cleanup, UpdateList,
                        UpdateNext, At, Resting
    <3> QED BY <3>1, <3>2, <3>3
  <2>3. \A q \in Procs : q = p
    BY DEF OneProcess
  <2> QED BY <1>2, <2>1, <2>2, <2>3 DEF Exists
<1>6. ASSUME NEW p \in Procs, UpCreate(p)
      PROVE  status'[d.svc] # "absent" \/ \E q \in Procs : d.svc \in Wanted(q)'
  <2>1. UNCHANGED files /\ pc[p] = "up" /\ \A q \in Procs : q = p
    BY <1>6 DEF UpCreate, At, OneProcess
  <2>2. Exists(d.svc) \/ d.svc \in {e.svc : e \in files[ComposeFile(p)]}
    BY <2>1 DEF NoneLost, Wanted
  <2> QED BY <1>1, <1>6, <2>1, <2>2, UpMakesAll
<1>7. ASSUME NEW p \in Procs, UpStart(p)
      PROVE  status'[d.svc] # "absent" \/ \E q \in Procs : d.svc \in Wanted(q)'
  <2>1. PICK s : status' = [status EXCEPT ![s] = "running"]
    BY <1>7 DEF UpStart
  <2>2. UNCHANGED files /\ pc[p] = "starting" /\ \A q \in Procs : q = p
    BY <1>7 DEF UpStart, At, OneProcess
  <2> QED BY <1>2, <2>1, <2>2 DEF Wanted, Exists
<1>8. ASSUME NEW p \in Procs, StopDown(p)
      PROVE  status'[d.svc] # "absent" \/ \E q \in Procs : d.svc \in Wanted(q)'
  <2> DEFINE F == files[ComposeFile(p)]
             S == {s \in {e.svc : e \in F} : Exists(s)}
  <2>1. /\ pc[p] = "down" /\ cmd[p].op = "update" /\ UNCHANGED <<files, cmd, node>>
        /\ \A q \in Procs : q = p
    BY <1>8 DEF StopDown, At, OneProcess, Course, CourseOf, OnlyStartsAndUpdates
  <2>2. \/ /\ status' = [s \in Services |-> IF s \in S THEN "absent" ELSE AfterStop(S)[s]]
           /\ Goto(p, "refresh")
        \/ F = {} /\ \E T \in SUBSET S :
              status' = [s \in Services |-> IF s \in T THEN "absent" ELSE AfterStop(S)[s]]
    BY <1>8, <2>1 DEF StopDown, StopReturns, StopFails
  <2>3. d \in files[f] /\ d.svc \in Services /\ Exists(d.svc)
    <3>1. \A q \in Procs : Wanted(q) = {}
      BY <2>1 DEF Wanted
    <3> QED BY <1>1, <2>1, <3>1 DEF NoneLost
  <2>4. CASE d.svc \in {e.svc : e \in F}
    <3>1. pc'[p] = "refresh"
      BY <2>2, <2>4 DEF Goto
    <3>2. ComposeFile(p)' = ComposeFile(p)
      BY <2>1 DEF ComposeFile
    <3> QED BY <2>1, <2>4, <3>1, <3>2 DEF Wanted
  <2>5. CASE d.svc \notin {e.svc : e \in F}
    BY <2>2, <2>3, <2>5 DEF AfterStop, Exists
  <2> QED BY <2>4, <2>5
<1>9. CASE ContainerExits \/ Publish \/ UNCHANGED vars
  <2>1. UNCHANGED <<files, pc, cmd, node, secret>>
        /\ \A s \in Services : Exists(s) => status'[s] # "absent"
    BY <1>9 DEF ContainerExits, Publish, vars, local, held, Exists
  <2>2. \A p \in Procs : Wanted(p)' = Wanted(p)
    BY <2>1 DEF Wanted, ComposeFile
  <2> QED BY <1>2, <2>1, <2>2
<1> QED BY <1>3, <1>4, <1>5, <1>6, <1>7, <1>8, <1>9 DEF Next, Step

(* Starts of any networks, one after the other, and updates of what they   *)
(* left, whatever exits and whichever versions are published meanwhile:    *)
(* once a command is through, no container of any compose file is missing  *)
(* (docker_update.go:142-175).                                             *)
THEOREM NodesAreBack ==
  ASSUME OneProcess, OnlyStartsAndUpdates, Faults \subseteq {"read"}, NoCustomNames, KeysMatchNames
  PROVE  Spec => []NodesComeBack
<1>1. Init => NoneLost
  BY DEF Init, NoneLost
<1>2. StopInv /\ NoneLost /\ [Next]_vars => NoneLost'
  BY NoneLostNext DEF StopInv
<1>3. StopInv /\ NoneLost => NodesComeBack
  <2> SUFFICES ASSUME Keyed, NoneLost, \A p \in Procs : pc[p] \in Resting,
                      NEW f \in Bases \X Names, NEW d \in files[f]
               PROVE  Exists(d.svc) /\ def[d.svc].name = d.name
    BY DEF StopInv, NodesComeBack
  <2>1. \A p \in Procs : Wanted(p) = {}
    BY DEF Wanted, Resting
  <2>2. Exists(d.svc)
    BY <2>1 DEF NoneLost
  <2>3. d.svc \in Services /\ d.name = d.svc
    BY Types, DefinitionFields DEF Keyed, FilesKeyed
  <2> QED BY <2>2, <2>3 DEF Keyed, DefsKeyed
<1> QED BY <1>1, <1>2, <1>3, StopInvariant, PTL DEF Spec

-----------------------------------------------------------------------------
(* Secrets                                                                 *)

(* The services a start asks for.                                          *)
Asked(c) == {d.svc : d \in Requested(c, None)}

(* The starts that share a secret are those of one stack.                  *)
Sharing == {c \in Commands : c.op = "start" /\ Mints(c)}
OneStackPerSecret ==
    \A c, e \in Sharing : JwtFile(c) = JwtFile(e) =>
        StartNode(c) = StartNode(e) /\ Asked(c) = Asked(e)

(* A definition of the compose file f has the secret that is on disk.      *)
Current(d, f) ==
    \E e \in Sharing : /\ f = <<e.base, StartNode(e)>>
                       /\ d.svc \in Asked(e)
                       /\ d.own[1] = e.base
                       /\ d.secret = jwt[JwtFile(e)]

Told(d) == d.secret # None => \E f \in Bases \X Names : Current(d, f)

(* A start that has yet to write its compose file.                         *)
Anew(p) == Starting(p) /\ pc[p] \in {"mint", "plain", "pullExtra", "write"}

InHand(p) ==
    /\ Starting(p) /\ pc[p] = "mint" => Mints(cmd[p])
    /\ Starting(p) /\ pc[p] # "mint" => secret[p] = SecretKept(cmd[p])
    /\ pc[p] = "starting" /\ cmd[p].op = "update" => \A s \in ids[p] : Told(def[s])

(* Every secret is the one on disk, except in the compose file a start is  *)
(* about to write and in the containers it is about to make anew.          *)
FilesSettle ==
    \A f \in Bases \X Names : \A d \in files[f] : d.secret # None =>
        Current(d, f) \/ \E p \in Procs : Anew(p) /\ f = ComposeFile(p)

DefsSettle ==
    \A s \in Running : Told(def[s]) \/ \E p \in Procs : Starting(p) /\ s \in Asked(cmd[p])

SettleInv == FilesSettle /\ DefsSettle /\ \A p \in Procs : InHand(p)

LEMMA WrittenIsCurrent ==
  ASSUME NEW c \in Commands, c.op = "start",
         NEW d \in PlainStack(c, SecretKept(c)) \cup FullStack(c, SecretKept(c)),
         d.secret # None
  PROVE  Current(d, <<c.base, StartNode(c)>>)
<1> DEFINE k == SecretKept(c)
<1>1. d \in Requested(c, k)
  <2>1. ASSUME NEW S, d \in WithWatchtower(S) PROVE d \in S
    BY <2>1 DEF WithWatchtower, NoDef
  <2> QED BY <2>1 DEF PlainStack, FullStack, Requested
<1>2. d.secret = k /\ d.own[1] = c.base
  BY <1>1 DEF Requested, MainDef, ExtraDef
<1>3. d.svc \in Asked(c)
  <2>1. MainDef(c, k).svc = MainDef(c, None).svc /\ ExtraDef(c, k).svc = ExtraDef(c, None).svc
    BY DEF MainDef, ExtraDef
  <2> QED BY <1>1, <2>1 DEF Asked, Requested
<1>4. Mints(c) /\ k = jwt[JwtFile(c)]
  BY <1>2 DEF SecretKept
<1> QED BY <1>2, <1>3, <1>4 DEF Current, Sharing

(* With no call failing, a start goes on to its end.                       *)
LEMMA StartGoesOn ==
  ASSUME OneProcess, Faults \subseteq {"read"}, CheckInv, [Next]_vars, NEW p \in Procs,
         Starting(p), pc[p] \in {"up", "starting"} => pc'[p] # "failed"
  PROVE  /\ cmd' = cmd
         /\ pc'[p] = pc[p] \/ Mint(p) \/ WritePlain(p) \/ PullExtra(p) \/ Write(p)
            \/ UpCreate(p) \/ UpStart(p) \/ UpReturns(p) \/ Cleanup(p)
         /\ Starting(p)' \/ Cleanup(p)
<1> USE Types DEF CheckInv, Keyed, Starting, AtStart
<1>1. CASE ContainerExits \/ Publish \/ UNCHANGED vars
  BY <1>1 DEF ContainerExits, Publish, vars
<1>2. CASE Step(p)
  <2>1. cmd' = cmd
    BY <1>2, CommandKeeps
  <2>2. Mint(p) \/ WritePlain(p) \/ PullExtra(p) \/ Write(p) \/ UpCreate(p) \/ UpStart(p)
        \/ UpReturns(p) \/ Cleanup(p)
    BY <1>2
       DEF Step, At, Pull, Create, StopResolve, StopPs, StopDown, StopAllList, StopAllStop,
           StopAllRemove, DeleteTarget, Guard, Remove, UpdateList, UpdateNext, UpdatePull
  <2>3. CASE Mint(p) \/ WritePlain(p) \/ PullExtra(p) \/ Write(p)
    <3>1. pc'[p] # "failed"
      BY <2>3 DEF Mint, WritePlain, PullExtra, Write, WriteFile, WriteFails, FirstWrite,
                  CallFails, Goto
    <3> QED BY <2>1, <2>3, <3>1, Leads
  <2>4. CASE UpCreate(p) \/ UpStart(p) \/ UpReturns(p)
    <3>1. pc'[p] # "failed"
      BY <2>4, Leads DEF UpCreate, UpStart, UpReturns, At
    <3>2. pc'[p] # "next"
      BY <2>4, Leads DEF UpCreate, UpReturns, UpEnds, UpFails, Goto
    <3> QED BY <2>1, <2>4, <3>1, <3>2, Leads
  <2> QED BY <2>1, <2>2, <2>3, <2>4
<1>3. ~Begin(p) /\ ~Kill(p)
  BY DEF Begin, Kill, Resting
<1> QED BY <1>1, <1>2, <1>3 DEF Next, OneProcess

(* A step that touches no secret and ends no start.                        *)
LEMMA SettleKeeps ==
  ASSUME SettleInv, UNCHANGED <<jwt, files>>,
         \A s \in Running' : s \in Running /\ def'[s] = def[s],
         \A p \in Procs : /\ Starting(p) => Starting(p)' /\ cmd'[p] = cmd[p]
                          /\ Anew(p) => Anew(p)' /\ ComposeFile(p)' = ComposeFile(p)
  PROVE  FilesSettle' /\ DefsSettle'
<1>1. \A d, f : Current(d, f)' <=> Current(d, f)
  BY DEF Current
<1>2. FilesSettle'
  BY <1>1 DEF SettleInv, FilesSettle
<1>3. DefsSettle'
  <2> SUFFICES ASSUME NEW s \in Running'
               PROVE  Told(def[s])' \/ \E p \in Procs : Starting(p)' /\ s \in Asked(cmd'[p])
    BY DEF DefsSettle
  <2>1. Told(def[s])' <=> Told(def[s])
    BY <1>1 DEF Told
  <2> QED BY <2>1 DEF SettleInv, DefsSettle
<1> QED BY <1>2, <1>3

(* Making a secret: what had the one before is of the stack that is about  *)
(* to be made anew.                                                        *)
LEMMA SettleMint ==
  ASSUME OneProcess, "call" \notin Faults, OneStackPerSecret, CheckInv, SettleInv,
         NEW p \in Procs, Starting(p), Mint(p), Starting(p)'
  PROVE  SettleInv'
<1> USE Types DEF CheckInv, Keyed
<1> DEFINE c == cmd[p]
           j == JwtFile(c)
<1>1. pc[p] = "mint" /\ UNCHANGED <<files, def, status, cmd, node, ids>>
  BY DEF Mint, At, hub
<1>2. c \in Sharing /\ c.base \in Bases /\ Registered(c.net, c.testnet) \in Minting
  BY <1>1, CommandFields DEF Starting, SettleInv, InHand, Sharing, Mints
<1>3. /\ jwt' = [jwt EXCEPT ![j] = <<p, begun>>] /\ secret' = [secret EXCEPT ![p] = <<p, begun>>]
      /\ pc' = [pc EXCEPT ![p] = FirstWrite(c)]
  BY DEF Mint, CallFails, Goto
<1>4. j \in Bases \X Minting /\ jwt \in [Bases \X Minting -> Secrets \cup {None}]
  BY <1>2 DEF JwtFile, TypeInv, TypeOK
<1>5. pc'[p] \in {"plain", "pullExtra", "write"}
  BY <1>3 DEF FirstWrite
<1>6. ComposeFile(p) = <<c.base, StartNode(c)>> /\ ComposeFile(p)' = ComposeFile(p)
  BY <1>1 DEF ComposeFile, Starting
<1>7. ASSUME NEW d, NEW f, Current(d, f)
      PROVE  Current(d, f)' \/ (f = ComposeFile(p) /\ d.svc \in Asked(c))
  <2>1. PICK e \in Sharing : /\ f = <<e.base, StartNode(e)>>
                             /\ d.svc \in Asked(e)
                             /\ d.own[1] = e.base
                             /\ d.secret = jwt[JwtFile(e)]
    BY <1>7 DEF Current
  <2>2. CASE JwtFile(e) = j
    <3>1. e.base = c.base /\ StartNode(e) = StartNode(c) /\ Asked(e) = Asked(c)
      BY <1>2, <2>2 DEF OneStackPerSecret, JwtFile
    <3> QED BY <1>6, <2>1, <3>1
  <2>3. CASE JwtFile(e) # j
    <3>1. jwt'[JwtFile(e)] = jwt[JwtFile(e)]
      <4>1. JwtFile(e) \in Bases \X Minting
        BY CommandFields DEF Sharing, Mints, JwtFile
      <4> QED BY <1>3, <1>4, <2>3, <4>1
    <3> QED BY <2>1, <3>1 DEF Current
  <2> QED BY <2>2, <2>3
<1>8. FilesSettle'
  <2> SUFFICES ASSUME NEW f \in Bases \X Names, NEW d \in files[f], d.secret # None
               PROVE  Current(d, f)' \/ \E q \in Procs : Anew(q)' /\ f = ComposeFile(q)'
    BY <1>1 DEF FilesSettle
  <2>1. Anew(p)'
    BY <1>5 DEF Anew
  <2>2. Current(d, f) \/ f = ComposeFile(p)
    BY DEF SettleInv, FilesSettle, OneProcess
  <2> QED BY <1>6, <1>7, <2>1, <2>2
<1>9. DefsSettle'
  <2> SUFFICES ASSUME NEW s \in Running
               PROVE  Told(def[s])' \/ \E q \in Procs : Starting(q)' /\ s \in Asked(cmd'[q])
    BY <1>1 DEF DefsSettle, Running
  <2>1. CASE Told(def[s])
    <3>1. def[s].svc = s
      BY DEF Running, DefsKeyed, Exists
    <3> QED BY <1>1, <1>7, <2>1, <3>1 DEF Told
  <2>2. CASE ~Told(def[s])
    <3>1. s \in Asked(c)
      BY <2>2 DEF SettleInv, DefsSettle, OneProcess
    <3> QED BY <1>1, <3>1
  <2> QED BY <2>1, <2>2
<1>10. InHand(p)'
  <2>1. secret'[p] = jwt'[j]
    BY <1>3, <1>4
  <2>2. SecretKept(cmd[p])' = jwt'[j]
    BY <1>1, <1>2 DEF SecretKept, Sharing
  <2> QED BY <1>5, <2>1, <2>2, <1>1 DEF InHand
<1> QED BY <1>8, <1>9, <1>10 DEF SettleInv, OneProcess

(* Writing the compose file.                                               *)
LEMMA SettleWrite ==
  ASSUME OneProcess, "call" \notin Faults, CheckInv, SettleInv,
         NEW p \in Procs, Starting(p), WritePlain(p) \/ Write(p), Starting(p)'
  PROVE  SettleInv'
<1> USE Types DEF CheckInv, Keyed
<1> DEFINE c == cmd[p]
           F == ComposeFile(p)
<1>1. c \in Commands /\ c.op = "start" /\ F = <<c.base, StartNode(c)>> /\ F \in Bases \X Names
  BY StartWrites
<1>2. UNCHANGED <<jwt, def, status, cmd, node, ids, secret>>
      /\ pc[p] \in {"plain", "write"} /\ pc'[p] \in {"pullExtra", "up"}
      /\ (pc'[p] = "pullExtra" <=> pc[p] = "plain")
  BY DEF WritePlain, Write, WriteFile, WriteFails, CallFails, Goto, At, local, held
<1>3. PICK D \in {PlainStack(c, secret[p]), FullStack(c, secret[p])} :
        files' = [files EXCEPT ![F] = D]
  BY DEF WritePlain, Write, WriteFile, WriteFails, CallFails
<1>4. secret[p] = SecretKept(c)
  BY <1>2 DEF SettleInv, InHand
<1>5. \A d, f : Current(d, f)' <=> Current(d, f)
  BY <1>2 DEF Current
<1>6. F' = F
  BY <1>2 DEF ComposeFile
<1>7. FilesSettle'
  <2> SUFFICES ASSUME NEW f \in Bases \X Names, NEW d \in files'[f], d.secret # None
               PROVE  Current(d, f)
    BY <1>5 DEF FilesSettle
  <2>1. CASE f = F
    BY <1>1, <1>3, <1>4, <2>1, WrittenIsCurrent
  <2>2. CASE f # F
    BY <1>3, <2>2 DEF SettleInv, FilesSettle, OneProcess
  <2> QED BY <2>1, <2>2
<1>8. DefsSettle'
  <2> SUFFICES ASSUME NEW s \in Running
               PROVE  Told(def[s])' \/ \E q \in Procs : Starting(q)' /\ s \in Asked(cmd'[q])
    BY <1>2 DEF DefsSettle, Running
  <2>1. Told(def[s])' <=> Told(def[s])
    BY <1>2, <1>5 DEF Told
  <2> QED BY <1>2, <2>1 DEF SettleInv, DefsSettle, OneProcess
<1>9. InHand(p)'
  <2>1. SecretKept(cmd[p])' = SecretKept(cmd[p])
    BY <1>2 DEF SecretKept
  <2> QED BY <1>2, <1>4, <2>1 DEF InHand
<1> QED BY <1>7, <1>8, <1>9 DEF SettleInv, OneProcess

(* compose up, of a start and of an update.                                *)
LEMMA SettleUp ==
  ASSUME OneProcess, CheckInv, StackMade, SettleInv, NEW p \in Procs,
         UpCreate(p) \/ UpStart(p) \/ UpReturns(p), Starting(p) => Starting(p)'
  PROVE  SettleInv'
<1> USE Types DEF CheckInv, Keyed
<1>0. UNCHANGED <<jwt, files, cmd, node, secret>> /\ pc[p] \in {"up", "starting"}
      /\ cmd[p].op \in {"start", "update"}
  BY DEF UpCreate, UpStart, UpReturns, At, host, local, held, TypeInv, Control, ControlOf
<1>1. \A d, f : Current(d, f)' <=> Current(d, f)
  BY <1>0 DEF Current
<1>2. \A q \in Procs : q = p /\ ~Anew(q)
  BY <1>0 DEF OneProcess, Anew
<1>3. pc'[p] # "mint" /\ SecretKept(cmd[p])' = SecretKept(cmd[p])
  BY <1>0, Leads DEF SecretKept
<1>4. (Starting(p)' => Starting(p)) /\ (Starting(p) => secret[p] = SecretKept(cmd[p]))
  BY <1>0 DEF Starting, AtStart, SettleInv, InHand
<1>5. CASE UpCreate(p)
  <2>1. PICK T \in SUBSET files[ComposeFile(p)] :
          /\ ids' = [ids EXCEPT ![p] = {d.svc : d \in T}]
          /\ \A d \in T : \E e \in T : e.svc = d.svc /\ def'[d.svc] = e
          /\ \A s \in Services :
               status'[s] = "running" => status[s] = "running" /\ def'[s] = def[s]
    BY <1>5, UpEffect
  <2>2. FilesSettle' /\ DefsSettle'
    BY <1>0, <1>2, <2>1, SettleKeeps DEF Running
  <2>3. ASSUME NEW s \in ids'[p] PROVE Told(def[s])'
    <3>1. PICK e \in files[ComposeFile(p)] : def'[s] = e
      BY <2>1
    <3>2. ComposeFile(p) \in Bases \X Names
      BY <1>5, ComposeFileIsKnown DEF UpCreate, At
    <3>3. Told(e)
      BY <1>2, <3>2 DEF SettleInv, FilesSettle, Told
    <3> QED BY <1>1, <3>1, <3>3 DEF Told
  <2>4. InHand(p)'
    BY <1>0, <1>3, <1>4, <2>3 DEF InHand
  <2> QED BY <1>2, <2>2, <2>4 DEF SettleInv
<1>6. CASE UpReturns(p)
  <2>1. UNCHANGED <<def, status, ids>> /\ pc'[p] # "starting"
    BY <1>6, Leads DEF UpReturns, host, local
  <2>2. FilesSettle' /\ DefsSettle'
    BY <1>0, <1>2, <2>1, SettleKeeps DEF Running
  <2>3. InHand(p)'
    BY <1>0, <1>3, <1>4, <2>1 DEF InHand
  <2> QED BY <1>2, <2>2, <2>3 DEF SettleInv
<1>7. CASE UpStart(p)
  <2>1. PICK s \in ids[p] : status' = [status EXCEPT ![s] = "running"]
    BY <1>7 DEF UpStart
  <2>2. pc[p] = "starting" /\ UNCHANGED <<def, pc, ids>>
    BY <1>7 DEF UpStart, At
  <2>3. Told(def[s]) \/ (Starting(p) /\ s \in Asked(cmd[p]))
    <3>1. CASE cmd[p].op = "update"
      BY <2>2, <3>1 DEF SettleInv, InHand
    <3>2. CASE cmd[p].op = "start"
      <4>1. Starting(p)
        BY <2>2, <3>2 DEF Starting, AtStart
      <4>2. PICK d \in FullStack(cmd[p], SecretKept(cmd[p])) : s = d.svc /\ def[s] = d
        BY <1>4, <2>2, <4>1 DEF StackMade, MadeBy
      <4>3. cmd[p] \in Commands
        OBVIOUS
      <4>4. CASE d.secret = None
        BY <4>2, <4>4 DEF Told
      <4>5. CASE d.secret # None
        <5>1. Current(d, <<cmd[p].base, StartNode(cmd[p])>>)
          BY <3>2, <4>2, <4>3, <4>5, WrittenIsCurrent
        <5>2. <<cmd[p].base, StartNode(cmd[p])>> \in Bases \X Names
          BY <3>2, <4>3, LifecycleAssumption, ContainersAreNames
        <5> QED BY <4>2, <5>1, <5>2 DEF Told
      <4> QED BY <4>4, <4>5
    <3> QED BY <1>0, <3>1, <3>2
  <2>4. FilesSettle'
    BY <1>0, <1>1, <1>2 DEF SettleInv, FilesSettle
  <2>5. DefsSettle'
    <3> SUFFICES ASSUME NEW t \in Running'
                 PROVE  Told(def[t])' \/ \E q \in Procs : Starting(q)' /\ t \in Asked(cmd'[q])
      BY <2>2 DEF DefsSettle
    <3>1. t \in Running \/ t = s
      BY <2>1 DEF Running
    <3>2. Told(def[t])' <=> Told(def[t])
      BY <1>1, <2>2 DEF Told
    <3>3. Told(def[t]) \/ (Starting(p) /\ t \in Asked(cmd[p]))
      BY <1>2, <2>3, <3>1 DEF SettleInv, DefsSettle
    <3> QED BY <1>0, <2>2, <3>2, <3>3 DEF Starting
  <2>6. InHand(p)'
    <3>1. \A t \in ids[p] : Told(def[t])' <=> Told(def[t])
      BY <1>1, <2>2 DEF Told
    <3> QED BY <1>0, <1>3, <1>4, <2>2, <3>1 DEF InHand, SettleInv
  <2> QED BY <1>2, <2>4, <2>5, <2>6 DEF SettleInv
<1> QED BY <1>5, <1>6, <1>7

(* The end of a start: what it asked for has been made anew.               *)
LEMMA SettleEnd ==
  ASSUME OneProcess, CheckInv, StackMade, SettleInv, NEW p \in Procs, Starting(p), Cleanup(p)
  PROVE  SettleInv'
<1> USE Types DEF CheckInv, Keyed
<1> DEFINE c == cmd[p]
           D == FullStack(c, SecretKept(c))
<1>1. pc[p] = "cleanup" /\ UNCHANGED <<jwt, files, def, status, cmd, node, secret>>
      /\ pc'[p] = "done"
  BY Leads DEF Cleanup, At, host, held
<1>2. \A q \in Procs : q = p /\ ~Anew(q)
  BY <1>1 DEF OneProcess, Anew
<1>3. \A d, f : Current(d, f)' <=> Current(d, f)
  BY <1>1 DEF Current
<1>4. FilesSettle'
  BY <1>1, <1>2, <1>3 DEF SettleInv, FilesSettle
<1>5. ASSUME NEW s \in Running, s \in Asked(c)
      PROVE  Told(def[s])
  <2>1. PICK d \in Requested(c, None) : s = d.svc
    BY <1>5 DEF Asked
  <2>2. \E e \in Requested(c, SecretKept(c)) : e.svc = d.svc
    <3>1. MainDef(c, SecretKept(c)).svc = MainDef(c, None).svc
          /\ ExtraDef(c, SecretKept(c)).svc = ExtraDef(c, None).svc
      BY DEF MainDef, ExtraDef
    <3> QED BY <2>1, <3>1 DEF Requested
  <2>3. PICK e \in D : s = e.svc /\ def[s] = e
    <3>1. \A e \in D : def[e.svc] = e
      BY <1>1 DEF StackMade, MadeBy, SettleInv, InHand
    <3>2. Requested(c, SecretKept(c)) \subseteq D
      BY DEF FullStack, WithWatchtower
    <3> HIDE DEF D
    <3> QED BY <2>1, <2>2, <3>1, <3>2
  <2>4. c \in Commands /\ c.op = "start"
    BY DEF Starting
  <2>5. <<c.base, StartNode(c)>> \in Bases \X Names
    BY <2>4, LifecycleAssumption, ContainersAreNames
  <2> QED BY <2>3, <2>4, <2>5, WrittenIsCurrent DEF Told
<1>6. DefsSettle'
  <2> SUFFICES ASSUME NEW s \in Running PROVE Told(def[s])'
    BY <1>1 DEF DefsSettle, Running
  <2>1. Told(def[s])
    BY <1>2, <1>5 DEF SettleInv, DefsSettle
  <2> QED BY <1>1, <1>3, <2>1 DEF Told
<1>7. InHand(p)'
  BY <1>1 DEF InHand, Starting, AtStart
<1> QED BY <1>2, <1>4, <1>6, <1>7 DEF SettleInv

LEMMA SettleNext ==
  ASSUME OneProcess, OnlyStartsAndUpdates, OneStackPerSecret, Faults \subseteq {"read"},
         CheckInv, Course, StackMade, SettleInv, [Next]_vars,
         \A p \in Procs : pc[p] \in {"up", "starting"} => pc'[p] # "failed"
  PROVE  SettleInv'
<1> USE Types DEF CheckInv, Keyed
<1>0. CheckInv
  OBVIOUS
<1>1. ASSUME NEW p \in Procs, Starting(p), Mint(p) \/ WritePlain(p) \/ Write(p) \/ Cleanup(p)
      PROVE  SettleInv'
  <2>1. Starting(p)' \/ Cleanup(p)
    BY <1>0, <1>1, StartGoesOn
  <2>2. CASE Cleanup(p)
    BY <1>0, <1>1, <2>2, SettleEnd
  <2>3. CASE ~Cleanup(p)
    <3>1. Starting(p)' /\ "call" \notin Faults
      BY <2>1, <2>3
    <3> QED BY <1>0, <1>1, <2>3, <3>1, SettleMint, SettleWrite
  <2> QED BY <2>2, <2>3
<1>2. ASSUME NEW p \in Procs, UpCreate(p) \/ UpStart(p) \/ UpReturns(p)
      PROVE  SettleInv'
  <2>1. Starting(p) => Starting(p)'
    <3>1. ~Cleanup(p)
      BY <1>2 DEF UpCreate, UpStart, UpReturns, Cleanup, At
    <3> QED BY <1>0, <3>1, StartGoesOn
  <2> QED BY <1>0, <1>2, <2>1, SettleUp
<1>3. ASSUME NEW p \in Procs, Begin(p) \/ Pull(p) \/ UpdateList(p) \/ UpdateNext(p)
                \/ UpdatePull(p) \/ StopDown(p)
      PROVE  SettleInv'
  <2>1. UNCHANGED <<jwt, files, def, secret>> \/ Begin(p)
    BY <1>3 DEF Pull, UpdateList, UpdateNext, UpdatePull, StopDown, host, local, held
  <2>2. UNCHANGED <<jwt, files, def>> /\ ~Starting(p) /\ pc'[p] # "starting"
    <3>1. UNCHANGED <<jwt, files, def>>
      BY <1>3, <2>1 DEF Begin, host
    <3>2. pc[p] \in Resting \cup {"pull", "images", "next", "refresh", "down"}
      BY <1>3 DEF Begin, Pull, UpdateList, UpdateNext, UpdatePull, StopDown, At
    <3>3. pc'[p] # "starting"
      BY <1>3, Leads
    <3> QED BY <3>1, <3>2, <3>3 DEF Starting, AtStart, Resting
  <2>3. ~Starting(p)'
    <3>1. pc'[p] \in AtStart => pc'[p] = "up" /\ UpdatePull(p)
      BY <1>3, Leads DEF AtStart
    <3>2. UpdatePull(p) => cmd[p].op = "update" /\ cmd' = cmd
      BY DEF UpdatePull, At, Course, CourseOf, local
    <3> QED BY <3>1, <3>2 DEF Starting
  <2>4. \A s \in Running' : s \in Running
    BY <1>3 DEF Begin, Pull, UpdateList, UpdateNext, UpdatePull, StopDown, host, AfterStop, Running
  <2>5. \A q \in Procs : q = p
    BY DEF OneProcess
  <2>6. FilesSettle' /\ DefsSettle'
    BY <2>2, <2>4, <2>5, SettleKeeps DEF Anew
  <2>7. InHand(p)'
    BY <2>2, <2>3 DEF InHand
  <2> QED BY <2>5, <2>6, <2>7 DEF SettleInv
<1>4. ASSUME NEW p \in Procs, Create(p)
      PROVE  SettleInv'
  <2>1. pc[p] = "create" /\ UNCHANGED <<jwt, files, def, status, cmd>>
    BY <1>4 DEF Create, At, host
  <2>2. PICK k \in SecretsRead(cmd[p]) :
          /\ secret' = [secret EXCEPT ![p] = k]
          /\ pc'[p] \in {"failed", IF Mints(cmd[p]) /\ k = None THEN "mint" ELSE FirstWrite(cmd[p])}
    BY <1>4 DEF Create, Goto
  <2>3. FirstWrite(cmd[p]) \in {"plain", "pullExtra", "write"}
    BY DEF FirstWrite
  <2>4. SecretKept(cmd[p])' = SecretKept(cmd[p])
    BY <2>1 DEF SecretKept
  <2>5. k = SecretKept(cmd[p]) \/ (Mints(cmd[p]) /\ k = None)
    BY DEF SecretsRead
  <2>6. InHand(p)'
    <3>1. secret'[p] = k
      BY <2>2
    <3> QED BY <2>1, <2>2, <2>3, <2>4, <2>5, <3>1 DEF InHand, Starting, AtStart
  <2>7. ~Starting(p) /\ \A q \in Procs : q = p
    BY <2>1 DEF Starting, AtStart, OneProcess
  <2>8. FilesSettle' /\ DefsSettle'
    BY <2>1, <2>7, SettleKeeps DEF Anew, Running
  <2> QED BY <2>6, <2>7, <2>8 DEF SettleInv
<1>5. ASSUME NEW p \in Procs, PullExtra(p), Starting(p)
      PROVE  SettleInv'
  <2>1. pc[p] = "pullExtra" /\ pc'[p] = "write"
        /\ UNCHANGED <<jwt, files, def, status, cmd, node, secret>>
    BY <1>5 DEF PullExtra, At, Goto, CallFails, host, local, held
  <2>2. \A q \in Procs : q = p
    BY DEF OneProcess
  <2>3. Starting(p)' /\ ComposeFile(p)' = ComposeFile(p)
    BY <1>5, <2>1 DEF Starting, AtStart, ComposeFile
  <2>4. FilesSettle' /\ DefsSettle'
    BY <2>1, <2>2, <2>3, SettleKeeps DEF Anew, Running
  <2>5. InHand(p)'
    <3>1. SecretKept(cmd[p])' = SecretKept(cmd[p])
      BY <2>1 DEF SecretKept
    <3> QED BY <1>5, <2>1, <3>1 DEF SettleInv, InHand
  <2> QED BY <2>2, <2>4, <2>5 DEF SettleInv
<1>6. CASE ContainerExits \/ Publish \/ UNCHANGED vars
  <2>1. UNCHANGED <<jwt, files, def, pc, cmd, node, ids, secret>>
    BY <1>6 DEF ContainerExits, Publish, vars, local, held
  <2>2. \A s \in Running' : s \in Running
    BY <1>6 DEF ContainerExits, Publish, vars, Running
  <2>3. \A q \in Procs : (Starting(q)' <=> Starting(q)) /\ (Anew(q)' <=> Anew(q))
                         /\ ComposeFile(q)' = ComposeFile(q)
    BY <2>1 DEF Starting, Anew, ComposeFile
  <2>4. FilesSettle' /\ DefsSettle'
    BY <2>1, <2>2, <2>3, SettleKeeps
  <2>5. \A q \in Procs : SecretKept(cmd[q])' = SecretKept(cmd[q])
    BY <2>1 DEF SecretKept
  <2>6. \A d : Told(d)' <=> Told(d)
    BY <2>1 DEF Told, Current
  <2>7. \A q \in Procs : \A s \in ids[q] : Told(def[s])' <=> Told(def[s])
    BY <2>1 DEF Told, Current
  <2>8. \A q \in Procs : InHand(q)'
    BY <2>1, <2>3, <2>5, <2>7 DEF SettleInv, InHand
  <2> QED BY <2>4, <2>8 DEF SettleInv
<1>7. ASSUME NEW p \in Procs, Kill(p) \/ StopResolve(p) \/ StopPs(p) \/ StopAllList(p)
                \/ StopAllStop(p) \/ StopAllRemove(p) \/ DeleteTarget(p) \/ Guard(p) \/ Remove(p)
      PROVE  FALSE
  <2>1. cmd[p].op \in {"start", "update"} /\ CourseOf(pc[p], cmd[p].op)
    BY DEF OnlyStartsAndUpdates, Course
  <2> QED
    BY <1>7, <2>1
       DEF CourseOf, At, Kill, StopResolve, StopPs, StopAllList, StopAllStop, StopAllRemove,
           DeleteTarget, Guard, Remove
<1>8. ASSUME NEW p \in Procs, Mint(p) \/ WritePlain(p) \/ PullExtra(p) \/ Write(p) \/ Cleanup(p)
      PROVE  Starting(p)
  BY <1>8
     DEF Mint, WritePlain, PullExtra, Write, Cleanup, At, Starting, AtStart, TypeInv, Control,
         ControlOf, StartLabels
<1> QED BY <1>1, <1>2, <1>3, <1>4, <1>5, <1>6, <1>7, <1>8 DEF Next, Step

(* A start that cannot read the secret of its stack makes a new one while  *)
(* clients run with the old (base_config.go:70-87).  Over any number of    *)
(* starts and updates one after the other, each that comes to its end      *)
(* leaves every client that runs with the secret on disk: the start made   *)
(* both clients of the stack anew.                                         *)
THEOREM SecretsAreSettled ==
  ASSUME OneProcess, OnlyStartsAndUpdates, OneStackPerSecret, Faults \subseteq {"read"},
         NoCustomNames, KeysMatchNames
  PROVE  Spec => []SecretsSettle
<1>0. PsAnswersAlways /\ "mkdir" \notin Faults /\ Faults \subseteq {"mkdir", "read"}
  BY DEF PsAnswersAlways
<1>1. Init => SettleInv
  BY DEF Init, SettleInv, FilesSettle, DefsSettle, InHand, Starting, AtStart, Running
<1>2. ASSUME CheckInv, StopInv, StackMade, SettleInv, [Next]_vars,
             \A p \in Procs : pc[p] \in {"up", "starting"} => pc'[p] # "failed"
      PROVE  SettleInv'
  BY <1>2, SettleNext DEF StopInv
<1>3. SettleInv => SecretsSettle
  <2> SUFFICES ASSUME SettleInv, \A p \in Procs : pc[p] \in Resting,
                      NEW s \in Running, def[s].secret # None
               PROVE  \E m \in Minting : jwt[<<def[s].own[1], m>>] = def[s].secret
    BY DEF SecretsSettle, SecretIsKept
  <2>1. \A p \in Procs : ~Starting(p)
    BY DEF Starting, AtStart, Resting
  <2> QED BY <2>1 DEF SettleInv, DefsSettle, Told, Current, Sharing, Mints, JwtFile
<1>4. Spec => [][\A p \in Procs : pc[p] \in {"up", "starting"} => pc'[p] # "failed"]_vars
  BY <1>0, EveryStartComesUp DEF StartsComeUp
<1>5. Spec => [](CheckInv /\ StopInv /\ StackMade)
  BY <1>0, CheckInvariant, StopInvariant, StackMadeInvariant, PTL
<1>6. UNCHANGED vars /\ SettleInv => SettleInv'
  <2> SUFFICES ASSUME UNCHANGED vars, SettleInv PROVE SettleInv'
    OBVIOUS
  <2> QED
    BY DEF vars, host, local, held, hub, SettleInv, FilesSettle, DefsSettle, InHand, Told, Current,
           Anew, Starting, ComposeFile, SecretKept, Running
<1> QED BY <1>1, <1>2, <1>3, <1>4, <1>5, <1>6, PTL DEF Spec
=============================================================================
