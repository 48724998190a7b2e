-------------------------- MODULE SecretIsKept_proofs --------------------------
(***************************************************************************)
(* The secret of a layer-2 stack is the one on disk as long as any client  *)
(* runs with it, for commands given one after the other.                   *)
(***************************************************************************)
EXTENDS DataIsKept_proofs

(* A secret that is on disk can be read.                                   *)
SecretsAreRead == "read" \notin Faults

(* Where a start has its secret.                                           *)
AtWork == {"plain", "pullExtra", "write", "up", "starting"}

HasSecret ==
    \A p \in Procs : /\ pc[p] \in AtWork => secret[p] = SecretKept(cmd[p])
                     /\ pc[p] = "mint" => Mints(cmd[p]) /\ jwt[JwtFile(cmd[p])] = None

(* The definition d is of the secret of the start p, if of any.            *)
Carries(d, p) == d.secret # None => d.secret = secret[p] /\ d.own[1] = cmd[p].base

AtHand ==
    \A p \in Procs : /\ pc[p] = "up" => \A d \in files[ComposeFile(p)] : Carries(d, p)
                     /\ pc[p] = "starting" => \A s \in ids[p] : Carries(def[s], p)

SecretInv == HasSecret /\ AtHand /\ SecretIsKept

(* A step that starts nothing and leaves no start at work.                 *)
LEMMA SecretRests ==
  ASSUME OneProcess, SecretInv, NEW p \in Procs, pc'[p] \notin AtWork \cup {"mint"},
         \A s \in Running' : s \in Running /\ def'[s] = def[s], UNCHANGED jwt
  PROVE  SecretInv'
<1>1. \A q \in Procs : pc'[q] \notin AtWork \cup {"mint"}
  BY DEF OneProcess
<1> QED BY <1>1 DEF SecretInv, HasSecret, AtHand, SecretIsKept, AtWork

LEMMA JwtFileIsKnown ==
  ASSUME DataInv, NEW p \in Procs, Mints(cmd[p])
  PROVE  JwtFile(cmd[p]) \in Bases \X Minting
  BY LifecycleAssumption
     DEF Mints, JwtFile, DataInv, DeleteInv, TypeInv, TypeOK

(* The steps of start that read, make and hand on the secret.              *)
LEMMA SecretStart ==
  ASSUME OneProcess, SecretsAreRead, DataInv, SecretInv, NEW p \in Procs,
         Create(p) \/ Mint(p) \/ WritePlain(p) \/ PullExtra(p) \/ Write(p)
  PROVE  SecretInv'
<1> USE DEF At, Goto, CallFails, host, local, held, hub
<1>0. pc \in [Procs -> Labels] /\ secret \in [Procs -> Secrets \cup {None}]
      /\ \A q \in Procs : q = p
  BY DEF OneProcess, DataInv, DeleteInv, TypeInv, TypeOK
<1>1. CASE Create(p)
  <2>1. UNCHANGED <<jwt, def, status, cmd>> /\ secret'[p] = SecretKept(cmd[p])
    <3>1. SecretsRead(cmd[p]) = {SecretKept(cmd[p])}
      BY DEF SecretsRead, SecretsAreRead
    <3> QED BY <1>0, <1>1, <3>1 DEF Create
  <2>2. SecretKept(cmd[p])' = SecretKept(cmd[p])
    BY <2>1 DEF SecretKept
  <2>3. /\ pc'[p] \notin {"up", "starting"}
        /\ pc'[p] = "mint" => Mints(cmd[p]) /\ SecretKept(cmd[p]) = None
    <3>1. SecretsRead(cmd[p]) = {SecretKept(cmd[p])}
      BY DEF SecretsRead, SecretsAreRead
    <3> QED BY <1>0, <1>1, <3>1 DEF Create, FirstWrite
  <2>4. HasSecret'
    BY <1>0, <2>1, <2>2, <2>3 DEF HasSecret, SecretKept
  <2>5. AtHand'
    BY <1>0, <2>3 DEF AtHand
  <2>6. SecretIsKept'
    BY <2>1 DEF SecretInv, SecretIsKept, Running
  <2> QED BY <2>4, <2>5, <2>6 DEF SecretInv
<1>2. CASE Mint(p)
  <2> DEFINE f == JwtFile(cmd[p])
  <2>1. Mints(cmd[p]) /\ jwt[f] = None
    BY <1>2 DEF Mint, SecretInv, HasSecret
  <2>2. f \in Bases \X Minting /\ jwt \in [Bases \X Minting -> Secrets \cup {None}]
    BY <2>1, JwtFileIsKnown DEF DataInv, DeleteInv, TypeInv, TypeOK
  <2>3. UNCHANGED <<def, status, cmd>>
    BY <1>2 DEF Mint
  <2>4. CASE /\ jwt' = [jwt EXCEPT ![f] = <<p, begun>>]
             /\ secret' = [secret EXCEPT ![p] = <<p, begun>>]
             /\ Goto(p, FirstWrite(cmd[p]))
    <3>1. jwt'[f] = secret'[p]
      BY <1>0, <2>2, <2>4
    <3>2. pc'[p] \in {"plain", "pullExtra", "write"}
      BY <1>0, <2>4 DEF FirstWrite
    <3>3. HasSecret'
      BY <1>0, <2>1, <2>3, <3>1, <3>2 DEF HasSecret, SecretKept
    <3>4. AtHand'
      BY <1>0, <3>2 DEF AtHand
    <3>5. SecretIsKept'
      <4> SUFFICES ASSUME NEW s \in Running, def[s].secret # None
                   PROVE  \E m \in Minting : jwt'[<<def[s].own[1], m>>] = def[s].secret
        BY <2>3 DEF SecretIsKept, Running
      <4>1. PICK m \in Minting : jwt[<<def[s].own[1], m>>] = def[s].secret
        BY DEF SecretInv, SecretIsKept
      <4>2. <<def[s].own[1], m>> # f
        BY <2>1, <4>1
      <4>3. jwt'[<<def[s].own[1], m>>] = jwt[<<def[s].own[1], m>>]
        <5>1. def[s].own # None /\ def[s].own \in Dirs \cup {None}
          BY DefinitionFields DEF Running, DataInv, DeleteInv, TypeInv, TypeOK, DefsTelling, Telling
        <5>2. <<def[s].own[1], m>> \in Bases \X Minting
          BY <5>1 DEF Dirs
        <5> QED BY <2>2, <2>4, <4>2, <5>2
      <4> QED BY <4>1, <4>3
    <3> QED BY <3>3, <3>4, <3>5 DEF SecretInv
  <2>5. CASE jwt' \in {jwt, [jwt EXCEPT ![f] = None]} /\ pc' = [pc EXCEPT ![p] = "failed"]
    <3>1. UNCHANGED jwt
      BY <2>1, <2>2, <2>5
    <3>2. pc'[p] = "failed"
      BY <1>0, <2>5
    <3> QED BY <2>3, <3>1, <3>2, SecretRests DEF Running, AtWork
  <2> QED BY <1>2, <2>4, <2>5 DEF Mint
<1>3. CASE WritePlain(p) \/ PullExtra(p) \/ Write(p)
  <2>1. UNCHANGED <<jwt, def, status, cmd, secret, node>>
    BY <1>3 DEF WritePlain, PullExtra, Write, WriteFile, WriteFails
  <2>2. CASE pc'[p] = "failed"
    BY <2>1, <2>2, SecretRests DEF Running, AtWork
  <2>3. CASE pc'[p] # "failed"
    <3>1. secret[p] = SecretKept(cmd[p])
      BY <1>3 DEF WritePlain, PullExtra, Write, SecretInv, HasSecret, AtWork
    <3>2. SecretKept(cmd[p])' = SecretKept(cmd[p])
      BY <2>1 DEF SecretKept
    <3>3. pc'[p] \in {"pullExtra", "write", "up"}
      BY <1>0, <1>3, <2>3 DEF WritePlain, PullExtra, Write, WriteFails
    <3>4. HasSecret'
      BY <1>0, <2>1, <3>1, <3>2, <3>3 DEF HasSecret
    <3>5. ASSUME pc'[p] = "up" PROVE \A d \in files'[ComposeFile(p)] : Carries(d, p)
      <4>1. Write(p)
        BY <1>0, <1>3, <3>5 DEF WritePlain, PullExtra, WriteFails
      <4>2. PICK D \in {PlainStack(cmd[p], secret[p]), FullStack(cmd[p], secret[p])} :
              WriteFile(p, D)
        BY <1>0, <3>5, <4>1 DEF Write, WriteFails
      <4>3. ComposeFile(p) \in Bases \X Names
        <5>1. cmd[p] \in Commands /\ cmd[p].op = "start"
          BY <4>1 DEF Write, DataInv, DeleteInv, TypeInv, TypeOK, Control, ControlOf, StartLabels
        <5> QED BY <5>1, LifecycleAssumption, ContainersAreNames DEF ComposeFile
      <4>4. files'[ComposeFile(p)] = D
        BY <4>2, <4>3 DEF WriteFile, DataInv, DeleteInv, TypeInv, TypeOK
      <4>5. \A d \in Requested(cmd[p], secret[p]) : Carries(d, p)
        BY DEF Requested, MainDef, ExtraDef, Carries
      <4>6. \A d \in D : Carries(d, p)
        BY <4>5 DEF PlainStack, FullStack, WithWatchtower, Requested, NoDef, Carries
      <4> QED BY <4>4, <4>6
    <3>6. ComposeFile(p)' = ComposeFile(p)
      BY <2>1 DEF ComposeFile
    <3>7. AtHand'
      BY <1>0, <2>1, <3>3, <3>5, <3>6 DEF AtHand, Carries
    <3>8. SecretIsKept'
      BY <2>1 DEF SecretInv, SecretIsKept, Running
    <3> QED BY <3>4, <3>7, <3>8 DEF SecretInv
  <2> QED BY <2>2, <2>3
<1> QED BY <1>1, <1>2, <1>3

(* compose up makes containers of the secret and starts them.              *)
LEMMA SecretUp ==
  ASSUME OneProcess, NoUpdates, DataInv, SecretInv, NEW p \in Procs, UpCreate(p) \/ UpStart(p)
  PROVE  SecretInv'
<1>0. /\ pc \in [Procs -> Labels] /\ ids \in [Procs -> SUBSET Services]
      /\ status \in [Services -> {"absent", "created", "running", "exited"}]
      /\ \A q \in Procs : q = p
      /\ cmd[p].op # "update"
  BY DEF OneProcess, NoUpdates, DataInv, DeleteInv, TypeInv, TypeOK
<1>1. CASE UpCreate(p)
  <2> DEFINE F == files[ComposeFile(p)]
             fresh(T) == {d \in T : ~Exists(d.svc) \/ def[d.svc] # d \/ d.svc \in old}
             new(T) == {d.svc : d \in fresh(T)}
  <2>1. PICK T \in SUBSET F :
          /\ def' = [s \in Services |->
                       IF s \in new(T) THEN TheOne({d \in fresh(T) : d.svc = s}) ELSE def[s]]
          /\ status' = [s \in Services |->
                          IF s \in {d.svc : d \in T} /\ (s \in new(T) \/ status[s] = "exited")
                          THEN "created" ELSE status[s]]
          /\ ids' = [ids EXCEPT ![p] = {d.svc : d \in T}]
          /\ pc' \in {[pc EXCEPT ![p] = l] : l \in {"starting", "failed"}}
    BY <1>0, <1>1 DEF UpCreate, UpEnds, UpFails, Goto
  <2>2. UNCHANGED <<jwt, cmd, secret, files, node>> /\ pc[p] = "up"
    BY <1>1 DEF UpCreate, held, At
  <2>3. \A s \in Running' : s \in Running /\ def'[s] = def[s]
    <3> SUFFICES ASSUME NEW s \in Running' PROVE s \in Running /\ def'[s] = def[s]
      OBVIOUS
    <3>1. s \in Services /\ status'[s] = "running"
      BY DEF Running
    <3>2. s \notin new(T) /\ status[s] = "running"
      BY <2>1, <3>1
    <3> QED BY <2>1, <3>1, <3>2 DEF Running
  <2>4. CASE pc'[p] = "failed"
    BY <2>2, <2>3, <2>4, SecretRests DEF AtWork
  <2>5. CASE pc'[p] = "starting"
    <3>1. \A d \in F : Carries(d, p)
      BY <2>2 DEF SecretInv, AtHand
    <3>2. ASSUME NEW s \in ids'[p] PROVE Carries(def'[s], p)
      <4>1. PICK d \in T : s = d.svc
        BY <1>0, <2>1, <3>2
      <4>2. s \in Services
        <5>1. ComposeFile(p) \in Bases \X Names
          BY <2>2, ComposeFileIsKnown DEF DataInv, DeleteInv
        <5> QED BY <4>1, <5>1, DefinitionFields DEF DataInv, DeleteInv, TypeInv, TypeOK
      <4>3. CASE s \in new(T)
        <5>1. {e \in fresh(T) : e.svc = s} # {}
          BY <4>3
        <5>2. TheOne({e \in fresh(T) : e.svc = s}) \in F
          BY <5>1, TheOneIsOne
        <5> QED BY <2>1, <3>1, <4>2, <4>3, <5>2
      <4>4. CASE s \notin new(T)
        <5>1. def[s] = d /\ def'[s] = def[s]
          BY <2>1, <4>1, <4>2, <4>4
        <5> QED BY <3>1, <4>1, <5>1
      <4> QED BY <4>3, <4>4
    <3>3. AtHand'
      BY <1>0, <2>2, <2>5, <3>2 DEF AtHand, Carries
    <3>4. HasSecret'
      BY <1>0, <2>2, <2>5 DEF SecretInv, HasSecret, SecretKept, AtWork
    <3>5. SecretIsKept'
      BY <2>2, <2>3 DEF SecretInv, SecretIsKept
    <3> QED BY <3>3, <3>4, <3>5 DEF SecretInv
  <2> QED BY <1>0, <2>1, <2>4, <2>5
<1>2. CASE UpStart(p)
  <2>1. PICK s \in ids[p] \ stale[p] : status' = [status EXCEPT ![s] = "running"]
    BY <1>2 DEF UpStart
  <2>2. pc[p] = "starting" /\ UNCHANGED <<files, def, jwt, pc, cmd, node, ids, secret>>
    BY <1>2 DEF UpStart, At, held
  <2>3. Running' = Running \cup {s}
    BY <1>0, <2>1 DEF Running
  <2>4. def[s].secret # None => \E m \in Minting : jwt[<<def[s].own[1], m>>] = def[s].secret
    BY <2>2 DEF SecretInv, AtHand, HasSecret, AtWork, Carries, SecretKept, Mints, JwtFile
  <2>5. SecretIsKept'
    BY <2>2, <2>3, <2>4 DEF SecretInv, SecretIsKept
  <2>6. HasSecret' /\ AtHand'
    BY <2>2 DEF SecretInv, HasSecret, AtHand, SecretKept, Carries, ComposeFile
  <2> QED BY <2>5, <2>6 DEF SecretInv
<1> QED BY <1>1, <1>2

(* A deletion takes a secret only with the base no running client is of.   *)
LEMMA SecretRemove ==
  ASSUME OneProcess, DataInv, SecretInv, NEW p \in Procs, Remove(p)
  PROVE  SecretInv'
<1>1. /\ UNCHANGED <<def, status>> /\ pc[p] = "remove"
      /\ pc' \in {[pc EXCEPT ![p] = l] : l \in {"done", "failed"}}
  BY DEF Remove, At, Goto, CallFails
<1>2. \A f \in Bases \X Minting : cmd[p].op # "deleteAll" \/ f[1] # cmd[p].base => jwt'[f] = jwt[f]
  BY DEF Remove
<1>3. ASSUME NEW s \in Running, def[s].secret # None
      PROVE  def[s].own \in Dirs /\ (cmd[p].op = "deleteAll" => def[s].own[1] # cmd[p].base)
  <2>1. def[s].own \in Dirs
    BY <1>3, DefinitionFields DEF Running, DataInv, DeleteInv, TypeInv, TypeOK, DefsTelling, Telling
  <2>2. def[s].own \notin Doomed(cmd[p])
    BY <1>1 DEF At, DataInv, NothingMissed, DeleteInv, RemoveGuarded
  <2> QED BY <2>1, <2>2 DEF Doomed, Dirs
<1>4. SecretIsKept'
  <2> SUFFICES ASSUME NEW s \in Running, def[s].secret # None
               PROVE  \E m \in Minting : jwt'[<<def[s].own[1], m>>] = def[s].secret
    BY <1>1 DEF SecretIsKept, Running
  <2>1. PICK m \in Minting : jwt[<<def[s].own[1], m>>] = def[s].secret
    BY DEF SecretInv, SecretIsKept
  <2>2. <<def[s].own[1], m>> \in Bases \X Minting
    BY <1>3 DEF Dirs
  <2> QED BY <1>2, <1>3, <2>1, <2>2
<1>5. \A q \in Procs : pc'[q] \in {"done", "failed"}
  BY <1>1 DEF OneProcess, DataInv, DeleteInv, TypeInv, TypeOK
<1> QED BY <1>4, <1>5 DEF SecretInv, HasSecret, AtHand, AtWork

LEMMA SecretNext ==
  ASSUME OneProcess, NoUpdates, SecretsAreRead, DataInv, SecretInv, [Next]_vars
  PROVE  SecretInv'
<1>0. pc \in [Procs -> Labels]
  BY DEF DataInv, DeleteInv, TypeInv, TypeOK
<1>1. ASSUME NEW p \in Procs,
             Create(p) \/ Mint(p) \/ WritePlain(p) \/ PullExtra(p) \/ Write(p)
             \/ UpCreate(p) \/ UpStart(p) \/ Remove(p)
      PROVE  SecretInv'
  BY <1>1, SecretStart, SecretUp, SecretRemove
<1>2. ASSUME NEW p \in Procs, Begin(p)
      PROVE  SecretInv'
  <2>1. \E l \in {"pull", "resolve", "target", "list", "images"} : pc' = [pc EXCEPT ![p] = l]
    <3>1. PICK c \in Commands :
            Goto(p, CASE c.op = "start" -> "pull"
                      [] c.op = "stop" -> "resolve"
                      [] c.op = "delete" -> "target"
                      [] c.op \in {"stopAll", "deleteAll"} -> "list"
                      [] c.op = "update" -> "images")
      BY <1>2 DEF Begin
    <3>2. c.op \in Ops
      BY LifecycleAssumption
    <3> QED BY <3>1, <3>2 DEF Ops, Goto
  <2>2. UNCHANGED <<def, status, jwt>>
    BY <1>2 DEF Begin, host
  <2> QED BY <1>0, <2>1, <2>2, SecretRests DEF AtWork, Running
<1>3. ASSUME NEW p \in Procs, Kill(p) \/ Pull(p) \/ UpReturns(p) \/ Cleanup(p)
                \/ StopResolve(p) \/ StopPs(p) \/ StopDown(p)
                \/ StopAllList(p) \/ StopAllStop(p) \/ StopAllRemove(p)
                \/ DeleteTarget(p) \/ Guard(p) \/ UpdateList(p)
      PROVE  SecretInv'
  <2> USE DEF At, Goto, CallFails, host, local, hub, held
  <2>1. \E l \in Labels \ (AtWork \cup {"mint"}) : pc' = [pc EXCEPT ![p] = l]
    <3>1. CASE Kill(p) \/ Pull(p) \/ UpReturns(p) \/ Cleanup(p) \/ DeleteTarget(p) \/ Guard(p)
               \/ UpdateList(p)
      BY <3>1 DEF Kill, Pull, UpReturns, UpEnds, UpFails, Cleanup, DeleteTarget, Guard,
                  UpdateList, Labels, AtWork
    <3>2. CASE StopResolve(p) \/ StopPs(p) \/ StopDown(p)
      BY <3>2 DEF StopResolve, StopPs, StopDown, StopReturns, StopFails, Labels, AtWork
    <3>3. CASE StopAllList(p) \/ StopAllStop(p) \/ StopAllRemove(p)
      BY <3>3 DEF StopAllList, StopAllStop, StopAllRemove, AllReturns, AllFails, Labels, AtWork
    <3> QED BY <1>3, <3>1, <3>2, <3>3
  <2>2. UNCHANGED <<def, jwt>> /\ \A s \in Running' : s \in Running
    BY <1>3 DEF Kill, Pull, UpReturns, Cleanup, StopResolve, StopPs, StopDown, StopAllList,
                StopAllStop, StopAllRemove, DeleteTarget, Guard, UpdateList, AfterStop, Running
  <2> QED BY <1>0, <2>1, <2>2, SecretRests
<1>4. ASSUME NEW p \in Procs, UpdateNext(p) \/ UpdatePull(p)
      PROVE  SecretInv'
  <2>1. ~UpdatePull(p)
    BY DEF UpdatePull, At, NoUpdates, DataInv, DeleteInv, TypeInv, TypeOK, Control, ControlOf
  <2>2. UpdateNext(p)
    BY <1>4, <2>1
  <2>3. pc[p] = "next" /\ UNCHANGED <<def, jwt, status>>
    BY <2>2 DEF UpdateNext, At, host
  <2>4. pc' = pc \/ \E l \in {"done", "down"} : pc' = [pc EXCEPT ![p] = l]
    BY <2>2 DEF UpdateNext, Goto
  <2> QED BY <1>0, <2>3, <2>4, SecretRests DEF AtWork, Running
<1>5. CASE ContainerExits \/ Publish \/ UNCHANGED vars
  <2>1. UNCHANGED <<files, def, jwt, pc, cmd, node, ids, secret>>
    BY <1>5 DEF ContainerExits, Publish, vars, local, held
  <2>2. \A s \in Running' : s \in Running
    BY <1>5 DEF ContainerExits, Publish, vars, Running, DataInv, DeleteInv, TypeInv, TypeOK
  <2>3. SecretIsKept'
    BY <2>1, <2>2 DEF SecretInv, SecretIsKept
  <2>4. HasSecret' /\ AtHand'
    BY <2>1 DEF SecretInv, HasSecret, AtHand, SecretKept, Carries, ComposeFile
  <2> QED BY <2>3, <2>4 DEF SecretInv
<1> QED BY <1>1, <1>2, <1>3, <1>4, <1>5 DEF Next, Step

(* Over any number of starts, failed writes and deletions, one after the   *)
(* other, no client is left running with a secret the next start would not *)
(* give its counterpart (base_config.go:51-88), as long as the file can be *)
(* read: a start that cannot read it makes a new secret (base_config.go:71)*)
(* under the clients that run.                                             *)
THEOREM SecretStays ==
  ASSUME PsAnswersAlways, NoCustomNames, OneProcess, NoUpdates, SecretsAreRead
  PROVE  Spec => []SecretIsKept
<1>1. Init => SecretInv
  BY DEF Init, SecretInv, HasSecret, AtHand, SecretIsKept, Running, AtWork
<1>2. DataInv /\ SecretInv /\ [Next]_vars => SecretInv'
  BY SecretNext
<1>3. SecretInv => SecretIsKept
  BY DEF SecretInv
<1> QED BY <1>1, <1>2, <1>3, DataInvariant, PTL DEF Spec
=============================================================================
