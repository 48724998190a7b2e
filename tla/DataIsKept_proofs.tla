--------------------------- MODULE DataIsKept_proofs ---------------------------
(***************************************************************************)
(* NodeLifecycle implements DataStore while commands are given one after   *)
(* the other.                                                              *)
(***************************************************************************)
EXTENDS NodeLifecycle_proofs

Used == {def[s].own : s \in Running} \ {None}

DataInv == DeleteInv /\ NothingMissed

LEMMA DataInvariant ==
  ASSUME PsAnswersAlways, NoCustomNames, OneProcess
  PROVE  Spec => []DataInv
<1>1. Init => NothingMissed
  BY DEF Init, NothingMissed
<1>2. DeleteInv /\ NothingMissed /\ [Next]_vars => NothingMissed'
  BY MissedNext DEF DeleteInv
<1> QED BY <1>1, <1>2, DeleteInvariant, PTL DEF Spec, DataInv

(* Where nothing is started, what is used only shrinks.                    *)
LEMMA UsedShrinks ==
  ASSUME \A s \in Running' : s \in Running /\ def'[s] = def[s], UNCHANGED dirs
  PROVE  Store!Close
  BY DEF Store!Close, Running

LEMMA MapsUp ==
  ASSUME DataInv, NEW p \in Procs, UpCreate(p) \/ UpStart(p)
  PROVE  Store!Next
<1>1. CASE UpCreate(p)
  <2> DEFINE F == files[ComposeFile(p)]
             fresh(T) == {d \in T : ~Exists(d.svc) \/ def[d.svc] # d \/ d.svc \in old}
             new(T) == {d.svc : d \in fresh(T)}
  <2>1. PICK T \in SUBSET F :
          /\ def' = [s \in Services |->
                       IF s \in new(T) THEN TheOne({d \in fresh(T) : d.svc = s}) ELSE def[s]]
          /\ status' = [s \in Services |->
                          IF s \in {d.svc : d \in T} /\ (s \in new(T) \/ status[s] = "exited")
                          THEN "created" ELSE status[s]]
    BY <1>1 DEF UpCreate
  <2>2. ASSUME NEW s \in Running' PROVE s \in Running /\ def'[s] = def[s]
    <3>1. s \in Services /\ status'[s] = "running"
      BY DEF Running
    <3>2. s \notin new(T) /\ status[s] = "running"
      BY <2>1, <3>1
    <3> QED BY <2>1, <3>1, <3>2 DEF Running
  <2>3. UNCHANGED dirs
    BY <1>1 DEF UpCreate
  <2> QED BY <2>2, <2>3, UsedShrinks DEF Store!Next
<1>2. CASE UpStart(p)
  <2>1. PICK s \in ids[p] \ stale[p] :
          /\ status' = [status EXCEPT ![s] = "running"]
          /\ dirs' = dirs \cup def[s].mounts
    BY <1>2 DEF UpStart
  <2>2. s \in Services /\ def[s] \in Definitions /\ Telling(def[s])
    BY DEF DataInv, DeleteInv, TypeInv, TypeOK, DefsTelling
  <2>3. Running' = Running \cup {s} /\ def' = def
    BY <1>2, <2>1, <2>2 DEF UpStart, Running, DataInv, DeleteInv, TypeInv, TypeOK
  <2>4. Used' = Used \cup ({def[s].own} \ {None})
    BY <2>3 DEF Used
  <2>5. dirs \subseteq dirs' /\ dirs' \subseteq Dirs
    BY <2>1, <2>2, DefinitionFields DEF DataInv, DeleteInv, TypeInv, TypeOK
  <2>6. CASE def[s].own = None
    BY <2>4, <2>5, <2>6 DEF Used, Store!Next, Store!Prepare
  <2>7. CASE def[s].own # None
    <3>1. def[s].own \in Dirs /\ def[s].own \in dirs'
      BY <2>1, <2>2, <2>7, DefinitionFields DEF Telling
    <3>2. PICK d \in Dirs : d = def[s].own
      BY <3>1
    <3>3. Store!Open(d)
      BY <2>4, <2>5, <2>7, <3>1, <3>2 DEF Used, Store!Open
    <3> QED BY <3>3 DEF Store!Next
  <2> QED BY <2>6, <2>7
<1> QED BY <1>1, <1>2

LEMMA MapsStep ==
  ASSUME DataInv, [Next]_vars
  PROVE  [Store!Next]_(Store!store)
<1>1. CASE UNCHANGED <<dirs, def, status>>
  BY <1>1 DEF Store!store, Running
<1>2. ASSUME NEW p \in Procs, UpCreate(p) \/ UpStart(p)
      PROVE  Store!Next
  BY <1>2, MapsUp
<1>3. ASSUME NEW p \in Procs, WritePlain(p) \/ Write(p)
      PROVE  Store!Next
  <2>1. dirs \subseteq dirs' /\ UNCHANGED <<def, status>>
    BY <1>3 DEF WritePlain, Write, WriteFile, WriteFails
  <2>2. dirs' \subseteq Dirs
    BY TypeNext DEF DataInv, DeleteInv, TypeInv, TypeOK
  <2> QED BY <2>1, <2>2 DEF Running, Store!Next, Store!Prepare
<1>4. ASSUME NEW p \in Procs, StopDown(p) \/ StopAllStop(p) \/ StopAllRemove(p)
      PROVE  Store!Next
  <2>1. UNCHANGED <<dirs, def>> /\ \A s \in Running' : s \in Running
    BY <1>4 DEF StopDown, StopAllStop, StopAllRemove, AfterStop, Running
  <2> QED BY <2>1, UsedShrinks DEF Store!Next
<1>5. ASSUME NEW p \in Procs, Remove(p)
      PROVE  Store!Next
  <2>1. UNCHANGED <<def, status>> /\ dirs' \subseteq dirs
    BY <1>5 DEF Remove
  <2>2. \A d \in dirs \ dirs' : \A s \in Running : def[s].own # d
    BY DeleteSafeStep DEF DataInv, NothingMissed, Uses
  <2> QED BY <2>1, <2>2 DEF Running, Store!Next, Store!Remove
<1>6. CASE ContainerExits
  <2>1. UNCHANGED <<dirs, def>> /\ \A s \in Running' : s \in Running
    BY <1>6 DEF ContainerExits, Running, DataInv, DeleteInv, TypeInv, TypeOK
  <2> QED BY <2>1, UsedShrinks DEF Store!Next
<1>7. ASSUME NEW p \in Procs, Begin(p) \/ Kill(p) \/ Pull(p) \/ Create(p) \/ Mint(p)
                \/ PullExtra(p) \/ UpReturns(p) \/ Cleanup(p) \/ StopResolve(p) \/ StopPs(p)
                \/ StopAllList(p) \/ DeleteTarget(p) \/ Guard(p)
                \/ UpdateList(p) \/ UpdateNext(p) \/ UpdatePull(p)
      PROVE  UNCHANGED <<dirs, def, status>>
  BY <1>7 DEF Begin, Kill, Pull, Create, Mint, PullExtra, UpReturns, Cleanup, StopResolve,
              StopPs, StopAllList, DeleteTarget, Guard, UpdateList, UpdateNext, UpdatePull, host
<1>8. CASE Publish \/ UNCHANGED vars
  BY <1>1, <1>8 DEF Publish, vars
<1> QED BY <1>1, <1>2, <1>3, <1>4, <1>5, <1>6, <1>7, <1>8 DEF Next, Step

(* One command after the other, whatever fails, exits or is interrupted    *)
(* keeps the promise of DataStore: compose up opens directories that it    *)
(* makes, the stops close them, and the removal only takes closed ones     *)
(* (compose.go:299-309, delete.go:92-141).                                 *)
THEOREM ImplementsDataStore ==
  ASSUME PsAnswersAlways, NoCustomNames, OneProcess
  PROVE  Spec => DataIsKept
<1>1. Init => Store!Init
  BY DEF Init, Store!Init, Running
<1> QED BY <1>1, MapsStep, DataInvariant, PTL DEF Spec, DataIsKept, Store!Spec

(* So a node that runs has its data directory, through every crash, failure*)
(* and deletion that commands given one after the other meet.              *)
THEOREM RunningNodesHaveData ==
  ASSUME PsAnswersAlways, NoCustomNames, OneProcess
  PROVE  Spec => [](Used \subseteq dirs)
<1>1. Store!Init => Store!TypeOK /\ Store!UsedDataExists
  BY DEF Store!Init, Store!TypeOK, Store!UsedDataExists
<1>2. Store!TypeOK /\ Store!UsedDataExists /\ [Store!Next]_(Store!store)
      => Store!TypeOK' /\ Store!UsedDataExists'
  BY DEF Store!TypeOK, Store!UsedDataExists, Store!Next, Store!Prepare, Store!Open, Store!Close,
         Store!Remove, Store!store
<1>3. Store!UsedDataExists <=> Used \subseteq dirs
  BY DEF Store!UsedDataExists, Used
<1> QED BY <1>1, <1>2, <1>3, ImplementsDataStore, PTL DEF DataIsKept, Store!Spec
=============================================================================
