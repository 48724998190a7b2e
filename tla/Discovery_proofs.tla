--------------------------- MODULE Discovery_proofs ---------------------------
(***************************************************************************)
(* Proofs about Discovery, for any registry: its results do not depend on  *)
(* what the host shows, only on what the registry promises.                *)
(***************************************************************************)
EXTENDS Discovery, FiniteSetTheorems, TLAPS

LEMMA TheOneOfSingleton == ASSUME NEW x PROVE TheOne({x}) = x
  BY DEF TheOne

LEMMA TheOneIsOne == ASSUME NEW S, S # {} PROVE TheOne(S) \in S
  BY DEF TheOne

LEMMA EffectiveIsNetwork ==
  ASSUME NEW n \in Networks, NEW t \in BOOLEAN
  PROVE  EffectiveNetwork(n, t) \in Networks
  BY RegistryAssumption DEF EffectiveNetwork

LEMMA CandidatesAreNames ==
  ASSUME NEW n \in Networks
  PROVE  /\ CandidateContainerNames(n) \subseteq Names
         /\ ContainerName[n] \in CandidateContainerNames(n)
         /\ ~Selectable(n) => CandidateContainerNames(n) = {ContainerName[n]}
  BY RegistryAssumption DEF CandidateContainerNames, Selectable

(* The environment stays within its types.                                 *)
THEOREM TypeCorrect == Spec => []TypeOK
<1>1. Init => TypeOK
  BY DiscoveryAssumption DEF Init, TypeOK
<1>2. TypeOK /\ [Next]_vars => TypeOK'
  <2> SUFFICES ASSUME TypeOK, [Next]_vars PROVE TypeOK'
    OBVIOUS
  <2>1. CASE ContainerChanges
    BY <2>1 DEF TypeOK, ContainerChanges
  <2>2. CASE DiskChanges
    BY <2>2 DEF TypeOK, DiskChanges
  <2>3. CASE NextCommand
    BY <2>3 DEF TypeOK, NextCommand
  <2>4. CASE UNCHANGED vars
    BY <2>4 DEF TypeOK, vars
  <2> QED BY <2>1, <2>2, <2>3, <2>4 DEF Next
<1> QED BY <1>1, <1>2, PTL DEF Spec

(* The client whose data `delete` removes is the one `stop` stops for it.  *)
THEOREM DeleteAgreesWithStop == Spec => []DeleteStopsWhatItDeletes
<1>1. DeleteStopsWhatItDeletes
  <2> SUFFICES ASSUME NEW n \in Networks, Deleted(n).kind = "found"
               PROVE  Resolved(n) = Deleted(n)
    BY DEF DeleteStopsWhatItDeletes
  <2> DEFINE m == EffectiveNetwork(n, flags.testnet)
             E == ExplicitClient(m, flags)
  <2>1. CASE ~Selectable(m)
    BY <2>1 DEF Resolved, Deleted, ResolveContainerName, ExplicitContainerName
  <2>2. CASE Selectable(m)
    <3>1. E # {}
      BY <2>2 DEF Deleted, ExplicitContainerName, Refused
    <3>2. flags.client # None
      BY <3>1 DEF ExplicitClient
    <3> QED
      BY <2>2, <3>1, <3>2 DEF Resolved, Deleted, ResolveContainerName, ExplicitContainerName
  <2> QED BY <2>1, <2>2
<1> QED BY <1>1, PTL

(* A set of candidates is {x} if its size is one.                          *)
LEMMA OnlyCandidate ==
  ASSUME NEW n \in Networks, NEW S \in SUBSET CandidateContainerNames(n)
  PROVE  Cardinality(S) = 1 <=> S = {TheOne(S)}
<1>1. IsFiniteSet(S)
  BY CandidatesAreNames, RegistryAssumption, FS_Subset
<1>2. Cardinality(S) = 1 <=> \E x : S = {x}
  BY <1>1, FS_Singleton
<1>3. \A x : S = {x} => S = {TheOne(S)}
  BY TheOneOfSingleton
<1> QED BY <1>2, <1>3

(* A running client is never passed over for what is on disk.              *)
THEOREM RunningWins == Spec => []RunningClientIsFound
<1>1. TypeOK => RunningClientIsFound
  <2> SUFFICES ASSUME TypeOK, NEW n \in Networks,
                      psOk, flags.client = None, Selectable(n),
                      CandidateContainerNames(EffectiveNetwork(n, flags.testnet)) \cap running # {}
               PROVE  LET up == CandidateContainerNames(EffectiveNetwork(n, flags.testnet))
                                   \cap running
                      IN  /\ Resolved(n) \in {Found(c) : c \in up} \cup {AmbiguousRunning(up)}
                          /\ Resolved(n).kind = "found" => up = Resolved(n).names
    BY DEF RunningClientIsFound
  <2> DEFINE m == EffectiveNetwork(n, flags.testnet)
             up == CandidateContainerNames(m) \cap running
  <2>1. m \in Networks
    BY EffectiveIsNetwork DEF TypeOK
  <2>2. Ps.ok /\ RunningCandidates(m, Ps) = up
    BY DEF Ps, RunningCandidates
  <2>3. Cardinality(up) = 1 <=> up = {TheOne(up)}
    BY <2>1, OnlyCandidate
  <2>4. CASE ~Selectable(m)
    <3>1. up = {ContainerName[m]}
      BY <2>1, <2>4, CandidatesAreNames
    <3>2. Resolved(n) = Found(ContainerName[m])
      BY <2>4 DEF Resolved, ResolveContainerName
    <3> QED BY <3>1, <3>2 DEF Found
  <2>5. CASE Selectable(m) /\ up = {TheOne(up)}
    <3>1. Resolved(n) = Found(TheOne(up))
      BY <2>2, <2>3, <2>5 DEF Resolved, ResolveContainerName
    <3>2. TheOne(up) \in up /\ Found(TheOne(up)).names = up
      BY <2>5 DEF Found
    <3> QED BY <3>1, <3>2
  <2>6. CASE Selectable(m) /\ up # {TheOne(up)}
    <3>1. Resolved(n) = AmbiguousRunning(up)
      BY <2>2, <2>3, <2>6 DEF Resolved, ResolveContainerName
    <3> QED BY <3>1 DEF AmbiguousRunning
  <2> QED BY <2>4, <2>5, <2>6
<1> QED BY <1>1, TypeCorrect, PTL

(* A component is managed by the file of the client of its stack that runs.*)
THEOREM ComponentsFollow == Spec => []ComponentsFollowTheRunningClient
<1>1. ComponentsFollowTheRunningClient
  <2> SUFFICES ASSUME NEW n \in Networks, InStack(n),
                      NEW c \in CandidateContainerNames(PartOf[n]),
                      psOk, ~flags.testnet, flags.client = None,
                      CandidateContainerNames(PartOf[n]) \cap running = {c},
                      c \in filed, ContainerName[n] \notin filed
               PROVE  FindComposeFileForContainer(ContainerName[n], flags, Ps, Disk, filed) = c
    BY DEF ComponentsFollowTheRunningClient
  <2> DEFINE m == PartOf[n]
             owners == {PartOf[k] : k \in {x \in Networks : ContainerName[x] = ContainerName[n]
                                                             /\ InStack(x)}}
  <2>1. m \in Networks /\ owners = {m}
    BY RegistryAssumption DEF InStack
  <2>2. TheOne(owners) = m /\ TheOne({c}) = c
    BY <2>1, TheOneOfSingleton
  <2>3. EffectiveNetwork(m, flags.testnet) = m
    BY DEF EffectiveNetwork
  <2>4. Ps.ok /\ RunningCandidates(m, Ps) = {c} /\ Cardinality({c}) = 1
    BY FS_Singleton DEF Ps, RunningCandidates
  <2>5. ResolveContainerName(m, flags, Ps, Disk) = Found(c)
    <3>1. CASE Selectable(m)
      BY <2>2, <2>3, <2>4, <3>1 DEF ResolveContainerName
    <3>2. CASE ~Selectable(m)
      BY <2>1, <2>3, <3>2, CandidatesAreNames DEF ResolveContainerName
    <3> QED BY <3>1, <3>2
  <2> QED
    BY <2>1, <2>2, <2>5 DEF FindComposeFileForContainer, Found
<1> QED BY <1>1, PTL
=============================================================================
