------------------------ MODULE ArbitrumSnapshot_proofs ------------------------
(***************************************************************************)
(* Proofs about ArbitrumSnapshot, for any chains, volumes and sizes and any*)
(* number of starts, failures and deletions.                               *)
(***************************************************************************)
EXTENDS ArbitrumSnapshot, TLAPS

(* A start is past its check only with no database there, and at the node's*)
(* own start only with one, if it was to have one; one that is not whole   *)
(* has a part of its extraction.                                           *)
Phases ==
    /\ db \in [Chains -> {"none", "partial", "whole"}]
    /\ extracted \in [Chains -> 0..Size]
    /\ \A c \in Chains : db[c] = "partial" => extracted[c] \in 1..(Size - 1)
    /\ chain \in Chains
    /\ pc \in {"rest", "check", "resolve", "room", "init", "compose"}
    /\ pc \in {"resolve", "room"} => snapshot /\ db[chain] = "none"
    /\ pc = "init" => snapshot
    /\ pc = "compose" /\ snapshot => db[chain] # "none"

LEMMA PhasesInit == Init => Phases
  BY SnapshotAssumption DEF SnapshotAssumption, Init, Phases

LEMMA PhasesNext == Phases /\ [Next]_vars => Phases'
<1> SUFFICES ASSUME Phases, [Next]_vars PROVE Phases'
  OBVIOUS
<1> USE SnapshotAssumption DEF SnapshotAssumption, Phases, disk, command
<1>1. CASE Begin
  BY <1>1 DEF Begin
<1>2. CASE Check
  BY <1>2 DEF Check
<1>3. CASE Resolve
  BY <1>3 DEF Resolve
<1>4. CASE RunInit
  BY <1>4 DEF RunInit, Wipe
<1>5. CASE Download
  BY <1>5 DEF Download
<1>5a. CASE Extract
  BY <1>5a DEF Extract
<1>6. CASE InitEnds \/ InitFails
  BY <1>6 DEF InitEnds, InitFails
<1>7. CASE Compose
  BY <1>7 DEF Compose
<1>8. ASSUME NEW c \in Chains, Delete(c)
      PROVE  Phases'
  BY <1>8 DEF Delete, Wipe
<1>9. CASE UNCHANGED vars
  BY <1>9 DEF vars
<1> QED BY <1>1, <1>2, <1>3, <1>4, <1>5, <1>5a, <1>6, <1>7, <1>8, <1>9 DEF Next

(* What a start knows of the database at each of its steps.                *)
THEOREM PhasesHold == Spec => []Phases
  BY PhasesInit, PhasesNext, PTL DEF Spec

(* However often starts fail and are interrupted, with and without         *)
(* --snapshot, no database is taken away by one (snapshot.go:107-112).     *)
THEOREM DatabasesStay == Spec => NeverReinitialised
<1>1. ASSUME Phases, [Next]_vars, pc # "rest", NEW c \in Chains, db[c] # "none"
      PROVE  db'[c] # "none"
  <2> USE DEF Phases, disk, command
  <2>1. CASE Check \/ Resolve \/ Download \/ InitEnds \/ InitFails \/ UNCHANGED vars
    BY <1>1, <2>1 DEF Check, Resolve, Download, InitEnds, InitFails, vars
  <2>2. CASE RunInit
    BY <1>1, <2>2 DEF RunInit, Wipe
  <2>3. CASE Extract \/ Compose
    BY <1>1, <2>3 DEF Extract, Compose
  <2> QED BY <1>1, <2>1, <2>2, <2>3 DEF Next, Begin, Delete
<1>2. Phases /\ [Next]_vars
      => [pc # "rest" => \A c \in Chains : db[c] # "none" => db'[c] # "none"]_vars
  BY <1>1
<1> QED BY <1>2, PhasesHold, PTL DEF Spec, NeverReinitialised

(* After any number of failed and interrupted attempts a start with        *)
(* --snapshot passes over the init only where there is a database or the   *)
(* directory of an extraction that had begun (snapshot.go:65-75).          *)
THEOREM DownloadsRepeated == Spec => DownloadsAreRepeated
<1>1. Phases /\ [Next]_vars
      => [pc = "compose" /\ snapshot /\ db[chain] # "whole"
          => db[chain] = "partial" /\ extracted[chain] \in 1..(Size - 1)]_vars
  BY DEF Phases
<1> QED BY <1>1, PhasesHold, PTL DEF Spec, DownloadsAreRepeated

-----------------------------------------------------------------------------
(* Disk space                                                              *)

LEMMA TypeInit == Init => TypeOK
<1> SUFFICES ASSUME Init PROVE TypeOK
  OBVIOUS
<1> USE SnapshotAssumption DEF SnapshotAssumption
<1>1. 0..MaxFree \subseteq Nat /\ 0 \in 0..Size
  OBVIOUS
<1>2. free \in [Volumes -> Nat]
  BY <1>1 DEF Init
<1> QED BY <1>1, <1>2 DEF Init, TypeOK

LEMMA WipeKeeps ==
  ASSUME TypeOK, NEW c \in Chains, Wipe(c)
  PROVE  /\ free' \in [Volumes -> Nat]
         /\ \A v \in Volumes : free'[v] >= free[v]
         /\ extracted' \in [Chains -> 0..Size]
         /\ db' \in [Chains -> {"none", "partial", "whole"}]
  BY SnapshotAssumption DEF SnapshotAssumption, TypeOK, Wipe, Freeing, Volumes

LEMMA TypeNext == TypeOK /\ [Next]_vars => TypeOK'
<1> SUFFICES ASSUME TypeOK, [Next]_vars PROVE TypeOK'
  OBVIOUS
<1> USE SnapshotAssumption DEF SnapshotAssumption, TypeOK, disk, command, Volumes
<1>1. CASE Begin \/ Check \/ Resolve \/ InitFails \/ UNCHANGED vars
  BY <1>1 DEF Begin, Check, Resolve, InitFails, vars
<1>2. CASE RunInit
  BY <1>2, WipeKeeps DEF RunInit, Wipe
<1>3. CASE Download
  BY <1>3 DEF Download, Freeing
<1>4. CASE Extract
  BY <1>4 DEF Extract, Freeing
<1>5. CASE InitEnds
  BY <1>5 DEF InitEnds, Freeing
<1>6. CASE Compose
  BY <1>6 DEF Compose
<1>7. ASSUME NEW c \in Chains, Delete(c)
      PROVE  TypeOK'
  BY <1>7, WipeKeeps DEF Delete, Wipe
<1> QED BY <1>1, <1>2, <1>3, <1>4, <1>5, <1>6, <1>7 DEF Next

(* No more is written to a volume than it has room for, and no archive or  *)
(* extraction grows past its snapshot.                                     *)
THEOREM TypeCorrect == Spec => []TypeOK
  BY TypeInit, TypeNext, PTL DEF Spec

(* With the two paths on volumes of their own the two checks together are  *)
(* enough: what is downloaded does not take what the extraction needs.     *)
LEMMA RoomNext ==
  ASSUME Staging # DataDir, TypeOK, CanFinish, [Next]_vars
  PROVE  CanFinish'
<1> USE SnapshotAssumption DEF SnapshotAssumption, TypeOK, disk, command, Volumes,
        CanFinish, ToDownload, ToExtract
<1>1. CASE Begin \/ Check \/ Resolve \/ InitFails \/ InitEnds \/ Compose
  BY <1>1 DEF Begin, Check, Resolve, InitFails, InitEnds, Compose
<1>2. CASE RunInit
  <2>1. pc' = "init" => free'[Staging] >= Size /\ free'[DataDir] >= Size
    BY <1>2, WipeKeeps DEF RunInit, SnapshotFits
  <2>2. archive'[chain'] \in 0..Size /\ extracted'[chain'] \in 0..Size
    BY <1>2, WipeKeeps DEF RunInit, Wipe
  <2>3. free' \in [Volumes -> Nat]
    BY <1>2, WipeKeeps DEF RunInit
  <2> QED BY <2>1, <2>2, <2>3
<1>3. CASE Download
  BY <1>3 DEF Download, Freeing
<1>4. CASE Extract
  BY <1>4 DEF Extract, Freeing
<1>5. ASSUME NEW c \in Chains, Delete(c)
      PROVE  CanFinish'
  BY <1>5 DEF Delete
<1>6. CASE UNCHANGED vars
  BY <1>6 DEF vars
<1> QED BY <1>1, <1>2, <1>3, <1>4, <1>5, <1>6 DEF Next

(* "It will not start a ... download that cannot finish."                  *)
(* (docs/cli-commands.md:263): while an init container runs there is room  *)
(* for all it has yet to write, if --snapshot-download-path is on a volume *)
(* of its own.                                                             *)
THEOREM InitsCanFinish == Staging # DataDir /\ Spec => []CanFinish
<1>1. Init => CanFinish
  BY DEF Init, CanFinish
<1> SUFFICES ASSUME Staging # DataDir PROVE Spec => []CanFinish
  OBVIOUS
<1>2. TypeOK /\ CanFinish /\ [Next]_vars => CanFinish'
  BY RoomNext
<1> QED BY <1>1, <1>2, TypeCorrect, PTL DEF Spec
=============================================================================
