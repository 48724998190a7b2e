--------------------------- MODULE ArbitrumSnapshot ---------------------------
(***************************************************************************)
(* start arbitrum --snapshot (pkg/nodes/arbitrum/snapshot.go): before the  *)
(* node starts, a container of the same image downloads the latest snapshot*)
(* into a staging area that all chains share, extracts it into the chain's *)
(* data directory and quits.  Any of it can fail or be interrupted, and    *)
(* then what is there stays for the next start.                            *)
(*                                                                         *)
(* One terminal, whose Ctrl-C also stops the container.  Space is counted  *)
(* in units of which a snapshot has Size.                                  *)
(***************************************************************************)
EXTENDS Integers

CONSTANTS
    Chains,     \* the networks that have snapshots
    Size,       \* of a snapshot, whichever chain's, packed or unpacked
    Staging,    \* the volume of --snapshot-download-path
    DataDir,    \* the volume of the data directories
    MaxFree     \* bound: what can be free on a volume at first

VARIABLES
    free,       \* volume -> its free space (AvailableDiskSpace)
    archive,    \* chain -> how much of its snapshot is in the staging area
    extracted,  \* chain -> how much of one is in its data directory
    db,         \* chain -> its l2chaindata: none, partial (the directory
                \* is there, its extraction is not through) or whole
    pc,         \* what the command under way does next
    chain,      \* the network it starts
    snapshot    \* whether --snapshot was given

vars == <<free, archive, extracted, db, pc, chain, snapshot>>

Volumes == {Staging, DataDir}

(* What AvailableDiskSpace finds once n units on volume v are given back,  *)
(* or -n are taken.                                                        *)
Freeing(v, n) == [free EXCEPT ![v] = @ + n]

TypeOK ==
    /\ free \in [Volumes -> Nat]
    /\ archive \in [Chains -> 0..Size]
    /\ extracted \in [Chains -> 0..Size]
    /\ db \in [Chains -> {"none", "partial", "whole"}]
    /\ pc \in {"rest", "check", "resolve", "room", "init", "compose"}
    /\ chain \in Chains
    /\ snapshot \in BOOLEAN

Init ==
    /\ free \in [Volumes -> 0..MaxFree]
    /\ archive = [c \in Chains |-> 0]
    /\ extracted = [c \in Chains |-> 0]
    /\ db = [c \in Chains |-> "none"]
    /\ pc = "rest"
    /\ chain \in Chains
    /\ snapshot = FALSE

disk == <<free, archive, extracted, db>>
command == <<chain, snapshot>>

-----------------------------------------------------------------------------
Begin ==
    /\ pc = "rest"
    /\ chain' \in Chains
    /\ snapshot' \in BOOLEAN
    /\ pc' = "check"
    /\ UNCHANGED disk

(* Mutant: any trace of a database counts as none.                         *)
CheckNothing ==
    /\ pc = "check"
    /\ pc' = IF snapshot THEN "resolve" ELSE "compose"
    /\ UNCHANGED <<disk, command>>

(* Mutant: what any attempt left counts as a database.                     *)
CheckAnyAttempt ==
    /\ pc = "check"
    /\ pc' = IF snapshot /\ db[chain] = "none" /\ archive[chain] = 0
             THEN "resolve" ELSE "compose"
    /\ UNCHANGED <<disk, command>>

(* Without --snapshot, or with a database that is there already, the node  *)
(* is started at once.  Only the directory is looked for: one that an      *)
(* interrupted extraction left passes for a database.                      *)
Check ==
    /\ pc = "check"
    /\ pc' = IF snapshot /\ db[chain] = "none" THEN "resolve" ELSE "compose"
    /\ UNCHANGED <<disk, command>>

(* The L1 Nitro reads during init, the snapshot's metadata, the path.      *)
Resolve ==
    /\ pc = "resolve"
    /\ pc' \in {"room", "rest"}
    /\ UNCHANGED <<disk, command>>

(* Mutant: only the download path is looked at.                            *)
StagingFits == free[Staging] >= Size

(* requireFreeSpace, for each of the two paths on its own.                 *)
SnapshotFits == free[Staging] >= Size /\ free[DataDir] >= Size

(* What is in the data directory of c goes.                                *)
Wipe(c) ==
    /\ extracted' = [extracted EXCEPT ![c] = 0]
    /\ db' = [db EXCEPT ![c] = "none"]
    /\ free' = Freeing(DataDir, extracted[c])
    /\ UNCHANGED archive

(* The init container is started, if there is room.  It would take what it *)
(* finds in the data directory for the remains of another attempt, and may *)
(* begin anew.                                                             *)
RunInit ==
    /\ pc = "room"
    /\ IF SnapshotFits
       THEN /\ pc' = "init"
            /\ \/ UNCHANGED disk
               \/ Wipe(chain)
       ELSE pc' = "rest" /\ UNCHANGED disk
    /\ UNCHANGED command

-----------------------------------------------------------------------------
(* The init container                                                      *)

Download ==
    /\ pc = "init"
    /\ archive[chain] < Size /\ free[Staging] > 0
    /\ archive' = [archive EXCEPT ![chain] = @ + 1]
    /\ free' = Freeing(Staging, -1)
    /\ UNCHANGED <<extracted, db, pc, command>>

(* Mutant: it does not stop at the end of the archive.                     *)
ExtractTooMuch ==
    /\ pc = "init"
    /\ archive[chain] = Size /\ free[DataDir] > 0
    /\ extracted' = [extracted EXCEPT ![chain] = @ + 1]
    /\ free' = Freeing(DataDir, -1)
    /\ UNCHANGED <<archive, db, pc, command>>

(* The archive stays until the extraction is through.  The database's      *)
(* directory may be there from any part of it on.                          *)
Extract ==
    /\ pc = "init"
    /\ archive[chain] = Size
    /\ extracted[chain] < Size /\ free[DataDir] > 0
    /\ extracted' = [extracted EXCEPT ![chain] = @ + 1]
    /\ free' = Freeing(DataDir, -1)
    /\ IF extracted'[chain] = Size
       THEN db' = [db EXCEPT ![chain] = "whole"]
       ELSE db' \in {db, [db EXCEPT ![chain] = "partial"]}
    /\ UNCHANGED <<archive, pc, command>>

(* --init.then-quit; the staging area is cleared or not.                   *)
InitEnds ==
    /\ pc = "init"
    /\ db[chain] = "whole"
    /\ \/ UNCHANGED <<archive, free>>
       \/ /\ archive' = [archive EXCEPT ![chain] = 0]
          /\ free' = Freeing(Staging, archive[chain])
    /\ pc' = "compose"
    /\ UNCHANGED <<extracted, db, command>>

-----------------------------------------------------------------------------
(* The container fails or is interrupted, and so does the start.           *)
InitFails ==
    /\ pc = "init"
    /\ pc' = "rest"
    /\ UNCHANGED <<disk, command>>

(* The node itself is started: on what database there is, or from genesis. *)
Compose ==
    /\ pc = "compose"
    /\ \/ db' = db
       \/ db[chain] = "none" /\ db' = [db EXCEPT ![chain] = "whole"]
    /\ pc' = "rest"
    /\ UNCHANGED <<free, archive, extracted, command>>

(* delete arbitrum: the data directory goes, the staging area stays.       *)
Delete(c) ==
    /\ pc = "rest"
    /\ Wipe(c)
    /\ UNCHANGED <<pc, command>>

Next ==
    \/ Begin \/ Check \/ Resolve \/ RunInit
    \/ Download \/ Extract \/ InitEnds \/ InitFails
    \/ Compose \/ (\E c \in Chains : Delete(c))

Spec == Init /\ [][Next]_vars

ASSUME SnapshotAssumption ==
    /\ Size \in Nat \ {0}
    /\ MaxFree \in Nat

-----------------------------------------------------------------------------
(* "It will not start a multi-hundred-GB-to-multi-TB download that cannot  *)
(* finish." (docs/cli-commands.md:263): while the init container runs there*)
(* is room for what it has yet to download and extract, whatever earlier   *)
(* attempts and other chains have left there.                              *)
ToDownload == Size - archive[chain]
ToExtract == Size - extracted[chain]

CanFinish ==
    pc = "init" =>
        \A v \in Volumes :
            (IF v = Staging THEN ToDownload ELSE 0) + (IF v = DataDir THEN ToExtract ELSE 0)
            <= free[v]

(* "never re-initialises": "a no-op, never a wipe" (docs/cli-commands.md:  *)
(* 261): no start, nor what it leaves behind, takes away a database.       *)
NeverReinitialised ==
    [][pc # "rest" => \A c \in Chains : db[c] # "none" => db'[c] # "none"]_vars

(* A failed attempt must not pass for "already initialised" (snapshot.go:  *)
(* 65-72): however often downloads fail and are interrupted, a start with  *)
(* --snapshot goes on to the node without a whole database only over the   *)
(* directory of an extraction that had begun - the one attempt the check   *)
(* cannot tell from a finished one.                                        *)
DownloadsAreRepeated ==
    [][pc = "compose" /\ snapshot /\ db[chain] # "whole"
       => db[chain] = "partial" /\ extracted[chain] \in 1..(Size - 1)]_vars
=============================================================================
