------------------------------ MODULE DataStore ------------------------------
(***************************************************************************)
(* What nodevin promises about the data directories, whatever commands     *)
(* fail or are interrupted: a node runs on a directory that exists, and    *)
(* only a directory on which no node runs is ever removed.                 *)
(***************************************************************************)
CONSTANT Directories

VARIABLES
    data,   \* the directories that exist
    used    \* those on which a node runs

store == <<data, used>>

Init == data = {} /\ used = {}

(* A command prepares directories for nodes to come.                       *)
Prepare ==
    /\ data \subseteq data' /\ data' \subseteq Directories
    /\ UNCHANGED used

(* A node starts to run on d; Docker makes what directories it misses.     *)
Open(d) ==
    /\ used' = used \cup {d}
    /\ data \cup {d} \subseteq data' /\ data' \subseteq Directories

(* Nodes stop to run, in any number.                                       *)
Close == used' \subseteq used /\ UNCHANGED data

(* Data goes, all that is not in use or part of it.                        *)
Remove ==
    /\ data' \subseteq data /\ (data \ data') \cap used = {}
    /\ UNCHANGED used

Next == Prepare \/ (\E d \in Directories : Open(d)) \/ Close \/ Remove

Spec == Init /\ [][Next]_store

-----------------------------------------------------------------------------
TypeOK == data \in SUBSET Directories /\ used \in SUBSET Directories

(* A node that runs has its data.                                          *)
UsedDataExists == used \subseteq data
=============================================================================
