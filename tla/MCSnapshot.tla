------------------------------ MODULE MCSnapshot ------------------------------
(***************************************************************************)
(* ArbitrumSnapshot with both chains, on volumes that have room for up to  *)
(* two snapshots and a unit more.                                          *)
(***************************************************************************)
EXTENDS ArbitrumSnapshot

MCMaxFree == 2 * Size + 1
=============================================================================
