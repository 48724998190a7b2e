----------------------------- MODULE MCDiscovery -----------------------------
(***************************************************************************)
(* Discovery over the whole registry.  Two clients of the mainnet stack,   *)
(* one of the Sepolia stack and one consensus client may run or leave      *)
(* something behind.                                                       *)
(***************************************************************************)
EXTENDS Discovery, NodevinRegistry

MCHost == {"reth", "geth", "geth-testnet"}
MCClients == {None, "geth", "geth-testnet", "lighthouse"}
=============================================================================
