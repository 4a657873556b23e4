----------------------------- MODULE MCTipcDev -----------------------------
(* TipcDev for TLC: the addresses of the normal world are interchangeable. *)
EXTENDS TipcDev, TLC

RemoteSymmetry == Permutations(Remotes)
=============================================================================
