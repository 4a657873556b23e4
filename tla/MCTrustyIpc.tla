---------------------------- MODULE MCTrustyIpc ----------------------------
(* Bounded instances of TrustyIpc. *)
EXTENDS TrustyIpc, TLC

(* The flags of uart.secure.service, and of ports only one world may use. *)
OpenFlags == {{"TA", "NS"}}
AnyFlags == {{"TA", "NS"}, {"NS"}}

Symm == Permutations(Chans) \cup Permutations(Ports) \cup Permutations(Apps)
=============================================================================
