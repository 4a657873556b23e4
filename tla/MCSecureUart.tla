---------------------------- MODULE MCSecureUart ----------------------------
(* Bounded instance of SecureUart: the heap after a one-byte allocation    *)
(* starts with a NUL or with one other byte.                               *)
EXTENDS SecureUart

MCHeapTails == {<< >>, <<"z">>}
=============================================================================
