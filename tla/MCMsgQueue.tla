---------------------------- MODULE MCMsgQueue ----------------------------
(* Bounded instance of MsgQueue: two messages that fit and one that is     *)
(* longer than the item and is cut.                                        *)
EXTENDS MsgQueue

MCPayloads == {<<"a">>, <<"b", "c">>, <<"b", "c", "d">>}
=============================================================================
