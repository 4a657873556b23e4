------------------------------- MODULE Fifo -------------------------------
(***************************************************************************)
(* What one direction of a Trusty IPC channel promises its two users: the  *)
(* messages that send_msg accepted come out of get_msg in the order they   *)
(* went in, each one once, and a message that was taken out keeps its      *)
(* content until put_msg retires it.  Nothing is said about capacity.      *)
(***************************************************************************)
EXTENDS Naturals, Sequences

CONSTANTS Contents,   \* what a stored message may be
          Ids         \* the ids get_msg hands out

VARIABLES queue,      \* accepted and not yet taken out, oldest first
          held        \* taken out and not yet retired: id |-> content

vars == <<queue, held>>

Init == /\ queue = << >>
        /\ held = << >>

(* send_msg accepted a message. *)
Send == \E m \in Contents : /\ queue' = Append(queue, m)
                            /\ held' = held

(* get_msg hands out the oldest message under an id not in use. *)
Get == /\ queue # << >>
       /\ \E id \in Ids \ DOMAIN held :
            held' = [i \in DOMAIN held \cup {id} |->
                       IF i = id THEN Head(queue) ELSE held[i]]
       /\ queue' = Tail(queue)

(* put_msg retires a message that was handed out. *)
Put == /\ \E id \in DOMAIN held :
            held' = [i \in DOMAIN held \ {id} |-> held[i]]
       /\ queue' = queue

Next == Send \/ Get \/ Put

Spec == Init /\ [][Next]_vars
=============================================================================
