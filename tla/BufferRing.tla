----------------------------- MODULE BufferRing -----------------------------
(***************************************************************************)
(* What a virtqueue promises: the driver's buffers reach the device in the *)
(* order in which they were made available, and come back in the order in  *)
(* which the device returned them, each of them once.                      *)
(***************************************************************************)
EXTENDS Sequences

CONSTANTS Heads, Threads, None

VARIABLES free, avail, buf, used

vars == <<free, avail, buf, used>>

Init == /\ free = Heads /\ avail = <<>> /\ used = <<>>
        /\ buf = [t \in Threads |-> None]

Publish(h) == /\ h \in free
              /\ free' = free \ {h} /\ avail' = Append(avail, h)
              /\ UNCHANGED <<buf, used>>

Take(t) == /\ buf[t] = None /\ avail # <<>>
           /\ buf' = [buf EXCEPT ![t] = Head(avail)] /\ avail' = Tail(avail)
           /\ UNCHANGED <<free, used>>

Return(t) == /\ buf[t] # None
             /\ used' = Append(used, buf[t]) /\ buf' = [buf EXCEPT ![t] = None]
             /\ UNCHANGED <<free, avail>>

Collect == /\ used # <<>>
           /\ free' = free \cup {Head(used)} /\ used' = Tail(used)
           /\ UNCHANGED <<avail, buf>>

(* The ring is taken away when no thread holds a buffer. *)
Reset == /\ \A t \in Threads : buf[t] = None
         /\ free' = Heads /\ avail' = <<>> /\ used' = <<>>
         /\ UNCHANGED buf

Next == \/ \E h \in Heads : Publish(h)
        \/ \E t \in Threads : Take(t) \/ Return(t)
        \/ Collect \/ Reset

Spec == Init /\ [][Next]_vars
=============================================================================
