----------------------------- MODULE MsgQueue -----------------------------
(***************************************************************************)
(* The message queue of one channel (ipc_msg.c): a fixed set of items that *)
(* move between free_list, filled_list and read_list, the sender that      *)
(* writes into it and the receiver that owns it.  Everything under         *)
(* ipc_lock is one action.  read_list is a set: the code deletes from it   *)
(* by item and never looks at its order.                                   *)
(***************************************************************************)
EXTENDS Naturals, Sequences

CONSTANTS NumItems,   \* num_recv_bufs of the port
          ItemSize,   \* recv_buf_size of the port
          Payloads    \* what senders try to send: sequences of bytes

ASSUME NumItemsAssumption == NumItems \in Nat \ {0}
ASSUME ItemSizeAssumption == ItemSize \in Nat

VARIABLES free_list,      \* sequence of item ids
          filled_list,    \* sequence of item ids, oldest message first
          read_list,      \* set of item ids
          state,          \* item id |-> "FREE", "FILLED" or "READ"
          buf,            \* item id |-> content of its buffer
          connected,      \* both channel ends are in state CONNECTED
          send_blocked,   \* IPC_CHAN_AUX_STATE_SEND_BLOCKED of the sender
          send_unblocked, \* IPC_CHAN_AUX_STATE_SEND_UNBLOCKED of the sender
          waiting         \* the sender waits for POLL_SEND_UNBLOCKED or HUP

qvars == <<free_list, filled_list, read_list, state, buf>>
vars == <<free_list, filled_list, read_list, state, buf, connected,
          send_blocked, send_unblocked, waiting>>

Items == 0 .. NumItems - 1
ItemStates == {"FREE", "FILLED", "READ"}

(* What the iovec copy leaves in an item's buffer: the part that fits. *)
Stored(m) == SubSeq(m, 1, IF Len(m) > ItemSize THEN ItemSize ELSE Len(m))
Contents == {Stored(m) : m \in Payloads} \cup {<< >>}

Init == /\ free_list = [k \in 1 .. NumItems |-> k - 1]
        /\ filled_list = << >>
        /\ read_list = {}
        /\ state = [i \in Items |-> "FREE"]
        /\ buf = [i \in Items |-> << >>]
        /\ connected = TRUE
        /\ send_blocked = FALSE
        /\ send_unblocked = FALSE
        /\ waiting = FALSE

-----------------------------------------------------------------------------
(* The sender: ipc_send_msg, sys_send_msg *)

(* Mistake: a new message is put before the ones that wait. *)
SendMsgAtHead(m) ==
  /\ connected /\ ~waiting
  /\ free_list # << >>
  /\ LET item == Head(free_list) IN
       /\ buf' = [buf EXCEPT ![item] = Stored(m)]
       /\ state' = [state EXCEPT ![item] = "FILLED"]
       /\ free_list' = Tail(free_list)
       /\ filled_list' = <<item>> \o filled_list
  /\ UNCHANGED <<read_list, connected, send_blocked, send_unblocked, waiting>>

(* msg_write_locked finds a free item and the copy succeeds. *)
SendMsg(m) ==
  /\ connected /\ ~waiting
  /\ free_list # << >>
  /\ LET item == Head(free_list) IN
       /\ buf' = [buf EXCEPT ![item] = Stored(m)]
       /\ state' = [state EXCEPT ![item] = "FILLED"]
       /\ free_list' = Tail(free_list)
       /\ filled_list' = Append(filled_list, item)
  /\ UNCHANGED <<read_list, connected, send_blocked, send_unblocked, waiting>>

(* Mistake: the item is unlinked before the copy and not put back. *)
SendFaultLosesItem(m) ==
  /\ connected /\ ~waiting
  /\ free_list # << >>
  /\ free_list' = Tail(free_list)
  /\ UNCHANGED <<filled_list, read_list, state, buf, connected,
                 send_blocked, send_unblocked, waiting>>

(* The copy into the buffer fails half-way: the item stays where it was. *)
SendFault(m) ==
  /\ connected /\ ~waiting
  /\ free_list # << >>
  /\ buf' = [buf EXCEPT ![Head(free_list)] = Stored(m)]
  /\ UNCHANGED <<free_list, filled_list, read_list, state, connected,
                 send_blocked, send_unblocked, waiting>>

(* No free item: ERR_NOT_ENOUGH_BUFFER.  The sender may wait or go on. *)
SendFull ==
  /\ connected /\ ~waiting
  /\ free_list = << >>
  /\ send_blocked' = TRUE
  /\ waiting' \in BOOLEAN
  /\ UNCHANGED <<qvars, connected, send_unblocked>>

(* handle_wait of the sender: chan_poll, then chan_finalize_event clears   *)
(* the flag it reported.                                                   *)
SenderWake ==
  /\ waiting
  /\ send_unblocked \/ ~connected
  /\ send_unblocked' = FALSE
  /\ waiting' = FALSE
  /\ UNCHANGED <<qvars, connected, send_blocked>>

-----------------------------------------------------------------------------
(* The receiver: it may go on reading after the sender hung up.            *)

(* ipc_get_msg: peek the oldest filled item and move it to read_list. *)
GetMsg ==
  /\ filled_list # << >>
  /\ LET item == Head(filled_list) IN
       /\ filled_list' = Tail(filled_list)
       /\ read_list' = read_list \cup {item}
       /\ state' = [state EXCEPT ![item] = "READ"]
  /\ UNCHANGED <<free_list, buf, connected, send_blocked, send_unblocked,
                 waiting>>

(* Mistakes: the SEND_BLOCKED mark stays; it is cleared without an event.  *)
PutMsgKeepsMark(id) ==
  /\ state[id] = "READ"
  /\ read_list' = read_list \ {id}
  /\ free_list' = <<id>> \o free_list
  /\ state' = [state EXCEPT ![id] = "FREE"]
  /\ send_unblocked' = (send_unblocked \/ send_blocked)
  /\ UNCHANGED <<filled_list, buf, connected, send_blocked, waiting>>
PutMsgNoEvent(id) ==
  /\ state[id] = "READ"
  /\ read_list' = read_list \ {id}
  /\ free_list' = <<id>> \o free_list
  /\ state' = [state EXCEPT ![id] = "FREE"]
  /\ send_blocked' = FALSE
  /\ UNCHANGED <<filled_list, buf, connected, send_unblocked, waiting>>

(* msg_put_read_locked: the item goes to the head of free_list, and a      *)
(* blocked sender is unblocked and notified.  Ids that are not in state    *)
(* READ are refused.                                                       *)
PutMsg(id) ==
  /\ state[id] = "READ"
  /\ read_list' = read_list \ {id}
  /\ free_list' = <<id>> \o free_list
  /\ state' = [state EXCEPT ![id] = "FREE"]
  /\ send_blocked' = FALSE
  /\ send_unblocked' = (send_unblocked \/ send_blocked)
  /\ UNCHANGED <<filled_list, buf, connected, waiting>>

-----------------------------------------------------------------------------
(* Either end closes: both leave CONNECTED for good (chan_shutdown_locked) *)
Disconnect ==
  /\ connected
  /\ connected' = FALSE
  /\ UNCHANGED <<qvars, send_blocked, send_unblocked, waiting>>

Next == \/ \E m \in Payloads : SendMsg(m) \/ SendFault(m)
        \/ SendFull
        \/ SenderWake
        \/ GetMsg
        \/ \E id \in Items : PutMsg(id)
        \/ Disconnect

(* The receiver keeps taking out and retiring messages, as the message     *)
(* loops of the trusted apps do; a waiting sender is woken by its event.   *)
Fairness == /\ WF_vars(GetMsg)
            /\ \A id \in Items : WF_vars(PutMsg(id))
            /\ WF_vars(SenderWake)

Spec == Init /\ [][Next]_vars
FairSpec == Spec /\ Fairness

-----------------------------------------------------------------------------
TypeOK ==
  /\ free_list \in Seq(Items)
  /\ filled_list \in Seq(Items)
  /\ read_list \in SUBSET Items
  /\ state \in [Items -> ItemStates]
  /\ buf \in [Items -> Contents]
  /\ connected \in BOOLEAN
  /\ send_blocked \in BOOLEAN
  /\ send_unblocked \in BOOLEAN
  /\ waiting \in BOOLEAN

Injective(s) == \A j, k \in 1 .. Len(s) : s[j] = s[k] => j = k
Members(s) == {s[k] : k \in 1 .. Len(s)}

(* Every item is on exactly one list, the one its state names, and once    *)
(* (the DEBUG_ASSERT of msg_write_locked, ipc_msg.c:236, and more): no     *)
(* buffer is lost, however many sends fail and in whatever order messages  *)
(* are retired.                                                            *)
ListsMatchStates ==
  /\ Injective(free_list) /\ Injective(filled_list)
  /\ Members(free_list) = {i \in Items : state[i] = "FREE"}
  /\ Members(filled_list) = {i \in Items : state[i] = "FILLED"}
  /\ read_list = {i \in Items : state[i] = "READ"}

(* A sender is marked SEND_BLOCKED only while there is really no free      *)
(* item: the put that frees one always clears the mark, so no sender waits *)
(* for an unblock that has already been missed.                            *)
BlockedMeansFull == send_blocked => free_list = << >>

(* A sender that waits has its event, or the queue is full and its mark is *)
(* still there for the next put, or the channel is closed.                 *)
WaiterWillBeWoken == waiting => send_blocked \/ send_unblocked \/ ~connected

(* The queue as its users see it. *)
Abstract == INSTANCE Fifo WITH
  Ids <- Items,
  queue <- [k \in 1 .. Len(filled_list) |-> buf[filled_list[k]]],
  held <- [i \in read_list |-> buf[i]]

(* The queue implements the FIFO: what was accepted comes out in order,    *)
(* once, and a message that is being read does not change under the reader *)
(* (msg_write_locked writes into items[head of free_list] only).           *)
ImplementsFifo == Abstract!Spec

(* A sender that got ERR_NOT_ENOUGH_BUFFER and waits for SEND_UNBLOCKED    *)
(* does not wait for ever while the receiver does its work.                *)
WaiterProgress == waiting ~> ~waiting
=============================================================================
