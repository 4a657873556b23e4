---------------------------- MODULE UartService ----------------------------
(***************************************************************************)
(* The uart.secure.service trusted app: main (main.c) waits on its port,   *)
(* handle_port_event accepts a connection and serves it until it ends, and *)
(* handle_msg answers each request (trusty_ipc_setup.c).  Its clients are  *)
(* client apps of the normal world (CA/suart_app.c), whose end of the      *)
(* channel the tipc_dev threads drive.                                     *)
(*                                                                         *)
(* The channel is the one of TrustyIpc and MsgQueue with the numbers of    *)
(* this port: a queue of num_of_buffers items in each direction, a client  *)
(* may close at any moment, and what the service wrote before it closed    *)
(* can still be read.  The camera exchange inside handle_msg (SecureUart)  *)
(* is one step that takes any time and may fail.                           *)
(***************************************************************************)
EXTENDS Naturals, Sequences, SequencesExt

CONSTANTS Clients,   \* connections, each used again after both ends closed
          None,
          NumBufs,   \* ports[0].num_of_buffers
          MaxReqs    \* bound on the requests of one connection

ASSUME NoneAssumption == None \notin Clients
ASSUME NumBufsAssumption == NumBufs \in Nat \ {0}
ASSUME MaxReqsAssumption == MaxReqs \in Nat

VARIABLES pc,        \* where the service's thread is
          chan,      \* the channel it holds open, or None
          hup,       \* POLL_HUP in the event it is handling
          pending,   \* connections that wait in the port's pending_list
          client,    \* connection |-> state of the client's end
          inq, outq, \* connection |-> items filled and read, per direction
          reqs,      \* connection |-> requests the client has sent
          reps       \* connection |-> replies the service has sent

vars == <<pc, chan, hup, pending, client, inq, outq, reqs, reps>>

Empty == [filled |-> 0, read |-> 0]
HasRoom(q) == q.filled + q.read < NumBufs
Filled(q) == [q EXCEPT !.filled = @ + 1]
Taken(q) == [q EXCEPT !.filled = @ - 1, !.read = @ + 1]
Retired(q) == [q EXCEPT !.read = @ - 1]

ClientStates == {"off", "pending", "connected", "hungup", "closed"}

Init == /\ pc = "port" /\ chan = None /\ hup = FALSE /\ pending = << >>
        /\ client = [c \in Clients |-> "off"]
        /\ inq = [c \in Clients |-> Empty]
        /\ outq = [c \in Clients |-> Empty]
        /\ reqs = [c \in Clients |-> 0]
        /\ reps = [c \in Clients |-> 0]

-----------------------------------------------------------------------------
(* A client: tipc_connect, write, read, close *)

Connect(c) == /\ client[c] = "off"
              /\ client' = [client EXCEPT ![c] = "pending"]
              /\ pending' = Append(pending, c)
              /\ inq' = [inq EXCEPT ![c] = Empty]
              /\ outq' = [outq EXCEPT ![c] = Empty]
              /\ reqs' = [reqs EXCEPT ![c] = 0]
              /\ reps' = [reps EXCEPT ![c] = 0]
              /\ UNCHANGED <<pc, chan, hup>>

ClientSend(c) == /\ client[c] = "connected" /\ reqs[c] < MaxReqs
                 /\ HasRoom(inq[c])
                 /\ inq' = [inq EXCEPT ![c] = Filled(@)]
                 /\ reqs' = [reqs EXCEPT ![c] = @ + 1]
                 /\ UNCHANGED <<pc, chan, hup, pending, client, outq, reps>>

(* tipc_tx_thread takes a reply out of the channel, copies it and then     *)
(* retires it.                                                             *)
ClientGet(c) == /\ client[c] \in {"connected", "hungup"}
                /\ outq[c].filled > 0
                /\ outq' = [outq EXCEPT ![c] = Taken(@)]
                /\ UNCHANGED <<pc, chan, hup, pending, client, inq, reqs, reps>>

ClientPut(c) == /\ client[c] \in {"connected", "hungup"}
                /\ outq[c].read > 0
                /\ outq' = [outq EXCEPT ![c] = Retired(@)]
                /\ UNCHANGED <<pc, chan, hup, pending, client, inq, reqs, reps>>

(* The client exits or gives up; its end of the channel is closed.  It is  *)
(* gone for good when the service does not hold the other end.             *)
ClientClose(c) ==
  /\ client[c] \in {"pending", "connected", "hungup"}
  /\ client' = [client EXCEPT ![c] =
                  IF client[c] = "hungup" THEN "off" ELSE "closed"]
  /\ UNCHANGED <<pc, chan, hup, pending, inq, outq, reqs, reps>>

-----------------------------------------------------------------------------
(* The service *)

(* Mistake: accept fails for a connection whose client has gone and leaves *)
(* it in the list.                                                         *)
AcceptStuck ==
  /\ pc = "port" /\ pending # << >>
  /\ IF client[Head(pending)] = "pending"
     THEN /\ pc' = "chan" /\ chan' = Head(pending)
          /\ client' = [client EXCEPT ![Head(pending)] = "connected"]
          /\ pending' = Tail(pending)
     ELSE UNCHANGED <<pc, chan, client, pending>>
  /\ UNCHANGED <<hup, inq, outq, reqs, reps>>

(* main: wait on the port, then accept.  accept drops a connection whose   *)
(* client has gone (ERR_CHANNEL_CLOSED) and the service waits again.       *)
Accept ==
  /\ pc = "port" /\ pending # << >>
  /\ LET c == Head(pending) IN
       IF client[c] = "pending"
       THEN /\ pc' = "chan" /\ chan' = c
            /\ client' = [client EXCEPT ![c] = "connected"]
       ELSE /\ client' = [client EXCEPT ![c] = "off"]
            /\ UNCHANGED <<pc, chan>>
  /\ pending' = Tail(pending)
  /\ UNCHANGED <<hup, inq, outq, reqs, reps>>

(* close(chan): a client that is still there is told by a hangup. *)
CloseChan == /\ chan' = None
             /\ client' = [client EXCEPT ![chan] =
                             IF @ = "connected" THEN "hungup" ELSE "off"]

(* wait(chan) reports POLL_MSG, with or without POLL_HUP: handle_msg and   *)
(* its get_msg.                                                            *)
ChanMsg == /\ pc = "chan" /\ inq[chan].filled > 0
           /\ inq' = [inq EXCEPT ![chan] = Taken(@)]
           /\ hup' = (client[chan] = "closed")
           /\ pc' = "exchange"
           /\ UNCHANGED <<chan, pending, client, outq, reqs, reps>>

(* wait(chan) reports only POLL_HUP. *)
ChanHup == /\ pc = "chan" /\ inq[chan].filled = 0 /\ client[chan] = "closed"
           /\ CloseChan
           /\ pc' = "port"
           /\ UNCHANGED <<hup, pending, inq, outq, reqs, reps>>

(* Mistake: without an answer of the camera there is no reply. *)
ExchangeSilent == /\ pc = "exchange"
                  /\ pc' \in IF hup THEN {"reply"} ELSE {"reply", "retire"}
                  /\ UNCHANGED <<chan, hup, pending, client, inq, outq, reqs, reps>>

(* read_msg and the camera exchange; the reply is sent whether or not the  *)
(* camera answered.                                                        *)
Exchange == /\ pc = "exchange"
            /\ pc' = "reply"
            /\ UNCHANGED <<chan, hup, pending, client, inq, outq, reqs, reps>>

(* Mistake: the result of send_msg is not looked at. *)
ReplyUnchecked(next) ==
  /\ pc' = next
  /\ UNCHANGED <<chan, hup, pending, client, inq, reqs>>
  /\ IF client[chan] = "connected" /\ HasRoom(outq[chan])
     THEN /\ outq' = [outq EXCEPT ![chan] = Filled(@)]
          /\ reps' = [reps EXCEPT ![chan] = @ + 1]
     ELSE UNCHANGED <<outq, reps>>

(* send_msg.  It fails when the client closed or its queue is full; then   *)
(* handle_channel_event closes the channel, and the wait that follows      *)
(* fails and takes the service back to its port.                           *)
ReplyThen(next) ==
  /\ IF client[chan] = "connected" /\ HasRoom(outq[chan])
     THEN /\ outq' = [outq EXCEPT ![chan] = Filled(@)]
          /\ reps' = [reps EXCEPT ![chan] = @ + 1]
          /\ pc' = next
          /\ UNCHANGED <<chan, client>>
     ELSE /\ CloseChan
          /\ pc' = "port"
          /\ UNCHANGED <<outq, reps>>
  /\ UNCHANGED <<hup, pending, inq, reqs>>

(* handle_msg sends the reply twice. *)
Reply == pc = "reply" /\ ReplyThen("reply_again")
ReplyAgain == pc = "reply_again" /\ ReplyThen("retire")

(* put_msg.  handle_port_event then waits on the channel again, or leaves  *)
(* it to its caller without a close when the event had POLL_HUP.           *)
Retire == /\ pc = "retire"
          /\ inq' = [inq EXCEPT ![chan] = Retired(@)]
          /\ pc' = IF hup THEN "port" ELSE "chan"
          /\ UNCHANGED <<chan, hup, pending, client, outq, reqs, reps>>

Service == \/ Accept \/ ChanMsg \/ ChanHup \/ Exchange \/ Reply \/ ReplyAgain
           \/ Retire

Next == \/ Service
        \/ \E c \in Clients : \/ Connect(c) \/ ClientSend(c) \/ ClientGet(c)
                              \/ ClientPut(c) \/ ClientClose(c)

(* A reply has reached the client. *)
Answered(c) == reps[c] > outq[c].filled

(* The service's thread and the bridge's threads run.  A client app that   *)
(* is not killed writes one request, reads until a reply or a hangup       *)
(* comes, and exits (suart_app.c).                                         *)
Fairness ==
  /\ WF_vars(Service)
  /\ \A c \in Clients :
       /\ WF_vars(ClientGet(c))
       /\ WF_vars(ClientPut(c))
       /\ WF_vars(reqs[c] = 0 /\ ClientSend(c))
       /\ WF_vars(/\ Answered(c) \/ (client[c] = "hungup" /\ outq[c].filled = 0)
                  /\ ClientClose(c))

Spec == Init /\ [][Next]_vars
FairSpec == Spec /\ Fairness

-----------------------------------------------------------------------------
Queues == [filled : 0 .. NumBufs, read : 0 .. NumBufs]

TypeOK ==
  /\ pc \in {"port", "chan", "exchange", "reply", "reply_again", "retire"}
  /\ chan \in Clients \cup {None} /\ hup \in BOOLEAN
  /\ pending \in Seq(Clients)
  /\ client \in [Clients -> ClientStates]
  /\ inq \in [Clients -> Queues] /\ outq \in [Clients -> Queues]
  /\ reqs \in [Clients -> Nat] /\ reps \in [Clients -> Nat]

(* On top of the types, whenever the service is back at its port it has    *)
(* closed the channel it served: no path through handle_port_event leaves  *)
(* a handle open, though several of them return without a close of their   *)
(* own.  So a client is left connected only to a service that serves it,   *)
(* is hung up on only after a reply, and waits for accept in the pending   *)
(* list.                                                                   *)
NoHandleLeak ==
  /\ TypeOK
  /\ (pc = "port") <=> (chan = None)
  /\ \A c \in Clients :
       /\ client[c] = "connected" => chan = c
       /\ client[c] = "hungup" => reqs[c] > 0 /\ reps[c] > 0
       /\ client[c] = "pending" => c \in ToSet(pending)
       /\ c \in ToSet(pending) => chan # c /\ client[c] \in {"pending", "closed"}

(* A reply reaches a client that asked, unless it leaves before: also when *)
(* the service, out of buffers, has closed the channel behind its reply.   *)
RequestAnswered ==
  \A c \in Clients :
    client[c] = "connected" /\ reqs[c] > 0 ~>
      Answered(c) \/ client[c] \in {"off", "closed"}

(* A connection does not wait for accept for ever behind the others. *)
PendingServed ==
  \A c \in Clients : client[c] = "pending" ~> client[c] # "pending"
=============================================================================
