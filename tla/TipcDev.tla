------------------------------ MODULE TipcDev ------------------------------
(***************************************************************************)
(* The tipc device (tipc_dev.c) on the virtio bus (trusty_virtio.c): the   *)
(* bus is started and stopped and the device reset by standard calls, one  *)
(* at a time; the RX thread serves the messages of the normal world and    *)
(* the TX thread the events of the channels.  They share the table of      *)
(* endpoints under ept_lock and use what they read from it after they have *)
(* released it.                                                            *)
(*                                                                         *)
(* A connection is a number; its channel is the object that handle_conn_req *)
(* opens for it.  Messages carry the number of the connection they are     *)
(* about, which the code does not: it is there for the properties.  The    *)
(* two queues are FIFOs (BufferRing), the TX queue of TxBufs buffers.      *)
(***************************************************************************)
EXTENDS Naturals, Sequences

CONSTANTS Remotes,     \* addresses of the normal world
          None,
          NumSlots,    \* TIPC_ADDR_MAX_NUM
          MaxConns,    \* connections ever asked for
          TxBufs, RxBufs, MaxMsgs

ASSUME BoundAssumption == {NumSlots, MaxConns, TxBufs, RxBufs, MaxMsgs} \subseteq Nat \ {0}

Slots == 0 .. NumSlots - 1
Conns == 1 .. MaxConns

ASSUME NoneAssumption == /\ None \notin Conns /\ None \notin Remotes /\ None \notin Slots
                         /\ None \notin [remote : Remotes, chan : Conns]

VARIABLES
  bus, dev,    \* state of the bus and of the device
  std,         \* how far the standard call has come
  rxq, txq,    \* the queues
  ns, online, next, \* normal world: its endpoints, GO_ONLINE seen, next connection
  ept,         \* dev->epts, None when the slot is not in use
  cookie, list, open, \* channel |-> its endpoint; handle_list; the open handles
  srv, ready, msgs, \* the servers' ends: none, pending, accepted, closed (by
               \* either side); READY not yet reported; messages not yet read
  rx, tx,      \* the threads
  stray        \* channels that were given a message of another connection

bus_vars == <<bus, dev, std>>
queue_vars == <<rxq, txq>>
ns_vars == <<ns, online, next>>
ept_vars == <<ept, cookie, list, open>>
srv_vars == <<srv, ready, msgs, stray>>
vars == <<bus_vars, queue_vars, ns_vars, ept_vars, srv_vars, rx, tx>>

At(pc, c, r, l) == [pc |-> pc, conn |-> c, remote |-> r, local |-> l]
Thread(pc) == At(pc, None, None, None)
Free == [st |-> "free", conn |-> None, local |-> None]

Init == /\ bus = "IDLE" /\ dev = "RESET" /\ std = "none"
        /\ rxq = <<>> /\ txq = <<>>
        /\ ns = [r \in Remotes |-> Free] /\ online = FALSE /\ next = 1
        /\ ept = [s \in Slots |-> None] /\ cookie = [c \in Conns |-> None]
        /\ list = {} /\ open = {}
        /\ srv = [c \in Conns |-> "none"] /\ ready = {}
        /\ msgs = [c \in Conns |-> 0] /\ stray = {}
        /\ rx = Thread("none") /\ tx = Thread("none")

(* A channel the device has closed: its server is hung up, and the queue   *)
(* lives on only for the TX thread that may be reading it.                 *)
HungUp(cs) ==
  /\ srv' = [c \in Conns |-> IF c \in cs THEN "closed" ELSE srv[c]]
  /\ ready' = ready \ cs /\ UNCHANGED stray
  /\ msgs' = [c \in Conns |-> IF c \in cs /\ tx.conn # c THEN 0 ELSE msgs[c]]

tx_stop == std \in {"close", "tx_join"}

-----------------------------------------------------------------------------
(* The bus: standard calls *)

(* The driver brings new rings and knows of no connection. *)
virtio_start ==
  /\ bus = "IDLE" /\ std = "none"
  /\ bus' = "ACTIVATING" /\ std' = "probe"
  /\ rxq' = <<>> /\ txq' = <<>>
  /\ ns' = [r \in Remotes |-> Free] /\ online' = FALSE
  /\ UNCHANGED <<dev, next, ept_vars, srv_vars, rx, tx>>

(* The result of the probe is ignored by virtio_start.  A device in the    *)
(* reset state may have the threads of a probe that failed in _go_online:  *)
(* nothing tests for them, two more are started, and the event on which    *)
(* the first RX thread sleeps is initialised again.  What such a device    *)
(* does then is not followed.                                              *)
tipc_dev_probe ==
  /\ std = "probe"
  /\ \/ std' = "started" /\ UNCHANGED <<rx, tx>>
     \/ rx.pc = "none" /\ std' = "online" /\ rx' = Thread("wait") /\ tx' = Thread("idle")
     \/ rx.pc # "none" /\ std' = "twice" /\ UNCHANGED <<rx, tx>>
  /\ UNCHANGED <<bus, dev, queue_vars, ns_vars, ept_vars, srv_vars>>

(* tipc_send_data *)
Put(m) == Len(txq) < TxBufs /\ txq' = Append(txq, m)

GO_ONLINE == [type |-> "ONLINE", dst |-> None, conn |-> None, ok |-> TRUE, local |-> None]

(* The end of the probe.  The send fails on a TX buffer that is malformed  *)
(* or cannot be mapped: the threads run, and the device stays reset.       *)
_go_online ==
  /\ std = "online"
  /\ \/ Put(GO_ONLINE) /\ dev' = "ACTIVE"
     \/ UNCHANGED <<txq, dev>>
  /\ std' = "started"
  /\ UNCHANGED <<bus, rxq, ns_vars, ept_vars, srv_vars, rx, tx>>

(* The end of a start or of a stop. *)
EndCall ==
  /\ std \in {"started", "stopped"}
  /\ bus' = IF std = "started" THEN "ACTIVE" ELSE "IDLE"
  /\ std' = "none"
  /\ UNCHANGED <<dev, queue_vars, ns_vars, ept_vars, srv_vars, rx, tx>>

virtio_stop ==
  /\ bus = "ACTIVE" /\ std = "none"
  /\ bus' = "DEACTIVATING"
  /\ std' = IF dev = "RESET" THEN "stopped" ELSE "rx_join"
  /\ UNCHANGED <<dev, queue_vars, ns_vars, ept_vars, srv_vars, rx, tx>>

virtio_device_reset ==
  /\ bus = "ACTIVE" /\ std = "none" /\ dev = "ACTIVE"
  /\ std' = "rx_join"
  /\ UNCHANGED <<bus, dev, queue_vars, ns_vars, ept_vars, srv_vars, rx, tx>>

(* Mistake: the RX thread is not waited for, and rx_stop is cleared again. *)
ResetRxJoinNot ==
  /\ std = "rx_join"
  /\ std' = "close"
  /\ UNCHANGED <<bus, dev, queue_vars, ns_vars, ept_vars, srv_vars, rx, tx>>

ResetRxJoin ==
  /\ std = "rx_join" /\ rx.pc = "none"
  /\ std' = "close"
  /\ UNCHANGED <<bus, dev, queue_vars, ns_vars, ept_vars, srv_vars, rx, tx>>

(* tx_stop is set; under ept_lock all channels are closed. *)
ResetClose ==
  /\ std = "close"
  /\ LET closed == {ept[s].chan : s \in {s \in Slots : ept[s] # None}} IN
       /\ list' = list \ closed /\ open' = open \ closed
       /\ cookie' = [c \in Conns |-> IF c \in closed THEN None ELSE cookie[c]]
       /\ HungUp(closed)
  /\ ept' = [s \in Slots |-> None]
  /\ std' = "tx_join"
  /\ UNCHANGED <<bus, dev, queue_vars, ns_vars, rx, tx>>

(* The TX thread is joined, the queues are destroyed. *)
ResetTxJoin ==
  /\ std = "tx_join" /\ tx.pc = "none"
  /\ rxq' = <<>> /\ txq' = <<>>
  /\ dev' = "RESET"
  /\ std' = IF bus = "DEACTIVATING" THEN "stopped" ELSE "none"
  /\ UNCHANGED <<bus, ns_vars, ept_vars, srv_vars, rx, tx>>

-----------------------------------------------------------------------------
(* The normal world *)

Msg(type, r, c, l) == [type |-> type, src |-> r, conn |-> c, dst |-> l]

(* Its messages: rxq has room and there is a device to send to. *)
NsPut(m) == Len(rxq) < RxBufs /\ dev = "ACTIVE" /\ rxq' = Append(rxq, m)

NsOpen(r) ==
  /\ online /\ ns[r].st = "free" /\ next <= MaxConns
  /\ NsPut(Msg("CONN_REQ", r, next, None))
  /\ ns' = [ns EXCEPT ![r] = [st |-> "opening", conn |-> next, local |-> None]]
  /\ next' = next + 1
  /\ UNCHANGED <<bus_vars, txq, online, ept_vars, srv_vars, rx, tx>>

NsSend(r) ==
  /\ ns[r].st = "open"
  /\ NsPut(Msg("DATA", r, ns[r].conn, ns[r].local))
  /\ UNCHANGED <<bus_vars, txq, ns_vars, ept_vars, srv_vars, rx, tx>>

(* The endpoint's address is None as long as there was no response.        *)
NsClose(r) ==
  /\ ns[r].st \in {"opening", "open"}
  /\ NsPut(Msg("DISC_REQ", r, ns[r].conn, ns[r].local))
  /\ ns' = [ns EXCEPT ![r].st = "closing"]
  /\ UNCHANGED <<bus_vars, txq, online, next, ept_vars, srv_vars, rx, tx>>

(* The address is used again once the request has come back and all that   *)
(* was received for it has been read.                                      *)
NsReuse(r) ==
  /\ ns[r].st = "closing"
  /\ \A i \in DOMAIN rxq : rxq[i].src # r
  /\ \A i \in DOMAIN txq : txq[i].dst # r
  /\ ns' = [ns EXCEPT ![r] = Free]
  /\ UNCHANGED <<bus_vars, queue_vars, online, next, ept_vars, srv_vars, rx, tx>>

NsReceive ==
  /\ txq # <<>>
  /\ txq' = Tail(txq)
  /\ LET m == Head(txq)
         r == m.dst IN
       /\ online' = (online \/ m.type = "ONLINE")
       /\ ns' = IF m.type = "CONN_RSP" /\ ns[r].st = "opening"
                THEN [ns EXCEPT ![r].st = IF m.ok THEN "open" ELSE "dead",
                                ![r].local = m.local]
                ELSE IF m.type = "DISC_REQ" /\ ns[r].st \in {"opening", "open"}
                THEN [ns EXCEPT ![r].st = "dead"]
                ELSE ns
  /\ UNCHANGED <<bus_vars, rxq, next, ept_vars, srv_vars, rx, tx>>

-----------------------------------------------------------------------------
(* The servers: the other ends of the channels *)

Accept(c) == /\ srv[c] = "pending" /\ c \in open
             /\ srv' = [srv EXCEPT ![c] = "accepted"] /\ ready' = ready \cup {c}
             /\ UNCHANGED <<bus_vars, queue_vars, ns_vars, ept_vars, msgs, stray, rx, tx>>

SrvSend(c) == /\ srv[c] = "accepted" /\ c \in open /\ msgs[c] < MaxMsgs
              /\ msgs' = [msgs EXCEPT ![c] = @ + 1]
              /\ UNCHANGED <<bus_vars, queue_vars, ns_vars, ept_vars, srv, ready, stray, rx, tx>>

SrvClose(c) == /\ srv[c] \in {"pending", "accepted"} /\ c \in open
               /\ srv' = [srv EXCEPT ![c] = "closed"]
               /\ UNCHANGED <<bus_vars, queue_vars, ns_vars, ept_vars, ready, msgs, stray, rx, tx>>

-----------------------------------------------------------------------------
(* The RX thread *)

(* rx_stop is looked at between two messages, so one may be left behind.   *)
RxStop == /\ rx.pc = "wait" /\ std = "rx_join"
          /\ rx' = Thread("none")
          /\ UNCHANGED <<bus_vars, queue_vars, ns_vars, ept_vars, srv_vars, tx>>

Gets(type) == rx.pc = "wait" /\ rxq # <<>> /\ Head(rxq).type = type /\ rxq' = Tail(rxq)

InUse == {s \in Slots : ept[s] # None}
alloc_local_addr == CHOOSE s \in Slots \ InUse :
                      \A t \in Slots \ InUse : s <= t

(* The port may be missing; the table may be full, and then the channel is *)
(* closed but err is still NO_ERROR.                                       *)
handle_conn_req ==
  /\ Gets("CONN_REQ")
  /\ LET m == Head(rxq) IN
       \/ /\ rx' = At("err", m.conn, m.src, None)
          /\ UNCHANGED <<ept, open, srv>>
       \/ /\ InUse = Slots
          /\ rx' = At("full", m.conn, m.src, None)
          /\ UNCHANGED <<ept, open, srv>>
       \/ /\ InUse # Slots
          /\ ept' = [ept EXCEPT ![alloc_local_addr] = [remote |-> m.src, chan |-> m.conn]]
          /\ open' = open \cup {m.conn}
          /\ srv' = [srv EXCEPT ![m.conn] = "pending"]
          /\ rx' = At("add", m.conn, m.src, alloc_local_addr)
  /\ UNCHANGED <<bus_vars, txq, ns_vars, cookie, list, ready, msgs, stray, tx>>

Rsp(r, c, ok, l) == [type |-> "CONN_RSP", dst |-> r, conn |-> c, ok |-> ok, local |-> l]

(* handle_set_cookie, handle_list_add, event_signal: without ept_lock. *)
ConnAdd ==
  /\ rx.pc = "add"
  /\ cookie' = [cookie EXCEPT ![rx.conn] = rx.local]
  /\ list' = list \cup {rx.conn}
  /\ rx' = Thread("wait")
  /\ UNCHANGED <<bus_vars, queue_vars, ns_vars, ept, open, srv_vars, tx>>

(* Mistake: a refused connection is not answered. *)
ConnRspNot ==
  /\ rx.pc \in {"err", "full"}
  /\ rx' = Thread("wait")
  /\ UNCHANGED <<bus_vars, queue_vars, ns_vars, ept_vars, srv_vars, tx>>

ConnRsp ==
  /\ rx.pc \in {"err", "full"}
  /\ Put(Rsp(rx.remote, rx.conn, rx.pc = "full", None))
  /\ rx' = Thread("wait")
  /\ UNCHANGED <<bus_vars, rxq, ns_vars, ept_vars, srv_vars, tx>>

(* Mistake: the address given by the normal world is believed. *)
DiscTargetBelieved(r, target) ==
  IF target \in InUse THEN {target} ELSE {s \in InUse : ept[s].remote = r}

(* The slot of a request: the one it names, if it is its own, or the first *)
(* with this remote address.                                               *)
DiscTarget(r, target) ==
  IF target \in InUse /\ ept[target].remote = r THEN {target}
  ELSE {s \in InUse : /\ ept[s].remote = r
                      /\ \A t \in InUse : ept[t].remote = r => s <= t}

(* Mistake: the endpoint's slot is freed but its channel stays open. *)
CloseEptLeaks(s) ==
  /\ list' = list \ {ept[s].chan} /\ open' = open
  /\ HungUp({ept[s].chan})
  /\ cookie' = [cookie EXCEPT ![ept[s].chan] = None]
  /\ ept' = [ept EXCEPT ![s] = None]

CloseEpt(s) ==
  /\ list' = list \ {ept[s].chan} /\ open' = open \ {ept[s].chan}
  /\ HungUp({ept[s].chan})
  /\ cookie' = [cookie EXCEPT ![ept[s].chan] = None]
  /\ ept' = [ept EXCEPT ![s] = None]

handle_disc_req ==
  /\ Gets("DISC_REQ")
  /\ LET m == Head(rxq)
         found == DiscTarget(m.src, m.dst) IN
       \/ found = {} /\ UNCHANGED <<ept_vars, srv_vars>>
       \/ \E s \in found : CloseEpt(s)
  /\ rx' = Thread("wait")
  /\ UNCHANGED <<bus_vars, txq, ns_vars, tx>>

(* Mistake: the sender's address is not compared. *)
IsFromNot(s, r) == s \in InUse

IsFrom(s, r) == s \in InUse /\ ept[s].remote = r

(* To the channel at the address, if it is the sender's. *)
handle_chan_msg ==
  /\ Gets("DATA")
  /\ LET m == Head(rxq) IN
       stray' = stray \cup {c \in open : IsFrom(m.dst, m.src) /\ ept[m.dst].chan = c
                                         /\ c # m.conn}
  /\ rx' = Thread("wait")
  /\ UNCHANGED <<bus_vars, txq, ns_vars, ept_vars, srv, ready, msgs, tx>>

-----------------------------------------------------------------------------
(* The TX thread *)

Event(c) == IF c \in ready THEN "ready" ELSE IF msgs[c] > 0 THEN "msg"
            ELSE IF srv[c] = "closed" THEN "hup" ELSE "no"

(* handle_list_wait finds an event of a channel, and takes a reference. *)
TxWait(c) ==
  /\ tx.pc = "idle" /\ c \in list /\ Event(c) # "no"
  /\ tx' = At(Event(c), c, None, None)
  /\ ready' = ready \ {c}
  /\ UNCHANGED <<bus_vars, queue_vars, ns_vars, ept_vars, srv, msgs, stray, rx>>

(* By now the channel may have been detached. *)
TxGone == /\ tx.pc \in {"ready", "msg", "hup"} /\ cookie[tx.conn] = None
          /\ tx' = Thread("idle")
          /\ UNCHANGED <<bus_vars, queue_vars, ns_vars, ept_vars, srv_vars, rx>>

(* handle_ready and handle_tx_msg read the remote address under ept_lock. *)
TxRead == /\ tx.pc \in {"ready", "msg"} /\ cookie[tx.conn] # None
          /\ tx' = At(IF tx.pc = "ready" THEN "rsp" ELSE "loop", tx.conn,
                      ept[cookie[tx.conn]].remote, cookie[tx.conn])
          /\ UNCHANGED <<bus_vars, queue_vars, ns_vars, ept_vars, srv_vars, rx>>

(* Mistake: the channel is closed, and the normal world is not told. *)
handle_hupQuiet ==
  /\ tx.pc = "hup" /\ cookie[tx.conn] # None
  /\ CloseEpt(cookie[tx.conn])
  /\ tx' = Thread("idle")
  /\ UNCHANGED <<bus_vars, queue_vars, ns_vars, rx>>

handle_hup == /\ tx.pc = "hup" /\ cookie[tx.conn] # None
              /\ CloseEpt(cookie[tx.conn])
              /\ tx' = At("disc", tx.conn, ept[cookie[tx.conn]].remote, cookie[tx.conn])
              /\ UNCHANGED <<bus_vars, queue_vars, ns_vars, rx>>

(* Without the lock: the messages of the channel, one after the other. *)
TxGetMsg == /\ tx.pc = "loop"
            /\ \/ msgs[tx.conn] = 0 /\ tx' = Thread("idle") /\ UNCHANGED msgs
               \/ /\ msgs[tx.conn] > 0
                  /\ msgs' = [msgs EXCEPT ![tx.conn] = @ - 1]
                  /\ tx' = [tx EXCEPT !.pc = "send"]
            /\ UNCHANGED <<bus_vars, queue_vars, ns_vars, ept_vars, srv, ready, stray, rx>>

TxMsg == IF tx.pc = "rsp" THEN Rsp(tx.remote, tx.conn, TRUE, tx.local)
         ELSE [type |-> IF tx.pc = "send" THEN "DATA" ELSE "DISC_REQ", dst |-> tx.remote,
               conn |-> tx.conn, ok |-> TRUE, local |-> tx.local]

(* tipc_send_data: waits for a buffer, and gives up when it is stopped. *)
TxSend == /\ tx.pc \in {"rsp", "send", "disc"}
          /\ \/ Put(TxMsg)
             \/ Len(txq) = TxBufs /\ tx_stop /\ UNCHANGED txq
          /\ tx' = IF tx.pc = "send" THEN [tx EXCEPT !.pc = "loop"] ELSE Thread("idle")
          /\ UNCHANGED <<bus_vars, rxq, ns_vars, ept_vars, srv_vars, rx>>

TxExit == /\ tx.pc = "idle" /\ list = {} /\ tx_stop
          /\ tx' = Thread("none")
          /\ UNCHANGED <<bus_vars, queue_vars, ns_vars, ept_vars, srv_vars, rx>>

-----------------------------------------------------------------------------
StdStep == \/ tipc_dev_probe \/ _go_online \/ EndCall
           \/ ResetRxJoin \/ ResetClose \/ ResetTxJoin
RxStep == \/ RxStop \/ handle_conn_req \/ ConnAdd \/ ConnRsp
          \/ handle_disc_req \/ handle_chan_msg
TxStep == \/ \E c \in Conns : TxWait(c)
          \/ TxGone \/ TxRead \/ handle_hup \/ TxGetMsg \/ TxSend \/ TxExit

(* The final state after a second start over the threads of a failed one. *)
StartedTwice == std = "twice" /\ UNCHANGED vars

Next == \/ StartedTwice \/ virtio_start \/ virtio_stop \/ virtio_device_reset \/ StdStep
        \/ RxStep \/ TxStep \/ NsReceive
        \/ \E r \in Remotes : NsOpen(r) \/ NsSend(r) \/ NsClose(r) \/ NsReuse(r)
        \/ \E c \in Conns : Accept(c) \/ SrvSend(c) \/ SrvClose(c)

Spec == Init /\ [][Next]_vars

(* Threads and standard calls go on; the driver empties its queue; a server  *)
(* takes its connections; handle_list_wait turns its list, so a channel with *)
(* an event is found; and no server sends for ever, for handle_tx_msg would  *)
(* stay with its channel.                                                    *)
FairSpec ==
  /\ Spec
  /\ WF_vars(StdStep) /\ WF_vars(RxStep) /\ WF_vars(NsReceive)
  /\ WF_vars(TxGone \/ TxRead \/ handle_hup \/ TxGetMsg \/ TxSend \/ TxExit)
  /\ \A c \in Conns : SF_vars(TxWait(c)) /\ WF_vars(Accept(c))
  /\ <>[][~ \E c \in Conns : SrvSend(c)]_vars

-----------------------------------------------------------------------------
(* Properties *)

Types == {"ONLINE", "CONN_RSP", "CONN_REQ", "DISC_REQ", "DATA"}

(* Types. *)
TypeOK ==
  /\ bus \in {"IDLE", "ACTIVATING", "ACTIVE", "DEACTIVATING"}
  /\ dev \in {"RESET", "ACTIVE"}
  /\ std \in {"none", "probe", "online", "started", "twice", "rx_join", "close", "tx_join",
             "stopped"}
  /\ rxq \in Seq([type : Types, src : Remotes, conn : Conns, dst : Slots \cup {None}])
  /\ txq \in Seq([type : Types, dst : Remotes \cup {None}, conn : Conns \cup {None},
                  ok : BOOLEAN, local : Slots \cup {None}])
  /\ Len(rxq) <= RxBufs /\ Len(txq) <= TxBufs
  /\ ns \in [Remotes -> [st : {"free", "opening", "open", "closing", "dead"},
                         conn : Conns \cup {None}, local : Slots \cup {None}]]
  /\ online \in BOOLEAN /\ next \in 1 .. MaxConns + 1
  /\ ept \in [Slots -> {None} \cup [remote : Remotes, chan : Conns]]
  /\ cookie \in [Conns -> Slots \cup {None}]
  /\ list \subseteq Conns /\ open \subseteq Conns /\ ready \subseteq Conns /\ stray \subseteq Conns
  /\ srv \in [Conns -> {"none", "pending", "accepted", "closed"}]
  /\ msgs \in [Conns -> 0 .. MaxMsgs]
  /\ rx \in [pc : {"none", "wait", "err", "full", "add"},
             conn : Conns \cup {None}, remote : Remotes \cup {None},
             local : Slots \cup {None}]
  /\ tx \in [pc : {"none", "idle", "ready", "msg", "hup", "rsp", "loop", "send", "disc"},
             conn : Conns \cup {None}, remote : Remotes \cup {None},
             local : Slots \cup {None}]

(* On top of the types, the endpoints, the cookies, the handle list and    *)
(* the open handles agree, except for the connection the RX thread is just adding:  *)
(* no channel is open without an endpoint, none is listed that is closed.  *)
EptsAgree ==
  /\ TypeOK
  /\ open = {ept[s].chan : s \in InUse}
  /\ list \subseteq open
  /\ \A c \in open : \/ c \in list /\ cookie[c] # None /\ ept[cookie[c]] # None /\ ept[cookie[c]].chan = c
                     \/ rx.pc = "add" /\ rx.conn = c /\ cookie[c] = None
  /\ \A c \in Conns \ open : cookie[c] = None

(* A message of the normal world reaches the channel of the connection it  *)
(* was sent on, though slots are reused while it is on its way, and one    *)
(* that the normal world receives on an open connection comes from that    *)
(* connection's channel, though the TX thread uses a remote address that   *)
(* may meanwhile belong to a later connection.                             *)
NoCrossDelivery ==
  /\ stray = {}
  /\ txq # <<>> /\ Head(txq).type = "DATA" =>
       LET e == ns[Head(txq).dst] IN
         e.st = "open" /\ e.local # None => e.conn = Head(txq).conn

(* Nothing of the old life of a device is left for the next start: one in  *)
(* the reset state has no endpoint, no open channel and no thread.  The    *)
(* exception is a start that could not send GO_ONLINE: it leaves both its  *)
(* threads asleep, and a normal world that knows of no device.             *)
ResetClean ==
  dev = "RESET" /\ std # "online" =>
    /\ InUse = {} /\ open = {} /\ list = {}
    /\ \/ rx.pc = "none" /\ tx.pc = "none"
       \/ rx = Thread("wait") /\ tx = Thread("idle") /\ ~online /\ txq = <<>>

(* No connection is closed behind the back of the normal world: when the   *)
(* channel of one that it believes open is gone, a disconnect request for  *)
(* it is on its way, or the whole device is being reset.                   *)
NoSilentClose ==
  \A r \in Remotes : LET e == ns[r] IN
    e.st = "open" /\ e.local # None /\ srv[e.conn] = "closed" /\ e.conn \notin open =>
      \/ tx.pc = "disc" /\ tx.remote = r
      \/ \E i \in DOMAIN txq : txq[i].type = "DISC_REQ" /\ txq[i].dst = r
      \/ std # "none" \/ dev = "RESET"

(* A request for a connection is answered, or the device is reset. *)
ConnAnswered ==
  \A r \in Remotes : ns[r].st = "opening" ~> (ns[r].st # "opening" \/ std # "none" \/ dev = "RESET")

(* A server that hangs up is reported to the normal world. *)
HangupReported ==
  \A r \in Remotes : ns[r].st = "open" /\ ns[r].conn \in open /\ srv[ns[r].conn] = "closed"
                       ~> (ns[r].st # "open" \/ std # "none" \/ dev = "RESET")

=============================================================================
