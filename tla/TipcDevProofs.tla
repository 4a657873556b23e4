---------------------------- MODULE TipcDevProofs ----------------------------
(***************************************************************************)
(* Proofs about TipcDev for every set of remote addresses and every number *)
(* of slots, connections, buffers and messages.                            *)
(*                                                                         *)
(* None of the four properties is inductive.  The endpoints agree because  *)
(* a channel is opened once, for a request that is in the queue once       *)
(* (Fresh).  A message reaches its channel because a slot, a message and   *)
(* the normal world's own record of an address speak of one connection,    *)
(* and the disconnect request is the last that an address sends before it  *)
(* is used again (Normal).  In the other direction nothing keeps the TX    *)
(* thread from sending to an address that has a new owner; what it sends   *)
(* then comes before the response that opens the new connection (Ordered). *)
(***************************************************************************)
EXTENDS TipcDev, WellFoundedInduction, TLAPS

(* A start that has not said GO_ONLINE: the normal world knows of no       *)
(* device, and the threads have nothing to do.                             *)
Unknown == (\A r \in Remotes : ns[r].st = "free") /\ ~online /\ txq = << >>
Asleep == rx = Thread("wait") /\ tx = Thread("idle")

(* How far the calls, the device and the threads are. *)
Phase ==
  /\ bus = "IDLE" => std = "none" /\ dev = "RESET"
  /\ std \in {"probe", "online", "twice", "stopped"} => dev = "RESET"
  /\ std \in {"rx_join", "close", "tx_join"} => dev = "ACTIVE"
  /\ std \in {"close", "tx_join"} => rx.pc = "none"
  /\ std \in {"probe", "online"} => Unknown
  /\ std = "online" => Asleep
  /\ dev = "RESET" /\ std # "online" =>
       \/ rx.pc = "none" /\ tx.pc = "none"
       \/ Asleep /\ Unknown
  /\ dev = "RESET" \/ std = "tx_join" =>
       open = {} /\ list = {} /\ rx.pc # "add" /\ \A s \in Slots : ept[s] = None

(* What the threads hold. *)
Held ==
  /\ rx.pc \in {"err", "full", "add"} => rx.conn \in Conns /\ rx.remote \in Remotes
  /\ tx.pc \in {"ready", "msg", "hup", "rsp", "loop", "send", "disc"} => tx.conn \in Conns
  /\ tx.pc \in {"rsp", "loop", "send", "disc"} => tx.remote \in Remotes /\ tx.local \in Slots

(* Endpoints and channels are one to one; the RX thread is adding one. *)
Epts ==
  /\ open = {ept[s].chan : s \in InUse}
  /\ \A s, t \in InUse : ept[s].chan = ept[t].chan => s = t
  /\ list \subseteq open
  /\ \A c \in open : \/ c \in list /\ cookie[c] # None
                     \/ rx.pc = "add" /\ rx.conn = c
  /\ \A c \in Conns : cookie[c] # None =>
       /\ c \in open /\ cookie[c] \in InUse /\ ept[cookie[c]].chan = c
       /\ ~ (rx.pc = "add" /\ rx.conn = c)
  /\ rx.pc = "add" => /\ rx.local \in InUse /\ ept[rx.local].chan = rx.conn
                      /\ cookie[rx.conn] = None

(* A connection is asked for once, and its channel opened at most once. *)
Fresh ==
  /\ \A c \in Conns : c >= next => srv[c] = "none"
  /\ \A c \in open : srv[c] # "none"
  /\ \A i \in DOMAIN rxq :
       /\ rxq[i].conn < next
       /\ rxq[i].type = "CONN_REQ" => srv[rxq[i].conn] = "none"
  /\ \A i, j \in DOMAIN rxq :
       rxq[i].type = "CONN_REQ" /\ rxq[j].type = "CONN_REQ" /\ rxq[i].conn = rxq[j].conn
         => i = j

(* The normal world's view of its connections. *)
Normal ==
  /\ \A r \in Remotes : /\ ns[r].st = "free" => ns[r] = Free
                        /\ ns[r].st # "free" => ns[r].conn \in Conns /\ ns[r].conn < next
  /\ \A r, q \in Remotes : ns[r].st # "free" /\ ns[r].conn = ns[q].conn => r = q
  /\ \A s \in InUse : LET r == ept[s].remote IN
       ns[r].st # "free" /\ ns[r].conn = ept[s].chan
  /\ \A i \in DOMAIN rxq : LET r == rxq[i].src IN
       /\ ns[r].st # "free" /\ ns[r].conn = rxq[i].conn
       /\ rxq[i].type = "DISC_REQ" => /\ ns[r].st = "closing"
                                      /\ \A j \in DOMAIN rxq : rxq[j].src = r => j <= i
  /\ \A r \in Remotes :
       /\ ns[r].st = "closing"
       /\ \/ \E s \in InUse : ept[s].remote = r
          \/ \E i \in DOMAIN rxq : rxq[i].src = r /\ rxq[i].type = "CONN_REQ"
       => \E i \in DOMAIN rxq : rxq[i].src = r /\ rxq[i].type = "DISC_REQ"

(* A connection that got a response with an address. *)
Connected(e) == e.st = "open" /\ e.local # None
Response(m, r) == m.type = "CONN_RSP" /\ m.dst = r /\ m.local # None

(* What the TX thread sends for a connection that is no longer there comes *)
(* before the response that would make the next one connected.             *)
Ordered ==
  /\ tx.pc \in {"loop", "send"} /\ tx.conn # ns[tx.remote].conn =>
       /\ ~Connected(ns[tx.remote])
       /\ \A i \in DOMAIN txq : ~Response(txq[i], tx.remote)
  /\ \A i \in DOMAIN txq :
       txq[i].type = "DATA" =>
         /\ txq[i].conn \in Conns /\ txq[i].dst \in Remotes
         /\ txq[i].conn # ns[txq[i].dst].conn =>
              /\ ~Connected(ns[txq[i].dst])
              /\ \A j \in DOMAIN txq : j < i => ~Response(txq[j], txq[i].dst)
  /\ \A i \in DOMAIN txq : txq[i].type \in {"CONN_RSP", "DISC_REQ"} => txq[i].dst \in Remotes

(* The channel of a connection that the normal world counts on is gone. *)
Lost(r) == /\ ns[r].st \in {"opening", "open"}
           /\ srv[ns[r].conn] = "closed" /\ ns[r].conn \notin open
Resetting == std \in {"rx_join", "close", "tx_join", "stopped"} \/ dev = "RESET"

(* The normal world is being told so. *)
Told ==
  \A r \in Remotes : Lost(r) =>
    \/ tx.pc = "disc" /\ tx.remote = r
    \/ \E i \in DOMAIN txq : txq[i].type = "DISC_REQ" /\ txq[i].dst = r
    \/ Resetting

IInv == TypeOK /\ Phase /\ Held /\ Epts /\ Fresh /\ Normal /\ stray = {} /\ Ordered /\ Told

-----------------------------------------------------------------------------
(* Helpers *)

RxMsg == [type : Types, src : Remotes, conn : Conns, dst : Slots \cup {None}]
TxMsgs == [type : Types, dst : Remotes \cup {None}, conn : Conns \cup {None},
           ok : BOOLEAN, local : Slots \cup {None}]

(* The first message of a queue and the others. *)
LEMMA HeadTail ==
  ASSUME NEW S, NEW q \in Seq(S), q # << >>
  PROVE  /\ Head(q) \in S /\ Tail(q) \in Seq(S)
         /\ Len(Tail(q)) < Len(q) /\ 1 \in DOMAIN q /\ q[1] = Head(q)
         /\ \A i \in DOMAIN Tail(q) : /\ i + 1 \in DOMAIN q /\ Tail(q)[i] = q[i + 1]
                                      /\ i \in Nat /\ i > 0
         /\ \A i \in DOMAIN q : i # 1 => /\ i - 1 \in DOMAIN Tail(q)
                                         /\ Tail(q)[i - 1] = q[i]
OBVIOUS

(* The messages of a queue after one was put at its end. *)
LEMMA AtEnd ==
  ASSUME NEW S, NEW q \in Seq(S), NEW m \in S
  PROVE  /\ Append(q, m) \in Seq(S) /\ Len(Append(q, m)) = Len(q) + 1
         /\ Len(q) + 1 \in DOMAIN Append(q, m) /\ Append(q, m)[Len(q) + 1] = m
         /\ \A i \in DOMAIN q : /\ i \in DOMAIN Append(q, m) /\ Append(q, m)[i] = q[i]
                                /\ i <= Len(q) /\ i \in Nat
         /\ \A i \in DOMAIN Append(q, m) : i \in DOMAIN q \/ i = Len(q) + 1
OBVIOUS

(* alloc_local_addr finds a slot that is not in use. *)
LEMMA AllocFree ==
  ASSUME InUse # Slots
  PROVE  alloc_local_addr \in Slots \ InUse
<1> DEFINE T == Slots \ InUse
<1>1. T \subseteq Nat /\ T # {}
  BY BoundAssumption DEF Slots, InUse
<1>2. PICK s \in T : \A t \in T : ~(<<t, s>> \in OpToRel(<, Nat))
  <2> HIDE DEF T
  <2> QED
    BY <1>1, WFMin, NatLessThanWellFounded
<1>3. \A t \in T : s <= t
  <2> TAKE t \in T
  <2>1. ~(<<t, s>> \in {ss \in Nat \X Nat : ss[1] < ss[2]})
    BY <1>2 DEF OpToRel
  <2>2. t \in Nat /\ s \in Nat
    BY <1>1
  <2> HIDE DEF T
  <2> QED
    BY <2>1, <2>2
<1> QED
  BY <1>3 DEF alloc_local_addr

(* What the normal world makes of a message. *)
LEMMA ReceiveEffect ==
  ASSUME TypeOK, NsReceive, \A i \in DOMAIN txq : txq[i].type \in {"CONN_RSP", "DISC_REQ"} =>
                              txq[i].dst \in Remotes
  PROVE  /\ txq # << >> /\ Head(txq) \in TxMsgs /\ txq \in Seq(TxMsgs) /\ txq' = Tail(txq)
         /\ Head(txq).type \in {"CONN_RSP", "DISC_REQ"} => Head(txq).dst \in Remotes
         /\ ns' \in [Remotes -> [st : {"free", "opening", "open", "closing", "dead"},
                                 conn : Conns \cup {None}, local : Slots \cup {None}]]
         /\ \A q \in Remotes :
              \/ ns'[q] = ns[q]
              \/ /\ Head(txq).type = "CONN_RSP" /\ Head(txq).dst = q /\ ns[q].st = "opening"
                 /\ ns'[q].st \in {"open", "dead"} /\ ns'[q].local = Head(txq).local
                 /\ ns'[q].conn = ns[q].conn
              \/ /\ Head(txq).type = "DISC_REQ" /\ Head(txq).dst = q
                 /\ ns[q].st \in {"opening", "open"}
                 /\ ns'[q].st = "dead" /\ ns'[q].conn = ns[q].conn
         /\ Head(txq).type = "DISC_REQ" => ns'[Head(txq).dst].st \notin {"opening", "open"}
<1> DEFINE m == Head(txq)  r == Head(txq).dst
           NsType == [st : {"free", "opening", "open", "closing", "dead"},
                      conn : Conns \cup {None}, local : Slots \cup {None}]
<1>1. txq # << >> /\ txq \in Seq(TxMsgs) /\ txq' = Tail(txq)
  BY DEF NsReceive, TypeOK, TxMsgs
<1>2. m \in TxMsgs /\ txq[1] = m /\ 1 \in DOMAIN txq
  BY <1>1, HeadTail
<1>3. m.type \in {"CONN_RSP", "DISC_REQ"} => r \in Remotes
  BY <1>2
<1>4. ns \in [Remotes -> NsType] /\ m.local \in Slots \cup {None}
  BY <1>2 DEF TypeOK, TxMsgs
<1>5. CASE m.type = "CONN_RSP" /\ ns[r].st = "opening"
  <2> DEFINE st == IF m.ok THEN "open" ELSE "dead"
             e == [[ns[r] EXCEPT !.st = st] EXCEPT !.local = m.local]
  <2>1. ns' = [[ns EXCEPT ![r].st = st] EXCEPT ![r].local = m.local]
    BY <1>5 DEF NsReceive
  <2>2. r \in Remotes /\ st \in {"open", "dead"}
    BY <1>3, <1>5
  <2> HIDE DEF st
  <2>3. e \in NsType /\ e.st = st /\ e.local = m.local /\ e.conn = ns[r].conn
    BY <1>4, <2>2
  <2>4. ns' = [ns EXCEPT ![r] = e]
    BY <1>4, <2>1, <2>2
  <2> HIDE DEF e
  <2>5. ns' \in [Remotes -> NsType] /\ ns'[r] = e /\ \A q \in Remotes : q # r => ns'[q] = ns[q]
    BY <1>4, <2>2, <2>3, <2>4
  <2> QED
    BY <1>1, <1>2, <1>3, <1>5, <2>2, <2>3, <2>5
<1>6. CASE m.type = "DISC_REQ" /\ ns[r].st \in {"opening", "open"}
  <2>1. ns' = [ns EXCEPT ![r].st = "dead"]
    BY <1>6 DEF NsReceive
  <2>2. r \in Remotes
    BY <1>3, <1>6
  <2>3. /\ ns' \in [Remotes -> NsType] /\ ns'[r].st = "dead" /\ ns'[r].conn = ns[r].conn
        /\ \A q \in Remotes : q # r => ns'[q] = ns[q]
    BY <1>4, <2>1, <2>2
  <2> QED
    BY <1>1, <1>2, <1>3, <1>6, <2>2, <2>3
<1>7. CASE /\ ~(m.type = "CONN_RSP" /\ ns[r].st = "opening")
           /\ ~(m.type = "DISC_REQ" /\ ns[r].st \in {"opening", "open"})
  <2>1. ns' = ns
    BY <1>7 DEF NsReceive
  <2> QED
    BY <1>1, <1>2, <1>3, <1>4, <1>7, <2>1
<1> QED
  BY <1>5, <1>6, <1>7

-----------------------------------------------------------------------------
(* Types *)

(* Every step keeps the types, and what the threads hold between their     *)
(* critical sections names a connection, an address and a slot.            *)
LEMMA StepType ==
  TypeOK /\ Held /\ Epts /\ Normal /\ Ordered /\ [Next]_vars => TypeOK' /\ Held'
<1> SUFFICES ASSUME TypeOK, Held, Epts, Normal, Ordered, [Next]_vars PROVE TypeOK' /\ Held'
  OBVIOUS
<1> USE DEF bus_vars, queue_vars, ns_vars, ept_vars, srv_vars
<1>0. /\ MaxConns \in Nat \ {0} /\ TxBufs \in Nat \ {0} /\ RxBufs \in Nat \ {0}
      /\ MaxMsgs \in Nat \ {0} /\ NumSlots \in Nat \ {0}
  BY BoundAssumption
<1>1. CASE virtio_start
  <2>1. online' \in BOOLEAN
    BY <1>1, Zenon DEF virtio_start
  <2> QED
    BY <1>0, <1>1, <2>1 DEF virtio_start, TypeOK, Held, Free
<1>2. CASE tipc_dev_probe
  BY <1>2 DEF tipc_dev_probe, TypeOK, Held, Thread, At
<1>3. CASE _go_online
  <2>1. GO_ONLINE \in TxMsgs
    BY DEF TxMsgs, Types, GO_ONLINE
  <2>2. txq \in Seq(TxMsgs)
    BY DEF TypeOK, TxMsgs
  <2>3. txq' \in Seq(TxMsgs) /\ Len(txq') <= TxBufs
    <3>1. CASE UNCHANGED txq
      BY <2>2, <3>1 DEF TypeOK
    <3>2. CASE txq' # txq
      BY <1>0, <1>3, <2>1, <2>2, <3>2, AtEnd DEF _go_online, Put
    <3> QED
      BY <3>1, <3>2
  <2> QED
    BY <1>3, <2>3 DEF _go_online, TypeOK, Held, TxMsgs
<1>4. CASE EndCall
  BY <1>4 DEF EndCall, TypeOK, Held
<1>5. CASE virtio_stop
  BY <1>5 DEF virtio_stop, TypeOK, Held
<1>6. CASE virtio_device_reset
  BY <1>6 DEF virtio_device_reset, TypeOK, Held
<1>7. CASE ResetRxJoin
  BY <1>7 DEF ResetRxJoin, TypeOK, Held
<1>8. CASE ResetClose
  BY <1>0, <1>8 DEF ResetClose, HungUp, TypeOK, Held
<1>9. CASE ResetTxJoin
  BY <1>0, <1>9 DEF ResetTxJoin, TypeOK, Held
<1>10. CASE RxStop
  BY <1>10 DEF RxStop, TypeOK, Held, Thread, At
<1>11. CASE ConnAdd
  BY <1>11 DEF ConnAdd, TypeOK, Held, Thread, At
<1>12. CASE TxExit
  BY <1>12 DEF TxExit, TypeOK, Held, Thread, At
<1>13. ASSUME NEW c \in Conns, Accept(c) \/ SrvSend(c) \/ SrvClose(c) PROVE TypeOK' /\ Held'
  <2>1. CASE Accept(c)
    BY <2>1 DEF Accept, TypeOK, Held
  <2>2. CASE SrvSend(c)
    <3>1. msgs' \in [Conns -> 0 .. MaxMsgs]
      BY <1>0, <2>2 DEF SrvSend, TypeOK
    <3> QED
      BY <2>2, <3>1 DEF SrvSend, TypeOK, Held
  <2>3. CASE SrvClose(c)
    BY <2>3 DEF SrvClose, TypeOK, Held
  <2> QED
    BY <1>13, <2>1, <2>2, <2>3
<1>14. ASSUME NEW c \in Conns, TxWait(c) PROVE TypeOK' /\ Held'
  BY <1>14 DEF TxWait, Event, TypeOK, Held, Thread, At
<1>15. CASE TxGone
  BY <1>15 DEF TxGone, TypeOK, Held, Thread, At
<1>16. CASE TxRead
  BY <1>16 DEF TxRead, TypeOK, Held, Thread, At, Epts, InUse
<1>17. CASE TxGetMsg
  <2>1. tx.conn \in Conns /\ tx.remote \in Remotes /\ tx.local \in Slots
    BY <1>17 DEF TxGetMsg, Held
  <2>2. msgs' \in [Conns -> 0 .. MaxMsgs]
    <3>1. msgs \in [Conns -> 0 .. MaxMsgs] /\ msgs[tx.conn] \in 0 .. MaxMsgs
      BY <2>1 DEF TypeOK
    <3>2. msgs[tx.conn] > 0 => msgs[tx.conn] - 1 \in 0 .. MaxMsgs
      BY <1>0, <3>1
    <3>3. msgs' = msgs \/ (msgs[tx.conn] > 0 /\ msgs' = [msgs EXCEPT ![tx.conn] = @ - 1])
      BY <1>17 DEF TxGetMsg
    <3> QED
      BY <3>1, <3>2, <3>3
  <2>3. /\ tx' \in [pc : {"none", "idle", "ready", "msg", "hup", "rsp", "loop", "send", "disc"},
                    conn : Conns \cup {None}, remote : Remotes \cup {None},
                    local : Slots \cup {None}]
        /\ tx'.pc \in {"idle", "send"}
        /\ tx'.pc = "send" => tx'.conn = tx.conn /\ tx'.remote = tx.remote /\ tx'.local = tx.local
    BY <1>17 DEF TxGetMsg, TypeOK, Thread, At
  <2> QED
    BY <1>17, <2>1, <2>2, <2>3 DEF TxGetMsg, TypeOK, Held
<1>18. ASSUME NEW r \in Remotes, NsOpen(r) PROVE TypeOK' /\ Held'
  <2>1. next \in Conns /\ next + 1 \in 1 .. MaxConns + 1
    BY <1>0, <1>18 DEF NsOpen, TypeOK, Conns
  <2>2. rxq' \in Seq(RxMsg) /\ Len(rxq') <= RxBufs
    <3>1. Msg("CONN_REQ", r, next, None) \in RxMsg /\ rxq \in Seq(RxMsg)
      BY <2>1 DEF Msg, RxMsg, Types, TypeOK
    <3> QED
      BY <1>0, <1>18, <3>1, AtEnd DEF NsOpen, NsPut
  <2> QED
    BY <1>18, <2>1, <2>2 DEF NsOpen, TypeOK, Held, RxMsg
<1>19. ASSUME NEW r \in Remotes, NsSend(r), ns[r].conn \in Conns PROVE TypeOK' /\ Held'
  <2>1. rxq' \in Seq(RxMsg) /\ Len(rxq') <= RxBufs
    <3>1. Msg("DATA", r, ns[r].conn, ns[r].local) \in RxMsg /\ rxq \in Seq(RxMsg)
      BY <1>19 DEF Msg, RxMsg, Types, TypeOK
    <3> QED
      BY <1>0, <1>19, <3>1, AtEnd DEF NsSend, NsPut
  <2> QED
    BY <1>19, <2>1 DEF NsSend, TypeOK, Held, RxMsg
<1>20. ASSUME NEW r \in Remotes, NsClose(r), ns[r].conn \in Conns PROVE TypeOK' /\ Held'
  <2>1. rxq' \in Seq(RxMsg) /\ Len(rxq') <= RxBufs
    <3>1. Msg("DISC_REQ", r, ns[r].conn, ns[r].local) \in RxMsg /\ rxq \in Seq(RxMsg)
      BY <1>20 DEF Msg, RxMsg, Types, TypeOK
    <3> QED
      BY <1>0, <1>20, <3>1, AtEnd DEF NsClose, NsPut
  <2>2. ns' \in [Remotes -> [st : {"free", "opening", "open", "closing", "dead"},
                             conn : Conns \cup {None}, local : Slots \cup {None}]]
    <3>1. ns \in [Remotes -> [st : {"free", "opening", "open", "closing", "dead"},
                              conn : Conns \cup {None}, local : Slots \cup {None}]]
      BY DEF TypeOK
    <3>2. ns' = [ns EXCEPT ![r].st = "closing"]
      BY <1>20 DEF NsClose
    <3> QED
      BY <3>1, <3>2
  <2> QED
    BY <1>20, <2>1, <2>2 DEF NsClose, TypeOK, Held, RxMsg
<1>21. ASSUME NEW r \in Remotes, NsReuse(r) PROVE TypeOK' /\ Held'
  BY <1>21 DEF NsReuse, TypeOK, Held, Free
<1>22. CASE NsReceive
  <2>1. /\ Head(txq) \in TxMsgs /\ Tail(txq) \in Seq(TxMsgs) /\ Len(Tail(txq)) <= TxBufs
    <3>1. txq \in Seq(TxMsgs) /\ txq # << >> /\ Len(txq) <= TxBufs
      BY <1>22 DEF NsReceive, TypeOK, TxMsgs
    <3> QED
      BY <1>0, <3>1, HeadTail
  <2>2. ns' \in [Remotes -> [st : {"free", "opening", "open", "closing", "dead"},
                             conn : Conns \cup {None}, local : Slots \cup {None}]]
    BY <1>22, ReceiveEffect DEF Ordered
  <2>3. online' \in BOOLEAN
    BY <1>22 DEF NsReceive, TypeOK
  <2> QED
    BY <1>22, <2>1, <2>2, <2>3 DEF NsReceive, TypeOK, Held, TxMsgs
<1>23. ASSUME NEW type, Gets(type)
       PROVE  /\ Head(rxq) \in RxMsg /\ rxq' \in Seq(RxMsg) /\ Len(rxq') <= RxBufs
  <2>1. rxq \in Seq(RxMsg) /\ rxq # << >> /\ Len(rxq) <= RxBufs
    BY <1>23 DEF Gets, TypeOK, RxMsg
  <2> QED
    BY <1>0, <1>23, <2>1, HeadTail DEF Gets
<1>24. CASE handle_conn_req
  <2>1. Head(rxq) \in RxMsg /\ rxq' \in Seq(RxMsg) /\ Len(rxq') <= RxBufs
    BY <1>23, <1>24 DEF handle_conn_req
  <2>2. InUse # Slots => alloc_local_addr \in Slots
    BY AllocFree
  <2>3. Head(rxq).src \in Remotes /\ Head(rxq).conn \in Conns
    BY <2>1 DEF RxMsg
  <2>4. /\ ept' \in [Slots -> {None} \cup [remote : Remotes, chan : Conns]]
        /\ open' \subseteq Conns
        /\ srv' \in [Conns -> {"none", "pending", "accepted", "closed"}]
        /\ rx' \in [pc : {"none", "wait", "err", "full", "add"},
                    conn : Conns \cup {None}, remote : Remotes \cup {None},
                    local : Slots \cup {None}]
        /\ rx'.conn \in Conns /\ rx'.remote \in Remotes
    <3>1. /\ ept \in [Slots -> {None} \cup [remote : Remotes, chan : Conns]]
          /\ open \subseteq Conns
          /\ srv \in [Conns -> {"none", "pending", "accepted", "closed"}]
      BY DEF TypeOK
    <3>2. CASE UNCHANGED <<ept, open, srv>> /\ (\/ rx' = At("err", Head(rxq).conn, Head(rxq).src, None)
                                                \/ rx' = At("full", Head(rxq).conn, Head(rxq).src, None))
      BY <2>3, <3>1, <3>2 DEF At
    <3>3. CASE /\ InUse # Slots
               /\ ept' = [ept EXCEPT ![alloc_local_addr] =
                             [remote |-> Head(rxq).src, chan |-> Head(rxq).conn]]
               /\ open' = open \cup {Head(rxq).conn}
               /\ srv' = [srv EXCEPT ![Head(rxq).conn] = "pending"]
               /\ rx' = At("add", Head(rxq).conn, Head(rxq).src, alloc_local_addr)
      BY <2>2, <2>3, <3>1, <3>3 DEF At
    <3> QED
      BY <1>24, <3>2, <3>3 DEF handle_conn_req
  <2> QED
    BY <1>24, <2>1, <2>4 DEF handle_conn_req, TypeOK, Held, RxMsg
<1>25. CASE ConnRsp
  <2>1. Rsp(rx.remote, rx.conn, rx.pc = "full", None) \in TxMsgs /\ txq \in Seq(TxMsgs)
    BY <1>25 DEF ConnRsp, Rsp, TxMsgs, Types, TypeOK, Held
  <2>2. txq' \in Seq(TxMsgs) /\ Len(txq') <= TxBufs
    BY <1>0, <1>25, <2>1, AtEnd DEF ConnRsp, Put
  <2> QED
    BY <1>25, <2>2 DEF ConnRsp, TypeOK, Held, Thread, At, TxMsgs
<1>26. ASSUME NEW s \in InUse, CloseEpt(s)
       PROVE  /\ ept' \in [Slots -> {None} \cup [remote : Remotes, chan : Conns]]
              /\ cookie' \in [Conns -> Slots \cup {None}]
              /\ list' \subseteq Conns /\ open' \subseteq Conns /\ ready' \subseteq Conns
              /\ stray' \subseteq Conns
              /\ srv' \in [Conns -> {"none", "pending", "accepted", "closed"}]
              /\ msgs' \in [Conns -> 0 .. MaxMsgs]
  BY <1>0, <1>26 DEF CloseEpt, HungUp, TypeOK, InUse
<1>27. CASE handle_disc_req
  <2>1. Head(rxq) \in RxMsg /\ rxq' \in Seq(RxMsg) /\ Len(rxq') <= RxBufs
    BY <1>23, <1>27 DEF handle_disc_req
  <2>2. DiscTarget(Head(rxq).src, Head(rxq).dst) \subseteq InUse
    BY DEF DiscTarget
  <2>3. /\ ept' \in [Slots -> {None} \cup [remote : Remotes, chan : Conns]]
        /\ cookie' \in [Conns -> Slots \cup {None}]
        /\ list' \subseteq Conns /\ open' \subseteq Conns /\ ready' \subseteq Conns
        /\ stray' \subseteq Conns
        /\ srv' \in [Conns -> {"none", "pending", "accepted", "closed"}]
        /\ msgs' \in [Conns -> 0 .. MaxMsgs]
    <3>1. CASE UNCHANGED <<ept_vars, srv_vars>>
      BY <3>1 DEF TypeOK
    <3>2. CASE \E s \in DiscTarget(Head(rxq).src, Head(rxq).dst) : CloseEpt(s)
      BY <1>26, <2>2, <3>2
    <3> QED
      BY <1>27, <3>1, <3>2 DEF handle_disc_req
  <2> QED
    <3>1. /\ rx' = Thread("wait") /\ UNCHANGED <<bus, dev, std, txq, ns, online, next, tx>>
      BY <1>27 DEF handle_disc_req
    <3>2. rx' \in [pc : {"none", "wait", "err", "full", "add"},
                   conn : Conns \cup {None}, remote : Remotes \cup {None},
                   local : Slots \cup {None}] /\ rx'.pc = "wait"
      BY <3>1 DEF Thread, At
    <3>3. TypeOK'
      BY <2>1, <2>3, <3>1, <3>2 DEF TypeOK, RxMsg
    <3>4. Held'
      BY <3>1, <3>2 DEF Held
    <3> QED
      BY <3>3, <3>4
<1>28. CASE handle_chan_msg
  <2>1. Head(rxq) \in RxMsg /\ rxq' \in Seq(RxMsg) /\ Len(rxq') <= RxBufs
    BY <1>23, <1>28 DEF handle_chan_msg
  <2> QED
    BY <1>28, <2>1 DEF handle_chan_msg, TypeOK, Held, Thread, At, RxMsg
<1>29. CASE handle_hup
  <2>1. tx.conn \in Conns /\ cookie[tx.conn] \in InUse /\ cookie[tx.conn] \in Slots
    BY <1>29 DEF handle_hup, Held, Epts, InUse
  <2>2. ept[cookie[tx.conn]].remote \in Remotes
    BY <2>1 DEF InUse, TypeOK
  <2>3. /\ ept' \in [Slots -> {None} \cup [remote : Remotes, chan : Conns]]
        /\ cookie' \in [Conns -> Slots \cup {None}]
        /\ list' \subseteq Conns /\ open' \subseteq Conns /\ ready' \subseteq Conns
        /\ stray' \subseteq Conns
        /\ srv' \in [Conns -> {"none", "pending", "accepted", "closed"}]
        /\ msgs' \in [Conns -> 0 .. MaxMsgs]
    BY <1>26, <1>29, <2>1 DEF handle_hup
  <2> QED
    BY <1>29, <2>1, <2>2, <2>3 DEF handle_hup, TypeOK, Held, At
<1>30. CASE TxSend
  <2>1. TxMsg \in TxMsgs /\ txq \in Seq(TxMsgs)
    BY <1>30 DEF TxSend, TxMsg, Rsp, TxMsgs, Types, TypeOK, Held
  <2>2. txq' \in Seq(TxMsgs) /\ Len(txq') <= TxBufs
    <3>1. CASE Put(TxMsg)
      BY <1>0, <2>1, <3>1, AtEnd DEF Put
    <3>2. CASE UNCHANGED txq
      BY <2>1, <3>2 DEF TypeOK
    <3> QED
      BY <1>30, <3>1, <3>2 DEF TxSend
  <2>3. /\ tx' \in [pc : {"none", "idle", "ready", "msg", "hup", "rsp", "loop", "send", "disc"},
                    conn : Conns \cup {None}, remote : Remotes \cup {None},
                    local : Slots \cup {None}]
        /\ tx'.pc \in {"idle", "loop"}
        /\ tx'.pc = "loop" => /\ tx'.conn = tx.conn /\ tx'.remote = tx.remote
                              /\ tx'.local = tx.local /\ tx.pc = "send"
    BY <1>30 DEF TxSend, TypeOK, Thread, At
  <2> QED
    BY <1>30, <2>2, <2>3 DEF TxSend, TypeOK, Held, TxMsgs
<1>31. CASE UNCHANGED vars
  BY <1>31 DEF vars, TypeOK, Held
<1>32. \A r \in Remotes : ns[r].st # "free" => ns[r].conn \in Conns
  BY DEF Normal
<1> QED
  BY <1>1, <1>2, <1>3, <1>4, <1>5, <1>6, <1>7, <1>8, <1>9, <1>10, <1>11, <1>12, <1>13,
     <1>14, <1>15, <1>16, <1>17, <1>18, <1>19, <1>20, <1>21, <1>22, <1>24, <1>25, <1>27,
     <1>28, <1>29, <1>30, <1>31, <1>32
  DEF Next, StartedTwice, StdStep, RxStep, TxStep, NsSend, NsClose

-----------------------------------------------------------------------------
(* What the steps on the endpoints do *)

(* The messages to the device have an address and a connection. *)
LEMMA RxTyped ==
  ASSUME TypeOK
  PROVE  \A i \in DOMAIN rxq : rxq[i].src \in Remotes /\ rxq[i].conn \in Conns
<1> TAKE i \in DOMAIN rxq
<1>1. rxq \in Seq(RxMsg)
  BY DEF TypeOK, RxMsg
<1>2. rxq[i] \in RxMsg
  BY <1>1
<1> QED
  BY <1>2 DEF RxMsg

(* The RX thread takes the first message. *)
LEMMA GetsEffect ==
  ASSUME TypeOK, NEW type, Gets(type)
  PROVE  /\ rx.pc = "wait" /\ Head(rxq).type = type
         /\ Head(rxq).src \in Remotes /\ Head(rxq).conn \in Conns
         /\ 1 \in DOMAIN rxq /\ rxq[1] = Head(rxq)
         /\ \A i \in DOMAIN rxq' : /\ i + 1 \in DOMAIN rxq /\ rxq'[i] = rxq[i + 1]
                                   /\ i \in Nat /\ i > 0
         /\ \A i \in DOMAIN rxq : i # 1 => i - 1 \in DOMAIN rxq' /\ rxq'[i - 1] = rxq[i]
         /\ \A i \in DOMAIN rxq : i \in Nat
<1>1. /\ rxq # << >> /\ rxq \in Seq(RxMsg) /\ Head(rxq).type = type /\ rx.pc = "wait"
      /\ rxq' = Tail(rxq)
  BY DEF Gets, TypeOK, RxMsg
<1>2. Head(rxq) \in RxMsg
  BY <1>1, HeadTail
<1>3. Head(rxq).src \in Remotes /\ Head(rxq).conn \in Conns
  BY <1>2 DEF RxMsg
<1>4. \A i \in DOMAIN rxq : i \in Nat
  BY <1>1
<1> QED
  BY <1>1, <1>3, <1>4, HeadTail

(* CloseEpt takes one slot and its channel away. *)
LEMMA CloseEffect ==
  ASSUME TypeOK, Epts, NEW s \in InUse, CloseEpt(s)
  PROVE  /\ s \in Slots /\ ept[s].chan \in Conns /\ ept[s].chan \in open
         /\ ept[s].remote \in Remotes
         /\ open' = open \ {ept[s].chan} /\ list' = list \ {ept[s].chan}
         /\ \A t \in Slots : ept'[t] = IF t = s THEN None ELSE ept[t]
         /\ \A c \in Conns : /\ cookie'[c] = IF c = ept[s].chan THEN None ELSE cookie[c]
                             /\ srv'[c] = IF c = ept[s].chan THEN "closed" ELSE srv[c]
         /\ InUse' = InUse \ {s} /\ stray' = stray
<1>1. s \in Slots /\ ept[s] \in [remote : Remotes, chan : Conns]
  BY DEF InUse, TypeOK
<1>2. ept[s].chan \in Conns /\ ept[s].remote \in Remotes /\ ept[s].chan \in open
  BY <1>1 DEF Epts
<1>3. \A t \in Slots : ept'[t] = IF t = s THEN None ELSE ept[t]
  BY <1>1 DEF CloseEpt, TypeOK
<1>4. \A c \in Conns : cookie'[c] = IF c = ept[s].chan THEN None ELSE cookie[c]
  BY <1>2 DEF CloseEpt, TypeOK
<1>5. \A c \in Conns : srv'[c] = IF c = ept[s].chan THEN "closed" ELSE srv[c]
  BY <1>2 DEF CloseEpt, HungUp
<1>6. InUse' = InUse \ {s}
  BY <1>1, <1>3 DEF InUse
<1> QED
  BY <1>1, <1>2, <1>3, <1>4, <1>5, <1>6 DEF CloseEpt, HungUp

(* handle_disc_req closes an endpoint of the sender, or does nothing. *)
LEMMA DiscEffect ==
  ASSUME handle_disc_req
  PROVE  \/ UNCHANGED <<ept, cookie, list, open, srv, ready, msgs, stray>>
         \/ \E s \in InUse : ept[s].remote = Head(rxq).src /\ CloseEpt(s)
BY DEF handle_disc_req, DiscTarget, ept_vars, srv_vars

(* handle_conn_req refuses, or puts the channel in a slot that was free. *)
LEMMA ConnEffect ==
  ASSUME TypeOK, handle_conn_req
  PROVE  /\ Head(rxq).conn \in Conns /\ Head(rxq).src \in Remotes
         /\ Head(rxq).type = "CONN_REQ" /\ rx.pc = "wait"
         /\ \/ UNCHANGED <<ept, open, srv>> /\ rx'.pc \in {"err", "full"}
            \/ \E s \in Slots \ InUse :
                 /\ ept'[s] = [remote |-> Head(rxq).src, chan |-> Head(rxq).conn]
                 /\ ept'[s].remote = Head(rxq).src /\ ept'[s].chan = Head(rxq).conn
                 /\ \A t \in Slots : t # s => ept'[t] = ept[t]
                 /\ open' = open \cup {Head(rxq).conn}
                 /\ \A c \in Conns :
                      srv'[c] = IF c = Head(rxq).conn THEN "pending" ELSE srv[c]
                 /\ rx'.pc = "add" /\ rx'.conn = Head(rxq).conn /\ rx'.local = s
                 /\ InUse' = InUse \cup {s}
<1>1. Head(rxq).type = "CONN_REQ" /\ rx.pc = "wait"
  BY GetsEffect DEF handle_conn_req
<1>2. Head(rxq).conn \in Conns /\ Head(rxq).src \in Remotes
  BY GetsEffect DEF handle_conn_req
<1>3. CASE UNCHANGED <<ept, open, srv>> /\ (\/ rx' = At("err", Head(rxq).conn, Head(rxq).src, None)
                                            \/ rx' = At("full", Head(rxq).conn, Head(rxq).src, None))
  BY <1>1, <1>2, <1>3 DEF At
<1>4. CASE /\ InUse # Slots
           /\ ept' = [ept EXCEPT ![alloc_local_addr] =
                         [remote |-> Head(rxq).src, chan |-> Head(rxq).conn]]
           /\ open' = open \cup {Head(rxq).conn}
           /\ srv' = [srv EXCEPT ![Head(rxq).conn] = "pending"]
           /\ rx' = At("add", Head(rxq).conn, Head(rxq).src, alloc_local_addr)
  <2>1. PICK s \in Slots \ InUse : s = alloc_local_addr
    BY <1>4, AllocFree
  <2>2. /\ ept'[s] = [remote |-> Head(rxq).src, chan |-> Head(rxq).conn]
        /\ \A t \in Slots : t # s => ept'[t] = ept[t]
    BY <1>4, <2>1 DEF TypeOK
  <2>3. ept'[s].remote = Head(rxq).src /\ ept'[s].chan = Head(rxq).conn /\ ept'[s] # None
    BY <1>2, <2>2, NoneAssumption
  <2>4. InUse' = InUse \cup {s}
    BY <2>2, <2>3 DEF InUse
  <2>5. \A c \in Conns : srv'[c] = IF c = Head(rxq).conn THEN "pending" ELSE srv[c]
    BY <1>2, <1>4 DEF TypeOK
  <2>6. rx'.pc = "add" /\ rx'.conn = Head(rxq).conn /\ rx'.local = s
    BY <1>4, <2>1 DEF At
  <2> QED
    BY <1>1, <1>2, <1>4, <2>2, <2>3, <2>4, <2>5, <2>6
<1> QED
  BY <1>3, <1>4 DEF handle_conn_req

-----------------------------------------------------------------------------
(* The phases of the calls *)

(* Every step keeps the phases: the RX thread is gone before the channels  *)
(* are closed, the TX thread before the device counts as reset.            *)
LEMMA StepPhase ==
  TypeOK /\ Held /\ Epts /\ Normal /\ Ordered /\ Phase /\ [Next]_vars => Phase'
<1> SUFFICES ASSUME TypeOK, Held, Epts, Normal, Ordered, Phase, [Next]_vars PROVE Phase'
  OBVIOUS
<1> USE DEF bus_vars, queue_vars, ns_vars, ept_vars, srv_vars, Unknown, Asleep, Thread, At
<1>1. CASE virtio_start
  BY <1>1 DEF virtio_start, Phase, Free
<1>2. CASE tipc_dev_probe
  BY <1>2 DEF tipc_dev_probe, Phase, Thread, At
<1>3. CASE _go_online
  BY <1>3 DEF _go_online, Phase
<1>4. CASE EndCall
  BY <1>4 DEF EndCall, Phase
<1>5. CASE virtio_stop
  BY <1>5 DEF virtio_stop, Phase, TypeOK
<1>6. CASE virtio_device_reset
  BY <1>6 DEF virtio_device_reset, Phase
<1>7. CASE ResetRxJoin
  BY <1>7 DEF ResetRxJoin, Phase
<1>8. CASE ResetClose
  <2>1. open' = {} /\ list' = {}
    BY <1>8 DEF ResetClose, Epts, InUse
  <2>2. \A s \in Slots : ept'[s] = None
    BY <1>8 DEF ResetClose
  <2> QED
    BY <1>8, <2>1, <2>2 DEF ResetClose, Phase
<1>9. CASE ResetTxJoin
  BY <1>9 DEF ResetTxJoin, Phase
<1>10. CASE RxStop \/ ConnAdd \/ ConnRsp
  BY <1>10 DEF RxStop, ConnAdd, ConnRsp, Phase, Thread, At
<1>11. ASSUME NEW type, Gets(type) PROVE dev = "ACTIVE" /\ std \notin {"close", "tx_join"}
  <2>1. 1 \in DOMAIN rxq /\ rxq[1].src \in Remotes /\ rx.pc = "wait"
    BY <1>11, GetsEffect
  <2>2. ns[rxq[1].src].st # "free"
    BY <2>1 DEF Normal
  <2> QED
    BY <2>1, <2>2 DEF Phase, TypeOK
<1>12. CASE handle_conn_req
  <2>1. dev = "ACTIVE" /\ std \notin {"close", "tx_join"}
    BY <1>11, <1>12 DEF handle_conn_req
  <2> QED
    BY <1>12, <2>1 DEF handle_conn_req, Phase
<1>13. CASE handle_disc_req
  <2>1. dev = "ACTIVE" /\ std \notin {"close", "tx_join"}
    BY <1>11, <1>13 DEF handle_disc_req
  <2> QED
    BY <1>13, <2>1 DEF handle_disc_req, Phase
<1>14. CASE handle_chan_msg
  <2>1. dev = "ACTIVE" /\ std \notin {"close", "tx_join"}
    BY <1>11, <1>14 DEF handle_chan_msg
  <2> QED
    BY <1>14, <2>1 DEF handle_chan_msg, Phase
<1>15. ASSUME NEW c \in Conns, TxWait(c) PROVE Phase'
  BY <1>15 DEF TxWait, Phase
<1>16. CASE TxGone \/ TxRead \/ TxGetMsg \/ TxSend \/ TxExit
  <2>1. UNCHANGED <<bus, dev, std, ns, ept, list, open, rx>> /\ tx.pc # "none"
    BY <1>16 DEF TxGone, TxRead, TxGetMsg, TxSend, TxExit
  <2>2. tx.pc # "idle" \/ std \in {"close", "tx_join"}
    BY <1>16 DEF TxGone, TxRead, TxGetMsg, TxSend, TxExit, tx_stop
  <2>3. dev = "ACTIVE"
    BY <2>1, <2>2 DEF Phase, TypeOK
  <2> QED
    BY <2>1, <2>3 DEF Phase
<1>17. CASE handle_hup
  <2>1. tx.conn \in Conns /\ cookie[tx.conn] \in InUse /\ CloseEpt(cookie[tx.conn])
    BY <1>17 DEF handle_hup, Held, Epts
  <2>2. open # {} /\ UNCHANGED <<bus, dev, std, ns, rx>>
    BY <1>17, <2>1, CloseEffect DEF handle_hup
  <2> QED
    BY <2>2 DEF Phase
<1>18. CASE NsReceive
  <2>1. \A r \in Remotes : ns[r].st = "free" => ns'[r].st = "free"
    BY <1>18, ReceiveEffect DEF Ordered
  <2> QED
    BY <1>18, <2>1 DEF NsReceive, Phase
<1>19. ASSUME NEW r \in Remotes, NsOpen(r) \/ NsSend(r) \/ NsClose(r) \/ NsReuse(r)
       PROVE  Phase'
  <2>1. UNCHANGED <<bus, dev, std, rx, tx, ept, list, open>>
    BY <1>19 DEF NsOpen, NsSend, NsClose, NsReuse
  <2>2. dev = "RESET" /\ Unknown => Unknown'
    BY <1>19 DEF NsOpen, NsSend, NsClose, NsReuse, NsPut
  <2> QED
    BY <2>1, <2>2 DEF Phase
<1>20. ASSUME NEW c \in Conns, Accept(c) \/ SrvSend(c) \/ SrvClose(c) PROVE Phase'
  BY <1>20 DEF Accept, SrvSend, SrvClose, Phase
<1>21. CASE UNCHANGED vars
  BY <1>21 DEF vars, Phase
<1> QED
  BY <1>1, <1>2, <1>3, <1>4, <1>5, <1>6, <1>7, <1>8, <1>9, <1>10, <1>12, <1>13, <1>14,
     <1>15, <1>16, <1>17, <1>18, <1>19, <1>20, <1>21
  DEF Next, StartedTwice, StdStep, RxStep, TxStep

-----------------------------------------------------------------------------
(* The endpoints *)

(* Nothing but the RX thread's place changes, and it adds nothing. *)
LEMMA EptsFrame ==
  ASSUME Epts, UNCHANGED <<ept, cookie, list, open>>,
         rx' = rx \/ (rx.pc # "add" /\ rx'.pc # "add")
  PROVE  Epts'
<1>1. InUse' = InUse
  BY DEF InUse
<1> QED
  BY <1>1 DEF Epts

(* An endpoint that is not the one being added is closed. *)
LEMMA EptsClose ==
  ASSUME TypeOK, Epts, NEW s \in InUse, CloseEpt(s),
         ~(rx.pc = "add" /\ rx.conn = ept[s].chan),
         rx' = rx \/ (rx.pc # "add" /\ rx'.pc # "add"), Held
  PROVE  Epts'
<1> DEFINE c == ept[s].chan
<1>0. /\ s \in Slots /\ c \in Conns /\ c \in open
      /\ open' = open \ {c} /\ list' = list \ {c}
      /\ \A t \in Slots : ept'[t] = IF t = s THEN None ELSE ept[t]
      /\ \A d \in Conns : cookie'[d] = IF d = c THEN None ELSE cookie[d]
      /\ InUse' = InUse \ {s}
  BY CloseEffect
<1> HIDE DEF c
<1>1. InUse \subseteq Slots /\ c = ept[s].chan /\ open \subseteq Conns
  BY DEF InUse, c, TypeOK
<1>2. open' = {ept'[t].chan : t \in InUse'}
  <2>1. \A d : d \in open' <=> \E t \in InUse' : d = ept'[t].chan
    BY <1>0, <1>1 DEF Epts
  <2> QED
    BY <2>1
<1>3. \A t, u \in InUse' : ept'[t].chan = ept'[u].chan => t = u
  BY <1>0, <1>1 DEF Epts
<1>4. list' \subseteq open'
  BY <1>0 DEF Epts
<1>5. \A d \in open' : \/ d \in list' /\ cookie'[d] # None
                       \/ rx'.pc = "add" /\ rx'.conn = d
  BY <1>0, <1>1 DEF Epts
<1>6. \A d \in Conns : cookie'[d] # None =>
        /\ d \in open' /\ cookie'[d] \in InUse' /\ ept'[cookie'[d]].chan = d
        /\ ~ (rx'.pc = "add" /\ rx'.conn = d)
  <2> SUFFICES ASSUME NEW d \in Conns, cookie'[d] # None
               PROVE  /\ d \in open' /\ cookie'[d] \in InUse' /\ ept'[cookie'[d]].chan = d
                      /\ ~ (rx'.pc = "add" /\ rx'.conn = d)
    OBVIOUS
  <2>1. d # c /\ cookie'[d] = cookie[d] /\ cookie[d] # None
    BY <1>0
  <2>2. /\ d \in open /\ cookie[d] \in InUse /\ ept[cookie[d]].chan = d
        /\ ~ (rx.pc = "add" /\ rx.conn = d)
    BY <2>1 DEF Epts
  <2> QED
    BY <1>0, <1>1, <2>1, <2>2
<1>7. rx'.pc = "add" => /\ rx'.local \in InUse' /\ ept'[rx'.local].chan = rx'.conn
                        /\ cookie'[rx'.conn] = None
  <2> SUFFICES ASSUME rx'.pc = "add"
               PROVE  /\ rx'.local \in InUse' /\ ept'[rx'.local].chan = rx'.conn
                      /\ cookie'[rx'.conn] = None
    OBVIOUS
  <2>1. rx' = rx /\ rx.pc = "add" /\ rx.conn # c /\ rx.conn \in Conns
    BY <1>1 DEF Held
  <2>2. rx.local \in InUse /\ ept[rx.local].chan = rx.conn /\ cookie[rx.conn] = None
    BY <2>1 DEF Epts
  <2> QED
    BY <1>0, <1>1, <2>1, <2>2
<1> QED
  BY <1>2, <1>3, <1>4, <1>5, <1>6, <1>7 DEF Epts

(* Every step keeps endpoints and channels one to one. *)
LEMMA StepEpts ==
  TypeOK /\ Phase /\ Held /\ Fresh /\ Epts /\ [Next]_vars => Epts'
<1> SUFFICES ASSUME TypeOK, Phase, Held, Fresh, Epts, [Next]_vars PROVE Epts'
  OBVIOUS
<1> USE DEF bus_vars, queue_vars, ns_vars, ept_vars, srv_vars
<1>1. CASE \/ virtio_start \/ virtio_stop \/ virtio_device_reset \/ _go_online \/ EndCall
           \/ ResetRxJoin \/ ResetTxJoin \/ NsReceive \/ UNCHANGED vars
  <2>1. UNCHANGED <<ept, cookie, list, open, rx>>
    BY <1>1 DEF virtio_start, virtio_stop, virtio_device_reset, _go_online, EndCall,
                ResetRxJoin, ResetTxJoin, NsReceive, vars
  <2> QED
    BY <2>1, EptsFrame
<1>2. ASSUME NEW r \in Remotes, NsOpen(r) \/ NsSend(r) \/ NsClose(r) \/ NsReuse(r)
      PROVE  Epts'
  <2>1. UNCHANGED <<ept, cookie, list, open, rx>>
    BY <1>2 DEF NsOpen, NsSend, NsClose, NsReuse
  <2> QED
    BY <2>1, EptsFrame
<1>3. ASSUME NEW c \in Conns, Accept(c) \/ SrvSend(c) \/ SrvClose(c) \/ TxWait(c)
      PROVE  Epts'
  <2>1. UNCHANGED <<ept, cookie, list, open, rx>>
    BY <1>3 DEF Accept, SrvSend, SrvClose, TxWait
  <2> QED
    BY <2>1, EptsFrame
<1>4. CASE TxGone \/ TxRead \/ TxGetMsg \/ TxSend \/ TxExit
  <2>1. UNCHANGED <<ept, cookie, list, open, rx>>
    BY <1>4 DEF TxGone, TxRead, TxGetMsg, TxSend, TxExit
  <2> QED
    BY <2>1, EptsFrame
<1>5. CASE tipc_dev_probe \/ RxStop \/ ConnRsp \/ handle_chan_msg
  <2>1. UNCHANGED <<ept, cookie, list, open>> /\ (rx' = rx \/ (rx.pc # "add" /\ rx'.pc # "add"))
    BY <1>5 DEF tipc_dev_probe, RxStop, ConnRsp, handle_chan_msg, Gets, Thread, At, Phase
  <2> QED
    BY <2>1, EptsFrame
<1>6. CASE ResetClose
  <2>1. /\ InUse' = {} /\ open' = {} /\ list' = {} /\ rx'.pc = "none"
        /\ \A c \in Conns : cookie'[c] = None
    <3>1. InUse' = {} /\ rx'.pc = "none"
      BY <1>6 DEF ResetClose, InUse, Phase
    <3>2. open' = {} /\ list' = {}
      BY <1>6 DEF ResetClose, Epts, InUse
    <3>3. \A c \in Conns : cookie'[c] = IF c \in open THEN None ELSE cookie[c]
      BY <1>6 DEF ResetClose, Epts, InUse
    <3> QED
      BY <3>1, <3>2, <3>3 DEF Epts
  <2> QED
    BY <2>1 DEF Epts
<1>7. CASE handle_conn_req
  <2>1. /\ Head(rxq).conn \in Conns /\ rx.pc = "wait"
        /\ Head(rxq).type = "CONN_REQ" /\ rxq[1] = Head(rxq) /\ 1 \in DOMAIN rxq
    BY <1>7, ConnEffect, GetsEffect DEF handle_conn_req
  <2>2. Head(rxq).conn \notin open /\ cookie[Head(rxq).conn] = None
    BY <2>1 DEF Fresh, Epts
  <2>3. CASE UNCHANGED <<ept, open, srv>> /\ rx'.pc \in {"err", "full"}
    BY <1>7, <2>1, <2>3, EptsFrame DEF handle_conn_req
  <2>4. ASSUME NEW s \in Slots \ InUse,
               ept'[s].chan = Head(rxq).conn,
               \A t \in Slots : t # s => ept'[t] = ept[t],
               open' = open \cup {Head(rxq).conn},
               rx'.pc = "add", rx'.conn = Head(rxq).conn, rx'.local = s,
               InUse' = InUse \cup {s}
        PROVE  Epts'
    <3>0. UNCHANGED <<cookie, list>> /\ InUse \subseteq Slots
      BY <1>7 DEF handle_conn_req, InUse
    <3>1. open' = {ept'[t].chan : t \in InUse'}
      <4>1. \A d : d \in open' <=> \E t \in InUse' : d = ept'[t].chan
        BY <2>4, <3>0 DEF Epts
      <4> QED
        BY <4>1
    <3>2. \A t, u \in InUse' : ept'[t].chan = ept'[u].chan => t = u
      BY <2>2, <2>4, <3>0 DEF Epts
    <3>3. list' \subseteq open'
      BY <2>4, <3>0 DEF Epts
    <3>4. \A d \in open' : \/ d \in list' /\ cookie'[d] # None
                           \/ rx'.pc = "add" /\ rx'.conn = d
      BY <2>1, <2>4, <3>0 DEF Epts
    <3>5. \A d \in Conns : cookie'[d] # None =>
            /\ d \in open' /\ cookie'[d] \in InUse' /\ ept'[cookie'[d]].chan = d
            /\ ~ (rx'.pc = "add" /\ rx'.conn = d)
      BY <2>2, <2>4, <3>0 DEF Epts
    <3>6. rx'.pc = "add" => /\ rx'.local \in InUse' /\ ept'[rx'.local].chan = rx'.conn
                            /\ cookie'[rx'.conn] = None
      BY <2>2, <2>4, <3>0
    <3> QED
      BY <3>1, <3>2, <3>3, <3>4, <3>5, <3>6 DEF Epts
  <2> QED
    BY <1>7, <2>3, <2>4, ConnEffect
<1>8. CASE ConnAdd
  <2>1. /\ rx.pc = "add" /\ rx.conn \in Conns /\ rx.local \in InUse /\ rx.local \in Slots
        /\ ept[rx.local].chan = rx.conn
    BY <1>8 DEF ConnAdd, Held, Epts, InUse
  <2>2. \A c \in Conns : cookie'[c] = IF c = rx.conn THEN rx.local ELSE cookie[c]
    BY <1>8, <2>1 DEF ConnAdd, TypeOK
  <2>3. UNCHANGED <<ept, open>> /\ list' = list \cup {rx.conn} /\ rx'.pc = "wait" /\ InUse' = InUse
    BY <1>8 DEF ConnAdd, Thread, At, InUse
  <2>4. rx.conn \in open /\ open \subseteq Conns /\ rx.local # None
    BY <2>1, NoneAssumption DEF Epts, TypeOK
  <2>5. open' = {ept'[t].chan : t \in InUse'} /\ \A t, u \in InUse' : ept'[t].chan = ept'[u].chan => t = u
    BY <2>3 DEF Epts
  <2>6. list' \subseteq open' /\ \A d \in open' : d \in list' /\ cookie'[d] # None
    BY <2>2, <2>3, <2>4 DEF Epts
  <2>7. \A d \in Conns : cookie'[d] # None =>
          d \in open' /\ cookie'[d] \in InUse' /\ ept'[cookie'[d]].chan = d
    BY <2>1, <2>2, <2>3, <2>4 DEF Epts
  <2> QED
    BY <2>3, <2>5, <2>6, <2>7 DEF Epts
<1>9. CASE handle_disc_req
  <2>1. rx.pc = "wait" /\ rx'.pc = "wait"
    BY <1>9 DEF handle_disc_req, Gets, Thread, At
  <2>2. CASE UNCHANGED <<ept, cookie, list, open>>
    BY <2>1, <2>2, EptsFrame
  <2>3. CASE \E s \in InUse : CloseEpt(s)
    BY <2>1, <2>3, EptsClose
  <2> QED
    BY <1>9, <2>2, <2>3, DiscEffect
<1>10. CASE handle_hup
  <2>1. /\ cookie[tx.conn] \in InUse /\ CloseEpt(cookie[tx.conn]) /\ rx' = rx
        /\ ept[cookie[tx.conn]].chan = tx.conn /\ ~(rx.pc = "add" /\ rx.conn = tx.conn)
    BY <1>10 DEF handle_hup, Held, Epts
  <2> QED
    BY <2>1, EptsClose
<1> QED
  BY <1>1, <1>2, <1>3, <1>4, <1>5, <1>6, <1>7, <1>8, <1>9, <1>10
  DEF Next, StartedTwice, StdStep, RxStep, TxStep

-----------------------------------------------------------------------------
(* Connections are asked for once *)

(* The queue loses messages, channels are closed, and no channel is new. *)
LEMMA FreshFrame ==
  ASSUME TypeOK, Fresh, next' = next, open' \subseteq open,
         \A c \in Conns : srv'[c] = srv[c] \/ (srv[c] # "none" /\ srv'[c] # "none"),
         \/ rxq' = rxq
         \/ rxq' = << >>
         \/ \E type \in Types : Gets(type)
  PROVE  Fresh'
<1>1. open \subseteq Conns /\ rxq \in Seq(RxMsg)
  BY DEF TypeOK, RxMsg
<1>2. \A i \in DOMAIN rxq : rxq[i].conn \in Conns
  <2> TAKE i \in DOMAIN rxq
  <2>1. rxq[i] \in RxMsg
    BY <1>1
  <2> QED
    BY <2>1 DEF RxMsg
<1>3. (\A c \in Conns : c >= next' => srv'[c] = "none") /\ (\A c \in open' : srv'[c] # "none")
  BY <1>1 DEF Fresh
<1>4. CASE rxq' = rxq
  BY <1>2, <1>3, <1>4 DEF Fresh
<1>5. CASE rxq' = << >>
  BY <1>3, <1>5 DEF Fresh
<1>6. CASE \E type \in Types : Gets(type)
  <2>1. \A i \in DOMAIN rxq' : /\ i + 1 \in DOMAIN rxq /\ rxq'[i] = rxq[i + 1]
                               /\ i \in Nat /\ i > 0
    BY <1>6, GetsEffect
  <2>2. \A i \in DOMAIN rxq' : /\ rxq'[i].conn < next'
                               /\ rxq'[i].type = "CONN_REQ" => srv'[rxq'[i].conn] = "none"
    BY <1>2, <2>1 DEF Fresh
  <2>3. \A i, j \in DOMAIN rxq' :
          rxq'[i].type = "CONN_REQ" /\ rxq'[j].type = "CONN_REQ" /\ rxq'[i].conn = rxq'[j].conn
            => i = j
    <3> TAKE i, j \in DOMAIN rxq'
    <3>1. HAVE rxq'[i].type = "CONN_REQ" /\ rxq'[j].type = "CONN_REQ" /\ rxq'[i].conn = rxq'[j].conn
    <3>2. i + 1 = j + 1
      BY <2>1, <3>1 DEF Fresh
    <3> QED
      BY <2>1, <3>2
  <2> QED
    BY <1>3, <2>2, <2>3 DEF Fresh
<1> QED
  BY <1>4, <1>5, <1>6

(* A message of the normal world is put behind the others; if it asks for  *)
(* a connection, for a new one.                                            *)
LEMMA FreshPut ==
  ASSUME TypeOK, Fresh, NEW m \in RxMsg, rxq' = Append(rxq, m), open' = open, srv' = srv,
         \/ next' = next /\ m.conn < next /\ m.type # "CONN_REQ"
         \/ next' = next + 1 /\ m.conn = next
  PROVE  Fresh'
<1>1. rxq \in Seq(RxMsg) /\ next \in Nat /\ m.conn \in Conns /\ Conns \subseteq Nat
  BY BoundAssumption DEF TypeOK, RxMsg, Conns
<1>2. /\ \A i \in DOMAIN rxq : i \in DOMAIN rxq' /\ rxq'[i] = rxq[i]
      /\ rxq'[Len(rxq) + 1] = m
      /\ \A i \in DOMAIN rxq' : i \in DOMAIN rxq \/ i = Len(rxq) + 1
  BY <1>1, AtEnd
<1>3. \A i \in DOMAIN rxq : rxq[i].conn \in Nat
  <2> TAKE i \in DOMAIN rxq
  <2>1. rxq[i] \in RxMsg
    BY <1>1
  <2> QED
    BY <1>1, <2>1 DEF RxMsg
<1>4. (\A c \in Conns : c >= next' => srv'[c] = "none") /\ (\A c \in open' : srv'[c] # "none")
  BY <1>1 DEF Fresh
<1>5. \A i \in DOMAIN rxq' : /\ rxq'[i].conn < next'
                             /\ rxq'[i].type = "CONN_REQ" => srv'[rxq'[i].conn] = "none"
  BY <1>1, <1>2, <1>3 DEF Fresh
<1>6. \A i, j \in DOMAIN rxq' :
        rxq'[i].type = "CONN_REQ" /\ rxq'[j].type = "CONN_REQ" /\ rxq'[i].conn = rxq'[j].conn
          => i = j
  BY <1>1, <1>2, <1>3 DEF Fresh
<1> QED
  BY <1>4, <1>5, <1>6 DEF Fresh

(* Every step keeps a connection that is asked for one without a channel.  *)
LEMMA StepFresh ==
  TypeOK /\ Phase /\ Held /\ Epts /\ Normal /\ Fresh /\ [Next]_vars => Fresh'
<1> SUFFICES ASSUME TypeOK, Phase, Held, Epts, Normal, Fresh, [Next]_vars PROVE Fresh'
  OBVIOUS
<1> USE DEF bus_vars, queue_vars, ns_vars, ept_vars, srv_vars
<1>1. CASE \/ virtio_start \/ tipc_dev_probe \/ virtio_stop \/ virtio_device_reset
           \/ _go_online \/ EndCall \/ ResetRxJoin \/ ResetTxJoin \/ NsReceive
           \/ RxStop \/ ConnAdd \/ ConnRsp \/ UNCHANGED vars
  <2>1. UNCHANGED <<next, srv, open>> /\ (rxq' = rxq \/ rxq' = << >>)
    BY <1>1 DEF virtio_start, tipc_dev_probe, virtio_stop, virtio_device_reset, _go_online,
                EndCall, ResetRxJoin, ResetTxJoin, NsReceive, RxStop, ConnAdd, ConnRsp, vars
  <2> QED
    BY <2>1, FreshFrame
<1>2. CASE TxGone \/ TxRead \/ TxGetMsg \/ TxSend \/ TxExit
  <2>1. UNCHANGED <<next, srv, open, rxq>>
    BY <1>2 DEF TxGone, TxRead, TxGetMsg, TxSend, TxExit
  <2> QED
    BY <2>1, FreshFrame
<1>3. CASE handle_chan_msg
  <2>1. UNCHANGED <<next, srv, open>> /\ Gets("DATA")
    BY <1>3 DEF handle_chan_msg
  <2> QED
    BY <2>1, FreshFrame DEF Types
<1>4. ASSUME NEW c \in Conns, Accept(c) \/ SrvSend(c) \/ SrvClose(c) \/ TxWait(c)
      PROVE  Fresh'
  <2>1. /\ UNCHANGED <<next, open, rxq>>
        /\ \A d \in Conns : srv'[d] = srv[d] \/ (srv[d] # "none" /\ srv'[d] # "none")
    BY <1>4 DEF Accept, SrvSend, SrvClose, TxWait, TypeOK
  <2> QED
    BY <2>1, FreshFrame
<1>5. ASSUME NEW s \in InUse, CloseEpt(s)
      PROVE  /\ open' \subseteq open
             /\ \A d \in Conns : srv'[d] = srv[d] \/ (srv[d] # "none" /\ srv'[d] # "none")
  <2>1. ept[s].chan \in open
    BY <1>5, CloseEffect
  <2>2. srv[ept[s].chan] # "none"
    BY <2>1 DEF Fresh
  <2> QED
    BY <1>5, <2>2, CloseEffect
<1>6. CASE handle_hup
  <2>1. cookie[tx.conn] \in InUse /\ CloseEpt(cookie[tx.conn]) /\ UNCHANGED <<next, rxq>>
    BY <1>6 DEF handle_hup, Held, Epts
  <2> QED
    BY <1>5, <2>1, FreshFrame
<1>7. CASE handle_disc_req
  <2>1. Gets("DISC_REQ") /\ UNCHANGED next
    BY <1>7 DEF handle_disc_req
  <2>2. /\ open' \subseteq open
        /\ \A d \in Conns : srv'[d] = srv[d] \/ (srv[d] # "none" /\ srv'[d] # "none")
    BY <1>5, <1>7, DiscEffect
  <2> QED
    BY <2>1, <2>2, FreshFrame DEF Types
<1>8. CASE ResetClose
  <2>1. UNCHANGED <<next, rxq>> /\ open' \subseteq open
    BY <1>8 DEF ResetClose
  <2>2. \A d \in Conns : srv'[d] = IF d \in open THEN "closed" ELSE srv[d]
    BY <1>8 DEF ResetClose, HungUp, Epts, InUse
  <2>3. \A d \in Conns : srv'[d] = srv[d] \/ (srv[d] # "none" /\ srv'[d] # "none")
    BY <2>2 DEF Fresh
  <2> QED
    BY <2>1, <2>3, FreshFrame
<1>9. CASE handle_conn_req
  <2>1. /\ Head(rxq).conn \in Conns /\ Gets("CONN_REQ") /\ rxq[1] = Head(rxq) /\ 1 \in DOMAIN rxq
        /\ Head(rxq).type = "CONN_REQ" /\ UNCHANGED next
    BY <1>9, GetsEffect DEF handle_conn_req
  <2>2. CASE UNCHANGED <<ept, open, srv>>
    BY <2>1, <2>2, FreshFrame DEF Types
  <2>3. CASE /\ open' = open \cup {Head(rxq).conn}
             /\ \A c \in Conns :
                  srv'[c] = IF c = Head(rxq).conn THEN "pending" ELSE srv[c]
    <3>1. Head(rxq).conn < next /\ open \subseteq Conns /\ next \in Nat /\ Conns \subseteq Nat
      BY <2>1, BoundAssumption DEF Fresh, TypeOK, Conns
    <3>2. /\ \A c \in Conns : c >= next' => srv'[c] = "none"
          /\ \A c \in open' : srv'[c] # "none"
      BY <2>1, <2>3, <3>1 DEF Fresh
    <3>3. \A i \in DOMAIN rxq' : /\ i + 1 \in DOMAIN rxq /\ rxq'[i] = rxq[i + 1]
                                 /\ i \in Nat /\ i > 0
      BY <2>1, GetsEffect
    <3>4. \A i \in DOMAIN rxq : rxq[i].conn \in Conns
      <4> TAKE i \in DOMAIN rxq
      <4>0. rxq \in Seq(RxMsg)
        BY DEF TypeOK, RxMsg
      <4>1. rxq[i] \in RxMsg
        BY <4>0
      <4> QED
        BY <4>1 DEF RxMsg
    <3>5. \A i \in DOMAIN rxq' : /\ rxq'[i].conn < next'
                                 /\ rxq'[i].type = "CONN_REQ" => srv'[rxq'[i].conn] = "none"
      <4> TAKE i \in DOMAIN rxq'
      <4>1. i + 1 \in DOMAIN rxq /\ rxq'[i] = rxq[i + 1] /\ i + 1 # 1
        BY <3>3
      <4>2. rxq[i + 1].type = "CONN_REQ" => rxq[i + 1].conn # rxq[1].conn
        BY <2>1, <4>1 DEF Fresh
      <4> QED
        BY <2>1, <2>3, <3>4, <4>1, <4>2 DEF Fresh
    <3>6. \A i, j \in DOMAIN rxq' :
            rxq'[i].type = "CONN_REQ" /\ rxq'[j].type = "CONN_REQ"
              /\ rxq'[i].conn = rxq'[j].conn => i = j
      <4> TAKE i, j \in DOMAIN rxq'
      <4>1. HAVE rxq'[i].type = "CONN_REQ" /\ rxq'[j].type = "CONN_REQ" /\ rxq'[i].conn = rxq'[j].conn
      <4>2. i + 1 = j + 1
        BY <3>3, <4>1 DEF Fresh
      <4> QED
        BY <3>3, <4>2
    <3> QED
      BY <3>2, <3>5, <3>6 DEF Fresh
  <2> QED
    BY <1>9, <2>2, <2>3, ConnEffect
<1>10. ASSUME NEW r \in Remotes, NsOpen(r) \/ NsSend(r) \/ NsClose(r) \/ NsReuse(r)
       PROVE  Fresh'
  <2>1. CASE NsOpen(r)
    <3>1. Msg("CONN_REQ", r, next, None) \in RxMsg /\ Msg("CONN_REQ", r, next, None).conn = next
      BY <2>1, BoundAssumption DEF NsOpen, Msg, RxMsg, Types, TypeOK, Conns
    <3>2. /\ rxq' = Append(rxq, Msg("CONN_REQ", r, next, None)) /\ next' = next + 1
          /\ open' = open /\ srv' = srv
      BY <2>1 DEF NsOpen, NsPut
    <3> QED
      BY <3>1, <3>2, FreshPut
  <2>2. CASE NsSend(r)
    <3>1. ns[r].conn \in Conns /\ ns[r].conn < next
      BY <2>2 DEF NsSend, Normal
    <3> DEFINE m == Msg("DATA", r, ns[r].conn, ns[r].local)
    <3>2. m \in RxMsg /\ m.conn = ns[r].conn /\ m.type = "DATA"
      BY <3>1 DEF Msg, RxMsg, Types, TypeOK
    <3>3. rxq' = Append(rxq, m) /\ next' = next /\ open' = open /\ srv' = srv
      BY <2>2 DEF NsSend, NsPut
    <3> HIDE DEF m
    <3> QED
      BY <3>1, <3>2, <3>3, FreshPut
  <2>3. CASE NsClose(r)
    <3>1. ns[r].conn \in Conns /\ ns[r].conn < next
      BY <2>3 DEF NsClose, Normal
    <3> DEFINE m == Msg("DISC_REQ", r, ns[r].conn, ns[r].local)
    <3>2. m \in RxMsg /\ m.conn = ns[r].conn /\ m.type = "DISC_REQ"
      BY <3>1 DEF Msg, RxMsg, Types, TypeOK
    <3>3. rxq' = Append(rxq, m) /\ next' = next /\ open' = open /\ srv' = srv
      BY <2>3 DEF NsClose, NsPut
    <3> HIDE DEF m
    <3> QED
      BY <3>1, <3>2, <3>3, FreshPut
  <2>4. CASE NsReuse(r)
    <3>1. UNCHANGED <<next, srv, open, rxq>>
      BY <2>4 DEF NsReuse
    <3> QED
      BY <3>1, FreshFrame
  <2> QED
    BY <1>10, <2>1, <2>2, <2>3, <2>4
<1> QED
  BY <1>1, <1>2, <1>3, <1>4, <1>6, <1>7, <1>8, <1>9, <1>10
  DEF Next, StartedTwice, StdStep, RxStep, TxStep

-----------------------------------------------------------------------------
(* The normal world's connections *)

(* Endpoints go, and the normal world learns that a connection is open or  *)
(* dead; the queue is as it was.                                           *)
LEMMA NormalFrame ==
  ASSUME TypeOK, Normal, UNCHANGED <<rxq, next>>,
         \A r \in Remotes :
           \/ ns'[r] = ns[r]
           \/ /\ ns'[r].conn = ns[r].conn
              /\ ns[r].st \in {"opening", "open"} /\ ns'[r].st \in {"open", "dead"},
         InUse' \subseteq InUse, \A s \in InUse' : ept'[s] = ept[s]
  PROVE  Normal'
<1>1. \A s \in InUse : ept[s].remote \in Remotes
  BY DEF InUse, TypeOK
<1>2. \A i \in DOMAIN rxq : rxq[i].src \in Remotes
  BY RxTyped
<1>3. \A r \in Remotes : /\ ns'[r].st = "free" => ns'[r] = Free
                         /\ ns'[r].st # "free" => ns'[r].conn \in Conns /\ ns'[r].conn < next'
  BY DEF Normal
<1>4. \A r, q \in Remotes : ns'[r].st # "free" /\ ns'[r].conn = ns'[q].conn => r = q
  BY DEF Normal
<1>5. \A s \in InUse' : LET r == ept'[s].remote IN
        ns'[r].st # "free" /\ ns'[r].conn = ept'[s].chan
  BY <1>1 DEF Normal
<1>6. \A i \in DOMAIN rxq' : LET r == rxq'[i].src IN
        /\ ns'[r].st # "free" /\ ns'[r].conn = rxq'[i].conn
        /\ rxq'[i].type = "DISC_REQ" => /\ ns'[r].st = "closing"
                                        /\ \A j \in DOMAIN rxq' : rxq'[j].src = r => j <= i
  BY <1>2 DEF Normal
<1>7. \A r \in Remotes :
        /\ ns'[r].st = "closing"
        /\ \/ \E s \in InUse' : ept'[s].remote = r
           \/ \E i \in DOMAIN rxq' : rxq'[i].src = r /\ rxq'[i].type = "CONN_REQ"
        => \E i \in DOMAIN rxq' : rxq'[i].src = r /\ rxq'[i].type = "DISC_REQ"
  BY DEF Normal
<1> QED
  BY <1>3, <1>4, <1>5, <1>6, <1>7 DEF Normal

(* The RX thread has served a message: a new endpoint is the one asked     *)
(* for, and after a disconnect request the sender has none.                *)
LEMMA NormalPop ==
  ASSUME TypeOK, Normal, NEW type, Gets(type), UNCHANGED <<ns, next>>,
         \A s \in InUse' :
           \/ s \in InUse /\ ept'[s] = ept[s]
           \/ /\ ept'[s].remote = Head(rxq).src /\ ept'[s].chan = Head(rxq).conn
              /\ type = "CONN_REQ",
         type = "DISC_REQ" => \A s \in InUse' : ept'[s].remote # Head(rxq).src
  PROVE  Normal'
<1>0. /\ Head(rxq).type = type /\ Head(rxq).src \in Remotes
      /\ 1 \in DOMAIN rxq /\ rxq[1] = Head(rxq)
      /\ \A i \in DOMAIN rxq' : /\ i + 1 \in DOMAIN rxq /\ rxq'[i] = rxq[i + 1]
                                /\ i \in Nat /\ i > 0
      /\ \A i \in DOMAIN rxq : i # 1 => i - 1 \in DOMAIN rxq' /\ rxq'[i - 1] = rxq[i]
      /\ \A i \in DOMAIN rxq : i \in Nat
  BY GetsEffect
<1>1. \A s \in InUse : ept[s].remote \in Remotes
  BY DEF InUse, TypeOK
<1>2. \A i \in DOMAIN rxq : rxq[i].src \in Remotes
  BY RxTyped
<1>3. \A s \in InUse' : LET r == ept'[s].remote IN
        ns'[r].st # "free" /\ ns'[r].conn = ept'[s].chan
  BY <1>0, <1>1 DEF Normal
<1>4. \A i \in DOMAIN rxq' : LET r == rxq'[i].src IN
        /\ ns'[r].st # "free" /\ ns'[r].conn = rxq'[i].conn
        /\ rxq'[i].type = "DISC_REQ" => /\ ns'[r].st = "closing"
                                        /\ \A j \in DOMAIN rxq' : rxq'[j].src = r => j <= i
  <2> TAKE i \in DOMAIN rxq'
  <2> DEFINE r == rxq'[i].src
  <2>1. i + 1 \in DOMAIN rxq /\ rxq'[i] = rxq[i + 1] /\ i \in Nat
    BY <1>0
  <2>2. ns[r].st # "free" /\ ns[r].conn = rxq'[i].conn
    BY <2>1 DEF Normal
  <2>3. ASSUME rxq'[i].type = "DISC_REQ"
        PROVE  ns[r].st = "closing" /\ \A j \in DOMAIN rxq' : rxq'[j].src = r => j <= i
    <3>1. ns[r].st = "closing" /\ \A j \in DOMAIN rxq : rxq[j].src = r => j <= i + 1
      BY <2>1, <2>3 DEF Normal
    <3>2. ASSUME NEW j \in DOMAIN rxq', rxq'[j].src = r PROVE j <= i
      <4>1. j + 1 <= i + 1 /\ j \in Nat
        BY <1>0, <3>1, <3>2
      <4> QED
        BY <2>1, <4>1
    <3> QED
      BY <3>1, <3>2
  <2> QED
    BY <2>2, <2>3
<1>5. \A r \in Remotes :
        /\ ns'[r].st = "closing"
        /\ \/ \E s \in InUse' : ept'[s].remote = r
           \/ \E i \in DOMAIN rxq' : rxq'[i].src = r /\ rxq'[i].type = "CONN_REQ"
        => \E i \in DOMAIN rxq' : rxq'[i].src = r /\ rxq'[i].type = "DISC_REQ"
  <2> SUFFICES ASSUME NEW r \in Remotes, ns[r].st = "closing",
                      \/ \E s \in InUse' : ept'[s].remote = r
                      \/ \E i \in DOMAIN rxq' : rxq'[i].src = r /\ rxq'[i].type = "CONN_REQ"
               PROVE  \E i \in DOMAIN rxq' : rxq'[i].src = r /\ rxq'[i].type = "DISC_REQ"
    OBVIOUS
  <2>1. \/ \E s \in InUse : ept[s].remote = r
        \/ \E i \in DOMAIN rxq : rxq[i].src = r /\ rxq[i].type = "CONN_REQ"
    BY <1>0
  <2>2. PICK k \in DOMAIN rxq : rxq[k].src = r /\ rxq[k].type = "DISC_REQ"
    BY <2>1 DEF Normal
  <2>3. k # 1
    <3> SUFFICES ASSUME k = 1 PROVE FALSE
      OBVIOUS
    <3>1. type = "DISC_REQ" /\ Head(rxq).src = r
      BY <1>0, <2>2
    <3>2. PICK i \in DOMAIN rxq' : rxq'[i].src = r
      BY <3>1
    <3>3. i + 1 \in DOMAIN rxq /\ rxq[i + 1].src = r /\ i \in Nat /\ i > 0
      BY <1>0, <3>2
    <3>4. i + 1 <= 1
      BY <1>0, <2>2, <3>3 DEF Normal
    <3> QED
      BY <3>3, <3>4
  <2>4. k - 1 \in DOMAIN rxq' /\ rxq'[k - 1] = rxq[k]
    BY <1>0, <2>3
  <2> QED
    BY <2>2, <2>4
<1>6. \A r \in Remotes : /\ ns'[r].st = "free" => ns'[r] = Free
                         /\ ns'[r].st # "free" => ns'[r].conn \in Conns /\ ns'[r].conn < next'
  BY DEF Normal
<1>7. \A r, q \in Remotes : ns'[r].st # "free" /\ ns'[r].conn = ns'[q].conn => r = q
  BY DEF Normal
<1> QED
  BY <1>3, <1>4, <1>5, <1>6, <1>7 DEF Normal

(* A message of the normal world, from an address that has no disconnect   *)
(* request under way; a disconnect request makes it closing.               *)
LEMMA NormalPut ==
  ASSUME TypeOK, Normal, NEW r \in Remotes, NEW m \in RxMsg, rxq' = Append(rxq, m),
         m.src = r, ns'[r].st # "free", ns'[r].conn = m.conn, m.conn < next',
         ns[r].st # "closing", (m.type = "DISC_REQ") <=> (ns'[r].st = "closing"),
         \A q \in Remotes : q # r => ns'[q] = ns[q] /\ ns'[q].conn # m.conn,
         ns[r].st # "free" => ns[r].conn = m.conn, next' >= next, next' \in Nat, ept' = ept
  PROVE  Normal'
<1>1. rxq \in Seq(RxMsg) /\ Len(rxq) \in Nat
  BY DEF TypeOK, RxMsg
<1>2. /\ Len(rxq) + 1 \in DOMAIN rxq' /\ rxq'[Len(rxq) + 1] = m
      /\ \A i \in DOMAIN rxq : /\ i \in DOMAIN rxq' /\ rxq'[i] = rxq[i]
                               /\ i <= Len(rxq) /\ i \in Nat
      /\ \A i \in DOMAIN rxq' : i \in DOMAIN rxq \/ i = Len(rxq) + 1
  BY <1>1, AtEnd
<1>3. \A i \in DOMAIN rxq : rxq[i].src \in Remotes
  BY RxTyped
<1>4. InUse' = InUse /\ \A s \in InUse : ept[s].remote \in Remotes
  BY DEF InUse, TypeOK
<1>5. m.conn \in Conns /\ next \in Nat /\ Conns \subseteq Nat
  BY BoundAssumption DEF RxMsg, TypeOK, Conns
<1>6. \A q \in Remotes : /\ ns'[q].st = "free" => ns'[q] = Free
                         /\ ns'[q].st # "free" => ns'[q].conn \in Conns /\ ns'[q].conn < next'
  <2> TAKE q \in Remotes
  <2>1. CASE q = r
    BY <1>5, <2>1
  <2>2. CASE q # r
    <3>1. /\ ns[q].st = "free" => ns[q] = Free
          /\ ns[q].st # "free" => ns[q].conn \in Conns /\ ns[q].conn < next
      BY DEF Normal
    <3>2. ns'[q] = ns[q]
      BY <2>2
    <3>3. \A n \in Nat : n < next => n < next'
      BY <1>5
    <3> QED
      BY <1>5, <3>1, <3>2, <3>3
  <2> QED
    BY <2>1, <2>2
<1>7. \A p, q \in Remotes : ns'[p].st # "free" /\ ns'[p].conn = ns'[q].conn => p = q
  BY DEF Normal
<1>8. \A s \in InUse' : LET q == ept'[s].remote IN
        ns'[q].st # "free" /\ ns'[q].conn = ept'[s].chan
  BY <1>4 DEF Normal
<1>9. \A i \in DOMAIN rxq : rxq[i].src = r => rxq[i].type # "DISC_REQ"
  BY DEF Normal
<1>10. \A i \in DOMAIN rxq' : LET q == rxq'[i].src IN
        /\ ns'[q].st # "free" /\ ns'[q].conn = rxq'[i].conn
        /\ rxq'[i].type = "DISC_REQ" => /\ ns'[q].st = "closing"
                                        /\ \A j \in DOMAIN rxq' : rxq'[j].src = q => j <= i
  <2> TAKE i \in DOMAIN rxq'
  <2>1. CASE i = Len(rxq) + 1
    <3>1. \A j \in DOMAIN rxq' : j <= i
      BY <1>1, <1>2, <2>1
    <3> QED
      BY <1>2, <2>1, <3>1
  <2>2. CASE i \in DOMAIN rxq
    <3> DEFINE q == rxq[i].src
    <3>1. /\ rxq'[i] = rxq[i] /\ q \in Remotes /\ ns[q].st # "free" /\ ns[q].conn = rxq[i].conn
          /\ rxq[i].type = "DISC_REQ" => /\ ns[q].st = "closing"
                                         /\ \A j \in DOMAIN rxq : rxq[j].src = q => j <= i
      BY <1>2, <1>3, <2>2 DEF Normal
    <3>2. ns'[q].st # "free" /\ ns'[q].conn = rxq[i].conn
      BY <3>1
    <3>3. rxq[i].type = "DISC_REQ" => /\ q # r /\ ns'[q].st = "closing"
                                      /\ \A j \in DOMAIN rxq' : rxq'[j].src = q => j <= i
      BY <1>2, <1>9, <2>2, <3>1
    <3> QED
      BY <3>1, <3>2, <3>3
  <2> QED
    BY <1>2, <2>1, <2>2
<1>11. \A q \in Remotes :
        /\ ns'[q].st = "closing"
        /\ \/ \E s \in InUse' : ept'[s].remote = q
           \/ \E i \in DOMAIN rxq' : rxq'[i].src = q /\ rxq'[i].type = "CONN_REQ"
        => \E i \in DOMAIN rxq' : rxq'[i].src = q /\ rxq'[i].type = "DISC_REQ"
  <2> SUFFICES ASSUME NEW q \in Remotes, ns'[q].st = "closing",
                      \/ \E s \in InUse' : ept'[s].remote = q
                      \/ \E i \in DOMAIN rxq' : rxq'[i].src = q /\ rxq'[i].type = "CONN_REQ"
               PROVE  \E i \in DOMAIN rxq' : rxq'[i].src = q /\ rxq'[i].type = "DISC_REQ"
    OBVIOUS
  <2>1. CASE q = r
    BY <1>2, <2>1
  <2>2. CASE q # r
    <3>1. \/ \E s \in InUse : ept[s].remote = q
          \/ \E i \in DOMAIN rxq : rxq[i].src = q /\ rxq[i].type = "CONN_REQ"
      BY <1>2, <1>4, <2>2
    <3>2. PICK k \in DOMAIN rxq : rxq[k].src = q /\ rxq[k].type = "DISC_REQ"
      BY <2>2, <3>1 DEF Normal
    <3> QED
      BY <1>2, <3>2
  <2> QED
    BY <2>1, <2>2
<1> QED
  BY <1>6, <1>7, <1>8, <1>10, <1>11 DEF Normal

(* Every step keeps the normal world, the queue and the slots of one mind  *)
(* about which connection an address stands for.                           *)
LEMMA StepNormal ==
  TypeOK /\ Phase /\ Held /\ Epts /\ Normal /\ Ordered /\ [Next]_vars => Normal'
<1> SUFFICES ASSUME TypeOK, Phase, Held, Epts, Normal, Ordered, [Next]_vars PROVE Normal'
  OBVIOUS
<1> USE DEF bus_vars, queue_vars, ns_vars, ept_vars, srv_vars
<1>1. CASE \/ tipc_dev_probe \/ virtio_stop \/ virtio_device_reset \/ _go_online \/ EndCall
           \/ ResetRxJoin \/ RxStop \/ ConnAdd \/ ConnRsp \/ UNCHANGED vars
  <2>1. UNCHANGED <<rxq, next, ns, ept>> /\ InUse' = InUse
    BY <1>1 DEF tipc_dev_probe, virtio_stop, virtio_device_reset, _go_online, EndCall,
                ResetRxJoin, RxStop, ConnAdd, ConnRsp, vars, InUse
  <2> QED
    BY <2>1, NormalFrame
<1>2. CASE TxGone \/ TxRead \/ TxGetMsg \/ TxSend \/ TxExit
  <2>1. UNCHANGED <<rxq, next, ns, ept>> /\ InUse' = InUse
    BY <1>2 DEF TxGone, TxRead, TxGetMsg, TxSend, TxExit, InUse
  <2> QED
    BY <2>1, NormalFrame
<1>3. ASSUME NEW c \in Conns, Accept(c) \/ SrvSend(c) \/ SrvClose(c) \/ TxWait(c)
      PROVE  Normal'
  <2>1. UNCHANGED <<rxq, next, ns, ept>> /\ InUse' = InUse
    BY <1>3 DEF Accept, SrvSend, SrvClose, TxWait, InUse
  <2> QED
    BY <2>1, NormalFrame
<1>4. CASE NsReceive
  <2>1. UNCHANGED <<rxq, next, ept>> /\ InUse' = InUse
    BY <1>4 DEF NsReceive, InUse
  <2>2. \A r \in Remotes :
          \/ ns'[r] = ns[r]
          \/ /\ ns'[r].conn = ns[r].conn
             /\ ns[r].st \in {"opening", "open"} /\ ns'[r].st \in {"open", "dead"}
    BY <1>4, ReceiveEffect DEF Ordered
  <2> QED
    BY <2>1, <2>2, NormalFrame
<1>5. CASE handle_hup
  <2>1. cookie[tx.conn] \in InUse /\ CloseEpt(cookie[tx.conn]) /\ UNCHANGED <<rxq, next, ns>>
    BY <1>5 DEF handle_hup, Held, Epts
  <2>2. InUse' \subseteq InUse /\ \A s \in InUse' : ept'[s] = ept[s]
    BY <2>1, CloseEffect DEF InUse
  <2> QED
    BY <2>1, <2>2, NormalFrame
<1>6. CASE ResetClose
  <2>1. InUse' = {} /\ UNCHANGED <<rxq, next, ns>>
    BY <1>6 DEF ResetClose, InUse
  <2> QED
    BY <2>1, NormalFrame
<1>7. CASE virtio_start
  <2>1. InUse' = {} /\ rxq' = << >> /\ \A r \in Remotes : ns'[r] = Free /\ ns'[r].st = "free"
    BY <1>7 DEF virtio_start, Phase, InUse, Free
  <2> QED
    BY <2>1 DEF Normal
<1>8. CASE ResetTxJoin
  <2>1. InUse' = {} /\ rxq' = << >> /\ UNCHANGED <<ns, next>>
    BY <1>8 DEF ResetTxJoin, Phase, InUse
  <2> QED
    BY <2>1 DEF Normal
<1>9. CASE handle_conn_req
  <2>1. Gets("CONN_REQ") /\ UNCHANGED <<ns, next>>
    BY <1>9 DEF handle_conn_req
  <2>2. \A s \in InUse' : \/ s \in InUse /\ ept'[s] = ept[s]
                          \/ ept'[s].remote = Head(rxq).src /\ ept'[s].chan = Head(rxq).conn
    <3>1. CASE UNCHANGED <<ept, open, srv>>
      BY <3>1 DEF InUse
    <3>2. ASSUME NEW s \in Slots \ InUse,
                 ept'[s].remote = Head(rxq).src, ept'[s].chan = Head(rxq).conn,
                 \A t \in Slots : t # s => ept'[t] = ept[t],
                 InUse' = InUse \cup {s}
          PROVE  \A t \in InUse' : \/ t \in InUse /\ ept'[t] = ept[t]
                                   \/ ept'[t].remote = Head(rxq).src /\ ept'[t].chan = Head(rxq).conn
      BY <3>2 DEF InUse
    <3> QED
      BY <1>9, <3>1, <3>2, ConnEffect
  <2> QED
    BY <2>1, <2>2, NormalPop
<1>10. CASE handle_chan_msg
  <2>1. Gets("DATA") /\ UNCHANGED <<ns, next, ept>> /\ InUse' = InUse
    BY <1>10 DEF handle_chan_msg, InUse
  <2> QED
    BY <2>1, NormalPop
<1>11. CASE handle_disc_req
  <2> DEFINE r == Head(rxq).src
  <2>1. Gets("DISC_REQ") /\ UNCHANGED <<ns, next>>
    BY <1>11 DEF handle_disc_req
  <2>2. \A s, t \in InUse : ept[s].remote = ept[t].remote => s = t
    BY DEF Normal, Epts
  <2>3. CASE DiscTarget(r, Head(rxq).dst) = {} /\ UNCHANGED <<ept_vars, srv_vars>>
    <3>1. \A s \in InUse : s <= s
      BY BoundAssumption DEF InUse, Slots
    <3>2. \A s \in InUse : ept[s].remote # r
      BY <2>2, <2>3, <3>1 DEF DiscTarget
    <3>3. InUse' = InUse /\ ept' = ept
      BY <2>3 DEF InUse
    <3> QED
      BY <2>1, <3>2, <3>3, NormalPop
  <2>4. ASSUME NEW s \in DiscTarget(r, Head(rxq).dst), CloseEpt(s) PROVE Normal'
    <3>1. s \in InUse /\ ept[s].remote = r
      BY DEF DiscTarget
    <3>2. InUse' = InUse \ {s} /\ \A t \in InUse' : ept'[t] = ept[t]
      BY <2>4, <3>1, CloseEffect DEF InUse
    <3>3. \A t \in InUse' : ept'[t].remote # r
      BY <2>2, <3>1, <3>2
    <3> QED
      BY <2>1, <3>2, <3>3, NormalPop
  <2> QED
    BY <1>11, <2>3, <2>4 DEF handle_disc_req
<1>12. next \in Nat
  BY BoundAssumption DEF TypeOK
<1>13. ASSUME NEW r \in Remotes, NsOpen(r) PROVE Normal'
  <2> DEFINE m == Msg("CONN_REQ", r, next, None)
  <2>1. m \in RxMsg /\ m.conn = next /\ m.src = r /\ m.type = "CONN_REQ"
    BY <1>13, BoundAssumption DEF NsOpen, Msg, RxMsg, Types, TypeOK, Conns
  <2>2. rxq' = Append(rxq, m) /\ next' = next + 1 /\ ept' = ept /\ ns[r].st = "free"
    BY <1>13 DEF NsOpen, NsPut
  <2>3. /\ ns'[r].st = "opening" /\ ns'[r].conn = next
        /\ \A q \in Remotes : q # r => ns'[q] = ns[q]
    BY <1>13 DEF NsOpen, TypeOK
  <2>4. \A q \in Remotes : ns[q].conn # next
    <3> TAKE q \in Remotes
    <3>1. CASE ns[q].st = "free"
      <4>1. ns[q].conn = None /\ next \in Conns
        BY <2>1, <3>1 DEF Normal, Free, RxMsg
      <4> QED
        BY <4>1, NoneAssumption
    <3>2. CASE ns[q].st # "free"
      <4>1. ns[q].conn \in Conns /\ ns[q].conn < next /\ Conns \subseteq Nat
        BY <3>2, BoundAssumption DEF Normal, Conns
      <4> QED
        BY <1>12, <4>1
    <3> QED
      BY <3>1, <3>2
  <2>5. next < next' /\ next' >= next /\ next' \in Nat
    BY <1>12, <2>2
  <2> HIDE DEF m
  <2> QED
    BY <2>1, <2>2, <2>3, <2>4, <2>5, NormalPut
<1>14. ASSUME NEW r \in Remotes, NsSend(r) \/ NsClose(r) PROVE Normal'
  <2>1. /\ ns[r].st \in {"opening", "open"} /\ ns[r].conn \in Conns /\ ns[r].conn < next
        /\ UNCHANGED <<next, ept>>
    BY <1>14 DEF NsSend, NsClose, Normal
  <2>2. \A q \in Remotes : q # r => ns[q].conn # ns[r].conn
    BY <2>1 DEF Normal
  <2>3. CASE NsSend(r)
    <3> DEFINE m == Msg("DATA", r, ns[r].conn, ns[r].local)
    <3>1. m \in RxMsg /\ m.conn = ns[r].conn /\ m.src = r /\ m.type = "DATA"
      BY <2>1 DEF Msg, RxMsg, Types, TypeOK
    <3>2. rxq' = Append(rxq, m) /\ ns' = ns
      BY <2>3 DEF NsSend, NsPut
    <3> HIDE DEF m
    <3> QED
      BY <1>12, <2>1, <2>2, <3>1, <3>2, NormalPut
  <2>4. CASE NsClose(r)
    <3> DEFINE m == Msg("DISC_REQ", r, ns[r].conn, ns[r].local)
    <3>1. m \in RxMsg /\ m.conn = ns[r].conn /\ m.src = r /\ m.type = "DISC_REQ"
      BY <2>1 DEF Msg, RxMsg, Types, TypeOK
    <3>2. rxq' = Append(rxq, m)
      BY <2>4 DEF NsClose, NsPut
    <3>3. /\ ns'[r].st = "closing" /\ ns'[r].conn = ns[r].conn
          /\ \A q \in Remotes : q # r => ns'[q] = ns[q]
      BY <2>4 DEF NsClose, TypeOK
    <3> HIDE DEF m
    <3> QED
      BY <1>12, <2>1, <2>2, <3>1, <3>2, <3>3, NormalPut
  <2> QED
    BY <1>14, <2>3, <2>4
<1>15. ASSUME NEW r \in Remotes, NsReuse(r) PROVE Normal'
  <2>1. /\ ns[r].st = "closing" /\ UNCHANGED <<rxq, next, ept>> /\ InUse' = InUse
        /\ \A i \in DOMAIN rxq : rxq[i].src # r
    BY <1>15 DEF NsReuse, InUse
  <2>2. \A s \in InUse : ept[s].remote # r
    BY <2>1 DEF Normal
  <2>3. /\ ns'[r] = Free /\ ns'[r].st = "free" /\ ns'[r].conn = None
        /\ \A q \in Remotes : q # r => ns'[q] = ns[q]
    BY <1>15 DEF NsReuse, TypeOK, Free
  <2>4. \A s \in InUse : ept[s].remote \in Remotes
    BY DEF InUse, TypeOK
  <2>5. \A i \in DOMAIN rxq : rxq[i].src \in Remotes
    BY RxTyped
  <2>6. \A q \in Remotes : /\ ns'[q].st = "free" => ns'[q] = Free
                           /\ ns'[q].st # "free" => ns'[q].conn \in Conns /\ ns'[q].conn < next'
    BY <2>1, <2>3 DEF Normal
  <2>7. \A p, q \in Remotes : ns'[p].st # "free" /\ ns'[p].conn = ns'[q].conn => p = q
    BY <2>3, NoneAssumption DEF Normal
  <2>8. \A s \in InUse' : LET q == ept'[s].remote IN
          ns'[q].st # "free" /\ ns'[q].conn = ept'[s].chan
    BY <2>1, <2>2, <2>3, <2>4 DEF Normal
  <2>9. \A i \in DOMAIN rxq' : LET q == rxq'[i].src IN
          /\ ns'[q].st # "free" /\ ns'[q].conn = rxq'[i].conn
          /\ rxq'[i].type = "DISC_REQ" => /\ ns'[q].st = "closing"
                                          /\ \A j \in DOMAIN rxq' : rxq'[j].src = q => j <= i
    BY <2>1, <2>3, <2>5 DEF Normal
  <2>10. \A q \in Remotes :
          /\ ns'[q].st = "closing"
          /\ \/ \E s \in InUse' : ept'[s].remote = q
             \/ \E i \in DOMAIN rxq' : rxq'[i].src = q /\ rxq'[i].type = "CONN_REQ"
          => \E i \in DOMAIN rxq' : rxq'[i].src = q /\ rxq'[i].type = "DISC_REQ"
    BY <2>1, <2>3 DEF Normal
  <2> QED
    BY <2>6, <2>7, <2>8, <2>9, <2>10 DEF Normal
<1> QED
  BY <1>1, <1>2, <1>3, <1>4, <1>5, <1>6, <1>7, <1>8, <1>9, <1>10, <1>11, <1>13, <1>14, <1>15
  DEF Next, StartedTwice, StdStep, RxStep, TxStep

(* What the normal world sends reaches the channel it was sent on. *)
LEMMA StepStray ==
  TypeOK /\ Normal /\ Epts /\ Held /\ stray = {} /\ [Next]_vars => stray' = {}
<1> SUFFICES ASSUME TypeOK, Normal, Epts, Held, stray = {}, [Next]_vars PROVE stray' = {}
  OBVIOUS
<1> USE DEF bus_vars, queue_vars, ns_vars, ept_vars, srv_vars
<1>1. CASE handle_chan_msg
  <2>1. 1 \in DOMAIN rxq /\ rxq[1] = Head(rxq)
    BY <1>1, GetsEffect DEF handle_chan_msg
  <2>2. IsFrom(Head(rxq).dst, Head(rxq).src) => ept[Head(rxq).dst].chan = Head(rxq).conn
    BY <2>1 DEF IsFrom, Normal
  <2> QED
    BY <1>1, <2>2 DEF handle_chan_msg
<1>2. CASE handle_disc_req
  BY <1>2 DEF handle_disc_req, CloseEpt, HungUp
<1>3. CASE \/ virtio_start \/ virtio_stop \/ virtio_device_reset \/ StdStep \/ NsReceive
           \/ \E r \in Remotes : NsOpen(r) \/ NsSend(r) \/ NsClose(r) \/ NsReuse(r)
           \/ UNCHANGED vars
  BY <1>3 DEF virtio_start, virtio_stop, virtio_device_reset, StdStep, tipc_dev_probe, _go_online,
              EndCall, ResetRxJoin, ResetClose, ResetTxJoin, HungUp, NsReceive, NsOpen, NsSend,
              NsClose, NsReuse, vars
<1>4. CASE RxStop \/ handle_conn_req \/ ConnAdd \/ ConnRsp \/ TxStep
           \/ \E c \in Conns : Accept(c) \/ SrvSend(c) \/ SrvClose(c)
  BY <1>4 DEF RxStop, handle_conn_req, ConnAdd, ConnRsp, TxStep, TxWait, TxGone, TxRead,
              handle_hup, CloseEpt, HungUp, TxGetMsg, TxSend, TxExit, Accept, SrvSend, SrvClose
<1> QED
  BY <1>1, <1>2, <1>3, <1>4 DEF Next, StartedTwice, RxStep

-----------------------------------------------------------------------------
(* What the TX thread sends for an earlier connection *)

(* The TX thread moves and sends nothing. *)
LEMMA OrderedTx ==
  ASSUME Ordered, UNCHANGED <<txq, ns>>,
         \/ tx'.pc \notin {"loop", "send"}
         \/ tx'.conn = ns[tx'.remote].conn
         \/ tx.pc \in {"loop", "send"} /\ tx'.conn = tx.conn /\ tx'.remote = tx.remote
  PROVE  Ordered'
<1>1. tx'.pc \in {"loop", "send"} /\ tx'.conn # ns'[tx'.remote].conn =>
        /\ ~Connected(ns'[tx'.remote])
        /\ \A i \in DOMAIN txq' : ~Response(txq'[i], tx'.remote)
  BY DEF Ordered
<1> QED
  BY <1>1 DEF Ordered

(* A message is put behind the others. *)
LEMMA OrderedPut ==
  ASSUME TypeOK, Ordered, NEW m \in TxMsgs, txq' = Append(txq, m), ns' = ns,
         tx'.pc \in {"loop", "send"} =>
           /\ tx.pc \in {"loop", "send"} /\ tx'.conn = tx.conn /\ tx'.remote = tx.remote
           /\ m.type # "CONN_RSP" \/ m.local = None,
         m.type = "DATA" =>
           /\ m.conn \in Conns /\ m.dst \in Remotes
           /\ m.conn # ns[m.dst].conn => /\ ~Connected(ns[m.dst])
                                         /\ \A i \in DOMAIN txq : ~Response(txq[i], m.dst),
         m.type \in {"CONN_RSP", "DISC_REQ"} => m.dst \in Remotes
  PROVE  Ordered'
<1>1. txq \in Seq(TxMsgs) /\ Len(txq) \in Nat
  BY DEF TypeOK, TxMsgs
<1>2. /\ txq'[Len(txq) + 1] = m
      /\ \A i \in DOMAIN txq : txq'[i] = txq[i] /\ i <= Len(txq) /\ i \in Nat
      /\ \A i \in DOMAIN txq' : i \in DOMAIN txq \/ i = Len(txq) + 1
  BY <1>1, AtEnd
<1>4. tx'.pc \in {"loop", "send"} /\ tx'.conn # ns'[tx'.remote].conn =>
        /\ ~Connected(ns'[tx'.remote])
        /\ \A i \in DOMAIN txq' : ~Response(txq'[i], tx'.remote)
  <2> SUFFICES ASSUME tx'.pc \in {"loop", "send"}, tx'.conn # ns'[tx'.remote].conn
               PROVE  /\ ~Connected(ns'[tx'.remote])
                      /\ \A i \in DOMAIN txq' : ~Response(txq'[i], tx'.remote)
    OBVIOUS
  <2>1. ~Connected(ns[tx.remote]) /\ \A i \in DOMAIN txq : ~Response(txq[i], tx.remote)
    BY DEF Ordered
  <2>2. ~Response(m, tx.remote) /\ tx'.remote = tx.remote
    BY DEF Response
  <2>3. \A i \in DOMAIN txq' : ~Response(txq'[i], tx.remote)
    BY <1>2, <2>1, <2>2
  <2> QED
    BY <2>1, <2>2, <2>3
<1>5. ASSUME NEW i \in DOMAIN txq', txq'[i].type = "DATA"
      PROVE  /\ txq'[i].conn \in Conns /\ txq'[i].dst \in Remotes
             /\ txq'[i].conn # ns'[txq'[i].dst].conn =>
                  /\ ~Connected(ns'[txq'[i].dst])
                  /\ \A j \in DOMAIN txq' : j < i => ~Response(txq'[j], txq'[i].dst)
  <2>1. CASE i \in DOMAIN txq
    <3>1. /\ txq[i].conn \in Conns /\ txq[i].dst \in Remotes /\ txq'[i] = txq[i]
          /\ txq[i].conn # ns[txq[i].dst].conn =>
               /\ ~Connected(ns[txq[i].dst])
               /\ \A j \in DOMAIN txq : j < i => ~Response(txq[j], txq[i].dst)
      BY <1>2, <1>5, <2>1 DEF Ordered
    <3>2. \A j \in DOMAIN txq' : j < i => j \in DOMAIN txq /\ txq'[j] = txq[j]
      BY <1>1, <1>2, <2>1
    <3> QED
      BY <3>1, <3>2
  <2>2. CASE i = Len(txq) + 1
    <3>1. \A j \in DOMAIN txq' : j < i => j \in DOMAIN txq /\ txq'[j] = txq[j]
      BY <1>1, <1>2, <2>2
    <3>2. txq'[i] = m
      BY <1>2, <2>2
    <3> QED
      BY <1>5, <3>1, <3>2
  <2> QED
    BY <1>2, <2>1, <2>2
<1>6. \A i \in DOMAIN txq' : txq'[i].type \in {"CONN_RSP", "DISC_REQ"} => txq'[i].dst \in Remotes
  BY <1>2 DEF Ordered
<1> QED
  BY <1>4, <1>5, <1>6 DEF Ordered

(* The normal world opens, closes or reuses an address. *)
LEMMA OrderedNs ==
  ASSUME TypeOK, Held, Ordered, UNCHANGED <<txq, tx>>,
         \A q \in Remotes :
           \/ ns'[q] = ns[q]
           \/ /\ ns'[q].st # "open"
              /\ \/ ns'[q].conn = ns[q].conn
                 \/ ns[q].conn = None
                 \/ \A i \in DOMAIN txq : txq[i].dst # q
  PROVE  Ordered'
<1>1. \A q \in Remotes : Connected(ns'[q]) => Connected(ns[q])
  BY DEF Connected
<1>2. tx.pc \in {"loop", "send"} /\ tx.conn # ns'[tx.remote].conn =>
        /\ ~Connected(ns'[tx.remote])
        /\ \A i \in DOMAIN txq : ~Response(txq[i], tx.remote)
  <2> SUFFICES ASSUME tx.pc \in {"loop", "send"}, tx.conn # ns'[tx.remote].conn
               PROVE  /\ ~Connected(ns'[tx.remote])
                      /\ \A i \in DOMAIN txq : ~Response(txq[i], tx.remote)
    OBVIOUS
  <2>1. tx.remote \in Remotes /\ tx.conn # None
    BY NoneAssumption DEF Held
  <2>2. CASE tx.conn # ns[tx.remote].conn
    <3>1. ~Connected(ns[tx.remote]) /\ \A i \in DOMAIN txq : ~Response(txq[i], tx.remote)
      BY <2>2 DEF Ordered
    <3> QED
      BY <2>1, <3>1 DEF Connected
  <2>3. CASE tx.conn = ns[tx.remote].conn
    <3>1. ns'[tx.remote].st # "open" /\ \A i \in DOMAIN txq : txq[i].dst # tx.remote
      BY <2>1, <2>3
    <3> QED
      BY <3>1 DEF Connected, Response
  <2> QED
    BY <2>2, <2>3
<1>3. ASSUME NEW i \in DOMAIN txq, txq[i].type = "DATA"
      PROVE  /\ txq[i].conn \in Conns /\ txq[i].dst \in Remotes
             /\ txq[i].conn # ns'[txq[i].dst].conn =>
                  /\ ~Connected(ns'[txq[i].dst])
                  /\ \A j \in DOMAIN txq : j < i => ~Response(txq[j], txq[i].dst)
  <2> DEFINE q == txq[i].dst
  <2>1. txq[i].conn \in Conns /\ q \in Remotes /\ txq[i].conn # None
    BY <1>3, NoneAssumption DEF Ordered
  <2>2. CASE txq[i].conn # ns[q].conn
    <3>1. ~Connected(ns[q]) /\ \A j \in DOMAIN txq : j < i => ~Response(txq[j], q)
      BY <1>3, <2>2 DEF Ordered
    <3> QED
      BY <2>1, <3>1 DEF Connected
  <2>3. CASE txq[i].conn = ns[q].conn
    <3>1. txq[i].conn # ns'[q].conn => \A j \in DOMAIN txq : txq[j].dst # q
      BY <2>1, <2>3
    <3> QED
      BY <2>1, <3>1
  <2> QED
    BY <2>2, <2>3
<1>4. \A i \in DOMAIN txq : txq[i].type \in {"CONN_RSP", "DISC_REQ"} => txq[i].dst \in Remotes
  BY DEF Ordered
<1> QED
  BY <1>2, <1>3, <1>4 DEF Ordered

(* Every step keeps what is late ahead of the response to the next owner.  *)
LEMMA StepOrdered ==
  TypeOK /\ Phase /\ Held /\ Epts /\ Normal /\ Ordered /\ [Next]_vars => Ordered'
<1> SUFFICES ASSUME TypeOK, Phase, Held, Epts, Normal, Ordered, [Next]_vars PROVE Ordered'
  OBVIOUS
<1> USE DEF bus_vars, queue_vars, ns_vars, ept_vars, srv_vars
<1>1. CASE \/ tipc_dev_probe \/ virtio_stop \/ virtio_device_reset \/ EndCall \/ ResetRxJoin
           \/ ResetClose \/ RxStop \/ ConnAdd \/ handle_conn_req \/ handle_disc_req
           \/ handle_chan_msg \/ UNCHANGED vars
  <2>1. UNCHANGED <<txq, ns>> /\ (tx' = tx \/ tx'.pc = "idle")
    BY <1>1 DEF tipc_dev_probe, virtio_stop, virtio_device_reset, EndCall, ResetRxJoin,
                ResetClose, RxStop, ConnAdd, handle_conn_req, handle_disc_req,
                handle_chan_msg, vars, Thread, At
  <2> QED
    BY <2>1, OrderedTx
<1>2. ASSUME NEW c \in Conns, Accept(c) \/ SrvSend(c) \/ SrvClose(c) \/ TxWait(c)
      PROVE  Ordered'
  <2>1. UNCHANGED <<txq, ns>> /\ (tx' = tx \/ tx'.pc \notin {"loop", "send"})
    BY <1>2 DEF Accept, SrvSend, SrvClose, TxWait, Event, At
  <2> QED
    BY <2>1, OrderedTx
<1>3. CASE TxGone \/ TxExit \/ handle_hup
  <2>1. UNCHANGED <<txq, ns>> /\ tx'.pc \notin {"loop", "send"}
    BY <1>3 DEF TxGone, TxExit, handle_hup, Thread, At
  <2> QED
    BY <2>1, OrderedTx
<1>4. CASE TxRead
  <2>1. cookie[tx.conn] \in InUse /\ ept[cookie[tx.conn]].chan = tx.conn
    BY <1>4 DEF TxRead, Held, Epts
  <2>2. ns[ept[cookie[tx.conn]].remote].conn = tx.conn
    BY <2>1 DEF Normal
  <2>3. UNCHANGED <<txq, ns>> /\ tx'.conn = tx.conn /\ tx'.remote = ept[cookie[tx.conn]].remote
    BY <1>4 DEF TxRead, At
  <2> QED
    BY <2>2, <2>3, OrderedTx
<1>5. CASE TxGetMsg
  <2>1. /\ UNCHANGED <<txq, ns>> /\ tx.pc = "loop"
        /\ tx'.pc = "idle" \/ (tx'.conn = tx.conn /\ tx'.remote = tx.remote)
    BY <1>5 DEF TxGetMsg, Thread, At, TypeOK
  <2> QED
    BY <2>1, OrderedTx
<1>6. CASE virtio_start \/ ResetTxJoin
  <2>1. txq' = << >> /\ tx'.pc \in {"none", "idle"}
    BY <1>6 DEF virtio_start, ResetTxJoin, Phase, Asleep, Thread, At
  <2> QED
    BY <2>1 DEF Ordered
<1>7. CASE _go_online
  <2> DEFINE m == GO_ONLINE
  <2>1. m \in TxMsgs /\ m.type = "ONLINE"
    BY DEF TxMsgs, Types, GO_ONLINE
  <2>2. (txq' = Append(txq, m) \/ txq' = txq) /\ UNCHANGED <<ns, tx>>
    BY <1>7 DEF _go_online, Put
  <2> HIDE DEF m
  <2>3. CASE txq' = Append(txq, m)
    BY <2>1, <2>2, <2>3, OrderedPut
  <2>4. CASE txq' = txq
    BY <2>2, <2>4 DEF Ordered
  <2> QED
    BY <2>2, <2>3, <2>4
<1>8. CASE ConnRsp
  <2> DEFINE m == Rsp(rx.remote, rx.conn, rx.pc = "full", None)
  <2>1. m \in TxMsgs /\ m.type = "CONN_RSP" /\ m.dst = rx.remote /\ m.local = None
    BY <1>8 DEF ConnRsp, Rsp, TxMsgs, Types, TypeOK, Held
  <2>2. rx.remote \in Remotes /\ txq' = Append(txq, m) /\ UNCHANGED <<ns, tx>>
    BY <1>8 DEF ConnRsp, Put, Held
  <2> HIDE DEF m
  <2> QED
    BY <2>1, <2>2, OrderedPut
<1>9. CASE TxSend
  <2>0. tx.remote \in Remotes /\ tx.conn \in Conns
    BY <1>9 DEF TxSend, Held
  <2>1. UNCHANGED ns /\ tx.pc \in {"rsp", "send", "disc"}
    BY <1>9 DEF TxSend
  <2>2. /\ tx'.pc \in {"idle", "loop"}
        /\ tx'.pc = "loop" => tx'.conn = tx.conn /\ tx'.remote = tx.remote /\ tx.pc = "send"
    BY <1>9 DEF TxSend, TypeOK, Thread, At
  <2>3. CASE UNCHANGED txq
    BY <2>1, <2>2, <2>3, OrderedTx
  <2>4. CASE Put(TxMsg)
    <3>1. /\ TxMsg \in TxMsgs /\ TxMsg.dst = tx.remote /\ TxMsg.conn = tx.conn
          /\ TxMsg.type = IF tx.pc = "rsp" THEN "CONN_RSP"
                          ELSE IF tx.pc = "send" THEN "DATA" ELSE "DISC_REQ"
      BY <2>1 DEF TxMsg, Rsp, TxMsgs, Types, TypeOK, Held
    <3>2. txq' = Append(txq, TxMsg)
      BY <2>4 DEF Put
    <3>3. tx.pc = "send" /\ tx.conn # ns[tx.remote].conn =>
            ~Connected(ns[tx.remote]) /\ \A i \in DOMAIN txq : ~Response(txq[i], tx.remote)
      BY DEF Ordered
    <3> QED
      BY <2>0, <2>1, <2>2, <3>1, <3>2, <3>3, OrderedPut
  <2> QED
    BY <1>9, <2>3, <2>4 DEF TxSend
<1>10. ASSUME NEW r \in Remotes, NsOpen(r) \/ NsSend(r) \/ NsClose(r) \/ NsReuse(r)
       PROVE  Ordered'
  <2>1. CASE NsSend(r)
    <3>1. UNCHANGED <<txq, ns, tx>>
      BY <2>1 DEF NsSend
    <3> QED
      BY <3>1, OrderedNs
  <2>2. CASE NsOpen(r)
    <3>1. ns[r].conn = None
      BY <2>2 DEF NsOpen, Normal, Free
    <3>2. /\ UNCHANGED <<txq, tx>> /\ ns'[r].st = "opening"
          /\ \A q \in Remotes : q # r => ns'[q] = ns[q]
      BY <2>2 DEF NsOpen, TypeOK
    <3> QED
      BY <3>1, <3>2, OrderedNs
  <2>3. CASE NsClose(r)
    <3>1. /\ UNCHANGED <<txq, tx>> /\ ns'[r].st = "closing" /\ ns'[r].conn = ns[r].conn
          /\ \A q \in Remotes : q # r => ns'[q] = ns[q]
      BY <2>3 DEF NsClose, TypeOK
    <3> QED
      BY <3>1, OrderedNs
  <2>4. CASE NsReuse(r)
    <3>1. /\ UNCHANGED <<txq, tx>> /\ ns'[r].st = "free"
          /\ \A i \in DOMAIN txq : txq[i].dst # r
          /\ \A q \in Remotes : q # r => ns'[q] = ns[q]
      BY <2>4 DEF NsReuse, TypeOK, Free
    <3> QED
      BY <3>1, OrderedNs
  <2> QED
    BY <1>10, <2>1, <2>2, <2>3, <2>4
<1>11. CASE NsReceive
  <2>1. txq # << >> /\ txq \in Seq(TxMsgs) /\ txq' = Tail(txq) /\ tx' = tx
    BY <1>11, ReceiveEffect DEF Ordered, NsReceive
  <2>2. /\ 1 \in DOMAIN txq /\ txq[1] = Head(txq)
        /\ \A i \in DOMAIN txq' : /\ i + 1 \in DOMAIN txq /\ txq'[i] = txq[i + 1]
                                  /\ i \in Nat /\ i > 0
    BY <2>1, HeadTail
  <2>3. \A q \in Remotes : /\ ns'[q].conn = ns[q].conn
                           /\ Connected(ns'[q]) => Connected(ns[q]) \/ Response(txq[1], q)
    BY <1>11, <2>2, ReceiveEffect DEF Ordered, Connected, Response
  <2>4. tx.pc \in {"loop", "send"} /\ tx.conn # ns'[tx.remote].conn =>
          /\ ~Connected(ns'[tx.remote])
          /\ \A i \in DOMAIN txq' : ~Response(txq'[i], tx.remote)
    <3> SUFFICES ASSUME tx.pc \in {"loop", "send"}, tx.conn # ns'[tx.remote].conn
                 PROVE  /\ ~Connected(ns'[tx.remote])
                        /\ \A i \in DOMAIN txq' : ~Response(txq'[i], tx.remote)
      OBVIOUS
    <3>1. tx.remote \in Remotes
      BY DEF Held
    <3>2. ~Connected(ns[tx.remote]) /\ \A i \in DOMAIN txq : ~Response(txq[i], tx.remote)
      BY <2>3, <3>1 DEF Ordered
    <3>3. \A i \in DOMAIN txq' : ~Response(txq'[i], tx.remote)
      BY <2>2, <3>2
    <3> QED
      BY <2>2, <2>3, <3>1, <3>2, <3>3
  <2>5. ASSUME NEW i \in DOMAIN txq', txq'[i].type = "DATA"
        PROVE  /\ txq'[i].conn \in Conns /\ txq'[i].dst \in Remotes
               /\ txq'[i].conn # ns'[txq'[i].dst].conn =>
                    /\ ~Connected(ns'[txq'[i].dst])
                    /\ \A j \in DOMAIN txq' : j < i => ~Response(txq'[j], txq'[i].dst)
    <3> DEFINE q == txq'[i].dst
    <3>1. i + 1 \in DOMAIN txq /\ txq'[i] = txq[i + 1] /\ i \in Nat /\ i > 0
      BY <2>2
    <3>2. txq'[i].conn \in Conns /\ q \in Remotes
      BY <2>5, <3>1 DEF Ordered
    <3>3. ASSUME txq'[i].conn # ns'[q].conn
          PROVE  /\ ~Connected(ns'[q]) /\ \A j \in DOMAIN txq' : j < i => ~Response(txq'[j], q)
      <4>1. txq[i + 1].conn # ns[q].conn /\ q = txq[i + 1].dst
        BY <2>3, <3>1, <3>2, <3>3
      <4>2. ~Connected(ns[q]) /\ \A j \in DOMAIN txq : j < i + 1 => ~Response(txq[j], q)
        BY <2>5, <3>1, <4>1 DEF Ordered
      <4>3. 1 < i + 1
        BY <3>1
      <4>4. ~Response(txq[1], q)
        BY <2>2, <4>2, <4>3
      <4>5. ASSUME NEW j \in DOMAIN txq', j < i PROVE ~Response(txq'[j], q)
        <5>1. j + 1 \in DOMAIN txq /\ txq'[j] = txq[j + 1] /\ j \in Nat
          BY <2>2
        <5>2. j + 1 < i + 1
          BY <3>1, <4>5, <5>1
        <5> QED
          BY <4>2, <5>1, <5>2
      <4> HIDE DEF q
      <4> QED
        BY <2>3, <3>2, <4>2, <4>4, <4>5
    <3> QED
      BY <3>2, <3>3
  <2>6. \A i \in DOMAIN txq' : txq'[i].type \in {"CONN_RSP", "DISC_REQ"} => txq'[i].dst \in Remotes
    BY <2>2 DEF Ordered
  <2> QED
    BY <2>1, <2>4, <2>5, <2>6 DEF Ordered
<1> QED
  BY <1>1, <1>2, <1>3, <1>4, <1>5, <1>6, <1>7, <1>8, <1>9, <1>10, <1>11
  DEF Next, StartedTwice, StdStep, RxStep, TxStep

-----------------------------------------------------------------------------
(* The normal world is told *)

(* No channel is lost, and what tells the normal world stays. *)
LEMMA ToldFrame ==
  ASSUME Told,
         \A r \in Remotes : Lost(r)' => Lost(r),
         tx.pc = "disc" => tx' = tx,
         \A i \in DOMAIN txq : \E j \in DOMAIN txq' : txq'[j] = txq[i],
         Resetting => Resetting'
  PROVE  Told'
<1> SUFFICES ASSUME NEW r \in Remotes, Lost(r)', ~Resetting'
             PROVE  \/ tx'.pc = "disc" /\ tx'.remote = r
                    \/ \E i \in DOMAIN txq' : txq'[i].type = "DISC_REQ" /\ txq'[i].dst = r
  BY DEF Told
<1>1. \/ tx.pc = "disc" /\ tx.remote = r
      \/ \E i \in DOMAIN txq : txq[i].type = "DISC_REQ" /\ txq[i].dst = r
  BY DEF Told
<1> QED
  BY <1>1

(* What is put at the end takes nothing away. *)
LEMMA PutKeeps ==
  ASSUME TypeOK, NEW m \in TxMsgs, txq' = Append(txq, m)
  PROVE  /\ \A i \in DOMAIN txq : \E j \in DOMAIN txq' : txq'[j] = txq[i]
         /\ \E j \in DOMAIN txq' : txq'[j] = m
<1>1. txq \in Seq(TxMsgs)
  BY DEF TypeOK, TxMsgs
<1> QED
  BY <1>1, AtEnd

(* Every step that takes a channel from a connection in use tells so.      *)
LEMMA StepTold ==
  TypeOK /\ Phase /\ Held /\ Epts /\ Fresh /\ Normal /\ Ordered /\ Told /\ [Next]_vars => Told'
<1> SUFFICES ASSUME TypeOK, Phase, Held, Epts, Fresh, Normal, Ordered, Told, [Next]_vars
             PROVE  Told'
  OBVIOUS
<1> USE DEF bus_vars, queue_vars, ns_vars, ept_vars, srv_vars
<1>0. \A r \in Remotes : ns[r].st \in {"opening", "open"} => ns[r].conn \in Conns
  BY DEF Normal
<1>1. CASE virtio_start
  <2>1. \A r \in Remotes : ns'[r].st = "free"
    BY <1>1 DEF virtio_start, Free
  <2> QED
    BY <2>1 DEF Told, Lost
<1>2. CASE _go_online
  <2>1. \A r \in Remotes : ns'[r].st = "free"
    BY <1>2 DEF _go_online, Phase, Unknown
  <2> QED
    BY <2>1 DEF Told, Lost
<1>3. CASE tipc_dev_probe \/ virtio_stop \/ virtio_device_reset \/ ResetRxJoin \/ ResetClose
           \/ ResetTxJoin
  <2>1. Resetting'
    BY <1>3 DEF tipc_dev_probe, virtio_stop, virtio_device_reset, ResetRxJoin, ResetClose,
                ResetTxJoin, Phase, Resetting
  <2> QED
    BY <2>1 DEF Told
<1>4. CASE EndCall
  <2>1. UNCHANGED <<ns, srv, open, tx, txq>> /\ (Resetting => Resetting')
    BY <1>4 DEF EndCall, Resetting, Phase
  <2> QED
    BY <2>1, ToldFrame DEF Lost
<1>5. CASE RxStop \/ ConnAdd \/ handle_chan_msg \/ UNCHANGED vars
  <2>1. UNCHANGED <<ns, srv, open, tx, txq, std, dev>>
    BY <1>5 DEF RxStop, ConnAdd, handle_chan_msg, vars
  <2> QED
    BY <2>1, ToldFrame DEF Lost, Resetting
<1>6. CASE TxGone \/ TxRead \/ TxGetMsg \/ TxExit
  <2>1. UNCHANGED <<ns, srv, open, txq, std, dev>> /\ tx.pc # "disc"
    BY <1>6 DEF TxGone, TxRead, TxGetMsg, TxExit
  <2> QED
    BY <2>1, ToldFrame DEF Lost, Resetting
<1>7. ASSUME NEW c \in Conns, Accept(c) \/ SrvSend(c) \/ SrvClose(c) \/ TxWait(c)
      PROVE  Told'
  <2>1. /\ UNCHANGED <<ns, open, txq, std, dev>> /\ (tx.pc = "disc" => tx' = tx)
        /\ \A d \in Conns : srv'[d] = srv[d] \/ d \in open
    BY <1>7 DEF Accept, SrvSend, SrvClose, TxWait, TypeOK
  <2>2. \A r \in Remotes : Lost(r)' => Lost(r)
    BY <1>0, <2>1 DEF Lost
  <2> QED
    BY <2>1, <2>2, ToldFrame DEF Resetting
<1>8. CASE handle_conn_req
  <2>1. UNCHANGED <<ns, txq, tx, std, dev>>
    BY <1>8 DEF handle_conn_req
  <2>2. /\ open \subseteq open'
        /\ \A c \in Conns : srv'[c] = srv[c] \/ srv'[c] = "pending"
    BY <1>8, ConnEffect
  <2>3. \A r \in Remotes : Lost(r)' => Lost(r)
    BY <1>0, <2>1, <2>2 DEF Lost
  <2> QED
    BY <2>1, <2>3, ToldFrame DEF Resetting
<1>9. CASE handle_disc_req
  <2>1. UNCHANGED <<ns, txq, tx, std, dev>>
    BY <1>9 DEF handle_disc_req
  <2>2. CASE UNCHANGED <<srv, open>>
    BY <2>1, <2>2, ToldFrame DEF Lost, Resetting
  <2>3. ASSUME NEW s \in InUse, ept[s].remote = Head(rxq).src, CloseEpt(s) PROVE Told'
    <3>1. /\ Head(rxq).type = "DISC_REQ" /\ Head(rxq).src \in Remotes
          /\ 1 \in DOMAIN rxq /\ rxq[1] = Head(rxq)
      BY <1>9, GetsEffect DEF handle_disc_req
    <3>2. ns[Head(rxq).src].st = "closing" /\ ns[Head(rxq).src].conn = ept[s].chan
      BY <2>3, <3>1 DEF Normal
    <3>3. \A r \in Remotes : ns[r].conn = ept[s].chan => r = Head(rxq).src
      BY <3>1, <3>2 DEF Normal
    <3>4. /\ open' = open \ {ept[s].chan}
          /\ \A c \in Conns : srv'[c] = IF c = ept[s].chan THEN "closed" ELSE srv[c]
      BY <2>3, CloseEffect
    <3>5. \A r \in Remotes : Lost(r)' => Lost(r)
      BY <1>0, <2>1, <3>2, <3>3, <3>4 DEF Lost
    <3> QED
      BY <2>1, <3>5, ToldFrame DEF Resetting
  <2> QED
    BY <1>9, <2>2, <2>3, DiscEffect
<1>10. CASE handle_hup
  <2> DEFINE s == cookie[tx.conn]
  <2>1. /\ s \in InUse /\ CloseEpt(s) /\ ept[s].chan = tx.conn /\ tx.pc = "hup"
        /\ UNCHANGED <<ns, txq, std, dev>>
    BY <1>10 DEF handle_hup, Held, Epts
  <2>2. tx'.pc = "disc" /\ tx'.remote = ept[s].remote
    BY <1>10 DEF handle_hup, At
  <2> HIDE DEF s
  <2>3. ns[ept[s].remote].conn = ept[s].chan /\ ns[ept[s].remote].st # "free"
    BY <2>1 DEF Normal
  <2>4. /\ open' = open \ {ept[s].chan} /\ ept[s].remote \in Remotes
        /\ \A c \in Conns : srv'[c] = IF c = ept[s].chan THEN "closed" ELSE srv[c]
    BY <2>1, CloseEffect
  <2>5. \A r \in Remotes : Lost(r)' => Lost(r) \/ r = ept[s].remote
    <3> TAKE r \in Remotes
    <3>1. CASE ns[r].conn = ept[s].chan
      BY <2>3, <2>4, <3>1 DEF Normal
    <3>2. CASE ns[r].conn # ept[s].chan
      BY <1>0, <2>1, <2>4, <3>2 DEF Lost
    <3> QED
      BY <3>1, <3>2
  <2> QED
    BY <2>1, <2>2, <2>5 DEF Told, Resetting
<1>11. CASE ConnRsp
  <2> DEFINE m == Rsp(rx.remote, rx.conn, rx.pc = "full", None)
  <2>1. m \in TxMsgs
    BY <1>11 DEF ConnRsp, Rsp, TxMsgs, Types, TypeOK, Held
  <2>2. txq' = Append(txq, m) /\ UNCHANGED <<ns, srv, open, tx, std, dev>>
    BY <1>11 DEF ConnRsp, Put
  <2> HIDE DEF m
  <2>3. \A i \in DOMAIN txq : \E j \in DOMAIN txq' : txq'[j] = txq[i]
    BY <2>1, <2>2, PutKeeps
  <2> QED
    BY <2>2, <2>3, ToldFrame DEF Lost, Resetting
<1>12. CASE TxSend
  <2>1. UNCHANGED <<ns, srv, open, std, dev>> /\ tx.pc \in {"rsp", "send", "disc"}
    BY <1>12 DEF TxSend
  <2>2. CASE Put(TxMsg)
    <3>1. /\ TxMsg \in TxMsgs /\ TxMsg.dst = tx.remote
          /\ tx.pc = "disc" => TxMsg.type = "DISC_REQ"
      BY <2>1 DEF TxMsg, Rsp, TxMsgs, Types, TypeOK, Held
    <3>2. txq' = Append(txq, TxMsg)
      BY <2>2 DEF Put
    <3>3. /\ \A i \in DOMAIN txq : \E j \in DOMAIN txq' : txq'[j] = txq[i]
          /\ \E j \in DOMAIN txq' : txq'[j] = TxMsg
      BY <3>1, <3>2, PutKeeps
    <3>4. \A r \in Remotes : Lost(r)' => Lost(r)
      BY <2>1 DEF Lost
    <3> QED
      BY <2>1, <3>1, <3>3, <3>4 DEF Told, Resetting
  <2>3. CASE tx_stop
    BY <2>1, <2>3 DEF tx_stop, Told, Resetting
  <2> QED
    BY <1>12, <2>2, <2>3 DEF TxSend
<1>13. ASSUME NEW r \in Remotes, NsOpen(r) \/ NsSend(r) \/ NsClose(r) \/ NsReuse(r)
       PROVE  Told'
  <2>1. UNCHANGED <<srv, open, tx, txq, std, dev>>
    BY <1>13 DEF NsOpen, NsSend, NsClose, NsReuse
  <2>2. \A q \in Remotes : \/ ns'[q] = ns[q]
                           \/ ns'[q].st \notin {"opening", "open"}
                           \/ ns'[q].conn = next /\ next \in Conns
    BY <1>13, BoundAssumption DEF NsOpen, NsSend, NsClose, NsReuse, TypeOK, Free, Conns
  <2>3. next \in Conns => srv[next] = "none"
    BY BoundAssumption DEF Fresh, Conns
  <2>4. \A q \in Remotes : Lost(q)' => Lost(q)
    BY <2>1, <2>2, <2>3 DEF Lost
  <2> QED
    BY <2>1, <2>4, ToldFrame DEF Resetting
<1>14. CASE NsReceive
  <2>1. UNCHANGED <<srv, open, tx, std, dev>>
    BY <1>14 DEF NsReceive
  <2>2. txq # << >> /\ txq \in Seq(TxMsgs) /\ txq' = Tail(txq)
    BY <1>14, ReceiveEffect DEF Ordered
  <2>3. /\ txq[1] = Head(txq)
        /\ \A i \in DOMAIN txq : i # 1 => /\ i - 1 \in DOMAIN txq'
                                          /\ txq'[i - 1] = txq[i]
    BY <2>2, HeadTail
  <2>4. \A r \in Remotes : Lost(r)' => Lost(r)
    <3>1. \A r \in Remotes : /\ ns'[r].conn = ns[r].conn
                             /\ ns'[r].st \in {"opening", "open"} =>
                                  ns[r].st \in {"opening", "open"}
      BY <1>14, ReceiveEffect DEF Ordered
    <3> QED
      BY <2>1, <3>1 DEF Lost
  <2>5. \A r \in Remotes : Head(txq).type = "DISC_REQ" /\ Head(txq).dst = r =>
                             ns'[r].st \notin {"opening", "open"}
    BY <1>14, ReceiveEffect DEF Ordered
  <2> SUFFICES ASSUME NEW r \in Remotes, Lost(r)', ~Resetting'
               PROVE  \/ tx'.pc = "disc" /\ tx'.remote = r
                      \/ \E i \in DOMAIN txq' : txq'[i].type = "DISC_REQ" /\ txq'[i].dst = r
    BY DEF Told
  <2>6. \/ tx.pc = "disc" /\ tx.remote = r
        \/ \E i \in DOMAIN txq : txq[i].type = "DISC_REQ" /\ txq[i].dst = r
    BY <2>1, <2>4 DEF Told, Resetting
  <2>7. ASSUME NEW i \in DOMAIN txq, txq[i].type = "DISC_REQ", txq[i].dst = r
        PROVE  \E j \in DOMAIN txq' : txq'[j].type = "DISC_REQ" /\ txq'[j].dst = r
    <3>1. i # 1
      BY <2>3, <2>5, <2>7 DEF Lost
    <3> QED
      BY <2>3, <2>7, <3>1
  <2> QED
    BY <2>1, <2>6, <2>7
<1> QED
  BY <1>1, <1>2, <1>3, <1>4, <1>5, <1>6, <1>7, <1>8, <1>9, <1>10, <1>11, <1>12, <1>13, <1>14
  DEF Next, StartedTwice, StdStep, RxStep, TxStep

-----------------------------------------------------------------------------
(* The inductive invariant holds *)

(* The invariant holds at the start. *)
LEMMA InitInv == Init => IInv
<1> SUFFICES ASSUME Init PROVE IInv
  OBVIOUS
<1> USE DEF Init
<1>1. TypeOK
  <2>1. online \in BOOLEAN
    BY Zenon
  <2>2. rxq \in Seq(RxMsg) /\ txq \in Seq(TxMsgs) /\ Len(rxq) = 0 /\ Len(txq) = 0
    OBVIOUS
  <2>3. 1 \in 1 .. MaxConns + 1 /\ RxBufs >= 0 /\ TxBufs >= 0 /\ 0 \in 0 .. MaxMsgs
    BY BoundAssumption
  <2>4. rx \in [pc : {"none", "wait", "err", "full", "add"},
                conn : Conns \cup {None}, remote : Remotes \cup {None},
                local : Slots \cup {None}]
    BY DEF Thread, At
  <2>5. tx \in [pc : {"none", "idle", "ready", "msg", "hup", "rsp", "loop", "send", "disc"},
                conn : Conns \cup {None}, remote : Remotes \cup {None},
                local : Slots \cup {None}]
    BY DEF Thread, At
  <2>6. ns \in [Remotes -> [st : {"free", "opening", "open", "closing", "dead"},
                            conn : Conns \cup {None}, local : Slots \cup {None}]]
    BY DEF Free
  <2>7. /\ ept \in [Slots -> {None} \cup [remote : Remotes, chan : Conns]]
        /\ cookie \in [Conns -> Slots \cup {None}]
        /\ srv \in [Conns -> {"none", "pending", "accepted", "closed"}]
        /\ msgs \in [Conns -> 0 .. MaxMsgs]
    BY <2>3
  <2> QED
    BY <2>1, <2>2, <2>3, <2>4, <2>5, <2>6, <2>7, BoundAssumption DEF TypeOK, RxMsg, TxMsgs
<1>2. InUse = {} /\ rx.pc = "none" /\ tx.pc = "none"
  BY DEF InUse, Thread, At
<1>3. \A r \in Remotes : ns[r] = Free /\ ns[r].st = "free"
  BY DEF Free
<1>4. Phase
  BY <1>2, <1>3 DEF Phase
<1>5. Held
  BY <1>2 DEF Held
<1>6. Epts
  BY <1>2 DEF Epts
<1>7. Fresh
  BY DEF Fresh
<1>8. Normal
  BY <1>2, <1>3 DEF Normal
<1>9. Ordered
  BY <1>2 DEF Ordered
<1>10. Told
  BY <1>3 DEF Told, Lost
<1> QED
  BY <1>1, <1>4, <1>5, <1>6, <1>7, <1>8, <1>9, <1>10 DEF IInv

(* All states of the device, its threads and the normal world satisfy the  *)
(* inductive invariant.                                                    *)
THEOREM IInvHolds == Spec => []IInv
<1>1. Init => IInv
  BY InitInv
<1>2. IInv /\ [Next]_vars => IInv'
  <2> SUFFICES ASSUME IInv, [Next]_vars PROVE IInv'
    OBVIOUS
  <2>1. /\ TypeOK /\ Phase /\ Held /\ Epts /\ Fresh /\ Normal /\ stray = {} /\ Ordered /\ Told
    BY DEF IInv
  <2>2. TypeOK' /\ Held'
    BY <2>1, StepType
  <2>3. Phase'
    BY <2>1, StepPhase
  <2>4. Epts'
    BY <2>1, StepEpts
  <2>5. Fresh'
    BY <2>1, StepFresh
  <2>6. Normal' /\ stray' = {}
    BY <2>1, StepNormal, StepStray
  <2>7. Ordered'
    BY <2>1, StepOrdered
  <2>8. Told'
    BY <2>1, StepTold
  <2> QED
    BY <2>2, <2>3, <2>4, <2>5, <2>6, <2>7, <2>8 DEF IInv
<1> QED
  BY <1>1, <1>2, PTL DEF Spec

-----------------------------------------------------------------------------
(* The properties *)

(* The endpoints, the cookies, the handle list and the open handles agree  *)
(* between any two steps of handle_conn_req, handle_disc_req, handle_hup   *)
(* and the reset, for every number of slots, connections and buffers.      *)
THEOREM EndpointsAgree == Spec => []EptsAgree
<1>1. IInv => EptsAgree
  <2> SUFFICES ASSUME IInv PROVE EptsAgree
    OBVIOUS
  <2>1. TypeOK /\ Epts
    BY DEF IInv
  <2>2. \A c \in open :
          \/ c \in list /\ cookie[c] # None /\ ept[cookie[c]] # None /\ ept[cookie[c]].chan = c
          \/ rx.pc = "add" /\ rx.conn = c /\ cookie[c] = None
    BY <2>1 DEF Epts, InUse, TypeOK
  <2>3. \A c \in Conns \ open : cookie[c] = None
    BY <2>1 DEF Epts
  <2> QED
    BY <2>1, <2>2, <2>3 DEF EptsAgree, Epts
<1> QED
  BY <1>1, IInvHolds, PTL

(* handle_chan_msg hands a message to the channel of the connection it was *)
(* sent on, and the normal world gets on an open connection only what its  *)
(* channel sent, though slots and remote addresses are reused while        *)
(* messages are on their way and while the TX thread holds an address.     *)
THEOREM MessagesStayOnTheirConnection == Spec => []NoCrossDelivery
<1>1. IInv => NoCrossDelivery
  <2> SUFFICES ASSUME IInv PROVE NoCrossDelivery
    OBVIOUS
  <2>1. TypeOK /\ Ordered /\ stray = {}
    BY DEF IInv
  <2> SUFFICES ASSUME txq # << >>, Head(txq).type = "DATA",
                      Connected(ns[Head(txq).dst])
               PROVE  ns[Head(txq).dst].conn = Head(txq).conn
    BY <2>1 DEF NoCrossDelivery, Connected
  <2>2. txq \in Seq(TxMsgs)
    BY <2>1 DEF TypeOK, TxMsgs
  <2>3. 1 \in DOMAIN txq /\ txq[1] = Head(txq)
    BY <2>2, HeadTail
  <2> QED
    BY <2>1, <2>3 DEF Ordered
<1> QED
  BY <1>1, IInvHolds, PTL

(* After tipc_dev_reset nothing of the old life of the device is left; the *)
(* only threads a device in the reset state can have are the two, asleep,  *)
(* of a start that could not send GO_ONLINE.                               *)
THEOREM ResetLeavesNothing == Spec => []ResetClean
<1>1. IInv => ResetClean
  BY DEF IInv, Phase, Unknown, Asleep, ResetClean, InUse
<1> QED
  BY <1>1, IInvHolds, PTL

(* A channel that handle_hup or a disconnect request closed is not closed  *)
(* behind the back of the normal world.                                    *)
THEOREM NoConnectionClosesSilently == Spec => []NoSilentClose
<1>1. IInv => NoSilentClose
  BY DEF IInv, Told, Lost, Resetting, NoSilentClose
<1> QED
  BY <1>1, IInvHolds, PTL
=============================================================================
