----------------------------- MODULE TrustyIpc -----------------------------
(***************************************************************************)
(* Ports and channels of the Trusty IPC kernel (ipc.c), with the user      *)
(* contexts (uctx.c) that hold their handles.  One action is one critical  *)
(* section of ipc_lock together with the thread-private work before it;    *)
(* between the critical sections of a system call (pc) the other apps run. *)
(*                                                                         *)
(* A channel's memory lives as long as its reference list is not empty.    *)
(* The list is modelled as it is in the code: a set of named references    *)
(* ("handle", "node", "peer").  A freed channel keeps its peer pointer, so *)
(* that what __chan_destroy_refobj asserts can be stated of it.            *)
(*                                                                         *)
(* Message queues are reduced to their counts; MsgQueue has their detail.  *)
(* trusty_hyp_check_guest_access is external; this tree's default grants.  *)
(***************************************************************************)
EXTENDS Naturals, Sequences, FiniteSets

CONSTANTS Apps,        \* trusted apps: one thread and one uctx each
          Ports,       \* port objects the model may allocate
          Chans,       \* channel objects the model may allocate
          Paths,       \* port names
          None,        \* the null pointer
          NumBufs,     \* num_recv_bufs of every port
          MaxHandles,  \* IPC_MAX_HANDLES
          FlagSets,    \* the flags a port may be created with
          WaitForPort, \* whether apps pass IPC_CONNECT_WAIT_FOR_PORT
          EarlyCalls   \* whether apps use a channel before it has a queue

ASSUME NoneAssumption == None \notin Ports \cup Chans \cup Paths
ASSUME DisjointAssumption == Ports \cap Chans = {}
ASSUME NumBufsAssumption == NumBufs \in Nat \ {0}
ASSUME MaxHandlesAssumption == MaxHandles \in Nat
ASSUME FlagSetsAssumption == FlagSets \subseteq SUBSET {"TA", "NS"}
ASSUME SwitchesAssumption == WaitForPort \in BOOLEAN /\ EarlyCalls \in BOOLEAN

VARIABLES port,         \* ipc_port_t
          chan,         \* ipc_chan_t
          port_list,    \* ipc_port_list, as a set: paths are unique
          waiting_list, \* waiting_for_port_chan_list, by the path waited for
          table,        \* app |-> handles installed in its uctx
          pc,           \* app |-> where its system call is, and on what
          panic         \* "no", or the assertion that stopped the kernel

vars == <<port, chan, port_list, waiting_list, table, pc, panic>>

Idle == [at |-> "idle", obj |-> None]
At(a, where, o) == pc[a] = [at |-> where, obj |-> o]

PortStates == {"FREE", "LISTENING", "CLOSING"}
ChanStates == {"FREE", "ACCEPTING", "CONNECTING", "CONNECTED",
               "DISCONNECTING", "WAITING_FOR_PORT"}

Members(s) == {s[k] : k \in 1 .. Len(s)}
list_delete(s, i) == [k \in 1 .. Len(s) - 1 |-> IF k < i THEN s[k] ELSE s[k + 1]]

FreePort == [state |-> "FREE", path |-> None, flags |-> {}, refcnt |-> 0,
             pending |-> << >>]
FreeChan == [state |-> "FREE", peer |-> None, refs |-> {}, ready |-> FALSE,
             path |-> None, hasq |-> FALSE, filled |-> 0, read |-> 0]

Init == /\ port = [p \in Ports |-> FreePort]
        /\ chan = [c \in Chans |-> FreeChan]
        /\ port_list = {}
        /\ waiting_list = [path \in Paths |-> << >>]
        /\ table = [a \in Apps |-> {}]
        /\ pc = [a \in Apps |-> Idle]
        /\ panic = "no"

-----------------------------------------------------------------------------
(* References and shutdown: functions from the channels before a call to   *)
(* the channels after it.                                                  *)

(* chan_del_ref: the last reference frees the channel. *)
DelRef(x, r) == IF x.refs \ {r} = {} THEN [FreeChan EXCEPT !.peer = x.peer]
                ELSE [x EXCEPT !.refs = @ \ {r}]

(* _chan_shutdown_locked on a channel that is not WAITING_FOR_PORT. *)
HangUp(x) ==
  [x EXCEPT !.state = IF @ \in {"CONNECTED", "CONNECTING", "ACCEPTING"}
                      THEN "DISCONNECTING" ELSE @]

(* chan_shutdown_locked for every channel of a set S, none of them peer of *)
(* another: each hangs up, so does its peer, and the channel lets go of    *)
(* its peer.  The peer keeps its own reference until its own shutdown.     *)
PeersOf(S) == {chan[c].peer : c \in S} \ {None}
(* Mistakes: chan->peer is not cleared; the reference to the peer is kept; *)
(* the peer is not hung up.                                                *)
ShutDownKeepsPeer(S) ==
  [c \in Chans |->
     IF c \in S THEN HangUp(chan[c])
     ELSE IF c \in PeersOf(S) THEN DelRef(HangUp(chan[c]), "peer")
     ELSE chan[c]]
ShutDownKeepsRef(S) ==
  [c \in Chans |->
     IF c \in S THEN [HangUp(chan[c]) EXCEPT !.peer = None]
     ELSE IF c \in PeersOf(S) THEN HangUp(chan[c])
     ELSE chan[c]]
ShutDownAlone(S) ==
  [c \in Chans |->
     IF c \in S THEN [HangUp(chan[c]) EXCEPT !.peer = None]
     ELSE IF c \in PeersOf(S) THEN DelRef(chan[c], "peer")
     ELSE chan[c]]

ShutDown(S) ==
  [c \in Chans |->
     IF c \in S THEN [HangUp(chan[c]) EXCEPT !.peer = None]
     ELSE IF c \in PeersOf(S) THEN DelRef(HangUp(chan[c]), "peer")
     ELSE chan[c]]

(* port_attach_client: a new server channel for a client, both with a      *)
(* queue and with a reference to each other.                               *)
ServerFor(client) ==
  [FreeChan EXCEPT !.state = "ACCEPTING", !.peer = client,
                   !.refs = {"peer", "node"}, !.hasq = TRUE]
Attached(x, server) ==
  [x EXCEPT !.state = "CONNECTING", !.peer = server,
            !.refs = (@ \ {"node"}) \cup {"peer"}, !.hasq = TRUE,
            !.path = None]

(* check_access for a client that is a trusted app *)
check_access(flags) == "TA" \in flags

port_find_locked(path) == {p \in port_list : port[p].path = path}

-----------------------------------------------------------------------------
(* sys_port_create: ipc_port_create, uctx_handle_install, ipc_port_publish *)

(* Mistake: publish stops at the first client that waits. *)
WaitingForFirst(path) ==
  IF waiting_list[path] = << >> THEN << >> ELSE <<Head(waiting_list[path])>>

WaitingFor(path) == waiting_list[path]

CanPublish(a, p, path) ==
  /\ panic = "no" /\ pc[a] = Idle
  /\ port[p].state = "FREE"
  /\ Cardinality(table[a]) < MaxHandles
  /\ port_find_locked(path) = {}

(* Every client that waits for the path is taken off the waiting list and  *)
(* attached, in the order in which they came.                              *)
PortCreate(a, p, path, flags) ==
  LET W == WaitingFor(path) IN
  /\ CanPublish(a, p, path)
  /\ W # << >> => check_access(flags)
  /\ \E new \in [Members(W) -> {c \in Chans : chan[c].state = "FREE"}] :
       /\ \A c, d \in Members(W) : new[c] = new[d] => c = d
       /\ chan' = [c \in Chans |->
            IF c \in Members(W) THEN Attached(chan[c], new[c])
            ELSE IF \E w \in Members(W) : new[w] = c
            THEN ServerFor(CHOOSE w \in Members(W) : new[w] = c)
            ELSE chan[c]]
       /\ port' = [port EXCEPT ![p] =
            [state |-> "LISTENING", path |-> path, flags |-> flags,
             refcnt |-> 3 + Len(W),  \* uctx, its handle_list, port_list
             pending |-> [k \in 1 .. Len(W) |-> new[W[k]]]]]
  /\ waiting_list' = [waiting_list EXCEPT ![path] = SubSeq(@, Len(W) + 1, Len(@))]
  /\ port_list' = port_list \cup {p}
  /\ table' = [table EXCEPT ![a] = @ \cup {p}]
  /\ UNCHANGED <<pc, panic>>

(* A client that waited may not connect to the new port.  It is off the    *)
(* waiting list, still WAITING_FOR_PORT, and is shut down: the ASSERT of   *)
(* _chan_shutdown_locked that it is on the list fails.                     *)
PortCreateDenied(a, p, path, flags) ==
  /\ CanPublish(a, p, path)
  /\ WaitingFor(path) # << >>
  /\ ~check_access(flags)
  /\ panic' = "list_in_list"
  /\ UNCHANGED <<port, chan, port_list, waiting_list, table, pc>>

-----------------------------------------------------------------------------
(* sys_connect *)

(* What follows ipc_port_connect_async: wait for the answer, or install at *)
(* once (a full table closes the channel again).                           *)
AfterConnect(a, c, async) ==
  IF ~async
  THEN /\ pc' = [pc EXCEPT ![a] = [at |-> "connect", obj |-> c]]
       /\ UNCHANGED table
  ELSE IF Cardinality(table[a]) < MaxHandles
  THEN /\ table' = [table EXCEPT ![a] = @ \cup {c}]
       /\ UNCHANGED pc
  ELSE /\ pc' = [pc EXCEPT ![a] = [at |-> "shutdown", obj |-> c]]
       /\ UNCHANGED table

(* The port exists and lets the client in. *)
Connect(a, p, c, s, async) ==
  /\ panic = "no" /\ pc[a] = Idle
  /\ p \in port_list /\ check_access(port[p].flags)
  /\ c # s /\ chan[c].state = "FREE" /\ chan[s].state = "FREE"
  /\ chan' = [chan EXCEPT
       ![c] = [Attached(FreeChan, s) EXCEPT !.refs = {"handle", "peer"}],
       ![s] = ServerFor(c)]
  /\ port' = [port EXCEPT ![p].pending = Append(@, s), ![p].refcnt = @ + 1]
  /\ AfterConnect(a, c, async)
  /\ UNCHANGED <<port_list, waiting_list, panic>>

(* The port does not exist and the client passed WAIT_FOR_PORT. *)
ConnectWait(a, path, c, async) ==
  /\ panic = "no" /\ pc[a] = Idle
  /\ WaitForPort
  /\ port_find_locked(path) = {}
  /\ chan[c].state = "FREE"
  /\ chan' = [chan EXCEPT ![c] =
       [FreeChan EXCEPT !.state = "WAITING_FOR_PORT", !.path = path,
                        !.refs = {"handle", "node"}]]
  /\ waiting_list' = [waiting_list EXCEPT ![path] = Append(@, c)]
  /\ AfterConnect(a, c, async)
  /\ UNCHANGED <<port, port_list, panic>>

(* chan_poll *)
chan_poll(c) ==
  (IF chan[c].state = "DISCONNECTING" THEN {"HUP"} ELSE {}) \cup
  (IF chan[c].ready THEN {"READY"} ELSE {}) \cup
  (IF chan[c].hasq /\ chan[c].filled > 0 THEN {"MSG"} ELSE {})

(* The wait of a synchronous connect ends: chan_poll and, for the events   *)
(* it returned, chan_finalize_event.                                       *)
ConnectWake(a, c) ==
  LET event == chan_poll(c) IN
  /\ panic = "no" /\ At(a, "connect", c)
  /\ event # {}
  /\ chan' = [chan EXCEPT ![c].ready = FALSE]
  /\ IF \/ "HUP" \in event /\ "MSG" \notin event
        \/ "READY" \notin event
        \/ Cardinality(table[a]) >= MaxHandles
     THEN /\ pc' = [pc EXCEPT ![a] = [at |-> "shutdown", obj |-> c]]
          /\ UNCHANGED table
     ELSE /\ pc' = [pc EXCEPT ![a] = Idle]
          /\ table' = [table EXCEPT ![a] = @ \cup {c}]
  /\ UNCHANGED <<port, port_list, waiting_list, panic>>

-----------------------------------------------------------------------------
(* sys_accept *)

CanAccept(a, p) == /\ panic = "no" /\ pc[a] = Idle
                   /\ p \in table[a] \cap Ports
                   /\ port[p].state = "LISTENING"
                   /\ port[p].pending # << >>

(* ipc_port_accept lets go of the list reference and of the port. *)
Unlink(p) == port' = [port EXCEPT ![p].pending = Tail(@), ![p].refcnt = @ - 1]

(* Mistake: only the pointer to the client is checked. *)
HasClient(s) == chan[s].peer # None

StillConnecting(s) == /\ chan[s].peer # None
                      /\ chan[s].state = "ACCEPTING"
                      /\ chan[chan[s].peer].state = "CONNECTING"

(* Mistake: IPC_CHAN_AUX_STATE_CONNECTED is not set for the client. *)
AcceptSilently(a, p) ==
  LET s == Head(port[p].pending)
      c == chan[s].peer IN
  /\ CanAccept(a, p)
  /\ StillConnecting(s)
  /\ chan' = [chan EXCEPT
       ![s].state = "CONNECTED",
       ![s].refs = (@ \ {"node"}) \cup {"handle"},
       ![c].state = "CONNECTED"]
  /\ Unlink(p)
  /\ pc' = [pc EXCEPT ![a] = [at |-> "accept", obj |-> s]]
  /\ UNCHANGED <<port_list, waiting_list, table, panic>>

Accept(a, p) ==
  LET s == Head(port[p].pending)
      c == chan[s].peer IN
  /\ CanAccept(a, p)
  /\ StillConnecting(s)
  /\ chan' = [chan EXCEPT
       ![s].state = "CONNECTED",
       ![s].refs = (@ \ {"node"}) \cup {"handle"},
       ![c].state = "CONNECTED",
       ![c].ready = TRUE]
  /\ Unlink(p)
  /\ pc' = [pc EXCEPT ![a] = [at |-> "accept", obj |-> s]]
  /\ UNCHANGED <<port_list, waiting_list, table, panic>>

(* Mistake: the list reference of the dropped server is kept. *)
AcceptDroppedLeaks(a, p) ==
  LET s == Head(port[p].pending) IN
  /\ CanAccept(a, p)
  /\ ~StillConnecting(s)
  /\ chan' = ShutDown({s})
  /\ Unlink(p)
  /\ UNCHANGED <<port_list, waiting_list, table, pc, panic>>

(* The client has gone: the server channel is dropped. *)
AcceptDropped(a, p) ==
  LET s == Head(port[p].pending) IN
  /\ CanAccept(a, p)
  /\ ~StillConnecting(s)
  /\ chan' = [ShutDown({s}) EXCEPT ![s] = DelRef(@, "node")]
  /\ Unlink(p)
  /\ UNCHANGED <<port_list, waiting_list, table, pc, panic>>

(* uctx_handle_install and the copy of the peer's uuid; when one of them   *)
(* fails the new channel is closed.                                        *)
AcceptInstall(a, s, copied) ==
  /\ panic = "no" /\ At(a, "accept", s)
  /\ IF copied /\ Cardinality(table[a]) < MaxHandles
     THEN /\ table' = [table EXCEPT ![a] = @ \cup {s}]
          /\ pc' = [pc EXCEPT ![a] = Idle]
     ELSE /\ pc' = [pc EXCEPT ![a] = [at |-> "shutdown", obj |-> s]]
          /\ UNCHANGED table
  /\ UNCHANGED <<port, chan, port_list, waiting_list, panic>>

-----------------------------------------------------------------------------
(* sys_close: uctx_handle_remove, then handle_close, which is a shutdown   *)
(* and, in a critical section of its own, the drop of the last handle ref. *)

SysClose(a, h) ==
  /\ panic = "no" /\ pc[a] = Idle
  /\ h \in table[a]
  /\ table' = [table EXCEPT ![a] = @ \ {h}]
  /\ pc' = [pc EXCEPT ![a] = [at |-> "shutdown", obj |-> h]]
  /\ port' = IF h \in Ports THEN [port EXCEPT ![h].refcnt = @ - 1] ELSE port
  /\ UNCHANGED <<chan, port_list, waiting_list, panic>>

(* chan_shutdown *)
ChanShutdown(a, c) ==
  /\ panic = "no" /\ At(a, "shutdown", c)
  /\ IF chan[c].state = "WAITING_FOR_PORT"
     THEN /\ chan' = [chan EXCEPT ![c] = [DelRef(@, "node")
                                          EXCEPT !.state = "DISCONNECTING"]]
          /\ \E i \in DOMAIN waiting_list[chan[c].path] :
               /\ waiting_list[chan[c].path][i] = c
               /\ waiting_list' = [waiting_list EXCEPT ![chan[c].path] = list_delete(@, i)]
     ELSE /\ chan' = ShutDown({c})
          /\ UNCHANGED waiting_list
  /\ pc' = [pc EXCEPT ![a] = [at |-> "destroy", obj |-> c]]
  /\ UNCHANGED <<port, port_list, table, panic>>

(* chan_handle_destroy *)
ChanDestroy(a, c) ==
  /\ panic = "no" /\ At(a, "destroy", c)
  /\ chan' = [chan EXCEPT ![c] = DelRef(@, "handle")]
  /\ pc' = [pc EXCEPT ![a] = Idle]
  /\ UNCHANGED <<port, port_list, waiting_list, table, panic>>

(* port_shutdown: every pending server channel is shut down and unlinked. *)
PortShutdown(a, p) ==
  LET P == Members(port[p].pending)
      down == ShutDown(P) IN
  /\ panic = "no" /\ At(a, "shutdown", p)
  /\ chan' = [c \in Chans |->
                IF c \in P THEN DelRef(down[c], "node") ELSE down[c]]
  /\ port' = [port EXCEPT
       ![p].state = "CLOSING", ![p].pending = << >>,
       ![p].refcnt = @ - (IF p \in port_list THEN 1 ELSE 0) - Len(port[p].pending)]
  /\ port_list' = port_list \ {p}
  /\ pc' = [pc EXCEPT ![a] = [at |-> "destroy", obj |-> p]]
  /\ UNCHANGED <<waiting_list, table, panic>>

(* handle_decref; port_handle_destroy when it was the last reference. *)
PortDestroy(a, p) ==
  /\ panic = "no" /\ At(a, "destroy", p)
  /\ port' = [port EXCEPT ![p] =
       IF @.refcnt = 1 THEN [FreePort EXCEPT !.pending = port[p].pending]
       ELSE [@ EXCEPT !.refcnt = @ - 1]]
  /\ pc' = [pc EXCEPT ![a] = Idle]
  /\ UNCHANGED <<chan, port_list, waiting_list, table, panic>>

-----------------------------------------------------------------------------
(* Messages (ipc_msg.c), by number, and the wait of an installed channel.  *)

Uses(a, c) == panic = "no" /\ pc[a] = Idle /\ c \in table[a] \cap Chans

SendMsg(a, c) ==
  LET d == chan[c].peer IN
  /\ Uses(a, c)
  /\ chan[c].state = "CONNECTED"
  /\ chan[d].filled + chan[d].read < NumBufs
  /\ chan' = [chan EXCEPT ![d].filled = @ + 1]
  /\ UNCHANGED <<port, port_list, waiting_list, table, pc, panic>>

GetMsg(a, c) ==
  /\ Uses(a, c) /\ chan[c].hasq
  /\ chan[c].filled > 0
  /\ chan' = [chan EXCEPT ![c].filled = @ - 1, ![c].read = @ + 1]
  /\ UNCHANGED <<port, port_list, waiting_list, table, pc, panic>>

PutMsg(a, c) ==
  /\ Uses(a, c) /\ chan[c].hasq
  /\ chan[c].read > 0
  /\ chan' = [chan EXCEPT ![c].read = @ - 1]
  /\ UNCHANGED <<port, port_list, waiting_list, table, pc, panic>>

(* get_msg, read_msg or put_msg on a channel whose msg_queue is NULL. *)
EarlyCall(a, c) ==
  /\ Uses(a, c) /\ EarlyCalls
  /\ ~chan[c].hasq
  /\ panic' = "msg_queue"
  /\ UNCHANGED <<port, chan, port_list, waiting_list, table, pc>>

(* sys_wait reports READY once. *)
WaitReady(a, c) ==
  /\ Uses(a, c)
  /\ chan[c].ready
  /\ chan' = [chan EXCEPT ![c].ready = FALSE]
  /\ UNCHANGED <<port, port_list, waiting_list, table, pc, panic>>

-----------------------------------------------------------------------------
CallStep(a) ==
  \/ \E c \in Chans : \/ ConnectWake(a, c)
                      \/ ChanShutdown(a, c)
                      \/ ChanDestroy(a, c)
                      \/ \E copied \in BOOLEAN : AcceptInstall(a, c, copied)
  \/ \E p \in Ports : PortShutdown(a, p) \/ PortDestroy(a, p)

NewCall(a) ==
  \/ \E p \in Ports, path \in Paths, flags \in FlagSets :
       PortCreate(a, p, path, flags) \/ PortCreateDenied(a, p, path, flags)
  \/ \E p \in Ports, c, s \in Chans, async \in BOOLEAN :
       Connect(a, p, c, s, async)
  \/ \E path \in Paths, c \in Chans, async \in BOOLEAN :
       ConnectWait(a, path, c, async)
  \/ \E p \in Ports : Accept(a, p) \/ AcceptDropped(a, p)
  \/ \E h \in Ports \cup Chans : SysClose(a, h)
  \/ \E c \in Chans : \/ SendMsg(a, c) \/ GetMsg(a, c) \/ PutMsg(a, c)
                      \/ EarlyCall(a, c) \/ WaitReady(a, c)

Next == \E a \in Apps : NewCall(a) \/ CallStep(a)

Spec == Init /\ [][Next]_vars

-----------------------------------------------------------------------------
PortRecords == [state : PortStates, path : Paths \cup {None},
                flags : SUBSET {"TA", "NS"}, refcnt : Nat, pending : Seq(Chans)]
ChanRecords == [state : ChanStates, peer : Chans \cup {None},
                refs : SUBSET {"handle", "node", "peer"}, ready : BOOLEAN,
                path : Paths \cup {None}, hasq : BOOLEAN,
                filled : Nat, read : Nat]
Places == {"idle", "connect", "accept", "shutdown", "destroy"}

TypeOK ==
  /\ port \in [Ports -> PortRecords]
  /\ chan \in [Chans -> ChanRecords]
  /\ port_list \in SUBSET Ports
  /\ waiting_list \in [Paths -> Seq(Chans)]
  /\ table \in [Apps -> SUBSET (Ports \cup Chans)]
  /\ pc \in [Apps -> [at : Places, obj : Ports \cup Chans \cup {None}]]
  /\ panic \in {"no", "list_in_list", "msg_queue"}

Alive(c) == chan[c].state # "FREE"
HeldBy(a, h) == h \in table[a] \/ pc[a].obj = h
Held(h) == \E a \in Apps : HeldBy(a, h)
Linked(c) == \/ \E path \in Paths : c \in Members(waiting_list[path])
             \/ \E p \in Ports : c \in Members(port[p].pending)

(* The reference list of a channel names who can still reach it: its       *)
(* handle, the list it is linked into, its peer.                           *)
ChanRefs ==
  \A c \in Chans :
    /\ "handle" \in chan[c].refs <=> Held(c)
    /\ "node" \in chan[c].refs <=> Linked(c)
    /\ "peer" \in chan[c].refs <=> \E d \in Chans : chan[d].peer = c
    /\ Alive(c) <=> chan[c].refs # {}

(* A port's reference count is the number of its users: the uctx table and *)
(* its handle list, the global list, one per pending connection, or the    *)
(* system call that closes it.                                             *)
Count(b) == IF b THEN 1 ELSE 0
PortRefs ==
  \A p \in Ports :
    /\ port[p].refcnt = Count(Held(p))
                        + Count(\E a \in Apps : p \in table[a])
                        + Count(p \in port_list)
                        + Len(port[p].pending)
    /\ port[p].state = "FREE" <=> port[p].refcnt = 0

(* On top of the types, the references of every channel and of every port  *)
(* are exactly its users at every moment: obj_add_ref and obj_del_ref,     *)
(* handle_incref and handle_decref are paired on every path of ipc.c.      *)
RefsMatch == TypeOK /\ ChanRefs /\ PortRefs

(* What __chan_destroy_refobj (ipc.c:403, 406) and port_handle_destroy     *)
(* (ipc.c:228-229) assert when they free an object: it points at no peer,  *)
(* and it is in no list.                                                   *)
DestroyAsserts ==
  /\ \A c \in Chans : ~Alive(c) => chan[c].peer = None /\ ~Linked(c)
  /\ \A p \in Ports : port[p].state = "FREE" =>
       port[p].pending = << >> /\ p \notin port_list

(* The two ends of a connection agree: an end is CONNECTED only with a     *)
(* CONNECTED peer that points back (the DEBUG_ASSERT of                    *)
(* check_channel_connected_locked, ipc_msg.c:213), a client that is        *)
(* CONNECTING has a server waiting in the pending list of a port, and when *)
(* one end was closed the other one is DISCONNECTING: its poll reports HUP. *)
EndsAgree ==
  \A c \in Chans :
    /\ chan[c].state = "CONNECTED" =>
         /\ chan[c].peer # None
         /\ chan[chan[c].peer].state = "CONNECTED"
         /\ chan[chan[c].peer].peer = c
    /\ chan[c].state = "CONNECTING" =>
         /\ chan[c].peer # None
         /\ chan[chan[c].peer].state = "ACCEPTING"
         /\ chan[chan[c].peer].peer = c
         /\ \E p \in port_list : chan[c].peer \in Members(port[p].pending)
    /\ chan[c].peer # None /\ chan[chan[c].peer].peer # c =>
         chan[c].state = "DISCONNECTING"

(* No channel outlives its users: whatever is allocated belongs to an open *)
(* handle or to a list, or is the other end of one that does.  Two closed  *)
(* ends never keep each other alive.                                       *)
Rooted(c) == chan[c].refs \cap {"handle", "node"} # {}
NoLeak ==
  \A c \in Chans : Alive(c) =>
    Rooted(c) \/ \E d \in Chans : chan[d].peer = c /\ Rooted(d)

(* A client waits for a port only while the port does not exist: publish   *)
(* and connect cannot miss each other, in whatever order they run.         *)
NoMissedPort ==
  \A path \in Paths : \A c \in Members(waiting_list[path]) :
    /\ chan[c].state = "WAITING_FOR_PORT" /\ chan[c].path = path
    /\ port_find_locked(path) = {}

(* The wait of a synchronous connect ends with a hangup that left nothing  *)
(* to read, or with a connection: the branch that reports "Unexpected      *)
(* channel state" (ipc.c:842) is never taken.                              *)
SyncConnectResolves ==
  \A a \in Apps, c \in Chans : At(a, "connect", c) =>
    LET event == chan_poll(c) IN
      event # {} => \/ "HUP" \in event /\ "MSG" \notin event
                    \/ "READY" \in event

(* A connection that hung up is never revived, and one that is connected   *)
(* can only hang up: accept checks both ends again after the wait.         *)
ForwardOnly ==
  [][\A c \in Chans :
       /\ chan[c].state = "DISCONNECTING" =>
            chan'[c].state \in {"DISCONNECTING", "FREE"}
       /\ chan[c].state = "CONNECTED" =>
            chan'[c].state \in {"CONNECTED", "DISCONNECTING"}]_vars

(* The ASSERT of _chan_shutdown_locked (ipc.c:474): a channel that waits   *)
(* for a port and is shut down is on the waiting list.                     *)
WaiterIsListed == panic # "list_in_list"
=============================================================================
