---------------------------- MODULE HandleList ----------------------------
(***************************************************************************)
(* Waiting on a list of handles (handle.c), as the two threads of a tipc   *)
(* device use it (tipc_dev.c): the TX thread waits on the list and serves  *)
(* the handle it gets, the RX thread adds a handle for every connection,   *)
(* removes it on a disconnect, and a reset removes them all and stops TX.  *)
(* The trusted apps at the other ends raise events meanwhile.              *)
(*                                                                         *)
(* Three locks matter.  A poll and an app's change of a channel both hold  *)
(* ipc_lock; the list has a mutex, which the TX thread lets go while it    *)
(* sleeps; the pointer from a handle to the event of its waiter has a spin *)
(* lock, so preparing a handle and polling it are two steps, and so are an *)
(* app's change and its handle_notify.                                     *)
(***************************************************************************)
EXTENDS Naturals, Sequences

CONSTANTS Handles,  \* channel handles of the device, each used many times
          None

ASSUME NoneAssumption == None \notin Handles

VARIABLES list,       \* hlist->handles, from the head
          wait_event, \* handles whose wait_event points to the waiter's event
          waiting,    \* hlist->wait_event is set
          signalled,  \* the waiter's event, auto-unsignalling
          lock,       \* hlist->lock is held by "tx", by "rx", or not ("no")
          ipc,        \* the handle whose app holds ipc_lock, or None
          events,     \* handle |-> what its poll reports
          accepted,   \* handles whose connection was accepted
          tx, cur, k, got, \* TX: place, handle, position, reported events
          rx, new,    \* RX: place, handle it is adding
          have,       \* dev->have_handles is signalled
          tx_stop     \* dev->tx_stop

list_vars == <<list, wait_event, waiting, signalled, lock>>
app_vars == <<ipc, events, accepted>>
tx_vars == <<tx, cur, k, got>>
rx_vars == <<rx, new>>
dev_vars == <<have, tx_stop>>
vars == <<list_vars, app_vars, tx_vars, rx_vars, dev_vars>>

Members(s) == {s[i] : i \in 1 .. Len(s)}
Distinct(s) == \A i, j \in 1 .. Len(s) : s[i] = s[j] => i = j

(* list_delete; x is in s at most once. *)
Without(s, x) ==
  IF x \notin Members(s) THEN s
  ELSE LET i == CHOOSE i \in 1 .. Len(s) : s[i] = x
       IN [j \in 1 .. Len(s) - 1 |-> IF j < i THEN s[j] ELSE s[j + 1]]

Init == /\ list = << >> /\ wait_event = {} /\ waiting = FALSE
        /\ signalled = FALSE /\ lock = "no"
        /\ ipc = None /\ events = [h \in Handles |-> {}] /\ accepted = {}
        /\ tx = "top" /\ cur = None /\ k = 1 /\ got = {}
        /\ rx = "idle" /\ new = None
        /\ have = FALSE /\ tx_stop = FALSE

-----------------------------------------------------------------------------
(* event_signal on the waiter's event: a sleeping waiter is released and   *)
(* the event stays unsignalled.                                            *)
Signal == IF tx = "sleep" THEN tx' = "awake" /\ UNCHANGED signalled
          ELSE signalled' = TRUE /\ UNCHANGED tx

(* handle_notify *)
handle_notify(h) == IF h \in wait_event THEN Signal ELSE UNCHANGED <<tx, signalled>>

(* The app at the other end accepts, sends or closes: under ipc_lock it    *)
(* changes the channel, and then it notifies.  At most one of its messages *)
(* is unread: more of them only make the loop of handle_tx_msg longer.     *)
Raise(h, e) ==
  /\ ipc = None
  /\ h \in Members(list) \cup {new}
  /\ e \notin events[h] /\ "hup" \notin events[h]
  /\ (e = "msg" => h \in accepted) /\ (e = "ready" => h \notin accepted)
  /\ ipc' = h
  /\ events' = [events EXCEPT ![h] = @ \cup {e}]
  /\ accepted' = IF e = "ready" THEN accepted \cup {h} ELSE accepted
  /\ UNCHANGED <<list_vars, tx_vars, rx_vars, dev_vars>>

Notify == /\ ipc # None
          /\ handle_notify(ipc)
          /\ ipc' = None
          /\ UNCHANGED <<list, wait_event, waiting, lock, events, accepted, cur,
                         k, got, rx_vars, dev_vars>>

-----------------------------------------------------------------------------
(* _handle_list_del_locked, with the mutex taken and released around it *)

(* Mistake: the handle keeps its pointer. *)
ListDelKeepsEvent(h) ==
  /\ list' = Without(list, h)
  /\ wait_event' = wait_event
  /\ IF waiting /\ list' = << >> THEN Signal ELSE UNCHANGED <<tx, signalled>>

ListDel(h) ==
  /\ list' = Without(list, h)
  /\ wait_event' = IF waiting THEN wait_event \ {h} ELSE wait_event
  /\ IF waiting /\ list' = << >> THEN Signal ELSE UNCHANGED <<tx, signalled>>

-----------------------------------------------------------------------------
(* The RX thread *)

(* handle_conn_req: ipc_port_connect_async made a channel and there is a   *)
(* free endpoint.  Its memory was freed by all before.                     *)
ConnReq(h) ==
  /\ rx = "idle"
  /\ h \notin Members(list) \cup {cur, ipc}
  /\ rx' = "add" /\ new' = h
  /\ events' = [events EXCEPT ![h] = {}]
  /\ accepted' = accepted \ {h}
  /\ UNCHANGED <<list_vars, ipc, tx_vars, dev_vars>>

(* handle_list_add: link it, and prepare it when somebody waits ... *)
ListAdd ==
  /\ rx = "add" /\ lock = "no"
  /\ list' = Append(list, new)
  /\ IF waiting
     THEN wait_event' = wait_event \cup {new} /\ rx' = "added" /\ lock' = "rx"
     ELSE wait_event' = wait_event /\ rx' = "signal" /\ lock' = "no"
  /\ UNCHANGED <<waiting, signalled, new, app_vars, tx_vars, dev_vars>>

(* Mistake: an event that came before the prepare is not looked for. *)
ListAddNoPoll ==
  /\ rx = "added" /\ ipc = None
  /\ lock' = "no" /\ rx' = "signal"
  /\ UNCHANGED <<list, wait_event, waiting, new, app_vars, tx, signalled, cur, k,
                 got, dev_vars>>

(* ... and poll it for what came before that. *)
ListAddPoll ==
  /\ rx = "added" /\ ipc = None
  /\ IF events[new] # {} THEN handle_notify(new) ELSE UNCHANGED <<tx, signalled>>
  /\ lock' = "no" /\ rx' = "signal"
  /\ UNCHANGED <<list, wait_event, waiting, new, app_vars, cur, k, got, dev_vars>>

(* event_signal(&dev->have_handles) *)
SignalHave ==
  /\ rx = "signal"
  /\ rx' = "idle" /\ new' = None
  /\ have' = TRUE
  /\ UNCHANGED <<list_vars, app_vars, tx_vars, tx_stop>>

(* handle_disc_req *)
DiscReq(h) ==
  /\ rx = "idle" /\ lock = "no"
  /\ h \in Members(list)
  /\ ListDel(h)
  /\ UNCHANGED <<waiting, lock, app_vars, cur, k, got, rx_vars, dev_vars>>

(* tipc_dev_reset, after it has joined the RX thread *)
ResetStart ==
  /\ rx = "idle"
  /\ rx' = "reset" /\ tx_stop' = TRUE
  /\ UNCHANGED <<list_vars, app_vars, tx_vars, new, have>>

ResetClose ==
  /\ rx = "reset" /\ lock = "no" /\ list # << >>
  /\ ListDel(Head(list))
  /\ UNCHANGED <<waiting, lock, app_vars, cur, k, got, rx_vars, dev_vars>>

(* Mistake: the TX thread is joined before every channel is closed. *)
ResetJoinsEarly ==
  /\ rx = "reset"
  /\ rx' = "join" /\ have' = TRUE
  /\ UNCHANGED <<list_vars, app_vars, tx_vars, new, tx_stop>>

ResetKick ==
  /\ rx = "reset" /\ list = << >>
  /\ rx' = "join" /\ have' = TRUE
  /\ UNCHANGED <<list_vars, app_vars, tx_vars, new, tx_stop>>

(* The TX thread is joined; the next probe starts the threads again, with  *)
(* the events of the device as they are.                                   *)
ResetJoin ==
  /\ rx = "join" /\ tx = "exit"
  /\ rx' = "idle" /\ tx' = "top" /\ tx_stop' = FALSE
  /\ UNCHANGED <<list_vars, app_vars, cur, k, got, new, have>>

-----------------------------------------------------------------------------
(* The TX thread: tipc_tx_thread_func and handle_tx *)

LoopTop ==
  /\ tx = "top"
  /\ tx' = IF tx_stop THEN "exit" ELSE "have"
  /\ UNCHANGED <<list_vars, app_vars, cur, k, got, rx_vars, dev_vars>>

WaitHave ==
  /\ tx = "have" /\ have
  /\ have' = FALSE /\ tx' = "wait"
  /\ UNCHANGED <<list_vars, app_vars, cur, k, got, rx_vars, tx_stop>>

(* handle_list_wait: an empty list is ERR_NOT_FOUND. *)
WaitStart ==
  /\ tx = "wait" /\ lock = "no"
  /\ IF list = << >>
     THEN tx' = "top" /\ UNCHANGED <<waiting, lock, k>>
     ELSE tx' = "prepare" /\ waiting' = TRUE /\ lock' = "tx" /\ k' = 1
  /\ signalled' = FALSE
  /\ UNCHANGED <<list, wait_event, app_vars, cur, got, rx_vars, dev_vars>>

(* _hlist_do_poll_locked, once with prepare and then without: position k.  *)
(* A handle found by the first pass undoes what was prepared before it.    *)
Prepare ==
  /\ tx = "prepare"
  /\ wait_event' = wait_event \cup {list[k]}
  /\ tx' = "poll"
  /\ UNCHANGED <<list, waiting, signalled, lock, app_vars, cur, k, got, rx_vars,
                 dev_vars>>

(* Mistake: the list is not turned. *)
TurnNot(i) == list

(* The list head moves behind the handle that was found. *)
Turn(i) == SubSeq(list, i + 1, Len(list)) \o SubSeq(list, 1, i)

Found == LET h == list[k] IN
  /\ events[h] # {}
  /\ cur' = h /\ got' = events[h]
  /\ events' = [events EXCEPT ![h] = @ \ {"ready"}]
  /\ list' = Turn(k)
  /\ wait_event' = {}
  /\ waiting' = FALSE /\ lock' = "no"
  /\ tx' = "serve"
  /\ UNCHANGED <<signalled, k>>

NotFound(next) ==
  /\ events[list[k]] = {}
  /\ IF k < Len(list) THEN k' = k + 1 /\ tx' = next /\ lock' = lock
     ELSE k' = 1 /\ tx' = "block" /\ lock' = "no"
  /\ UNCHANGED <<list, wait_event, waiting, signalled, events, cur, got>>

Poll == /\ tx = "poll" /\ ipc = None
        /\ Found \/ NotFound("prepare")
        /\ UNCHANGED <<ipc, accepted, rx_vars, dev_vars>>

Repoll == /\ tx = "repoll" /\ ipc = None
          /\ Found \/ NotFound("repoll")
          /\ UNCHANGED <<ipc, accepted, rx_vars, dev_vars>>

(* event_wait_timeout *)
Block ==
  /\ tx = "block"
  /\ tx' = IF signalled THEN "awake" ELSE "sleep"
  /\ signalled' = FALSE
  /\ UNCHANGED <<list, wait_event, waiting, lock, app_vars, cur, k, got, rx_vars,
                 dev_vars>>

(* Awake again: the list may be empty by now. *)
Wake ==
  /\ tx = "awake" /\ lock = "no"
  /\ IF list = << >>
     THEN tx' = "top" /\ waiting' = FALSE /\ lock' = "no"
     ELSE tx' = "repoll" /\ lock' = "tx" /\ UNCHANGED waiting
  /\ UNCHANGED <<list, wait_event, signalled, app_vars, cur, k, got, rx_vars,
                 dev_vars>>

(* handle_ready, handle_tx_msg or handle_hup, the first of them that has an *)
(* event.  Under ept_lock it looks for the handle's cookie; a handle that   *)
(* RX removed meanwhile has none and is left alone.  What is sent waits for *)
(* a buffer of the TX queue ("send").  In the end comes handle_decref.      *)
Served == tx' = "wait" /\ cur' = None /\ got' = {}
Serve(place) == IF cur \in Members(list) THEN tx' = place /\ UNCHANGED <<cur, got>>
                ELSE Served

ServeReady == /\ tx = "serve" /\ "ready" \in got
              /\ Serve("send")
              /\ UNCHANGED <<list_vars, app_vars, k, rx_vars, dev_vars>>

ForMsg == "ready" \notin got /\ "msg" \in got

ServeMsg == /\ tx = "serve" /\ ForMsg
            /\ Serve("loop")
            /\ UNCHANGED <<list_vars, app_vars, k, rx_vars, dev_vars>>

ServeHup == /\ tx = "serve" /\ got = {"hup"} /\ lock = "no"
            /\ Serve("send")
            /\ list' = Without(list, cur)
            /\ UNCHANGED <<wait_event, waiting, signalled, lock, app_vars, k,
                           rx_vars, dev_vars>>

(* The loop of handle_tx_msg: as long as ipc_get_msg finds a message, also *)
(* one that the app sent only now.                                         *)
GetMsg == /\ tx = "loop" /\ ipc = None
          /\ IF "msg" \in events[cur]
             THEN /\ events' = [events EXCEPT ![cur] = @ \ {"msg"}]
                  /\ tx' = "send" /\ UNCHANGED <<cur, got>>
             ELSE Served /\ UNCHANGED events
          /\ UNCHANGED <<list_vars, ipc, accepted, k, rx_vars, dev_vars>>

(* tipc_send_data returns: it had a buffer, or its wait was ended by the   *)
(* reset.  Vqueue tells when that happens; here it may never.              *)
SendDone == /\ tx = "send"
            /\ IF ForMsg THEN tx' = "loop" /\ UNCHANGED <<cur, got>> ELSE Served
            /\ UNCHANGED <<list_vars, app_vars, k, rx_vars, dev_vars>>

-----------------------------------------------------------------------------
TxStep == \/ LoopTop \/ WaitHave \/ WaitStart \/ Prepare \/ Poll \/ Repoll \/ Block \/ Wake
          \/ ServeReady \/ ServeMsg \/ ServeHup \/ GetMsg
RxStep == ListAdd \/ ListAddPoll \/ SignalHave \/ ResetClose \/ ResetKick \/ ResetJoin
Request == (\E h \in Handles : ConnReq(h) \/ DiscReq(h)) \/ ResetStart

Next == \/ \E h \in Handles, e \in {"ready", "msg", "hup"} : Raise(h, e)
        \/ Notify
        \/ RxStep \/ Request
        \/ TxStep \/ SendDone

(* Threads run, and a mutex that is free again and again is handed to      *)
(* whoever waits for it (LK's mutexes queue their waiters).  Nothing is    *)
(* assumed of the apps and of the normal world, so that a wait for a TX    *)
(* buffer (SendDone) need not end.                                         *)
Fairness == WF_vars(Notify) /\ SF_vars(RxStep) /\ SF_vars(TxStep)

Spec == Init /\ [][Next]_vars
FairSpec == Spec /\ Fairness

-----------------------------------------------------------------------------
TypeOK ==
  /\ list \in Seq(Handles) /\ wait_event \subseteq Handles
  /\ waiting \in BOOLEAN /\ signalled \in BOOLEAN
  /\ have \in BOOLEAN /\ tx_stop \in BOOLEAN
  /\ lock \in {"no", "tx", "rx"}
  /\ ipc \in Handles \cup {None}
  /\ events \in [Handles -> SUBSET {"ready", "msg", "hup"}]
  /\ accepted \subseteq Handles
  /\ tx \in {"top", "have", "wait", "prepare", "poll", "repoll", "block", "sleep",
             "awake", "serve", "loop", "send", "exit"}
  /\ Distinct(list)
  /\ cur \in Handles \cup {None} /\ k \in Nat \ {0}
  /\ got \subseteq {"ready", "msg", "hup"}
  /\ rx \in {"idle", "add", "added", "signal", "reset", "join"}
  /\ new \in Handles \cup {None}

(* A handle points to the waiter's event only while the waiter is inside   *)
(* handle_list_wait, where that event lives on its stack, and only while   *)
(* it is on the list.                                                      *)
EventLives ==
  /\ wait_event # {} => waiting
  /\ wait_event \subseteq Members(list)
  /\ waiting <=> tx \in {"prepare", "poll", "repoll", "block", "sleep", "awake"}

(* A waiter that sleeps is not forgotten: every handle on the list will    *)
(* wake it, one with an event is just about to, and the list is not empty. *)
NoLostWakeup ==
  tx = "sleep" =>
    /\ list # << >>
    /\ Members(list) \subseteq wait_event
    /\ \A h \in Members(list) : events[h] # {} =>
         ipc = h \/ (rx = "added" /\ new = h)

(* The inductive invariant behind EventLives and NoLostWakeup.  Locks are  *)
(* held exactly where the code says, the scan position is on the list, the *)
(* prepared handles are those in front of the scan or all of them, and an  *)
(* event behind the scan's back has left its mark: a signal, an app that   *)
(* is about to notify, or an add that is about to poll.                    *)
Scanning == {"prepare", "poll", "repoll"}
Locks == /\ lock = "tx" <=> tx \in Scanning
         /\ lock = "rx" <=> rx = "added"
         /\ rx = "add" => new \in Handles \ Members(list)
         /\ rx = "added" => new \in Members(list) /\ waiting
         /\ tx \in Scanning => k \in 1 .. Len(list)
         /\ tx \in {"block", "sleep", "awake"} => k = 1
Prepared ==
  /\ tx = "prepare" => wait_event = {list[i] : i \in 1 .. k - 1}
  /\ tx = "poll" => wait_event = {list[i] : i \in 1 .. k}
  /\ tx \in {"repoll", "block", "sleep", "awake"} => wait_event = Members(list)
Noticed(h) == events[h] # {} => signalled \/ ipc = h \/ (rx = "added" /\ new = h)
Scanned ==
  /\ tx \in Scanning => \A i \in 1 .. k - 1 : Noticed(list[i])
  /\ tx \in {"block", "sleep"} => \A h \in Members(list) : Noticed(h)
  /\ tx = "block" => signalled \/ list # << >>
  /\ tx = "sleep" => ~signalled /\ list # << >>
IInv == TypeOK /\ EventLives /\ Locks /\ Prepared /\ Scanned

(* An event on a handle of the list is served in the end, however often    *)
(* the other handles have events, or the handle is removed.  Only two      *)
(* things can keep TX from it, both for ever and inside the service of     *)
(* another handle: an app that sends so fast that handle_tx_msg never      *)
(* finds its queue empty (tipc_dev.c:631), and a normal world that returns *)
(* no TX buffer (tipc_dev.c:1060).                                         *)
EveryHandleServed ==
  \A h \in Handles :
    h \in Members(list) /\ events[h] # {} ~>
      (cur = h \/ h \notin Members(list) \/ [](tx \in {"loop", "send"}))

(* A reset does not hang in the waits for a handle and for have_handles,   *)
(* nor in the loop of handle_tx_msg: wherever it meets the TX thread, it   *)
(* can join it ("unable to shutdown tx thread", tipc_dev.c:833), unless    *)
(* that stays for ever in tipc_send_data's wait for a TX buffer, about     *)
(* which see TxStopEnds of Vqueue.                                         *)
ResetEnds == rx = "reset" ~> (rx = "idle" \/ [](tx = "send"))
=============================================================================
