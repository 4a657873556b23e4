# Formal model of the TX2 secure UART service

The repository adds a *secure UART service* to NVIDIA's Trusty tree for the
Jetson TX2: a client app in the normal world asks a trusted app for a picture
or a version string, and the trusted app talks to a camera on UART C that only
the secure world can reach. What runs on the way, and is modelled here, is the
service itself, its UART driver and the part of the Trusty kernel that carries
the messages, down to the monitor call that lets a CPU in. The rest of the tree
(LK, ARM Trusted Firmware, cboot, openssl, Linux_for_Tegra) is third-party code that is carried along unchanged.

Paths below are relative to `src/atf_and_trusty/trusty/trusty`.

## The system

    suart_app (normal world)
       |  SMC: standard calls, restarts, nops        lk/trusty/lib/sm/sm.c
       |  bus start, stop, reset, kick               trusty_virtio.c
       |  two virtqueues                             vqueue.c
    tipc_dev: RX thread, TX thread        lk/trusty/lib/trusty/tipc_dev.c
       |  a channel, waited on through a handle list      handle.c
    Trusty IPC: ports, channels, message queues   ipc.c, ipc_msg.c, uctx.c
       |  accept, get_msg, send_msg
    uart.secure.service (trusted app)     app/nvidia-sample/UART
       |  send_to_uart, receive_from_uart            secure_uart.c
    polled UART driver                    tegra_common/secure_port.c
       |
    camera

| component | state | operations | what makes it correct | module |
|---|---|---|---|---|
| message queue (`ipc_msg.c`) | free, filled and read list, item states, SEND_BLOCKED and SEND_UNBLOCKED | send, get, read, put | items are conserved, order is kept, a blocked sender is woken | `MsgQueue`, `Fifo` |
| ports and channels (`ipc.c`), handle tables (`uctx.c`) | port list, pending lists, waiting list, two ends of a connection, reference lists | port_create, connect, accept, close, wait, message calls | references name exactly the users, both ends agree, hangups are seen, no leak, no missed port | `TrustyIpc` |
| handle lists (`handle.c`) with the device threads (`tipc_dev.c`) | list, wait_event pointers, the waiter's event, have_handles, tx_stop | handle_list_add, _del, _wait, connection and disconnection requests, reset | no lost wakeup, no pointer to a dead event, every handle served, reset ends, as long as TX is not kept for ever by the service of one handle | `HandleList` |
| monitor calls (`sm.c`) | the one standard call (event, done, active_cpu, result), where each CPU is, the version | call, restart, nop, idle, interrupt, FIQ, selection of the version | a result goes to its own caller, the unlocked look at active_cpu is not stale, one version for everyone, a call ends | `SmStdCall` |
| virtqueue (`vqueue.c`) | ring with free-running indices, notification flag, avail_event, vring_addr | get, add, signal, destroy, init | every buffer has one owner, no lost wakeup, the unmapped ring is left alone | `Vqueue`, `BufferRing` |
| tipc device and bus (`tipc_dev.c`, `trusty_virtio.c`) | bus and device state, endpoint table, cookies, handle list, two threads | start, stop, reset; connection, disconnection and data messages; ready, message and hangup events | table, handles and list agree, messages stay on their connection, nobody is disconnected in silence, a reset leaves nothing behind | `TipcDev` |
| UART driver and camera exchange (`secure_port.c`, `secure_uart.c`, `camera_communication.c`) | enabled flag, two static `timed_out`, receive FIFO, transmitter | putc, getc, enable, flush, command, receive | the flush keeps old bytes out, answers are not cut, the exchange ends | `SecureUart` |
| trusted app and client (`main.c`, `trusty_ipc_setup.c`, `suart_app.c`) | the channel it serves, the event it handles, the two queues of a connection | accept, handle_msg, reply, retire, close | no handle leaks, every request is answered, every connection is served | `UartService` |

Hard to test in it: the two-step close against accept, publish and port
shutdown; clients that die anywhere; marks and events that live in the other
end of a channel; a waiter that lets go of the list lock while handles come, go
and fire; a driver in the normal world that no lock stops; a CPU that leaves
and comes back in the middle of a call; addresses that are reused while a thread
still holds the old one; a reset under running threads; a static flag that
links one UART call to the next; a reply that is sent twice through a queue of one. `PROJECT.json` lists these hazards at their
lines with the properties aimed at them.

## Modules

Each action is one critical section of the code together with the
thread-private work before it; definitions carry the names of the source, and
`PROJECT.json` maps each to its lines. Definitions whose comment says
*Mistake* are not part of a model: they are plausible errors in the code that
the properties are known to catch.

* **`MsgQueue`** is one direction of a channel: `free`, `filled` and `read` are
  the three lists, `SendMsg`, `SendFault` (the copy from the sender faults) and
  `SendFull` are the exits of `msg_write_locked`, `GetMsg` and `PutMsg` those
  of the receiver, `SenderWake` the wait of a blocked sender, `Disconnect` the
  shutdown. **`Fifo`** is what it promises: messages come out in order and do
  not change while they are being read. `MsgQueue` implements `Fifo` under the
  mapping stated at its end (`ImplementsFifo`).
* **`TrustyIpc`** has port and channel objects, their reference lists (a set of
  named references as in the code), the global lists and the handle tables. The
  list of waiting clients is kept by the path they wait for, the only part of it
  that `ipc_port_publish` looks at; its order within a path is the code's.
  `pc` says where an app's system call is between two critical sections. A
  freed channel keeps its peer pointer, so that the assertions of the
  destructors can be stated. A failing `ASSERT` sets `panic` and stops the
  model. Queues are counts here; `MsgQueue` has the detail.
* **`HandleList`** splits preparing a handle, polling it, raising an event and
  notifying, because these are under different locks. The TX thread follows
  `tipc_tx_thread_func` and `handle_tx`, the RX thread `handle_conn_req`,
  `handle_disc_req` and `tipc_dev_reset`. Serving a handle is not one step:
  `handle_tx_msg` goes around its loop message by message (`loop`, `GetMsg`),
  and every message, response or disconnect request waits in `tipc_send_data`
  (`send`) until `SendDone`, which may never happen.
* **`SmStdCall`** has the callers of the normal world, the CPUs and the thread
  `sm-stdcall`. A CPU is in the normal world, runs secure threads, is in its idle
  thread with interrupts off (`check`, `get`: before and after the unlocked
  comparison of `sm_wait_for_smcall`), in its interrupt thread, or away for a
  FIQ. Callers follow `smcall.h` and `sm_err.h`: an interrupted or idle return
  is followed by a restart, a refusal by the original call. The fast call
  `smc_sm_api_version` comes at any time a CPU is in the normal world, also
  while calls are open; its answer is on the way (`answer`) until
  `VersionAnswer`. `sm_get_api_version` locks the version and reads it: two
  steps on a CPU that leaves for a FIQ, one in `sm_get_stdcall_ret`, where the
  lock of the call is held. `seen` records what was read.
* **`Vqueue`** is one of the two queues of the device; `queue` says which. All
  that the device does under `slock` is one step, except where the driver can
  step in between and it matters: a get that finds the ring empty is `GetEmpty`,
  `Unsuppress` and `Recheck`, `vqueue_add_buf` writes the element of the used
  ring in one step and the index in the next (`AddIndex`), as the `smp_wmb`
  between them orders it, and a kick first reads `vring_addr` (`saw`) and
  then writes the ring. The reset stops and joins the threads, forgets the ring
  and unmaps it; `vqueue_init` starts again with the driver's new ring.
  **`BufferRing`** is what it promises, and `ImplementsRing` the refinement: the
  windows between two indices are the abstract queues.
* **`TipcDev`** composes the bus, the device, its two threads, the servers and
  the normal world; the queues are those that `Vqueue` implements, and the
  waking of the TX thread is that of `HandleList`. `std` is the standard call
  in progress (they are serialised, see `SmStdCall`). Every use of `ept_lock` is
  one step; what a thread read under it and uses later is in `rx` and `tx`.
  A connection's number travels with its messages for the properties only.
  `stray` records a message given to the wrong channel. A probe whose GO_ONLINE
  fails leaves the device in the reset state with both threads asleep; when
  such a device is started again, the model ends in the state `twice`.
* **`SecureUart`** is one exchange inside `handle_msg`, poll by poll. The clock
  ticks between polls and `Timeout` ticks make `UART_TIMEOUT_US`. The camera
  sends when it likes, the transmitter stalls when it likes, and secondary CPUs
  enable the port in the middle. Texts are reduced to the characters that are
  really written: every call passes the length 1 or 0. `mark` and `taken` are
  history variables of the flush.
* **`UartService`** is the service's event loop and its clients. The channel is
  that of the two modules above with this port's numbers (one buffer), the
  camera exchange is one step of any length. `hup` is the event that
  `handle_port_event` still looks at after the request was handled.

`MCMsgQueue`, `MCTrustyIpc`, `MCSecureUart` and `MCTipcDev` add the constants that a `.cfg`
cannot write. A module named `...Proofs` extends the module it is named after and
holds the theorems about it.

## Runs

| run | bounds | shows |
|---|---|---|
| `msg_queue` | three items, so that a put can be out of order with one still filled | items are never lost or doubled, a blocked mark never coexists with a free item, a sleeping sender is woken, refinement of `Fifo`; liveness of the blocked sender |
| `ipc` | two apps, two ports, one name, four channels (two connections), one buffer, tables of two handles | references of channels and ports exact, destructor assertions, agreement of the ends, hangup seen, no leak, no missed port, synchronous connect resolves, connections never revived |
| `handle_list` | two handles, each used again after it was freed | no lost wakeup, no dead event; every handle is served and a reset ends, unless TX stays for ever in the service of one handle |
| `secure_uart` | time-out of two ticks, three camera bytes, two secondary CPUs, heap with and without a NUL behind the byte | flushed bytes stay out, answers are not cut by gaps, every exchange ends |
| `uart_service` | two clients, two requests per connection, one buffer | no handle leak, connected clients are served and hung up on only after a reply; requests answered, connections accepted |
| `sm_stdcall` | two CPUs, two callers, requested versions 1 and 4 against 3, one FIQ | results go to their callers, nops and calls are not confused, active_cpu names a CPU inside, no protocol error, everyone who looks at the version finds the same, which the normal world was told; an open call ends |
| `vqueue` | two buffers, indices modulo 4, two threads, either queue | one owner per buffer with indices that wrap, no lost wakeup, no access to the unmapped ring, refinement of `BufferRing` (no element is collected before it was written), messages served, RX stops |
| `tipc_dev` | two addresses, two slots, three connections, one buffer each way, one message per channel at a time | endpoint table, handles and list agree, no message strays either way, no silent close, a reset device is clean but for the threads of a failed start |
| `tipc_answers` | one slot, two connections | requests are answered, also with a full table; hangups are reported |

The type invariants are conjuncts of one invariant of each run; those of
`MsgQueue` and `HandleList` are only proved.

Why the bounds are enough: two connections let one be accepted while the other
is closed, waits or was dropped; a table of two is full with a port and a
channel; three queue items separate head, middle and tail; two handles give a
busy one and a starving one; two ticks tell "no wait", "part of the wait" and
"the whole wait" apart; three bytes can be split over flush, gap and answer; a third CPU or caller adds
no new pair of places; indices modulo 4 wrap while two buffers are in flight
(`Num` must divide `IdxMod`, as a power of two does 2^16; `vqueue_init` does not
check it); the third connection reuses an address and a slot while the second is
in any state, and one slot for two connections makes the table full.
`tipc_dev` uses symmetry in the addresses and checks safety only.
`ipc` uses symmetry in apps, ports and channels, and checks safety only. Its
deadlock check is off because the four channel objects may all be in use by
apps that wait for each other, which the system allows.

### Findings

Three runs check one statement of the repository each and refute it:

* `uart_output`: "Sent command: ", and `CAMERA_PORT` and `DEBUG_PORT` are two
  ports. For a request the letter of a debug text, the first digit of the
  command and a carriage return go to the camera's line, and never the command:
  it is passed with length 0, and the port argument is ignored.
* `ipc_denied_waiter`: the assertion in `_chan_shutdown_locked` fails when a
  port is published that does not admit a client waiting for it.
* `vqueue_stop`: "kick tx thread and tx vq". A TX thread that is about to look
  for a buffer when the reset signals it finds the ring empty, takes the signal
  away and sleeps without looking at `tx_stop`; the join times out and the
  kernel panics. The RX thread has no such gap (`RxStopEnds`): it looks at its
  flag before each wait.

Other disagreements, seen while modelling and not kept as runs:

* After a flush that timed out, the receive of the answer gives up at its first
  poll ("500 ms UART timeout", `secure_port.c:60`), because `timed_out` is
  static and only a byte clears it: in `SecureUart` a step from `receive` to
  `reply` with `elapsed` below `Timeout`.
* `handle_msg` sends the reply twice (`trusty_ipc_setup.c:201`); a client that
  empties its queue in time gets both (`reps` above `reqs` in `UartService`).
* `msg_put_read_locked` asserts a queue (`ipc_msg.c:367`) that a channel still
  waiting for its port does not have: `EarlyCall` of `TrustyIpc`, which only
  stops the model, so that the invariants of `ipc` hold up to it.
* For a normal world below `TRUSTY_API_VERSION_SMP` a restarted call that is
  still unfinished gets `SM_ERR_BUSY` (`sm.c:292`), "Call back with original
  args" (`sm_err.h:31`); a caller that does so is refused for ever, since the
  call is still open. `CallEnds` leaves this case out: it ends with the second
  disjunct as soon as such a version is in use. The fix in `sm.c` is compiled
  only under `TRUSTY_EMBEDDED_BUILD`.
* With the endpoint table full the response says success, with address 0
  (`tipc_dev.c:314`): the step `full` of `TipcDev`.
* "Should be only called once" (`tipc_dev.c:908`): a probe whose GO_ONLINE fails
  returns with the state RESET and both threads running (`tipc_dev.c:976`). A
  stop then returns early, and the next start probes again: two more threads
  on the same queues, one of which has its event initialised under a sleeping
  thread (`vqueue.c:85`). This is the state `twice` of `TipcDev`.
* `handle_tx_msg` has no bound (`tipc_dev.c:631`): a server that sends fast
  enough keeps TX with its channel, and the other connections wait.

### Fairness

* `MsgQueue`: the woken sender runs, and the receiver retires what it has read.
* `HandleList`: threads run, an app that holds `ipc_lock` gets to its
  `handle_notify`, and a mutex that is free again and again is handed to its
  waiter (strong fairness; LK's mutexes queue their waiters). Apps, clients,
  resets and the TX buffers of the normal world owe nothing, so `SendDone` need
  not happen and a channel may have a next message for ever.
* `SmStdCall`: a CPU that is inside goes on, a FIQ is restarted by its CPU (FIQs
  are finitely many, by `MaxFiqs`), a caller with something to do gets a CPU in
  the end, and LK's scheduler runs a ready thread and the idle thread of a CPU
  that has nothing else to do.
* `Vqueue`: threads run and get the spin lock, a kick arrives, the driver looks
  at the flag after it published. It owes no buffer.
* `TipcDev`: threads and standard calls go on, the driver empties its queue, a
  server takes or refuses its connections, and a channel with an event is found
  since `handle_list_wait` turns its list. No server sends for ever: while a
  channel has messages `handle_tx_msg` stays with it, and others starve.
* `SecureUart`: the app's thread runs and time passes. The camera sends finitely
  often: `receive_message_from_camera` has no other end than a silence, so a
  camera that never pauses keeps the service for ever.
* `UartService`: the service and the device threads run; a client that is not
  killed writes one request, reads until a reply or a hangup, and exits, as
  `suart_app.c` does. A client that connects and stays silent would keep the
  others waiting: the service has no time limit.

## Proofs

`tlapm` checks these for every value of the constants that the named `ASSUME`s of
the modules admit: counts and bounds are natural numbers (not zero where the code
allocates at least one), the null values are none of the objects. The theorems
state every invariant and every action property that the passing runs check, and
both refinements. Each rests on an inductive invariant `IInv` of its module:
`Init => IInv`, every action preserves it, and it implies the properties. Each
`IInv` was checked with TLC on the instance of its run before it was proved.

* **`MsgQueueProofs`** assumes a positive number of items and a set of
  messages. `TypeCorrect`, `ItemsConserved` (`ListsMatchStates`),
  `NoMissedUnblock` (`BlockedMeansFull`), `NoStrandedSender`
  (`WaiterWillBeWoken`) follow from one inductive invariant `IInv`: the lists
  partition the items, an item's state names its list, lists have no
  duplicates, a blocked mark means an empty free list, and a waiting sender has
  the mark, the event or a closed channel. None of the parts is inductive alone:
  that put frees an item that is in no other list needs the partition, and that
  it wakes the sender needs the mark. `FifoRefinement` shows that initial states
  and steps map to those of `Fifo`.
* **`TrustyIpcProofs`** assumes that ports and channels are different objects.
  `ReferencesAreUsers` (`RefsMatch`), `DestroyedObjectsAreFree`
  (`DestroyAsserts`), `BothEndsAgree` (`EndsAgree`), `NoChannelLeaks` (`NoLeak`),
  `PublishMissesNobody` (`NoMissedPort`), `SynchronousConnectResolves` and
  `HangupIsFinal` (`ForwardOnly`). The references alone are not inductive. A
  shutdown drops one reference of the peer, which is right only if no other
  channel points at it (`Peers`: pointers come in pairs until one is cleared);
  a port shutdown does so for a whole list at once, which needs that no server
  in a pending list is the peer of another; accept and publish move channels
  between lists, which needs that a channel is in one place of one list
  (`Lists`); and one "handle" reference can stand for the holder only because
  one app at a time has it, in its table or in its call (`Owners`). The kinds of
  change (attach, wait, join, shut down, destroy) have one lemma each about all
  channels, and one lemma per action says which change it is. Two stops of the
  kernel (`PortCreateDenied`, `EarlyCall`) are steps like others: the theorems
  hold up to them.
* **`HandleListProofs`** assumes only that the null handle is no handle.
  `WakeupsReachWaiter` (`NoLostWakeup`) and `NoDanglingEvent` (`EventLives`)
  follow from `IInv` of `HandleList`: who holds the list lock at which place
  (`Locks`), which handles are prepared at which position of the scan
  (`Prepared`), and that every event behind the scan has left a signal, an app
  about to notify or an add about to poll (`Scanned`). `NoLostWakeup` alone is
  not inductive because it says nothing about the scan before the sleep. Three
  lemmas say what deleting, appending and turning do to the list.
* **`SmStdCallProofs`** assumes that callers are not return codes.
  `ResultsReachCaller` (`OwnResult`), `KindsKeptApart` (`RightKind`),
  `ActiveCpuIsInside`, `UnlockedCheckIsSafe` (`NoProtocolError`) and
  `OneVersionIsUsed` (`OneVersion`) follow from an invariant that ties the open
  call to the CPUs inside and to what each caller does next. `OneVersion` alone
  is not inductive: `Versions` adds that a version that was read is locked and
  still the current one, that a CPU between the lock and the read has locked it,
  and that the normal world knows it or has the answer on its way. The comparison with `active_cpu`
  without the lock is safe because between it and the lock only the CPU itself
  can change the outcome (`Resumes`).
* **`VqueueProofs`** assumes that the ring size divides the index range.
  `EveryChainHasOneOwner` (`OneOwner`), `NoWakeupIsLost`, `RingIsMappedInUse`
  (`NoUnmappedAccess`) and `RingRefinement` (`ImplementsRing`). The part of a
  ring between two free-running indices is a queue; a write behind its end
  appends to it as long as there is room, and there is room because a head that
  is elsewhere is not in the queue: a pigeonhole argument on
  `FiniteSetTheorems`. The first write of `vqueue_add_buf` falls behind the end
  and changes no queue; the second appends, because meanwhile nobody else wrote
  that slot (`Written`).
* **`TipcDevProofs`**: `EndpointsAgree` (`EptsAgree`),
  `MessagesStayOnTheirConnection` (`NoCrossDelivery`), `ResetLeavesNothing` and
  `NoConnectionClosesSilently`. The invariant says of each connection, of
  each message under way and of each thread what the other parts may hold; the
  hard half is `Ordered`: the TX thread may send with an address that has a new
  owner, and what it sends then precedes the response that opens the new
  connection. `Phase` follows a start and a reset; it needs that a start that has
  not said GO_ONLINE is unknown to the normal world, or its threads might have
  something to do.
* **`SecureUartProofs`**: `FlushIsComplete` (`FlushedStaysOut`), from the
  conservation of bytes between the camera and the app, and `ReplyIsWhole`
  (`ReplyNotCut`), from what the static `timed_out` of the last `getc` says.
* **`UartServiceProofs`**: `ServiceClosesItsChannel` (`NoHandleLeak`), from what
  the event loop holds at each place and from the counts of both queues.

Only model-checked: the liveness properties, which are out of the prover's reach
(`WaiterProgress`, `EveryHandleServed`, `ResetEnds`, `CallEnds`, `AvailServed`,
`RxStopEnds`, `ConnAnswered`, `HangupReported`, `ExchangeEnds`, `RequestAnswered`,
`PendingServed`), and the three findings, which are counterexamples.

## Assumptions about the normal world

* A driver publishes only descriptors it owns, and well-formed chains; `TipcDev`
  lets the buffer for GO_ONLINE be one that is refused. A chain
  that is refused is lost on the TX side: `tipc_send_data` leaves without
  returning it (`tipc_dev.c:1056`).
* No kick of an earlier life is left when a queue is initialised: `vqueue_init`
  would wipe out its signal (`vqueue.c:85`).
* A kick that is refused because the bus is still ACTIVATING
  (`trusty_virtio.c:450`) is followed by another one, or its message is read
  with the next.
* The TX queue is emptied in the end. The RX thread answers a refused connection
  itself and waits for a TX buffer without looking at `rx_stop`
  (`tipc_dev.c:330`); with a driver that gives none back, the reset's join times
  out.
* An address is used again only after its disconnect request came back and all
  that was received for it has been read; an address that was refused or
  disconnected from the other side is not used again before the next start.
  Without this a response or a disconnect request that the TX thread sends with
  an address it read before can reach a newer connection.
* A normal-world thread that is refused or interrupted does what `sm_err.h` says.

## Not modelled

Memory allocation failures, buffer sizes and the contents of messages beyond
what is named above; malformed control messages, which change nothing; time
limits of waits; guests of the hypervisor; the QL device; a device that was started twice over
its running threads; fast calls of the monitor other than that for the version; the loader, system call glue and logging; the key services
(`hwkey-agent`, `luks-srv`); the kernel below (LK events, mutexes and threads
are taken from how they are used); the camera's protocol. The buffer of 500 characters
to which every received byte is appended by `strcat`
(`camera_communication.c:39`) is bounded only by the camera; `SecureUart` keeps
text and counted size apart as the code does.

The share of the whole tree that is mapped is small and will stay so: of about a
million lines nearly all are register headers, LK, ARM Trusted Firmware, cboot,
openssl and Linux headers. Of the files this project is about (`ipc.c`,
`ipc_msg.c`, `handle.c`, `vqueue.c`, `tipc_dev.c`, `sm.c`, `trusty_virtio.c`, the
UART app and driver) the models cover the operations that change state.

## Plan

1. The QL device; `Iovec`: the copy loops against a reference definition over
   bounded inputs.
2. The allocation failures of `ipc_port_create` and `chan_alloc` in `TrustyIpc`,
   and `uctx_destroy` of an app that exits with open handles.
