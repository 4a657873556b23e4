------------------------------- MODULE Vqueue -------------------------------
(***************************************************************************)
(* A virtqueue (vqueue.c) between the driver of the normal world and the   *)
(* threads of a tipc device: free-running indices, suppressed              *)
(* notifications, and the ring taken away by a reset.  Operations of       *)
(* the device are serialised by slock; the driver, which the lock does not *)
(* stop, may step between any two of them and in the middle of each.       *)
(*                                                                         *)
(* It is one of the two queues of tipc_dev.c: the RX queue has one thread, *)
(* which waits before it gets; the TX queue is asked for a buffer by       *)
(* whichever thread has something to send.                                 *)
(***************************************************************************)
EXTENDS Naturals, Sequences, FiniteSets

CONSTANTS Threads, RxThread, None,
          Num,        \* buffers of the ring
          IdxMod      \* 2^16: indices wrap here

ASSUME NumAssumption == Num \in Nat \ {0}
ASSUME IdxAssumption == IdxMod \in Nat /\ IdxMod > Num /\ IdxMod % Num = 0
ASSUME ThreadAssumption == RxThread \in Threads

Heads == 0 .. Num - 1
Kick == "kick"     \* holder of slock in vqueue_signal_avail

ASSUME NoneAssumption == None \notin Threads /\ None \notin Heads /\ None # Kick
ASSUME KickAssumption == Kick \notin Threads

VARIABLES
  queue,     \* "rx" or "tx"
  avail_idx, avail_ring, used_idx, used_ring, no_notify, \* the ring
  mem,       \* the ring's memory is mapped
  free, d_used, drv, kick,  \* driver: its descriptors, its last_used_idx,
             \* idle or before the look at the flags, a kick is on its way
  vring_addr, last_avail_idx, signalled, slock, \* struct vqueue
  saw,       \* what the holder of slock read from vring_addr
  pc, buf,   \* of each thread
  stop       \* rx_stop or tx_stop

ring_vars == <<avail_idx, avail_ring, used_idx, used_ring, no_notify>>
driver_vars == <<free, d_used, drv, kick>>
thread_vars == <<pc, buf>>
vars == <<queue, ring_vars, mem, driver_vars, vring_addr, last_avail_idx,
          signalled, slock, saw, thread_vars, stop>>

Tx == queue = "tx"
Users == IF Tx THEN Threads ELSE {RxThread}
Fresh == [t \in Threads |-> IF t \in Users THEN "idle" ELSE "exit"]

Init ==  /\ queue \in {"rx", "tx"}
         /\ avail_idx = 0 /\ used_idx = 0 /\ no_notify = FALSE
         /\ avail_ring = [i \in Heads |-> 0] /\ used_ring = [i \in Heads |-> 0]
         /\ free = Heads /\ d_used = 0 /\ drv = "idle" /\ kick = FALSE
         /\ mem = TRUE /\ vring_addr = TRUE /\ signalled = FALSE
         /\ last_avail_idx = 0 /\ slock = None /\ saw = FALSE
         /\ stop = FALSE
         /\ pc = Fresh /\ buf = [t \in Threads |-> None]

Inc(i) == (i + 1) % IdxMod
avail_cnt == (avail_idx + IdxMod - last_avail_idx) % IdxMod
Empty == last_avail_idx = avail_idx

-----------------------------------------------------------------------------
(* The driver *)

Publish(h) ==
  /\ mem /\ h \in free
  /\ avail_ring' = [avail_ring EXCEPT ![avail_idx % Num] = h]
  /\ avail_idx' = Inc(avail_idx)
  /\ free' = free \ {h} /\ drv' = "check"
  /\ UNCHANGED <<queue, used_idx, used_ring, no_notify, mem, d_used, kick, vring_addr,
                 last_avail_idx, signalled, slock, saw, thread_vars, stop>>

Notify == /\ drv = "check"
          /\ drv' = "idle" /\ kick' = (kick \/ ~no_notify)
          /\ UNCHANGED <<queue, ring_vars, mem, free, d_used, vring_addr, last_avail_idx,
                         signalled, slock, saw, thread_vars, stop>>

Collect == /\ mem /\ d_used # used_idx
           /\ free' = free \cup {used_ring[d_used % Num]} /\ d_used' = Inc(d_used)
           /\ UNCHANGED <<queue, ring_vars, mem, drv, kick, vring_addr, last_avail_idx,
                          signalled, slock, saw, thread_vars, stop>>

-----------------------------------------------------------------------------
(* vqueue_signal_avail, called for a kick *)

KickLock == /\ kick /\ slock = None
            /\ kick' = FALSE /\ slock' = Kick /\ saw' = vring_addr
            /\ UNCHANGED <<queue, ring_vars, mem, free, d_used, drv, vring_addr,
                           last_avail_idx, signalled, thread_vars, stop>>

vqueue_signal_avail ==
  /\ slock = Kick
  /\ no_notify' = (no_notify \/ saw)
  /\ signalled' = TRUE /\ slock' = None /\ saw' = FALSE
  /\ UNCHANGED <<queue, avail_idx, avail_ring, used_idx, used_ring, mem, driver_vars,
                 vring_addr, last_avail_idx, thread_vars, stop>>

-----------------------------------------------------------------------------
(* The threads *)

Goto(t, l) == pc' = [pc EXCEPT ![t] = l]

(* RX: the top of its loop.  TX: something to send, or the thread's end. *)
Top(t) == /\ pc[t] = "idle"
          /\ Goto(t, IF stop THEN "exit" ELSE IF Tx THEN "get" ELSE "wait")
          /\ UNCHANGED <<queue, ring_vars, mem, driver_vars, vring_addr, last_avail_idx,
                         signalled, slock, saw, buf, stop>>

(* event_wait.  Only tipc_send_data looks at its stop flag here. *)
Wake(t) == /\ pc[t] = "wait" /\ signalled
           /\ Goto(t, IF Tx /\ stop THEN "exit" ELSE "get")
           /\ UNCHANGED <<queue, ring_vars, mem, driver_vars, vring_addr, last_avail_idx,
                          signalled, slock, saw, buf, stop>>

(* The next chain, which is well formed. *)
Take(t) == /\ buf' = [buf EXCEPT ![t] = avail_ring[last_avail_idx % Num]]
           /\ last_avail_idx' = Inc(last_avail_idx)
           /\ Goto(t, "have")

(* _vqueue_get_avail_buf_locked.  (The ring exists: the threads have ended *)
(* before it is destroyed.)                                                *)
GetBuf(t) == /\ pc[t] = "get" /\ slock = None /\ ~Empty
             /\ Take(t)
             /\ UNCHANGED <<queue, ring_vars, mem, driver_vars, vring_addr, signalled, slock,
                            saw, stop>>

GetEmpty(t) == /\ pc[t] = "get" /\ slock = None /\ Empty
               /\ slock' = t /\ saw' = vring_addr /\ Goto(t, "empty")
               /\ UNCHANGED <<queue, ring_vars, mem, driver_vars, vring_addr, last_avail_idx,
                              signalled, buf, stop>>

(* Mistake: notifications stay suppressed. *)
UnsuppressNot(t) ==
  /\ pc[t] = "empty"
  /\ signalled' = FALSE
  /\ Goto(t, "recheck")
  /\ UNCHANGED <<queue, ring_vars, mem, driver_vars,
                 vring_addr, last_avail_idx, slock, saw, buf, stop>>

(* No buffer seen: ask for a notification ... *)
Unsuppress(t) ==
  /\ pc[t] = "empty"
  /\ signalled' = FALSE /\ no_notify' = FALSE
  /\ Goto(t, "recheck")
  /\ UNCHANGED <<queue, avail_idx, avail_ring, used_idx, used_ring, mem, driver_vars,
                 vring_addr, last_avail_idx, slock, saw, buf, stop>>

NoneLeft(t) == Goto(t, IF Tx THEN "wait" ELSE "idle")

(* Mistake: the ring is not looked at again. *)
RecheckNot(t) ==
  /\ pc[t] = "recheck"
  /\ slock' = None /\ saw' = FALSE
  /\ NoneLeft(t) /\ UNCHANGED <<no_notify, signalled, last_avail_idx, buf>>
  /\ UNCHANGED <<queue, avail_idx, avail_ring, used_idx, used_ring, mem, driver_vars,
                 vring_addr, stop>>

(* ... and look again, for a buffer that came before the request. *)
Recheck(t) ==
  /\ pc[t] = "recheck"
  /\ slock' = None /\ saw' = FALSE
  /\ \/ Empty /\ NoneLeft(t) /\ UNCHANGED <<no_notify, signalled, last_avail_idx, buf>>
     \/ ~Empty /\ no_notify' = TRUE /\ signalled' = TRUE /\ Take(t)
  /\ UNCHANGED <<queue, avail_idx, avail_ring, used_idx, used_ring, mem, driver_vars,
                 vring_addr, stop>>

(* Mistake: without smp_wmb the index may be seen before the element. *)
AddWriteUnordered(t, n) ==
  IF n = 1 THEN used_idx' = Inc(used_idx) /\ UNCHANGED used_ring
  ELSE /\ used_ring' = [used_ring EXCEPT ![(used_idx + IdxMod - 1) % Num] = buf[t]]
       /\ UNCHANGED used_idx

(* The two writes to the used ring: its next element, and then the index   *)
(* by which the driver sees it.                                            *)
AddWrite(t, n) ==
  IF n = 1 THEN /\ used_ring' = [used_ring EXCEPT ![used_idx % Num] = buf[t]]
                /\ UNCHANGED used_idx
  ELSE used_idx' = Inc(used_idx) /\ UNCHANGED used_ring

vqueue_add_buf(t) ==
  /\ pc[t] = "have" /\ slock = None
  /\ AddWrite(t, 1)
  /\ slock' = t /\ saw' = vring_addr /\ Goto(t, "added")
  /\ UNCHANGED <<queue, avail_idx, avail_ring, no_notify, mem, driver_vars, vring_addr,
                 last_avail_idx, signalled, buf, stop>>

AddIndex(t) ==
  /\ pc[t] = "added"
  /\ AddWrite(t, 2)
  /\ slock' = None /\ saw' = FALSE
  /\ buf' = [buf EXCEPT ![t] = None] /\ Goto(t, "idle")
  /\ UNCHANGED <<queue, avail_idx, avail_ring, no_notify, mem, driver_vars, vring_addr,
                 last_avail_idx, signalled, stop>>

-----------------------------------------------------------------------------
(* The reset: stop the threads, join them, destroy the queue *)

(* The RX thread, which may also have sent, is joined before TX is told. *)
RxEnds == /\ Tx /\ pc[RxThread] = "idle" /\ ~stop
          /\ Goto(RxThread, "exit")
          /\ UNCHANGED <<queue, ring_vars, mem, driver_vars, vring_addr,
                         last_avail_idx, signalled, slock, saw, buf, stop>>
CanStop == ~stop /\ slock = None /\ (Tx => pc[RxThread] = "exit")

(* Mistake: the sleeping thread is not signalled. *)
ResetStopQuiet ==
  /\ CanStop
  /\ stop' = TRUE
  /\ UNCHANGED <<queue, ring_vars, mem, driver_vars, vring_addr, last_avail_idx, signalled, slock, saw,
                 thread_vars>>

ResetStop == /\ CanStop
             /\ stop' = TRUE /\ signalled' = TRUE /\ no_notify' = TRUE
             /\ UNCHANGED <<queue, avail_idx, avail_ring, used_idx, used_ring, mem, driver_vars,
                            vring_addr, last_avail_idx, slock, saw, thread_vars>>

Joined == stop /\ \A t \in Threads : pc[t] = "exit"

(* Mistake: destroy does not take the lock. *)
vqueue_destroy_unlocked ==
  /\ Joined /\ vring_addr
  /\ vring_addr' = FALSE /\ last_avail_idx' = 0
  /\ UNCHANGED <<queue, ring_vars, mem, driver_vars, signalled, slock, saw, thread_vars, stop>>

(* Mistake: the index of the old ring is kept. *)
vqueue_destroy_keeps ==
  /\ Joined /\ vring_addr /\ slock = None
  /\ vring_addr' = FALSE
  /\ UNCHANGED <<queue, ring_vars, mem, driver_vars, last_avail_idx, signalled, slock, saw,
                 thread_vars, stop>>

vqueue_destroy ==
  /\ Joined /\ vring_addr /\ slock = None
  /\ vring_addr' = FALSE /\ last_avail_idx' = 0
  /\ UNCHANGED <<queue, ring_vars, mem, driver_vars, signalled, slock, saw, thread_vars, stop>>

vmm_free_region ==
  /\ mem /\ ~vring_addr
  /\ mem' = FALSE
  /\ UNCHANGED <<queue, ring_vars, driver_vars, vring_addr, last_avail_idx, signalled, slock,
                 saw, thread_vars, stop>>

(* A new start: the driver's new ring, no kick left of the old one. *)
vqueue_init == /\ ~mem /\ slock = None /\ ~kick
               /\ avail_idx' = 0 /\ used_idx' = 0 /\ no_notify' = FALSE
               /\ free' = Heads /\ d_used' = 0 /\ drv' = "idle"
               /\ mem' = TRUE /\ vring_addr' = TRUE /\ signalled' = FALSE
               /\ stop' = FALSE /\ pc' = Fresh
               /\ UNCHANGED <<queue, avail_ring, used_ring, kick, last_avail_idx, slock, saw, buf>>

-----------------------------------------------------------------------------
ThreadStep(t) == \/ Top(t) \/ Wake(t) \/ GetBuf(t) \/ GetEmpty(t)
                 \/ Unsuppress(t) \/ Recheck(t) \/ vqueue_add_buf(t) \/ AddIndex(t)

Next == \/ \E h \in Heads : Publish(h)
        \/ Notify \/ Collect \/ KickLock \/ vqueue_signal_avail
        \/ \E t \in Threads : ThreadStep(t)
        \/ RxEnds \/ ResetStop \/ vqueue_destroy \/ vmm_free_region \/ vqueue_init

Spec == Init /\ [][Next]_vars

(* Threads are scheduled, a kick arrives, slock is a spin lock that its    *)
(* holders give back; the driver looks at the flags after it published.    *)
FairSpec == /\ Spec
            /\ \A t \in Threads : SF_vars(ThreadStep(t))
            /\ WF_vars(Notify) /\ SF_vars(KickLock) /\ WF_vars(vqueue_signal_avail)
            /\ SF_vars(vqueue_destroy)

-----------------------------------------------------------------------------
(* Properties *)

(* Types. *)
TypeOK ==
  /\ queue \in {"rx", "tx"}
  /\ avail_idx \in 0 .. IdxMod - 1 /\ used_idx \in 0 .. IdxMod - 1
  /\ last_avail_idx \in 0 .. IdxMod - 1 /\ d_used \in 0 .. IdxMod - 1
  /\ avail_ring \in [Heads -> Heads] /\ used_ring \in [Heads -> Heads]
  /\ free \subseteq Heads
  /\ {no_notify, mem, kick, vring_addr, signalled, saw, stop} \subseteq BOOLEAN
  /\ drv \in {"idle", "check"} /\ slock \in Threads \cup {None, Kick}
  /\ pc \in [Threads -> {"idle", "wait", "get", "empty", "recheck", "have",
                       "added", "exit"}]
  /\ buf \in [Threads -> Heads \cup {None}]

Window(ring, from, cnt) == [i \in 1 .. cnt |-> ring[(from + i - 1) % Num]]
AvailQueue == Window(avail_ring, last_avail_idx, avail_cnt)
UsedQueue == Window(used_ring, d_used, (used_idx + IdxMod - d_used) % IdxMod)

Places(h) == /\ Cardinality({i \in DOMAIN AvailQueue : AvailQueue[i] = h})
                + Cardinality({i \in DOMAIN UsedQueue : UsedQueue[i] = h})
                + Cardinality({t \in Threads : buf[t] = h})
                + (IF h \in free THEN 1 ELSE 0) = 1

(* On top of the types, every descriptor chain is in one place: with the   *)
(* driver, available, held by one thread, or used; none is lost and none   *)
(* is given out twice, also when the indices have wrapped and also after a *)
(* reset.  The distance of the indices never exceeds the ring: "the idx    *)
(* counter is free running ... this should *never* happen" (vqueue.c:138). *)
OneOwner ==
  /\ TypeOK
  /\ vring_addr => avail_cnt <= Num /\ \A h \in Heads : Places(h)

(* A thread that sleeps while a buffer is available will be woken: a kick  *)
(* is on its way, the driver is about to see that it must kick, or the     *)
(* thread that saw the ring empty has yet to look again.                   *)
NoLostWakeup ==
  \A t \in Threads :
    pc[t] = "wait" /\ ~signalled /\ ~Empty =>
      \/ kick \/ slock = Kick
      \/ drv = "check" /\ ~no_notify
      \/ \E u \in Threads : pc[u] \in {"empty", "recheck"}

(* A kick that races with a reset does not touch the ring's memory after   *)
(* it was unmapped, nor does a thread.                                     *)
NoUnmappedAccess == slock # None /\ saw => mem

(* The ring implements the abstract one. *)
Ring == INSTANCE BufferRing WITH
          free <- IF vring_addr THEN free ELSE Heads,
          avail <- IF vring_addr THEN AvailQueue ELSE <<>>,
          used <- IF vring_addr THEN UsedQueue ELSE <<>>
ImplementsRing == Ring!Spec

(* A message published on the RX queue is taken, or its ring goes away.    *)
AvailServed ==
  \A h \in Heads :
    (~Tx /\ \E i \in DOMAIN AvailQueue : AvailQueue[i] = h) ~>
      (~vring_addr \/ \A i \in DOMAIN AvailQueue : AvailQueue[i] # h)

(* A reset that stops the RX thread can join it: it does not sleep through *)
(* the signal, whatever it was about to do.                                *)
RxStopEnds == stop /\ ~Tx ~> Joined

(* The same for a thread that waits for TX buffers: the reset has to end   *)
(* before panic("unable to shutdown tx thread: %d\n", rc).                 *)
TxStopEnds == stop /\ Tx ~> Joined
=============================================================================
