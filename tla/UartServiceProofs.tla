-------------------------- MODULE UartServiceProofs --------------------------
(***************************************************************************)
(* Proof that the service closes every channel it served, for any number   *)
(* of clients, buffers and requests.  NoHandleLeak is not inductive: that  *)
(* Retire goes back to the port without a close is harmless only because   *)
(* an event with POLL_HUP never gets that far, and that a hangup comes     *)
(* after a reply rests on counting the items of both queues.               *)
(***************************************************************************)
EXTENDS UartService, TLAPS

(* Each connection is in the pending list once. *)
Injective(s) == \A j, k \in 1 .. Len(s) : s[j] = s[k] => j = k

(* The channel the service holds, at its places in the loop: its client is *)
(* connected or gone, a request being handled was taken from the queue,    *)
(* and after a reply the event that is handled had no POLL_HUP.            *)
Handling == {"exchange", "reply", "reply_again", "retire"}
Serving ==
  /\ chan # None => client[chan] \in {"connected", "closed"}
  /\ pc \in Handling => inq[chan].read > 0
  /\ pc \in Handling /\ hup => client[chan] = "closed"
  /\ pc \in {"reply_again", "retire"} => ~hup /\ reps[chan] > 0

(* No queue holds more than its buffers, nor more than was sent. *)
Counts ==
  \A c \in Clients :
    /\ inq[c].filled + inq[c].read <= NumBufs
    /\ outq[c].filled + outq[c].read <= NumBufs
    /\ inq[c].filled + inq[c].read <= reqs[c]
    /\ outq[c].filled + outq[c].read <= reps[c]

IInv == NoHandleLeak /\ Injective(pending) /\ Serving /\ Counts

-----------------------------------------------------------------------------
(* The head of the pending list is in it once. *)
LEMMA TailOfPending ==
  ASSUME NEW S, NEW s \in Seq(S), s # << >>, Injective(s)
  PROVE  /\ Head(s) \in S /\ Head(s) \in ToSet(s)
         /\ Tail(s) \in Seq(S) /\ Injective(Tail(s))
         /\ ToSet(Tail(s)) = ToSet(s) \ {Head(s)}
<1>1. /\ Len(s) \in Nat \ {0} /\ DOMAIN s = 1 .. Len(s)
      /\ Head(s) = s[1]
      /\ Tail(s) \in Seq(S) /\ Len(Tail(s)) = Len(s) - 1
      /\ DOMAIN Tail(s) = 1 .. Len(s) - 1
      /\ \A k \in 1 .. Len(s) - 1 : Tail(s)[k] = s[k + 1]
      /\ \A k \in 1 .. Len(s) : s[k] \in S
  OBVIOUS
<1>2. Injective(Tail(s))
  BY <1>1 DEF Injective
<1>3. ASSUME NEW x \in ToSet(Tail(s))
      PROVE  x \in ToSet(s) \ {Head(s)}
  <2>1. PICK k \in 1 .. Len(s) - 1 : x = s[k + 1]
    BY <1>1, <1>3 DEF ToSet
  <2> QED
    BY <1>1, <2>1 DEF ToSet, Injective
<1>4. ASSUME NEW x \in ToSet(s) \ {Head(s)}
      PROVE  x \in ToSet(Tail(s))
  <2>1. PICK k \in 1 .. Len(s) : x = s[k] /\ k # 1
    BY <1>1, <1>4 DEF ToSet
  <2>2. k - 1 \in 1 .. Len(s) - 1 /\ Tail(s)[k - 1] = s[k]
    BY <1>1, <2>1
  <2> QED
    BY <1>1, <2>1, <2>2 DEF ToSet
<1>5. Head(s) \in ToSet(s)
  BY <1>1 DEF ToSet
<1> QED
  BY <1>1, <1>2, <1>3, <1>4, <1>5

(* A new connection is put at the end of the list. *)
LEMMA AppendedToPending ==
  ASSUME NEW S, NEW s \in Seq(S), NEW e \in S, Injective(s), e \notin ToSet(s)
  PROVE  /\ Append(s, e) \in Seq(S) /\ Injective(Append(s, e))
         /\ ToSet(Append(s, e)) = ToSet(s) \cup {e}
<1> DEFINE t == Append(s, e)
<1>1. /\ t \in Seq(S) /\ Len(s) \in Nat /\ Len(t) = Len(s) + 1
      /\ DOMAIN s = 1 .. Len(s) /\ DOMAIN t = 1 .. Len(s) + 1
      /\ \A k \in 1 .. Len(s) : t[k] = s[k]
      /\ t[Len(s) + 1] = e
  OBVIOUS
<1> HIDE DEF t
<1>2. \A k \in 1 .. Len(s) : s[k] # e
  BY <1>1 DEF ToSet
<1>3. Injective(t)
  BY <1>1, <1>2 DEF Injective
<1>4. ToSet(t) = ToSet(s) \cup {e}
  BY <1>1 DEF ToSet
<1> QED
  BY <1>1, <1>3, <1>4 DEF t

(* Nobody is connected when the service starts. *)
LEMMA InitIInv == Init => IInv
<1> SUFFICES ASSUME Init PROVE IInv
  OBVIOUS
<1> USE NoneAssumption, NumBufsAssumption DEF Init, Empty
<1>1. TypeOK
  <2>1. pending \in Seq(Clients)
    OBVIOUS
  <2>2. hup \in BOOLEAN
    BY Zenon
  <2>3. /\ client \in [Clients -> ClientStates]
        /\ inq \in [Clients -> Queues] /\ outq \in [Clients -> Queues]
        /\ reqs \in [Clients -> Nat] /\ reps \in [Clients -> Nat]
    BY DEF ClientStates, Queues
  <2> QED
    BY <2>1, <2>2, <2>3 DEF TypeOK
<1>2. NoHandleLeak
  BY <1>1 DEF NoHandleLeak, ToSet
<1>3. Injective(pending) /\ Serving /\ Counts
  BY DEF Injective, Serving, Counts, Handling
<1> QED
  BY <1>2, <1>3 DEF IInv

(* What sending, getting and retiring an item do to the counts of a queue. *)
LEMMA QueueOps ==
  ASSUME NEW q \in Queues, q.filled + q.read <= NumBufs
  PROVE  /\ HasRoom(q) => /\ Filled(q) \in Queues
                          /\ Filled(q).filled = q.filled + 1 /\ Filled(q).read = q.read
         /\ q.filled > 0 => /\ Taken(q) \in Queues
                            /\ Taken(q).filled = q.filled - 1 /\ Taken(q).read = q.read + 1
         /\ q.read > 0 => /\ Retired(q) \in Queues
                          /\ Retired(q).filled = q.filled /\ Retired(q).read = q.read - 1
<1> USE NumBufsAssumption
<1>1. PICK f \in 0 .. NumBufs, r \in 0 .. NumBufs : q = [filled |-> f, read |-> r]
  BY DEF Queues
<1>2. q.filled = f /\ q.read = r
  BY <1>1
<1>3. HasRoom(q) => f + 1 \in 0 .. NumBufs
  BY <1>2 DEF HasRoom
<1>4. Filled(q) = [filled |-> f + 1, read |-> r]
  BY <1>1 DEF Filled
<1>5. Taken(q) = [filled |-> f - 1, read |-> r + 1]
  <2>1. [q EXCEPT !.filled = q.filled - 1] = [filled |-> f - 1, read |-> r]
    BY <1>1
  <2>2. Taken(q) = [[filled |-> f - 1, read |-> r] EXCEPT !.read = r + 1]
    BY <1>2, <2>1 DEF Taken
  <2> QED
    BY <2>2
<1>6. Retired(q) = [filled |-> f, read |-> r - 1]
  BY <1>1 DEF Retired
<1>7. f > 0 => f - 1 \in 0 .. NumBufs /\ r + 1 \in 0 .. NumBufs
  BY <1>2
<1>8. r > 0 => r - 1 \in 0 .. NumBufs
  OBVIOUS
<1> QED
  BY <1>2, <1>3, <1>4, <1>5, <1>6, <1>7, <1>8 DEF Queues

(* A close of the channel preserves the invariant, if the client that is   *)
(* hung up on has had its reply.                                           *)
LEMMA CloseIInv ==
  ASSUME IInv, chan # None, CloseChan, pc' = "port",
         client[chan] = "connected" => reqs[chan] > 0 /\ reps[chan] > 0,
         UNCHANGED <<hup, pending, inq, outq, reqs, reps>>
  PROVE  IInv'
<1> USE NoneAssumption DEF IInv
<1>1. TypeOK /\ chan \in Clients
  BY DEF NoHandleLeak, TypeOK
<1>2. /\ chan' = None /\ client' \in [Clients -> ClientStates]
      /\ client'[chan] = IF client[chan] = "connected" THEN "hungup" ELSE "off"
      /\ \A c \in Clients \ {chan} : client'[c] = client[c]
  BY <1>1 DEF CloseChan, TypeOK, ClientStates
<1>3. TypeOK'
  BY <1>1, <1>2 DEF TypeOK
<1>4. NoHandleLeak'
  BY <1>1, <1>2, <1>3 DEF NoHandleLeak
<1>5. Serving'
  BY <1>2 DEF Serving, Handling
<1>6. Counts' /\ Injective(pending)'
  BY DEF Counts, Injective
<1> QED
  BY <1>4, <1>5, <1>6

(* Every step of the service and of a client preserves the invariant. *)
LEMMA StepIInv == IInv /\ [Next]_vars => IInv'
<1> SUFFICES ASSUME IInv, [Next]_vars PROVE IInv'
  OBVIOUS
<1>0. TypeOK
  BY DEF IInv, NoHandleLeak
<1> USE NoneAssumption, NumBufsAssumption, <1>0 DEF IInv
<1>q. \A c \in Clients : /\ inq[c] \in Queues /\ inq[c].filled + inq[c].read <= NumBufs
                         /\ outq[c] \in Queues /\ outq[c].filled + outq[c].read <= NumBufs
  BY DEF Counts, TypeOK
<1>n. \A c \in Clients : /\ inq[c].filled \in Nat /\ inq[c].read \in Nat
                         /\ outq[c].filled \in Nat /\ outq[c].read \in Nat
  BY <1>q DEF Queues
<1>1. CASE Accept
  <2> USE <1>1
  <2> DEFINE c == Head(pending)
  <2>1. /\ pc = "port" /\ pending # << >> /\ pending' = Tail(pending)
        /\ UNCHANGED <<hup, inq, outq, reqs, reps>>
    BY DEF Accept
  <2>2. /\ c \in Clients /\ c \in ToSet(pending)
        /\ pending' \in Seq(Clients) /\ Injective(pending')
        /\ ToSet(pending') = ToSet(pending) \ {c}
    BY <2>1, TailOfPending DEF TypeOK
  <2>3. chan = None
    BY <2>1 DEF NoHandleLeak
  <2>4. CASE client[c] = "pending"
    <3>1. /\ pc' = "chan" /\ chan' = c
          /\ client' = [client EXCEPT ![c] = "connected"]
      BY <2>4 DEF Accept
    <3> HIDE DEF c
    <3>2. TypeOK'
      BY <2>1, <2>2, <3>1 DEF TypeOK, ClientStates
    <3>3. NoHandleLeak'
      BY <2>1, <2>2, <2>3, <3>1, <3>2 DEF NoHandleLeak, TypeOK
    <3>4. Serving' /\ Counts'
      BY <2>1, <2>2, <3>1 DEF Serving, Counts, Handling, TypeOK
    <3> QED
      BY <2>2, <3>3, <3>4
  <2>5. CASE client[c] # "pending"
    <3>1. client' = [client EXCEPT ![c] = "off"] /\ UNCHANGED <<pc, chan>>
      BY <2>5 DEF Accept
    <3> HIDE DEF c
    <3>2. TypeOK'
      BY <2>1, <2>2, <3>1 DEF TypeOK, ClientStates
    <3>3. NoHandleLeak'
      BY <2>1, <2>2, <2>3, <2>5, <3>1, <3>2 DEF NoHandleLeak, TypeOK
    <3>4. Serving' /\ Counts'
      BY <2>1, <2>2, <2>3, <3>1 DEF Serving, Counts, Handling, TypeOK
    <3> QED
      BY <2>2, <3>3, <3>4
  <2> QED
    BY <2>4, <2>5
<1>2. CASE ChanMsg
  <2> USE <1>2 DEF ChanMsg
  <2>1. chan \in Clients
    BY DEF NoHandleLeak, TypeOK
  <2>2. /\ Taken(inq[chan]) \in Queues
        /\ Taken(inq[chan]).filled = inq[chan].filled - 1
        /\ Taken(inq[chan]).read = inq[chan].read + 1
    BY <1>q, <2>1, QueueOps
  <2>3. hup' \in BOOLEAN
    OBVIOUS
  <2>4. TypeOK'
    BY <2>1, <2>2, <2>3 DEF TypeOK
  <2>5. NoHandleLeak'
    BY <2>4 DEF NoHandleLeak
  <2>c. /\ inq'[chan] = Taken(inq[chan])
        /\ \A x \in Clients \ {chan} : inq'[x] = inq[x]
    BY <2>1 DEF TypeOK
  <2>6. Counts'
    BY <1>n, <2>1, <2>2, <2>c DEF Counts
  <2>7. Serving'
    <3>1. inq'[chan].read > 0
      BY <1>n, <2>1, <2>2, <2>c
    <3>2. hup' => client[chan] = "closed"
      BY Zenon
    <3> QED
      BY <2>1, <3>1, <3>2 DEF Serving, Handling
  <2> QED
    BY <2>5, <2>6, <2>7 DEF Injective
<1>3. CASE ChanHup
  <2>1. chan # None /\ CloseChan /\ pc' = "port" /\ client[chan] # "connected"
    BY <1>3 DEF ChanHup, NoHandleLeak
  <2> QED
    BY <1>3, <2>1, CloseIInv DEF ChanHup
<1>4. CASE Exchange
  <2> USE <1>4 DEF Exchange
  <2>1. TypeOK'
    BY DEF TypeOK
  <2>2. NoHandleLeak'
    BY <2>1 DEF NoHandleLeak
  <2> QED
    BY <2>2 DEF Serving, Counts, Injective, Handling
<1>5. ASSUME NEW next \in {"reply_again", "retire"}, ReplyThen(next),
             pc = IF next = "retire" THEN "reply_again" ELSE "reply"
      PROVE  IInv'
  <2> USE <1>5
  <2>1. chan \in Clients /\ pc \in Handling
    BY DEF NoHandleLeak, TypeOK, Handling
  <2>2. CASE client[chan] = "connected" /\ HasRoom(outq[chan])
    <3>1. /\ outq' = [outq EXCEPT ![chan] = Filled(@)]
          /\ reps' = [reps EXCEPT ![chan] = @ + 1]
          /\ pc' = next /\ UNCHANGED <<chan, client, hup, pending, inq, reqs>>
      BY <2>2 DEF ReplyThen
    <3>2. /\ Filled(outq[chan]) \in Queues
          /\ Filled(outq[chan]).filled = outq[chan].filled + 1
          /\ Filled(outq[chan]).read = outq[chan].read
      BY <1>q, <2>1, <2>2, QueueOps
    <3>3. TypeOK'
      BY <2>1, <3>1, <3>2 DEF TypeOK
    <3>4. NoHandleLeak'
      BY <2>1, <3>1, <3>3 DEF NoHandleLeak, Handling, TypeOK
    <3>5. Counts'
      BY <1>n, <2>1, <2>2, <3>1, <3>2 DEF Counts, HasRoom, TypeOK
    <3>6. Serving'
      BY <2>1, <2>2, <3>1 DEF Serving, Handling, TypeOK
    <3> QED
      BY <3>1, <3>4, <3>5, <3>6 DEF Injective
  <2>3. CASE ~(client[chan] = "connected" /\ HasRoom(outq[chan]))
    <3>1. CloseChan /\ pc' = "port" /\ UNCHANGED <<outq, reps, hup, pending, inq, reqs>>
      BY <2>3 DEF ReplyThen
    <3>2. reqs[chan] > 0
      <4>1. inq[chan].read > 0 /\ inq[chan].filled + inq[chan].read <= reqs[chan]
        BY <2>1 DEF Serving, Counts
      <4>2. inq[chan].filled \in Nat /\ inq[chan].read \in Nat /\ reqs[chan] \in Nat
        BY <1>n, <2>1 DEF TypeOK
      <4> QED
        BY <4>1, <4>2
    <3>3. client[chan] = "connected" => reps[chan] > 0
      BY <1>n, <2>1, <2>3 DEF HasRoom, Counts, TypeOK
    <3>4. chan # None
      BY <2>1
    <3> QED
      BY <3>1, <3>2, <3>3, <3>4, CloseIInv
  <2> QED
    BY <2>2, <2>3
<1>6. CASE Retire
  <2> USE <1>6 DEF Retire
  <2>1. chan \in Clients /\ inq[chan].read > 0 /\ ~hup
    BY DEF NoHandleLeak, TypeOK, Serving, Handling
  <2>2. /\ Retired(inq[chan]) \in Queues
        /\ Retired(inq[chan]).filled = inq[chan].filled
        /\ Retired(inq[chan]).read = inq[chan].read - 1
    BY <1>q, <2>1, QueueOps
  <2>3. TypeOK'
    BY <2>1, <2>2 DEF TypeOK
  <2>4. NoHandleLeak'
    BY <2>1, <2>3 DEF NoHandleLeak
  <2>5. Counts'
    BY <1>n, <2>1, <2>2 DEF Counts, TypeOK
  <2>6. Serving'
    BY <2>1 DEF Serving, Handling
  <2> QED
    BY <2>4, <2>5, <2>6 DEF Injective
<1>7. ASSUME NEW c \in Clients, Connect(c)
      PROVE  IInv'
  <2> USE <1>7 DEF Connect
  <2>1. c \notin ToSet(pending) /\ chan # c
    BY DEF NoHandleLeak, Serving
  <2>2. /\ pending' \in Seq(Clients) /\ Injective(pending')
        /\ ToSet(pending') = ToSet(pending) \cup {c}
    BY <2>1, AppendedToPending DEF TypeOK
  <2>3. Empty \in Queues /\ Empty.filled = 0 /\ Empty.read = 0
    BY DEF Empty, Queues
  <2>4. TypeOK'
    BY <2>2, <2>3 DEF TypeOK, ClientStates
  <2>5. NoHandleLeak'
    BY <2>1, <2>2, <2>4 DEF NoHandleLeak, TypeOK
  <2>6. Counts'
    BY <2>3 DEF Counts, TypeOK
  <2>7. Serving'
    BY <2>1 DEF Serving, Handling, TypeOK, NoHandleLeak
  <2> QED
    BY <2>2, <2>5, <2>6, <2>7
<1>8. ASSUME NEW c \in Clients, ClientSend(c)
      PROVE  IInv'
  <2> USE <1>8 DEF ClientSend
  <2>1. /\ Filled(inq[c]) \in Queues
        /\ Filled(inq[c]).filled = inq[c].filled + 1 /\ Filled(inq[c]).read = inq[c].read
    BY <1>q, QueueOps
  <2>2. TypeOK'
    BY <2>1 DEF TypeOK
  <2>3. NoHandleLeak'
    BY <2>2 DEF NoHandleLeak, TypeOK
  <2>4. Counts'
    BY <1>n, <2>1 DEF Counts, HasRoom, TypeOK
  <2>5. Serving'
    BY <2>1 DEF Serving, Handling, TypeOK
  <2> QED
    BY <2>3, <2>4, <2>5 DEF Injective
<1>9. ASSUME NEW c \in Clients, ClientGet(c) \/ ClientPut(c)
      PROVE  IInv'
  <2>1. PICK q \in Queues : /\ outq' = [outq EXCEPT ![c] = q]
                            /\ q.filled + q.read <= outq[c].filled + outq[c].read
    <3>1. CASE ClientGet(c)
      <4>1. Taken(outq[c]) \in Queues /\ Taken(outq[c]).filled = outq[c].filled - 1
            /\ Taken(outq[c]).read = outq[c].read + 1
        BY <1>q, <3>1, QueueOps DEF ClientGet
      <4> DEFINE t == Taken(outq[c])
      <4>2. outq' = [outq EXCEPT ![c] = t]
        BY <3>1 DEF ClientGet
      <4> HIDE DEF t
      <4>3. t \in Queues /\ t.filled + t.read <= outq[c].filled + outq[c].read
        BY <1>n, <4>1 DEF t
      <4> QED
        BY <4>2, <4>3
    <3>2. CASE ClientPut(c)
      <4>1. Retired(outq[c]) \in Queues /\ Retired(outq[c]).filled = outq[c].filled
            /\ Retired(outq[c]).read = outq[c].read - 1
        BY <1>q, <3>2, QueueOps DEF ClientPut
      <4> DEFINE t == Retired(outq[c])
      <4>2. outq' = [outq EXCEPT ![c] = t]
        BY <3>2 DEF ClientPut
      <4> HIDE DEF t
      <4>3. t \in Queues /\ t.filled + t.read <= outq[c].filled + outq[c].read
        BY <1>n, <4>1 DEF t
      <4> QED
        BY <4>2, <4>3
    <3> QED
      BY <1>9, <3>1, <3>2
  <2>u. UNCHANGED <<pc, chan, hup, pending, client, inq, reqs, reps>>
    BY <1>9 DEF ClientGet, ClientPut
  <2>2. TypeOK'
    BY <2>1, <2>u DEF TypeOK
  <2>3. NoHandleLeak'
    BY <2>2, <2>u DEF NoHandleLeak
  <2>4. Counts'
    <3>1. outq'[c] = q /\ \A x \in Clients \ {c} : outq'[x] = outq[x]
      BY <2>1 DEF TypeOK
    <3>2. q.filled \in Nat /\ q.read \in Nat /\ reps[c] \in Nat
      BY DEF Queues, TypeOK
    <3> QED
      BY <1>n, <2>1, <2>u, <3>1, <3>2 DEF Counts
  <2>5. Serving'
    BY <2>u DEF Serving, Handling
  <2> QED
    BY <2>3, <2>4, <2>5, <2>u DEF Injective
<1>10. ASSUME NEW c \in Clients, ClientClose(c)
       PROVE  IInv'
  <2> USE <1>10 DEF ClientClose
  <2>1. TypeOK'
    BY DEF TypeOK, ClientStates
  <2>2. NoHandleLeak'
    BY <2>1 DEF NoHandleLeak, TypeOK, Serving
  <2>3. Serving'
    BY DEF Serving, Handling, TypeOK
  <2> QED
    BY <2>2, <2>3 DEF Injective, Counts
<1>11. CASE UNCHANGED vars
  BY <1>11 DEF vars, NoHandleLeak, TypeOK, Serving, Counts, Injective, Handling
<1>12. CASE Reply \/ ReplyAgain
  BY <1>5, <1>12 DEF Reply, ReplyAgain
<1> QED
  BY <1>1, <1>2, <1>3, <1>4, <1>6, <1>7, <1>8, <1>9, <1>10, <1>11, <1>12 DEF Next, Service

-----------------------------------------------------------------------------
(* Whatever its clients do, the service has closed the channel it served   *)
(* when it is back at its port (handle_port_event, handle_channel_event),  *)
(* and it hangs up only on clients it has answered.                        *)
THEOREM ServiceClosesItsChannel == Spec => []NoHandleLeak
<1>1. Init => IInv
  BY InitIInv
<1>2. IInv /\ [Next]_vars => IInv'
  BY StepIInv
<1>3. IInv => NoHandleLeak
  BY DEF IInv
<1> QED
  BY <1>1, <1>2, <1>3, PTL DEF Spec
=============================================================================
