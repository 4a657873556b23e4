-------------------------- MODULE MsgQueueProofs --------------------------
(***************************************************************************)
(* Proofs about MsgQueue for every number of items, item size and set of   *)
(* payloads.  IInv is inductive as it stands: which list an item is on is  *)
(* tied to its state, which is what keeps the three lists apart.           *)
(***************************************************************************)
EXTENDS MsgQueue, TLAPS

IInv == /\ TypeOK
        /\ ListsMatchStates
        /\ BlockedMeansFull
        /\ WaiterWillBeWoken

(* Taking the head off a list without repetitions leaves a list without    *)
(* repetitions that holds the other members (list_delete of the head).     *)
LEMMA TailMembers ==
  ASSUME NEW S, NEW s \in Seq(S), s # << >>, Injective(s)
  PROVE  /\ Head(s) \in S
         /\ Head(s) \in Members(s)
         /\ Tail(s) \in Seq(S)
         /\ Injective(Tail(s))
         /\ Members(Tail(s)) = Members(s) \ {Head(s)}
<1>1. /\ Len(s) \in Nat \ {0}
      /\ Head(s) = s[1]
      /\ Tail(s) \in Seq(S)
      /\ Len(Tail(s)) = Len(s) - 1
      /\ \A k \in 1 .. Len(s) - 1 : Tail(s)[k] = s[k + 1]
      /\ \A k \in 1 .. Len(s) : s[k] \in S
  OBVIOUS
<1>2. Injective(Tail(s))
  BY <1>1 DEF Injective
<1>3. ASSUME NEW x \in Members(Tail(s))
      PROVE  x \in Members(s) \ {Head(s)}
  <2>1. PICK k \in 1 .. Len(s) - 1 : x = s[k + 1]
    BY <1>1, <1>3 DEF Members
  <2> QED
    BY <1>1, <2>1 DEF Members, Injective
<1>4. ASSUME NEW x \in Members(s) \ {Head(s)}
      PROVE  x \in Members(Tail(s))
  <2>1. PICK k \in 1 .. Len(s) : x = s[k] /\ k # 1
    BY <1>1, <1>4 DEF Members
  <2>2. k - 1 \in 1 .. Len(s) - 1 /\ Tail(s)[k - 1] = s[k]
    BY <1>1, <2>1
  <2> QED
    BY <1>1, <2>1, <2>2 DEF Members
<1>5. Head(s) \in Members(s)
  BY <1>1 DEF Members
<1> QED
  BY <1>1, <1>2, <1>3, <1>4, <1>5

(* list_add_tail of an element that is not on the list yet. *)
LEMMA AppendMembers ==
  ASSUME NEW S, NEW s \in Seq(S), NEW e \in S, Injective(s), e \notin Members(s)
  PROVE  /\ Append(s, e) \in Seq(S)
         /\ Injective(Append(s, e))
         /\ Members(Append(s, e)) = Members(s) \cup {e}
<1> DEFINE t == Append(s, e)
<1>1. /\ t \in Seq(S)
      /\ Len(s) \in Nat
      /\ Len(t) = Len(s) + 1
      /\ \A k \in 1 .. Len(s) : t[k] = s[k]
      /\ t[Len(s) + 1] = e
  OBVIOUS
<1> HIDE DEF t
<1>2. \A k \in 1 .. Len(s) : s[k] # e
  BY DEF Members
<1>3. Injective(t)
  BY <1>1, <1>2 DEF Injective
<1>4. Members(t) = Members(s) \cup {e}
  BY <1>1 DEF Members
<1> QED
  BY <1>1, <1>3, <1>4 DEF t

(* list_add_head of an element that is not on the list yet. *)
LEMMA PrependMembers ==
  ASSUME NEW S, NEW s \in Seq(S), NEW e \in S, Injective(s), e \notin Members(s)
  PROVE  /\ <<e>> \o s \in Seq(S)
         /\ Injective(<<e>> \o s)
         /\ Members(<<e>> \o s) = Members(s) \cup {e}
<1> DEFINE t == <<e>> \o s
<1>1. /\ t \in Seq(S)
      /\ Len(s) \in Nat
      /\ Len(t) = Len(s) + 1
      /\ t[1] = e
      /\ \A k \in 2 .. Len(s) + 1 : t[k] = s[k - 1]
  OBVIOUS
<1> HIDE DEF t
<1>2. \A k \in 1 .. Len(s) : s[k] # e
  BY DEF Members
<1>3. ASSUME NEW j \in 1 .. Len(t), NEW k \in 1 .. Len(t), t[j] = t[k]
      PROVE  j = k
  <2>1. CASE j = 1
    BY <1>1, <1>2, <1>3, <2>1
  <2>2. CASE k = 1
    BY <1>1, <1>2, <1>3, <2>2
  <2>3. CASE j # 1 /\ k # 1
    <3>1. j - 1 \in 1 .. Len(s) /\ k - 1 \in 1 .. Len(s) /\ s[j - 1] = s[k - 1]
      BY <1>1, <1>3, <2>3
    <3> QED
      BY <1>1, <3>1 DEF Injective
  <2> QED
    BY <2>1, <2>2, <2>3
<1>4. ASSUME NEW x \in Members(t)
      PROVE  x \in Members(s) \cup {e}
  <2>1. PICK k \in 1 .. Len(t) : x = t[k]
    BY <1>4 DEF Members
  <2>2. CASE k = 1
    BY <1>1, <2>1, <2>2
  <2>3. CASE k # 1
    <3>1. k - 1 \in 1 .. Len(s) /\ x = s[k - 1]
      BY <1>1, <2>1, <2>3
    <3> QED
      BY <3>1 DEF Members
  <2> QED
    BY <2>2, <2>3
<1>5. ASSUME NEW x \in Members(s) \cup {e}
      PROVE  x \in Members(t)
  <2>1. CASE x = e
    BY <1>1, <2>1 DEF Members
  <2>2. CASE x \in Members(s)
    <3>1. PICK k \in 1 .. Len(s) : x = s[k]
      BY <2>2 DEF Members
    <3>2. k + 1 \in 1 .. Len(t) /\ x = t[k + 1]
      BY <1>1, <3>1
    <3> QED
      BY <3>2 DEF Members
  <2> QED
    BY <1>5, <2>1, <2>2
<1> QED
  BY <1>1, <1>3, <1>4, <1>5 DEF t, Injective

-----------------------------------------------------------------------------
(* ipc_msg_queue_create puts every item on free_list. *)
LEMMA InitIInv == Init => IInv
<1> SUFFICES ASSUME Init PROVE IInv
  OBVIOUS
<1> USE NumItemsAssumption
<1>1. /\ free_list \in Seq(Items)
      /\ Len(free_list) = NumItems
      /\ \A k \in 1 .. NumItems : free_list[k] = k - 1
      /\ filled_list \in Seq(Items)
      /\ Len(filled_list) = 0
  BY DEF Init, Items
<1>2. TypeOK
  BY <1>1 DEF Init, TypeOK, ItemStates, Contents
<1>3. Injective(free_list) /\ Injective(filled_list)
  BY <1>1 DEF Injective
<1>4. ASSUME NEW i \in Items
      PROVE  i \in Members(free_list)
  <2>1. i + 1 \in 1 .. NumItems /\ free_list[i + 1] = i
    BY <1>1 DEF Items
  <2> QED
    BY <1>1, <2>1 DEF Members
<1>5. Members(free_list) \subseteq Items /\ Members(filled_list) = {}
  BY <1>1 DEF Members, Items
<1>6. ListsMatchStates
  BY <1>3, <1>4, <1>5 DEF Init, ListsMatchStates
<1> QED
  BY <1>2, <1>6 DEF Init, IInv, BlockedMeansFull, WaiterWillBeWoken

(* Every operation of ipc_msg.c preserves the inductive invariant. *)
LEMMA StepIInv == IInv /\ [Next]_vars => IInv'
<1> SUFFICES ASSUME IInv, [Next]_vars PROVE IInv'
  OBVIOUS
<1> USE DEF IInv
<1>1. ASSUME NEW m \in Payloads, SendMsg(m)
      PROVE  IInv'
  <2> DEFINE item == Head(free_list)
  <2>1. /\ item \in Items /\ state[item] = "FREE"
        /\ Tail(free_list) \in Seq(Items)
        /\ Injective(Tail(free_list))
        /\ Members(Tail(free_list)) = Members(free_list) \ {item}
    BY <1>1, TailMembers DEF SendMsg, TypeOK, ListsMatchStates
  <2>2. item \notin Members(filled_list)
    BY <2>1 DEF ListsMatchStates
  <2>3. /\ Append(filled_list, item) \in Seq(Items)
        /\ Injective(Append(filled_list, item))
        /\ Members(Append(filled_list, item)) = Members(filled_list) \cup {item}
    BY <2>1, <2>2, AppendMembers DEF TypeOK, ListsMatchStates
  <2>4. Stored(m) \in Contents
    BY DEF Contents
  <2>5. TypeOK'
    BY <1>1, <2>1, <2>3, <2>4 DEF SendMsg, TypeOK, ItemStates
  <2>6. ListsMatchStates'
    BY <1>1, <2>1, <2>3 DEF SendMsg, TypeOK, ListsMatchStates
  <2>7. BlockedMeansFull' /\ WaiterWillBeWoken'
    BY <1>1 DEF SendMsg, BlockedMeansFull, WaiterWillBeWoken
  <2> QED
    BY <2>5, <2>6, <2>7
<1>2. ASSUME NEW m \in Payloads, SendFault(m)
      PROVE  IInv'
  <2>1. Stored(m) \in Contents
    BY DEF Contents
  <2>2. TypeOK'
    BY <1>2, <2>1 DEF SendFault, TypeOK
  <2> QED
    BY <1>2, <2>2 DEF SendFault, ListsMatchStates, BlockedMeansFull, WaiterWillBeWoken
<1>3. CASE SendFull
  BY <1>3 DEF SendFull, qvars, TypeOK, ListsMatchStates,
             BlockedMeansFull, WaiterWillBeWoken
<1>4. CASE SenderWake
  BY <1>4 DEF SenderWake, qvars, TypeOK, ListsMatchStates,
             BlockedMeansFull, WaiterWillBeWoken
<1>5. CASE GetMsg
  <2> DEFINE item == Head(filled_list)
  <2>1. /\ item \in Items /\ state[item] = "FILLED"
        /\ Tail(filled_list) \in Seq(Items)
        /\ Injective(Tail(filled_list))
        /\ Members(Tail(filled_list)) = Members(filled_list) \ {item}
    BY <1>5, TailMembers DEF GetMsg, TypeOK, ListsMatchStates
  <2>2. TypeOK'
    BY <1>5, <2>1 DEF GetMsg, TypeOK, ItemStates
  <2>3. ListsMatchStates'
    BY <1>5, <2>1 DEF GetMsg, TypeOK, ListsMatchStates
  <2> QED
    BY <1>5, <2>2, <2>3 DEF GetMsg, BlockedMeansFull, WaiterWillBeWoken
<1>6. ASSUME NEW id \in Items, PutMsg(id)
      PROVE  IInv'
  <2>1. id \notin Members(free_list)
    BY <1>6 DEF PutMsg, ListsMatchStates
  <2>2. /\ <<id>> \o free_list \in Seq(Items)
        /\ Injective(<<id>> \o free_list)
        /\ Members(<<id>> \o free_list) = Members(free_list) \cup {id}
    BY <2>1, PrependMembers DEF TypeOK, ListsMatchStates
  <2>3. TypeOK'
    BY <1>6, <2>2 DEF PutMsg, TypeOK, ItemStates
  <2>4. ListsMatchStates'
    BY <1>6, <2>2 DEF PutMsg, TypeOK, ListsMatchStates
  <2> QED
    BY <1>6, <2>3, <2>4 DEF PutMsg, BlockedMeansFull, WaiterWillBeWoken
<1>7. CASE Disconnect
  BY <1>7 DEF Disconnect, qvars, TypeOK, ListsMatchStates,
             BlockedMeansFull, WaiterWillBeWoken
<1>8. CASE UNCHANGED vars
  BY <1>8 DEF vars, TypeOK, ListsMatchStates,
             BlockedMeansFull, WaiterWillBeWoken
<1> QED
  BY <1>1, <1>2, <1>3, <1>4, <1>5, <1>6, <1>7, <1>8 DEF Next

(* The inductive invariant holds of every behaviour of the queue. *)
THEOREM IInvHolds == Spec => []IInv
  BY InitIInv, StepIInv, PTL DEF Spec

(* Every list of the queue holds item ids, in every reachable state of     *)
(* ipc_msg.c's queue, whatever its size.                                   *)
THEOREM TypeCorrect == Spec => []TypeOK
  BY IInvHolds, PTL DEF IInv

(* No item is lost or on two lists (the three lists of ipc_msg_queue). *)
THEOREM ItemsConserved == Spec => []ListsMatchStates
  BY IInvHolds, PTL DEF IInv

(* A SEND_BLOCKED mark never outlives a free item (msg_put_read_locked). *)
THEOREM NoMissedUnblock == Spec => []BlockedMeansFull
  BY IInvHolds, PTL DEF IInv

(* A sender that waits has its event, or will get it from the next put, or *)
(* the channel is closed.                                                  *)
THEOREM NoStrandedSender == Spec => []WaiterWillBeWoken
  BY IInvHolds, PTL DEF IInv

-----------------------------------------------------------------------------
(* The refinement: AbsQueue and AbsHeld are the FIFO's variables under the mapping. *)
AbsQueue == [k \in 1 .. Len(filled_list) |-> buf[filled_list[k]]]
AbsHeld == [i \in read_list |-> buf[i]]

(* A new queue is an empty FIFO. *)
LEMMA InitRefines == Init => Abstract!Init
<1> SUFFICES ASSUME Init PROVE AbsQueue = << >> /\ AbsHeld = << >>
  BY DEF Abstract!Init, AbsQueue, AbsHeld
<1>1. Len(filled_list) = 0 /\ read_list = {}
  BY DEF Init
<1> QED
  BY <1>1 DEF AbsQueue, AbsHeld

(* Every operation of the queue is an operation of the FIFO, or none. *)
LEMMA StepRefines == IInv /\ [Next]_vars => [Abstract!Next]_(Abstract!vars)
<1> SUFFICES ASSUME IInv, [Next]_vars
             PROVE  Abstract!Next \/ (AbsQueue' = AbsQueue /\ AbsHeld' = AbsHeld)
  BY DEF Abstract!vars, AbsQueue, AbsHeld
<1> USE DEF IInv
<1>0. /\ Len(filled_list) \in Nat
      /\ \A k \in 1 .. Len(filled_list) :
           /\ filled_list[k] \in Items
           /\ state[filled_list[k]] = "FILLED"
      /\ \A i \in read_list : i \in Items /\ state[i] = "READ"
  BY DEF TypeOK, ListsMatchStates, Members
<1>1. ASSUME NEW m \in Payloads, SendMsg(m)
      PROVE  Abstract!Next
  <2> DEFINE item == Head(free_list)
  <2>1. item \in Items /\ state[item] = "FREE"
    BY <1>1, TailMembers DEF SendMsg, TypeOK, ListsMatchStates
  <2>2. /\ buf' = [buf EXCEPT ![item] = Stored(m)]
        /\ filled_list' = Append(filled_list, item)
        /\ read_list' = read_list
        /\ buf \in [Items -> Contents]
        /\ filled_list \in Seq(Items)
    BY <1>1 DEF SendMsg, TypeOK
  <2> HIDE DEF item
  <2>3. /\ Len(filled_list') = Len(filled_list) + 1
        /\ \A k \in 1 .. Len(filled_list) : filled_list'[k] = filled_list[k]
        /\ filled_list'[Len(filled_list) + 1] = item
    BY <2>1, <2>2
  <2>4. AbsQueue \in Seq(Contents)
    BY <1>0, <2>2 DEF AbsQueue
  <2>5. AbsQueue' = Append(AbsQueue, Stored(m))
    BY <1>0, <2>1, <2>2, <2>3, <2>4 DEF AbsQueue
  <2>6. AbsHeld' = AbsHeld
    BY <1>0, <2>1, <2>2 DEF AbsHeld
  <2>7. Stored(m) \in Contents
    BY DEF Contents
  <2> QED
    BY <2>5, <2>6, <2>7 DEF Abstract!Next, Abstract!Send, AbsQueue, AbsHeld
<1>2. ASSUME NEW m \in Payloads, SendFault(m)
      PROVE  AbsQueue' = AbsQueue /\ AbsHeld' = AbsHeld
  <2> DEFINE item == Head(free_list)
  <2>1. item \in Items /\ state[item] = "FREE"
    BY <1>2, TailMembers DEF SendFault, TypeOK, ListsMatchStates
  <2>2. /\ buf' = [buf EXCEPT ![item] = Stored(m)]
        /\ filled_list' = filled_list
        /\ read_list' = read_list
        /\ buf \in [Items -> Contents]
    BY <1>2 DEF SendFault, TypeOK
  <2> HIDE DEF item
  <2> QED
    BY <1>0, <2>1, <2>2 DEF AbsQueue, AbsHeld
<1>3. CASE SendFull \/ SenderWake \/ Disconnect \/ UNCHANGED vars
  BY <1>3 DEF SendFull, SenderWake, Disconnect, qvars, vars, AbsQueue, AbsHeld
<1>4. CASE GetMsg
  <2> DEFINE item == Head(filled_list)
  <2>1. /\ filled_list # << >>
        /\ filled_list' = Tail(filled_list)
        /\ read_list' = read_list \cup {item}
        /\ buf' = buf
        /\ buf \in [Items -> Contents]
        /\ filled_list \in Seq(Items)
    BY <1>4 DEF GetMsg, TypeOK
  <2>2. /\ Len(filled_list) # 0
        /\ item = filled_list[1]
        /\ Len(filled_list') = Len(filled_list) - 1
        /\ \A k \in 1 .. Len(filled_list) - 1 :
             filled_list'[k] = filled_list[k + 1]
    BY <2>1
  <2>3. item \in Items /\ item \notin read_list
    BY <1>0, <2>2
  <2> HIDE DEF item
  <2>4. AbsQueue \in Seq(Contents) /\ Len(AbsQueue) = Len(filled_list)
    BY <1>0, <2>1 DEF AbsQueue
  <2>5. AbsQueue # << >> /\ Head(AbsQueue) = buf[item]
    BY <1>0, <2>2, <2>4 DEF AbsQueue
  <2>6. AbsQueue' = Tail(AbsQueue)
    BY <1>0, <2>1, <2>2, <2>4 DEF AbsQueue
  <2>7. /\ item \in Items \ DOMAIN AbsHeld
        /\ AbsHeld' = [i \in DOMAIN AbsHeld \cup {item} |->
                   IF i = item THEN Head(AbsQueue) ELSE AbsHeld[i]]
    BY <2>1, <2>3, <2>5 DEF AbsHeld
  <2> QED
    BY <2>5, <2>6, <2>7 DEF Abstract!Next, Abstract!Get, AbsQueue, AbsHeld
<1>5. ASSUME NEW id \in Items, PutMsg(id)
      PROVE  Abstract!Next
  <2>1. id \in read_list
    BY <1>5 DEF PutMsg, ListsMatchStates
  <2>2. AbsQueue' = AbsQueue
    BY <1>5 DEF PutMsg, AbsQueue
  <2>3. id \in DOMAIN AbsHeld /\ AbsHeld' = [i \in DOMAIN AbsHeld \ {id} |-> AbsHeld[i]]
    BY <1>5, <2>1 DEF PutMsg, AbsHeld
  <2> QED
    BY <2>2, <2>3 DEF Abstract!Next, Abstract!Put, AbsQueue, AbsHeld
<1> QED
  BY <1>1, <1>2, <1>3, <1>4, <1>5 DEF Next

(* The message queue of ipc_msg.c implements the FIFO: messages come out   *)
(* in order and once, and do not change while they are being read, for any *)
(* number of items and any messages.                                       *)
THEOREM FifoRefinement == Spec => ImplementsFifo
<1>1. Init => Abstract!Init
  BY InitRefines
<1>2. IInv /\ [Next]_vars => [Abstract!Next]_(Abstract!vars)
  BY StepRefines
<1> QED
  BY <1>1, <1>2, IInvHolds, PTL DEF Spec, ImplementsFifo, Abstract!Spec
=============================================================================
