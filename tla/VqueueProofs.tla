---------------------------- MODULE VqueueProofs ----------------------------
(***************************************************************************)
(* Proofs about Vqueue for every ring size, index width (a multiple of the *)
(* ring size, as 2^16 is of a power of two) and set of threads.            *)
(*                                                                         *)
(* The argument has two halves.  The locks: who holds slock, who keeps the *)
(* ring mapped, and who will see a buffer (Holding, Mapped, Woken).  The   *)
(* buffers: the part of a ring between two free-running indices is a       *)
(* queue, to which a write after its end, and then of its end, appends as  *)
(* long as the ring has room; it has room because a head that is elsewhere *)
(* is not in the queue (Ownership), by the pigeonhole principle.  Between  *)
(* the two writes of vqueue_add_buf nobody else writes (Written).          *)
(***************************************************************************)
EXTENDS Vqueue, FiniteSetTheorems, TLAPS

-----------------------------------------------------------------------------
(* Remainders *)

(* The remainder is in range. *)
LEMMA ModRange ==
  ASSUME NEW n \in Nat \ {0}, NEW x \in Nat
  PROVE  x % n \in 0 .. n - 1
OBVIOUS

(* A position in the first turn of the ring is its own slot ... *)
LEMMA ModSmall ==
  ASSUME NEW n \in Nat \ {0}, NEW x \in 0 .. n - 1
  PROVE  x % n = x
OBVIOUS

(* ... and one turn later the slots start again. *)
LEMMA ModNext ==
  ASSUME NEW n \in Nat \ {0}, NEW x \in n .. 2 * n - 1
  PROVE  x % n = x - n
OBVIOUS

(* Division with remainder. *)
LEMMA DivMod ==
  ASSUME NEW n \in Nat \ {0}, NEW x \in Nat
  PROVE  x \div n \in Nat /\ x = n * (x \div n) + (x % n)
<1>0. n \in Int /\ n > 0 /\ x \in Int
  OBVIOUS
<1>1. x = n * (x \div n) + (x % n)
  BY ONLY <1>0
<1>2. x \div n \in Int
  OBVIOUS
<1>3. x \div n >= 0
  OBVIOUS
<1> QED
  BY <1>1, <1>2, <1>3

(* Any number of turns away, the slot is the same. *)
LEMMA ModUnique ==
  ASSUME NEW n \in Nat \ {0}, NEW q \in Nat, NEW r \in 0 .. n - 1
  PROVE  (n * q + r) % n = r
OBVIOUS

(* Two positions less than a turn apart are two slots of the ring. *)
LEMMA ModApart ==
  ASSUME NEW n \in Nat \ {0}, NEW x \in Nat, NEW y \in Nat, x < y, y - x < n
  PROVE  x % n # y % n
<1> SUFFICES ASSUME x % n = y % n PROVE FALSE
  OBVIOUS
<1> DEFINE p == x \div n  q == y \div n
<1>1. /\ p \in Nat /\ x = n * p + (x % n)
      /\ q \in Nat /\ y = n * q + (x % n)
  BY DivMod
<1>2. x % n \in Nat
  BY ModRange
<1> HIDE DEF p, q
<1>3. n * q - n * p = y - x
  BY <1>1, <1>2
<1>4. n * (q - p) = n * q - n * p
  BY <1>1
<1>5. CASE q - p >= 1
  <2>1. n * (q - p) = n * (q - p - 1) + n
    BY <1>1
  <2>2. n * (q - p - 1) >= 0
    BY <1>1, <1>5
  <2> QED
    BY <1>3, <1>4, <2>1, <2>2, <1>1
<1>6. CASE q - p <= 0
  <2>1. n * (p - q) >= 0
    BY <1>1, <1>6
  <2>2. n * (p - q) = n * p - n * q
    BY <1>1
  <2> QED
    BY <1>3, <2>1, <2>2, <1>1
<1> QED
  BY <1>1, <1>5, <1>6

(* The free-running indices wrap at a multiple of the ring's size. *)
LEMMA ModShift ==
  ASSUME NEW x \in Nat
  PROVE  (x + IdxMod) % Num = x % Num
<1> DEFINE p == x \div Num  q == IdxMod \div Num
<1>0. Num \in Nat \ {0} /\ IdxMod \in Nat
  BY NumAssumption, IdxAssumption
<1>1. p \in Nat /\ x = Num * p + (x % Num)
  BY <1>0, DivMod
<1>2. q \in Nat /\ IdxMod = Num * q
  BY <1>0, DivMod, IdxAssumption
<1>3. x % Num \in 0 .. Num - 1
  BY <1>0, ModRange
<1> HIDE DEF p, q
<1>4. x + IdxMod = Num * (p + q) + (x % Num)
  BY <1>0, <1>1, <1>2, <1>3
<1>5. (Num * (p + q) + (x % Num)) % Num = x % Num
  <2> DEFINE r == x % Num  s == p + q
  <2>1. r \in 0 .. Num - 1 /\ s \in Nat
    BY <1>1, <1>2, <1>3
  <2> HIDE DEF r, s
  <2>2. (Num * s + r) % Num = r
    BY <1>0, <2>1, ModUnique
  <2> QED
    BY <2>2 DEF r, s
<1> QED
  BY <1>4, <1>5

-----------------------------------------------------------------------------
(* Windows of a ring *)

Index == 0 .. IdxMod - 1
Cnt(to, from) == (to + IdxMod - from) % IdxMod
Slot(from, i) == (from + i - 1) % Num
Queue(ring, from, to) == Window(ring, from, Cnt(to, from))

(* The distance of two indices, and one index further. *)
LEMMA IndexArithmetic ==
  ASSUME NEW x \in Index, NEW y \in Index
  PROVE  /\ Inc(x) \in Index
         /\ Inc(x) = IF x + 1 < IdxMod THEN x + 1 ELSE 0
         /\ Cnt(x, y) \in Index
         /\ Cnt(x, y) = IF x >= y THEN x - y ELSE x + IdxMod - y
         /\ x % Num \in Heads
<1>0. IdxMod \in Nat \ {0} /\ Num \in Nat \ {0} /\ x \in Nat /\ y \in Nat
  BY NumAssumption, IdxAssumption DEF Index
<1>5. x % Num \in Heads
  BY <1>0, ModRange DEF Heads
<1>6. Inc(x) \in Index /\ Inc(x) = IF x + 1 < IdxMod THEN x + 1 ELSE 0
  <2>1. CASE x + 1 < IdxMod
    <3>1. x + 1 \in 0 .. IdxMod - 1
      BY <1>0, <2>1
    <3>2. (x + 1) % IdxMod = x + 1
      BY <1>0, <3>1, ModSmall
    <3> QED
      BY <2>1, <3>1, <3>2 DEF Index, Inc
  <2>2. CASE ~(x + 1 < IdxMod)
    <3>1. x + 1 = IdxMod /\ x + 1 \in IdxMod .. 2 * IdxMod - 1
      BY <1>0, <2>2 DEF Index
    <3>2. (x + 1) % IdxMod = 0
      BY <1>0, <3>1, ModNext
    <3> QED
      BY <1>0, <2>2, <3>2 DEF Index, Inc
  <2> QED
    BY <2>1, <2>2
<1>7. Cnt(x, y) = IF x >= y THEN x - y ELSE x + IdxMod - y
  <2>1. CASE x >= y
    <3>1. x + IdxMod - y \in IdxMod .. 2 * IdxMod - 1
      BY <1>0, <2>1 DEF Index
    <3>2. (x + IdxMod - y) % IdxMod = (x + IdxMod - y) - IdxMod
      BY <1>0, <3>1, ModNext
    <3> QED
      BY <1>0, <2>1, <3>2 DEF Cnt
  <2>2. CASE x < y
    <3>1. x + IdxMod - y \in 0 .. IdxMod - 1
      BY <1>0, <2>2 DEF Index
    <3> QED
      BY <1>0, <2>2, <3>1, ModSmall DEF Cnt
  <2> QED
    BY <1>0, <2>1, <2>2
<1>8. Cnt(x, y) \in Index
  BY <1>0, <1>7 DEF Index
<1> QED
  BY <1>5, <1>6, <1>7, <1>8

(* A queue is a sequence of heads; the slot after its end is not its own   *)
(* as long as it does not fill the ring.                                   *)
LEMMA QueueShape ==
  ASSUME NEW ring \in [Heads -> Heads], NEW from \in Index, NEW to \in Index
  PROVE  /\ Queue(ring, from, to) \in Seq(Heads)
         /\ Len(Queue(ring, from, to)) = Cnt(to, from)
         /\ DOMAIN Queue(ring, from, to) = 1 .. Cnt(to, from)
         /\ \A i \in 1 .. Cnt(to, from) :
              Queue(ring, from, to)[i] = ring[Slot(from, i)]
         /\ (Queue(ring, from, to) = << >>) <=> (from = to)
<1> DEFINE n == Cnt(to, from)
<1>0. Num \in Nat \ {0} /\ from \in Nat
  BY NumAssumption, IdxAssumption DEF Index
<1>1. n \in Nat /\ (n = 0 <=> from = to)
  <2>1. n = IF to >= from THEN to - from ELSE to + IdxMod - from
    BY IndexArithmetic
  <2> HIDE DEF n
  <2> QED
    BY <2>1, IdxAssumption DEF Index
<1> HIDE DEF n
<1>2. \A i \in 1 .. n : (from + i - 1) % Num \in Heads
  <2> TAKE i \in 1 .. n
  <2>1. from + i - 1 \in Nat
    BY <1>0, <1>1
  <2> QED
    BY <1>0, <2>1, ModRange DEF Heads
<1>3. \A i \in 1 .. n : ring[(from + i - 1) % Num] \in Heads
  BY <1>2
<1>4. Window(ring, from, n) \in Seq(Heads) /\ Len(Window(ring, from, n)) = n
  BY <1>1, <1>3 DEF Window
<1>5. Window(ring, from, n) = << >> <=> n = 0
  BY <1>1, <1>4
<1> QED
  BY <1>1, <1>4, <1>5 DEF Window, Queue, n, Slot

(* The end of a queue is as many slots after its start as it has entries. *)
LEMMA SlotOfEnd ==
  ASSUME NEW from \in Index, NEW to \in Index
  PROVE  (from + Cnt(to, from)) % Num = to % Num
<1> DEFINE n == Cnt(to, from)
<1>0. IdxMod \in Nat /\ from \in Nat /\ to \in Nat /\ n \in Nat
  BY IdxAssumption, IndexArithmetic DEF Index
<1>1. CASE to >= from
  <2>1. from + n = to
    BY <1>0, <1>1, IndexArithmetic
  <2> QED
    BY <2>1
<1>2. CASE to < from
  <2>1. from + n = to + IdxMod
    BY <1>0, <1>2, IndexArithmetic
  <2> QED
    BY <1>0, <2>1, ModShift
<1> QED
  BY <1>0, <1>1, <1>2

(* Writing the slot after the end and moving the end appends. *)
LEMMA QueueAppend ==
  ASSUME NEW ring \in [Heads -> Heads], NEW from \in Index, NEW to \in Index,
         NEW h \in Heads, Cnt(to, from) < Num
  PROVE  /\ Queue([ring EXCEPT ![to % Num] = h], from, Inc(to))
              = Append(Queue(ring, from, to), h)
         /\ Cnt(Inc(to), from) = Cnt(to, from) + 1
<1> DEFINE n == Cnt(to, from)
           r == [ring EXCEPT ![to % Num] = h]
           q == Queue(ring, from, to)
           Q == Queue(r, from, Inc(to))
<1>0. /\ Num \in Nat \ {0} /\ IdxMod \in Nat /\ IdxMod > Num
      /\ from \in Nat /\ to \in Nat /\ n \in Nat /\ n < Num
      /\ to % Num \in Heads /\ Inc(to) \in Index
  BY NumAssumption, IdxAssumption, IndexArithmetic DEF Index
<1>1. Cnt(Inc(to), from) = n + 1
  <2>1. /\ n = IF to >= from THEN to - from ELSE to + IdxMod - from
        /\ Inc(to) = IF to + 1 < IdxMod THEN to + 1 ELSE 0
        /\ Cnt(Inc(to), from) = IF Inc(to) >= from THEN Inc(to) - from
                                                  ELSE Inc(to) + IdxMod - from
    BY <1>0, IndexArithmetic
  <2> HIDE DEF n
  <2> QED
    BY <1>0, <2>1 DEF Index
<1>2. (from + n) % Num = to % Num
  BY SlotOfEnd
<1>3. /\ r \in [Heads -> Heads]
      /\ r[to % Num] = h
      /\ \A p \in Heads : p # to % Num => r[p] = ring[p]
  BY <1>0
<1>4. /\ q \in Seq(Heads) /\ Len(q) = n
      /\ \A i \in 1 .. n : q[i] = ring[Slot(from, i)]
  BY QueueShape
<1>5. /\ Q \in Seq(Heads) /\ Len(Q) = n + 1
      /\ \A i \in 1 .. n + 1 : Q[i] = r[Slot(from, i)]
  <2>1. r \in [Heads -> Heads] /\ Inc(to) \in Index
    BY <1>0, <1>3
  <2>2. PICK u \in [Heads -> Heads], t \in Index : u = r /\ t = Inc(to)
    BY <2>1
  <2>3. /\ Queue(u, from, t) \in Seq(Heads)
        /\ Len(Queue(u, from, t)) = Cnt(t, from)
        /\ \A i \in 1 .. Cnt(t, from) : Queue(u, from, t)[i] = u[Slot(from, i)]
    BY QueueShape
  <2> HIDE DEF r
  <2>4. Q = Queue(u, from, t) /\ Cnt(t, from) = n + 1
    BY <1>1, <2>2
  <2> QED
    BY <2>2, <2>3, <2>4
<1>6. Q[n + 1] = h
  <2>1. n + 1 \in 1 .. n + 1 /\ from + (n + 1) - 1 = from + n
    BY <1>0
  <2> QED
    BY <1>2, <1>3, <1>5, <2>1 DEF Slot
<1>7. \A i \in 1 .. n : Q[i] = q[i]
  <2> TAKE i \in 1 .. n
  <2>1. /\ i \in 1 .. n + 1
        /\ from + i - 1 \in Nat /\ from + n \in Nat
        /\ from + i - 1 < from + n /\ (from + n) - (from + i - 1) < Num
    BY <1>0
  <2>2. (from + i - 1) % Num # (from + n) % Num
    BY <1>0, <2>1, ModApart
  <2>3. (from + i - 1) % Num \in Heads
    BY <1>0, <2>1, ModRange DEF Heads
  <2> QED
    BY <1>2, <1>3, <1>4, <1>5, <2>1, <2>2, <2>3 DEF Slot
<1> HIDE DEF n, r, q, Q
<1>8. Q = Append(q, h)
  BY <1>0, <1>4, <1>5, <1>6, <1>7
<1> QED
  BY <1>1, <1>8 DEF n, r, q, Q

(* Writing the slot after the end alone leaves the queue as it is. *)
LEMMA QueueBeyond ==
  ASSUME NEW ring \in [Heads -> Heads], NEW from \in Index, NEW to \in Index,
         NEW h \in Heads, Cnt(to, from) < Num
  PROVE  Queue([ring EXCEPT ![to % Num] = h], from, to) = Queue(ring, from, to)
<1> DEFINE n == Cnt(to, from)
           r == [ring EXCEPT ![to % Num] = h]
<1>0. /\ Num \in Nat \ {0} /\ from \in Nat /\ to \in Nat /\ n \in Nat /\ n < Num
      /\ to % Num \in Heads
  BY NumAssumption, IdxAssumption, IndexArithmetic DEF Index
<1>1. (from + n) % Num = to % Num
  BY SlotOfEnd
<1>2. ASSUME NEW i \in 1 .. n
      PROVE  r[(from + i - 1) % Num] = ring[(from + i - 1) % Num]
  <2>1. /\ from + i - 1 \in Nat /\ from + n \in Nat
        /\ from + i - 1 < from + n /\ (from + n) - (from + i - 1) < Num
    BY <1>0
  <2>2. (from + i - 1) % Num # (from + n) % Num
    BY <1>0, <2>1, ModApart
  <2>3. (from + i - 1) % Num \in Heads
    BY <1>0, <2>1, ModRange DEF Heads
  <2> QED
    BY <1>1, <2>2, <2>3
<1> HIDE DEF n, r
<1>3. Window(r, from, n) = Window(ring, from, n)
  BY <1>2 DEF Window
<1> QED
  BY <1>3 DEF n, r, Queue

(* Moving the start takes the head off. *)
LEMMA QueueTail ==
  ASSUME NEW ring \in [Heads -> Heads], NEW from \in Index, NEW to \in Index,
         from # to
  PROVE  /\ Queue(ring, from, to) # << >>
         /\ Head(Queue(ring, from, to)) = ring[from % Num]
         /\ Queue(ring, Inc(from), to) = Tail(Queue(ring, from, to))
         /\ Cnt(to, Inc(from)) = Cnt(to, from) - 1
<1> DEFINE n == Cnt(to, from)
           q == Queue(ring, from, to)
           Q == Queue(ring, Inc(from), to)
<1>0. /\ Num \in Nat \ {0} /\ IdxMod \in Nat
      /\ from \in Nat /\ to \in Nat /\ n \in Nat \ {0} /\ Inc(from) \in Index
  <2>1. n = IF to >= from THEN to - from ELSE to + IdxMod - from
    BY IndexArithmetic
  <2>2. Inc(from) \in Index
    BY IndexArithmetic
  <2> HIDE DEF n
  <2> QED
    BY <2>1, <2>2, NumAssumption, IdxAssumption DEF Index
<1>1. Cnt(to, Inc(from)) = n - 1
  <2>1. /\ n = IF to >= from THEN to - from ELSE to + IdxMod - from
        /\ Inc(from) = IF from + 1 < IdxMod THEN from + 1 ELSE 0
        /\ Cnt(to, Inc(from)) = IF to >= Inc(from) THEN to - Inc(from)
                                                  ELSE to + IdxMod - Inc(from)
    BY <1>0, IndexArithmetic
  <2> HIDE DEF n
  <2> QED
    BY <1>0, <2>1 DEF Index
<1>2. /\ q \in Seq(Heads) /\ Len(q) = n /\ q # << >>
      /\ \A i \in 1 .. n : q[i] = ring[Slot(from, i)]
  BY QueueShape
<1>3. /\ Q \in Seq(Heads) /\ Len(Q) = n - 1
      /\ \A i \in 1 .. n - 1 : Q[i] = ring[Slot(Inc(from), i)]
  <2>0. Inc(from) \in Index
    BY <1>0
  <2>1. /\ Q \in Seq(Heads) /\ Len(Q) = Cnt(to, Inc(from))
        /\ \A i \in 1 .. Cnt(to, Inc(from)) :
             Q[i] = ring[Slot(Inc(from), i)]
    BY <2>0, QueueShape
  <2> QED
    BY <1>1, <2>1
<1>4. ASSUME NEW i \in 1 .. n - 1
      PROVE  (Inc(from) + i - 1) % Num = (from + (i + 1) - 1) % Num
  <2>1. CASE from + 1 < IdxMod
    <3>1. Inc(from) + i - 1 = from + (i + 1) - 1
      BY <1>0, <2>1, IndexArithmetic
    <3> QED
      BY <3>1
  <2>2. CASE from + 1 = IdxMod
    <3>1. i - 1 \in Nat /\ Inc(from) + i - 1 = i - 1
          /\ from + (i + 1) - 1 = (i - 1) + IdxMod
      BY <1>0, <2>2, IndexArithmetic
    <3> QED
      BY <3>1, ModShift
  <2> QED
    BY <1>0, <2>1, <2>2 DEF Index
<1>5. ASSUME NEW i \in 1 .. n - 1
      PROVE  Q[i] = q[i + 1]
  <2>1. i + 1 \in 1 .. n
    BY <1>0
  <2> QED
    BY <1>2, <1>3, <1>4, <2>1 DEF Slot
<1>6. Head(q) = ring[from % Num]
  <2>1. 1 \in 1 .. n /\ from + 1 - 1 = from
    BY <1>0
  <2> QED
    BY <1>2, <2>1 DEF Slot
<1> HIDE DEF n, q, Q
<1>7. Q = Tail(q)
  <2>1. /\ Tail(q) \in Seq(Heads) /\ Len(Tail(q)) = n - 1
        /\ \A i \in 1 .. n - 1 : Tail(q)[i] = q[i + 1]
    BY <1>0, <1>2
  <2>2. \A i \in 1 .. n - 1 : Q[i] = Tail(q)[i]
    BY <1>5, <2>1
  <2> QED
    BY <1>0, <1>3, <2>1, <2>2
<1> QED
  BY <1>1, <1>2, <1>6, <1>7 DEF n, q, Q

-----------------------------------------------------------------------------
(* The inductive invariant *)

(* Who holds a buffer, who holds slock. *)
Holding ==
  \A t \in Threads : /\ (slock = t) <=> (pc[t] \in {"empty", "recheck", "added"})
                     /\ (buf[t] # None) <=> (pc[t] \in {"have", "added"})

(* Between the two writes of vqueue_add_buf the element is in its slot,    *)
(* which the index does not yet cover.                                     *)
Written == \A t \in Threads : pc[t] = "added" => used_ring[used_idx % Num] = buf[t]

(* The ring is in memory as long as the queue has it, and a thread that is *)
(* not done, or a holder of slock that saw the ring, keeps the queue.      *)
Mapped == /\ vring_addr => mem
          /\ slock # None /\ saw => vring_addr
          /\ ~vring_addr => /\ stop /\ last_avail_idx = 0
                            /\ \A t \in Threads : pc[t] = "exit"

(* Notifications are off only while the event is signalled; while it is    *)
(* not, somebody will see that a buffer is there.                          *)
Woken == /\ no_notify => signalled
         /\ vring_addr /\ ~signalled /\ ~Empty =>
              \/ kick \/ slock = Kick \/ drv = "check"
              \/ \E u \in Threads : pc[u] \in {"empty", "recheck"}

(* Every head is in one place. *)
Owned(f, a, u, b) ==
  /\ \A i, j \in DOMAIN a : a[i] = a[j] => i = j
  /\ \A i, j \in DOMAIN u : u[i] = u[j] => i = j
  /\ \A s, t \in Threads : b[s] = b[t] /\ b[s] # None => s = t
  /\ \A i \in DOMAIN a : a[i] \notin f
  /\ \A i \in DOMAIN u : u[i] \notin f
  /\ \A t \in Threads : b[t] \notin f
  /\ \A i \in DOMAIN a, j \in DOMAIN u : a[i] # u[j]
  /\ \A i \in DOMAIN a, t \in Threads : a[i] # b[t]
  /\ \A i \in DOMAIN u, t \in Threads : u[i] # b[t]
  /\ \A h \in Heads : \/ h \in f
                      \/ \E i \in DOMAIN a : a[i] = h
                      \/ \E i \in DOMAIN u : u[i] = h
                      \/ \E t \in Threads : b[t] = h

(* What the abstract ring is made of, and the invariant over it. *)
AbsFree == IF vring_addr THEN free ELSE Heads
AbsAvail == IF vring_addr THEN AvailQueue ELSE << >>
AbsUsed == IF vring_addr THEN UsedQueue ELSE << >>
Ownership == Owned(AbsFree, AbsAvail, AbsUsed, buf)

IInv == TypeOK /\ Holding /\ Written /\ Mapped /\ Woken /\ Ownership

-----------------------------------------------------------------------------
(* Moving a head from one place to the next *)

(* A queue that misses a head does not fill the ring. *)
LEMMA RoomLeft ==
  ASSUME NEW q \in Seq(Heads), NEW h \in Heads,
         \A i, j \in DOMAIN q : q[i] = q[j] => i = j,
         \A i \in DOMAIN q : q[i] # h
  PROVE  Len(q) < Num
<1> DEFINE n == Len(q)  T == Heads \ {h}
<1>1. n \in Nat /\ DOMAIN q = 1 .. n /\ Num \in Nat \ {0}
  BY NumAssumption
<1>2. q \in [1 .. n -> T]
  BY <1>1
<1>3. IsFiniteSet(Heads) /\ Cardinality(Heads) = Num
  <2>1. 0 \in Int /\ Num - 1 \in Int /\ ~(0 > Num - 1) /\ (Num - 1) - 0 + 1 = Num
    BY <1>1
  <2> QED
    BY <2>1, FS_Interval DEF Heads
<1>4. IsFiniteSet(T) /\ Cardinality(T) = Num - 1
  BY <1>3, FS_RemoveElement
<1>5. IsFiniteSet(1 .. n) /\ Cardinality(1 .. n) = n
  <2>1. 1 \in Int /\ n \in Int /\ (1 > n => n = 0) /\ n - 1 + 1 = n
    BY <1>1
  <2> QED
    BY <2>1, FS_Interval
<1> HIDE DEF n, T
<1>6. ~(Cardinality(T) < Cardinality(1 .. n))
  BY <1>1, <1>2, <1>4, <1>5, FS_PigeonHole
<1> QED
  BY <1>1, <1>4, <1>5, <1>6 DEF n

(* The driver publishes a head. *)
LEMMA OwnedPublish ==
  ASSUME NEW f \in SUBSET Heads, NEW a \in Seq(Heads), NEW u \in Seq(Heads),
         NEW b \in [Threads -> Heads \cup {None}], NEW h \in f,
         Owned(f, a, u, b)
  PROVE  Owned(f \ {h}, Append(a, h), u, b)
<1> DEFINE n == Len(a)  A == Append(a, h)
<1>1. /\ n \in Nat /\ DOMAIN a = 1 .. n /\ DOMAIN A = 1 .. n + 1
      /\ A[n + 1] = h
      /\ \A i \in 1 .. n : A[i] = a[i]
  OBVIOUS
<1>2. \A i \in DOMAIN A : i = n + 1 \/ i \in 1 .. n
  BY <1>1
<1>3. \A i \in 1 .. n : i \in DOMAIN A
  BY <1>1
<1>4. n + 1 \in DOMAIN A
  BY <1>1
<1> HIDE DEF A, n
<1> USE DEF Owned
<1>5. \A i, j \in DOMAIN A : A[i] = A[j] => i = j
  BY <1>1, <1>2
<1>6. \A i \in DOMAIN A : A[i] \notin f \ {h}
  BY <1>1, <1>2
<1>7. \A i \in DOMAIN A, j \in DOMAIN u : A[i] # u[j]
  BY <1>1, <1>2
<1>8. \A i \in DOMAIN A, t \in Threads : A[i] # b[t]
  BY <1>1, <1>2
<1>9. ASSUME NEW x \in Heads
      PROVE  \/ x \in f \ {h}
             \/ \E i \in DOMAIN A : A[i] = x
             \/ \E i \in DOMAIN u : u[i] = x
             \/ \E t \in Threads : b[t] = x
  BY <1>1, <1>3, <1>4
<1> QED
  BY <1>5, <1>6, <1>7, <1>8, <1>9 DEF A

(* What the tail of a queue without repetitions holds. *)
LEMMA TailOf ==
  ASSUME NEW a \in Seq(Heads), a # << >>, \A i, j \in DOMAIN a : a[i] = a[j] => i = j
  PROVE  /\ Tail(a) \in Seq(Heads) /\ Head(a) \in Heads
         /\ \A i, j \in DOMAIN Tail(a) : Tail(a)[i] = Tail(a)[j] => i = j
         /\ \A i \in DOMAIN Tail(a) : Tail(a)[i] # Head(a)
         /\ \A i \in DOMAIN Tail(a) : \E j \in DOMAIN a : Tail(a)[i] = a[j]
         /\ \A j \in DOMAIN a : a[j] = Head(a) \/ \E i \in DOMAIN Tail(a) : Tail(a)[i] = a[j]
         /\ \E j \in DOMAIN a : a[j] = Head(a)
<1> DEFINE n == Len(a)  A == Tail(a)
<1>1. /\ n \in Nat \ {0} /\ DOMAIN a = 1 .. n /\ DOMAIN A = 1 .. n - 1
      /\ A \in Seq(Heads) /\ a[1] \in Heads /\ Head(a) = a[1]
      /\ \A i \in 1 .. n - 1 : A[i] = a[i + 1]
  OBVIOUS
<1>2. \A i \in 1 .. n - 1 : i + 1 \in 1 .. n
  BY <1>1
<1>3. \A j \in 1 .. n : j = 1 \/ (j - 1 \in 1 .. n - 1 /\ (j - 1) + 1 = j)
  BY <1>1
<1>4. 1 \in 1 .. n
  BY <1>1
<1> HIDE DEF n, A
<1>5. \A i, j \in DOMAIN A : A[i] = A[j] => i = j
  <2> SUFFICES ASSUME NEW i \in 1 .. n - 1, NEW j \in 1 .. n - 1, A[i] = A[j]
               PROVE  i = j
    BY <1>1
  <2>1. a[i + 1] = a[j + 1]
    BY <1>1
  <2>2. i + 1 = j + 1
    BY <1>1, <1>2, <2>1
  <2> QED
    BY <1>1, <2>2
<1>6. \A i \in DOMAIN A : A[i] # Head(a)
  <2> SUFFICES ASSUME NEW i \in 1 .. n - 1, A[i] = Head(a)
               PROVE  FALSE
    BY <1>1
  <2>1. i + 1 = 1
    BY <1>1, <1>2, <1>4
  <2> QED
    BY <1>1, <2>1
<1>7. \A i \in DOMAIN A : \E j \in DOMAIN a : A[i] = a[j]
  BY <1>1, <1>2
<1>8. \A j \in DOMAIN a : a[j] = Head(a) \/ \E i \in DOMAIN A : A[i] = a[j]
  <2> SUFFICES ASSUME NEW j \in 1 .. n, j # 1
               PROVE  \E i \in 1 .. n - 1 : A[i] = a[j]
    BY <1>1
  <2> DEFINE k == j - 1
  <2>1. k \in 1 .. n - 1 /\ k + 1 = j
    BY <1>3
  <2> HIDE DEF k
  <2>2. A[k] = a[j]
    BY <1>1, <2>1
  <2> QED
    BY <2>1, <2>2
<1>9. \E j \in DOMAIN a : a[j] = Head(a)
  BY <1>1, <1>4
<1> QED
  BY <1>1, <1>5, <1>6, <1>7, <1>8, <1>9 DEF A

(* A thread takes the head of the available queue. *)
LEMMA OwnedTake ==
  ASSUME NEW f \in SUBSET Heads, NEW a \in Seq(Heads), NEW u \in Seq(Heads),
         NEW b \in [Threads -> Heads \cup {None}], NEW t \in Threads,
         a # << >>, b[t] = None,
         Owned(f, a, u, b)
  PROVE  Owned(f, Tail(a), u, [b EXCEPT ![t] = Head(a)])
<1> DEFINE B == [b EXCEPT ![t] = Head(a)]  x == Head(a)  A == Tail(a)
<1>1. /\ B[t] = x
      /\ \A s \in Threads : s # t => B[s] = b[s]
  OBVIOUS
<1>0. \A i, j \in DOMAIN a : a[i] = a[j] => i = j
  BY DEF Owned
<1>2. /\ x \in Heads
      /\ \A i, j \in DOMAIN A : A[i] = A[j] => i = j
      /\ \A i \in DOMAIN A : A[i] # x
      /\ \A i \in DOMAIN A : \E j \in DOMAIN a : A[i] = a[j]
      /\ \A j \in DOMAIN a : a[j] = x \/ \E i \in DOMAIN A : A[i] = a[j]
      /\ \E j \in DOMAIN a : a[j] = x
  BY <1>0, TailOf
<1> HIDE DEF A, B, x
<1> USE DEF Owned
<1>3. x \notin f /\ \A s \in Threads : b[s] # x
  BY <1>2
<1>4. \A j \in DOMAIN u : u[j] # x
  BY <1>2
<1>5. \A r, s \in Threads : B[r] = B[s] /\ B[r] # None => r = s
  BY <1>1, <1>3
<1>6. \A i \in DOMAIN A : A[i] \notin f
  BY <1>2
<1>7. \A s \in Threads : B[s] \notin f
  BY <1>1, <1>3
<1>8. \A i \in DOMAIN A, j \in DOMAIN u : A[i] # u[j]
  BY <1>2
<1>9. \A i \in DOMAIN A, s \in Threads : A[i] # B[s]
  BY <1>1, <1>2
<1>10. \A i \in DOMAIN u, s \in Threads : u[i] # B[s]
  BY <1>1, <1>4
<1>11. ASSUME NEW h \in Heads
       PROVE  \/ h \in f
              \/ \E i \in DOMAIN A : A[i] = h
              \/ \E i \in DOMAIN u : u[i] = h
              \/ \E s \in Threads : B[s] = h
  <2>1. CASE \E s \in Threads : b[s] = h
    BY <1>1, <2>1, NoneAssumption
  <2>2. CASE \E i \in DOMAIN a : a[i] = h
    BY <1>1, <1>2, <2>2
  <2> QED
    BY <2>1, <2>2
<1> QED
  BY <1>2, <1>5, <1>6, <1>7, <1>8, <1>9, <1>10, <1>11 DEF A, B, x

(* A thread returns its buffer. *)
LEMMA OwnedReturn ==
  ASSUME NEW f \in SUBSET Heads, NEW a \in Seq(Heads), NEW u \in Seq(Heads),
         NEW b \in [Threads -> Heads \cup {None}], NEW t \in Threads,
         b[t] # None,
         Owned(f, a, u, b)
  PROVE  Owned(f, a, Append(u, b[t]), [b EXCEPT ![t] = None])
<1> DEFINE n == Len(u)  U == Append(u, b[t])  B == [b EXCEPT ![t] = None]
<1>0. b[t] \in Heads
  OBVIOUS
<1>1. /\ n \in Nat /\ DOMAIN u = 1 .. n /\ DOMAIN U = 1 .. n + 1
      /\ U[n + 1] = b[t]
      /\ \A i \in 1 .. n : U[i] = u[i]
  BY <1>0
<1>2. \A i \in DOMAIN U : i = n + 1 \/ i \in 1 .. n
  BY <1>1
<1>3. \A i \in 1 .. n : i \in DOMAIN U
  BY <1>1
<1>4. n + 1 \in DOMAIN U
  BY <1>1
<1>5. /\ B[t] = None
      /\ \A s \in Threads : s # t => B[s] = b[s]
  OBVIOUS
<1>6. /\ None \notin f
      /\ \A i \in DOMAIN a : a[i] \in Heads
      /\ \A i \in DOMAIN u : u[i] \in Heads
      /\ None \notin Heads
  BY NoneAssumption
<1>16. \A i \in DOMAIN U : U[i] # None
  BY <1>0, <1>1, <1>2, <1>6
<1> HIDE DEF U, n, B
<1> USE DEF Owned
<1>7. \A i, j \in DOMAIN U : U[i] = U[j] => i = j
  BY <1>1, <1>2
<1>8. \A r, s \in Threads : B[r] = B[s] /\ B[r] # None => r = s
  BY <1>5
<1>9. \A i \in DOMAIN U : U[i] \notin f
  BY <1>1, <1>2
<1>10. \A s \in Threads : B[s] \notin f
  BY <1>5, <1>6
<1>11. \A i \in DOMAIN a, j \in DOMAIN U : a[i] # U[j]
  BY <1>1, <1>2
<1>12. \A i \in DOMAIN a, s \in Threads : a[i] # B[s]
  BY <1>5, <1>6
<1>13. \A i \in DOMAIN U, s \in Threads : U[i] # B[s]
  BY <1>1, <1>2, <1>5, <1>6, <1>16
<1>14. ASSUME NEW h \in Heads
       PROVE  \/ h \in f
              \/ \E i \in DOMAIN a : a[i] = h
              \/ \E i \in DOMAIN U : U[i] = h
              \/ \E s \in Threads : B[s] = h
  BY <1>1, <1>3, <1>4, <1>5
<1> QED
  BY <1>7, <1>8, <1>9, <1>10, <1>11, <1>12, <1>13, <1>14 DEF U, B

(* The driver collects a used buffer. *)
LEMMA OwnedCollect ==
  ASSUME NEW f \in SUBSET Heads, NEW a \in Seq(Heads), NEW u \in Seq(Heads),
         NEW b \in [Threads -> Heads \cup {None}],
         u # << >>,
         Owned(f, a, u, b)
  PROVE  Owned(f \cup {Head(u)}, a, Tail(u), b)
<1> DEFINE x == Head(u)  U == Tail(u)
<1>0. \A i, j \in DOMAIN u : u[i] = u[j] => i = j
  BY DEF Owned
<1>2. /\ x \in Heads
      /\ \A i, j \in DOMAIN U : U[i] = U[j] => i = j
      /\ \A i \in DOMAIN U : U[i] # x
      /\ \A i \in DOMAIN U : \E j \in DOMAIN u : U[i] = u[j]
      /\ \A j \in DOMAIN u : u[j] = x \/ \E i \in DOMAIN U : U[i] = u[j]
      /\ \E j \in DOMAIN u : u[j] = x
  BY <1>0, TailOf
<1> HIDE DEF U, x
<1> USE DEF Owned
<1>3. \A s \in Threads : b[s] # x
  BY <1>2
<1>4. \A j \in DOMAIN a : a[j] # x
  BY <1>2
<1>5. \A i \in DOMAIN U : U[i] \notin f \cup {x}
  BY <1>2
<1>6. \A i \in DOMAIN a, j \in DOMAIN U : a[i] # U[j]
  BY <1>2
<1>7. \A i \in DOMAIN U, t \in Threads : U[i] # b[t]
  BY <1>2
<1>8. ASSUME NEW h \in Heads
      PROVE  \/ h \in f \cup {x}
             \/ \E i \in DOMAIN a : a[i] = h
             \/ \E i \in DOMAIN U : U[i] = h
             \/ \E s \in Threads : b[s] = h
  BY <1>2
<1> QED
  BY <1>2, <1>3, <1>4, <1>5, <1>6, <1>7, <1>8 DEF U, x

-----------------------------------------------------------------------------
(* Every step preserves the invariant *)

(* The indices, the next ones, and the slots they select are in range. *)
LEMMA IndexTypes ==
  ASSUME TypeOK
  PROVE  /\ avail_idx \in Index /\ used_idx \in Index
         /\ last_avail_idx \in Index /\ d_used \in Index
         /\ Inc(avail_idx) \in Index /\ Inc(used_idx) \in Index
         /\ Inc(last_avail_idx) \in Index /\ Inc(d_used) \in Index
         /\ avail_idx % Num \in Heads /\ used_idx % Num \in Heads
         /\ last_avail_idx % Num \in Heads /\ d_used % Num \in Heads
<1>1. /\ avail_idx \in Index /\ used_idx \in Index
      /\ last_avail_idx \in Index /\ d_used \in Index
  BY DEF TypeOK, Index
<1> QED
  BY <1>1, IndexArithmetic

(* Types.  A thread that returns a buffer has one. *)
LEMMA StepType == TypeOK /\ Holding /\ [Next]_vars => TypeOK'
<1> SUFFICES ASSUME TypeOK, Holding, [Next]_vars PROVE TypeOK'
  OBVIOUS
<1>0. /\ avail_idx \in Index /\ used_idx \in Index
      /\ last_avail_idx \in Index /\ d_used \in Index
      /\ Inc(avail_idx) \in Index /\ Inc(used_idx) \in Index
      /\ Inc(last_avail_idx) \in Index /\ Inc(d_used) \in Index
      /\ avail_idx % Num \in Heads /\ used_idx % Num \in Heads
      /\ last_avail_idx % Num \in Heads /\ d_used % Num \in Heads
      /\ 0 \in Index
  BY IndexTypes, IdxAssumption, NumAssumption DEF Index
<1>01. /\ avail_ring[last_avail_idx % Num] \in Heads
       /\ used_ring[d_used % Num] \in Heads
  BY <1>0 DEF TypeOK
<1> USE DEF TypeOK, Index
<1>1. ASSUME NEW h \in Heads, Publish(h) PROVE TypeOK'
  BY <1>0, <1>1 DEF Publish, thread_vars
<1>2. CASE Notify
  BY <1>2 DEF Notify, ring_vars, thread_vars
<1>3. CASE Collect
  BY <1>0, <1>01, <1>3 DEF Collect, ring_vars, thread_vars
<1>4. CASE KickLock
  BY <1>4 DEF KickLock, ring_vars, thread_vars
<1>5. CASE vqueue_signal_avail
  BY <1>5 DEF vqueue_signal_avail, driver_vars, thread_vars
<1>6. ASSUME NEW t \in Threads, ThreadStep(t) PROVE TypeOK'
  <2>1. CASE Top(t)
    BY <2>1 DEF Top, Goto, ring_vars, driver_vars
  <2>2. CASE Wake(t)
    BY <2>2 DEF Wake, Goto, ring_vars, driver_vars
  <2>3. CASE GetBuf(t)
    BY <1>0, <1>01, <2>3 DEF GetBuf, Take, Goto, ring_vars, driver_vars
  <2>4. CASE GetEmpty(t)
    BY <2>4 DEF GetEmpty, Goto, ring_vars, driver_vars
  <2>5. CASE Unsuppress(t)
    BY <2>5 DEF Unsuppress, Goto, ring_vars, driver_vars
  <2>6. CASE Recheck(t)
    BY <1>0, <1>01, <2>6 DEF Recheck, Take, NoneLeft, Goto, driver_vars
  <2>7. CASE vqueue_add_buf(t)
    <3>1. buf[t] \in Heads
      BY <2>7 DEF vqueue_add_buf, Holding
    <3> QED
      BY <1>0, <2>7, <3>1 DEF vqueue_add_buf, AddWrite, Goto, driver_vars
  <2>8. CASE AddIndex(t)
    <3>1. used_idx' = Inc(used_idx) /\ used_ring' = used_ring
      BY <2>8 DEF AddIndex, AddWrite
    <3>2. /\ pc' = [pc EXCEPT ![t] = "idle"] /\ buf' = [buf EXCEPT ![t] = None]
          /\ slock' = None /\ saw' = FALSE
      BY <2>8 DEF AddIndex, Goto
    <3> QED
      BY <1>0, <2>8, <3>1, <3>2 DEF AddIndex, driver_vars
  <2> QED
    BY <1>6, <2>1, <2>2, <2>3, <2>4, <2>5, <2>6, <2>7, <2>8 DEF ThreadStep
<1>7. CASE RxEnds
  BY <1>7 DEF RxEnds, Goto, ring_vars, driver_vars
<1>8. CASE ResetStop
  BY <1>8 DEF ResetStop, driver_vars, thread_vars
<1>9. CASE vqueue_destroy
  BY <1>0, <1>9 DEF vqueue_destroy, ring_vars, driver_vars, thread_vars
<1>10. CASE vmm_free_region
  BY <1>10 DEF vmm_free_region, ring_vars, driver_vars, thread_vars
<1>11. CASE vqueue_init
  BY <1>0, <1>11 DEF vqueue_init, Fresh
<1>12. CASE UNCHANGED vars
  BY <1>12 DEF vars, ring_vars, driver_vars, thread_vars
<1> QED
  BY <1>1, <1>2, <1>3, <1>4, <1>5, <1>6, <1>7, <1>8, <1>9, <1>10, <1>11, <1>12
  DEF Next

(* The lock half.  A thread's step needs a ring, since all threads have    *)
(* ended before it goes.                                                   *)
LEMMA StepLocks ==
  TypeOK /\ Holding /\ Mapped /\ Woken /\ [Next]_vars => Holding' /\ Mapped' /\ Woken'
<1> SUFFICES ASSUME TypeOK, Holding, Mapped, Woken, [Next]_vars
             PROVE  Holding' /\ Mapped' /\ Woken'
  OBVIOUS
<1>0. None \notin Threads /\ None \notin Heads /\ None # Kick /\ Kick \notin Threads
  BY NoneAssumption, KickAssumption
<1> USE DEF Holding, Mapped, Woken, Empty
<1>1. ASSUME NEW h \in Heads, Publish(h) PROVE Holding' /\ Mapped' /\ Woken'
  BY <1>1 DEF Publish, thread_vars
<1>2. CASE Notify
  BY <1>2 DEF Notify, ring_vars, thread_vars
<1>3. CASE Collect
  BY <1>3 DEF Collect, ring_vars, thread_vars
<1>4. CASE KickLock
  BY <1>0, <1>4 DEF KickLock, ring_vars, thread_vars
<1>5. CASE vqueue_signal_avail
  BY <1>0, <1>5 DEF vqueue_signal_avail, driver_vars, thread_vars
<1>6. ASSUME NEW t \in Threads, ThreadStep(t) PROVE Holding' /\ Mapped' /\ Woken'
  <2>0. /\ pc \in [Threads -> {"idle", "wait", "get", "empty", "recheck", "have",
                             "added", "exit"}]
        /\ buf \in [Threads -> Heads \cup {None}]
    BY DEF TypeOK
  <2>01. pc[t] # "exit"
    BY <1>6 DEF ThreadStep, Top, Wake, GetBuf, GetEmpty, Unsuppress, Recheck, vqueue_add_buf,
                AddIndex
  <2>02. vring_addr
    BY <2>01
  <2>1. CASE Top(t)
    BY <2>0, <2>02, <2>1 DEF Top, Goto, ring_vars, driver_vars
  <2>2. CASE Wake(t)
    BY <2>0, <2>02, <2>2 DEF Wake, Goto, ring_vars, driver_vars
  <2>3. CASE GetBuf(t)
    BY <1>0, <2>0, <2>02, <2>3, IndexTypes DEF GetBuf, Take, Goto, ring_vars, driver_vars, TypeOK
  <2>4. CASE GetEmpty(t)
    BY <1>0, <2>0, <2>02, <2>4 DEF GetEmpty, Goto, ring_vars, driver_vars
  <2>5. CASE Unsuppress(t)
    BY <1>0, <2>0, <2>02, <2>5 DEF Unsuppress, Goto, ring_vars, driver_vars
  <2>6. CASE Recheck(t)
    BY <1>0, <2>0, <2>02, <2>6, IndexTypes DEF Recheck, Take, NoneLeft, Goto, driver_vars, TypeOK
  <2>7. CASE vqueue_add_buf(t)
    BY <1>0, <2>0, <2>02, <2>7 DEF vqueue_add_buf, Goto, driver_vars
  <2>8. CASE AddIndex(t)
    BY <1>0, <2>0, <2>02, <2>8 DEF AddIndex, Goto, driver_vars
  <2> QED
    BY <1>6, <2>1, <2>2, <2>3, <2>4, <2>5, <2>6, <2>7, <2>8 DEF ThreadStep
<1>7. CASE RxEnds
  BY <1>0, <1>7, ThreadAssumption DEF RxEnds, Goto, ring_vars, driver_vars, TypeOK
<1>8. CASE ResetStop
  BY <1>8 DEF ResetStop, CanStop, driver_vars, thread_vars
<1>9. CASE vqueue_destroy
  BY <1>9 DEF vqueue_destroy, Joined, ring_vars, driver_vars, thread_vars
<1>10. CASE vmm_free_region
  BY <1>10 DEF vmm_free_region, ring_vars, driver_vars, thread_vars
<1>11. CASE vqueue_init
  BY <1>0, <1>11 DEF vqueue_init, Fresh
<1>12. CASE UNCHANGED vars
  BY <1>12 DEF vars, ring_vars, driver_vars, thread_vars
<1> QED
  BY <1>1, <1>2, <1>3, <1>4, <1>5, <1>6, <1>7, <1>8, <1>9, <1>10, <1>11, <1>12
  DEF Next

(* A thread between its two writes has slock, so nobody else returns a     *)
(* buffer; a new ring finds no thread there.                               *)
LEMMA StepWritten ==
  TypeOK /\ Holding /\ Mapped /\ Written /\ [Next]_vars => Written'
<1> SUFFICES ASSUME TypeOK, Holding, Mapped, Written, [Next]_vars,
                    NEW s \in Threads, pc'[s] = "added"
             PROVE  used_ring'[used_idx' % Num] = buf'[s]
  BY DEF Written
<1>0. /\ pc \in [Threads -> {"idle", "wait", "get", "empty", "recheck", "have",
                             "added", "exit"}]
      /\ buf \in [Threads -> Heads \cup {None}]
      /\ used_ring \in [Heads -> Heads] /\ used_idx % Num \in Heads
      /\ None \notin Threads
  BY IndexTypes, NoneAssumption DEF TypeOK
<1>1. ASSUME UNCHANGED <<used_ring, used_idx, pc, buf>>
      PROVE  used_ring'[used_idx' % Num] = buf'[s]
  BY <1>1 DEF Written
<1>2. CASE \/ \E h \in Heads : Publish(h)
           \/ Notify \/ Collect \/ KickLock \/ vqueue_signal_avail \/ ResetStop
           \/ vqueue_destroy \/ vmm_free_region \/ UNCHANGED vars
  BY <1>1, <1>2 DEF Publish, Notify, Collect, KickLock, vqueue_signal_avail, ResetStop,
       vqueue_destroy, vmm_free_region, vars, ring_vars, driver_vars, thread_vars
<1>3. ASSUME NEW t \in Threads, ThreadStep(t)
      PROVE  used_ring'[used_idx' % Num] = buf'[s]
  <2>1. CASE Top(t) \/ Wake(t) \/ GetEmpty(t) \/ Unsuppress(t)
    BY <1>0, <2>1 DEF Top, Wake, GetEmpty, Unsuppress, Goto, ring_vars, Written
  <2>2. CASE GetBuf(t) \/ Recheck(t)
    BY <1>0, <2>2 DEF GetBuf, Recheck, Take, NoneLeft, Goto, ring_vars, Written
  <2>3. CASE vqueue_add_buf(t)
    <3>1. s = t
      BY <1>0, <2>3 DEF vqueue_add_buf, Goto, Holding
    <3> QED
      BY <1>0, <2>3, <3>1 DEF vqueue_add_buf, AddWrite
  <2>4. CASE AddIndex(t)
    BY <1>0, <2>4 DEF AddIndex, Goto, Holding
  <2> QED
    BY <1>3, <2>1, <2>2, <2>3, <2>4 DEF ThreadStep
<1>4. CASE RxEnds
  BY <1>0, <1>4 DEF RxEnds, Goto, ring_vars, Written
<1>5. CASE vqueue_init
  BY <1>5 DEF vqueue_init, Fresh
<1> QED
  BY <1>2, <1>3, <1>4, <1>5 DEF Next

-----------------------------------------------------------------------------
(* The steps of the abstract ring *)

(* The two queues are windows between two indices. *)
LEMMA QueueTypes ==
  ASSUME TypeOK
  PROVE  /\ AvailQueue = Queue(avail_ring, last_avail_idx, avail_idx)
         /\ UsedQueue = Queue(used_ring, d_used, used_idx)
         /\ AvailQueue \in Seq(Heads) /\ UsedQueue \in Seq(Heads)
         /\ Len(AvailQueue) = Cnt(avail_idx, last_avail_idx)
         /\ Len(UsedQueue) = Cnt(used_idx, d_used)
<1>1. /\ AvailQueue = Queue(avail_ring, last_avail_idx, avail_idx)
      /\ UsedQueue = Queue(used_ring, d_used, used_idx)
  BY DEF AvailQueue, UsedQueue, avail_cnt, Queue, Cnt
<1> QED
  BY <1>1, IndexTypes, QueueShape DEF TypeOK

(* Publish appends: the head was free, so the ring has room. *)
LEMMA PublishQueue ==
  ASSUME IInv, vring_addr, NEW h \in Heads, Publish(h)
  PROVE  /\ AvailQueue' = Append(AvailQueue, h)
         /\ UsedQueue' = UsedQueue
<1>1. /\ h \in free
      /\ avail_ring' = [avail_ring EXCEPT ![avail_idx % Num] = h]
      /\ avail_idx' = Inc(avail_idx)
      /\ last_avail_idx' = last_avail_idx
      /\ UNCHANGED <<used_idx, used_ring, d_used>>
  BY DEF Publish
<1>2. UsedQueue' = UsedQueue
  BY <1>1 DEF UsedQueue
<1>3. Cnt(avail_idx, last_avail_idx) < Num
  <2>1. /\ \A i, j \in DOMAIN AvailQueue : AvailQueue[i] = AvailQueue[j] => i = j
        /\ \A i \in DOMAIN AvailQueue : AvailQueue[i] # h
    BY <1>1 DEF IInv, Ownership, Owned, AbsFree, AbsAvail, AbsUsed
  <2> QED
    BY <2>1, QueueTypes, RoomLeft DEF IInv
<1>4. AvailQueue' = Queue(avail_ring', last_avail_idx', avail_idx')
  BY DEF AvailQueue, avail_cnt, Queue, Cnt
<1>5. /\ avail_ring \in [Heads -> Heads]
      /\ last_avail_idx \in Index /\ avail_idx \in Index
  BY IndexTypes DEF IInv, TypeOK
<1>6. Queue([avail_ring EXCEPT ![avail_idx % Num] = h], last_avail_idx, Inc(avail_idx))
        = Append(Queue(avail_ring, last_avail_idx, avail_idx), h)
  BY <1>3, <1>5, QueueAppend
<1> QED
  BY <1>1, <1>2, <1>4, <1>6, QueueTypes DEF IInv

(* Both ways to take a buffer take the head. *)
LEMMA TakeQueue ==
  ASSUME IInv, NEW t \in Threads, Take(t), ~Empty,
         UNCHANGED <<avail_idx, avail_ring, used_idx, used_ring, d_used>>
  PROVE  /\ AvailQueue # << >>
         /\ AvailQueue' = Tail(AvailQueue)
         /\ buf' = [buf EXCEPT ![t] = Head(AvailQueue)]
         /\ UsedQueue' = UsedQueue
<1>1. /\ buf' = [buf EXCEPT ![t] = avail_ring[last_avail_idx % Num]]
      /\ last_avail_idx' = Inc(last_avail_idx)
  BY DEF Take
<1>2. UsedQueue' = UsedQueue
  BY DEF UsedQueue
<1>3. AvailQueue' = Queue(avail_ring, Inc(last_avail_idx), avail_idx)
  BY <1>1 DEF AvailQueue, avail_cnt, Queue, Cnt
<1>4. /\ avail_ring \in [Heads -> Heads]
      /\ last_avail_idx \in Index /\ avail_idx \in Index
      /\ last_avail_idx # avail_idx
  BY IndexTypes DEF IInv, TypeOK, Empty
<1>5. /\ Queue(avail_ring, last_avail_idx, avail_idx) # << >>
      /\ Head(Queue(avail_ring, last_avail_idx, avail_idx)) = avail_ring[last_avail_idx % Num]
      /\ Queue(avail_ring, Inc(last_avail_idx), avail_idx)
           = Tail(Queue(avail_ring, last_avail_idx, avail_idx))
  BY <1>4, QueueTail
<1>6. AvailQueue = Queue(avail_ring, last_avail_idx, avail_idx)
  BY QueueTypes DEF IInv
<1> QED
  BY <1>1, <1>2, <1>3, <1>5, <1>6

(* A thread that holds a buffer has a ring, and its used queue has room. *)
LEMMA ReturnRoom ==
  ASSUME IInv, NEW t \in Threads, pc[t] \in {"have", "added"}
  PROVE  /\ vring_addr /\ buf[t] # None /\ buf[t] \in Heads
         /\ Cnt(used_idx, d_used) < Num
<1>1. vring_addr /\ buf[t] # None /\ buf[t] \in Heads
  BY DEF IInv, Mapped, Holding, TypeOK
<1>2. /\ \A i, j \in DOMAIN UsedQueue : UsedQueue[i] = UsedQueue[j] => i = j
      /\ \A i \in DOMAIN UsedQueue : UsedQueue[i] # buf[t]
  BY <1>1 DEF IInv, Ownership, Owned, AbsFree, AbsAvail, AbsUsed
<1> QED
  BY <1>1, <1>2, QueueTypes, RoomLeft DEF IInv

(* The first write of vqueue_add_buf is not seen by the driver ... *)
LEMMA WriteQueue ==
  ASSUME IInv, NEW t \in Threads, vqueue_add_buf(t)
  PROVE  UsedQueue' = UsedQueue /\ AvailQueue' = AvailQueue
<1>1. /\ pc[t] = "have"
      /\ used_ring' = [used_ring EXCEPT ![used_idx % Num] = buf[t]]
      /\ UNCHANGED <<used_idx, d_used, avail_idx, avail_ring, last_avail_idx>>
  BY DEF vqueue_add_buf, AddWrite, driver_vars
<1>2. AvailQueue' = AvailQueue
  BY <1>1 DEF AvailQueue, avail_cnt
<1>3. buf[t] \in Heads /\ Cnt(used_idx, d_used) < Num
  BY <1>1, ReturnRoom
<1>4. UsedQueue' = Queue(used_ring', d_used, used_idx)
  BY <1>1 DEF UsedQueue, Queue, Cnt
<1>5. /\ used_ring \in [Heads -> Heads]
      /\ d_used \in Index /\ used_idx \in Index
  BY IndexTypes DEF IInv, TypeOK
<1>6. Queue([used_ring EXCEPT ![used_idx % Num] = buf[t]], d_used, used_idx)
        = Queue(used_ring, d_used, used_idx)
  BY <1>3, <1>5, QueueBeyond
<1> QED
  BY <1>1, <1>2, <1>4, <1>6, QueueTypes DEF IInv

(* ... the second one appends the element that is already there. *)
LEMMA ReturnQueue ==
  ASSUME IInv, NEW t \in Threads, AddIndex(t)
  PROVE  /\ vring_addr /\ buf[t] # None
         /\ UsedQueue' = Append(UsedQueue, buf[t])
         /\ buf' = [buf EXCEPT ![t] = None]
         /\ AvailQueue' = AvailQueue
<1>1. /\ pc[t] = "added"
      /\ used_idx' = Inc(used_idx)
      /\ buf' = [buf EXCEPT ![t] = None]
      /\ UNCHANGED <<used_ring, d_used, avail_idx, avail_ring, last_avail_idx>>
  BY DEF AddIndex, AddWrite, driver_vars
<1>2. AvailQueue' = AvailQueue
  BY <1>1 DEF AvailQueue, avail_cnt
<1>3. vring_addr /\ buf[t] # None /\ buf[t] \in Heads /\ Cnt(used_idx, d_used) < Num
  BY <1>1, ReturnRoom
<1>5. UsedQueue' = Queue(used_ring, d_used, Inc(used_idx))
  BY <1>1 DEF UsedQueue, Queue, Cnt
<1>6. /\ used_ring \in [Heads -> Heads]
      /\ d_used \in Index /\ used_idx \in Index /\ used_idx % Num \in Heads
  BY IndexTypes DEF IInv, TypeOK
<1>7. Queue([used_ring EXCEPT ![used_idx % Num] = buf[t]], d_used, Inc(used_idx))
        = Append(Queue(used_ring, d_used, used_idx), buf[t])
  BY <1>3, <1>6, QueueAppend
<1>8. [used_ring EXCEPT ![used_idx % Num] = buf[t]] = used_ring
  BY <1>1, <1>6 DEF IInv, Written
<1> QED
  BY <1>1, <1>2, <1>3, <1>5, <1>7, <1>8, QueueTypes DEF IInv

(* The driver collects the oldest used buffer. *)
LEMMA CollectQueue ==
  ASSUME IInv, Collect
  PROVE  /\ UsedQueue # << >>
         /\ UsedQueue' = Tail(UsedQueue)
         /\ free' = free \cup {Head(UsedQueue)}
         /\ AvailQueue' = AvailQueue
<1>1. /\ d_used # used_idx
      /\ free' = free \cup {used_ring[d_used % Num]}
      /\ d_used' = Inc(d_used)
      /\ UNCHANGED <<avail_idx, avail_ring, last_avail_idx, used_idx, used_ring>>
  BY DEF Collect, ring_vars
<1>2. AvailQueue' = AvailQueue
  BY <1>1 DEF AvailQueue, avail_cnt
<1>3. UsedQueue' = Queue(used_ring, Inc(d_used), used_idx)
  BY <1>1 DEF UsedQueue, Queue, Cnt
<1>4. /\ used_ring \in [Heads -> Heads]
      /\ d_used \in Index /\ used_idx \in Index
  BY IndexTypes DEF IInv, TypeOK
<1>5. /\ Queue(used_ring, d_used, used_idx) # << >>
      /\ Head(Queue(used_ring, d_used, used_idx)) = used_ring[d_used % Num]
      /\ Queue(used_ring, Inc(d_used), used_idx)
           = Tail(Queue(used_ring, d_used, used_idx))
  BY <1>1, <1>4, QueueTail
<1>6. UsedQueue = Queue(used_ring, d_used, used_idx)
  BY QueueTypes DEF IInv
<1> QED
  BY <1>1, <1>2, <1>3, <1>5, <1>6

(* A new ring has nothing in its queues. *)
LEMMA NewQueue ==
  ASSUME NEW ring \in [Heads -> Heads]
  PROVE  Queue(ring, 0, 0) = << >>
<1>1. 0 \in Index
  BY IdxAssumption, NumAssumption DEF Index
<1> QED
  BY <1>1, QueueShape

(* Each step is one of the abstract ring or leaves it as it is. *)
LEMMA StepRefines == IInv /\ [Next]_vars => [Ring!Next]_(Ring!vars)
<1> SUFFICES ASSUME IInv, [Next]_vars
             PROVE  Ring!Next \/ UNCHANGED <<AbsFree, AbsAvail, buf, AbsUsed>>
  BY DEF Ring!vars, AbsFree, AbsAvail, AbsUsed
<1> USE DEF AbsFree, AbsAvail, AbsUsed
<1>1. ASSUME NEW h \in Heads, Publish(h)
      PROVE  Ring!Next \/ UNCHANGED <<AbsFree, AbsAvail, buf, AbsUsed>>
  <2>1. CASE vring_addr
    <3>1. /\ AvailQueue' = Append(AvailQueue, h) /\ UsedQueue' = UsedQueue
      BY <1>1, <2>1, PublishQueue
    <3>2. /\ h \in free /\ free' = free \ {h} /\ buf' = buf /\ vring_addr' = vring_addr
      BY <1>1 DEF Publish, thread_vars
    <3>3. Ring!Publish(h)
      BY <2>1, <3>1, <3>2 DEF Ring!Publish
    <3> QED
      BY <3>3 DEF Ring!Next
  <2>2. CASE ~vring_addr
    BY <1>1, <2>2 DEF Publish, thread_vars
  <2> QED
    BY <2>1, <2>2
<1>2. ASSUME NEW t \in Threads, Take(t), ~Empty, vring_addr, buf[t] = None,
             UNCHANGED <<avail_idx, avail_ring, used_idx, used_ring, d_used>>,
             UNCHANGED <<free, vring_addr>>
      PROVE  Ring!Next
  <2>1. /\ AvailQueue # << >>
        /\ AvailQueue' = Tail(AvailQueue)
        /\ buf' = [buf EXCEPT ![t] = Head(AvailQueue)]
        /\ UsedQueue' = UsedQueue
    BY <1>2, TakeQueue
  <2>2. Ring!Take(t)
    BY <1>2, <2>1 DEF Ring!Take
  <2> QED
    BY <2>2 DEF Ring!Next
<1>3. CASE Collect
  <2>1. CASE vring_addr
    <3>1. /\ UsedQueue # << >> /\ UsedQueue' = Tail(UsedQueue)
          /\ free' = free \cup {Head(UsedQueue)} /\ AvailQueue' = AvailQueue
      BY <1>3, CollectQueue
    <3>2. buf' = buf /\ vring_addr' = vring_addr
      BY <1>3 DEF Collect, thread_vars
    <3>3. Ring!Collect
      BY <2>1, <3>1, <3>2 DEF Ring!Collect
    <3> QED
      BY <3>3 DEF Ring!Next
  <2>2. CASE ~vring_addr
    BY <1>3, <2>2 DEF Collect, thread_vars
  <2> QED
    BY <2>1, <2>2
<1>4. CASE Notify \/ KickLock \/ vqueue_signal_avail \/ ResetStop \/ RxEnds
           \/ vmm_free_region \/ UNCHANGED vars
  BY <1>4 DEF Notify, KickLock, vqueue_signal_avail, ResetStop, RxEnds, vmm_free_region,
              vars, ring_vars, driver_vars, thread_vars, AvailQueue, UsedQueue, avail_cnt
<1>5. ASSUME NEW t \in Threads, ThreadStep(t)
      PROVE  Ring!Next \/ UNCHANGED <<AbsFree, AbsAvail, buf, AbsUsed>>
  <2>1. CASE Top(t) \/ Wake(t) \/ GetEmpty(t) \/ Unsuppress(t)
    BY <2>1 DEF Top, Wake, GetEmpty, Unsuppress, ring_vars, driver_vars, AvailQueue,
                UsedQueue, avail_cnt
  <2>2. CASE GetBuf(t)
    <3>1. /\ Take(t) /\ ~Empty /\ vring_addr /\ buf[t] = None
          /\ UNCHANGED <<avail_idx, avail_ring, used_idx, used_ring, d_used>>
          /\ UNCHANGED <<free, vring_addr>>
      BY <2>2 DEF GetBuf, ring_vars, driver_vars, IInv, Mapped, Holding
    <3> QED
      BY <1>2, <3>1
  <2>3. CASE Recheck(t) /\ ~Empty
    <3>1. /\ Take(t) /\ ~Empty /\ vring_addr /\ buf[t] = None
          /\ UNCHANGED <<avail_idx, avail_ring, used_idx, used_ring, d_used>>
          /\ UNCHANGED <<free, vring_addr>>
      BY <2>3 DEF Recheck, ring_vars, driver_vars, IInv, Mapped, Holding
    <3> QED
      BY <1>2, <3>1
  <2>4. CASE Recheck(t) /\ Empty
    BY <2>4 DEF Recheck, driver_vars, AvailQueue, UsedQueue, avail_cnt
  <2>6. CASE vqueue_add_buf(t)
    BY <2>6, WriteQueue DEF vqueue_add_buf, driver_vars
  <2>5. CASE AddIndex(t)
    <3>1. /\ vring_addr /\ buf[t] # None
          /\ UsedQueue' = Append(UsedQueue, buf[t])
          /\ buf' = [buf EXCEPT ![t] = None]
          /\ AvailQueue' = AvailQueue
      BY <2>5, ReturnQueue
    <3>2. free' = free /\ vring_addr' = vring_addr
      BY <2>5 DEF AddIndex, driver_vars
    <3>3. Ring!Return(t)
      BY <3>1, <3>2 DEF Ring!Return
    <3> QED
      BY <3>3 DEF Ring!Next
  <2> QED
    BY <1>5, <2>1, <2>2, <2>3, <2>4, <2>5, <2>6 DEF ThreadStep
<1>6. CASE vqueue_destroy
  <2>1. /\ ~vring_addr' /\ buf' = buf
        /\ \A t \in Threads : buf[t] = None
    BY <1>6 DEF vqueue_destroy, Joined, thread_vars, IInv, Holding
  <2>2. Ring!Reset
    BY <2>1 DEF Ring!Reset
  <2> QED
    BY <2>2 DEF Ring!Next
<1>7. CASE vqueue_init
  <2>1. /\ ~vring_addr /\ vring_addr' /\ free' = Heads /\ buf' = buf
        /\ avail_idx' = 0 /\ last_avail_idx' = 0 /\ used_idx' = 0 /\ d_used' = 0
        /\ avail_ring' = avail_ring /\ used_ring' = used_ring
    BY <1>7 DEF vqueue_init, IInv, Mapped
  <2>2. Queue(avail_ring, 0, 0) = << >> /\ Queue(used_ring, 0, 0) = << >>
    BY NewQueue DEF IInv, TypeOK
  <2>3. AvailQueue' = << >> /\ UsedQueue' = << >>
    BY <2>1, <2>2 DEF AvailQueue, UsedQueue, avail_cnt, Queue, Cnt
  <2> QED
    BY <2>1, <2>3
<1> QED
  BY <1>1, <1>3, <1>4, <1>5, <1>6, <1>7 DEF Next

(* The buffer half, step by step of the abstract ring. *)
LEMMA StepOwnership == IInv /\ [Next]_vars => Ownership'
<1> SUFFICES ASSUME IInv, [Next]_vars
             PROVE  Ownership'
  OBVIOUS
<1>0. /\ AbsFree \in SUBSET Heads
      /\ AbsAvail \in Seq(Heads) /\ AbsUsed \in Seq(Heads)
      /\ buf \in [Threads -> Heads \cup {None}]
      /\ Owned(AbsFree, AbsAvail, AbsUsed, buf)
  BY QueueTypes DEF IInv, TypeOK, AbsFree, AbsAvail, AbsUsed, Ownership
<1>1. Ring!Next \/ UNCHANGED <<AbsFree, AbsAvail, buf, AbsUsed>>
  BY StepRefines DEF Ring!vars, AbsFree, AbsAvail, AbsUsed
<1>2. ASSUME NEW h \in Heads, Ring!Publish(h) PROVE Ownership'
  <2>1. /\ h \in AbsFree /\ AbsFree' = AbsFree \ {h} /\ AbsAvail' = Append(AbsAvail, h)
        /\ buf' = buf /\ AbsUsed' = AbsUsed
    BY <1>2 DEF Ring!Publish, AbsFree, AbsAvail, AbsUsed
  <2> QED
    BY <1>0, <2>1, OwnedPublish DEF Ownership
<1>3. ASSUME NEW t \in Threads, Ring!Take(t) PROVE Ownership'
  <2>1. /\ buf[t] = None /\ AbsAvail # << >>
        /\ buf' = [buf EXCEPT ![t] = Head(AbsAvail)] /\ AbsAvail' = Tail(AbsAvail)
        /\ AbsFree' = AbsFree /\ AbsUsed' = AbsUsed
    BY <1>3 DEF Ring!Take, AbsFree, AbsAvail, AbsUsed
  <2> QED
    BY <1>0, <2>1, OwnedTake DEF Ownership
<1>4. ASSUME NEW t \in Threads, Ring!Return(t) PROVE Ownership'
  <2>1. /\ buf[t] # None /\ AbsUsed' = Append(AbsUsed, buf[t])
        /\ buf' = [buf EXCEPT ![t] = None]
        /\ AbsFree' = AbsFree /\ AbsAvail' = AbsAvail
    BY <1>4 DEF Ring!Return, AbsFree, AbsAvail, AbsUsed
  <2> QED
    BY <1>0, <2>1, OwnedReturn DEF Ownership
<1>5. ASSUME Ring!Collect PROVE Ownership'
  <2>1. /\ AbsUsed # << >> /\ AbsFree' = AbsFree \cup {Head(AbsUsed)}
        /\ AbsUsed' = Tail(AbsUsed)
        /\ buf' = buf /\ AbsAvail' = AbsAvail
    BY <1>5 DEF Ring!Collect, AbsFree, AbsAvail, AbsUsed
  <2> QED
    BY <1>0, <2>1, OwnedCollect DEF Ownership
<1>6. ASSUME Ring!Reset PROVE Ownership'
  <2>1. /\ \A t \in Threads : buf[t] = None /\ buf'[t] = None
        /\ AbsFree' = Heads /\ AbsAvail' = << >> /\ AbsUsed' = << >>
    BY <1>6 DEF Ring!Reset, AbsFree, AbsAvail, AbsUsed
  <2> QED
    BY <2>1, NoneAssumption DEF Ownership, Owned
<1>7. CASE UNCHANGED <<AbsFree, AbsAvail, buf, AbsUsed>>
  BY <1>0, <1>7 DEF Ownership
<1> QED
  BY <1>1, <1>2, <1>3, <1>4, <1>5, <1>6, <1>7 DEF Ring!Next

(* The invariant holds initially ... *)
LEMMA InitInv == Init => IInv
<1> SUFFICES ASSUME Init PROVE IInv
  OBVIOUS
<1>0. /\ 0 \in Index /\ 0 \in Heads /\ None \notin Threads /\ Kick \notin Threads
      /\ None # Kick /\ None \notin Heads
  BY IdxAssumption, NumAssumption, NoneAssumption, KickAssumption DEF Index, Heads
<1>1. no_notify \in BOOLEAN /\ mem \in BOOLEAN /\ kick \in BOOLEAN /\ vring_addr \in BOOLEAN
      /\ signalled \in BOOLEAN /\ saw \in BOOLEAN /\ stop \in BOOLEAN
  BY Zenon DEF Init
<1>2. TypeOK
  BY <1>0, <1>1 DEF Init, TypeOK, Fresh, Index
<1>3. Holding /\ Written
  BY <1>0 DEF Init, Holding, Written, Fresh
<1>4. Mapped /\ Woken
  BY <1>0 DEF Init, Mapped, Woken, Empty
<1>5. AbsAvail = << >> /\ AbsUsed = << >> /\ AbsFree = Heads
  <2>1. /\ AvailQueue = Queue(avail_ring, 0, 0) /\ UsedQueue = Queue(used_ring, 0, 0)
    BY QueueTypes, <1>2 DEF Init
  <2> QED
    BY <1>2, <2>1, NewQueue DEF Init, TypeOK, AbsFree, AbsAvail, AbsUsed
<1>6. Ownership
  BY <1>0, <1>5 DEF Ownership, Owned, Init
<1> QED
  BY <1>2, <1>3, <1>4, <1>6 DEF IInv

(* ... and always. *)
THEOREM IInvHolds == Spec => []IInv
<1>1. Init => IInv
  BY InitInv
<1>2. IInv /\ [Next]_vars => IInv'
  BY StepType, StepLocks, StepWritten, StepOwnership DEF IInv
<1> QED
  BY <1>1, <1>2, PTL DEF Spec

(* The invariant counts to one: each head is in one of the four places. *)
LEMMA OnePlace == IInv => OneOwner
<1> SUFFICES ASSUME IInv, vring_addr
             PROVE  avail_cnt <= Num /\ \A h \in Heads : Places(h)
  BY DEF IInv, OneOwner
<1> DEFINE a == AvailQueue  u == UsedQueue
<1>0. /\ a \in Seq(Heads) /\ u \in Seq(Heads)
      /\ Len(a) = avail_cnt /\ Len(a) \in Nat
      /\ Owned(free, a, u, buf)
  BY QueueTypes DEF IInv, Ownership, AbsFree, AbsAvail, AbsUsed, Cnt, avail_cnt
<1> HIDE DEF a, u
<1>1. avail_cnt <= Num
  <2> SUFFICES ASSUME Len(a) > 0
               PROVE  Len(a) <= Num
    BY <1>0, NumAssumption
  <2>1. /\ a # << >> /\ \A i, j \in DOMAIN a : a[i] = a[j] => i = j
        /\ Len(Tail(a)) = Len(a) - 1
    BY <1>0 DEF Owned
  <2>2. Len(Tail(a)) < Num
    BY <1>0, <2>1, TailOf, RoomLeft
  <2> QED
    BY <1>0, <2>1, <2>2, NumAssumption
<1>2. ASSUME NEW h \in Heads PROVE Places(h)
  <2> DEFINE A == {i \in DOMAIN a : a[i] = h}
             U == {i \in DOMAIN u : u[i] = h}
             B == {t \in Threads : buf[t] = h}
             F == IF h \in free THEN 1 ELSE 0
  <2>0. Cardinality(A) + Cardinality(U) + Cardinality(B) + F = 1 => Places(h)
    BY DEF Places, a, u
  <2>1. /\ Cardinality({}) = 0
        /\ \A x : Cardinality({x}) = 1
    BY FS_EmptySet, FS_Singleton
  <2>2. h # None
    BY NoneAssumption
  <2>3. CASE h \in free
    <3>1. A = {} /\ U = {} /\ B = {} /\ F = 1
      BY <1>0, <2>3 DEF Owned
    <3>3. Cardinality(A) = 0 /\ Cardinality(U) = 0 /\ Cardinality(B) = 0 /\ F = 1
      BY <2>1, <3>1
    <3> QED
      BY <2>0, <3>3
  <2>4. CASE \E i \in DOMAIN a : a[i] = h
    <3>1. PICK i \in DOMAIN a : a[i] = h
      BY <2>4
    <3>2. A = {i} /\ U = {} /\ B = {} /\ F = 0
      BY <1>0, <3>1 DEF Owned
    <3>3. Cardinality(A) = 1 /\ Cardinality(U) = 0 /\ Cardinality(B) = 0 /\ F = 0
      <4> HIDE DEF A, U, B, F
      <4> QED
        BY <2>1, <3>2
    <3> QED
      BY <2>0, <3>3
  <2>5. CASE \E i \in DOMAIN u : u[i] = h
    <3>1. PICK i \in DOMAIN u : u[i] = h
      BY <2>5
    <3>2. A = {} /\ U = {i} /\ B = {} /\ F = 0
      BY <1>0, <3>1 DEF Owned
    <3>3. Cardinality(A) = 0 /\ Cardinality(U) = 1 /\ Cardinality(B) = 0 /\ F = 0
      <4> HIDE DEF A, U, B, F
      <4> QED
        BY <2>1, <3>2
    <3> QED
      BY <2>0, <3>3
  <2>6. CASE \E t \in Threads : buf[t] = h
    <3>1. PICK t \in Threads : buf[t] = h
      BY <2>6
    <3>2. A = {} /\ U = {} /\ B = {t} /\ F = 0
      BY <1>0, <2>2, <3>1 DEF Owned
    <3>3. Cardinality(A) = 0 /\ Cardinality(U) = 0 /\ Cardinality(B) = 1 /\ F = 0
      <4> HIDE DEF A, U, B, F
      <4> QED
        BY <2>1, <3>2
    <3> QED
      BY <2>0, <3>3
  <2> QED
    BY <1>0, <2>3, <2>4, <2>5, <2>6 DEF Owned
<1> QED
  BY <1>1, <1>2

-----------------------------------------------------------------------------
(* The theorems *)

(* Every descriptor chain is in one place, and the indices of the          *)
(* available ring are never more than the ring apart, however often they   *)
(* wrapped (the check of _vqueue_get_avail_buf_locked that "should *never* *)
(* happen"), for every ring size, number of threads and index width.       *)
THEOREM EveryChainHasOneOwner == Spec => []OneOwner
BY IInvHolds, OnePlace, PTL

(* The suppressed notifications of vqueue_signal_avail lose no wakeup:     *)
(* whenever a thread sleeps on a queue with a buffer, somebody is about to *)
(* signal it.                                                              *)
THEOREM NoWakeupIsLost == Spec => []NoLostWakeup
<1>1. IInv => NoLostWakeup
  BY DEF IInv, Mapped, Woken, NoLostWakeup
<1> QED
  BY <1>1, IInvHolds, PTL

(* Neither a kick nor a thread in the middle of an operation under slock   *)
(* touches the ring after its memory was unmapped.                         *)
THEOREM RingIsMappedInUse == Spec => []NoUnmappedAccess
<1>1. IInv => NoUnmappedAccess
  BY DEF IInv, Mapped, NoUnmappedAccess
<1> QED
  BY <1>1, IInvHolds, PTL

(* The virtqueue implements the abstract ring: buffers reach the device in *)
(* the order of publication and return in the order of vqueue_add_buf,     *)
(* each once; a reset empties it, and only when no thread holds a buffer.  *)
THEOREM RingRefinement == Spec => ImplementsRing
<1>1. Init => Ring!Init
  <2> SUFFICES ASSUME Init PROVE Ring!Init
    OBVIOUS
  <2>1. TypeOK
    BY InitInv DEF IInv
  <2>2. /\ AvailQueue = Queue(avail_ring, 0, 0) /\ UsedQueue = Queue(used_ring, 0, 0)
    BY QueueTypes, <2>1 DEF Init
  <2>3. AvailQueue = << >> /\ UsedQueue = << >>
    BY <2>1, <2>2, NewQueue DEF TypeOK
  <2> QED
    BY <2>3 DEF Init, Ring!Init
<1>2. IInv /\ [Next]_vars => [Ring!Next]_(Ring!vars)
  BY StepRefines
<1> QED
  BY <1>1, <1>2, IInvHolds, PTL DEF Spec, ImplementsRing, Ring!Spec
=============================================================================
