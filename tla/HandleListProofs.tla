-------------------------- MODULE HandleListProofs --------------------------
(***************************************************************************)
(* Theorems of HandleList, for any set of handles: the waiter's event is   *)
(* never pointed to after it is gone, and no wakeup is lost.               *)
(***************************************************************************)
EXTENDS HandleList, SequenceTheorems, TLAPS

(* list_delete takes out one handle and leaves the others, in order. *)
LEMMA WithoutMembers ==
  ASSUME NEW S, NEW s \in Seq(S), NEW x, Distinct(s)
  PROVE  /\ Without(s, x) \in Seq(S)
         /\ Distinct(Without(s, x))
         /\ Members(Without(s, x)) = Members(s) \ {x}
<1>1. CASE x \notin Members(s)
  BY <1>1 DEF Without, Members
<1>2. CASE x \in Members(s)
  <2> DEFINE i == CHOOSE i \in 1 .. Len(s) : s[i] = x
             t == [j \in 1 .. Len(s) - 1 |-> IF j < i THEN s[j] ELSE s[j + 1]]
  <2>1. i \in 1 .. Len(s) /\ s[i] = x
    BY <1>2 DEF Members
  <2>2. Without(s, x) = t
    BY <1>2 DEF Without
  <2>3. Len(s) - 1 \in Nat
    BY <2>1
  <2> HIDE DEF i
  <2>4. t \in Seq(S) /\ Len(t) = Len(s) - 1
    <3>1. \A j \in 1 .. Len(s) - 1 : t[j] \in S
      BY <2>1
    <3> QED
      BY <2>3, <3>1
  <2>5. Distinct(t)
    BY <2>1, <2>4 DEF Distinct
  <2>6. Members(t) = Members(s) \ {x}
    <3>1. ASSUME NEW y \in Members(t) PROVE y \in Members(s) \ {x}
      <4>1. PICK j \in 1 .. Len(t) : y = t[j]
        BY DEF Members
      <4>2. CASE j < i
        BY <4>1, <4>2, <2>1, <2>4 DEF Members, Distinct
      <4>3. CASE ~(j < i)
        BY <4>1, <4>3, <2>1, <2>4 DEF Members, Distinct
      <4> QED
        BY <4>2, <4>3
    <3>2. ASSUME NEW y \in Members(s) \ {x} PROVE y \in Members(t)
      <4>1. PICK j \in 1 .. Len(s) : y = s[j]
        BY DEF Members
      <4>2. CASE j < i
        <5>1. j \in 1 .. Len(t) /\ t[j] = y
          BY <4>1, <4>2, <2>1, <2>4
        <5> QED
          BY <5>1 DEF Members
      <4>3. CASE i < j
        <5>1. j - 1 \in 1 .. Len(t) /\ t[j - 1] = y
          BY <4>1, <4>3, <2>1, <2>4
        <5> QED
          BY <5>1 DEF Members
      <4> QED
        BY <4>1, <4>2, <4>3, <2>1
    <3> QED
      BY <3>1, <3>2
  <2> QED
    BY <2>2, <2>4, <2>5, <2>6
<1> QED
  BY <1>1, <1>2

(* list_add_tail adds one handle that was not there. *)
LEMMA AppendedMembers ==
  ASSUME NEW S, NEW s \in Seq(S), NEW x \in S, Distinct(s), x \notin Members(s)
  PROVE  /\ Append(s, x) \in Seq(S)
         /\ Distinct(Append(s, x))
         /\ Members(Append(s, x)) = Members(s) \cup {x}
<1> DEFINE t == Append(s, x)
<1>1. /\ t \in Seq(S) /\ Len(t) = Len(s) + 1 /\ t[Len(s) + 1] = x
      /\ \A j \in 1 .. Len(s) : t[j] = s[j]
  OBVIOUS
<1> HIDE DEF t
<1>2. Distinct(t)
  BY <1>1 DEF Distinct, Members
<1>3. Members(t) \subseteq Members(s) \cup {x}
  BY <1>1 DEF Members
<1>4. Members(s) \cup {x} \subseteq Members(t)
  <2>1. x \in Members(t)
    BY <1>1 DEF Members
  <2>2. ASSUME NEW j \in 1 .. Len(s) PROVE s[j] \in Members(t)
    BY <1>1 DEF Members
  <2> QED
    BY <2>1, <2>2 DEF Members
<1> QED
  BY <1>1, <1>2, <1>3, <1>4 DEF t

(* Turning the list keeps its handles. *)
LEMMA TurnMembers ==
  ASSUME list \in Seq(Handles), Distinct(list), NEW i \in 1 .. Len(list)
  PROVE  /\ Turn(i) \in Seq(Handles)
         /\ Distinct(Turn(i))
         /\ Members(Turn(i)) = Members(list)
<1> DEFINE n == Len(list)
           t == Turn(i)
<1>0. n = Len(list)
  OBVIOUS
<1>1. n \in Nat /\ i \in 1 .. n
  OBVIOUS
<1>2. /\ t \in Seq(Handles) /\ Len(t) = n
      /\ \A j \in 1 .. n : t[j] = IF j <= n - i THEN list[i + j] ELSE list[j - (n - i)]
  <2> DEFINE u == SubSeq(list, i + 1, n)
             v == SubSeq(list, 1, i)
  <2>1. /\ u \in Seq(Handles) /\ Len(u) = n - i
        /\ \A j \in 1 .. n - i : u[j] = list[i + j]
    BY <1>1
  <2>2. /\ v \in Seq(Handles) /\ Len(v) = i
        /\ \A j \in 1 .. i : v[j] = list[j]
    BY <1>1
  <2>3. t = u \o v
    BY DEF Turn
  <2> HIDE DEF u, v, t, n
  <2>4. t \in Seq(Handles) /\ Len(t) = n
    <3>1. u \o v \in Seq(Handles) /\ Len(u \o v) = Len(u) + Len(v)
      BY <2>1, <2>2, ConcatProperties
    <3> QED
      BY <3>1, <1>1, <2>1, <2>2, <2>3
  <2>5. ASSUME NEW j \in 1 .. n
        PROVE  t[j] = IF j <= n - i THEN list[i + j] ELSE list[j - (n - i)]
    <3>1. t[j] = IF j <= Len(u) THEN u[j] ELSE v[j - Len(u)]
      <4>1. j \in 1 .. Len(u) + Len(v)
        BY <1>1, <2>1, <2>2
      <4> QED
        BY <4>1, <2>1, <2>2, <2>3, ConcatProperties
    <3> QED
      BY <3>1, <1>1, <2>1, <2>2
  <2> QED
    BY <2>4, <2>5
<1> HIDE DEF n, t
<1>3. Distinct(t)
  <2> SUFFICES ASSUME NEW a \in 1 .. n, NEW b \in 1 .. n, t[a] = t[b]
               PROVE  a = b
    BY <1>2 DEF Distinct
  <2> DEFINE at(j) == IF j <= n - i THEN i + j ELSE j - (n - i)
  <2>1. at(a) \in 1 .. n /\ at(b) \in 1 .. n
    BY <1>1
  <2>2. list[at(a)] = list[at(b)]
    BY <1>2
  <2>3. at(a) = at(b)
    BY <2>1, <2>2, <1>0 DEF Distinct
  <2> QED
    BY <2>3, <1>1
<1>4. Members(t) \subseteq Members(list)
  <2> SUFFICES ASSUME NEW j \in 1 .. n PROVE t[j] \in Members(list)
    BY <1>2 DEF Members
  <2>1. CASE j <= n - i
    <3>1. i + j \in 1 .. Len(list) /\ t[j] = list[i + j]
      BY <1>0, <1>1, <1>2, <2>1
    <3> QED
      BY <3>1 DEF Members
  <2>2. CASE ~(j <= n - i)
    <3>1. j - (n - i) \in 1 .. Len(list) /\ t[j] = list[j - (n - i)]
      BY <1>0, <1>1, <1>2, <2>2
    <3> QED
      BY <3>1 DEF Members
  <2> QED
    BY <2>1, <2>2
<1>5. ASSUME NEW j \in 1 .. n PROVE list[j] \in Members(t)
  <2>1. CASE j <= i
    <3>1. j + (n - i) \in 1 .. n /\ t[j + (n - i)] = list[j]
      BY <1>1, <1>2, <2>1
    <3> QED
      BY <3>1, <1>2 DEF Members
  <2>2. CASE i < j
    <3>1. j - i \in 1 .. n /\ t[j - i] = list[j]
      BY <1>1, <1>2, <2>2
    <3> QED
      BY <3>1, <1>2 DEF Members
  <2> QED
    BY <2>1, <2>2, <1>1
<1> QED
  BY <1>2, <1>3, <1>4, <1>5 DEF Members, n, t

-----------------------------------------------------------------------------
(* The empty list satisfies every part of the invariant. *)
LEMMA InitIInv == Init => IInv
<1> SUFFICES ASSUME Init PROVE IInv
  OBVIOUS
<1> USE DEF Init
<1>1. TypeOK
  <2>1. Distinct(list)
    BY DEF Distinct
  <2>2. list \in Seq(Handles) /\ events \in [Handles -> SUBSET {"ready", "msg", "hup"}]
    OBVIOUS
  <2>3. /\ waiting \in BOOLEAN /\ signalled \in BOOLEAN
        /\ have \in BOOLEAN /\ tx_stop \in BOOLEAN
    OBVIOUS
  <2>4. k \in Nat \ {0}
    OBVIOUS
  <2> QED
    BY <2>1, <2>2, <2>3, <2>4, Zenon DEF TypeOK
<1>2. EventLives
  BY DEF EventLives
<1>3. Locks /\ Prepared /\ Scanned
  BY DEF Locks, Prepared, Scanned, Scanning
<1> QED
  BY <1>1, <1>2, <1>3 DEF IInv

(* Every action of RX, of TX and of the apps preserves the invariant. *)
LEMMA StepIInv == IInv /\ [Next]_vars => IInv'
<1> SUFFICES ASSUME IInv, [Next]_vars PROVE IInv'
  OBVIOUS
<1> USE NoneAssumption DEF IInv
<1>1. ASSUME NEW h \in Handles, NEW e \in {"ready", "msg", "hup"}, Raise(h, e)
      PROVE  IInv'
  <2> USE <1>1 DEF Raise, list_vars, tx_vars, rx_vars, dev_vars
  <2>1. TypeOK'
    BY DEF TypeOK
  <2>2. EventLives' /\ Locks' /\ Prepared'
    BY DEF EventLives, Locks, Prepared, Members, Scanning
  <2>3. Scanned'
    <3>1. ASSUME NEW x \in Handles, Noticed(x), events'[x] # {}
          PROVE  signalled' \/ ipc' = x \/ (rx' = "added" /\ new' = x)
      BY <3>1 DEF Noticed, TypeOK
    <3>2. \A i \in 1 .. Len(list) : list[i] \in Handles
      BY DEF TypeOK
    <3>3. tx \in Scanning => \A i \in 1 .. k - 1 : list[i] \in Handles
      BY <3>2 DEF Locks, TypeOK
    <3>4. Members(list) \subseteq Handles
      BY <3>2 DEF Members
    <3>5. Members(list)' = Members(list)
      BY DEF Members
    <3> QED
      BY <3>1, <3>3, <3>4, <3>5 DEF Scanned, Noticed, Scanning
  <2> QED
    BY <2>1, <2>2, <2>3
<1>2. CASE Notify
  <2> USE <1>2 DEF Notify, handle_notify, Signal, rx_vars, dev_vars
  <2>1. TypeOK'
    <3>1. tx' \in {tx, "awake"}
      OBVIOUS
    <3>2. signalled' \in BOOLEAN
      BY DEF TypeOK
    <3> QED
      BY <3>1, <3>2 DEF TypeOK
  <2>2. EventLives' /\ Locks' /\ Prepared'
    BY DEF EventLives, Locks, Prepared, Members, Scanning
  <2>3. Scanned'
    BY DEF Scanned, Noticed, Members, Scanning, TypeOK, Prepared, Locks
  <2> QED
    BY <2>1, <2>2, <2>3
<1>3. ASSUME NEW h \in Handles, ConnReq(h) PROVE IInv'
  <2> USE <1>3 DEF ConnReq, list_vars, tx_vars, dev_vars
  <2>1. TypeOK'
    BY DEF TypeOK
  <2>2. EventLives' /\ Locks' /\ Prepared'
    BY DEF EventLives, Locks, Prepared, Members, Scanning
  <2>3. Scanned'
    BY DEF Scanned, Noticed, Members, Scanning, TypeOK, Locks
  <2> QED
    BY <2>1, <2>2, <2>3
<1>4. CASE SignalHave \/ ResetStart \/ ResetKick
  <2> USE <1>4 DEF SignalHave, ResetStart, ResetKick, list_vars, app_vars, tx_vars
  <2>1. TypeOK'
    BY DEF TypeOK
  <2>2. EventLives' /\ Locks' /\ Prepared'
    BY DEF EventLives, Locks, Prepared, Members, Scanning
  <2>3. Scanned'
    <3>1. /\ rx # "added" /\ rx' # "added"
          /\ UNCHANGED <<list, signalled, events, ipc, tx, k>>
      OBVIOUS
    <3> HIDE <1>4 DEF SignalHave, ResetStart, ResetKick, list_vars, app_vars, tx_vars
    <3> QED
      BY <3>1 DEF Scanned, Noticed, Members, Scanning
  <2> QED
    BY <2>1, <2>2, <2>3
<1>5. CASE ListAdd
  <2> USE <1>5 DEF ListAdd, app_vars, tx_vars, dev_vars
  <2>1. /\ list' \in Seq(Handles) /\ Distinct(list')
        /\ Members(list') = Members(list) \cup {new}
    BY AppendedMembers DEF TypeOK, Locks
  <2>2. list' # << >> /\ tx \notin Scanning /\ new \in Handles \ Members(list)
    BY DEF Locks, TypeOK
  <2>3. TypeOK'
    BY <2>1, <2>2 DEF TypeOK
  <2>4. EventLives' /\ Locks' /\ Prepared'
    BY <2>1, <2>2 DEF EventLives, Locks, Prepared, Scanning
  <2>5. Scanned'
    BY <2>1, <2>2 DEF Scanned, Noticed, EventLives, Scanning
  <2> QED
    BY <2>3, <2>4, <2>5
<1>6. CASE ListAddPoll
  <2> USE <1>6 DEF ListAddPoll, handle_notify, Signal, app_vars, dev_vars
  <2>1. TypeOK'
    <3>1. tx' \in {tx, "awake"}
      OBVIOUS
    <3>2. signalled' \in BOOLEAN
      BY DEF TypeOK
    <3> QED
      BY <3>1, <3>2 DEF TypeOK
  <2>2. EventLives' /\ Locks' /\ Prepared'
    BY DEF EventLives, Locks, Prepared, Members, Scanning
  <2>3. Scanned'
    BY DEF Scanned, Noticed, Members, Scanning, TypeOK, EventLives, Locks, Prepared
  <2> QED
    BY <2>1, <2>2, <2>3
<1>7. ASSUME NEW h \in Members(list), lock = "no", rx \in {"idle", "reset"},
             ListDel(h),
             UNCHANGED <<waiting, lock, app_vars, cur, k, got, rx_vars, dev_vars>>
      PROVE  IInv'
  <2> USE <1>7 DEF ListDel, Signal, app_vars, rx_vars, dev_vars
  <2>1. /\ list' \in Seq(Handles) /\ Distinct(list')
        /\ Members(list') = Members(list) \ {h}
    BY WithoutMembers DEF TypeOK
  <2>2. tx \notin Scanning
    BY DEF Locks
  <2>3. TypeOK'
    <3>1. tx' \in {tx, "awake"}
      OBVIOUS
    <3>2. signalled' \in BOOLEAN
      BY DEF TypeOK
    <3>3. wait_event' \subseteq Handles
      BY DEF TypeOK
    <3>4. /\ UNCHANGED <<waiting, lock, ipc, events, accepted, cur, k, got>>
          /\ UNCHANGED <<rx, new, have, tx_stop>>
      OBVIOUS
    <3> HIDE <1>7 DEF ListDel, Signal, app_vars, rx_vars, dev_vars
    <3> QED
      BY <2>1, <3>1, <3>2, <3>3, <3>4 DEF TypeOK
  <2>4. EventLives' /\ Locks' /\ Prepared'
    BY <2>1, <2>2 DEF EventLives, Locks, Prepared, Scanning
  <2>5. Scanned'
    BY <2>1, <2>2 DEF Scanned, Noticed, EventLives, Scanning, TypeOK
  <2> QED
    BY <2>3, <2>4, <2>5
<1>8. CASE (\E h \in Handles : DiscReq(h)) \/ ResetClose
  <2>1. CASE \E h \in Handles : DiscReq(h)
    BY <2>1, <1>7 DEF DiscReq
  <2>2. CASE ResetClose
    <3>1. Head(list) \in Members(list)
      <4>1. 1 \in 1 .. Len(list) /\ Head(list) = list[1]
        BY <2>2 DEF ResetClose, TypeOK
      <4> QED
        BY <4>1 DEF Members
    <3> QED
      BY <3>1, <2>2, <1>7 DEF ResetClose
  <2> QED
    BY <1>8, <2>1, <2>2
<1>9. CASE ResetJoin \/ LoopTop \/ WaitHave
  <2> USE <1>9 DEF ResetJoin, LoopTop, WaitHave, list_vars, app_vars, rx_vars, dev_vars
  <2>1. TypeOK'
    BY DEF TypeOK
  <2>2. EventLives' /\ Locks' /\ Prepared'
    BY DEF EventLives, Locks, Prepared, Members, Scanning
  <2>3. Scanned'
    BY DEF Scanned, Noticed, Members, Scanning, TypeOK, EventLives, Locks, Prepared
  <2> QED
    BY <2>1, <2>2, <2>3
<1>10. CASE WaitStart
  <2> USE <1>10 DEF WaitStart, app_vars, rx_vars, dev_vars
  <2>1. TypeOK'
    <3>1. tx' \in {"top", "prepare"} /\ lock' \in {lock, "tx"} /\ k' \in {k, 1}
      OBVIOUS
    <3>2. waiting' \in BOOLEAN /\ signalled' \in BOOLEAN
      BY DEF TypeOK
    <3>3. k' \in Nat \ {0}
      BY <3>1 DEF TypeOK
    <3> QED
      BY <3>1, <3>2, <3>3, ZenonT(30) DEF TypeOK
  <2>2. EventLives' /\ Locks' /\ Prepared'
    BY DEF EventLives, Locks, Prepared, Members, Scanning, TypeOK
  <2>3. Scanned'
    BY DEF Scanned, Noticed, Members, Scanning, TypeOK, EventLives, Locks, Prepared
  <2> QED
    BY <2>1, <2>2, <2>3
<1>11. CASE Prepare
  <2> USE <1>11 DEF Prepare, app_vars, rx_vars, dev_vars
  <2>1. TypeOK'
    BY DEF TypeOK, Locks, Scanning
  <2>2. EventLives' /\ Locks' /\ Prepared'
    BY DEF EventLives, Locks, Prepared, Members, Scanning, TypeOK
  <2>3. Scanned'
    BY DEF Scanned, Noticed, Members, Scanning, TypeOK, EventLives, Locks, Prepared
  <2> QED
    BY <2>1, <2>2, <2>3
<1>12. ASSUME tx \in {"poll", "repoll"}, ipc = None, Found,
              UNCHANGED <<ipc, accepted, rx_vars, dev_vars>>
       PROVE  IInv'
  <2> USE <1>12 DEF Found, rx_vars, dev_vars
  <2>1. k \in 1 .. Len(list) /\ lock = "tx" /\ rx # "added"
    BY DEF Locks, Scanning
  <2>2. /\ list' \in Seq(Handles) /\ Distinct(list')
        /\ Members(list') = Members(list)
    BY <2>1, TurnMembers DEF TypeOK
  <2>3. list[k] \in Handles
    BY <2>1 DEF TypeOK
  <2>4. TypeOK'
    BY <2>1, <2>2, <2>3 DEF TypeOK
  <2>5. EventLives' /\ Locks' /\ Prepared'
    BY <2>1, <2>2 DEF EventLives, Locks, Prepared, Scanning
  <2>6. Scanned'
    BY DEF Scanned, Scanning
  <2> QED
    BY <2>4, <2>5, <2>6
<1>13. ASSUME NEW next \in {"prepare", "repoll"}, ipc = None, NotFound(next),
              tx = IF next = "prepare" THEN "poll" ELSE "repoll",
              UNCHANGED <<ipc, accepted, rx_vars, dev_vars>>
       PROVE  IInv'
  <2> USE <1>13 DEF NotFound, rx_vars, dev_vars
  <2>1. /\ k \in 1 .. Len(list) /\ Len(list) \in Nat
        /\ lock = "tx" /\ rx # "added" /\ list # << >>
    BY DEF Locks, Scanning, TypeOK
  <2>2. TypeOK'
    BY <2>1 DEF TypeOK
  <2>3. EventLives'
    BY DEF EventLives
  <2>4. Locks'
    BY <2>1 DEF Locks, Scanning
  <2>5. Prepared'
    <3>1. CASE k < Len(list)
      BY <3>1, <2>1 DEF Prepared
    <3>2. CASE k = Len(list)
      BY <3>2, <2>1 DEF Prepared, Members
    <3> QED
      BY <3>1, <3>2, <2>1
  <2>6. \A i \in 1 .. k : Noticed(list[i])
    <3>1. \A i \in 1 .. k - 1 : Noticed(list[i])
      BY DEF Scanned, Scanning
    <3>2. Noticed(list[k])
      BY DEF Noticed
    <3> QED
      BY <3>1, <3>2, <2>1
  <2>7. Scanned'
    <3>1. CASE k < Len(list)
      <4>1. k' - 1 = k /\ tx' = next
        BY <3>1, <2>1
      <4> QED
        BY <4>1, <2>1, <2>6 DEF Scanned, Noticed, Scanning
    <3>2. CASE k = Len(list)
      <4>1. tx' = "block"
        BY <3>2, <2>1
      <4>2. \A h \in Members(list) : Noticed(h)
        BY <3>2, <2>6 DEF Members
      <4> QED
        BY <4>1, <4>2, <2>1 DEF Scanned, Noticed, Scanning
    <3> QED
      BY <3>1, <3>2, <2>1
  <2> QED
    BY <2>2, <2>3, <2>4, <2>5, <2>7
<1>14. CASE Poll \/ Repoll
  BY <1>12, <1>13, <1>14 DEF Poll, Repoll
<1>15. CASE Block
  <2> USE <1>15 DEF Block, app_vars, rx_vars, dev_vars
  <2>1. TypeOK'
    BY DEF TypeOK
  <2>2. EventLives' /\ Locks' /\ Prepared'
    BY DEF EventLives, Locks, Prepared, Members, Scanning
  <2>3. Scanned'
    BY DEF Scanned, Noticed, Members, Scanning, TypeOK, EventLives, Locks, Prepared
  <2> QED
    BY <2>1, <2>2, <2>3
<1>16. CASE Wake
  <2> USE <1>16 DEF Wake, app_vars, rx_vars, dev_vars
  <2>1. TypeOK'
    BY DEF TypeOK
  <2>2. CASE list = << >>
    <3>1. wait_event = {}
      BY <2>2 DEF EventLives, Members
    <3>2. EventLives' /\ Locks' /\ Prepared' /\ Scanned'
      BY <2>2, <3>1 DEF EventLives, Locks, Prepared, Scanned, Scanning, Members
    <3> QED
      BY <2>1, <3>2
  <2>3. CASE list # << >>
    <3>1. k = 1 /\ k \in 1 .. Len(list)
      BY <2>3 DEF TypeOK, Locks
    <3>2. EventLives' /\ Locks' /\ Prepared'
      BY <2>3, <3>1 DEF EventLives, Locks, Prepared, Scanning, Members
    <3>3. Scanned'
      BY <2>3, <3>1 DEF Scanned, Scanning
    <3> QED
      BY <2>1, <3>2, <3>3
  <2> QED
    BY <2>2, <2>3
<1>17. CASE ServeReady \/ ServeMsg \/ GetMsg \/ SendDone
  <2> USE <1>17 DEF ServeReady, ServeMsg, GetMsg, SendDone, Serve, Served, list_vars,
                    app_vars, rx_vars, dev_vars
  <2>1. TypeOK'
    <3>1. /\ tx' \in {"wait", "loop", "send"}
          /\ cur' \in {cur, None} /\ got' \in {got, {}}
          /\ UNCHANGED <<list, wait_event, waiting, signalled, lock, ipc, accepted, k>>
          /\ UNCHANGED <<rx, new, have, tx_stop>>
      OBVIOUS
    <3>2. events' \in [Handles -> SUBSET {"ready", "msg", "hup"}]
      BY DEF TypeOK
    <3> HIDE <1>17 DEF ServeReady, ServeMsg, GetMsg, SendDone, Serve, Served, list_vars,
                       app_vars, rx_vars, dev_vars
    <3> QED
      BY <3>1, <3>2 DEF TypeOK
  <2>2. EventLives' /\ Locks' /\ Prepared'
    BY DEF EventLives, Locks, Prepared, Members, Scanning
  <2>3. Scanned'
    BY DEF Scanned, Noticed, Members, Scanning, TypeOK, EventLives, Locks, Prepared
  <2> QED
    BY <2>1, <2>2, <2>3
<1>18. CASE ServeHup
  <2> USE <1>18 DEF ServeHup, Serve, Served, app_vars, rx_vars, dev_vars
  <2>1. /\ list' \in Seq(Handles) /\ Distinct(list')
        /\ Members(list') = Members(list) \ {cur}
    BY WithoutMembers DEF TypeOK
  <2>2. TypeOK'
    BY <2>1 DEF TypeOK
  <2>3. EventLives' /\ Locks' /\ Prepared'
    BY <2>1 DEF EventLives, Locks, Prepared, Scanning
  <2>4. Scanned'
    BY DEF Scanned, Scanning
  <2> QED
    BY <2>2, <2>3, <2>4
<1>19. CASE UNCHANGED vars
  BY <1>19 DEF vars, list_vars, app_vars, tx_vars, rx_vars, dev_vars, TypeOK,
     EventLives, Locks, Prepared, Scanned, Noticed, Members, Scanning
<1> QED
  BY <1>1, <1>2, <1>3, <1>4, <1>5, <1>6, <1>8, <1>9, <1>10, <1>11, <1>14, <1>15,
     <1>16, <1>17, <1>18, <1>19 DEF Next, RxStep, Request, TxStep

-----------------------------------------------------------------------------
(* The inductive invariant holds for every set of handles. *)
THEOREM IInvHolds == Spec => []IInv
<1>1. Init => IInv
  BY InitIInv
<1>2. IInv /\ [Next]_vars => IInv'
  BY StepIInv
<1> QED
  BY <1>1, <1>2, PTL DEF Spec

(* Whatever RX, TX and the apps do, no handle points to the event of a     *)
(* waiter that has left handle_list_wait: handle_notify never signals an   *)
(* event that is gone from the stack.                                      *)
THEOREM NoDanglingEvent == Spec => []EventLives
<1>1. IInv => EventLives
  BY DEF IInv
<1> QED
  BY <1>1, IInvHolds, PTL

(* The TX thread never sleeps through an event, nor through the removal of *)
(* the last handle, for any number of handles.                             *)
THEOREM WakeupsReachWaiter == Spec => []NoLostWakeup
<1>1. IInv => NoLostWakeup
  BY DEF IInv, NoLostWakeup, Prepared, Scanned, Noticed
<1> QED
  BY <1>1, IInvHolds, PTL
=============================================================================
