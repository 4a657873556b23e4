--------------------------- MODULE TrustyIpcProofs ---------------------------
(***************************************************************************)
(* Proofs about the ports and channels of TrustyIpc, for any number of     *)
(* apps, ports, channels and paths.                                        *)
(*                                                                         *)
(* The properties are not inductive.  That the references of a channel are *)
(* its users (Refs) survives a shutdown only if peer pointers come in      *)
(* pairs (Peers), so that the one reference dropped is the one counted;    *)
(* the states of the two ends (Ends) survive it only if no server of a     *)
(* pending list is the peer of another; a port's count survives accept     *)
(* only if a channel is in one place of one list (Lists); and a handle     *)
(* reference can stand for its holder only while one app at a time has the *)
(* handle, in its table or in the call it makes (Owners).  PortMissing and *)
(* Calls add what publish, a synchronous connect and a close rely on.      *)
(*                                                                         *)
(* The proof is in three layers.  Chans... lemmas say what each kind of    *)
(* change does to the channels as a whole, in terms of their fields; Own...*)
(* lemmas what each kind of call does to the holders; PendChange and       *)
(* WaitChange what a list operation does to the lists.  A Step... lemma    *)
(* per action then shows which change the action is.                       *)
(***************************************************************************)
EXTENDS TrustyIpc, TLAPS

(* The two halves of Linked, and who has an object in its hands. *)
Waits(c) == \E path \in Paths : c \in Members(waiting_list[path])
Pend(c) == \E p \in Ports : c \in Members(port[p].pending)

Objs == Ports \cup Chans
InTab(h) == \E a \in Apps : h \in table[a]
ConnAt(a, h) == pc[a].at = "connect" /\ pc[a].obj = h
DestroyAt(a, h) == pc[a].at = "destroy" /\ pc[a].obj = h
Conn(h) == \E a \in Apps : ConnAt(a, h)
Closing(h) == \E a \in Apps : DestroyAt(a, h)

(* One app holds a handle, in its table or in the call it makes. *)
Local(a) == /\ pc[a].at = "idle" <=> pc[a].obj = None
            /\ pc[a].at \in {"connect", "accept"} => pc[a].obj \in Chans
            /\ pc[a].obj \notin table[a]
Uniq == \A a, b \in Apps, h \in Objs : HeldBy(a, h) /\ HeldBy(b, h) => a = b
OwnTypes == /\ table \in [Apps -> SUBSET Objs]
            /\ pc \in [Apps -> [at : Places, obj : Objs \cup {None}]]
Owners == OwnTypes /\ (\A a \in Apps : Local(a)) /\ Uniq

(* The references of a port and its life. *)
PSt(p) == port[p].state
RefC(p) == port[p].refcnt
PLen(p) == Len(port[p].pending)
Listed(p) == p \in port_list
PortGood(p) ==
  /\ PSt(p) \in PortStates /\ RefC(p) \in Nat /\ PLen(p) \in Nat
  /\ RefC(p) = Count(Held(p)) + Count(InTab(p)) + Count(Listed(p)) + PLen(p)
  /\ PSt(p) = "FREE" <=> ~Held(p)
  /\ PSt(p) = "CLOSING" <=> Closing(p)
  /\ Listed(p) <=> PSt(p) = "LISTENING"
  /\ PSt(p) # "LISTENING" => PLen(p) = 0
PortInv == \A p \in Ports : PortGood(p)

(* A channel is in one place of one list. *)
Inj(q) == \A i, j \in DOMAIN q : q[i] = q[j] => i = j
WList(path) == waiting_list[path]
PList(p) == port[p].pending
WUniq == \A path \in Paths : WList(path) \in Seq(Chans) /\ Inj(WList(path))
PUniq == /\ \A p \in Ports : PList(p) \in Seq(Chans) /\ Inj(PList(p))
         /\ \A p, q \in Ports : \A c \in Chans :
              c \in Members(PList(p)) /\ c \in Members(PList(q)) => p = q
Lists == WUniq /\ PUniq

(* The fields of a channel that the invariant relates. *)
St(c) == chan[c].state
Pr(c) == chan[c].peer
HRef(c) == "handle" \in chan[c].refs
NRef(c) == "node" \in chan[c].refs
PRef(c) == "peer" \in chan[c].refs

(* ChanRefs, in these words. *)
Refs ==
  \A c \in Chans :
    /\ HRef(c) <=> Held(c)
    /\ NRef(c) <=> Waits(c) \/ Pend(c)
    /\ PRef(c) <=> \E d \in Chans : Pr(d) = c
    /\ St(c) = "FREE" <=> ~HRef(c) /\ ~NRef(c) /\ ~PRef(c)

(* Peer pointers come in pairs until one of them is cleared; who has one is *)
(* in a list or has a handle; and the peer of a pending server is not       *)
(* pending.                                                                 *)
Peers ==
  /\ \A c, d \in Chans : Pr(c) = d => c # d /\ Pr(d) \in {c, None}
  /\ \A c, d \in Chans : Pr(c) = Pr(d) /\ Pr(c) # None => c = d
  /\ \A c \in Chans : Pr(c) # None => HRef(c) \/ NRef(c)
  /\ \A c, d \in Chans : Pend(c) /\ Pend(d) => Pr(c) # d

(* The states of the two ends. *)
Ends ==
  \A c \in Chans :
    /\ St(c) = "CONNECTED" =>
         \E d \in Chans : Pr(c) = d /\ Pr(d) = c /\ St(d) = "CONNECTED"
    /\ St(c) = "CONNECTING" =>
         \E d \in Chans : Pr(c) = d /\ Pr(d) = c /\ St(d) = "ACCEPTING"
    /\ St(c) = "ACCEPTING" =>
         Pend(c) /\ \E d \in Chans : Pr(c) = d /\ Pr(d) = c /\ St(d) = "CONNECTING"
    /\ St(c) \in {"FREE", "WAITING_FOR_PORT"} => Pr(c) = None
    /\ \A d \in Chans : Pr(c) = d /\ Pr(d) # c => St(c) = "DISCONNECTING"
    /\ Pend(c) => St(c) \in {"ACCEPTING", "DISCONNECTING"} /\ ~Held(c)

(* The channels that wait for a port. *)
Waiting ==
  \A c \in Chans : /\ St(c) = "WAITING_FOR_PORT" <=> Waits(c)
                   /\ Waits(c) => Held(c) /\ ~PRef(c)

(* The port they wait for is not there. *)
Rdy(c) == chan[c].ready
Fil(c) == chan[c].filled
Pth(c) == chan[c].path
Absent(path) == port_find_locked(path) = {}
PortMissing ==
  \A path \in Paths : \A c \in Chans : c \in Members(WList(path)) => Pth(c) = path /\ Absent(path)

(* What a synchronous connect has seen, and a close has done. *)
Calls ==
  \A c \in Chans : /\ Conn(c) => /\ St(c) = "CONNECTED" => Rdy(c)
                                 /\ Fil(c) > 0 => Rdy(c)
                   /\ Closing(c) => Pr(c) = None /\ St(c) = "DISCONNECTING"

(* The channels as a whole, and the inductive invariant. *)
FieldTypes == \A c \in Chans : St(c) \in ChanStates /\ Pr(c) \in Chans \cup {None}
ChanInv == FieldTypes /\ Refs /\ Peers /\ Ends /\ Waiting

IInv == TypeOK /\ Owners /\ PortInv /\ Lists /\ ChanInv /\ PortMissing /\ Calls

-----------------------------------------------------------------------------
(* Lists *)

(* Nothing is in the empty list. *)
LEMMA MembersNone == Members(<< >>) = {}
BY DEF Members

(* What is in a list is at some place of it. *)
LEMMA MembersAt ==
  ASSUME NEW S, NEW q \in Seq(S)
  PROVE  /\ Members(q) \subseteq S
         /\ \A y : y \in Members(q) <=> \E i \in DOMAIN q : q[i] = y
BY DEF Members

(* list_add_tail *)
LEMMA MembersAppend ==
  ASSUME NEW S, NEW q \in Seq(S), NEW x \in S
  PROVE  /\ Append(q, x) \in Seq(S) /\ Members(Append(q, x)) = Members(q) \cup {x}
         /\ Len(Append(q, x)) = Len(q) + 1
         /\ \A i \in DOMAIN Append(q, x) :
              \/ i \in DOMAIN q /\ Append(q, x)[i] = q[i]
              \/ i = Len(q) + 1 /\ Append(q, x)[i] = x
<1>1. Append(q, x) \in Seq(S) /\ Len(Append(q, x)) = Len(q) + 1
  OBVIOUS
<1>2. \A i \in DOMAIN Append(q, x) :
        \/ i \in DOMAIN q /\ Append(q, x)[i] = q[i]
        \/ i = Len(q) + 1 /\ Append(q, x)[i] = x
  OBVIOUS
<1>3. /\ \A i \in DOMAIN q : i \in DOMAIN Append(q, x) /\ Append(q, x)[i] = q[i]
      /\ Len(q) + 1 \in DOMAIN Append(q, x) /\ Append(q, x)[Len(q) + 1] = x
  OBVIOUS
<1> DEFINE r == Append(q, x)
<1>4. /\ \A y : y \in Members(q) <=> \E i \in DOMAIN q : q[i] = y
      /\ \A y : y \in Members(r) <=> \E i \in DOMAIN r : r[i] = y
  BY <1>1, MembersAt
<1> HIDE DEF r
<1>5. \A y : y \in Members(r) <=> y \in Members(q) \/ y = x
  BY <1>2, <1>3, <1>4 DEF r
<1>6. Members(Append(q, x)) = Members(q) \cup {x}
  BY <1>5 DEF r
<1> QED
  BY <1>1, <1>2, <1>6

(* The head of a list is taken. *)
LEMMA MembersTail ==
  ASSUME NEW S, NEW q \in Seq(S), q # << >>, \A i, j \in DOMAIN q : q[i] = q[j] => i = j
  PROVE  /\ Tail(q) \in Seq(S) /\ Members(Tail(q)) = Members(q) \ {Head(q)}
         /\ Head(q) \in Members(q) /\ Head(q) \in S /\ Len(Tail(q)) = Len(q) - 1
         /\ \A i \in DOMAIN Tail(q) : i + 1 \in DOMAIN q /\ Tail(q)[i] = q[i + 1] /\ i \in Nat
<1> DEFINE r == Tail(q)
<1>1. \A i \in DOMAIN r : i + 1 \in DOMAIN q /\ r[i] = q[i + 1] /\ i \in Nat /\ i > 0
  OBVIOUS
<1>2. \A i \in DOMAIN q : i # 1 => i - 1 \in DOMAIN r /\ r[i - 1] = q[i]
  OBVIOUS
<1>3. 1 \in DOMAIN q /\ q[1] = Head(q) /\ r \in Seq(S) /\ Len(r) = Len(q) - 1
  OBVIOUS
<1> HIDE DEF r
<1>4. /\ \A y : y \in Members(q) <=> \E i \in DOMAIN q : q[i] = y
      /\ \A y : y \in Members(r) <=> \E i \in DOMAIN r : r[i] = y
      /\ Members(q) \subseteq S
  BY <1>3, MembersAt
<1>5. \A i \in DOMAIN r : i + 1 # 1
  BY <1>1
<1>6. \A i \in DOMAIN r : r[i] # q[1]
  BY <1>1, <1>3, <1>5
<1>7. \A y : y \in Members(r) <=> y \in Members(q) /\ y # q[1]
  BY <1>1, <1>2, <1>4, <1>6
<1> QED
  BY <1>1, <1>3, <1>4, <1>7 DEF r

(* list_delete takes one node from where it is. *)
LEMMA MembersDelete ==
  ASSUME NEW S, NEW q \in Seq(S), NEW n \in DOMAIN q, \A i, j \in DOMAIN q : q[i] = q[j] => i = j
  PROVE  /\ list_delete(q, n) \in Seq(S) /\ Members(list_delete(q, n)) = Members(q) \ {q[n]}
         /\ \A i, j \in DOMAIN list_delete(q, n) :
              list_delete(q, n)[i] = list_delete(q, n)[j] => i = j
<1> DEFINE d == list_delete(q, n)
           From(i) == IF i < n THEN i ELSE i + 1
<1>1. Len(q) \in Nat /\ n \in 1 .. Len(q) /\ DOMAIN q = 1 .. Len(q)
  OBVIOUS
<1>2. DOMAIN d = 1 .. Len(q) - 1 /\ \A i \in DOMAIN d : From(i) \in DOMAIN q /\ d[i] = q[From(i)]
  BY <1>1 DEF list_delete
<1>3. d \in Seq(S) /\ Len(d) = Len(q) - 1
  BY <1>1, <1>2 DEF list_delete
<1>4. \A i \in DOMAIN q : i # n => \E k \in DOMAIN d : From(k) = i
  <2> SUFFICES ASSUME NEW i \in DOMAIN q, i # n PROVE \E k \in DOMAIN d : From(k) = i
    OBVIOUS
  <2>1. CASE i < n
    BY <1>1, <1>2, <2>1
  <2>2. CASE i > n
    <3>1. i - 1 \in DOMAIN d /\ From(i - 1) = i
      BY <1>1, <1>2, <2>2
    <3> QED
      BY <3>1
  <2> QED
    BY <1>1, <2>1, <2>2
<1>5. \A i, j \in DOMAIN d : From(i) = From(j) => i = j
  BY <1>1, <1>2
<1>6. \A i \in DOMAIN d : From(i) # n
  BY <1>1, <1>2
<1> HIDE DEF From
<1>7. \A i, j \in DOMAIN d : d[i] = d[j] => i = j
  BY <1>2, <1>5
<1>8. \A y : y \in Members(d) <=> y \in Members(q) /\ y # q[n]
  <2>1. /\ \A y : y \in Members(q) <=> \E i \in DOMAIN q : q[i] = y
        /\ \A y : y \in Members(d) <=> \E i \in DOMAIN d : d[i] = y
    BY <1>3, MembersAt
  <2> HIDE DEF d
  <2> QED
    BY <1>2, <1>4, <1>6, <2>1
<1> QED
  BY <1>3, <1>7, <1>8

(* A channel is linked when it waits for a port or for accept. *)
LEMMA LinkedSplit ==
  \A c \in Chans : /\ Linked(c) <=> Waits(c) \/ Pend(c)
                   /\ Linked(c)' <=> Waits(c)' \/ Pend(c)'
BY DEF Linked, Waits, Pend

-----------------------------------------------------------------------------
(* What becomes of the channels, by the kind of step *)

(* States, peers and references stay, and so do holders and lists. *)
SameFields(c) == /\ St(c)' = St(c) /\ Pr(c)' = Pr(c)
                 /\ HRef(c)' <=> HRef(c)
                 /\ NRef(c)' <=> NRef(c)
                 /\ PRef(c)' <=> PRef(c)
SamePlaces(c) == /\ Held(c)' <=> Held(c)
                 /\ Waits(c)' <=> Waits(c)
                 /\ Pend(c)' <=> Pend(c)

(* A step of ForwardOnly. *)
Forward == \A c \in Chans :
             /\ St(c) = "DISCONNECTING" => St(c)' \in {"DISCONNECTING", "FREE"}
             /\ St(c) = "CONNECTED" => St(c)' \in {"CONNECTED", "DISCONNECTING"}

(* A step that leaves all that the invariant is about. *)
LEMMA ChansKeep ==
  ASSUME ChanInv, \A c \in Chans : SameFields(c) /\ SamePlaces(c)
  PROVE  ChanInv' /\ Forward
<1> USE DEF ChanInv, SameFields, SamePlaces
<1>1. Refs'
  BY DEF Refs
<1>2. Peers'
  BY DEF Peers
<1>3. Ends'
  BY DEF Ends
<1>4. Waiting'
  BY DEF Waiting
<1>5. FieldTypes'
  BY DEF FieldTypes
<1>6. Forward
  BY DEF Forward
<1> QED
  BY <1>1, <1>2, <1>3, <1>4, <1>5, <1>6

(* The channels of S are shut down and taken out of the pending lists, and *)
(* their peers are hung up.                                                *)
Hung(st) == IF st \in {"CONNECTED", "CONNECTING", "ACCEPTING"} THEN "DISCONNECTING" ELSE st
Shut(S) ==
  /\ \A c \in S : /\ St(c) \notin {"FREE", "WAITING_FOR_PORT"} /\ Pr(c) \notin S
                  /\ Pr(c)' = None /\ ~NRef(c)' /\ ~Pend(c)'
                  /\ PRef(c)' <=> PRef(c)
  /\ \A c \in Chans : c \notin S => /\ Pr(c)' = Pr(c)
                                    /\ NRef(c)' <=> NRef(c)
                                    /\ Pend(c)' <=> Pend(c)
  /\ \A c \in Chans : c \in PeersOf(S) => ~PRef(c)'
  /\ \A c \in Chans : c \notin PeersOf(S) => (PRef(c)' <=> PRef(c))
  /\ \A c \in Chans : c \notin S \cup PeersOf(S) => St(c)' = St(c)
  /\ \A c \in Chans : c \in S \cup PeersOf(S) =>
       St(c)' = IF HRef(c)' \/ NRef(c)' \/ PRef(c)' THEN Hung(St(c)) ELSE "FREE"
  /\ \A c \in Chans : /\ HRef(c)' <=> HRef(c)
                      /\ Held(c)' <=> Held(c)
                      /\ Waits(c)' <=> Waits(c)

(* What a shutdown leaves. *)
LEMMA ChansShut ==
  ASSUME ChanInv, NEW S \in SUBSET Chans, Shut(S)
  PROVE  ChanInv' /\ Forward
<1>0. None \notin Chans
  BY NoneAssumption
<1>1. \A d : d \in PeersOf(S) <=> d # None /\ \E c \in S : Pr(c) = d
  BY DEF PeersOf, Pr
<1>2. FieldTypes'
  BY DEF ChanInv, FieldTypes, Shut, Hung, ChanStates
<1>3. PeersOf(S) \subseteq Chans /\ S \cap PeersOf(S) = {}
  BY <1>1 DEF ChanInv, FieldTypes, Shut
<1>4. \A d \in Chans : d \in PeersOf(S) => PRef(d) /\ St(d) \notin {"FREE", "WAITING_FOR_PORT"}
  <2> SUFFICES ASSUME NEW d \in Chans, d \in PeersOf(S)
               PROVE  PRef(d) /\ St(d) \notin {"FREE", "WAITING_FOR_PORT"}
    OBVIOUS
  <2>1. \E c \in Chans : Pr(c) = d
    BY <1>1
  <2>2. PRef(d) /\ St(d) # "FREE"
    BY <2>1 DEF ChanInv, Refs
  <2> QED
    BY <2>2 DEF ChanInv, Waiting
<1>5. \A c, d \in Chans : d \in PeersOf(S) /\ Pr(c) = d => c \in S
  BY <1>1 DEF ChanInv, Peers
<1>6. Refs'
  <2> SUFFICES ASSUME NEW c \in Chans
               PROVE  /\ HRef(c)' <=> Held(c)'
                      /\ NRef(c)' <=> Waits(c)' \/ Pend(c)'
                      /\ PRef(c)' <=> \E d \in Chans : Pr(d)' = c
                      /\ St(c)' = "FREE" <=> ~HRef(c)' /\ ~NRef(c)' /\ ~PRef(c)'
    BY DEF Refs
  <2>1. HRef(c)' <=> Held(c)'
    BY DEF ChanInv, Refs, Shut
  <2>2. NRef(c)' <=> Waits(c)' \/ Pend(c)'
    <3>1. CASE c \in S
      BY <3>1 DEF ChanInv, Waiting, Shut
    <3>2. CASE c \notin S
      BY <3>2 DEF ChanInv, Refs, Shut
    <3> QED
      BY <3>1, <3>2
  <2>3. PRef(c)' <=> \E d \in Chans : Pr(d)' = c
    <3>1. CASE c \in PeersOf(S)
      <4>1. \A d \in Chans : Pr(d)' # c
        BY <1>0, <1>5, <3>1 DEF Shut
      <4> QED
        BY <3>1, <4>1 DEF Shut
    <3>2. CASE c \notin PeersOf(S)
      <4>1. \A d \in Chans : Pr(d)' = c <=> Pr(d) = c
        BY <1>0, <1>1, <3>2 DEF Shut
      <4>2. PRef(c)' <=> PRef(c)
        BY <3>2 DEF Shut
      <4> QED
        BY <4>1, <4>2 DEF ChanInv, Refs
    <3> QED
      BY <3>1, <3>2
  <2>4. St(c)' = "FREE" <=> ~HRef(c)' /\ ~NRef(c)' /\ ~PRef(c)'
    <3>1. CASE c \in S \cup PeersOf(S)
      <4>1. St(c) # "FREE"
        BY <1>4, <3>1 DEF Shut
      <4>2. Hung(St(c)) # "FREE"
        BY <4>1 DEF Hung
      <4> QED
        BY <3>1, <4>2 DEF Shut
    <3>2. CASE c \notin S \cup PeersOf(S)
      BY <3>2 DEF Shut, ChanInv, Refs
    <3> QED
      BY <3>1, <3>2
  <2> QED
    BY <2>1, <2>2, <2>3, <2>4
<1>7. Peers'
  <2>1. \A c, d \in Chans : Pr(c)' = d => c # d /\ Pr(d)' \in {c, None}
    BY <1>0 DEF ChanInv, Peers, Shut
  <2>2. \A c, d \in Chans : Pr(c)' = Pr(d)' /\ Pr(c)' # None => c = d
    BY DEF ChanInv, Peers, Shut
  <2>3. \A c \in Chans : Pr(c)' # None => HRef(c)' \/ NRef(c)'
    BY DEF ChanInv, Peers, Shut
  <2>4. \A c, d \in Chans : Pend(c)' /\ Pend(d)' => Pr(c)' # d
    BY DEF ChanInv, Peers, Shut
  <2> QED
    BY <2>1, <2>2, <2>3, <2>4 DEF Peers
<1>8. \A c \in Chans : St(c)' \in {"CONNECTED", "CONNECTING", "ACCEPTING"} =>
        c \notin S /\ c \notin PeersOf(S) /\ St(c)' = St(c)
  BY DEF Shut, Hung
<1>9. \A c, d \in Chans : c \notin S /\ c \notin PeersOf(S) /\ Pr(c) = d /\ Pr(d) = c =>
        d \notin S /\ d \notin PeersOf(S) /\ St(d)' = St(d) /\ Pr(c)' = d /\ Pr(d)' = c
  BY <1>0, <1>1, <1>5 DEF Shut
<1>10. Ends'
  <2> SUFFICES ASSUME NEW c \in Chans
               PROVE  /\ St(c)' = "CONNECTED" =>
                           \E d \in Chans : Pr(c)' = d /\ Pr(d)' = c /\ St(d)' = "CONNECTED"
                      /\ St(c)' = "CONNECTING" =>
                           \E d \in Chans : Pr(c)' = d /\ Pr(d)' = c /\ St(d)' = "ACCEPTING"
                      /\ St(c)' = "ACCEPTING" =>
                           /\ Pend(c)'
                           /\ \E d \in Chans : Pr(c)' = d /\ Pr(d)' = c /\ St(d)' = "CONNECTING"
                      /\ St(c)' \in {"FREE", "WAITING_FOR_PORT"} => Pr(c)' = None
                      /\ \A d \in Chans : Pr(c)' = d /\ Pr(d)' # c => St(c)' = "DISCONNECTING"
                      /\ Pend(c)' => St(c)' \in {"ACCEPTING", "DISCONNECTING"} /\ ~Held(c)'
    BY DEF Ends
  <2>1. St(c)' = "CONNECTED" =>
          \E d \in Chans : Pr(c)' = d /\ Pr(d)' = c /\ St(d)' = "CONNECTED"
    BY <1>8, <1>9 DEF ChanInv, Ends
  <2>2. St(c)' = "CONNECTING" =>
          \E d \in Chans : Pr(c)' = d /\ Pr(d)' = c /\ St(d)' = "ACCEPTING"
    BY <1>8, <1>9 DEF ChanInv, Ends
  <2>3. St(c)' = "ACCEPTING" =>
          Pend(c)' /\ \E d \in Chans : Pr(c)' = d /\ Pr(d)' = c /\ St(d)' = "CONNECTING"
    BY <1>8, <1>9 DEF ChanInv, Ends, Shut
  <2>4. St(c)' \in {"FREE", "WAITING_FOR_PORT"} => Pr(c)' = None
    <3>1. CASE St(c)' = "FREE"
      BY <1>6, <1>7, <3>1 DEF Refs, Peers
    <3>2. CASE St(c)' = "WAITING_FOR_PORT"
      <4>1. St(c) = "WAITING_FOR_PORT" /\ c \notin S
        BY <1>4, <3>2 DEF Shut, Hung
      <4> QED
        BY <4>1 DEF ChanInv, Ends, Shut
    <3> QED
      BY <3>1, <3>2
  <2>5. ASSUME NEW d \in Chans, Pr(c)' = d, Pr(d)' # c PROVE St(c)' = "DISCONNECTING"
    <3>1. c \notin S /\ Pr(c) = d /\ St(c)' # "FREE"
      BY <1>0, <1>6, <1>7, <2>5 DEF Shut, Refs, Peers
    <3>2. CASE Pr(d) = c
      <4>1. c \in PeersOf(S)
        BY <1>0, <1>1, <2>5, <3>2 DEF Shut
      <4>2. Hung(St(c)) = "DISCONNECTING"
        BY <1>4, <4>1 DEF ChanInv, FieldTypes, ChanStates, Hung
      <4> QED
        BY <3>1, <4>1, <4>2 DEF Shut
    <3>3. CASE Pr(d) # c
      <4>1. St(c) = "DISCONNECTING"
        BY <3>1, <3>3 DEF ChanInv, Ends
      <4> QED
        BY <3>1, <4>1 DEF Hung, Shut
    <3> QED
      BY <3>2, <3>3
  <2>6. ASSUME Pend(c)' PROVE St(c)' \in {"ACCEPTING", "DISCONNECTING"} /\ ~Held(c)'
    <3>1. c \notin S /\ St(c) \in {"ACCEPTING", "DISCONNECTING"} /\ ~Held(c)'
      BY <2>6 DEF ChanInv, Ends, Shut
    <3>2. St(c)' # "FREE"
      BY <1>6, <2>6 DEF Refs
    <3> QED
      BY <3>1, <3>2 DEF Hung, Shut
  <2> QED
    BY <2>1, <2>2, <2>3, <2>4, <2>5, <2>6
<1>11. Waiting'
  <2>1. \A c \in Chans : St(c)' = "WAITING_FOR_PORT" <=> St(c) = "WAITING_FOR_PORT"
    <3> TAKE c \in Chans
    <3>1. CASE c \in S \cup PeersOf(S)
      BY <1>4, <3>1 DEF Hung, Shut
    <3>2. CASE c \notin S \cup PeersOf(S)
      BY <3>2 DEF Shut
    <3> QED
      BY <3>1, <3>2
  <2>2. \A c \in Chans : Waits(c) => ~PRef(c)'
    BY DEF ChanInv, Waiting, Shut
  <2> QED
    BY <2>1, <2>2 DEF ChanInv, Waiting, Shut
<1>12. Forward
  <2> SUFFICES ASSUME NEW c \in Chans
               PROVE  /\ St(c) = "DISCONNECTING" => St(c)' \in {"DISCONNECTING", "FREE"}
                      /\ St(c) = "CONNECTED" => St(c)' \in {"CONNECTED", "DISCONNECTING"}
    BY DEF Forward
  <2>1. CASE St(c) = "DISCONNECTING"
    BY <2>1 DEF Shut, Hung
  <2>2. CASE St(c) = "CONNECTED"
    <3>1. Pr(c) # None /\ ~Pend(c) /\ ~Waits(c)
      BY <1>0, <2>2 DEF ChanInv, Ends, Waiting
    <3>2. HRef(c) /\ HRef(c)'
      BY <3>1 DEF ChanInv, Peers, Refs, Shut
    <3> QED
      BY <2>2, <3>2 DEF Shut, Hung
  <2> QED
    BY <2>1, <2>2
<1> QED
  BY <1>2, <1>6, <1>7, <1>10, <1>11, <1>12 DEF ChanInv

(* The channels outside X stay as they are. *)
Others(X) == \A x \in Chans : x \notin X => SameFields(x) /\ SamePlaces(x)

(* Servers are made for the clients of A. *)
Attach(A, new) ==
  /\ \A c \in A : /\ St(c) \in {"FREE", "WAITING_FOR_PORT"}
                  /\ St(c)' = "CONNECTING" /\ Pr(c)' = new[c]
                  /\ HRef(c)' /\ ~NRef(c)' /\ PRef(c)'
                  /\ Held(c)' /\ ~Waits(c)' /\ ~Pend(c)'
  /\ \A c \in A : /\ new[c] \in Chans /\ new[c] \notin A /\ St(new[c]) = "FREE"
                  /\ St(new[c])' = "ACCEPTING" /\ Pr(new[c])' = c
                  /\ ~HRef(new[c])' /\ NRef(new[c])' /\ PRef(new[c])'
                  /\ ~Held(new[c])' /\ ~Waits(new[c])' /\ Pend(new[c])'
  /\ Others(A \cup {new[c] : c \in A})

(* port_attach_client, for one client or for all that waited. *)
LEMMA ChansAttach ==
  ASSUME ChanInv, NEW A \in SUBSET Chans, NEW new, Attach(A, new)
  PROVE  ChanInv' /\ Forward
<1> DEFINE New(x) == \E c \in A : new[c] = x
<1>0. None \notin Chans
  BY NoneAssumption
<1>1. \A c \in A : /\ c \in Chans /\ St(c) \in {"FREE", "WAITING_FOR_PORT"} /\ ~New(c)
                   /\ St(c)' = "CONNECTING" /\ Pr(c)' = new[c]
                   /\ HRef(c)' /\ ~NRef(c)' /\ PRef(c)'
                   /\ Held(c)' /\ ~Waits(c)' /\ ~Pend(c)'
  BY DEF Attach
<1>2. \A x \in Chans : New(x) => /\ St(x) = "FREE" /\ x \notin A
                                 /\ St(x)' = "ACCEPTING" /\ Pr(x)' \in A /\ new[Pr(x)'] = x
                                 /\ ~HRef(x)' /\ NRef(x)' /\ PRef(x)'
                                 /\ ~Held(x)' /\ ~Waits(x)' /\ Pend(x)'
  BY DEF Attach
<1>3. \A c \in A : new[c] \in Chans /\ New(new[c]) /\ Pr(new[c])' = c
  BY DEF Attach
<1>4. \A x \in Chans : x \notin A /\ ~New(x) => SameFields(x) /\ SamePlaces(x)
  BY DEF Attach, Others
<1> HIDE DEF New
<1>5. \A c \in Chans : c \in A \/ New(c) => ~PRef(c) /\ Pr(c) = None /\ \A d \in Chans : Pr(d) # c
  <2>1. \A c \in Chans : c \in A \/ New(c) => St(c) \in {"FREE", "WAITING_FOR_PORT"}
    BY <1>1, <1>2
  <2>2. \A c \in Chans : St(c) = "FREE" => ~PRef(c)
    BY DEF ChanInv, Refs
  <2>3. \A c \in Chans : St(c) = "WAITING_FOR_PORT" => ~PRef(c)
    BY DEF ChanInv, Waiting
  <2>4. \A c \in Chans : ~PRef(c) => \A d \in Chans : Pr(d) # c
    BY DEF ChanInv, Refs
  <2> QED
    BY <2>1, <2>2, <2>3, <2>4 DEF ChanInv, Ends
<1>6. FieldTypes'
  BY <1>1, <1>2, <1>3, <1>4 DEF ChanInv, FieldTypes, SameFields, ChanStates
<1>7. Refs'
  <2> SUFFICES ASSUME NEW c \in Chans
               PROVE  /\ HRef(c)' <=> Held(c)'
                      /\ NRef(c)' <=> Waits(c)' \/ Pend(c)'
                      /\ PRef(c)' <=> \E d \in Chans : Pr(d)' = c
                      /\ St(c)' = "FREE" <=> ~HRef(c)' /\ ~NRef(c)' /\ ~PRef(c)'
    BY DEF Refs
  <2>1. CASE c \in A
    BY <1>1, <1>3, <2>1
  <2>2. CASE New(c)
    BY <1>1, <1>2, <2>2
  <2>3. CASE c \notin A /\ ~New(c)
    <3>1. \A d \in Chans : Pr(d)' = c <=> Pr(d) = c
      <4> TAKE d \in Chans
      <4>1. CASE d \in A \/ New(d)
        BY <1>0, <1>1, <1>2, <1>3, <1>5, <2>3, <4>1
      <4>2. CASE ~(d \in A \/ New(d))
        BY <1>4, <4>2 DEF SameFields
      <4> QED
        BY <4>1, <4>2
    <3> QED
      BY <1>4, <2>3, <3>1 DEF ChanInv, Refs, SameFields, SamePlaces
  <2> QED
    BY <2>1, <2>2, <2>3
<1>8. Peers'
  <2>1. \A c, d \in Chans : Pr(c)' = d => c # d /\ Pr(d)' \in {c, None}
    <3> SUFFICES ASSUME NEW c \in Chans, NEW d \in Chans, Pr(c)' = d
                 PROVE  c # d /\ Pr(d)' \in {c, None}
      OBVIOUS
    <3>1. CASE c \in A
      BY <1>1, <1>3, <3>1
    <3>2. CASE New(c)
      BY <1>1, <1>2, <3>2
    <3>3. CASE c \notin A /\ ~New(c)
      <4>1. Pr(c) = d
        BY <1>4, <3>3 DEF SameFields
      <4>2. d \notin A /\ ~New(d)
        BY <1>5, <4>1
      <4> QED
        BY <1>4, <4>1, <4>2 DEF ChanInv, Peers, SameFields
    <3> QED
      BY <3>1, <3>2, <3>3
  <2>2. \A c, d \in Chans : Pr(c)' = Pr(d)' /\ Pr(c)' # None => c = d
    <3> SUFFICES ASSUME NEW c \in Chans, NEW d \in Chans, Pr(c)' = Pr(d)', Pr(c)' # None
                 PROVE  c = d
      OBVIOUS
    <3>0. \A x \in Chans : x \notin A /\ ~New(x) => Pr(x)' = Pr(x) /\ Pr(x)' \notin A /\ ~New(Pr(x)')
      <4> TAKE x \in Chans
      <4> HAVE x \notin A /\ ~New(x)
      <4>1. Pr(x)' = Pr(x) /\ Pr(x) \in Chans \cup {None}
        BY <1>4 DEF SameFields, ChanInv, FieldTypes
      <4>2. A \subseteq Chans /\ \A y : New(y) => y \in Chans
        BY <1>3 DEF New
      <4> QED
        BY <1>0, <1>5, <4>1, <4>2
    <3>1. CASE c \in A
      BY <1>1, <1>2, <1>3, <3>0, <3>1
    <3>2. CASE New(c)
      BY <1>1, <1>2, <1>3, <3>0, <3>2
    <3>3. CASE c \notin A /\ ~New(c)
      <4>1. d \notin A /\ ~New(d)
        BY <1>1, <1>2, <1>3, <3>0, <3>3
      <4> QED
        BY <3>0, <3>3, <4>1 DEF ChanInv, Peers
    <3> QED
      BY <3>1, <3>2, <3>3
  <2>3. \A c \in Chans : Pr(c)' # None => HRef(c)' \/ NRef(c)'
    BY <1>1, <1>2, <1>4 DEF ChanInv, Peers, SameFields
  <2>4. \A c, d \in Chans : Pend(c)' /\ Pend(d)' => Pr(c)' # d
    <3> SUFFICES ASSUME NEW c \in Chans, NEW d \in Chans, Pend(c)', Pend(d)', Pr(c)' = d
                 PROVE  FALSE
      OBVIOUS
    <3>1. c \notin A /\ d \notin A
      BY <1>1
    <3>2. ~New(c)
      BY <1>2, <3>1
    <3>3. Pr(c) = d /\ Pend(c)
      BY <1>4, <3>1, <3>2 DEF SameFields, SamePlaces
    <3>4. ~New(d)
      BY <1>5, <3>3
    <3> QED
      BY <1>4, <3>1, <3>3, <3>4 DEF SamePlaces, ChanInv, Peers
  <2> QED
    BY <2>1, <2>2, <2>3, <2>4 DEF Peers
<1>9. \A c, d \in Chans : c \notin A /\ ~New(c) /\ Pr(c) = d =>
        d \notin A /\ ~New(d) /\ SameFields(d)
  BY <1>4, <1>5
<1>10. Ends'
  <2> SUFFICES ASSUME NEW c \in Chans
               PROVE  /\ St(c)' = "CONNECTED" =>
                           \E d \in Chans : Pr(c)' = d /\ Pr(d)' = c /\ St(d)' = "CONNECTED"
                      /\ St(c)' = "CONNECTING" =>
                           \E d \in Chans : Pr(c)' = d /\ Pr(d)' = c /\ St(d)' = "ACCEPTING"
                      /\ St(c)' = "ACCEPTING" =>
                           /\ Pend(c)'
                           /\ \E d \in Chans : Pr(c)' = d /\ Pr(d)' = c /\ St(d)' = "CONNECTING"
                      /\ St(c)' \in {"FREE", "WAITING_FOR_PORT"} => Pr(c)' = None
                      /\ \A d \in Chans : Pr(c)' = d /\ Pr(d)' # c => St(c)' = "DISCONNECTING"
                      /\ Pend(c)' => St(c)' \in {"ACCEPTING", "DISCONNECTING"} /\ ~Held(c)'
    BY DEF Ends
  <2>1. CASE c \in A
    BY <1>1, <1>2, <1>3, <2>1
  <2>2. CASE New(c)
    BY <1>1, <1>2, <1>3, <2>2
  <2>3. CASE c \notin A /\ ~New(c)
    BY <1>4, <1>9, <2>3 DEF ChanInv, Ends, SameFields, SamePlaces
  <2> QED
    BY <2>1, <2>2, <2>3
<1>11. Waiting'
  BY <1>1, <1>2, <1>4 DEF ChanInv, Waiting, SameFields, SamePlaces
<1>12. Forward
  BY <1>1, <1>2, <1>4 DEF SameFields, Forward
<1> QED
  BY <1>6, <1>7, <1>8, <1>10, <1>11, <1>12 DEF ChanInv

(* A free channel begins to wait for a port. *)
Wait(c) ==
  /\ St(c) = "FREE" /\ St(c)' = "WAITING_FOR_PORT" /\ Pr(c)' = None
  /\ HRef(c)' /\ NRef(c)' /\ ~PRef(c)' /\ Held(c)' /\ Waits(c)' /\ ~Pend(c)'
  /\ Others({c})

(* The wait in ipc_port_connect_async. *)
LEMMA ChansWait ==
  ASSUME ChanInv, NEW c \in Chans, Wait(c)
  PROVE  ChanInv' /\ Forward
<1>0. None \notin Chans
  BY NoneAssumption
<1>1. \A x \in Chans : x # c => SameFields(x) /\ SamePlaces(x)
  BY DEF Wait, Others
<1>2. Pr(c) = None /\ \A x \in Chans : Pr(x) # c
  BY DEF ChanInv, Wait, Refs, Ends
<1>3. \A x \in Chans : Pr(x)' = Pr(x)
  BY <1>1, <1>2 DEF SameFields, Wait
<1>4. FieldTypes'
  BY <1>1, <1>3 DEF ChanInv, FieldTypes, SameFields, ChanStates, Wait
<1>5. Refs'
  BY <1>1, <1>2, <1>3 DEF ChanInv, Refs, SameFields, SamePlaces, Wait
<1>6. Peers'
  BY <1>1, <1>2, <1>3 DEF ChanInv, Peers, SameFields, SamePlaces, Wait
<1>7. Ends'
  BY <1>0, <1>1, <1>2, <1>3 DEF ChanInv, Ends, SameFields, SamePlaces, Wait
<1>8. Waiting'
  BY <1>1 DEF ChanInv, Waiting, SameFields, SamePlaces, Wait
<1>9. Forward
  BY <1>1 DEF SameFields, Forward, Wait
<1> QED
  BY <1>4, <1>5, <1>6, <1>7, <1>8, <1>9 DEF ChanInv

(* A waiting channel gives up. *)
Unwait(c) ==
  /\ St(c) = "WAITING_FOR_PORT" /\ St(c)' = "DISCONNECTING" /\ Pr(c)' = Pr(c)
  /\ HRef(c)' /\ ~NRef(c)' /\ ~PRef(c)' /\ Held(c)' /\ ~Waits(c)' /\ ~Pend(c)'
  /\ Others({c})

(* The shutdown of a channel that waits. *)
LEMMA ChansUnwait ==
  ASSUME ChanInv, NEW c \in Chans, Unwait(c)
  PROVE  ChanInv' /\ Forward
<1>0. None \notin Chans
  BY NoneAssumption
<1>1. \A x \in Chans : x # c => SameFields(x) /\ SamePlaces(x)
  BY DEF Unwait, Others
<1>2. Pr(c) = None /\ \A x \in Chans : Pr(x) # c
  BY DEF ChanInv, Unwait, Refs, Ends, Waiting
<1>3. \A x \in Chans : Pr(x)' = Pr(x)
  BY <1>1, <1>2 DEF SameFields, Unwait
<1>4. FieldTypes'
  BY <1>1, <1>3 DEF ChanInv, FieldTypes, SameFields, ChanStates, Unwait
<1>5. Refs'
  BY <1>1, <1>2, <1>3 DEF ChanInv, Refs, SameFields, SamePlaces, Unwait
<1>6. Peers'
  BY <1>1, <1>2, <1>3 DEF ChanInv, Peers, SameFields, SamePlaces, Unwait
<1>7. Ends'
  BY <1>0, <1>1, <1>2, <1>3 DEF ChanInv, Ends, SameFields, SamePlaces, Unwait
<1>8. Waiting'
  BY <1>1 DEF ChanInv, Waiting, SameFields, SamePlaces, Unwait
<1>9. Forward
  BY <1>1 DEF SameFields, Forward, Unwait
<1> QED
  BY <1>4, <1>5, <1>6, <1>7, <1>8, <1>9 DEF ChanInv

(* The handle of a channel that was shut down goes. *)
Destroy(c) ==
  /\ Held(c) /\ St(c) = "DISCONNECTING" /\ Pr(c) = None
  /\ ~Held(c)' /\ ~HRef(c)' /\ Pr(c)' = None
  /\ NRef(c)' <=> NRef(c)
  /\ PRef(c)' <=> PRef(c)
  /\ Waits(c)' <=> Waits(c)
  /\ Pend(c)' <=> Pend(c)
  /\ St(c)' = IF NRef(c) \/ PRef(c) THEN St(c) ELSE "FREE"
  /\ Others({c})

(* chan_handle_destroy *)
LEMMA ChansDestroy ==
  ASSUME ChanInv, NEW c \in Chans, Destroy(c)
  PROVE  ChanInv' /\ Forward
<1>0. None \notin Chans
  BY NoneAssumption
<1>1. \A x \in Chans : x # c => SameFields(x) /\ SamePlaces(x)
  BY DEF Destroy, Others
<1>2. ~Pend(c) /\ ~Waits(c)
  BY DEF ChanInv, Destroy, Ends, Waiting
<1>3. \A x \in Chans : Pr(x)' = Pr(x)
  BY <1>1, <1>2 DEF SameFields, Destroy
<1>4. FieldTypes'
  BY <1>1, <1>3 DEF ChanInv, FieldTypes, SameFields, ChanStates, Destroy
<1>5. Refs'
  BY <1>1, <1>2, <1>3 DEF ChanInv, Refs, SameFields, SamePlaces, Destroy
<1>6. Peers'
  BY <1>1, <1>2, <1>3 DEF ChanInv, Peers, SameFields, SamePlaces, Destroy
<1>7. Ends'
  <2>1. \A x \in Chans : x # c => St(x)' = St(x) /\ (Pend(x)' <=> Pend(x)) /\ (Held(x)' <=> Held(x))
    BY <1>1 DEF SameFields, SamePlaces
  <2>2. St(c)' \in {"DISCONNECTING", "FREE"} /\ ~Pend(c)' /\ St(c) = "DISCONNECTING"
    BY <1>2 DEF Destroy
  <2>3. Pr(c) = None
    BY DEF Destroy
  <2> QED
    BY <1>0, <1>3, <2>1, <2>2, <2>3 DEF ChanInv, Ends
<1>8. Waiting'
  BY <1>1, <1>2 DEF ChanInv, Waiting, SameFields, SamePlaces, Destroy
<1>9. Forward
  BY <1>1 DEF SameFields, Forward, Destroy
<1> QED
  BY <1>4, <1>5, <1>6, <1>7, <1>8, <1>9 DEF ChanInv

(* The server end s gets a handle, and both ends are connected. *)
Join(s, c) ==
  /\ Pr(s) = c /\ St(s) = "ACCEPTING" /\ St(c) = "CONNECTING"
  /\ St(s)' = "CONNECTED" /\ St(c)' = "CONNECTED" /\ Pr(s)' = Pr(s) /\ Pr(c)' = Pr(c)
  /\ HRef(s)' /\ ~NRef(s)' /\ Held(s)' /\ ~Pend(s)' /\ ~Waits(s)'
  /\ PRef(s)' <=> PRef(s)
  /\ HRef(c)' <=> HRef(c)
  /\ NRef(c)' <=> NRef(c)
  /\ PRef(c)' <=> PRef(c)
  /\ SamePlaces(c)
  /\ Others({s, c})

(* ipc_port_accept *)
LEMMA ChansJoin ==
  ASSUME ChanInv, NEW s \in Chans, NEW c \in Chans, Join(s, c)
  PROVE  ChanInv' /\ Forward
<1>0. None \notin Chans
  BY NoneAssumption
<1>1. \A x \in Chans : x # c /\ x # s => SameFields(x) /\ SamePlaces(x)
  BY DEF Join, Others
<1>2. Pr(s) = c /\ Pr(c) = s /\ s # c
  BY DEF ChanInv, Join, Ends
<1>3. \A x \in Chans : Pr(x)' = Pr(x)
  BY <1>1, <1>2 DEF SameFields, Join
<1>4. FieldTypes'
  BY <1>1, <1>3 DEF ChanInv, FieldTypes, SameFields, ChanStates, Join
<1>5. Refs'
  BY <1>1, <1>2, <1>3 DEF ChanInv, Refs, SameFields, SamePlaces, Join
<1>6. Peers'
  BY <1>1, <1>2, <1>3 DEF ChanInv, Peers, SameFields, SamePlaces, Join
<1>7. Ends'
  <2>1. \A x \in Chans : x # c /\ x # s =>
          St(x)' = St(x) /\ (Pend(x)' <=> Pend(x)) /\ (Held(x)' <=> Held(x))
    BY <1>1 DEF SameFields, SamePlaces
  <2>2. \A x, d \in Chans : x # c /\ x # s /\ Pr(x) = d /\ Pr(d) = x => d # c /\ d # s
    BY <1>2
  <2>3. /\ St(s)' = "CONNECTED" /\ St(c)' = "CONNECTED" /\ ~Pend(s)'
        /\ Pend(c)' <=> Pend(c)
    BY DEF Join, SamePlaces
  <2>4. ~Pend(c)
    BY DEF ChanInv, Ends, Join
  <2> QED
    BY <1>0, <1>2, <1>3, <2>1, <2>2, <2>3, <2>4 DEF ChanInv, Ends
<1>8. Waiting'
  BY <1>1, <1>2 DEF ChanInv, Waiting, SameFields, SamePlaces, Join
<1>9. Forward
  BY <1>1 DEF SameFields, Forward, Join
<1> QED
  BY <1>4, <1>5, <1>6, <1>7, <1>8, <1>9 DEF ChanInv

-----------------------------------------------------------------------------
(* References and shutdown, field by field *)

(* The references that a channel may have. *)
RefNames == {"handle", "node", "peer"}

(* chan_del_ref *)
LEMMA DelRefFields ==
  ASSUME NEW x \in ChanRecords, NEW r \in RefNames
  PROVE  /\ DelRef(x, r) \in ChanRecords
         /\ DelRef(x, r).peer = x.peer
         /\ DelRef(x, r).refs = x.refs \ {r}
         /\ DelRef(x, r).state = IF x.refs \ {r} = {} THEN "FREE" ELSE x.state
         /\ x.refs \ {r} = {} => DelRef(x, r).filled = 0
         /\ x.refs \ {r} # {} => /\ DelRef(x, r).path = x.path
                                 /\ DelRef(x, r).ready = x.ready
                                 /\ DelRef(x, r).filled = x.filled
<1>1. CASE x.refs \ {r} = {}
  <2>1. DelRef(x, r) = [FreeChan EXCEPT !.peer = x.peer]
    BY <1>1 DEF DelRef
  <2>2. x.peer \in Chans \cup {None}
    BY DEF ChanRecords
  <2>3. DelRef(x, r) = [state |-> "FREE", peer |-> x.peer, refs |-> {}, ready |-> FALSE,
                        path |-> None, hasq |-> FALSE, filled |-> 0, read |-> 0]
    BY <2>1 DEF FreeChan
  <2>4. DelRef(x, r) \in ChanRecords
    BY <2>2, <2>3 DEF ChanRecords, ChanStates
  <2>5. /\ DelRef(x, r).peer = x.peer /\ DelRef(x, r).refs = {}
        /\ DelRef(x, r).state = "FREE" /\ DelRef(x, r).filled = 0
    BY <2>3
  <2> QED
    BY <1>1, <2>4, <2>5
<1>2. CASE x.refs \ {r} # {}
  <2>1. DelRef(x, r) = [x EXCEPT !.refs = @ \ {r}]
    BY <1>2 DEF DelRef
  <2> QED
    BY <1>2, <2>1 DEF ChanRecords
<1> QED
  BY <1>1, <1>2

(* _chan_shutdown_locked *)
LEMMA HangUpFields ==
  ASSUME NEW x \in ChanRecords
  PROVE  /\ HangUp(x) \in ChanRecords
         /\ HangUp(x).state = Hung(x.state)
         /\ HangUp(x).peer = x.peer /\ HangUp(x).refs = x.refs /\ HangUp(x).path = x.path
         /\ HangUp(x).ready = x.ready /\ HangUp(x).filled = x.filled
<1>0. x.state \in ChanStates
  BY DEF ChanRecords
<1>1. Hung(x.state) \in ChanStates
  BY <1>0 DEF ChanStates, Hung
<1>2. HangUp(x) = [x EXCEPT !.state = Hung(x.state)]
  BY DEF HangUp, Hung
<1> QED
  BY <1>1, <1>2 DEF ChanRecords

(* The channels have their type. *)
ChansTyped == chan \in [Chans -> ChanRecords]

(* The other fields stay, or the channel is free. *)
Rest(c) == \/ St(c)' = "FREE" /\ Fil(c)' = 0
           \/ Rdy(c)' = Rdy(c) /\ Fil(c)' = Fil(c) /\ Pth(c)' = Pth(c)

(* chan_shutdown_locked of the channels of S; "node" is dropped too. *)
LEMMA ShutDownFields ==
  ASSUME ChansTyped, NEW S \in SUBSET Chans, S \cap PeersOf(S) = {}, NEW c \in Chans
  PROVE  LET x == ShutDown(S)[c] IN
         /\ x \in ChanRecords
         /\ c \in S => /\ x.peer = None /\ x.refs = chan[c].refs /\ x.state = Hung(chan[c].state)
                       /\ x.ready = chan[c].ready /\ x.filled = chan[c].filled
                       /\ x.path = chan[c].path
         /\ c \in PeersOf(S) => x = DelRef(HangUp(chan[c]), "peer")
         /\ c \notin S /\ c \notin PeersOf(S) => x = chan[c]
<1>1. chan[c] \in ChanRecords
  BY DEF ChansTyped
<1>2. CASE c \in S
  <2> DEFINE h == HangUp(chan[c])
  <2>1. /\ h \in ChanRecords /\ h.state = Hung(chan[c].state)
        /\ h.refs = chan[c].refs /\ h.path = chan[c].path
        /\ h.ready = chan[c].ready /\ h.filled = chan[c].filled
    BY <1>1, HangUpFields
  <2>2. ShutDown(S)[c] = [h EXCEPT !.peer = None]
    BY <1>2 DEF ShutDown
  <2>3. c \notin PeersOf(S)
    BY <1>2
  <2> HIDE DEF h
  <2> QED
    BY <1>2, <2>1, <2>2, <2>3 DEF ChanRecords
<1>3. CASE c \notin S /\ c \in PeersOf(S)
  <2>1. ShutDown(S)[c] = DelRef(HangUp(chan[c]), "peer")
    BY <1>3 DEF ShutDown
  <2>2. DelRef(HangUp(chan[c]), "peer") \in ChanRecords
    BY <1>1, HangUpFields, DelRefFields DEF RefNames
  <2> QED
    BY <1>3, <2>1, <2>2
<1>4. CASE c \notin S /\ c \notin PeersOf(S)
  <2>1. ShutDown(S)[c] = chan[c]
    BY <1>4 DEF ShutDown
  <2> QED
    BY <1>1, <1>4, <2>1
<1> QED
  BY <1>2, <1>3, <1>4

(* What a channel of S is after the step. *)
Down(S) ==
  \A c \in Chans :
    /\ chan'[c] \in ChanRecords
    /\ c \in S => /\ chan'[c].peer = None /\ chan'[c].refs = chan[c].refs \ {"node"}
                  /\ chan'[c].state = IF chan'[c].refs = {} THEN "FREE" ELSE Hung(chan[c].state)
                  /\ chan'[c].refs = {} => chan'[c].filled = 0
                  /\ chan'[c].refs # {} => /\ chan'[c].ready = chan[c].ready
                                           /\ chan'[c].filled = chan[c].filled
                                           /\ chan'[c].path = chan[c].path
    /\ c \in PeersOf(S) => chan'[c] = DelRef(HangUp(chan[c]), "peer")
    /\ c \notin S /\ c \notin PeersOf(S) => chan'[c] = chan[c]

(* AcceptDropped and PortShutdown drop the list references too. *)
LEMMA DownAndUnlinked ==
  ASSUME ChansTyped, NEW S \in SUBSET Chans, S \cap PeersOf(S) = {},
         \A c \in Chans : chan'[c] = IF c \in S THEN DelRef(ShutDown(S)[c], "node")
                                    ELSE ShutDown(S)[c]
  PROVE  Down(S)
<1> SUFFICES ASSUME NEW c \in Chans
             PROVE  /\ chan'[c] \in ChanRecords
                    /\ c \in S =>
                         /\ chan'[c].peer = None /\ chan'[c].refs = chan[c].refs \ {"node"}
                         /\ chan'[c].state = IF chan'[c].refs = {} THEN "FREE" ELSE Hung(chan[c].state)
                         /\ chan'[c].refs = {} => chan'[c].filled = 0
                         /\ chan'[c].refs # {} => /\ chan'[c].ready = chan[c].ready
                                                  /\ chan'[c].filled = chan[c].filled
                                                  /\ chan'[c].path = chan[c].path
                    /\ c \in PeersOf(S) => chan'[c] = DelRef(HangUp(chan[c]), "peer")
                    /\ c \notin S /\ c \notin PeersOf(S) => chan'[c] = chan[c]
  BY DEF Down
<1> DEFINE x == ShutDown(S)[c]
<1>1. /\ x \in ChanRecords
      /\ c \in S => /\ x.peer = None /\ x.refs = chan[c].refs /\ x.state = Hung(chan[c].state)
                    /\ x.ready = chan[c].ready /\ x.filled = chan[c].filled
                    /\ x.path = chan[c].path
      /\ c \in PeersOf(S) => x = DelRef(HangUp(chan[c]), "peer")
      /\ c \notin S /\ c \notin PeersOf(S) => x = chan[c]
  BY ShutDownFields
<1>2. chan'[c] = IF c \in S THEN DelRef(x, "node") ELSE x
  OBVIOUS
<1> HIDE DEF x
<1>3. CASE c \in S
  <2>1. /\ DelRef(x, "node") \in ChanRecords
        /\ DelRef(x, "node").peer = x.peer
        /\ DelRef(x, "node").refs = x.refs \ {"node"}
        /\ DelRef(x, "node").state = IF x.refs \ {"node"} = {} THEN "FREE" ELSE x.state
        /\ x.refs \ {"node"} = {} => DelRef(x, "node").filled = 0
        /\ x.refs \ {"node"} # {} => /\ DelRef(x, "node").path = x.path
                                     /\ DelRef(x, "node").ready = x.ready
                                     /\ DelRef(x, "node").filled = x.filled
    BY <1>1, DelRefFields DEF RefNames
  <2>2. chan'[c] = DelRef(x, "node") /\ c \notin PeersOf(S)
    BY <1>2, <1>3
  <2> QED
    BY <1>1, <1>3, <2>1, <2>2
<1>4. CASE c \notin S
  BY <1>1, <1>2, <1>4
<1> QED
  BY <1>3, <1>4

(* ChanShutdown: a channel with a handle is in no list. *)
LEMMA DownOnly ==
  ASSUME ChansTyped, NEW c \in Chans, "node" \notin chan[c].refs, chan[c].refs # {},
         {c} \cap PeersOf({c}) = {},
         \A x \in Chans : chan'[x] = ShutDown({c})[x]
  PROVE  Down({c})
<1> SUFFICES ASSUME NEW x \in Chans
             PROVE  /\ chan'[x] \in ChanRecords
                    /\ x = c =>
                         /\ chan'[x].peer = None /\ chan'[x].refs = chan[x].refs \ {"node"}
                         /\ chan'[x].state = IF chan'[x].refs = {} THEN "FREE" ELSE Hung(chan[x].state)
                         /\ chan'[x].refs = {} => chan'[x].filled = 0
                         /\ chan'[x].refs # {} => /\ chan'[x].ready = chan[x].ready
                                                  /\ chan'[x].filled = chan[x].filled
                                                  /\ chan'[x].path = chan[x].path
                    /\ x \in PeersOf({c}) => chan'[x] = DelRef(HangUp(chan[x]), "peer")
                    /\ x # c /\ x \notin PeersOf({c}) => chan'[x] = chan[x]
  BY DEF Down
<1>1. /\ chan'[x] \in ChanRecords
      /\ x = c => /\ chan'[x].peer = None /\ chan'[x].refs = chan[x].refs
                  /\ chan'[x].state = Hung(chan[x].state)
                  /\ chan'[x].ready = chan[x].ready /\ chan'[x].filled = chan[x].filled
                  /\ chan'[x].path = chan[x].path
      /\ x \in PeersOf({c}) => chan'[x] = DelRef(HangUp(chan[x]), "peer")
      /\ x # c /\ x \notin PeersOf({c}) => chan'[x] = chan[x]
  <2> DEFINE S == {c}
             y == ShutDown(S)[x]
  <2>1. S \in SUBSET Chans /\ S \cap PeersOf(S) = {}
    OBVIOUS
  <2>2. chan'[x] = y
    OBVIOUS
  <2>3. x \in S <=> x = c
    OBVIOUS
  <2> HIDE DEF S
  <2>4. /\ y \in ChanRecords
        /\ x \in S => /\ y.peer = None /\ y.refs = chan[x].refs
                      /\ y.state = Hung(chan[x].state)
                      /\ y.ready = chan[x].ready /\ y.filled = chan[x].filled
                      /\ y.path = chan[x].path
        /\ x \in PeersOf(S) => y = DelRef(HangUp(chan[x]), "peer")
        /\ x \notin S /\ x \notin PeersOf(S) => y = chan[x]
    BY <2>1, ShutDownFields
  <2> HIDE DEF y
  <2>5. PeersOf(S) = PeersOf({c})
    BY DEF S
  <2> QED
    BY <2>2, <2>3, <2>4, <2>5
<1>2. chan[c].refs \ {"node"} = chan[c].refs
  OBVIOUS
<1> QED
  BY <1>1, <1>2

(* A channel without references has none of the three. *)
LEMMA NoRefs ==
  ASSUME NEW x \in ChanRecords
  PROVE  x.refs = {} <=> "handle" \notin x.refs /\ "node" \notin x.refs /\ "peer" \notin x.refs
<1>1. x.refs \subseteq RefNames
  BY DEF ChanRecords, RefNames
<1> QED
  BY <1>1 DEF RefNames

(* Shutdown, in the words of the invariant. *)
LEMMA DownShut ==
  ASSUME ChansTyped, NEW S \in SUBSET Chans, Down(S),
         \A c \in S : St(c) \notin {"FREE", "WAITING_FOR_PORT"} /\ Pr(c) \notin S,
         S \cap PeersOf(S) = {},
         \A c \in Chans : /\ Held(c)' <=> Held(c)
                          /\ Waits(c)' <=> Waits(c)
                          /\ Pend(c)' <=> Pend(c) /\ c \notin S
  PROVE  Shut(S) /\ \A c \in Chans : Rest(c)
<1>1. ASSUME NEW c \in S
      PROVE  /\ Pr(c)' = None /\ ~NRef(c)' /\ ~Pend(c)'
             /\ PRef(c)' <=> PRef(c)
             /\ HRef(c)' <=> HRef(c)
             /\ St(c)' = IF HRef(c)' \/ NRef(c)' \/ PRef(c)' THEN Hung(St(c)) ELSE "FREE"
             /\ Rest(c)
  <2>1. /\ chan'[c] \in ChanRecords
        /\ chan'[c].peer = None /\ chan'[c].refs = chan[c].refs \ {"node"}
        /\ chan'[c].state = IF chan'[c].refs = {} THEN "FREE" ELSE Hung(chan[c].state)
        /\ chan'[c].refs = {} => chan'[c].filled = 0
        /\ chan'[c].refs # {} => /\ chan'[c].ready = chan[c].ready
                                 /\ chan'[c].filled = chan[c].filled
                                 /\ chan'[c].path = chan[c].path
    BY DEF Down
  <2>2. chan'[c].refs = {} <=> ~HRef(c)' /\ ~NRef(c)' /\ ~PRef(c)'
    BY <2>1, NoRefs DEF HRef, NRef, PRef
  <2>3. /\ ~NRef(c)'
        /\ PRef(c)' <=> PRef(c)
        /\ HRef(c)' <=> HRef(c)
    BY <2>1 DEF HRef, NRef, PRef
  <2>4. Pr(c)' = None /\ ~Pend(c)'
    BY <2>1 DEF Pr
  <2>5. St(c)' = IF HRef(c)' \/ NRef(c)' \/ PRef(c)' THEN Hung(St(c)) ELSE "FREE"
    BY <2>1, <2>2 DEF St
  <2>6. Rest(c)
    <3>1. CASE chan'[c].refs = {}
      BY <2>1, <2>2, <2>5, <3>1 DEF Rest, Fil
    <3>2. CASE chan'[c].refs # {}
      BY <2>1, <3>2 DEF Rest, Rdy, Fil, Pth
    <3> QED
      BY <3>1, <3>2
  <2> QED
    BY <2>3, <2>4, <2>5, <2>6
<1>2. ASSUME NEW c \in Chans, c \in PeersOf(S)
      PROVE  /\ Pr(c)' = Pr(c) /\ ~PRef(c)'
             /\ NRef(c)' <=> NRef(c)
             /\ HRef(c)' <=> HRef(c)
             /\ St(c)' = IF HRef(c)' \/ NRef(c)' \/ PRef(c)' THEN Hung(St(c)) ELSE "FREE"
             /\ Rest(c)
  <2> DEFINE h == HangUp(chan[c])
  <2>0. chan[c] \in ChanRecords
    BY DEF ChansTyped
  <2>1. /\ h \in ChanRecords
        /\ h.state = Hung(chan[c].state)
        /\ h.peer = chan[c].peer /\ h.refs = chan[c].refs /\ h.path = chan[c].path
        /\ h.ready = chan[c].ready /\ h.filled = chan[c].filled
    BY <2>0, HangUpFields
  <2>2. chan'[c] = DelRef(h, "peer") /\ chan'[c] \in ChanRecords
    BY <1>2 DEF Down
  <2> HIDE DEF h
  <2>3. /\ chan'[c].peer = h.peer
        /\ chan'[c].refs = h.refs \ {"peer"}
        /\ chan'[c].state = IF h.refs \ {"peer"} = {} THEN "FREE" ELSE h.state
        /\ h.refs \ {"peer"} = {} => chan'[c].filled = 0
        /\ h.refs \ {"peer"} # {} => /\ chan'[c].path = h.path
                                     /\ chan'[c].ready = h.ready
                                     /\ chan'[c].filled = h.filled
    BY <2>1, <2>2, DelRefFields DEF RefNames
  <2>4. chan'[c].refs = {} <=> ~HRef(c)' /\ ~NRef(c)' /\ ~PRef(c)'
    BY <2>2, NoRefs DEF HRef, NRef, PRef
  <2>5. /\ ~PRef(c)'
        /\ NRef(c)' <=> NRef(c)
        /\ HRef(c)' <=> HRef(c)
    BY <2>1, <2>3 DEF HRef, NRef, PRef
  <2>6. Pr(c)' = Pr(c)
    BY <2>1, <2>3 DEF Pr
  <2>7. St(c)' = IF HRef(c)' \/ NRef(c)' \/ PRef(c)' THEN Hung(St(c)) ELSE "FREE"
    BY <2>1, <2>3, <2>4 DEF St
  <2>8. Rest(c)
    <3>1. CASE chan'[c].refs = {}
      BY <2>3, <2>4, <2>7, <3>1 DEF Rest, Fil
    <3>2. CASE chan'[c].refs # {}
      BY <2>1, <2>3, <3>2 DEF Rest, Rdy, Fil, Pth
    <3> QED
      BY <3>1, <3>2
  <2> QED
    BY <2>5, <2>6, <2>7, <2>8
<1>3. ASSUME NEW c \in Chans, c \notin S, c \notin PeersOf(S)
      PROVE  SameFields(c) /\ Rest(c)
  BY <1>3 DEF Down, SameFields, Rest, St, Pr, HRef, NRef, PRef, Rdy, Fil, Pth
<1>4. /\ \A c \in S : Rest(c)
      /\ \A c \in Chans : c \in PeersOf(S) => Rest(c)
      /\ \A c \in Chans : c \notin S /\ c \notin PeersOf(S) => Rest(c)
  BY <1>1, <1>2, <1>3
<1>5. /\ \A c \in S : /\ St(c) \notin {"FREE", "WAITING_FOR_PORT"} /\ Pr(c) \notin S
                      /\ Pr(c)' = None /\ ~NRef(c)' /\ ~Pend(c)'
                      /\ PRef(c)' <=> PRef(c)
      /\ \A c \in Chans : c \notin S => /\ Pr(c)' = Pr(c)
                                        /\ NRef(c)' <=> NRef(c)
                                        /\ Pend(c)' <=> Pend(c)
  BY <1>1, <1>2, <1>3 DEF SameFields
<1>6. /\ \A c \in Chans : c \in PeersOf(S) => ~PRef(c)'
      /\ \A c \in Chans : c \notin PeersOf(S) => (PRef(c)' <=> PRef(c))
      /\ \A c \in Chans : c \notin S \cup PeersOf(S) => St(c)' = St(c)
      /\ \A c \in Chans : HRef(c)' <=> HRef(c)
  BY <1>1, <1>2, <1>3 DEF SameFields
<1>7. \A c \in Chans : c \in S \cup PeersOf(S) =>
        St(c)' = IF HRef(c)' \/ NRef(c)' \/ PRef(c)' THEN Hung(St(c)) ELSE "FREE"
  BY <1>1, <1>2
<1>8. Shut(S)
  BY <1>5, <1>6, <1>7 DEF Shut
<1> QED
  BY <1>4, <1>8

-----------------------------------------------------------------------------
(* Who holds what: system calls of one app *)

(* A step of app a's own thread. *)
AppStep(a) == \A b \in Apps : b # a => table'[b] = table[b] /\ pc'[b] = pc[b]

(* A step of app a, that takes hold of nothing that another app holds. *)
LEMMA OwnersStep ==
  ASSUME Owners, NEW a \in Apps, AppStep(a), OwnTypes', Local(a)',
         \A h \in Objs : HeldBy(a, h)' => HeldBy(a, h) \/ ~Held(h)
  PROVE  /\ Owners'
         /\ \A h \in Objs :
              /\ Held(h)' <=> HeldBy(a, h)' \/ (Held(h) /\ ~HeldBy(a, h))
              /\ InTab(h)' <=> h \in table'[a] \/ (InTab(h) /\ ~HeldBy(a, h))
              /\ Conn(h)' <=> ConnAt(a, h)' \/ (Conn(h) /\ ~HeldBy(a, h))
              /\ Closing(h)' <=> DestroyAt(a, h)' \/ (Closing(h) /\ ~HeldBy(a, h))
<1>1. \A b \in Apps, h \in Objs :
        b # a => /\ HeldBy(b, h)' <=> HeldBy(b, h)
                 /\ ConnAt(b, h)' <=> ConnAt(b, h)
                 /\ DestroyAt(b, h)' <=> DestroyAt(b, h)
                 /\ h \in table'[b] <=> h \in table[b]
  BY DEF AppStep, HeldBy, ConnAt, DestroyAt
<1>2. \A b \in Apps : b # a => Local(b)'
  BY DEF AppStep, Local, Owners
<1>3. \A b \in Apps, h \in Objs : ConnAt(b, h) \/ DestroyAt(b, h) \/ h \in table[b] => HeldBy(b, h)
  BY DEF ConnAt, DestroyAt, HeldBy
<1>4. \A b, d \in Apps, h \in Objs : HeldBy(b, h) /\ HeldBy(d, h) => b = d
  BY DEF Owners, Uniq
<1>5. \A h \in Objs : /\ Held(h) <=> \E b \in Apps : HeldBy(b, h)
                      /\ Held(h)' <=> \E b \in Apps : HeldBy(b, h)'
  BY DEF Held
<1>6. Uniq'
  <2> SUFFICES ASSUME NEW b \in Apps, NEW d \in Apps, NEW h \in Objs, HeldBy(b, h)', HeldBy(d, h)'
               PROVE  b = d
    BY DEF Uniq, Objs
  <2> QED
    BY <1>1, <1>4, <1>5
<1>7. Owners'
  BY <1>2, <1>6 DEF Owners
<1>8. ASSUME NEW h \in Objs
      PROVE  /\ Held(h)' <=> HeldBy(a, h)' \/ (Held(h) /\ ~HeldBy(a, h))
             /\ InTab(h)' <=> h \in table'[a] \/ (InTab(h) /\ ~HeldBy(a, h))
             /\ Conn(h)' <=> ConnAt(a, h)' \/ (Conn(h) /\ ~HeldBy(a, h))
             /\ Closing(h)' <=> DestroyAt(a, h)' \/ (Closing(h) /\ ~HeldBy(a, h))
  <2>1. Held(h)' <=> HeldBy(a, h)' \/ (Held(h) /\ ~HeldBy(a, h))
    BY <1>1, <1>4, <1>5
  <2>2. InTab(h)' <=> h \in table'[a] \/ (InTab(h) /\ ~HeldBy(a, h))
    BY <1>1, <1>3, <1>4 DEF InTab
  <2>3. Conn(h)' <=> ConnAt(a, h)' \/ (Conn(h) /\ ~HeldBy(a, h))
    BY <1>1, <1>3, <1>4 DEF Conn
  <2>4. Closing(h)' <=> DestroyAt(a, h)' \/ (Closing(h) /\ ~HeldBy(a, h))
    BY <1>1, <1>3, <1>4 DEF Closing
  <2> QED
    BY <2>1, <2>2, <2>3, <2>4
<1> QED
  BY <1>7, <1>8

(* The table and the call of app a become T and w on o. *)
Moves(a, T, w, o) == /\ table' = [table EXCEPT ![a] = T]
                     /\ pc' = [pc EXCEPT ![a] = [at |-> w, obj |-> o]]

(* What the apps hold after it. *)
LEMMA OwnersMove ==
  ASSUME Owners, NEW a \in Apps, NEW w \in Places, NEW o \in Objs \cup {None}, NEW T \in SUBSET Objs,
         Moves(a, T, w, o),
         w = "idle" <=> o = None, w \in {"connect", "accept"} => o \in Chans, o \notin T,
         \A h \in Objs : h \in T \/ h = o => HeldBy(a, h) \/ ~Held(h)
  PROVE  /\ Owners'
         /\ \A h \in Objs :
              /\ Held(h)' <=> (h \in T \/ h = o) \/ (Held(h) /\ ~HeldBy(a, h))
              /\ InTab(h)' <=> h \in T \/ (InTab(h) /\ ~HeldBy(a, h))
              /\ Conn(h)' <=> (w = "connect" /\ h = o) \/ (Conn(h) /\ ~HeldBy(a, h))
              /\ Closing(h)' <=> (w = "destroy" /\ h = o) \/ (Closing(h) /\ ~HeldBy(a, h))
<1>1. table \in [Apps -> SUBSET Objs] /\ pc \in [Apps -> [at : Places, obj : Objs \cup {None}]]
  BY DEF Owners, OwnTypes
<1>2. table'[a] = T /\ pc'[a].at = w /\ pc'[a].obj = o /\ AppStep(a)
  BY <1>1 DEF AppStep, Moves
<1>3. OwnTypes'
  BY <1>1 DEF OwnTypes, Moves
<1>4. Local(a)'
  BY <1>2 DEF Local
<1>5. \A h \in Objs : /\ HeldBy(a, h)' <=> h \in T \/ h = o
                      /\ ConnAt(a, h)' <=> w = "connect" /\ h = o
                      /\ DestroyAt(a, h)' <=> w = "destroy" /\ h = o
  BY <1>2 DEF HeldBy, ConnAt, DestroyAt
<1>6. \A h \in Objs : HeldBy(a, h)' => HeldBy(a, h) \/ ~Held(h)
  BY <1>5
<1> QED
  BY <1>2, <1>3, <1>4, <1>5, <1>6, OwnersStep

(* What the call of app a holds. *)
LEMMA OwnersAt ==
  ASSUME Owners, NEW a \in Apps
  PROVE  /\ table[a] \in SUBSET Objs /\ pc[a].at \in Places /\ pc[a].obj \in Objs \cup {None}
         /\ Local(a)
         /\ pc[a] = [at |-> pc[a].at, obj |-> pc[a].obj]
         /\ table = [table EXCEPT ![a] = table[a]]
         /\ pc = [pc EXCEPT ![a] = [at |-> pc[a].at, obj |-> pc[a].obj]]
         /\ \A h \in Objs : /\ HeldBy(a, h) <=> h \in table[a] \/ pc[a].obj = h
                            /\ h \in table[a] => InTab(h) /\ Held(h)
                            /\ pc[a].obj = h => Held(h) /\ ~InTab(h)
                            /\ InTab(h) => Held(h)
                            /\ InTab(h) /\ HeldBy(a, h) => h \in table[a]
                            /\ Closing(h) /\ HeldBy(a, h) => DestroyAt(a, h)
                            /\ Conn(h) /\ HeldBy(a, h) => ConnAt(a, h)
<1>1. table \in [Apps -> SUBSET Objs] /\ pc \in [Apps -> [at : Places, obj : Objs \cup {None}]]
  BY DEF Owners, OwnTypes
<1>2. table[a] \in SUBSET Objs /\ pc[a] \in [at : Places, obj : Objs \cup {None}]
  BY <1>1
<1>3. /\ pc[a].at \in Places /\ pc[a].obj \in Objs \cup {None}
      /\ pc[a] = [at |-> pc[a].at, obj |-> pc[a].obj]
  BY <1>2
<1>4. /\ table = [table EXCEPT ![a] = table[a]]
      /\ pc = [pc EXCEPT ![a] = [at |-> pc[a].at, obj |-> pc[a].obj]]
  BY <1>1, <1>3
<1>5. \A h \in Objs : HeldBy(a, h) <=> h \in table[a] \/ pc[a].obj = h
  BY DEF HeldBy
<1>6. Local(a)
  BY DEF Owners
<1>7. ASSUME NEW h \in Objs
      PROVE  /\ HeldBy(a, h) => Held(h)
             /\ InTab(h) => Held(h)
             /\ InTab(h) /\ HeldBy(a, h) => h \in table[a]
             /\ Closing(h) /\ HeldBy(a, h) => DestroyAt(a, h)
             /\ Conn(h) /\ HeldBy(a, h) => ConnAt(a, h)
  <2>1. \A b \in Apps : h \in table[b] \/ DestroyAt(b, h) \/ ConnAt(b, h) => HeldBy(b, h)
    BY DEF HeldBy, DestroyAt, ConnAt
  <2>2. \A b \in Apps : HeldBy(b, h) /\ HeldBy(a, h) => a = b
    BY DEF Owners, Uniq
  <2> QED
    BY <2>1, <2>2 DEF Held, InTab, Closing, Conn
<1>8. \A h \in Objs : /\ h \in table[a] => InTab(h)
                      /\ pc[a].obj = h => h \notin table[a]
  BY <1>6 DEF InTab, Local
<1> QED
  BY <1>2, <1>3, <1>4, <1>5, <1>6, <1>7, <1>8

(* A call that holds nothing new. *)
LEMMA OwnSame ==
  ASSUME Owners, UNCHANGED <<table, pc>>
  PROVE  /\ Owners'
         /\ \A h : /\ Held(h)' <=> Held(h)
                   /\ InTab(h)' <=> InTab(h)
                   /\ Conn(h)' <=> Conn(h)
                   /\ Closing(h)' <=> Closing(h)
BY DEF Owners, OwnTypes, Uniq, Local, Held, HeldBy, InTab, Conn, ConnAt, Closing, DestroyAt

(* A new handle is installed. *)
LEMMA OwnInstall ==
  ASSUME Owners, NEW a \in Apps, NEW x \in Objs, ~Held(x),
         pc[a] = Idle, UNCHANGED pc, table' = [table EXCEPT ![a] = @ \cup {x}]
  PROVE  /\ Owners'
         /\ \A h \in Objs : /\ Held(h)' <=> Held(h) \/ h = x
                            /\ InTab(h)' <=> InTab(h) \/ h = x
                            /\ Conn(h)' <=> Conn(h)
                            /\ Closing(h)' <=> Closing(h)
<1> DEFINE T == table[a] \cup {x}
<1>0. None \notin Objs
  BY NoneAssumption DEF Objs
<1>1. pc[a].at = "idle" /\ pc[a].obj = None
  BY DEF Idle
<1>2. /\ T \in SUBSET Objs /\ None \notin T
      /\ table' = [table EXCEPT ![a] = T]
      /\ pc' = [pc EXCEPT ![a] = [at |-> "idle", obj |-> None]]
  BY <1>0, <1>1, OwnersAt
<1>3. \A h \in Objs : h \in T \/ h = None => HeldBy(a, h) \/ ~Held(h)
  BY <1>0, OwnersAt
<1>4. \A h : h \in T <=> h \in table[a] \/ h = x
  OBVIOUS
<1> HIDE DEF T
<1>5. Moves(a, T, "idle", None)
  BY <1>2 DEF Moves
<1>6. /\ Owners'
      /\ \A h \in Objs :
           /\ Held(h)' <=> (h \in T \/ h = None) \/ (Held(h) /\ ~HeldBy(a, h))
           /\ InTab(h)' <=> h \in T \/ (InTab(h) /\ ~HeldBy(a, h))
           /\ Conn(h)' <=> ("idle" = "connect" /\ h = None) \/ (Conn(h) /\ ~HeldBy(a, h))
           /\ Closing(h)' <=> ("idle" = "destroy" /\ h = None) \/ (Closing(h) /\ ~HeldBy(a, h))
  BY <1>2, <1>3, <1>5, OwnersMove DEF Places
<1>7. \A h \in Objs : /\ HeldBy(a, h) <=> h \in table[a]
                      /\ HeldBy(a, h) => Held(h) /\ InTab(h) /\ ~Closing(h) /\ ~Conn(h)
  BY <1>0, <1>1, OwnersAt DEF DestroyAt, ConnAt
<1> QED
  BY <1>0, <1>4, <1>6, <1>7

(* A new object is held by the call that made it. *)
LEMMA OwnBegin ==
  ASSUME Owners, NEW a \in Apps, NEW x \in Objs, NEW w \in {"connect", "accept", "shutdown"}, ~Held(x),
         w \in {"connect", "accept"} => x \in Chans,
         pc[a] = Idle, UNCHANGED table, pc' = [pc EXCEPT ![a] = [at |-> w, obj |-> x]]
  PROVE  /\ Owners'
         /\ \A h \in Objs : /\ Held(h)' <=> Held(h) \/ h = x
                            /\ InTab(h)' <=> InTab(h)
                            /\ Conn(h)' <=> Conn(h) \/ (w = "connect" /\ h = x)
                            /\ Closing(h)' <=> Closing(h)
<1>0. None \notin Objs
  BY NoneAssumption DEF Objs
<1>1. pc[a].at = "idle" /\ pc[a].obj = None
  BY DEF Idle
<1>2. /\ w \in Places /\ w # "idle" /\ x # None /\ x \notin table[a] /\ w # "destroy"
      /\ table' = [table EXCEPT ![a] = table[a]]
  BY <1>0, <1>1, OwnersAt DEF Places
<1>3. \A h \in Objs : h \in table[a] \/ h = x => HeldBy(a, h) \/ ~Held(h)
  BY OwnersAt
<1>4. table[a] \in SUBSET Objs
  BY OwnersAt
<1>5. Moves(a, table[a], w, x)
  BY <1>2 DEF Moves
<1>6. /\ Owners'
      /\ \A h \in Objs :
           /\ Held(h)' <=> (h \in table[a] \/ h = x) \/ (Held(h) /\ ~HeldBy(a, h))
           /\ InTab(h)' <=> h \in table[a] \/ (InTab(h) /\ ~HeldBy(a, h))
           /\ Conn(h)' <=> (w = "connect" /\ h = x) \/ (Conn(h) /\ ~HeldBy(a, h))
           /\ Closing(h)' <=> (w = "destroy" /\ h = x) \/ (Closing(h) /\ ~HeldBy(a, h))
  BY <1>2, <1>3, <1>4, <1>5, OwnersMove
<1>7. \A h \in Objs : /\ HeldBy(a, h) <=> h \in table[a]
                      /\ HeldBy(a, h) => Held(h) /\ InTab(h) /\ ~Closing(h) /\ ~Conn(h)
  BY <1>0, <1>1, OwnersAt DEF DestroyAt, ConnAt
<1> QED
  BY <1>2, <1>6, <1>7

(* What the call held is installed. *)
LEMMA OwnSettle ==
  ASSUME Owners, NEW a \in Apps, NEW x \in Objs, pc[a].obj = x, pc[a].at \in {"connect", "accept"},
         pc' = [pc EXCEPT ![a] = Idle], table' = [table EXCEPT ![a] = @ \cup {x}]
  PROVE  /\ Owners'
         /\ \A h \in Objs : /\ Held(h)' <=> Held(h)
                            /\ InTab(h)' <=> InTab(h) \/ h = x
                            /\ Conn(h)' <=> Conn(h) /\ h # x
                            /\ Closing(h)' <=> Closing(h)
<1> DEFINE T == table[a] \cup {x}
<1>0. None \notin Objs
  BY NoneAssumption DEF Objs
<1>1. /\ T \in SUBSET Objs /\ None \notin T
      /\ table' = [table EXCEPT ![a] = T]
      /\ pc' = [pc EXCEPT ![a] = [at |-> "idle", obj |-> None]]
  BY <1>0, OwnersAt DEF Idle
<1>2. \A h \in Objs : h \in T \/ h = None => HeldBy(a, h) \/ ~Held(h)
  BY <1>0, OwnersAt
<1>3. \A h : h \in T <=> h \in table[a] \/ h = x
  OBVIOUS
<1> HIDE DEF T
<1>4. Moves(a, T, "idle", None)
  BY <1>1 DEF Moves
<1>5. /\ Owners'
      /\ \A h \in Objs :
           /\ Held(h)' <=> (h \in T \/ h = None) \/ (Held(h) /\ ~HeldBy(a, h))
           /\ InTab(h)' <=> h \in T \/ (InTab(h) /\ ~HeldBy(a, h))
           /\ Conn(h)' <=> ("idle" = "connect" /\ h = None) \/ (Conn(h) /\ ~HeldBy(a, h))
           /\ Closing(h)' <=> ("idle" = "destroy" /\ h = None) \/ (Closing(h) /\ ~HeldBy(a, h))
  BY <1>1, <1>2, <1>4, OwnersMove DEF Places
<1>6. \A h \in Objs : /\ HeldBy(a, h) <=> h \in table[a] \/ h = x
                      /\ HeldBy(a, h) => Held(h) /\ ~Closing(h)
                      /\ h \in table[a] => InTab(h)
                      /\ h \in table[a] => ~Conn(h)
  BY <1>0, OwnersAt DEF DestroyAt, ConnAt, Local
<1> QED
  BY <1>0, <1>3, <1>5, <1>6

(* The call goes on to the next critical section of the close. *)
LEMMA OwnMove ==
  ASSUME Owners, NEW a \in Apps, NEW x \in Objs, NEW w \in {"shutdown", "destroy"},
         pc[a].obj = x, pc[a].at # "destroy",
         pc' = [pc EXCEPT ![a] = [at |-> w, obj |-> x]], UNCHANGED table
  PROVE  /\ Owners'
         /\ \A h \in Objs : /\ Held(h)' <=> Held(h)
                            /\ InTab(h)' <=> InTab(h)
                            /\ Conn(h)' <=> Conn(h) /\ h # x
                            /\ Closing(h)' <=> Closing(h) \/ (w = "destroy" /\ h = x)
<1>0. None \notin Objs
  BY NoneAssumption DEF Objs
<1>1. /\ w \in Places /\ w # "idle" /\ x # None /\ x \notin table[a] /\ w \notin {"connect", "accept"}
      /\ table' = [table EXCEPT ![a] = table[a]]
  BY <1>0, OwnersAt DEF Places, Local
<1>2. \A h \in Objs : h \in table[a] \/ h = x => HeldBy(a, h) \/ ~Held(h)
  BY OwnersAt
<1>3. table[a] \in SUBSET Objs
  BY OwnersAt
<1>4. Moves(a, table[a], w, x)
  BY <1>1 DEF Moves
<1>5. /\ Owners'
      /\ \A h \in Objs :
           /\ Held(h)' <=> (h \in table[a] \/ h = x) \/ (Held(h) /\ ~HeldBy(a, h))
           /\ InTab(h)' <=> h \in table[a] \/ (InTab(h) /\ ~HeldBy(a, h))
           /\ Conn(h)' <=> (w = "connect" /\ h = x) \/ (Conn(h) /\ ~HeldBy(a, h))
           /\ Closing(h)' <=> (w = "destroy" /\ h = x) \/ (Closing(h) /\ ~HeldBy(a, h))
  BY <1>1, <1>2, <1>3, <1>4, OwnersMove
<1>6. \A h \in Objs : /\ HeldBy(a, h) <=> h \in table[a] \/ h = x
                      /\ HeldBy(a, h) => Held(h) /\ ~Closing(h)
                      /\ h = x => ~InTab(h)
                      /\ h \in table[a] => InTab(h)
                      /\ h \in table[a] => ~Conn(h)
  BY <1>0, OwnersAt DEF DestroyAt, ConnAt, Local
<1> QED
  BY <1>1, <1>5, <1>6

(* uctx_handle_remove *)
LEMMA OwnRemove ==
  ASSUME Owners, NEW a \in Apps, NEW x \in Objs, pc[a] = Idle, x \in table[a],
         table' = [table EXCEPT ![a] = @ \ {x}],
         pc' = [pc EXCEPT ![a] = [at |-> "shutdown", obj |-> x]]
  PROVE  /\ Owners' /\ Held(x) /\ InTab(x)
         /\ \A h \in Objs : /\ Held(h)' <=> Held(h)
                            /\ InTab(h)' <=> InTab(h) /\ h # x
                            /\ Conn(h)' <=> Conn(h)
                            /\ Closing(h)' <=> Closing(h)
<1> DEFINE T == table[a] \ {x}
<1>0. None \notin Objs
  BY NoneAssumption DEF Objs
<1>1. pc[a].at = "idle" /\ pc[a].obj = None
  BY DEF Idle
<1>2. /\ T \in SUBSET Objs /\ x \notin T /\ x # None
      /\ table' = [table EXCEPT ![a] = T]
  BY <1>0, OwnersAt
<1>3. \A h \in Objs : h \in T \/ h = x => HeldBy(a, h) \/ ~Held(h)
  BY <1>0, OwnersAt
<1>4. \A h : h \in T <=> h \in table[a] /\ h # x
  OBVIOUS
<1> HIDE DEF T
<1>5. Moves(a, T, "shutdown", x)
  BY <1>2 DEF Moves
<1>6. /\ Owners'
      /\ \A h \in Objs :
           /\ Held(h)' <=> (h \in T \/ h = x) \/ (Held(h) /\ ~HeldBy(a, h))
           /\ InTab(h)' <=> h \in T \/ (InTab(h) /\ ~HeldBy(a, h))
           /\ Conn(h)' <=> ("shutdown" = "connect" /\ h = x) \/ (Conn(h) /\ ~HeldBy(a, h))
           /\ Closing(h)' <=> ("shutdown" = "destroy" /\ h = x) \/ (Closing(h) /\ ~HeldBy(a, h))
  BY <1>2, <1>3, <1>5, OwnersMove DEF Places
<1>7. \A h \in Objs : /\ HeldBy(a, h) <=> h \in table[a]
                      /\ HeldBy(a, h) => Held(h) /\ InTab(h) /\ ~Closing(h) /\ ~Conn(h)
  BY <1>0, <1>1, OwnersAt DEF DestroyAt, ConnAt
<1> QED
  BY <1>0, <1>4, <1>6, <1>7

(* The last step of a close lets go of the object. *)
LEMMA OwnEnd ==
  ASSUME Owners, NEW a \in Apps, NEW x \in Objs, pc[a].obj = x, pc[a].at = "destroy",
         UNCHANGED table, pc' = [pc EXCEPT ![a] = Idle]
  PROVE  /\ Owners' /\ Held(x) /\ Closing(x) /\ ~InTab(x)
         /\ \A h \in Objs : /\ Held(h)' <=> Held(h) /\ h # x
                            /\ InTab(h)' <=> InTab(h)
                            /\ Conn(h)' <=> Conn(h)
                            /\ Closing(h)' <=> Closing(h) /\ h # x
<1>0. None \notin Objs
  BY NoneAssumption DEF Objs
<1>1. /\ table' = [table EXCEPT ![a] = table[a]] /\ None \notin table[a] /\ table[a] \in SUBSET Objs
      /\ pc' = [pc EXCEPT ![a] = [at |-> "idle", obj |-> None]]
  BY <1>0, OwnersAt DEF Idle
<1>2. \A h \in Objs : h \in table[a] \/ h = None => HeldBy(a, h) \/ ~Held(h)
  BY <1>0, OwnersAt
<1>3. Moves(a, table[a], "idle", None)
  BY <1>1 DEF Moves
<1>4. /\ Owners'
      /\ \A h \in Objs :
           /\ Held(h)' <=> (h \in table[a] \/ h = None) \/ (Held(h) /\ ~HeldBy(a, h))
           /\ InTab(h)' <=> h \in table[a] \/ (InTab(h) /\ ~HeldBy(a, h))
           /\ Conn(h)' <=> ("idle" = "connect" /\ h = None) \/ (Conn(h) /\ ~HeldBy(a, h))
           /\ Closing(h)' <=> ("idle" = "destroy" /\ h = None) \/ (Closing(h) /\ ~HeldBy(a, h))
  BY <1>1, <1>2, <1>3, OwnersMove DEF Places
<1>5. \A h \in Objs : /\ HeldBy(a, h) <=> h \in table[a] \/ h = x
                      /\ HeldBy(a, h) => Held(h) /\ ~Conn(h)
                      /\ h \in table[a] => InTab(h) /\ h # x
                      /\ h \in table[a] => ~Closing(h)
                      /\ h = x => Closing(h) /\ ~InTab(h)
  BY <1>0, OwnersAt DEF DestroyAt, ConnAt, Local, Closing
<1> QED
  BY <1>0, <1>1, <1>4, <1>5

-----------------------------------------------------------------------------
(* Who waits where: the lists after a step *)

(* The pending list of one port becomes q. *)
PendingTo(p, q) == /\ PList(p)' = q
                   /\ \A r \in Ports : r # p => PList(r)' = PList(r)

(* Channels are pending as before, but for those of p. *)
LEMMA PendChange ==
  ASSUME PUniq, NEW p \in Ports, NEW q \in Seq(Chans), Inj(q), PendingTo(p, q),
         \A c \in Chans : c \in Members(q) /\ Pend(c) => c \in Members(PList(p))
  PROVE  /\ PUniq'
         /\ \A c \in Chans : Pend(c)' <=> c \in Members(q) \/ (Pend(c) /\ c \notin Members(PList(p)))
<1>1. \A c \in Chans : /\ Pend(c) <=> \E r \in Ports : c \in Members(PList(r))
                       /\ Pend(c)' <=> \E r \in Ports : c \in Members(PList(r)')
  BY DEF Pend, PList, Members
<1>2. \A r \in Ports : r # p => PList(r)' = PList(r)
  BY DEF PendingTo
<1>3. PList(p)' = q
  BY DEF PendingTo
<1>4. \A r, s \in Ports : \A c \in Chans : c \in Members(PList(r)) /\ c \in Members(PList(s)) => r = s
  BY DEF PUniq
<1>5. \A r, s \in Ports : \A c \in Chans : c \in Members(PList(r)') /\ c \in Members(PList(s)') => r = s
  BY <1>1, <1>2, <1>3, <1>4
<1>6. \A r \in Ports : PList(r)' \in Seq(Chans) /\ Inj(PList(r)')
  BY <1>2, <1>3 DEF PUniq
<1>7. PUniq'
  <2>1. /\ \A r \in Ports : PList(r)' \in Seq(Chans) /\ Inj(PList(r))'
        /\ \A r, s \in Ports : \A c \in Chans : c \in Members(PList(r))' /\ c \in Members(PList(s))' => r = s
    BY <1>5, <1>6 DEF Inj, Members
  <2> QED
    BY <2>1 DEF PUniq
<1> QED
  BY <1>1, <1>2, <1>3, <1>4, <1>7

(* The list of those that wait for one path becomes q. *)
WaitingTo(path, q) == /\ WList(path)' = q
                      /\ \A r \in Paths : r # path => WList(r)' = WList(r)

(* Channels wait as before, but for those of the path. *)
LEMMA WaitChange ==
  ASSUME WUniq, PortMissing, NEW path \in Paths, NEW q \in Seq(Chans), Inj(q), WaitingTo(path, q)
  PROVE  /\ WUniq'
         /\ \A c \in Chans : Waits(c)' <=> c \in Members(q) \/ (Waits(c) /\ c \notin Members(WList(path)))
<1>1. \A c \in Chans : /\ Waits(c) <=> \E r \in Paths : c \in Members(WList(r))
                       /\ Waits(c)' <=> \E r \in Paths : c \in Members(WList(r)')
  BY DEF Waits, WList, Members
<1>2. \A r \in Paths : r # path => WList(r)' = WList(r)
  BY DEF WaitingTo
<1>3. WList(path)' = q
  BY DEF WaitingTo
<1>4. \A r, s \in Paths : \A c \in Chans : c \in Members(WList(r)) /\ c \in Members(WList(s)) => r = s
  BY DEF PortMissing
<1>5. WUniq'
  <2>1. \A r \in Paths : WList(r)' \in Seq(Chans) /\ Inj(WList(r)')
    BY <1>2, <1>3 DEF WUniq
  <2>2. \A r \in Paths : WList(r)' \in Seq(Chans) /\ Inj(WList(r))'
    BY <2>1 DEF Inj
  <2> QED
    BY <2>2 DEF WUniq
<1> QED
  BY <1>1, <1>2, <1>3, <1>4, <1>5

(* Nothing happens to the lists. *)
LEMMA ListsSame ==
  /\ UNCHANGED waiting_list => /\ WUniq => WUniq'
                               /\ \A c : Waits(c)' <=> Waits(c)
                               /\ \A path : WList(path)' = WList(path)
  /\ (\A p \in Ports : PList(p)' = PList(p)) => /\ PUniq => PUniq'
                                                /\ \A c : Pend(c)' <=> Pend(c)
<1>1. UNCHANGED waiting_list => /\ WUniq => WUniq'
                                /\ \A c : Waits(c)' <=> Waits(c)
                                /\ \A path : WList(path)' = WList(path)
  BY DEF WUniq, Waits, WList, Inj, Members
<1>2. ASSUME \A p \in Ports : PList(p)' = PList(p)
      PROVE  /\ PUniq => PUniq'
             /\ \A c : Pend(c)' <=> Pend(c)
  <2>1. \A c : /\ Pend(c) <=> \E r \in Ports : c \in Members(PList(r))
               /\ Pend(c)' <=> \E r \in Ports : c \in Members(PList(r)')
    BY DEF Pend, PList, Members
  <2>2. /\ \A r \in Ports : /\ PList(r)' \in Seq(Chans) <=> PList(r) \in Seq(Chans)
                            /\ Inj(PList(r))' <=> Inj(PList(r))
        /\ \A r \in Ports : Members(PList(r))' = Members(PList(r))
    BY <1>2 DEF Inj, Members
  <2> QED
    BY <1>2, <2>1, <2>2 DEF PUniq
<1> QED
  BY <1>1, <1>2

(* Appending what is not in a list, and taking its head, leaves no doubles. *)
LEMMA InjKept ==
  ASSUME NEW S, NEW q \in Seq(S), Inj(q)
  PROVE  /\ \A x \in S : x \notin Members(q) => Inj(Append(q, x))
         /\ q # << >> => Inj(Tail(q))
         /\ Inj(<< >>)
<1>1. ASSUME NEW x \in S, x \notin Members(q) PROVE Inj(Append(q, x))
  <2> DEFINE r == Append(q, x)
  <2>1. \A i \in DOMAIN r : \/ i \in DOMAIN q /\ r[i] = q[i]
                            \/ i = Len(q) + 1 /\ r[i] = x
    BY MembersAppend
  <2>2. \A i \in DOMAIN q : q[i] # x
    BY <1>1, MembersAt
  <2> HIDE DEF r
  <2>3. Inj(r)
    BY <2>1, <2>2 DEF Inj
  <2> QED
    BY <2>3 DEF r
<1>2. ASSUME q # << >> PROVE Inj(Tail(q))
  <2> DEFINE r == Tail(q)
  <2>1. \A i, j \in DOMAIN q : q[i] = q[j] => i = j
    BY DEF Inj
  <2>2. \A i \in DOMAIN r : i + 1 \in DOMAIN q /\ r[i] = q[i + 1] /\ i \in Nat
    BY <1>2, <2>1, MembersTail
  <2> HIDE DEF r
  <2>3. Inj(r)
    <3> SUFFICES ASSUME NEW i \in DOMAIN r, NEW j \in DOMAIN r, r[i] = r[j] PROVE i = j
      BY DEF Inj
    <3>1. i + 1 = j + 1 /\ i \in Nat /\ j \in Nat
      BY <2>1, <2>2
    <3> QED
      BY <3>1
  <2> QED
    BY <2>3 DEF r
<1>3. Inj(<< >>)
  BY DEF Inj
<1> QED
  BY <1>1, <1>2, <1>3

-----------------------------------------------------------------------------
(* The parts that a step leaves alone *)

(* The parts of TypeOK. *)
PortsTyped == port \in [Ports -> PortRecords] /\ port_list \in SUBSET Ports
WaitTyped == waiting_list \in [Paths -> Seq(Chans)]
PanicTyped == panic \in {"no", "list_in_list", "msg_queue"}

(* TypeOK, variable by variable. *)
LEMMA TypeParts ==
  /\ TypeOK => PortsTyped /\ ChansTyped /\ WaitTyped /\ OwnTypes /\ PanicTyped
  /\ PortsTyped' /\ ChansTyped' /\ WaitTyped' /\ OwnTypes' /\ PanicTyped' => TypeOK'
BY DEF TypeOK, PortsTyped, ChansTyped, WaitTyped, OwnTypes, PanicTyped, Objs

(* The users of an object stay. *)
SameUsers(h) == /\ Held(h)' <=> Held(h)
                /\ InTab(h)' <=> InTab(h)
                /\ Closing(h)' <=> Closing(h)

(* A port with the same fields and the same users. *)
LEMMA PortSame ==
  ASSUME NEW p \in Ports, PortGood(p), SameUsers(p),
         PSt(p)' = PSt(p), RefC(p)' = RefC(p), PLen(p)' = PLen(p), Listed(p)' <=> Listed(p)
  PROVE  PortGood(p)'
<1>1. /\ Held(p)' <=> Held(p)
      /\ InTab(p)' <=> InTab(p)
      /\ Closing(p)' <=> Closing(p)
  BY DEF SameUsers
<1>2. /\ Count(Held(p))' = Count(Held(p)) /\ Count(InTab(p))' = Count(InTab(p))
      /\ Count(Listed(p))' = Count(Listed(p))
  BY <1>1 DEF Count
<1> QED
  BY <1>1, <1>2 DEF PortGood

(* No port changes. *)
LEMMA PortsSame ==
  ASSUME PortInv, UNCHANGED <<port, port_list>>, \A p \in Ports : SameUsers(p)
  PROVE  PortInv' /\ (PortsTyped => PortsTyped') /\ (\A path : Absent(path)' <=> Absent(path))
         /\ \A p : PList(p)' = PList(p)
<1>1. \A p \in Ports : PSt(p)' = PSt(p) /\ RefC(p)' = RefC(p) /\ PLen(p)' = PLen(p) /\ (Listed(p)' <=> Listed(p))
  BY DEF PSt, RefC, PLen, Listed
<1>2. PortInv'
  BY <1>1, PortSame DEF PortInv
<1>3. /\ PortsTyped => PortsTyped'
      /\ \A path : Absent(path)' <=> Absent(path)
      /\ \A p : PList(p)' = PList(p)
  BY DEF PortsTyped, Absent, port_find_locked, PList
<1> QED
  BY <1>2, <1>3

(* Nobody waits for a port that appeared. *)
LEMMA MissingSame ==
  ASSUME PortMissing, \A path \in Paths : WList(path)' = WList(path) /\ (Absent(path) => Absent(path)'),
         \A c \in Chans : Waits(c) => Pth(c)' = Pth(c)
  PROVE  PortMissing'
<1>1. \A path \in Paths : \A c \in Chans : c \in Members(WList(path)) => Waits(c)
  BY DEF Waits, WList
<1>2. \A path \in Paths : Members(WList(path))' = Members(WList(path))
  BY DEF Members
<1> QED
  BY <1>1, <1>2 DEF PortMissing

(* A channel d changes at most in its queue and its READY mark. *)
LEMMA StepTouch ==
  ASSUME IInv, NEW d \in Chans, NEW x \in ChanRecords,
         x.state = chan[d].state, x.peer = chan[d].peer, x.refs = chan[d].refs, x.path = chan[d].path,
         chan' = [chan EXCEPT ![d] = x],
         UNCHANGED <<port, port_list, waiting_list, panic>>, Owners',
         \A h \in Objs : Held(h)' <=> Held(h),
         \A p \in Ports : SameUsers(p),
         \A c \in Chans : Conn(c)' => Conn(c),
         \A c \in Chans : Closing(c)' => Closing(c),
         Conn(d)' => /\ x.state = "CONNECTED" => x.ready
                     /\ x.filled > 0 => x.ready
  PROVE  IInv' /\ Forward
<1>0. /\ TypeOK /\ Owners /\ PortInv /\ WUniq /\ PUniq /\ ChanInv /\ PortMissing /\ Calls
      /\ PortsTyped /\ ChansTyped /\ WaitTyped /\ OwnTypes /\ PanicTyped
  BY TypeParts DEF IInv, Lists
<1>1. chan'[d] = x /\ \A c \in Chans : c # d => chan'[c] = chan[c]
  BY <1>0 DEF ChansTyped
<1>2. ChansTyped'
  BY <1>0 DEF ChansTyped
<1>3. \A c \in Chans : SameFields(c) /\ Pth(c)' = Pth(c)
  BY <1>1 DEF SameFields, St, Pr, HRef, NRef, PRef, Pth
<1>4. /\ PortInv' /\ PortsTyped'
      /\ \A path : Absent(path)' <=> Absent(path)
      /\ \A p : PList(p)' = PList(p)
  BY <1>0, PortsSame
<1>5. /\ WUniq' /\ PUniq'
      /\ \A c : Waits(c)' <=> Waits(c)
      /\ \A c : Pend(c)' <=> Pend(c)
      /\ \A path : WList(path)' = WList(path)
  BY <1>0, <1>4, ListsSame
<1>6. \A c \in Chans : SamePlaces(c)
  BY <1>5 DEF SamePlaces, Objs
<1>7. ChanInv' /\ Forward
  BY <1>0, <1>3, <1>6, ChansKeep
<1>8. PortMissing'
  BY <1>0, <1>3, <1>4, <1>5, MissingSame
<1>9. Calls'
  <2> SUFFICES ASSUME NEW c \in Chans
               PROVE  /\ Conn(c)' => /\ St(c)' = "CONNECTED" => Rdy(c)'
                                     /\ Fil(c)' > 0 => Rdy(c)'
                      /\ Closing(c)' => Pr(c)' = None /\ St(c)' = "DISCONNECTING"
    BY DEF Calls
  <2>1. CASE c = d
    BY <1>0, <1>1, <1>3, <2>1 DEF Calls, St, Rdy, Fil, SameFields
  <2>2. CASE c # d
    <3>1. Rdy(c)' = Rdy(c) /\ Fil(c)' = Fil(c)
      BY <1>1, <2>2 DEF Rdy, Fil
    <3> QED
      BY <1>0, <1>3, <3>1 DEF Calls, SameFields
  <2> QED
    BY <2>1, <2>2
<1>10. WaitTyped' /\ PanicTyped' /\ OwnTypes'
  BY <1>0 DEF WaitTyped, PanicTyped, Owners
<1>11. TypeOK'
  BY <1>2, <1>4, <1>10, TypeParts
<1> QED
  BY <1>4, <1>5, <1>7, <1>8, <1>9, <1>11 DEF IInv, Lists

-----------------------------------------------------------------------------
(* The actions *)

(* Only the kernel stops. *)
LEMMA StepPanic ==
  ASSUME IInv, PanicTyped', UNCHANGED <<port, chan, port_list, waiting_list, table, pc>>
  PROVE  IInv' /\ Forward
<1>0. /\ TypeOK /\ Owners /\ PortInv /\ WUniq /\ PUniq /\ ChanInv /\ PortMissing /\ Calls
      /\ PortsTyped /\ ChansTyped /\ WaitTyped /\ OwnTypes
  BY TypeParts DEF IInv, Lists
<1>1. Owners' /\ \A h : SameUsers(h) /\ (Conn(h)' <=> Conn(h))
  BY <1>0, OwnSame DEF SameUsers
<1>2. \A c : /\ SameFields(c) /\ Pth(c)' = Pth(c) /\ Rdy(c)' = Rdy(c) /\ Fil(c)' = Fil(c)
  BY DEF SameFields, St, Pr, HRef, NRef, PRef, Pth, Rdy, Fil
<1>3. /\ PortInv' /\ PortsTyped'
      /\ \A path : Absent(path)' <=> Absent(path)
      /\ \A p : PList(p)' = PList(p)
  BY <1>0, <1>1, PortsSame
<1>4. /\ WUniq' /\ PUniq'
      /\ \A c : Waits(c)' <=> Waits(c)
      /\ \A c : Pend(c)' <=> Pend(c)
      /\ \A path : WList(path)' = WList(path)
  BY <1>0, <1>3, ListsSame
<1>5. ChanInv' /\ Forward
  BY <1>0, <1>1, <1>2, <1>4, ChansKeep DEF SamePlaces, SameUsers
<1>6. PortMissing'
  BY <1>0, <1>2, <1>3, <1>4, MissingSame
<1>7. Calls'
  BY <1>0, <1>1, <1>2 DEF Calls, SameFields, SameUsers
<1>8. ChansTyped' /\ WaitTyped' /\ OwnTypes'
  BY <1>0 DEF ChansTyped, WaitTyped, OwnTypes
<1>9. TypeOK'
  BY <1>3, <1>8, TypeParts
<1> QED
  BY <1>1, <1>3, <1>4, <1>5, <1>6, <1>7, <1>9 DEF IInv, Lists

(* Message calls touch one queue; WaitReady takes the READY mark. *)
LEMMA StepMessages ==
  ASSUME IInv, NEW a \in Apps, NEW c \in Chans,
         SendMsg(a, c) \/ GetMsg(a, c) \/ PutMsg(a, c) \/ WaitReady(a, c)
  PROVE  IInv' /\ Forward
<1>0. Owners /\ ChanInv /\ Calls /\ ChansTyped
  BY TypeParts DEF IInv
<1>1. /\ Owners'
      /\ \A h \in Objs : Held(h)' <=> Held(h)
      /\ \A p \in Ports : SameUsers(p)
      /\ \A d \in Chans : Conn(d)' => Conn(d)
      /\ \A d \in Chans : Closing(d)' => Closing(d)
      /\ UNCHANGED <<port, port_list, waiting_list, panic>>
  BY <1>0, OwnSame DEF SameUsers, SendMsg, GetMsg, PutMsg, WaitReady
<1>2. ~Conn(c)
  <2>1. c \in table[a] /\ c \in Objs
    BY DEF Uses, SendMsg, GetMsg, PutMsg, WaitReady, Objs
  <2>2. pc[a].at = "idle"
    BY DEF Uses, SendMsg, GetMsg, PutMsg, WaitReady, Idle
  <2> QED
    BY <1>0, <2>1, <2>2, OwnersAt DEF ConnAt
<1>3. chan[c] \in ChanRecords
  BY <1>0 DEF ChansTyped
<1>4. CASE SendMsg(a, c)
  <2> DEFINE d == chan[c].peer
             x == [chan[d] EXCEPT !.filled = @ + 1]
  <2>1. St(c) = "CONNECTED"
    BY <1>4 DEF SendMsg, St
  <2>2. d \in Chans /\ St(d) = "CONNECTED"
    BY <1>0, <2>1 DEF ChanInv, Ends, Pr
  <2>3. chan[d] \in ChanRecords
    BY <1>0, <2>2 DEF ChansTyped
  <2>4. /\ x \in ChanRecords /\ x.state = chan[d].state /\ x.peer = chan[d].peer
        /\ x.refs = chan[d].refs /\ x.path = chan[d].path /\ x.ready = chan[d].ready
    BY <2>3 DEF ChanRecords
  <2>5. chan' = [chan EXCEPT ![d] = x]
    BY <1>4, <2>2 DEF SendMsg
  <2>6. Conn(d) => chan[d].ready
    BY <1>0, <2>2 DEF Calls, Rdy
  <2> HIDE DEF x, d
  <2> QED
    BY <1>1, <2>2, <2>4, <2>5, <2>6, StepTouch
<1>5. CASE GetMsg(a, c)
  <2> DEFINE x == [chan[c] EXCEPT !.filled = @ - 1, !.read = @ + 1]
  <2>1. /\ x \in ChanRecords /\ x.state = chan[c].state /\ x.peer = chan[c].peer
        /\ x.refs = chan[c].refs /\ x.path = chan[c].path
    <3>1. chan[c].filled \in Nat /\ chan[c].filled - 1 \in Nat /\ chan[c].read + 1 \in Nat
      BY <1>3, <1>5 DEF ChanRecords, GetMsg
    <3> QED
      BY <1>3, <3>1 DEF ChanRecords
  <2>2. chan' = [chan EXCEPT ![c] = x]
    BY <1>5 DEF GetMsg
  <2> HIDE DEF x
  <2> QED
    BY <1>1, <1>2, <2>1, <2>2, StepTouch
<1>6. CASE PutMsg(a, c)
  <2> DEFINE x == [chan[c] EXCEPT !.read = @ - 1]
  <2>1. /\ x \in ChanRecords /\ x.state = chan[c].state /\ x.peer = chan[c].peer
        /\ x.refs = chan[c].refs /\ x.path = chan[c].path
    BY <1>3, <1>6 DEF ChanRecords, PutMsg
  <2>2. chan' = [chan EXCEPT ![c] = x]
    BY <1>6 DEF PutMsg
  <2> HIDE DEF x
  <2> QED
    BY <1>1, <1>2, <2>1, <2>2, StepTouch
<1>7. CASE WaitReady(a, c)
  <2> DEFINE x == [chan[c] EXCEPT !.ready = FALSE]
  <2>1. /\ x \in ChanRecords /\ x.state = chan[c].state /\ x.peer = chan[c].peer
        /\ x.refs = chan[c].refs /\ x.path = chan[c].path
    BY <1>3 DEF ChanRecords
  <2>2. chan' = [chan EXCEPT ![c] = x]
    BY <1>7 DEF WaitReady
  <2> HIDE DEF x
  <2> QED
    BY <1>1, <1>2, <2>1, <2>2, StepTouch
<1> QED
  BY <1>4, <1>5, <1>6, <1>7

(* The end of a connect or accept: the channel is installed, or its close  *)
(* begins.                                                                 *)
LEMMA StepSettle ==
  ASSUME IInv, NEW a \in Apps, NEW c \in Chans, NEW copied \in BOOLEAN,
         ConnectWake(a, c) \/ AcceptInstall(a, c, copied)
  PROVE  IInv' /\ Forward
<1>0. Owners /\ ChansTyped /\ c \in Objs
  BY TypeParts DEF IInv, Objs
<1>1. pc[a].obj = c /\ pc[a].at \in {"connect", "accept"} /\ pc[a].at # "destroy"
  BY DEF ConnectWake, AcceptInstall, At
<1>2. /\ Owners'
      /\ \A h \in Objs : /\ Held(h)' <=> Held(h)
                         /\ InTab(h)' <=> InTab(h) \/ (h = c /\ InTab(c)')
                         /\ Conn(h)' <=> Conn(h) /\ h # c
                         /\ Closing(h)' <=> Closing(h)
  <2>1. \/ pc' = [pc EXCEPT ![a] = Idle] /\ table' = [table EXCEPT ![a] = @ \cup {c}]
        \/ pc' = [pc EXCEPT ![a] = [at |-> "shutdown", obj |-> c]] /\ UNCHANGED table
    BY DEF ConnectWake, AcceptInstall
  <2>2. CASE pc' = [pc EXCEPT ![a] = Idle] /\ table' = [table EXCEPT ![a] = @ \cup {c}]
    BY <1>0, <1>1, <2>2, OwnSettle
  <2>3. CASE pc' = [pc EXCEPT ![a] = [at |-> "shutdown", obj |-> c]] /\ UNCHANGED table
    <3>1. /\ Owners'
          /\ \A h \in Objs : /\ Held(h)' <=> Held(h)
                             /\ InTab(h)' <=> InTab(h)
                             /\ Conn(h)' <=> Conn(h) /\ h # c
                             /\ Closing(h)' <=> Closing(h) \/ ("shutdown" = "destroy" /\ h = c)
      BY <1>0, <1>1, <2>3, OwnMove
    <3> QED
      BY <3>1
  <2> QED
    BY <2>1, <2>2, <2>3
<1>3. \A p \in Ports : SameUsers(p)
  BY <1>2, DisjointAssumption DEF SameUsers, Objs
<1>4. chan[c] \in ChanRecords
  BY <1>0 DEF ChansTyped
<1> DEFINE x == IF ConnectWake(a, c) THEN [chan[c] EXCEPT !.ready = FALSE] ELSE chan[c]
<1>5. /\ x \in ChanRecords /\ x.state = chan[c].state /\ x.peer = chan[c].peer
      /\ x.refs = chan[c].refs /\ x.path = chan[c].path
  <2>1. CASE ConnectWake(a, c)
    <3>1. x = [chan[c] EXCEPT !.ready = FALSE]
      BY <2>1
    <3> HIDE DEF x
    <3> QED
      BY <1>4, <3>1 DEF ChanRecords
  <2>2. CASE ~ConnectWake(a, c)
    BY <1>4, <2>2
  <2> QED
    BY <2>1, <2>2
<1>6. chan' = [chan EXCEPT ![c] = x]
  <2>1. CASE ConnectWake(a, c)
    BY <2>1 DEF ConnectWake
  <2>2. CASE ~ConnectWake(a, c)
    BY <1>0, <2>2 DEF AcceptInstall, ChansTyped
  <2> QED
    BY <2>1, <2>2
<1>7. UNCHANGED <<port, port_list, waiting_list, panic>>
  BY DEF ConnectWake, AcceptInstall
<1> HIDE DEF x
<1>8. /\ ~Conn(c)'
      /\ \A d \in Chans : Conn(d)' => Conn(d)
      /\ \A d \in Chans : Closing(d)' => Closing(d)
  BY <1>0, <1>2 DEF Objs
<1> QED
  BY <1>2, <1>3, <1>5, <1>6, <1>7, <1>8, StepTouch

(* The name a port was created with. *)
PPath(p) == port[p].path

(* port_find_locked finds nothing. *)
LEMMA AbsentIff ==
  \A path : /\ Absent(path) <=> \A p : Listed(p) => PPath(p) # path
            /\ Absent(path)' <=> \A p : Listed(p)' => PPath(p)' # path
BY DEF Absent, port_find_locked, Listed, PPath

(* A step that changes ports and holders only. *)
LEMMA StepPorts ==
  ASSUME IInv, UNCHANGED <<chan, waiting_list, panic>>, Owners', PortInv', PortsTyped',
         \A p \in Ports : PList(p)' = PList(p),
         \A path \in Paths : Absent(path) => Absent(path)',
         \A c \in Chans : /\ Held(c)' <=> Held(c)
                          /\ Conn(c)' => Conn(c)
                          /\ Closing(c)' => Closing(c)
  PROVE  IInv' /\ Forward
<1>0. /\ TypeOK /\ WUniq /\ PUniq /\ ChanInv /\ PortMissing /\ Calls
      /\ ChansTyped /\ WaitTyped /\ PanicTyped
  BY TypeParts DEF IInv, Lists
<1>1. \A c : /\ SameFields(c) /\ Pth(c)' = Pth(c) /\ Rdy(c)' = Rdy(c) /\ Fil(c)' = Fil(c)
  BY DEF SameFields, St, Pr, HRef, NRef, PRef, Pth, Rdy, Fil
<1>2. /\ WUniq' /\ PUniq'
      /\ \A c : Waits(c)' <=> Waits(c)
      /\ \A c : Pend(c)' <=> Pend(c)
      /\ \A path : WList(path)' = WList(path)
  BY <1>0, ListsSame
<1>3. ChanInv' /\ Forward
  BY <1>0, <1>1, <1>2, ChansKeep DEF SamePlaces
<1>4. PortMissing'
  BY <1>0, <1>1, <1>2, MissingSame
<1>5. Calls'
  BY <1>0, <1>1 DEF Calls, SameFields
<1>6. ChansTyped' /\ WaitTyped' /\ OwnTypes' /\ PanicTyped'
  BY <1>0 DEF ChansTyped, WaitTyped, PanicTyped, Owners
<1>7. TypeOK'
  BY <1>6, TypeParts
<1> QED
  BY <1>2, <1>3, <1>4, <1>5, <1>7 DEF IInv, Lists

(* The fields of a port that a step leaves. *)
SamePort(p) == /\ PSt(p)' = PSt(p) /\ RefC(p)' = RefC(p) /\ PList(p)' = PList(p)
               /\ PPath(p)' = PPath(p)

(* Ports that a step leaves stay good. *)
LEMMA OtherPorts ==
  ASSUME PortInv, NEW p \in Ports,
         \A q \in Ports : q # p => SamePort(q) /\ SameUsers(q) /\ (Listed(q)' <=> Listed(q)),
         PortGood(p)'
  PROVE  PortInv'
<1>1. ASSUME NEW q \in Ports, q # p PROVE PortGood(q)'
  <2>1. PSt(q)' = PSt(q) /\ RefC(q)' = RefC(q) /\ PLen(q)' = PLen(q)
    BY <1>1 DEF SamePort, PList, PLen
  <2> QED
    BY <1>1, <2>1, PortSame DEF PortInv
<1> QED
  BY <1>1 DEF PortInv

(* uctx_handle_remove *)
LEMMA StepSysClose ==
  ASSUME IInv, NEW a \in Apps, NEW h \in Ports \cup Chans, SysClose(a, h)
  PROVE  IInv' /\ Forward
<1>0. Owners /\ PortInv /\ PortsTyped /\ h \in Objs
  BY TypeParts DEF IInv, Objs
<1>1. /\ Owners' /\ Held(h) /\ InTab(h)
      /\ \A x \in Objs : /\ Held(x)' <=> Held(x)
                         /\ InTab(x)' <=> InTab(x) /\ x # h
                         /\ Conn(x)' <=> Conn(x)
                         /\ Closing(x)' <=> Closing(x)
  BY <1>0, OwnRemove DEF SysClose
<1>2. \A c \in Chans : /\ Held(c)' <=> Held(c)
                       /\ Conn(c)' => Conn(c)
                       /\ Closing(c)' => Closing(c)
  BY <1>1 DEF Objs
<1>3. UNCHANGED <<chan, port_list, waiting_list, panic>>
  BY DEF SysClose
<1>4. CASE h \notin Ports
  <2>1. UNCHANGED port
    BY <1>4 DEF SysClose
  <2>2. \A p \in Ports : SameUsers(p)
    BY <1>1, <1>4 DEF SameUsers, Objs
  <2>3. /\ PortInv' /\ PortsTyped'
        /\ \A path : Absent(path)' <=> Absent(path)
        /\ \A p : PList(p)' = PList(p)
    BY <1>0, <1>3, <2>1, <2>2, PortsSame
  <2> QED
    BY <1>1, <1>2, <1>3, <2>3, StepPorts
<1>5. CASE h \in Ports
  <2>1. port' = [port EXCEPT ![h].refcnt = @ - 1]
    BY <1>5 DEF SysClose
  <2>2. port[h] \in PortRecords /\ port \in [Ports -> PortRecords]
    BY <1>0, <1>5 DEF PortsTyped
  <2>3. /\ PSt(h)' = PSt(h) /\ PList(h)' = PList(h) /\ PPath(h)' = PPath(h) /\ RefC(h)' = RefC(h) - 1
        /\ port'[h] = [port[h] EXCEPT !.refcnt = RefC(h) - 1]
    <3>1. port'[h] = [port[h] EXCEPT !.refcnt = port[h].refcnt - 1]
      BY <1>5, <2>1, <2>2
    <3> QED
      BY <2>2, <3>1 DEF PSt, PList, PPath, RefC, PortRecords
  <2>4. \A q \in Ports : q # h => SamePort(q)
    BY <2>1, <2>2 DEF SamePort, PSt, PList, PPath, RefC
  <2>5. \A q : Listed(q)' <=> Listed(q)
    BY <1>3 DEF Listed
  <2>6. \A q \in Ports : q # h => SameUsers(q)
    BY <1>1 DEF SameUsers, Objs
  <2>7. PortGood(h)'
    <3>1. PortGood(h)
      BY <1>0, <1>5 DEF PortInv
    <3>2. PLen(h)' = PLen(h)
      BY <2>3 DEF PLen, PList
    <3>3. /\ Count(Held(h))' = Count(Held(h)) /\ Count(Listed(h))' = Count(Listed(h))
          /\ Count(InTab(h)) = 1 /\ Count(InTab(h))' = 0 /\ Count(Held(h)) = 1
          /\ Count(Listed(h)) \in Nat
      BY <1>0, <1>1, <2>5 DEF Count
    <3>4. RefC(h) = 1 + 1 + Count(Listed(h)) + PLen(h) /\ PLen(h) \in Nat
      BY <3>1, <3>3 DEF PortGood
    <3>5. RefC(h)' \in Nat /\ RefC(h)' = 1 + 0 + Count(Listed(h)) + PLen(h)
      BY <2>3, <3>3, <3>4
    <3> QED
      BY <1>0, <1>1, <2>3, <2>5, <3>1, <3>2, <3>3, <3>5 DEF PortGood
  <2>8. PortInv'
    BY <1>0, <1>5, <2>4, <2>5, <2>6, <2>7, OtherPorts
  <2>9. PortsTyped'
    <3>1. RefC(h) - 1 \in Nat
      BY <2>3, <2>7 DEF PortGood
    <3>2. port'[h] \in PortRecords
      BY <2>2, <2>3, <3>1 DEF PortRecords
    <3> QED
      BY <1>0, <1>3, <2>1, <2>2, <3>2 DEF PortsTyped
  <2>10. \A path \in Paths : Absent(path) => Absent(path)'
    <3>1. \A q : Listed(q) => q \in Ports
      BY <1>0 DEF PortsTyped, Listed
    <3> QED
      BY <2>3, <2>4, <2>5, <3>1, AbsentIff DEF SamePort
  <2>11. \A p \in Ports : PList(p)' = PList(p)
    BY <2>3, <2>4 DEF SamePort
  <2> QED
    BY <1>1, <1>2, <1>3, <2>8, <2>9, <2>10, <2>11, StepPorts
<1> QED
  BY <1>4, <1>5

(* The last reference to a port goes. *)
LEMMA StepPortDestroy ==
  ASSUME IInv, NEW a \in Apps, NEW p \in Ports, PortDestroy(a, p)
  PROVE  IInv' /\ Forward
<1>0. Owners /\ PortInv /\ PortsTyped /\ p \in Objs
  BY TypeParts DEF IInv, Objs
<1>1. /\ Owners' /\ Held(p) /\ Closing(p) /\ ~InTab(p)
      /\ \A x \in Objs : /\ Held(x)' <=> Held(x) /\ x # p
                         /\ InTab(x)' <=> InTab(x)
                         /\ Conn(x)' <=> Conn(x)
                         /\ Closing(x)' <=> Closing(x) /\ x # p
  <2>1. /\ pc[a].obj = p /\ pc[a].at = "destroy"
        /\ UNCHANGED table /\ pc' = [pc EXCEPT ![a] = Idle]
    BY DEF PortDestroy, At
  <2> QED
    BY <1>0, <2>1, OwnEnd
<1>2. \A c \in Chans : /\ Held(c)' <=> Held(c)
                       /\ Conn(c)' => Conn(c)
                       /\ Closing(c)' => Closing(c)
  BY <1>1, DisjointAssumption DEF Objs
<1>3. UNCHANGED <<chan, port_list, waiting_list, panic>>
  BY DEF PortDestroy
<1>4. PSt(p) = "CLOSING" /\ ~Listed(p) /\ PLen(p) = 0 /\ RefC(p) = 1
  <2>1. PortGood(p)
    BY <1>0 DEF PortInv
  <2>2. PSt(p) = "CLOSING" /\ ~Listed(p) /\ PLen(p) = 0
    BY <1>1, <2>1 DEF PortGood
  <2>3. Count(Held(p)) = 1 /\ Count(InTab(p)) = 0 /\ Count(Listed(p)) = 0
    BY <1>1, <2>2 DEF Count
  <2> QED
    BY <2>1, <2>2, <2>3 DEF PortGood
<1>5. port[p] \in PortRecords /\ port \in [Ports -> PortRecords]
  BY <1>0 DEF PortsTyped
<1>6. port' = [port EXCEPT ![p] = [FreePort EXCEPT !.pending = port[p].pending]]
  <2>1. port[p].refcnt = 1
    BY <1>4 DEF RefC
  <2> QED
    BY <2>1 DEF PortDestroy
<1>7. port'[p] = [state |-> "FREE", path |-> None, flags |-> {}, refcnt |-> 0, pending |-> PList(p)]
  BY <1>5, <1>6 DEF FreePort, PList
<1>8. PSt(p)' = "FREE" /\ RefC(p)' = 0 /\ PList(p)' = PList(p) /\ PLen(p)' = PLen(p)
  BY <1>7 DEF PSt, RefC, PList, PLen
<1>9. \A q \in Ports : q # p => SamePort(q)
  BY <1>5, <1>6 DEF SamePort, PSt, PList, PPath, RefC
<1>10. \A q : Listed(q)' <=> Listed(q)
  BY <1>3 DEF Listed
<1>11. \A q \in Ports : q # p => SameUsers(q)
  BY <1>1 DEF SameUsers, Objs
<1>12. PortGood(p)'
  <2>1. Count(Held(p))' = 0 /\ Count(InTab(p))' = 0 /\ Count(Listed(p))' = 0
    BY <1>0, <1>1, <1>4, <1>10 DEF Count
  <2> QED
    BY <1>0, <1>1, <1>4, <1>8, <1>10, <2>1 DEF PortGood, PortStates
<1>13. PortInv'
  BY <1>0, <1>9, <1>10, <1>11, <1>12, OtherPorts
<1>14. PortsTyped'
  <2>1. PList(p) \in Seq(Chans)
    BY <1>5 DEF PList, PortRecords
  <2>2. port'[p] \in PortRecords
    BY <1>7, <2>1 DEF PortRecords, PortStates
  <2> QED
    BY <1>0, <1>3, <1>5, <1>6, <2>2 DEF PortsTyped
<1>15. \A path \in Paths : Absent(path) => Absent(path)'
  <2>1. \A q : Listed(q) => q \in Ports
    BY <1>0 DEF PortsTyped, Listed
  <2> QED
    BY <1>4, <1>9, <1>10, <2>1, AbsentIff DEF SamePort
<1>16. \A q \in Ports : PList(q)' = PList(q)
  BY <1>8, <1>9 DEF SamePort
<1> QED
  BY <1>1, <1>2, <1>3, <1>13, <1>14, <1>15, <1>16, StepPorts

(* What a shutdown means for the calls and for those that wait. *)
LEMMA ShutRest ==
  ASSUME ChanInv, ChanInv', PortMissing, Calls, NEW S \in SUBSET Chans, Shut(S),
         \A c \in Chans : Rest(c),
         \A path \in Paths : WList(path)' = WList(path) /\ (Absent(path) => Absent(path)'),
         \A c \in Chans : /\ Conn(c)' => Conn(c)
                          /\ Closing(c)' => Closing(c) \/ (c \in S /\ Held(c))
                          /\ Closing(c) => Held(c)
  PROVE  PortMissing' /\ Calls'
<1>1. PortMissing'
  <2>1. \A c \in Chans : Waits(c) => St(c)' = "WAITING_FOR_PORT"
    BY DEF ChanInv, Waiting, Shut
  <2>2. \A c \in Chans : Waits(c) => Pth(c)' = Pth(c)
    BY <2>1 DEF Rest
  <2> QED
    BY <2>2, MissingSame
<1>2. Calls'
  <2> SUFFICES ASSUME NEW c \in Chans
               PROVE  /\ Conn(c)' => /\ St(c)' = "CONNECTED" => Rdy(c)'
                                     /\ Fil(c)' > 0 => Rdy(c)'
                      /\ Closing(c)' => Pr(c)' = None /\ St(c)' = "DISCONNECTING"
    BY DEF Calls
  <2>1. ASSUME Conn(c)' PROVE St(c)' = "CONNECTED" => Rdy(c)'
    <3> SUFFICES ASSUME St(c)' = "CONNECTED" PROVE Rdy(c)'
      OBVIOUS
    <3>1. St(c) = "CONNECTED"
      BY DEF Shut, Hung
    <3> QED
      BY <2>1, <3>1 DEF Calls, Rest
  <2>2. ASSUME Conn(c)' PROVE Fil(c)' > 0 => Rdy(c)'
    <3>1. CASE Fil(c)' = 0
      BY <3>1
    <3>2. CASE Rdy(c)' = Rdy(c) /\ Fil(c)' = Fil(c)
      BY <2>2, <3>2 DEF Calls
    <3> QED
      BY <3>1, <3>2 DEF Rest
  <2>3. ASSUME Closing(c)' PROVE Pr(c)' = None /\ St(c)' = "DISCONNECTING"
    <3>1. Held(c)
      BY <2>3
    <3>2. HRef(c)'
      BY <3>1 DEF ChanInv, Refs, Shut
    <3>3. CASE c \in S
      <4>1. Hung(St(c)) = "DISCONNECTING"
        BY <3>3 DEF ChanInv, FieldTypes, ChanStates, Hung, Shut
      <4> QED
        BY <3>2, <3>3, <4>1 DEF Shut
    <3>4. CASE c \notin S
      <4>1. Pr(c) = None /\ St(c) = "DISCONNECTING"
        BY <2>3, <3>4 DEF Calls
      <4>2. Hung(St(c)) = "DISCONNECTING"
        BY <4>1 DEF Hung
      <4> QED
        BY <3>2, <3>4, <4>1, <4>2 DEF Shut
    <3> QED
      BY <3>3, <3>4
  <2> QED
    BY <2>1, <2>2, <2>3
<1> QED
  BY <1>1, <1>2

(* The peers of a set of channels are other channels. *)
LEMMA PeersApart ==
  ASSUME NEW S \in SUBSET Chans, \A c \in S : Pr(c) \notin S
  PROVE  S \cap PeersOf(S) = {}
BY DEF PeersOf, Pr

(* The handle reference of a closed channel goes. *)
LEMMA StepChanDestroy ==
  ASSUME IInv, NEW a \in Apps, NEW c \in Chans, ChanDestroy(a, c)
  PROVE  IInv' /\ Forward
<1>0. /\ Owners /\ PortInv /\ PortsTyped /\ ChansTyped /\ WaitTyped /\ PanicTyped /\ c \in Objs
      /\ WUniq /\ PUniq /\ ChanInv /\ PortMissing /\ Calls
  BY TypeParts DEF IInv, Objs, Lists
<1>1. /\ Owners' /\ Held(c) /\ Closing(c) /\ ~InTab(c)
      /\ \A x \in Objs : /\ Held(x)' <=> Held(x) /\ x # c
                         /\ InTab(x)' <=> InTab(x)
                         /\ Conn(x)' <=> Conn(x)
                         /\ Closing(x)' <=> Closing(x) /\ x # c
  <2>1. /\ pc[a].obj = c /\ pc[a].at = "destroy"
        /\ UNCHANGED table /\ pc' = [pc EXCEPT ![a] = Idle]
    BY DEF ChanDestroy, At
  <2> QED
    BY <1>0, <2>1, OwnEnd
<1>2. UNCHANGED <<port, port_list, waiting_list, panic>> /\ chan' = [chan EXCEPT ![c] = DelRef(chan[c], "handle")]
  BY DEF ChanDestroy
<1>3. \A p \in Ports : SameUsers(p)
  BY <1>1, DisjointAssumption DEF SameUsers, Objs
<1>4. /\ PortInv' /\ PortsTyped'
      /\ \A path : Absent(path)' <=> Absent(path)
      /\ \A p : PList(p)' = PList(p)
  BY <1>0, <1>2, <1>3, PortsSame
<1>5. /\ WUniq' /\ PUniq'
      /\ \A x : Waits(x)' <=> Waits(x)
      /\ \A x : Pend(x)' <=> Pend(x)
      /\ \A path : WList(path)' = WList(path)
  BY <1>0, <1>2, <1>4, ListsSame
<1>6. chan[c] \in ChanRecords /\ chan'[c] = DelRef(chan[c], "handle") /\ \A x \in Chans : x # c => chan'[x] = chan[x]
  BY <1>0, <1>2 DEF ChansTyped
<1>7. /\ chan'[c] \in ChanRecords
      /\ chan'[c].peer = chan[c].peer
      /\ chan'[c].refs = chan[c].refs \ {"handle"}
      /\ chan'[c].state = IF chan[c].refs \ {"handle"} = {} THEN "FREE" ELSE chan[c].state
      /\ chan[c].refs \ {"handle"} = {} => chan'[c].filled = 0
      /\ chan[c].refs \ {"handle"} # {} => /\ chan'[c].path = chan[c].path
                                           /\ chan'[c].ready = chan[c].ready
                                           /\ chan'[c].filled = chan[c].filled
  BY <1>6, DelRefFields DEF RefNames
<1>8. ChansTyped'
  BY <1>0, <1>2, <1>6, <1>7 DEF ChansTyped
<1>9. \A x \in Chans : x # c => SameFields(x) /\ Rest(x)
  BY <1>6 DEF SameFields, Rest, St, Pr, HRef, NRef, PRef, Rdy, Fil, Pth
<1>10. /\ ~HRef(c)' /\ Pr(c)' = Pr(c)
       /\ NRef(c)' <=> NRef(c)
       /\ PRef(c)' <=> PRef(c)
  BY <1>7 DEF HRef, NRef, PRef, Pr
<1>11. St(c)' = IF NRef(c) \/ PRef(c) THEN St(c) ELSE "FREE"
  <2>1. chan'[c].refs = {} <=> ~HRef(c)' /\ ~NRef(c)' /\ ~PRef(c)'
    BY <1>7, NoRefs DEF HRef, NRef, PRef
  <2> QED
    BY <1>7, <1>10, <2>1 DEF St
<1>12. Pr(c) = None /\ St(c) = "DISCONNECTING"
  BY <1>0, <1>1 DEF Calls
<1>13. Destroy(c)
  <2>1. Others({c})
    BY <1>1, <1>5, <1>9 DEF Others, SamePlaces, Objs
  <2> QED
    BY <1>0, <1>1, <1>5, <1>10, <1>11, <1>12, <2>1 DEF Destroy
<1>14. ChanInv' /\ Forward
  BY <1>0, <1>13, ChansDestroy
<1>15. Rest(c)
  <2>1. CASE chan[c].refs \ {"handle"} = {}
    BY <1>7, <2>1 DEF Rest, St, Fil
  <2>2. CASE chan[c].refs \ {"handle"} # {}
    BY <1>7, <2>2 DEF Rest, Rdy, Fil, Pth
  <2> QED
    BY <2>1, <2>2
<1>16. PortMissing'
  <2>1. \A x \in Chans : Waits(x) => St(x)' # "FREE"
    BY <1>5, <1>14 DEF ChanInv, Waiting
  <2>2. \A x \in Chans : Waits(x) => Pth(x)' = Pth(x)
    BY <1>9, <1>15, <2>1 DEF Rest
  <2> QED
    BY <1>0, <1>4, <1>5, <2>2, MissingSame
<1>17. Calls'
  <2> SUFFICES ASSUME NEW x \in Chans
               PROVE  /\ Conn(x)' => /\ St(x)' = "CONNECTED" => Rdy(x)'
                                     /\ Fil(x)' > 0 => Rdy(x)'
                      /\ Closing(x)' => Pr(x)' = None /\ St(x)' = "DISCONNECTING"
    BY DEF Calls
  <2>1. x \in Objs /\ (Fil(x)' = 0 \/ (Rdy(x)' = Rdy(x) /\ Fil(x)' = Fil(x)))
    BY <1>9, <1>15 DEF Rest, Objs
  <2>2. St(x)' = "CONNECTED" => St(x) = "CONNECTED" /\ Rdy(x)' = Rdy(x)
    BY <1>9, <1>11, <1>12, <1>15 DEF SameFields, Rest
  <2>3. x # c => St(x)' = St(x) /\ Pr(x)' = Pr(x)
    BY <1>9 DEF SameFields
  <2> QED
    BY <1>0, <1>1, <2>1, <2>2, <2>3 DEF Calls
<1>18. WaitTyped' /\ PanicTyped' /\ OwnTypes'
  BY <1>0, <1>1, <1>2 DEF WaitTyped, PanicTyped, Owners
<1>19. TypeOK'
  BY <1>4, <1>8, <1>18, TypeParts
<1> QED
  BY <1>1, <1>4, <1>5, <1>14, <1>16, <1>17, <1>19 DEF IInv, Lists

(* chan_shutdown of a channel that has, or had, a peer. *)
LEMMA StepChanShutdown ==
  ASSUME IInv, NEW a \in Apps, NEW c \in Chans, ChanShutdown(a, c), chan[c].state # "WAITING_FOR_PORT"
  PROVE  IInv' /\ Forward
<1>0. /\ Owners /\ PortInv /\ PortsTyped /\ ChansTyped /\ WaitTyped /\ PanicTyped /\ c \in Objs
      /\ WUniq /\ PUniq /\ ChanInv /\ PortMissing /\ Calls
  BY TypeParts DEF IInv, Objs, Lists
<1>1. /\ pc[a].obj = c /\ pc[a].at = "shutdown"
      /\ UNCHANGED table /\ pc' = [pc EXCEPT ![a] = [at |-> "destroy", obj |-> c]]
      /\ UNCHANGED <<port, port_list, waiting_list, panic>> /\ chan' = ShutDown({c})
  BY DEF ChanShutdown, At
<1>2. /\ Owners'
      /\ \A h \in Objs : /\ Held(h)' <=> Held(h)
                         /\ InTab(h)' <=> InTab(h)
                         /\ Conn(h)' <=> Conn(h) /\ h # c
                         /\ Closing(h)' <=> Closing(h) \/ ("destroy" = "destroy" /\ h = c)
  BY <1>0, <1>1, OwnMove
<1>3. Held(c) /\ St(c) # "WAITING_FOR_PORT"
  BY <1>0, <1>1, OwnersAt DEF St
<1>4. HRef(c) /\ ~NRef(c) /\ St(c) # "FREE" /\ Pr(c) # c
  BY <1>0, <1>3 DEF ChanInv, Refs, Waiting, Ends, Peers
<1>5. \A p \in Ports : SameUsers(p)
  BY <1>2, DisjointAssumption DEF SameUsers, Objs
<1>6. /\ PortInv' /\ PortsTyped'
      /\ \A path : Absent(path)' <=> Absent(path)
      /\ \A p : PList(p)' = PList(p)
  BY <1>0, <1>1, <1>5, PortsSame
<1>7. /\ WUniq' /\ PUniq'
      /\ \A x : Waits(x)' <=> Waits(x)
      /\ \A x : Pend(x)' <=> Pend(x)
      /\ \A path : WList(path)' = WList(path)
  BY <1>0, <1>1, <1>6, ListsSame
<1> DEFINE S == {c}
<1>8. S \in SUBSET Chans /\ S \cap PeersOf(S) = {} /\ \A x \in S : Pr(x) \notin S
  BY <1>4, PeersApart
<1>9. Down(S)
  <2>1. \A x \in Chans : chan'[x] = ShutDown({c})[x]
    BY <1>1
  <2>2. "node" \notin chan[c].refs /\ chan[c].refs # {}
    BY <1>4 DEF NRef, HRef
  <2> QED
    BY <1>0, <1>8, <2>1, <2>2, DownOnly
<1>10. \A x : x \in S <=> x = c
  OBVIOUS
<1> HIDE DEF S
<1>11. ~Pend(c)
  BY <1>0, <1>3 DEF ChanInv, Ends
<1>12. Shut(S) /\ \A x \in Chans : Rest(x)
  <2>1. \A x \in S : St(x) \notin {"FREE", "WAITING_FOR_PORT"} /\ Pr(x) \notin S
    BY <1>3, <1>4, <1>8, <1>10
  <2>2. \A x \in Chans : /\ Held(x)' <=> Held(x)
                         /\ Waits(x)' <=> Waits(x)
                         /\ Pend(x)' <=> Pend(x) /\ x \notin S
    BY <1>2, <1>7, <1>10, <1>11 DEF Objs
  <2> QED
    BY <1>0, <1>8, <1>9, <2>1, <2>2, DownShut
<1>13. ChanInv' /\ Forward
  BY <1>0, <1>8, <1>12, ChansShut
<1>14. PortMissing' /\ Calls'
  <2>1. \A x \in Chans : /\ Conn(x)' => Conn(x)
                         /\ Closing(x)' => Closing(x) \/ (x \in S /\ Held(x))
                         /\ Closing(x) => Held(x)
    BY <1>2, <1>3, <1>10 DEF Objs, Closing, DestroyAt, Held, HeldBy
  <2> QED
    BY <1>0, <1>6, <1>7, <1>8, <1>12, <1>13, <2>1, ShutRest
<1>15. ChansTyped'
  <2>1. \A x \in Chans : chan'[x] \in ChanRecords
    BY <1>9 DEF Down
  <2> QED
    BY <1>1, <2>1 DEF ChansTyped, ShutDown
<1>16. WaitTyped' /\ PanicTyped' /\ OwnTypes'
  BY <1>0, <1>1, <1>2 DEF WaitTyped, PanicTyped, Owners
<1>17. TypeOK'
  BY <1>6, <1>15, <1>16, TypeParts
<1> QED
  BY <1>2, <1>6, <1>7, <1>13, <1>14, <1>17 DEF IInv, Lists

(* chan_shutdown of a channel that waits for a port. *)
LEMMA StepChanUnwait ==
  ASSUME IInv, NEW a \in Apps, NEW c \in Chans, ChanShutdown(a, c), chan[c].state = "WAITING_FOR_PORT"
  PROVE  IInv' /\ Forward
<1>0. /\ Owners /\ PortInv /\ PortsTyped /\ ChansTyped /\ WaitTyped /\ PanicTyped /\ c \in Objs
      /\ WUniq /\ PUniq /\ ChanInv /\ PortMissing /\ Calls
  BY TypeParts DEF IInv, Objs, Lists
<1>1. /\ pc[a].obj = c /\ pc[a].at = "shutdown"
      /\ UNCHANGED table /\ pc' = [pc EXCEPT ![a] = [at |-> "destroy", obj |-> c]]
      /\ UNCHANGED <<port, port_list, panic>>
      /\ chan' = [chan EXCEPT ![c] = [DelRef(chan[c], "node") EXCEPT !.state = "DISCONNECTING"]]
  BY DEF ChanShutdown, At
<1>2. /\ Owners'
      /\ \A h \in Objs : /\ Held(h)' <=> Held(h)
                         /\ InTab(h)' <=> InTab(h)
                         /\ Conn(h)' <=> Conn(h) /\ h # c
                         /\ Closing(h)' <=> Closing(h) \/ ("destroy" = "destroy" /\ h = c)
  BY <1>0, <1>1, OwnMove
<1>3. St(c) = "WAITING_FOR_PORT" /\ Waits(c) /\ Held(c) /\ ~PRef(c) /\ HRef(c) /\ ~Pend(c) /\ Pr(c) = None
  BY <1>0 DEF ChanInv, Refs, Waiting, Ends, St
<1>4. Pth(c) \in Paths /\ c \in Members(WList(Pth(c)))
  BY <1>0, <1>3 DEF Waits, WList, PortMissing
<1>5. PICK path \in Paths : path = Pth(c)
  BY <1>4
<1>6. WList(path) \in Seq(Chans) /\ Inj(WList(path)) /\ c \in Members(WList(path))
  BY <1>0, <1>4, <1>5 DEF WUniq
<1>7. PICK q \in Seq(Chans) : /\ Members(q) = Members(WList(path)) \ {c} /\ Inj(q)
                              /\ waiting_list' = [waiting_list EXCEPT ![path] = q]
  <2>1. PICK i \in DOMAIN WList(path) : /\ WList(path)[i] = c
                                        /\ waiting_list' = [waiting_list EXCEPT ![path] = list_delete(WList(path), i)]
    BY <1>5 DEF ChanShutdown, Pth, WList
  <2>2. \A k, j \in DOMAIN WList(path) : WList(path)[k] = WList(path)[j] => k = j
    BY <1>6 DEF Inj
  <2>3. /\ list_delete(WList(path), i) \in Seq(Chans)
        /\ Members(list_delete(WList(path), i)) = Members(WList(path)) \ {WList(path)[i]}
        /\ Inj(list_delete(WList(path), i))
    BY <1>6, <2>2, MembersDelete DEF Inj
  <2> QED
    BY <2>1, <2>3
<1>8. path \in Paths /\ waiting_list' = [waiting_list EXCEPT ![path] = q] /\ c \in Members(WList(path))
  BY <1>6, <1>7
<1>9. WaitingTo(path, q)
  BY <1>0, <1>8 DEF WaitingTo, WList, WaitTyped
<1>10. /\ WUniq'
       /\ \A x \in Chans : Waits(x)' <=> x \in Members(q) \/ (Waits(x) /\ x \notin Members(WList(path)))
  BY <1>0, <1>7, <1>8, <1>9, WaitChange
<1>11. \A x \in Chans : Waits(x)' <=> Waits(x) /\ x # c
  <2>1. \A x \in Members(WList(path)) : Waits(x)
    BY <1>8 DEF Waits, WList
  <2> QED
    BY <1>7, <1>8, <1>10, <2>1
<1>12. \A p \in Ports : SameUsers(p)
  BY <1>2, DisjointAssumption DEF SameUsers, Objs
<1>13. /\ PortInv' /\ PortsTyped'
       /\ \A r : Absent(r)' <=> Absent(r)
       /\ \A p : PList(p)' = PList(p)
  BY <1>0, <1>1, <1>12, PortsSame
<1>14. PUniq' /\ \A x : Pend(x)' <=> Pend(x)
  BY <1>0, <1>13, ListsSame
<1>15. chan[c] \in ChanRecords
  BY <1>0 DEF ChansTyped
<1>16. /\ DelRef(chan[c], "node") \in ChanRecords
       /\ DelRef(chan[c], "node").peer = chan[c].peer
       /\ DelRef(chan[c], "node").refs = chan[c].refs \ {"node"}
       /\ chan[c].refs \ {"node"} # {} => DelRef(chan[c], "node").filled = chan[c].filled
  BY <1>15, DelRefFields DEF RefNames
<1>17. /\ chan'[c] \in ChanRecords
       /\ chan'[c].peer = chan[c].peer
       /\ chan'[c].refs = chan[c].refs \ {"node"}
       /\ chan'[c].state = "DISCONNECTING"
       /\ \A x \in Chans : x # c => chan'[x] = chan[x]
  <2> DEFINE y == DelRef(chan[c], "node")
  <2>1. chan'[c] = [y EXCEPT !.state = "DISCONNECTING"] /\ \A x \in Chans : x # c => chan'[x] = chan[x]
    BY <1>0, <1>1 DEF ChansTyped
  <2> HIDE DEF y
  <2>2. y \in ChanRecords /\ y.peer = chan[c].peer /\ y.refs = chan[c].refs \ {"node"}
    BY <1>16 DEF y
  <2> QED
    BY <2>1, <2>2 DEF ChanRecords, ChanStates
<1>18. ChansTyped'
  BY <1>0, <1>1, <1>17 DEF ChansTyped
<1>19. \A x \in Chans : x # c => SameFields(x) /\ Rdy(x)' = Rdy(x) /\ Fil(x)' = Fil(x) /\ Pth(x)' = Pth(x)
  BY <1>17 DEF SameFields, St, Pr, HRef, NRef, PRef, Rdy, Fil, Pth
<1>20. Unwait(c)
  <2>1. Others({c})
    BY <1>2, <1>11, <1>14, <1>19 DEF Others, SamePlaces, Objs
  <2>2. /\ St(c)' = "DISCONNECTING" /\ Pr(c)' = Pr(c) /\ ~NRef(c)'
        /\ HRef(c)' <=> HRef(c)
        /\ PRef(c)' <=> PRef(c)
    BY <1>17 DEF St, Pr, NRef, HRef, PRef
  <2> QED
    BY <1>0, <1>2, <1>3, <1>11, <1>14, <2>1, <2>2 DEF Unwait
<1>21. ChanInv' /\ Forward
  BY <1>0, <1>20, ChansUnwait
<1>22. PortMissing'
  <2> SUFFICES ASSUME NEW r \in Paths, NEW x \in Chans, x \in Members(WList(r))'
               PROVE  Pth(x)' = r /\ Absent(r)'
    BY DEF PortMissing
  <2>1. x \in Members(WList(r)) /\ x # c
    <3>1. x \in Members(WList(r)')
      BY DEF Members
    <3>2. CASE r = path
      BY <1>7, <1>9, <3>1, <3>2 DEF WaitingTo
    <3>3. CASE r # path
      <4>1. x \in Members(WList(r))
        BY <1>9, <3>1, <3>3 DEF WaitingTo
      <4> QED
        BY <1>0, <1>5, <3>3, <4>1 DEF PortMissing
    <3> QED
      BY <3>2, <3>3
  <2> QED
    BY <1>0, <1>13, <1>19, <2>1 DEF PortMissing
<1>23. Calls'
  <2>1. \A x \in Chans : x # c => St(x)' = St(x) /\ Pr(x)' = Pr(x)
    BY <1>19 DEF SameFields
  <2>2. St(c)' = "DISCONNECTING" /\ Pr(c)' = None
    BY <1>3, <1>20 DEF Unwait
  <2>3. ~Conn(c)'
    BY <1>0, <1>2
  <2>4. \A x \in Chans : x # c => /\ Conn(x)' <=> Conn(x)
                                  /\ Closing(x)' <=> Closing(x)
    BY <1>2 DEF Objs
  <2> QED
    BY <1>0, <1>19, <2>1, <2>2, <2>3, <2>4 DEF Calls
<1>24. WaitTyped' /\ PanicTyped' /\ OwnTypes'
  BY <1>0, <1>1, <1>2, <1>7, <1>8 DEF WaitTyped, PanicTyped, Owners
<1>25. TypeOK'
  BY <1>13, <1>18, <1>24, TypeParts
<1> QED
  BY <1>2, <1>10, <1>13, <1>14, <1>21, <1>22, <1>23, <1>25 DEF IInv, Lists

(* The pending list of a port that listens becomes q, and its reference    *)
(* count moves with the length of the list.                                *)
LEMMA PortPending ==
  ASSUME PortInv, PortsTyped, PUniq, NEW p \in Ports, PSt(p) = "LISTENING",
         NEW q \in Seq(Chans), NEW n \in Nat, Inj(q), n = RefC(p) + Len(q) - PLen(p),
         port' = [port EXCEPT ![p].pending = q, ![p].refcnt = n],
         UNCHANGED port_list, \A r \in Ports : SameUsers(r),
         \A c \in Chans : c \in Members(q) /\ Pend(c) => c \in Members(PList(p))
  PROVE  /\ PortInv' /\ PortsTyped' /\ PUniq'
         /\ \A path : Absent(path)' <=> Absent(path)
         /\ \A c \in Chans : Pend(c)' <=> c \in Members(q) \/ (Pend(c) /\ c \notin Members(PList(p)))
<1>1. port[p] \in PortRecords /\ port \in [Ports -> PortRecords]
  BY DEF PortsTyped
<1>2. port'[p] = [port[p] EXCEPT !.pending = q, !.refcnt = n] /\ \A r \in Ports : r # p => port'[r] = port[r]
  BY <1>1
<1>3. /\ port'[p] \in PortRecords
      /\ port'[p].state = port[p].state /\ port'[p].path = port[p].path
      /\ port'[p].pending = q /\ port'[p].refcnt = n
  BY <1>1, <1>2 DEF PortRecords
<1>4. PSt(p)' = PSt(p) /\ PPath(p)' = PPath(p) /\ PList(p)' = q /\ RefC(p)' = n /\ PLen(p)' = Len(q)
  BY <1>3 DEF PSt, PPath, PList, RefC, PLen
<1>5. \A r \in Ports : r # p => SamePort(r)
  BY <1>2 DEF SamePort, PSt, PPath, PList, RefC
<1>6. \A r : Listed(r)' <=> Listed(r)
  BY DEF Listed
<1>7. PortGood(p)'
  <2>1. PortGood(p)
    BY DEF PortInv
  <2>2. /\ Held(p)' <=> Held(p)
        /\ InTab(p)' <=> InTab(p)
        /\ Closing(p)' <=> Closing(p)
    BY DEF SameUsers
  <2>3. /\ Count(Held(p))' = Count(Held(p)) /\ Count(InTab(p))' = Count(InTab(p))
        /\ Count(Listed(p))' = Count(Listed(p))
        /\ Count(Held(p)) \in Nat /\ Count(InTab(p)) \in Nat /\ Count(Listed(p)) \in Nat
    BY <1>6, <2>2 DEF Count
  <2>4. Len(q) \in Nat
    OBVIOUS
  <2>5. n = Count(Held(p)) + Count(InTab(p)) + Count(Listed(p)) + Len(q)
    <3>1. /\ RefC(p) = Count(Held(p)) + Count(InTab(p)) + Count(Listed(p)) + PLen(p)
          /\ PLen(p) \in Nat /\ RefC(p) \in Nat
      BY <2>1 DEF PortGood
    <3> QED
      BY <2>3, <2>4, <3>1
  <2> QED
    BY <1>4, <1>6, <2>1, <2>2, <2>3, <2>4, <2>5 DEF PortGood
<1>8. PortInv'
  BY <1>5, <1>6, <1>7, OtherPorts
<1>9. PortsTyped'
  BY <1>1, <1>3 DEF PortsTyped
<1>10. \A path : Absent(path)' <=> Absent(path)
  <2>1. \A r : Listed(r) => r \in Ports
    BY DEF PortsTyped, Listed
  <2> QED
    BY <1>4, <1>5, <1>6, <2>1, AbsentIff DEF SamePort
<1>11. PendingTo(p, q)
  BY <1>4, <1>5 DEF PendingTo, SamePort
<1>12. /\ PUniq'
       /\ \A c \in Chans : Pend(c)' <=> c \in Members(q) \/ (Pend(c) /\ c \notin Members(PList(p)))
  BY <1>11, PendChange
<1> QED
  BY <1>8, <1>9, <1>10, <1>12

(* ipc_port_accept takes the first pending channel off the list. *)
LEMMA PortPops ==
  ASSUME PortInv, PortsTyped, PUniq, NEW p \in Ports, PSt(p) = "LISTENING",
         PList(p) # << >>, Unlink(p), UNCHANGED port_list, \A r \in Ports : SameUsers(r)
  PROVE  /\ PortInv' /\ PortsTyped' /\ PUniq'
         /\ \A path : Absent(path)' <=> Absent(path)
         /\ Head(PList(p)) \in Chans /\ Pend(Head(PList(p)))
         /\ \A c \in Chans : Pend(c)' <=> Pend(c) /\ c # Head(PList(p))
<1>1. PList(p) \in Seq(Chans) /\ Inj(PList(p)) /\ \A i, j \in DOMAIN PList(p) : PList(p)[i] = PList(p)[j] => i = j
  BY DEF PUniq, Inj
<1>2. PICK q \in Seq(Chans) : q = Tail(PList(p))
  BY <1>1, MembersTail
<1>3. /\ Members(q) = Members(PList(p)) \ {Head(PList(p))}
      /\ Head(PList(p)) \in Members(PList(p)) /\ Head(PList(p)) \in Chans
      /\ Len(q) = PLen(p) - 1
  BY <1>1, <1>2, MembersTail DEF PLen, PList
<1>4. Inj(q)
  BY <1>1, <1>2, InjKept
<1>5. RefC(p) \in Nat /\ PLen(p) \in Nat /\ RefC(p) >= PLen(p)
  <2>1. PortGood(p)
    BY DEF PortInv
  <2>2. Count(Held(p)) \in Nat /\ Count(InTab(p)) \in Nat /\ Count(Listed(p)) \in Nat
    BY DEF Count
  <2>3. /\ RefC(p) = Count(Held(p)) + Count(InTab(p)) + Count(Listed(p)) + PLen(p)
        /\ RefC(p) \in Nat /\ PLen(p) \in Nat
    BY <2>1 DEF PortGood
  <2> QED
    BY <2>2, <2>3
<1>6. Len(q) \in Nat
  OBVIOUS
<1>7. PICK n \in Nat : n = RefC(p) - 1
  BY <1>3, <1>5, <1>6
<1>8. n = RefC(p) + Len(q) - PLen(p)
  BY <1>3, <1>5, <1>7
<1>9. port' = [port EXCEPT ![p].pending = q, ![p].refcnt = n]
  BY <1>2, <1>7 DEF Unlink, PList, RefC
<1>10. \A c \in Members(PList(p)) : Pend(c)
  BY DEF Pend, PList
<1>11. \A c \in Chans : c \in Members(q) /\ Pend(c) => c \in Members(PList(p))
  BY <1>3
<1>12. /\ PortInv' /\ PortsTyped' /\ PUniq'
       /\ \A path : Absent(path)' <=> Absent(path)
       /\ \A c \in Chans : Pend(c)' <=> c \in Members(q) \/ (Pend(c) /\ c \notin Members(PList(p)))
  BY <1>4, <1>8, <1>9, <1>11, PortPending
<1> QED
  BY <1>3, <1>10, <1>12

(* Servers that nobody accepted are shut down and unlinked. *)
LEMMA StepDrop ==
  ASSUME IInv, NEW S \in SUBSET Chans, \A c \in S : Pend(c),
         chan' = [c \in Chans |-> IF c \in S THEN DelRef(ShutDown(S)[c], "node") ELSE ShutDown(S)[c]],
         UNCHANGED <<waiting_list, panic>>, Owners', PortInv', PortsTyped', PUniq',
         \A c \in Chans : Pend(c)' <=> Pend(c) /\ c \notin S,
         \A path \in Paths : Absent(path) => Absent(path)',
         \A c \in Chans : /\ Held(c)' <=> Held(c)
                          /\ Conn(c)' => Conn(c)
                          /\ Closing(c)' => Closing(c)
  PROVE  IInv' /\ Forward
<1>0. /\ ChansTyped /\ WaitTyped /\ PanicTyped
      /\ WUniq /\ ChanInv /\ PortMissing /\ Calls
  BY TypeParts DEF IInv, Lists
<1>1. \A c \in S : St(c) \notin {"FREE", "WAITING_FOR_PORT"} /\ Pr(c) \notin S
  BY <1>0 DEF ChanInv, Ends, Peers
<1>2. S \cap PeersOf(S) = {}
  BY <1>1, PeersApart
<1>3. \A c \in Chans : chan'[c] = IF c \in S THEN DelRef(ShutDown(S)[c], "node") ELSE ShutDown(S)[c]
  OBVIOUS
<1>4. Down(S)
  BY <1>0, <1>2, <1>3, DownAndUnlinked
<1>5. /\ WUniq'
      /\ \A c : Waits(c)' <=> Waits(c)
      /\ \A path : WList(path)' = WList(path)
  BY <1>0, ListsSame
<1>6. Shut(S) /\ \A c \in Chans : Rest(c)
  BY <1>0, <1>1, <1>2, <1>4, <1>5, DownShut
<1>7. ChanInv' /\ Forward
  BY <1>0, <1>6, ChansShut
<1>8. PortMissing' /\ Calls'
  <2>1. \A c \in Chans : /\ Conn(c)' => Conn(c)
                         /\ Closing(c)' => Closing(c) \/ (c \in S /\ Held(c))
                         /\ Closing(c) => Held(c)
    BY DEF Closing, DestroyAt, Held, HeldBy
  <2> QED
    BY <1>0, <1>5, <1>6, <1>7, <2>1, ShutRest
<1>9. ChansTyped'
  <2>1. \A c \in Chans : chan'[c] \in ChanRecords
    BY <1>4 DEF Down
  <2> QED
    BY <2>1 DEF ChansTyped
<1>10. WaitTyped' /\ PanicTyped' /\ OwnTypes'
  BY <1>0 DEF WaitTyped, PanicTyped, Owners
<1>11. TypeOK'
  BY <1>9, <1>10, TypeParts
<1> QED
  BY <1>5, <1>7, <1>8, <1>11 DEF IInv, Lists

(* ipc_port_accept finds that the client has gone. *)
LEMMA StepAcceptDropped ==
  ASSUME IInv, NEW a \in Apps, NEW p \in Ports, AcceptDropped(a, p)
  PROVE  IInv' /\ Forward
<1>0. Owners /\ PortInv /\ PortsTyped /\ ChansTyped /\ PUniq
  BY TypeParts DEF IInv, Lists
<1>1. /\ PSt(p) = "LISTENING" /\ PList(p) # << >> /\ Unlink(p)
      /\ UNCHANGED <<port_list, waiting_list, table, pc, panic>>
  BY DEF AcceptDropped, CanAccept, PSt, PList
<1>2. /\ Owners'
      /\ \A h : /\ Held(h)' <=> Held(h)
                /\ InTab(h)' <=> InTab(h)
                /\ Conn(h)' <=> Conn(h)
                /\ Closing(h)' <=> Closing(h)
  BY <1>0, <1>1, OwnSame
<1>3. \A r \in Ports : SameUsers(r)
  BY <1>2 DEF SameUsers
<1>4. /\ PortInv' /\ PortsTyped' /\ PUniq'
      /\ \A path : Absent(path)' <=> Absent(path)
      /\ Head(PList(p)) \in Chans /\ Pend(Head(PList(p)))
      /\ \A c \in Chans : Pend(c)' <=> Pend(c) /\ c # Head(PList(p))
  BY <1>0, <1>1, <1>3, PortPops
<1>5. PICK s \in Chans : s = Head(PList(p))
  BY <1>4
<1>6. PICK S \in SUBSET Chans : S = {s}
  OBVIOUS
<1>7. \A c : c \in S <=> c = s
  BY <1>6
<1>8. chan' = [ShutDown(S) EXCEPT ![s] = DelRef(@, "node")]
  BY <1>5, <1>6 DEF AcceptDropped, PList
<1>9. chan' = [c \in Chans |-> IF c \in S THEN DelRef(ShutDown(S)[c], "node") ELSE ShutDown(S)[c]]
  <2>1. ShutDown(S) = [c \in Chans |-> ShutDown(S)[c]]
    BY DEF ShutDown
  <2> QED
    BY <1>7, <1>8, <2>1
<1>10. \A c \in Chans : Pend(c)' <=> Pend(c) /\ c \notin S
  BY <1>4, <1>5, <1>7
<1>11. \A c \in S : Pend(c)
  BY <1>4, <1>5, <1>7
<1> QED
  BY <1>1, <1>2, <1>4, <1>9, <1>10, <1>11, StepDrop

(* port_shutdown *)
LEMMA StepPortShutdown ==
  ASSUME IInv, NEW a \in Apps, NEW p \in Ports, PortShutdown(a, p)
  PROVE  IInv' /\ Forward
<1>0. /\ Owners /\ PortInv /\ PortsTyped /\ PUniq /\ p \in Objs
      /\ PortGood(p) /\ PList(p) \in Seq(Chans)
  BY TypeParts DEF IInv, Lists, Objs, PortInv, PUniq
<1>1. /\ pc[a].obj = p /\ pc[a].at = "shutdown"
      /\ UNCHANGED table /\ pc' = [pc EXCEPT ![a] = [at |-> "destroy", obj |-> p]]
      /\ port_list' = port_list \ {p} /\ UNCHANGED <<waiting_list, panic>>
  BY DEF PortShutdown, At
<1>2. /\ Owners'
      /\ \A h \in Objs : /\ Held(h)' <=> Held(h)
                         /\ InTab(h)' <=> InTab(h)
                         /\ Conn(h)' <=> Conn(h) /\ h # p
                         /\ Closing(h)' <=> Closing(h) \/ ("destroy" = "destroy" /\ h = p)
  BY <1>0, <1>1, OwnMove
<1>3. Held(p) /\ ~InTab(p) /\ ~Closing(p)
  <2>1. Held(p) /\ ~InTab(p)
    BY <1>0, <1>1, OwnersAt
  <2>2. \A b \in Apps : DestroyAt(b, p) => b = a
    BY <1>0, <1>1 DEF Owners, Uniq, HeldBy, DestroyAt
  <2> QED
    BY <1>1, <2>1, <2>2 DEF Closing, DestroyAt
<1>4. PSt(p) = "LISTENING" /\ Listed(p) /\ RefC(p) = 2 + PLen(p) /\ PLen(p) \in Nat
  <2>1. PSt(p) = "LISTENING" /\ Listed(p)
    BY <1>0, <1>3 DEF PortGood, PortStates
  <2>2. Count(Held(p)) = 1 /\ Count(InTab(p)) = 0 /\ Count(Listed(p)) = 1
    BY <1>3, <2>1 DEF Count
  <2>3. RefC(p) = 1 + 0 + 1 + PLen(p) /\ PLen(p) \in Nat
    BY <1>0, <2>2 DEF PortGood
  <2> QED
    BY <2>1, <2>3
<1>5. port[p] \in PortRecords /\ port \in [Ports -> PortRecords]
  BY <1>0 DEF PortsTyped
<1>6. port' = [port EXCEPT ![p].state = "CLOSING", ![p].pending = << >>, ![p].refcnt = 1]
  <2>1. port[p].refcnt - (IF p \in port_list THEN 1 ELSE 0) - Len(port[p].pending) = 1
    BY <1>4 DEF RefC, PLen, Listed
  <2>2. port' = [port EXCEPT ![p].state = "CLOSING", ![p].pending = << >>,
          ![p].refcnt = port[p].refcnt - (IF p \in port_list THEN 1 ELSE 0) - Len(port[p].pending)]
    BY DEF PortShutdown
  <2> QED
    BY <2>1, <2>2
<1>7. /\ port'[p] = [port[p] EXCEPT !.state = "CLOSING", !.pending = << >>, !.refcnt = 1]
      /\ \A r \in Ports : r # p => port'[r] = port[r]
  BY <1>5, <1>6
<1>8. /\ port'[p] \in PortRecords
      /\ port'[p].state = "CLOSING" /\ port'[p].pending = << >> /\ port'[p].refcnt = 1
  <2>1. << >> \in Seq(Chans) /\ "CLOSING" \in PortStates /\ 1 \in Nat
    BY DEF PortStates
  <2> QED
    BY <1>5, <1>7, <2>1 DEF PortRecords
<1>9. PSt(p)' = "CLOSING" /\ PList(p)' = << >> /\ RefC(p)' = 1 /\ PLen(p)' = 0
  BY <1>8 DEF PSt, PList, RefC, PLen
<1>10. \A r \in Ports : r # p => SamePort(r)
  BY <1>7 DEF SamePort, PSt, PPath, PList, RefC
<1>11. ~Listed(p)' /\ \A r : r # p => (Listed(r)' <=> Listed(r))
  BY <1>1 DEF Listed
<1>12. \A r \in Ports : r # p => SameUsers(r)
  BY <1>2 DEF SameUsers, Objs
<1>13. PortGood(p)'
  <2>1. Held(p)' /\ ~InTab(p)' /\ Closing(p)'
    BY <1>0, <1>2, <1>3
  <2>2. Count(Held(p))' = 1 /\ Count(InTab(p))' = 0 /\ Count(Listed(p))' = 0
    BY <1>11, <2>1 DEF Count
  <2>3. RefC(p)' = Count(Held(p))' + Count(InTab(p))' + Count(Listed(p))' + PLen(p)'
    BY <1>9, <2>2
  <2>4. PSt(p)' \in PortStates /\ RefC(p)' \in Nat /\ PLen(p)' \in Nat
    BY <1>9 DEF PortStates
  <2>5. /\ PSt(p)' = "FREE" <=> ~Held(p)'
        /\ PSt(p)' = "CLOSING" <=> Closing(p)'
        /\ Listed(p)' <=> PSt(p)' = "LISTENING"
        /\ PSt(p)' # "LISTENING" => PLen(p)' = 0
    BY <1>9, <1>11, <2>1
  <2> QED
    BY <2>3, <2>4, <2>5 DEF PortGood
<1>14. PortInv'
  BY <1>0, <1>10, <1>11, <1>12, <1>13, OtherPorts
<1>15. PortsTyped'
  BY <1>0, <1>1, <1>5, <1>6, <1>8 DEF PortsTyped
<1>16. \A path \in Paths : Absent(path) => Absent(path)'
  <2>1. \A r : Listed(r) => r \in Ports
    BY <1>0 DEF PortsTyped, Listed
  <2> QED
    BY <1>10, <1>11, <2>1, AbsentIff DEF SamePort
<1>17. PICK S \in SUBSET Chans : S = Members(PList(p))
  BY <1>0, MembersAt
<1>18. PUniq' /\ \A c \in Chans : Pend(c)' <=> Pend(c) /\ c \notin S
  <2>1. PendingTo(p, << >>)
    BY <1>9, <1>10 DEF PendingTo, SamePort
  <2>2. << >> \in Seq(Chans) /\ Inj(<< >>)
    BY <1>0, InjKept DEF Inj
  <2>3. /\ PUniq'
        /\ \A c \in Chans : Pend(c)' <=> c \in Members(<< >>) \/ (Pend(c) /\ c \notin Members(PList(p)))
    BY <1>0, <2>1, <2>2, MembersNone, PendChange
  <2> QED
    BY <1>17, <2>3, MembersNone
<1>19. \A c \in S : Pend(c)
  BY <1>17 DEF Pend, PList
<1>20. chan' = [c \in Chans |-> IF c \in S THEN DelRef(ShutDown(S)[c], "node") ELSE ShutDown(S)[c]]
  BY <1>17 DEF PortShutdown, PList
<1>21. \A c \in Chans : /\ Held(c)' <=> Held(c)
                        /\ Conn(c)' => Conn(c)
                        /\ Closing(c)' => Closing(c)
  BY <1>2, DisjointAssumption DEF Objs
<1> QED
  BY <1>1, <1>2, <1>14, <1>15, <1>16, <1>18, <1>19, <1>20, <1>21, StepDrop

(* What a call connects to or closes, it holds. *)
LEMMA CallsHold ==
  \A h : /\ Conn(h) => Held(h)
         /\ Closing(h) => Held(h)
BY DEF Conn, ConnAt, Closing, DestroyAt, Held, HeldBy

(* ipc_port_accept connects the two ends. *)
LEMMA StepAccept ==
  ASSUME IInv, NEW a \in Apps, NEW p \in Ports, Accept(a, p)
  PROVE  IInv' /\ Forward
<1>0. /\ Owners /\ PortInv /\ PortsTyped /\ ChansTyped /\ WaitTyped /\ PanicTyped
      /\ WUniq /\ PUniq /\ ChanInv /\ PortMissing /\ Calls
  BY TypeParts DEF IInv, Lists
<1>1. /\ PSt(p) = "LISTENING" /\ PList(p) # << >> /\ Unlink(p) /\ pc[a] = Idle
      /\ UNCHANGED <<port_list, waiting_list, table, panic>>
  BY DEF Accept, CanAccept, PSt, PList
<1>2. Head(PList(p)) \in Members(PList(p)) /\ Head(PList(p)) \in Chans
  <2>1. PList(p) \in Seq(Chans) /\ \A i, j \in DOMAIN PList(p) : PList(p)[i] = PList(p)[j] => i = j
    BY <1>0 DEF PUniq, Inj
  <2> QED
    BY <1>1, <2>1, MembersTail
<1>3. PICK s \in Chans : s = Head(PList(p))
  BY <1>2
<1>4. /\ Pr(s) # None /\ St(s) = "ACCEPTING" /\ St(Pr(s)) = "CONNECTING"
      /\ chan' = [chan EXCEPT ![s].state = "CONNECTED",
                              ![s].refs = (@ \ {"node"}) \cup {"handle"},
                              ![Pr(s)].state = "CONNECTED",
                              ![Pr(s)].ready = TRUE]
      /\ pc' = [pc EXCEPT ![a] = [at |-> "accept", obj |-> s]]
  BY <1>3 DEF Accept, StillConnecting, Pr, St, PList
<1>5. PICK c \in Chans : c = Pr(s)
  BY <1>0, <1>4 DEF ChanInv, FieldTypes
<1>6. Pend(s) /\ ~Held(s) /\ ~Waits(s) /\ c # s /\ s \in Objs
  <2>1. Pend(s)
    BY <1>2, <1>3 DEF Pend, PList
  <2> QED
    BY <1>0, <1>4, <1>5, <2>1 DEF ChanInv, Ends, Waiting, Objs
<1>7. /\ Owners'
      /\ \A h \in Objs : /\ Held(h)' <=> Held(h) \/ h = s
                         /\ InTab(h)' <=> InTab(h)
                         /\ Conn(h)' <=> Conn(h) \/ ("accept" = "connect" /\ h = s)
                         /\ Closing(h)' <=> Closing(h)
  BY <1>0, <1>1, <1>4, <1>6, OwnBegin
<1>8. \A r \in Ports : SameUsers(r)
  BY <1>7, DisjointAssumption DEF SameUsers, Objs
<1>9. /\ PortInv' /\ PortsTyped' /\ PUniq'
      /\ \A path : Absent(path)' <=> Absent(path)
      /\ \A x \in Chans : Pend(x)' <=> Pend(x) /\ x # s
  BY <1>0, <1>1, <1>3, <1>8, PortPops
<1>10. /\ WUniq'
       /\ \A x : Waits(x)' <=> Waits(x)
       /\ \A path : WList(path)' = WList(path)
  BY <1>0, <1>1, ListsSame
<1>11. chan[s] \in ChanRecords /\ chan[c] \in ChanRecords
  BY <1>0 DEF ChansTyped
<1>12. /\ chan'[s] = [chan[s] EXCEPT !.state = "CONNECTED", !.refs = (@ \ {"node"}) \cup {"handle"}]
       /\ chan'[c] = [chan[c] EXCEPT !.state = "CONNECTED", !.ready = TRUE]
       /\ \A x \in Chans : x # c /\ x # s => chan'[x] = chan[x]
  <2>1. chan' = [chan EXCEPT ![s].state = "CONNECTED",
                             ![s].refs = (@ \ {"node"}) \cup {"handle"},
                             ![c].state = "CONNECTED",
                             ![c].ready = TRUE]
    BY <1>4, <1>5
  <2>2. s # c /\ chan \in [Chans -> ChanRecords]
    BY <1>0, <1>6 DEF ChansTyped
  <2> QED
    BY <1>11, <2>1, <2>2 DEF ChanRecords
<1>13. /\ chan'[s] \in ChanRecords /\ chan'[s].state = "CONNECTED" /\ chan'[s].peer = chan[s].peer
       /\ chan'[s].refs = (chan[s].refs \ {"node"}) \cup {"handle"} /\ chan'[s].path = chan[s].path
  <2> DEFINE R == (chan[s].refs \ {"node"}) \cup {"handle"}
  <2>1. chan'[s] = [chan[s] EXCEPT !.state = "CONNECTED", !.refs = R]
    BY <1>12
  <2>2. R \in SUBSET {"handle", "node", "peer"}
    BY <1>11 DEF ChanRecords
  <2> HIDE DEF R
  <2>3. /\ chan'[s] \in ChanRecords /\ chan'[s].state = "CONNECTED" /\ chan'[s].peer = chan[s].peer
        /\ chan'[s].refs = R /\ chan'[s].path = chan[s].path
    BY <1>11, <2>1, <2>2 DEF ChanRecords, ChanStates
  <2> QED
    BY <2>3 DEF R
<1>14. /\ chan'[c] \in ChanRecords /\ chan'[c].state = "CONNECTED" /\ chan'[c].peer = chan[c].peer
       /\ chan'[c].refs = chan[c].refs /\ chan'[c].ready = TRUE /\ chan'[c].path = chan[c].path
  BY <1>11, <1>12 DEF ChanRecords, ChanStates
<1>15. ChansTyped'
  BY <1>0, <1>4, <1>12, <1>13, <1>14 DEF ChansTyped
<1>16. \A x \in Chans : x # c /\ x # s => SameFields(x) /\ Rdy(x)' = Rdy(x) /\ Fil(x)' = Fil(x) /\ Pth(x)' = Pth(x)
  BY <1>12 DEF SameFields, St, Pr, HRef, NRef, PRef, Rdy, Fil, Pth
<1>17. /\ St(s)' = "CONNECTED" /\ Pr(s)' = Pr(s) /\ HRef(s)' /\ ~NRef(s)' /\ Pth(s)' = Pth(s)
       /\ PRef(s)' <=> PRef(s)
  BY <1>13 DEF St, Pr, HRef, NRef, PRef, Pth
<1>18. /\ St(c)' = "CONNECTED" /\ Pr(c)' = Pr(c) /\ Rdy(c)' /\ Pth(c)' = Pth(c)
       /\ HRef(c)' <=> HRef(c)
       /\ NRef(c)' <=> NRef(c)
       /\ PRef(c)' <=> PRef(c)
  BY <1>14 DEF St, Pr, HRef, NRef, PRef, Rdy, Pth
<1>19. \A x \in Chans : x # s => SamePlaces(x)
  BY <1>7, <1>9, <1>10 DEF SamePlaces, Objs
<1>20. Join(s, c)
  <2>1. Others({s, c})
    BY <1>16, <1>19 DEF Others
  <2>2. Held(s)' /\ ~Pend(s)' /\ ~Waits(s)'
    BY <1>6, <1>7, <1>9, <1>10
  <2> QED
    BY <1>4, <1>5, <1>6, <1>17, <1>18, <1>19, <2>1, <2>2 DEF Join
<1>21. ChanInv' /\ Forward
  BY <1>0, <1>20, ChansJoin
<1>22. PortMissing'
  BY <1>0, <1>9, <1>10, <1>16, <1>17, <1>18, MissingSame
<1>23. Calls'
  <2>1. ~Conn(s) /\ ~Closing(s) /\ ~Closing(c)
    BY <1>0, <1>4, <1>5, <1>6, CallsHold DEF Calls
  <2>2. \A x \in Chans : /\ Conn(x)' <=> Conn(x)
                         /\ Closing(x)' <=> Closing(x)
    BY <1>7 DEF Objs
  <2>3. \A x \in Chans : x # c /\ x # s => St(x)' = St(x) /\ Pr(x)' = Pr(x)
    BY <1>16 DEF SameFields
  <2> QED
    BY <1>0, <1>16, <1>18, <2>1, <2>2, <2>3 DEF Calls
<1>24. WaitTyped' /\ PanicTyped' /\ OwnTypes'
  BY <1>0, <1>1, <1>7 DEF WaitTyped, PanicTyped, Owners
<1>25. TypeOK'
  BY <1>9, <1>15, <1>24, TypeParts
<1> QED
  BY <1>7, <1>9, <1>10, <1>21, <1>22, <1>23, <1>25 DEF IInv, Lists

(* The end of sys_connect: the new channel is held. *)
LEMMA OwnConnect ==
  ASSUME Owners, NEW a \in Apps, NEW c \in Chans, NEW async \in BOOLEAN, ~Held(c), pc[a] = Idle,
         AfterConnect(a, c, async)
  PROVE  /\ Owners'
         /\ \A h \in Objs : /\ Held(h)' <=> Held(h) \/ h = c
                            /\ Conn(h)' => Conn(h) \/ h = c
                            /\ Closing(h)' <=> Closing(h)
         /\ \A p \in Ports : SameUsers(p)
<1>0. c \in Objs /\ \A p \in Ports : p \in Objs /\ p # c
  BY DisjointAssumption DEF Objs
<1>1. \/ pc' = [pc EXCEPT ![a] = [at |-> "connect", obj |-> c]] /\ UNCHANGED table
      \/ pc' = [pc EXCEPT ![a] = [at |-> "shutdown", obj |-> c]] /\ UNCHANGED table
      \/ table' = [table EXCEPT ![a] = @ \cup {c}] /\ UNCHANGED pc
  BY DEF AfterConnect
<1>2. ASSUME NEW w \in {"connect", "accept", "shutdown"},
             pc' = [pc EXCEPT ![a] = [at |-> w, obj |-> c]], UNCHANGED table
      PROVE  /\ Owners'
             /\ \A h \in Objs : /\ Held(h)' <=> Held(h) \/ h = c
                                /\ InTab(h)' <=> InTab(h)
                                /\ Conn(h)' <=> Conn(h) \/ (w = "connect" /\ h = c)
                                /\ Closing(h)' <=> Closing(h)
  BY <1>0, <1>2, OwnBegin
<1>3. /\ Owners'
      /\ \A h \in Objs : /\ Held(h)' <=> Held(h) \/ h = c
                         /\ InTab(h)' <=> InTab(h) \/ (h = c /\ InTab(c)')
                         /\ Conn(h)' => Conn(h) \/ h = c
                         /\ Closing(h)' <=> Closing(h)
  <2>1. CASE pc' = [pc EXCEPT ![a] = [at |-> "connect", obj |-> c]] /\ UNCHANGED table
    BY <1>2, <2>1
  <2>2. CASE pc' = [pc EXCEPT ![a] = [at |-> "shutdown", obj |-> c]] /\ UNCHANGED table
    BY <1>2, <2>2
  <2>3. CASE table' = [table EXCEPT ![a] = @ \cup {c}] /\ UNCHANGED pc
    BY <1>0, <2>3, OwnInstall
  <2> QED
    BY <1>1, <2>1, <2>2, <2>3
<1> QED
  BY <1>0, <1>3 DEF SameUsers

(* Nothing points at a channel that is free. *)
LEMMA FreeAlone ==
  ASSUME ChanInv, NEW c \in Chans, St(c) = "FREE"
  PROVE  ~Held(c) /\ ~Waits(c) /\ ~Pend(c)
BY DEF ChanInv, Refs

(* ipc_port_connect_async finds no port and waits for it. *)
LEMMA StepConnectWait ==
  ASSUME IInv, NEW a \in Apps, NEW path \in Paths, NEW c \in Chans, NEW async \in BOOLEAN,
         ConnectWait(a, path, c, async)
  PROVE  IInv' /\ Forward
<1>0. /\ Owners /\ PortInv /\ PortsTyped /\ ChansTyped /\ WaitTyped /\ PanicTyped /\ c \in Objs
      /\ WUniq /\ PUniq /\ ChanInv /\ PortMissing /\ Calls
  BY TypeParts DEF IInv, Objs, Lists
<1>1. /\ St(c) = "FREE" /\ Absent(path) /\ pc[a] = Idle /\ AfterConnect(a, c, async)
      /\ UNCHANGED <<port, port_list, panic>>
      /\ waiting_list' = [waiting_list EXCEPT ![path] = Append(@, c)]
      /\ chan' = [chan EXCEPT ![c] = [FreeChan EXCEPT !.state = "WAITING_FOR_PORT", !.path = path,
                                                      !.refs = {"handle", "node"}]]
  BY DEF ConnectWait, St, Absent
<1>2. ~Held(c) /\ ~Waits(c) /\ ~Pend(c)
  BY <1>0, <1>1, FreeAlone
<1>3. /\ Owners'
      /\ \A h \in Objs : /\ Held(h)' <=> Held(h) \/ h = c
                         /\ Conn(h)' => Conn(h) \/ h = c
                         /\ Closing(h)' <=> Closing(h)
      /\ \A p \in Ports : SameUsers(p)
  BY <1>0, <1>1, <1>2, OwnConnect
<1>4. /\ PortInv' /\ PortsTyped'
      /\ \A r : Absent(r)' <=> Absent(r)
      /\ \A p : PList(p)' = PList(p)
  BY <1>0, <1>1, <1>3, PortsSame
<1>5. PUniq' /\ \A x : Pend(x)' <=> Pend(x)
  BY <1>0, <1>4, ListsSame
<1>6. WList(path) \in Seq(Chans) /\ Inj(WList(path)) /\ c \notin Members(WList(path))
  BY <1>0, <1>2 DEF WUniq, Waits, WList
<1>7. PICK q \in Seq(Chans) : q = Append(WList(path), c)
  BY <1>6, MembersAppend
<1>8. Members(q) = Members(WList(path)) \cup {c} /\ Inj(q)
  BY <1>6, <1>7, MembersAppend, InjKept
<1>9. waiting_list' = [waiting_list EXCEPT ![path] = q]
  BY <1>1, <1>7 DEF WList
<1>10. WaitingTo(path, q)
  BY <1>0, <1>9 DEF WaitingTo, WList, WaitTyped
<1>11. /\ WUniq'
       /\ \A x \in Chans : Waits(x)' <=> x \in Members(q) \/ (Waits(x) /\ x \notin Members(WList(path)))
  BY <1>0, <1>8, <1>10, WaitChange
<1>12. \A x \in Chans : Waits(x)' <=> Waits(x) \/ x = c
  <2>1. \A x \in Members(WList(path)) : Waits(x)
    BY DEF Waits, WList
  <2> QED
    BY <1>8, <1>11, <2>1
<1>13. chan'[c] = [state |-> "WAITING_FOR_PORT", peer |-> None, refs |-> {"handle", "node"}, ready |-> FALSE,
                   path |-> path, hasq |-> FALSE, filled |-> 0, read |-> 0]
       /\ \A x \in Chans : x # c => chan'[x] = chan[x]
  BY <1>0, <1>1 DEF ChansTyped, FreeChan
<1>14. chan'[c] \in ChanRecords
  BY <1>13 DEF ChanRecords, ChanStates
<1>15. ChansTyped'
  BY <1>0, <1>1, <1>14 DEF ChansTyped
<1>16. \A x \in Chans : x # c => SameFields(x) /\ Rdy(x)' = Rdy(x) /\ Fil(x)' = Fil(x) /\ Pth(x)' = Pth(x)
  BY <1>13 DEF SameFields, St, Pr, HRef, NRef, PRef, Rdy, Fil, Pth
<1>17. /\ St(c)' = "WAITING_FOR_PORT" /\ Pr(c)' = None /\ HRef(c)' /\ NRef(c)' /\ ~PRef(c)'
       /\ Fil(c)' = 0 /\ Pth(c)' = path
  BY <1>13 DEF St, Pr, HRef, NRef, PRef, Fil, Pth
<1>18. Wait(c)
  <2>1. Others({c})
    BY <1>3, <1>5, <1>12, <1>16 DEF Others, SamePlaces, Objs
  <2>2. Held(c)' /\ Waits(c)' /\ ~Pend(c)'
    BY <1>0, <1>2, <1>3, <1>5, <1>12
  <2> QED
    BY <1>1, <1>17, <2>1, <2>2 DEF Wait
<1>19. ChanInv' /\ Forward
  BY <1>0, <1>18, ChansWait
<1>20. PortMissing'
  <2> SUFFICES ASSUME NEW r \in Paths, NEW x \in Chans, x \in Members(WList(r))'
               PROVE  Pth(x)' = r /\ Absent(r)'
    BY DEF PortMissing
  <2>1. x \in Members(WList(r)) \/ (x = c /\ r = path)
    <3>1. x \in Members(WList(r)')
      BY DEF Members
    <3>2. CASE r = path
      BY <1>8, <1>10, <3>1, <3>2 DEF WaitingTo
    <3>3. CASE r # path
      BY <1>10, <3>1, <3>3 DEF WaitingTo
    <3> QED
      BY <3>2, <3>3
  <2>2. CASE x \in Members(WList(r))
    <3>1. x # c
      BY <1>2, <2>2 DEF Waits, WList
    <3> QED
      BY <1>0, <1>4, <1>16, <2>2, <3>1 DEF PortMissing
  <2>3. CASE x = c /\ r = path
    BY <1>1, <1>4, <1>17, <2>3
  <2> QED
    BY <2>1, <2>2, <2>3
<1>21. Calls'
  <2>1. \A x \in Chans : x # c => St(x)' = St(x) /\ Pr(x)' = Pr(x)
    BY <1>16 DEF SameFields
  <2>2. \A x \in Chans : x # c => /\ Conn(x)' => Conn(x)
                                  /\ Closing(x)' => Closing(x)
    BY <1>3 DEF Objs
  <2>3. ~Closing(c)' /\ St(c)' # "CONNECTED" /\ ~(Fil(c)' > 0)
    BY <1>0, <1>2, <1>3, <1>17, CallsHold
  <2> QED
    BY <1>0, <1>16, <2>1, <2>2, <2>3 DEF Calls
<1>22. WaitTyped' /\ PanicTyped' /\ OwnTypes'
  BY <1>0, <1>1, <1>3, <1>7, <1>9 DEF WaitTyped, PanicTyped, Owners
<1>23. TypeOK'
  BY <1>4, <1>15, <1>22, TypeParts
<1> QED
  BY <1>3, <1>4, <1>5, <1>11, <1>19, <1>20, <1>21, <1>23 DEF IInv, Lists

(* What new connections mean for the calls: nobody has sent anything yet. *)
LEMMA AttachCalls ==
  ASSUME ChanInv, Calls, NEW A \in SUBSET Chans, NEW new, Attach(A, new),
         \A c \in Chans : Closing(c)' => Closing(c),
         \A c \in A : Conn(c)' => (Fil(c)' > 0 => Rdy(c)'),
         \A c \in Chans : c \notin A => (Conn(c)' => Conn(c)),
         \A c \in Chans : c \notin A \cup {new[w] : w \in A} => Rdy(c)' = Rdy(c) /\ Fil(c)' = Fil(c)
  PROVE  Calls'
<1> SUFFICES ASSUME NEW c \in Chans
             PROVE  /\ Conn(c)' => /\ St(c)' = "CONNECTED" => Rdy(c)'
                                   /\ Fil(c)' > 0 => Rdy(c)'
                    /\ Closing(c)' => Pr(c)' = None /\ St(c)' = "DISCONNECTING"
  BY DEF Calls
<1>1. CASE c \in A
  <2>1. St(c)' = "CONNECTING" /\ St(c) # "DISCONNECTING"
    BY <1>1 DEF Attach
  <2> QED
    BY <1>1, <2>1 DEF Calls
<1>2. CASE c \in {new[w] : w \in A}
  <2>1. St(c) = "FREE" /\ c \notin A
    BY <1>2 DEF Attach
  <2>2. ~Conn(c) /\ ~Closing(c)
    BY <2>1, FreeAlone, CallsHold
  <2> QED
    BY <2>1, <2>2
<1>3. CASE c \notin A \cup {new[w] : w \in A}
  <2>1. St(c)' = St(c) /\ Pr(c)' = Pr(c)
    BY <1>3 DEF Attach, Others, SameFields
  <2> QED
    BY <1>3, <2>1 DEF Calls
<1> QED
  BY <1>1, <1>2, <1>3

(* The fields of the two ends that port_attach_client makes. *)
LEMMA ServerFields ==
  ASSUME NEW c \in Chans
  PROVE  /\ ServerFor(c) \in ChanRecords
         /\ ServerFor(c).state = "ACCEPTING" /\ ServerFor(c).peer = c
         /\ ServerFor(c).refs = {"peer", "node"}
<1> DEFINE R == {"peer", "node"}
<1>1. R \in SUBSET {"handle", "node", "peer"}
  OBVIOUS
<1>2. ServerFor(c) = [FreeChan EXCEPT !.state = "ACCEPTING", !.peer = c, !.refs = R, !.hasq = TRUE]
  BY DEF ServerFor
<1> HIDE DEF R
<1>3. FreeChan \in ChanRecords
  BY DEF FreeChan, ChanRecords, ChanStates
<1>4. /\ ServerFor(c) \in ChanRecords
      /\ ServerFor(c).state = "ACCEPTING" /\ ServerFor(c).peer = c /\ ServerFor(c).refs = R
  BY <1>1, <1>2, <1>3 DEF ChanRecords, ChanStates
<1> QED
  BY <1>4 DEF R

(* ipc_port_connect_async finds the port. *)
LEMMA StepConnect ==
  ASSUME IInv, NEW a \in Apps, NEW p \in Ports, NEW c \in Chans, NEW s \in Chans, NEW async \in BOOLEAN,
         Connect(a, p, c, s, async)
  PROVE  IInv' /\ Forward
<1>0. /\ Owners /\ PortInv /\ PortsTyped /\ ChansTyped /\ WaitTyped /\ PanicTyped
      /\ c \in Objs /\ s \in Objs
      /\ WUniq /\ PUniq /\ ChanInv /\ PortMissing /\ Calls
  BY TypeParts DEF IInv, Objs, Lists
<1>1. /\ St(c) = "FREE" /\ St(s) = "FREE" /\ c # s /\ Listed(p)
      /\ pc[a] = Idle /\ AfterConnect(a, c, async)
      /\ UNCHANGED <<port_list, waiting_list, panic>>
      /\ chan' = [chan EXCEPT ![c] = [Attached(FreeChan, s) EXCEPT !.refs = {"handle", "peer"}],
                              ![s] = ServerFor(c)]
      /\ port' = [port EXCEPT ![p].pending = Append(@, s), ![p].refcnt = @ + 1]
  BY DEF Connect, St, Listed
<1>2. ~Held(c) /\ ~Waits(c) /\ ~Pend(c) /\ ~Held(s) /\ ~Waits(s) /\ ~Pend(s)
  BY <1>0, <1>1, FreeAlone
<1>3. /\ Owners'
      /\ \A h \in Objs : /\ Held(h)' <=> Held(h) \/ h = c
                         /\ Conn(h)' => Conn(h) \/ h = c
                         /\ Closing(h)' <=> Closing(h)
      /\ \A r \in Ports : SameUsers(r)
  BY <1>0, <1>1, <1>2, OwnConnect
<1>4. PList(p) \in Seq(Chans) /\ Inj(PList(p)) /\ s \notin Members(PList(p))
  BY <1>0, <1>2 DEF PUniq, Pend, PList
<1>5. PICK q \in Seq(Chans) : q = Append(PList(p), s)
  BY <1>4, MembersAppend
<1>6. Members(q) = Members(PList(p)) \cup {s} /\ Inj(q) /\ Len(q) = PLen(p) + 1
  BY <1>4, <1>5, MembersAppend, InjKept DEF PLen, PList
<1>7. PSt(p) = "LISTENING" /\ RefC(p) \in Nat /\ PLen(p) \in Nat
  BY <1>0, <1>1 DEF PortInv, PortGood
<1>8. PICK n \in Nat : n = RefC(p) + 1
  BY <1>7
<1>9. n = RefC(p) + Len(q) - PLen(p)
  BY <1>6, <1>7, <1>8
<1>10. port' = [port EXCEPT ![p].pending = q, ![p].refcnt = n]
  BY <1>1, <1>5, <1>8 DEF PList, RefC
<1>11. \A x \in Chans : x \in Members(q) /\ Pend(x) => x \in Members(PList(p))
  BY <1>2, <1>6
<1>12. /\ PortInv' /\ PortsTyped' /\ PUniq'
       /\ \A path : Absent(path)' <=> Absent(path)
       /\ \A x \in Chans : Pend(x)' <=> x \in Members(q) \/ (Pend(x) /\ x \notin Members(PList(p)))
  BY <1>0, <1>1, <1>3, <1>6, <1>7, <1>9, <1>10, <1>11, PortPending
<1>13. \A x \in Chans : Pend(x)' <=> Pend(x) \/ x = s
  <2>1. \A x \in Members(PList(p)) : Pend(x)
    BY DEF Pend, PList
  <2> QED
    BY <1>6, <1>12, <2>1
<1>14. /\ WUniq'
       /\ \A x : Waits(x)' <=> Waits(x)
       /\ \A path : WList(path)' = WList(path)
  BY <1>0, <1>1, ListsSame
<1>15. /\ chan'[c] = [Attached(FreeChan, s) EXCEPT !.refs = {"handle", "peer"}]
       /\ chan'[s] = ServerFor(c)
       /\ \A x \in Chans : x # c /\ x # s => chan'[x] = chan[x]
  BY <1>0, <1>1 DEF ChansTyped
<1>16. chan'[c] = [state |-> "CONNECTING", peer |-> s, refs |-> {"handle", "peer"}, ready |-> FALSE,
                   path |-> None, hasq |-> TRUE, filled |-> 0, read |-> 0]
  BY <1>15 DEF Attached, FreeChan
<1>17. chan'[c] \in ChanRecords
  BY <1>16 DEF ChanRecords, ChanStates
<1>18. /\ chan'[s] \in ChanRecords
       /\ chan'[s].state = "ACCEPTING" /\ chan'[s].peer = c /\ chan'[s].refs = {"peer", "node"}
  BY <1>15, ServerFields
<1>19. ChansTyped'
  BY <1>0, <1>1, <1>15, <1>17, <1>18 DEF ChansTyped
<1>20. \A x \in Chans : x # c /\ x # s => SameFields(x) /\ Rdy(x)' = Rdy(x) /\ Fil(x)' = Fil(x) /\ Pth(x)' = Pth(x)
  BY <1>15 DEF SameFields, St, Pr, HRef, NRef, PRef, Rdy, Fil, Pth
<1>21. St(c)' = "CONNECTING" /\ Pr(c)' = s /\ HRef(c)' /\ ~NRef(c)' /\ PRef(c)' /\ Fil(c)' = 0
  BY <1>16 DEF St, Pr, HRef, NRef, PRef, Fil
<1>22. St(s)' = "ACCEPTING" /\ Pr(s)' = c /\ ~HRef(s)' /\ NRef(s)' /\ PRef(s)'
  BY <1>18 DEF St, Pr, HRef, NRef, PRef
<1>23. PICK A \in SUBSET Chans : A = {c}
  OBVIOUS
<1> DEFINE new == [x \in A |-> s]
<1>24. /\ \A x : x \in A <=> x = c
       /\ new[c] = s
       /\ \A x : x \in A \cup {new[w] : w \in A} <=> x = c \/ x = s
  BY <1>23
<1> HIDE DEF new
<1>25. Attach(A, new)
  <2>1. Others(A \cup {new[w] : w \in A})
    BY <1>3, <1>13, <1>14, <1>20, <1>24 DEF Others, SamePlaces, Objs
  <2>2. Held(c)' /\ ~Waits(c)' /\ ~Pend(c)' /\ ~Held(s)' /\ ~Waits(s)' /\ Pend(s)'
    BY <1>0, <1>1, <1>2, <1>3, <1>13, <1>14
  <2> QED
    BY <1>1, <1>21, <1>22, <1>24, <2>1, <2>2 DEF Attach
<1>26. ChanInv' /\ Forward
  BY <1>0, <1>25, ChansAttach
<1>27. PortMissing'
  <2>1. \A x \in Chans : Waits(x) => Pth(x)' = Pth(x)
    BY <1>2, <1>20
  <2> QED
    BY <1>0, <1>12, <1>14, <2>1, MissingSame
<1>28. Calls'
  <2>1. /\ \A x \in Chans : Closing(x)' => Closing(x)
        /\ \A x \in Chans : x \notin A => (Conn(x)' => Conn(x))
    BY <1>3, <1>24 DEF Objs
  <2>2. \A x \in A : Conn(x)' => (Fil(x)' > 0 => Rdy(x)')
    <3>1. ~(Fil(c)' > 0)
      BY <1>21
    <3> QED
      BY <1>24, <3>1
  <2>3. \A x \in Chans : x \notin A \cup {new[w] : w \in A} => Rdy(x)' = Rdy(x) /\ Fil(x)' = Fil(x)
    BY <1>20, <1>24
  <2> QED
    BY <1>0, <1>25, <2>1, <2>2, <2>3, AttachCalls
<1>29. WaitTyped' /\ PanicTyped' /\ OwnTypes'
  BY <1>0, <1>1, <1>3 DEF WaitTyped, PanicTyped, Owners
<1>30. TypeOK'
  BY <1>12, <1>19, <1>29, TypeParts
<1> QED
  BY <1>3, <1>12, <1>14, <1>26, <1>27, <1>28, <1>30 DEF IInv, Lists

(* port_attach_client, field by field. *)
LEMMA AttachedFields ==
  ASSUME NEW x \in ChanRecords, NEW s \in Chans
  PROVE  /\ Attached(x, s) \in ChanRecords
         /\ Attached(x, s).state = "CONNECTING" /\ Attached(x, s).peer = s
         /\ Attached(x, s).refs = (x.refs \ {"node"}) \cup {"peer"}
         /\ Attached(x, s).ready = x.ready /\ Attached(x, s).filled = x.filled
<1> DEFINE R == (x.refs \ {"node"}) \cup {"peer"}
<1>1. R \in SUBSET {"handle", "node", "peer"}
  BY DEF ChanRecords
<1>2. Attached(x, s) = [x EXCEPT !.state = "CONNECTING", !.peer = s, !.refs = R, !.hasq = TRUE, !.path = None]
  BY DEF Attached
<1> HIDE DEF R
<1>3. /\ Attached(x, s) \in ChanRecords
      /\ Attached(x, s).state = "CONNECTING" /\ Attached(x, s).peer = s /\ Attached(x, s).refs = R
      /\ Attached(x, s).ready = x.ready /\ Attached(x, s).filled = x.filled
  BY <1>1, <1>2 DEF ChanRecords, ChanStates
<1> QED
  BY <1>3 DEF R

(* The servers of the clients that waited, in the order of the clients. *)
LEMMA ServersInOrder ==
  ASSUME NEW W \in Seq(Chans), Inj(W), NEW new \in [Members(W) -> Chans],
         \A c, d \in Members(W) : new[c] = new[d] => c = d
  PROVE  LET q == [k \in 1 .. Len(W) |-> new[W[k]]] IN
         /\ q \in Seq(Chans) /\ Inj(q) /\ Len(q) = Len(W)
         /\ \A y : y \in Members(q) <=> \E c \in Members(W) : new[c] = y
<1> DEFINE q == [k \in 1 .. Len(W) |-> new[W[k]]]
<1>1. Len(W) \in Nat /\ DOMAIN W = 1 .. Len(W)
  OBVIOUS
<1>2. \A y : y \in Members(W) <=> \E k \in DOMAIN W : W[k] = y
  BY MembersAt
<1>3. DOMAIN q = DOMAIN W /\ \A k \in DOMAIN W : q[k] = new[W[k]] /\ W[k] \in Members(W) /\ q[k] \in Chans
  BY <1>1, <1>2
<1>4. q \in Seq(Chans) /\ Len(q) = Len(W)
  BY <1>1, <1>3
<1> HIDE DEF q
<1>5. \A y : y \in Members(q) <=> \E k \in DOMAIN q : q[k] = y
  BY <1>4, MembersAt
<1>6. Inj(q)
  BY <1>3 DEF Inj
<1>7. \A y : y \in Members(q) <=> \E c \in Members(W) : new[c] = y
  BY <1>2, <1>3, <1>5
<1> QED
  BY <1>4, <1>6, <1>7 DEF q

(* ipc_port_create and ipc_port_publish, with every client that waited. *)
LEMMA StepPortCreate ==
  ASSUME IInv, NEW a \in Apps, NEW p \in Ports, NEW path \in Paths, NEW flags \in FlagSets,
         PortCreate(a, p, path, flags)
  PROVE  IInv' /\ Forward
<1>0. /\ Owners /\ PortInv /\ PortsTyped /\ ChansTyped /\ WaitTyped /\ PanicTyped /\ p \in Objs
      /\ WUniq /\ PUniq /\ ChanInv /\ PortMissing /\ Calls /\ PortGood(p)
  BY TypeParts DEF IInv, Objs, Lists, PortInv
<1>1. PICK W \in Seq(Chans) : W = WList(path) /\ Inj(W)
  BY <1>0 DEF WUniq
<1>2. PICK new \in [Members(W) -> {c \in Chans : chan[c].state = "FREE"}] :
        /\ \A c, d \in Members(W) : new[c] = new[d] => c = d
        /\ chan' = [c \in Chans |->
             IF c \in Members(W) THEN Attached(chan[c], new[c])
             ELSE IF \E w \in Members(W) : new[w] = c
             THEN ServerFor(CHOOSE w \in Members(W) : new[w] = c)
             ELSE chan[c]]
        /\ port' = [port EXCEPT ![p] =
             [state |-> "LISTENING", path |-> path, flags |-> flags, refcnt |-> 3 + Len(W),
              pending |-> [k \in 1 .. Len(W) |-> new[W[k]]]]]
  <2>1. W = WaitingFor(path)
    BY <1>1 DEF WaitingFor, WList
  <2> DEFINE Made(V) ==
        \E new \in [Members(V) -> {c \in Chans : chan[c].state = "FREE"}] :
          /\ \A c, d \in Members(V) : new[c] = new[d] => c = d
          /\ chan' = [c \in Chans |->
               IF c \in Members(V) THEN Attached(chan[c], new[c])
               ELSE IF \E w \in Members(V) : new[w] = c
               THEN ServerFor(CHOOSE w \in Members(V) : new[w] = c)
               ELSE chan[c]]
          /\ port' = [port EXCEPT ![p] =
               [state |-> "LISTENING", path |-> path, flags |-> flags, refcnt |-> 3 + Len(V),
                pending |-> [k \in 1 .. Len(V) |-> new[V[k]]]]]
  <2>2. Made(WaitingFor(path))
    BY Zenon DEF PortCreate
  <2> HIDE DEF Made
  <2>3. Made(W)
    BY <2>1, <2>2
  <2> QED
    BY <2>3, Zenon DEF Made
<1>3. /\ PSt(p) = "FREE" /\ pc[a] = Idle /\ UNCHANGED <<pc, panic>>
      /\ port_list' = port_list \cup {p}
      /\ table' = [table EXCEPT ![a] = @ \cup {p}]
      /\ waiting_list' = [waiting_list EXCEPT ![path] = SubSeq(W, Len(W) + 1, Len(W))]
  BY <1>1 DEF PortCreate, CanPublish, WaitingFor, WList, PSt
<1>4. PICK A \in SUBSET Chans : A = Members(W)
  BY MembersAt
<1>5. /\ \A c \in A : new[c] \in Chans /\ St(new[c]) = "FREE"
      /\ \A c, d \in A : new[c] = new[d] => c = d
      /\ new \in [Members(W) -> Chans]
  BY <1>2, <1>4 DEF St
<1>6. \A c \in A : /\ Waits(c) /\ Held(c) /\ St(c) = "WAITING_FOR_PORT" /\ ~PRef(c) /\ HRef(c) /\ ~Pend(c)
                   /\ Pth(c) = path
  <2>1. \A c \in A : Waits(c) /\ Pth(c) = path
    BY <1>0, <1>1, <1>4 DEF Waits, WList, PortMissing
  <2> QED
    BY <1>0, <2>1 DEF ChanInv, Waiting, Refs, Ends
<1>7. \A c \in A : /\ ~Held(new[c]) /\ ~Waits(new[c]) /\ ~Pend(new[c]) /\ new[c] \notin A
                   /\ new[c] \in Objs
  BY <1>0, <1>5, <1>6, FreeAlone DEF Objs
<1>8. PICK q \in Seq(Chans) : /\ q = [k \in 1 .. Len(W) |-> new[W[k]]]
                              /\ Inj(q) /\ Len(q) = Len(W)
                              /\ \A y : y \in Members(q) <=> \E c \in A : new[c] = y
  <2> DEFINE Q == [k \in 1 .. Len(W) |-> new[W[k]]]
  <2>1. \A c, d \in Members(W) : new[c] = new[d] => c = d
    BY <1>2
  <2>2. /\ Q \in Seq(Chans) /\ Inj(Q) /\ Len(Q) = Len(W)
        /\ \A y : y \in Members(Q) <=> \E c \in Members(W) : new[c] = y
    BY <1>1, <1>5, <2>1, ServersInOrder
  <2>3. Q = [k \in 1 .. Len(W) |-> new[W[k]]]
    OBVIOUS
  <2> HIDE DEF Q
  <2> QED
    BY <1>4, <2>2, <2>3
<1>9. ~Held(p) /\ ~Closing(p) /\ ~Listed(p) /\ PLen(p) = 0 /\ Len(W) \in Nat
  BY <1>0, <1>3, CallsHold DEF PortGood
<1>10. /\ Owners'
       /\ \A h \in Objs : /\ Held(h)' <=> Held(h) \/ h = p
                          /\ InTab(h)' <=> InTab(h) \/ h = p
                          /\ Conn(h)' <=> Conn(h)
                          /\ Closing(h)' <=> Closing(h)
  BY <1>0, <1>3, <1>9, OwnInstall
<1>11. \A c \in Chans : /\ c \in Objs /\ c # p
                        /\ Held(c)' <=> Held(c)
                        /\ Conn(c)' <=> Conn(c)
                        /\ Closing(c)' <=> Closing(c)
  BY <1>10, DisjointAssumption DEF Objs
<1>12. port[p] \in PortRecords /\ port \in [Ports -> PortRecords]
  BY <1>0 DEF PortsTyped
<1>13. /\ port'[p] = [state |-> "LISTENING", path |-> path, flags |-> flags, refcnt |-> 3 + Len(W), pending |-> q]
       /\ \A r \in Ports : r # p => port'[r] = port[r]
  BY <1>2, <1>8, <1>12
<1>14. PSt(p)' = "LISTENING" /\ PPath(p)' = path /\ RefC(p)' = 3 + Len(W) /\ PList(p)' = q /\ PLen(p)' = Len(W)
  BY <1>8, <1>13 DEF PSt, PPath, RefC, PList, PLen
<1>15. \A r \in Ports : r # p => SamePort(r)
  BY <1>13 DEF SamePort, PSt, PPath, PList, RefC
<1>16. Listed(p)' /\ \A r : r # p => (Listed(r)' <=> Listed(r))
  BY <1>3 DEF Listed
<1>17. \A r \in Ports : r # p => SameUsers(r)
  BY <1>10 DEF SameUsers, Objs
<1>18. PortGood(p)'
  <2>1. Held(p)' /\ InTab(p)' /\ ~Closing(p)'
    BY <1>0, <1>9, <1>10
  <2>2. Count(Held(p))' = 1 /\ Count(InTab(p))' = 1 /\ Count(Listed(p))' = 1
    BY <1>16, <2>1 DEF Count
  <2>3. RefC(p)' = Count(Held(p))' + Count(InTab(p))' + Count(Listed(p))' + PLen(p)'
    BY <1>9, <1>14, <2>2
  <2>4. PSt(p)' \in PortStates /\ RefC(p)' \in Nat /\ PLen(p)' \in Nat
    BY <1>9, <1>14 DEF PortStates
  <2>5. /\ PSt(p)' = "FREE" <=> ~Held(p)'
        /\ PSt(p)' = "CLOSING" <=> Closing(p)'
        /\ Listed(p)' <=> PSt(p)' = "LISTENING"
        /\ PSt(p)' # "LISTENING" => PLen(p)' = 0
    BY <1>14, <1>16, <2>1
  <2> QED
    BY <2>3, <2>4, <2>5 DEF PortGood
<1>19. PortInv'
  BY <1>0, <1>15, <1>16, <1>17, <1>18, OtherPorts
<1>20. PortsTyped'
  <2>1. 3 + Len(W) \in Nat /\ flags \in SUBSET {"TA", "NS"} /\ "LISTENING" \in PortStates
    BY <1>9, FlagSetsAssumption DEF PortStates
  <2>2. port'[p] \in PortRecords
    BY <1>8, <1>13, <2>1 DEF PortRecords
  <2>3. port_list' \in SUBSET Ports
    BY <1>0, <1>3 DEF PortsTyped
  <2> QED
    BY <1>2, <1>12, <2>2, <2>3 DEF PortsTyped
<1>21. PUniq' /\ \A c \in Chans : Pend(c)' <=> Pend(c) \/ \E w \in A : new[w] = c
  <2>1. PendingTo(p, q)
    BY <1>14, <1>15 DEF PendingTo, SamePort
  <2>2. Members(PList(p)) = {}
    <3>1. PList(p) \in Seq(Chans) /\ Len(PList(p)) = 0
      BY <1>0, <1>9 DEF PUniq, PLen, PList
    <3> QED
      BY <3>1 DEF Members
  <2>3. \A c \in Chans : c \in Members(q) /\ Pend(c) => c \in Members(PList(p))
    BY <1>7, <1>8
  <2>4. /\ PUniq'
        /\ \A c \in Chans : Pend(c)' <=> c \in Members(q) \/ (Pend(c) /\ c \notin Members(PList(p)))
    BY <1>0, <1>8, <2>1, <2>3, PendChange
  <2> QED
    BY <1>8, <2>2, <2>4
<1>22. waiting_list' = [waiting_list EXCEPT ![path] = << >>]
  <2>1. SubSeq(W, Len(W) + 1, Len(W)) = << >>
    BY <1>9
  <2> QED
    BY <1>3, <2>1
<1>23. WaitingTo(path, << >>)
  BY <1>0, <1>22 DEF WaitingTo, WList, WaitTyped
<1>24. WUniq' /\ \A c \in Chans : Waits(c)' <=> Waits(c) /\ c \notin A
  <2>1. << >> \in Seq(Chans) /\ Inj(<< >>)
    BY DEF Inj
  <2>2. /\ WUniq'
        /\ \A c \in Chans : Waits(c)' <=> c \in Members(<< >>) \/ (Waits(c) /\ c \notin Members(WList(path)))
    BY <1>0, <1>23, <2>1, WaitChange
  <2> QED
    BY <1>1, <1>4, <2>2, MembersNone
<1>25. ASSUME NEW c \in A
       PROVE  /\ chan'[c] \in ChanRecords
              /\ chan'[c].state = "CONNECTING" /\ chan'[c].peer = new[c]
              /\ chan'[c].refs = (chan[c].refs \ {"node"}) \cup {"peer"}
              /\ chan'[c].ready = chan[c].ready /\ chan'[c].filled = chan[c].filled
  <2>1. chan[c] \in ChanRecords /\ new[c] \in Chans
    BY <1>0, <1>5 DEF ChansTyped
  <2>2. chan'[c] = Attached(chan[c], new[c])
    BY <1>2, <1>4
  <2> QED
    BY <2>1, <2>2, AttachedFields
<1>26. ASSUME NEW c \in A
       PROVE  /\ chan'[new[c]] \in ChanRecords
              /\ chan'[new[c]].state = "ACCEPTING" /\ chan'[new[c]].peer = c
              /\ chan'[new[c]].refs = {"peer", "node"}
  <2>1. new[c] \in Chans /\ new[c] \notin A
    BY <1>5, <1>7
  <2>2. (CHOOSE w \in A : new[w] = new[c]) = c
    BY <1>5
  <2>3. chan'[new[c]] = ServerFor(c)
    BY <1>2, <1>4, <2>1, <2>2
  <2> QED
    BY <2>3, ServerFields
<1>27. \A x \in Chans : x \notin A /\ (\A w \in A : new[w] # x) => chan'[x] = chan[x]
  BY <1>2, <1>4
<1>28. ChansTyped'
  <2>1. \A x \in Chans : chan'[x] \in ChanRecords
    BY <1>0, <1>25, <1>26, <1>27 DEF ChansTyped
  <2> QED
    BY <1>2, <2>1 DEF ChansTyped
<1>29. \A x \in Chans : x \notin A /\ (\A w \in A : new[w] # x) =>
         SameFields(x) /\ Rdy(x)' = Rdy(x) /\ Fil(x)' = Fil(x) /\ Pth(x)' = Pth(x)
  BY <1>27 DEF SameFields, St, Pr, HRef, NRef, PRef, Rdy, Fil, Pth
<1>30. \A c \in A : /\ St(c)' = "CONNECTING" /\ Pr(c)' = new[c] /\ HRef(c)' /\ ~NRef(c)' /\ PRef(c)'
                    /\ Rdy(c)' = Rdy(c) /\ Fil(c)' = Fil(c)
  BY <1>6, <1>25 DEF St, Pr, HRef, NRef, PRef, Rdy, Fil
<1>31. \A c \in A : St(new[c])' = "ACCEPTING" /\ Pr(new[c])' = c /\ ~HRef(new[c])' /\ NRef(new[c])' /\ PRef(new[c])'
  <2> SUFFICES ASSUME NEW c \in A
               PROVE  /\ St(new[c])' = "ACCEPTING" /\ Pr(new[c])' = c
                      /\ ~HRef(new[c])' /\ NRef(new[c])' /\ PRef(new[c])'
    OBVIOUS
  <2>1. PICK s \in Chans : s = new[c]
    BY <1>5
  <2>2. St(s)' = "ACCEPTING" /\ Pr(s)' = c /\ ~HRef(s)' /\ NRef(s)' /\ PRef(s)'
    BY <1>26, <2>1 DEF St, Pr, HRef, NRef, PRef
  <2> QED
    BY <2>1, <2>2
<1>32. \A x : x \in A \cup {new[w] : w \in A} <=> x \in A \/ \E w \in A : new[w] = x
  OBVIOUS
<1>33. Attach(A, new)
  <2>1. Others(A \cup {new[w] : w \in A})
    <3> SUFFICES ASSUME NEW x \in Chans, x \notin A, \A w \in A : new[w] # x
                 PROVE  SameFields(x) /\ SamePlaces(x)
      BY <1>32 DEF Others
    <3> QED
      BY <1>11, <1>21, <1>24, <1>29 DEF SamePlaces
  <2>2. \A c \in A : Held(c)' /\ ~Waits(c)' /\ ~Pend(c)'
    BY <1>6, <1>7, <1>11, <1>21, <1>24
  <2>3. \A c \in A : ~Held(new[c])' /\ ~Waits(new[c])' /\ Pend(new[c])'
    <3>1. ASSUME NEW c \in A PROVE ~Held(new[c])' /\ ~Waits(new[c])' /\ Pend(new[c])'
      <4>1. PICK s \in Chans : s = new[c]
        BY <1>5
      <4>2. ~Held(s)' /\ ~Waits(s)' /\ Pend(s)'
        BY <1>7, <1>11, <1>21, <1>24, <4>1
      <4> QED
        BY <4>1, <4>2
    <3> QED
      BY <3>1
  <2>4. \A c \in A : St(c) \in {"FREE", "WAITING_FOR_PORT"}
    BY <1>6
  <2> QED
    BY <1>5, <1>7, <1>30, <1>31, <2>1, <2>2, <2>3, <2>4 DEF Attach
<1>34. ChanInv' /\ Forward
  BY <1>0, <1>33, ChansAttach
<1>35. PortMissing'
  <2> SUFFICES ASSUME NEW r \in Paths, NEW x \in Chans, x \in Members(WList(r))'
               PROVE  Pth(x)' = r /\ Absent(r)'
    BY DEF PortMissing
  <2>1. r # path /\ x \in Members(WList(r))
    <3>1. x \in Members(WList(r)')
      BY DEF Members
    <3> QED
      BY <1>23, <3>1, MembersNone DEF WaitingTo
  <2>2. Pth(x) = r /\ Absent(r) /\ Waits(x)
    BY <1>0, <2>1 DEF PortMissing, Waits, WList
  <2>3. Pth(x)' = r
    BY <1>6, <1>7, <1>29, <2>1, <2>2
  <2>4. Absent(r)'
    <3>1. \A t : Listed(t) => t \in Ports
      BY <1>0 DEF PortsTyped, Listed
    <3> QED
      BY <1>14, <1>15, <1>16, <2>1, <2>2, <3>1, AbsentIff DEF SamePort
  <2> QED
    BY <2>3, <2>4
<1>36. Calls'
  <2>1. /\ \A x \in Chans : Closing(x)' => Closing(x)
        /\ \A x \in Chans : x \notin A => (Conn(x)' => Conn(x))
    BY <1>11
  <2>2. \A x \in A : Conn(x)' => (Fil(x)' > 0 => Rdy(x)')
    BY <1>0, <1>11, <1>30 DEF Calls
  <2>3. \A x \in Chans : x \notin A \cup {new[w] : w \in A} => Rdy(x)' = Rdy(x) /\ Fil(x)' = Fil(x)
    BY <1>29, <1>32
  <2> QED
    BY <1>0, <1>33, <2>1, <2>2, <2>3, AttachCalls
<1>37. WaitTyped' /\ PanicTyped' /\ OwnTypes'
  <2>1. << >> \in Seq(Chans)
    OBVIOUS
  <2>2. WaitTyped'
    BY <1>0, <1>22, <2>1 DEF WaitTyped
  <2> QED
    BY <1>0, <1>3, <1>10, <2>2 DEF PanicTyped, Owners
<1>38. TypeOK'
  BY <1>20, <1>28, <1>37, TypeParts
<1> QED
  BY <1>10, <1>19, <1>21, <1>24, <1>34, <1>35, <1>36, <1>38 DEF IInv, Lists

-----------------------------------------------------------------------------
(* The invariant *)

(* ipc_init: no ports, no channels, no handles. *)
LEMMA InitIInv == Init => IInv
<1> SUFFICES ASSUME Init PROVE IInv
  OBVIOUS
<1>0. /\ \A p \in Ports : port[p] = FreePort
      /\ \A c \in Chans : chan[c] = FreeChan
      /\ \A path \in Paths : waiting_list[path] = << >>
      /\ \A a \in Apps : table[a] = {} /\ pc[a] = Idle
      /\ port_list = {}
  BY DEF Init
<1>1. None \notin Ports \cup Chans \cup Paths
  BY NoneAssumption
<1>2. /\ \A p \in Ports : PSt(p) = "FREE" /\ RefC(p) = 0 /\ PList(p) = << >> /\ PLen(p) = 0 /\ ~Listed(p)
      /\ \A c \in Chans : /\ St(c) = "FREE" /\ Pr(c) = None /\ ~HRef(c) /\ ~NRef(c) /\ ~PRef(c)
      /\ \A path \in Paths : WList(path) = << >>
  BY <1>0 DEF FreePort, FreeChan, PSt, RefC, PList, PLen, Listed, St, Pr, HRef, NRef, PRef, WList
<1>3. \A a \in Apps : pc[a].at = "idle" /\ pc[a].obj = None /\ table[a] = {}
  BY <1>0 DEF Idle
<1>4. \A h \in Objs : ~Held(h) /\ ~InTab(h) /\ ~Conn(h) /\ ~Closing(h)
  BY <1>1, <1>3 DEF Held, HeldBy, InTab, Conn, ConnAt, Closing, DestroyAt, Objs
<1>5. \A c : ~Waits(c) /\ ~Pend(c)
  BY <1>2, MembersNone DEF Waits, Pend, WList, PList
<1>6. FreePort \in PortRecords /\ FreeChan \in ChanRecords /\ Idle \in [at : Places, obj : Ports \cup Chans \cup {None}]
  <2>1. << >> \in Seq(Chans)
    OBVIOUS
  <2> QED
    BY <2>1 DEF FreePort, FreeChan, Idle, PortRecords, ChanRecords, PortStates, ChanStates, Places
<1>7. TypeOK
  <2>1. << >> \in Seq(Chans)
    OBVIOUS
  <2> QED
    BY <1>6, <2>1 DEF Init, TypeOK
<1>8. Owners
  <2>1. OwnTypes
    BY <1>7, TypeParts
  <2>2. \A a \in Apps : Local(a)
    BY <1>1, <1>3 DEF Local
  <2>3. Uniq
    BY <1>4 DEF Uniq, Held
  <2> QED
    BY <2>1, <2>2, <2>3 DEF Owners
<1>9. PortInv
  <2> SUFFICES ASSUME NEW p \in Ports PROVE PortGood(p)
    BY DEF PortInv
  <2>1. ~Held(p) /\ ~InTab(p) /\ ~Closing(p)
    BY <1>4 DEF Objs
  <2>2. Count(Held(p)) = 0 /\ Count(InTab(p)) = 0 /\ Count(Listed(p)) = 0
    BY <1>2, <2>1 DEF Count
  <2>3. RefC(p) = Count(Held(p)) + Count(InTab(p)) + Count(Listed(p)) + PLen(p)
    BY <1>2, <2>2
  <2>4. PSt(p) \in PortStates /\ RefC(p) \in Nat /\ PLen(p) \in Nat
    BY <1>2 DEF PortStates
  <2>5. /\ PSt(p) = "FREE" <=> ~Held(p)
        /\ PSt(p) = "CLOSING" <=> Closing(p)
        /\ Listed(p) <=> PSt(p) = "LISTENING"
        /\ PSt(p) # "LISTENING" => PLen(p) = 0
    BY <1>2, <2>1
  <2> QED
    BY <2>3, <2>4, <2>5 DEF PortGood
<1>10. Lists
  <2>1. << >> \in Seq(Chans) /\ Inj(<< >>)
    BY DEF Inj
  <2> QED
    BY <1>2, <2>1, MembersNone DEF Lists, WUniq, PUniq
<1>11. ChanInv
  <2>1. \A c \in Chans : ~Held(c)
    BY <1>4 DEF Objs
  <2>2. FieldTypes
    BY <1>2 DEF FieldTypes, ChanStates
  <2>3. Refs
    BY <1>1, <1>2, <1>5, <2>1 DEF Refs
  <2>4. Peers
    BY <1>1, <1>2, <1>5 DEF Peers
  <2>5. Ends
    BY <1>1, <1>2, <1>5 DEF Ends
  <2>6. Waiting
    BY <1>2, <1>5 DEF Waiting
  <2> QED
    BY <2>2, <2>3, <2>4, <2>5, <2>6 DEF ChanInv
<1>12. PortMissing
  BY <1>2, MembersNone DEF PortMissing
<1>13. Calls
  BY <1>4 DEF Calls, Objs
<1> QED
  BY <1>7, <1>8, <1>9, <1>10, <1>11, <1>12, <1>13 DEF IInv

(* Every step keeps the invariant, and no channel goes back. *)
LEMMA NextIInv ==
  ASSUME IInv, [Next]_vars
  PROVE  IInv' /\ Forward
<1>0. PanicTyped
  BY TypeParts DEF IInv
<1>1. CASE UNCHANGED vars
  <2>1. PanicTyped' /\ UNCHANGED <<port, chan, port_list, waiting_list, table, pc>>
    BY <1>0, <1>1 DEF vars, PanicTyped
  <2> QED
    BY <2>1, StepPanic
<1>2. ASSUME NEW a \in Apps, NewCall(a) PROVE IInv' /\ Forward
  <2>1. ASSUME NEW p \in Ports, NEW path \in Paths, NEW flags \in FlagSets,
               PortCreate(a, p, path, flags)
        PROVE  IInv' /\ Forward
    BY <2>1, StepPortCreate
  <2>2. ASSUME NEW p \in Ports, NEW path \in Paths, NEW flags \in FlagSets,
               PortCreateDenied(a, p, path, flags)
        PROVE  IInv' /\ Forward
    <3>1. PanicTyped' /\ UNCHANGED <<port, chan, port_list, waiting_list, table, pc>>
      BY <2>2 DEF PortCreateDenied, PanicTyped
    <3> QED
      BY <3>1, StepPanic
  <2>3. ASSUME NEW p \in Ports, NEW c \in Chans, NEW s \in Chans, NEW async \in BOOLEAN,
               Connect(a, p, c, s, async)
        PROVE  IInv' /\ Forward
    BY <2>3, StepConnect
  <2>4. ASSUME NEW path \in Paths, NEW c \in Chans, NEW async \in BOOLEAN,
               ConnectWait(a, path, c, async)
        PROVE  IInv' /\ Forward
    BY <2>4, StepConnectWait
  <2>5. ASSUME NEW p \in Ports, Accept(a, p) PROVE IInv' /\ Forward
    BY <2>5, StepAccept
  <2>6. ASSUME NEW p \in Ports, AcceptDropped(a, p) PROVE IInv' /\ Forward
    BY <2>6, StepAcceptDropped
  <2>7. ASSUME NEW h \in Ports \cup Chans, SysClose(a, h) PROVE IInv' /\ Forward
    BY <2>7, StepSysClose
  <2>8. ASSUME NEW c \in Chans, SendMsg(a, c) \/ GetMsg(a, c) \/ PutMsg(a, c) \/ WaitReady(a, c)
        PROVE  IInv' /\ Forward
    BY <2>8, StepMessages
  <2>9. ASSUME NEW c \in Chans, EarlyCall(a, c) PROVE IInv' /\ Forward
    <3>1. PanicTyped' /\ UNCHANGED <<port, chan, port_list, waiting_list, table, pc>>
      BY <2>9 DEF EarlyCall, PanicTyped
    <3> QED
      BY <3>1, StepPanic
  <2> QED
    BY <1>2, <2>1, <2>2, <2>3, <2>4, <2>5, <2>6, <2>7, <2>8, <2>9 DEF NewCall
<1>3. ASSUME NEW a \in Apps, CallStep(a) PROVE IInv' /\ Forward
  <2>1. ASSUME NEW c \in Chans, ConnectWake(a, c) PROVE IInv' /\ Forward
    BY <2>1, StepSettle
  <2>2. ASSUME NEW c \in Chans, ChanShutdown(a, c) PROVE IInv' /\ Forward
    BY <2>2, StepChanShutdown, StepChanUnwait
  <2>3. ASSUME NEW c \in Chans, ChanDestroy(a, c) PROVE IInv' /\ Forward
    BY <2>3, StepChanDestroy
  <2>4. ASSUME NEW c \in Chans, NEW copied \in BOOLEAN, AcceptInstall(a, c, copied)
        PROVE  IInv' /\ Forward
    BY <2>4, StepSettle
  <2>5. ASSUME NEW p \in Ports, PortShutdown(a, p) PROVE IInv' /\ Forward
    BY <2>5, StepPortShutdown
  <2>6. ASSUME NEW p \in Ports, PortDestroy(a, p) PROVE IInv' /\ Forward
    BY <2>6, StepPortDestroy
  <2> QED
    BY <1>3, <2>1, <2>2, <2>3, <2>4, <2>5, <2>6 DEF CallStep
<1> QED
  BY <1>1, <1>2, <1>3 DEF Next

(* The invariant holds in every behaviour, whatever the apps call and in   *)
(* whatever order their critical sections run.                             *)
THEOREM IInvHolds == Spec => []IInv
<1>1. IInv /\ [Next]_vars => IInv'
  BY NextIInv
<1> QED
  BY <1>1, InitIInv, PTL DEF Spec

-----------------------------------------------------------------------------
(* What follows *)

(* The references of every channel and of every port are its users: every  *)
(* reference that ipc.c takes is dropped once, on every path.              *)
THEOREM ReferencesAreUsers == Spec => []RefsMatch
<1>1. IInv => RefsMatch
  <2> SUFFICES ASSUME IInv PROVE RefsMatch
    OBVIOUS
  <2>1. TypeOK /\ PortInv /\ Refs /\ ChansTyped
    BY TypeParts DEF IInv, ChanInv
  <2>2. ChanRefs
    <3> SUFFICES ASSUME NEW c \in Chans
                 PROVE  /\ "handle" \in chan[c].refs <=> Held(c)
                        /\ "node" \in chan[c].refs <=> Linked(c)
                        /\ "peer" \in chan[c].refs <=> \E d \in Chans : chan[d].peer = c
                        /\ Alive(c) <=> chan[c].refs # {}
      BY DEF ChanRefs
    <3>1. /\ "handle" \in chan[c].refs <=> Held(c)
          /\ "node" \in chan[c].refs <=> Waits(c) \/ Pend(c)
          /\ "peer" \in chan[c].refs <=> \E d \in Chans : chan[d].peer = c
          /\ chan[c].state = "FREE" <=> /\ "handle" \notin chan[c].refs
                                        /\ "node" \notin chan[c].refs
                                        /\ "peer" \notin chan[c].refs
      BY <2>1 DEF Refs, HRef, NRef, PRef, Pr, St
    <3>2. chan[c] \in ChanRecords
      BY <2>1 DEF ChansTyped
    <3>3. chan[c].refs = {} <=> /\ "handle" \notin chan[c].refs
                                /\ "node" \notin chan[c].refs
                                /\ "peer" \notin chan[c].refs
      BY <3>2, NoRefs
    <3> QED
      BY <3>1, <3>3, LinkedSplit DEF Alive
  <2>3. PortRefs
    <3> SUFFICES ASSUME NEW p \in Ports
                 PROVE  /\ port[p].refcnt = Count(Held(p)) + Count(\E a \in Apps : p \in table[a])
                                            + Count(p \in port_list) + Len(port[p].pending)
                        /\ port[p].state = "FREE" <=> port[p].refcnt = 0
      BY DEF PortRefs
    <3>1. PortGood(p)
      BY <2>1 DEF PortInv
    <3>2. /\ Count(Held(p)) = IF Held(p) THEN 1 ELSE 0
          /\ Count(InTab(p)) \in Nat /\ Count(Listed(p)) \in Nat
      BY DEF Count
    <3>3. RefC(p) = Count(Held(p)) + Count(InTab(p)) + Count(Listed(p)) + PLen(p) /\ PLen(p) \in Nat
      BY <3>1 DEF PortGood
    <3>4. Held(p) => RefC(p) # 0
      BY <3>2, <3>3
    <3>5. ~Held(p) => RefC(p) = 0
      <4> SUFFICES ASSUME ~Held(p) PROVE RefC(p) = 0
        OBVIOUS
      <4>1. ~InTab(p) /\ ~Listed(p) /\ PLen(p) = 0
        BY <3>1 DEF PortGood, Held, HeldBy, InTab
      <4> QED
        BY <3>3, <4>1 DEF Count
    <3>6. RefC(p) = Count(Held(p)) + Count(\E a \in Apps : p \in table[a]) + Count(p \in port_list) + PLen(p)
      BY <3>3 DEF InTab, Listed
    <3>7. PSt(p) = "FREE" <=> RefC(p) = 0
      BY <3>1, <3>4, <3>5 DEF PortGood
    <3> QED
      BY <3>6, <3>7 DEF RefC, PLen, PSt
  <2> QED
    BY <2>1, <2>2, <2>3 DEF RefsMatch
<1> QED
  BY <1>1, IInvHolds, PTL

(* What __chan_destroy_refobj and port_handle_destroy assert of the object *)
(* they free holds whenever they run.                                      *)
THEOREM DestroyedObjectsAreFree == Spec => []DestroyAsserts
<1>1. IInv => DestroyAsserts
  <2> SUFFICES ASSUME IInv PROVE DestroyAsserts
    OBVIOUS
  <2>1. \A c \in Chans : ~Alive(c) => chan[c].peer = None /\ ~Linked(c)
    <3> SUFFICES ASSUME NEW c \in Chans, ~Alive(c) PROVE chan[c].peer = None /\ ~Linked(c)
      OBVIOUS
    <3>1. St(c) = "FREE" /\ ChanInv
      BY DEF Alive, St, IInv
    <3>2. ~Waits(c) /\ ~Pend(c) /\ Pr(c) = None
      BY <3>1, FreeAlone DEF ChanInv, Ends
    <3> QED
      BY <3>2, LinkedSplit DEF Pr
  <2>2. \A p \in Ports : port[p].state = "FREE" => port[p].pending = << >> /\ p \notin port_list
    <3> SUFFICES ASSUME NEW p \in Ports, port[p].state = "FREE"
                 PROVE  port[p].pending = << >> /\ p \notin port_list
      OBVIOUS
    <3>1. PortGood(p) /\ PSt(p) = "FREE" /\ PList(p) \in Seq(Chans)
      BY DEF IInv, PortInv, PSt, Lists, PUniq
    <3>2. ~Listed(p) /\ PLen(p) = 0
      BY <3>1 DEF PortGood
    <3> QED
      BY <3>1, <3>2 DEF Listed, PLen, PList
  <2> QED
    BY <2>1, <2>2 DEF DestroyAsserts
<1> QED
  BY <1>1, IInvHolds, PTL

(* The two ends of a connection agree on its state, and a client that is   *)
(* CONNECTING has its server in the pending list of a published port.      *)
THEOREM BothEndsAgree == Spec => []EndsAgree
<1>1. IInv => EndsAgree
  <2> SUFFICES ASSUME IInv, NEW c \in Chans
               PROVE  /\ chan[c].state = "CONNECTED" =>
                           /\ chan[c].peer # None
                           /\ chan[chan[c].peer].state = "CONNECTED"
                           /\ chan[chan[c].peer].peer = c
                      /\ chan[c].state = "CONNECTING" =>
                           /\ chan[c].peer # None
                           /\ chan[chan[c].peer].state = "ACCEPTING"
                           /\ chan[chan[c].peer].peer = c
                           /\ \E p \in port_list : chan[c].peer \in Members(port[p].pending)
                      /\ chan[c].peer # None /\ chan[chan[c].peer].peer # c =>
                           chan[c].state = "DISCONNECTING"
    BY DEF EndsAgree
  <2>0. None \notin Chans /\ Ends /\ FieldTypes /\ PortInv /\ PUniq
    BY NoneAssumption DEF IInv, ChanInv, Lists
  <2>1. St(c) = "CONNECTED" => Pr(c) # None /\ St(Pr(c)) = "CONNECTED" /\ Pr(Pr(c)) = c
    BY <2>0 DEF Ends
  <2>2. St(c) = "CONNECTING" =>
          /\ Pr(c) # None /\ St(Pr(c)) = "ACCEPTING" /\ Pr(Pr(c)) = c
          /\ \E p \in port_list : Pr(c) \in Members(PList(p))
    <3> SUFFICES ASSUME St(c) = "CONNECTING"
                 PROVE  /\ Pr(c) # None /\ St(Pr(c)) = "ACCEPTING" /\ Pr(Pr(c)) = c
                        /\ \E p \in port_list : Pr(c) \in Members(PList(p))
      OBVIOUS
    <3>1. PICK d \in Chans : Pr(c) = d /\ Pr(d) = c /\ St(d) = "ACCEPTING"
      BY <2>0 DEF Ends
    <3>2. Pend(d)
      BY <2>0, <3>1 DEF Ends
    <3>3. PICK p \in Ports : d \in Members(PList(p))
      BY <3>2 DEF Pend, PList
    <3>4. PLen(p) # 0
      <4>1. PList(p) \in Seq(Chans)
        BY <2>0 DEF PUniq
      <4>2. \E i \in DOMAIN PList(p) : PList(p)[i] = d
        BY <3>3, <4>1, MembersAt
      <4> QED
        BY <4>1, <4>2 DEF PLen, PList
    <3>5. Listed(p)
      BY <2>0, <3>4 DEF PortInv, PortGood
    <3> QED
      BY <2>0, <3>1, <3>3, <3>5 DEF Listed
  <2>3. Pr(c) # None /\ Pr(Pr(c)) # c => St(c) = "DISCONNECTING"
    BY <2>0 DEF Ends, FieldTypes
  <2> QED
    BY <2>1, <2>2, <2>3 DEF St, Pr, PList
<1> QED
  BY <1>1, IInvHolds, PTL

(* Whatever is allocated has a handle or is in a list, or is the other end *)
(* of one that has: two closed ends never keep each other alive.           *)
THEOREM NoChannelLeaks == Spec => []NoLeak
<1>1. IInv => NoLeak
  <2> SUFFICES ASSUME IInv, NEW c \in Chans, Alive(c)
               PROVE  Rooted(c) \/ \E d \in Chans : chan[d].peer = c /\ Rooted(d)
    BY DEF NoLeak
  <2>1. Refs /\ Peers /\ None \notin Chans
    BY NoneAssumption DEF IInv, ChanInv
  <2>2. \A d \in Chans : Rooted(d) <=> HRef(d) \/ NRef(d)
    BY DEF Rooted, HRef, NRef
  <2>3. HRef(c) \/ NRef(c) \/ PRef(c)
    BY <2>1 DEF Refs, Alive, St
  <2>4. PRef(c) => \E d \in Chans : Pr(d) = c /\ (HRef(d) \/ NRef(d))
    BY <2>1 DEF Refs, Peers
  <2> QED
    BY <2>2, <2>3, <2>4 DEF Pr
<1> QED
  BY <1>1, IInvHolds, PTL

(* A client waits for a port only while no port of that name is published. *)
THEOREM PublishMissesNobody == Spec => []NoMissedPort
<1>1. IInv => NoMissedPort
  <2> SUFFICES ASSUME IInv, NEW path \in Paths, NEW c \in Members(waiting_list[path])
               PROVE  /\ chan[c].state = "WAITING_FOR_PORT" /\ chan[c].path = path
                      /\ port_find_locked(path) = {}
    BY DEF NoMissedPort
  <2>1. c \in Members(WList(path)) /\ c \in Chans
    <3>1. WList(path) \in Seq(Chans)
      BY DEF IInv, Lists, WUniq
    <3> QED
      BY <3>1, MembersAt DEF WList
  <2>2. Waits(c)
    BY <2>1 DEF Waits, WList
  <2>3. St(c) = "WAITING_FOR_PORT" /\ Pth(c) = path /\ Absent(path)
    BY <2>1, <2>2 DEF IInv, ChanInv, Waiting, PortMissing
  <2> QED
    BY <2>3 DEF St, Pth, Absent
<1> QED
  BY <1>1, IInvHolds, PTL

(* The wait of a synchronous connect never ends in the branch of sys_connect *)
(* that reports an unexpected channel state.                                 *)
THEOREM SynchronousConnectResolves == Spec => []SyncConnectResolves
<1>1. IInv => SyncConnectResolves
  <2> SUFFICES ASSUME IInv, NEW a \in Apps, NEW c \in Chans, At(a, "connect", c), chan_poll(c) # {}
               PROVE  \/ "HUP" \in chan_poll(c) /\ "MSG" \notin chan_poll(c)
                      \/ "READY" \in chan_poll(c)
    BY DEF SyncConnectResolves
  <2>1. Conn(c)
    BY DEF At, Conn, ConnAt
  <2>2. Fil(c) > 0 => Rdy(c)
    BY <2>1 DEF IInv, Calls
  <2>3. CASE chan[c].ready
    BY <2>3 DEF chan_poll
  <2>4. CASE ~chan[c].ready
    <3>1. ~(chan[c].filled > 0)
      BY <2>2, <2>4 DEF Fil, Rdy
    <3> QED
      BY <2>4, <3>1 DEF chan_poll
  <2> QED
    BY <2>3, <2>4
<1> QED
  BY <1>1, IInvHolds, PTL

(* No step of the kernel revives a connection that hung up, or takes one   *)
(* that is connected anywhere but to a hangup.                             *)
THEOREM HangupIsFinal == Spec => ForwardOnly
<1>1. IInv /\ [Next]_vars =>
        [\A c \in Chans :
           /\ chan[c].state = "DISCONNECTING" =>
                chan'[c].state \in {"DISCONNECTING", "FREE"}
           /\ chan[c].state = "CONNECTED" =>
                chan'[c].state \in {"CONNECTED", "DISCONNECTING"}]_vars
  BY NextIInv DEF Forward, St
<1> QED
  BY <1>1, IInvHolds, PTL DEF Spec, ForwardOnly
=============================================================================
