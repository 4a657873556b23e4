-------------------------- MODULE SecureUartProofs --------------------------
(***************************************************************************)
(* Proofs about SecureUart for every timeout, number of camera bytes,      *)
(* number of CPUs that bring the port up and content of the heap.          *)
(*                                                                         *)
(* FlushedStaysOut is not inductive: why the bytes of the flush cannot     *)
(* come back is that none is left between the camera and the app when it   *)
(* ends (Conserved), so that what it disposed of was taken (Marked).       *)
(* ReplyNotCut rests on what the static timed_out of the getc before says  *)
(* (Fresh).                                                                *)
(***************************************************************************)
EXTENDS SecureUart, TLAPS

Chars == {"R", "F", "S", "5", "\r", "\n", "b"}

(* Bytes are with the UART or with the app. *)
Conserved == emitted = taken + Len(rx)

(* The mark and the current receive are about bytes that were taken. *)
Marked == /\ mark <= taken /\ size <= taken
          /\ pc \in {"receive", "reply"} => taken - size >= mark

(* A receive that has a byte had no timeout since. *)
Fresh == pc \in Receiving /\ size > 0 => ~rx_timed_out

(* What is collected starts with a byte of the camera. *)
Collected == text # << >> => text[1] = "b"

IInv == TypeOK /\ Conserved /\ Marked /\ Fresh /\ Collected

-----------------------------------------------------------------------------
(* What the calls transmit *)

(* FlattenSeq of one sequence. *)
LEMMA FlattenOne ==
  ASSUME NEW S, NEW q \in Seq(Seq(S)), Len(q) = 1
  PROVE  FlattenSeq(q) = q[1]
<1> DEFINE F(f) == [i \in 1 .. Len(q) |-> IF i = 1 THEN q[i] ELSE f[i - 1] \o q[i]]
           fl == CHOOSE f : f = F(f)
           g == [i \in 1 .. 1 |-> q[1]]
<1>0. Len(q) # 0
  OBVIOUS
<1>1. g = F(g)
  OBVIOUS
<1>2. fl = F(fl)
  <2> HIDE DEF g, F
  <2> QED
    BY <1>1
<1>3. fl[1] = q[1]
  <2> DEFINE ff == fl
  <2>1. ff = F(ff)
    BY <1>2
  <2> HIDE DEF ff
  <2>2. ff[1] = q[1]
    BY <2>1
  <2> QED
    BY <2>2 DEF ff
<1>4. FlattenSeq(q) = fl[Len(q)]
  BY <1>0, Zenon DEF FlattenSeq
<1> QED
  BY <1>3, <1>4

(* A call with length 1 transmits the first character, if there is one ... *)
LEMMA SendOne ==
  ASSUME NEW port, NEW S, NEW m \in Seq(S), m # << >> => dputc(m[1]) \in Seq(Chars)
  PROVE  send_to_uart(port, m, 1) \in Seq(Chars)
<1> DEFINE q == [i \in 1 .. 1 |-> IF i <= Len(m) THEN dputc(m[i]) ELSE dputc("NUL")]
<1>1. dputc("NUL") \in Seq(Chars)
  BY DEF dputc
<1>2. q[1] \in Seq(Chars)
  <2>1. CASE m = << >>
    BY <1>1, <2>1
  <2>2. CASE m # << >>
    <3>1. 1 <= Len(m)
      BY <2>2
    <3> QED
      BY <2>2, <3>1
  <2> QED
    BY <2>1, <2>2
<1>3. q \in Seq(Seq(Chars)) /\ Len(q) = 1
  <2> DEFINE x == q[1]
  <2>1. q = <<x>>
    OBVIOUS
  <2>2. x \in Seq(Chars)
    BY <1>2
  <2> HIDE DEF x, q
  <2> QED
    BY <2>1, <2>2
<1>4. send_to_uart(port, m, 1) = FlattenSeq(q)
  BY DEF send_to_uart
<1> HIDE DEF q
<1> QED
  BY <1>2, <1>3, <1>4, FlattenOne

(* ... and with length 0 nothing. *)
LEMMA SendNone ==
  ASSUME NEW port, NEW m
  PROVE  send_to_uart(port, m, 0) = << >>
<1> DEFINE q == [i \in 1 .. 0 |-> IF i <= Len(m) THEN dputc(m[i]) ELSE dputc("NUL")]
<1>1. q = << >>
  OBVIOUS
<1>2. send_to_uart(port, m, 0) = FlattenSeq(q)
  BY DEF send_to_uart
<1>3. FlattenSeq(<< >>) = << >>
  BY DEF FlattenSeq
<1> HIDE DEF q
<1> QED
  BY <1>1, <1>2, <1>3

(* What secure_platform_dputc writes for a character. *)
LEMMA Characters ==
  ASSUME NEW c \in Chars
  PROVE  dputc(c) \in Seq(Chars)
<1>1. CASE c = "\n"
  <2>1. dputc(c) = <<"\r", "\n">>
    BY <1>1 DEF dputc
  <2>2. "\r" \in Chars /\ "\n" \in Chars
    BY DEF Chars
  <2> QED
    BY <2>1, <2>2
<1>2. CASE c # "\n"
  <2>1. c # "NUL"
    BY DEF Chars
  <2>2. dputc(c) = <<c>>
    BY <1>2, <2>1 DEF dputc
  <2> QED
    BY <2>2
<1> QED
  BY <1>1, <1>2

(* What a phase transmits. *)
LEMMA PhaseOutput ==
  ASSUME TypeOK, Collected, NEW found \in BOOLEAN
  PROVE  /\ Report(found) \in Seq(Chars)
         /\ Command \in Seq(Chars)
         /\ Reply(found) \in Seq(Chars)
<1>1. ASSUME NEW port, NEW c \in Chars
      PROVE  send_to_uart(port, <<c>>, 1) \in Seq(Chars)
  <2>1. <<c>> \in Seq(Chars) /\ <<c>>[1] = c
    OBVIOUS
  <2>2. dputc(<<c>>[1]) \in Seq(Chars)
    BY <2>1, Characters
  <2> QED
    BY <2>1, <2>2, SendOne
<1>2. ASSUME NEW port
      PROVE  send_to_uart(port, CommandText, 1) \in Seq(Chars)
  <2>1. /\ CommandText \in Seq({"0", "1", "5", "6"})
        /\ CommandText[1] = "5" /\ "5" \in Chars
    BY DEF CommandText, Chars
  <2>2. dputc(CommandText[1]) \in Seq(Chars)
    BY <2>1, Characters
  <2> QED
    BY <2>1, <2>2, SendOne
<1>3. ASSUME NEW port
      PROVE  send_to_uart(port, text, 1) \in Seq(Chars)
  <2>1. text \in Seq({"b", "z"}) /\ (text # << >> => text[1] = "b") /\ "b" \in Chars
    BY DEF TypeOK, Collected, Chars
  <2>2. text # << >> => dputc(text[1]) \in Seq(Chars)
    BY <2>1, Characters
  <2> QED
    BY <2>1, <2>2, SendOne
<1>4. "R" \in Chars /\ "F" \in Chars /\ "S" \in Chars /\ "\r" \in Chars /\ "\n" \in Chars
  BY DEF Chars
<1>5. Report(found) \in Seq(Chars)
  BY <1>1, <1>4 DEF Report
<1>6. Command \in Seq(Chars)
  <2>1. /\ send_to_uart(DEBUG_PORT, <<"S">>, 1) \in Seq(Chars)
        /\ send_to_uart(DEBUG_PORT, CommandText, 1) \in Seq(Chars)
        /\ send_to_uart(DEBUG_PORT, <<"\r">>, 1) \in Seq(Chars)
        /\ send_to_uart(CAMERA_PORT, CommandText, 0) \in Seq(Chars)
    <3>1. << >> \in Seq(Chars)
      OBVIOUS
    <3> QED
      BY <1>1, <1>2, <1>4, <3>1, SendNone
  <2> QED
    BY <2>1 DEF Command
<1>7. Reply(found) \in Seq(Chars)
  <2>1. /\ send_to_uart(DEBUG_PORT, <<"R">>, 1) \in Seq(Chars)
        /\ send_to_uart(DEBUG_PORT, <<"F">>, 1) \in Seq(Chars)
        /\ send_to_uart(DEBUG_PORT, <<"\n">>, 1) \in Seq(Chars)
        /\ send_to_uart(DEBUG_PORT, <<"\r">>, 1) \in Seq(Chars)
        /\ send_to_uart(DEBUG_PORT, text, 1) \in Seq(Chars)
    BY <1>1, <1>3, <1>4
  <2> QED
    BY <2>1 DEF Reply
<1> QED
  BY <1>5, <1>6, <1>7

-----------------------------------------------------------------------------
(* Every step preserves the invariant *)

(* The invariant holds initially ... *)
LEMMA InitInv == Init => IInv
<1> SUFFICES ASSUME Init PROVE IInv
  OBVIOUS
<1>1. /\ thre \in BOOLEAN /\ enabled \in BOOLEAN
      /\ rx_timed_out \in BOOLEAN /\ tx_timed_out \in BOOLEAN
  BY Zenon DEF Init
<1>2. TypeOK
  BY <1>1, TimeoutAssumption, MaxBytesAssumption, MaxInitsAssumption
  DEF Init, TypeOK, Phases, CameraBytes
<1> QED
  BY <1>2 DEF Init, IInv, Conserved, Marked, Fresh, Collected

(* strcat keeps the first character. *)
LEMMA StrcatText ==
  ASSUME TypeOK, Collected, NEW b \in CameraBytes
  PROVE  /\ Strcat(b) \in Seq({"b", "z"})
         /\ Strcat(b) # << >> => Strcat(b)[1] = "b"
<1>1. text \in Seq({"b", "z"}) /\ tail \in Seq({"b", "z"})
  <2>1. tail \in Seq({"z"})
    <3>1. << >> \in Seq({"z"})
      OBVIOUS
    <3> QED
      BY <3>1, HeapTailsAssumption DEF TypeOK
  <2>2. Len(tail) \in Nat /\ tail \in [1 .. Len(tail) -> {"z"}]
    BY <2>1
  <2>3. tail \in [1 .. Len(tail) -> {"b", "z"}]
    BY <2>2
  <2>4. tail \in Seq({"b", "z"})
    BY <2>2, <2>3
  <2> QED
    BY <2>4 DEF TypeOK
<1>2. CASE b = "NUL"
  BY <1>1, <1>2 DEF Strcat, Collected
<1>3. CASE b = "b"
  <2>1. <<b>> \in Seq({"b", "z"}) /\ Len(<<b>>) = 1 /\ <<b>>[1] = "b"
    BY <1>3
  <2>2. Strcat(b) = (text \o <<b>>) \o tail
    BY <1>3 DEF Strcat
  <2> DEFINE s == text \o <<b>>
  <2>3. s \in Seq({"b", "z"}) /\ Len(s) = Len(text) + 1
    BY <1>1, <2>1
  <2>4. s[1] = "b"
    BY <1>1, <2>1 DEF Collected
  <2> HIDE DEF s
  <2>5. Strcat(b) = s \o tail
    BY <2>2 DEF s
  <2>6. 1 \in 1 .. Len(s)
    BY <1>1, <2>3
  <2> QED
    BY <1>1, <2>3, <2>4, <2>5, <2>6
<1> QED
  BY <1>2, <1>3 DEF CameraBytes

(* ... and after every step ... *)
LEMMA StepInv == IInv /\ [Next]_vars => IInv'
<1> SUFFICES ASSUME IInv, [Next]_vars PROVE IInv'
  OBVIOUS
<1> USE TimeoutAssumption, MaxBytesAssumption, MaxInitsAssumption
<1>0. /\ emitted \in Nat /\ taken \in Nat /\ size \in Nat /\ mark \in Nat /\ elapsed \in Nat
      /\ inits \in Nat /\ greeting \in Nat
      /\ emitted <= MaxBytes /\ Len(rx) \in Nat /\ rx \in Seq(CameraBytes)
      /\ emitted = taken + Len(rx) /\ mark <= taken /\ size <= taken
      /\ out \in Seq(Chars) /\ text \in Seq({"b", "z"})
  BY DEF IInv, TypeOK, Conserved, Marked, Chars
<1>1. ASSUME NEW b \in CameraBytes, CameraSends(b) PROVE IInv'
  <2>1. rx' \in Seq(CameraBytes) /\ Len(rx') = Len(rx) + 1
    BY <1>0, <1>1 DEF CameraSends
  <2> QED
    BY <1>0, <1>1, <2>1
    DEF CameraSends, app, boot, IInv, TypeOK, Conserved, Marked, Fresh, Collected
<1>2. CASE Transmitter
  BY <1>2 DEF Transmitter, app, boot, IInv, TypeOK, Conserved, Marked, Fresh, Collected
<1>3. CASE Tick
  BY <1>3 DEF Tick, boot, IInv, TypeOK, Conserved, Marked, Fresh, Collected
<1>4. CASE InitSecurePort
  BY <1>0, <1>4
  DEF InitSecurePort, app, boot, IInv, TypeOK, Conserved, Marked, Fresh, Collected
<1>5. CASE InitPutc
  BY <1>0, <1>5 DEF InitPutc, IInv, TypeOK, Conserved, Marked, Fresh, Collected
<1>6. CASE Request
  BY <1>0, <1>6
  DEF Request, boot, IInv, TypeOK, Conserved, Marked, Fresh, Collected, Phases, Receiving
<1>7. CASE Putc \/ PutcGivesUp
  <2>1. Tail(out) \in Seq(Chars) /\ Head(out) \in Chars
    BY <1>0, <1>7 DEF Putc, PutcGivesUp
  <2> QED
    <3>1. /\ out' = Tail(out) /\ elapsed' = 0 /\ tx_timed_out' \in BOOLEAN
          /\ thr' \in Chars \cup {thr}
          /\ UNCHANGED <<pc, rx, thre, boot, rx_timed_out, size, text, tail, emitted,
                         taken, mark>>
      BY <1>7, <2>1 DEF Putc, PutcGivesUp, NextOut
    <3>2. TypeOK'
      BY <1>0, <2>1, <3>1 DEF IInv, TypeOK, Chars, boot
    <3> QED
      BY <3>1, <3>2 DEF IInv, Conserved, Marked, Fresh, Collected
<1>8. CASE PutcDisabled
  <2>0. Tail(out) \in Seq(Chars) /\ (Len(out) > 1 => Tail(Tail(out)) \in Seq(Chars))
    <3> DEFINE T == Tail(out)
    <3>1. out # << >>
      BY <1>8 DEF PutcDisabled
    <3>2. T \in Seq(Chars) /\ Len(T) = Len(out) - 1
      BY <1>0, <3>1
    <3> HIDE DEF T
    <3>3. Len(T) > 0 => Tail(T) \in Seq(Chars)
      BY <3>2
    <3>4. Len(out) > 1 => Len(T) > 0
      BY <1>0, <3>2
    <3> QED
      BY <3>2, <3>3, <3>4 DEF T
  <2>1. out' \in Seq(Chars)
    BY <1>8, <2>0 DEF PutcDisabled
  <2> QED
    BY <1>0, <1>8, <2>1
    DEF PutcDisabled, boot, IInv, TypeOK, Conserved, Marked, Fresh, Collected, Chars
<1>9. CASE Sent
  <2>1. out' \in Seq(Chars) /\ pc' \in {"command", "receive", "idle"}
    <3>0. << >> \in Seq(Chars)
      OBVIOUS
    <3>1. Command \in Seq(Chars)
      BY PhaseOutput DEF IInv
    <3>2. pc = "report" \/ pc = "command" \/ pc = "reply"
      BY <1>9 DEF Sent, Sending
    <3> QED
      BY <1>9, <3>0, <3>1, <3>2 DEF Sent
  <2>2. tail' \in HeapTails \cup {<< >>}
    BY <1>9 DEF Sent
  <2> QED
    BY <1>0, <1>9, <2>1, <2>2
    DEF Sent, boot, IInv, TypeOK, Conserved, Marked, Fresh, Collected, Chars, Phases,
        Receiving, Sending
<1>10. CASE Getc
  <2>1. /\ rx' \in Seq(CameraBytes) /\ Len(rx') = Len(rx) - 1 /\ Len(rx) > 0
        /\ Head(rx) \in CameraBytes
    BY <1>0, <1>10 DEF Getc
  <2>2. text' \in Seq({"b", "z"}) /\ (text' # << >> => text'[1] = "b")
    BY <1>10, <2>1, StrcatText DEF Getc, IInv
  <2> QED
    <3>1. /\ taken' = taken + 1 /\ size' = size + 1 /\ elapsed' = 0
          /\ rx_timed_out' = FALSE
          /\ UNCHANGED <<pc, out, thre, thr, boot, tx_timed_out, tail, emitted, mark>>
      BY <1>10 DEF Getc
    <3>2. /\ emitted = taken' + Len(rx') /\ mark <= taken' /\ size' <= taken'
          /\ taken' <= MaxBytes /\ taken' \in Nat /\ size' \in Nat
          /\ taken' - size' = taken - size
      BY <1>0, <2>1, <3>1
    <3>3. TypeOK'
      <4>1. {size', emitted, taken', mark} \subseteq 0 .. MaxBytes
        BY <1>0, <3>2
      <4>2. elapsed' \in 0 .. Timeout
        BY <3>1
      <4>5. rx_timed_out' \in BOOLEAN
        BY <3>1, Zenon
      <4>3. /\ pc' \in Phases /\ out' \in Seq({"R", "F", "S", "5", "\r", "\n", "b"})
            /\ thr' \in {"R", "F", "S", "5", "\r", "\n", "b", "f", "NUL"}
            /\ tail' \in HeapTails \cup {<< >>}
            /\ {thre', enabled', rx_timed_out', tx_timed_out'} \subseteq BOOLEAN
            /\ inits' \in 0 .. MaxInits /\ greeting' \in 0 .. inits'
        BY <3>1, <4>5 DEF IInv, TypeOK, boot
      <4>4. emitted' = emitted /\ mark' = mark
        BY <3>1
      <4> QED
        BY <2>1, <2>2, <4>1, <4>2, <4>3, <4>4 DEF TypeOK
    <3> QED
      BY <2>2, <3>1, <3>2, <3>3 DEF IInv, Conserved, Marked, Fresh, Collected
<1>11. CASE GetcFails \/ GetcDisabled
  <2>1. ReceiveEnds /\ pc \in Receiving /\ (enabled => rx = << >>)
        /\ rx_timed_out' \in BOOLEAN
    BY <1>11 DEF GetcFails, GetcDisabled, IInv, TypeOK
  <2>2. out' \in Seq(Chars) /\ pc' \in {"report", "reply"}
    <3>1. (size > 0) \in BOOLEAN
      OBVIOUS
    <3> QED
      BY <2>1, <3>1, PhaseOutput DEF ReceiveEnds, IInv
  <2>3. mark' \in Nat /\ mark' <= taken
    BY <1>0, <2>1 DEF ReceiveEnds
  <2>4. pc' = "reply" => pc = "receive" /\ mark' = mark
    BY <2>1 DEF ReceiveEnds, Receiving
  <2> QED
    BY <1>0, <2>1, <2>2, <2>3, <2>4
    DEF ReceiveEnds, boot, IInv, TypeOK, Conserved, Marked, Fresh, Collected, Chars,
        Phases, Receiving, Sending
<1>12. CASE UNCHANGED vars
  BY <1>12 DEF vars, IInv, TypeOK, Conserved, Marked, Fresh, Collected
<1> QED
  BY <1>1, <1>2, <1>3, <1>4, <1>5, <1>6, <1>7, <1>8, <1>9, <1>10, <1>11, <1>12
  DEF Next, App

(* ... and so always. *)
THEOREM IInvHolds == Spec => []IInv
BY InitInv, StepInv, PTL DEF Spec

-----------------------------------------------------------------------------
(* The theorems *)

(* The flush that handle_msg starts with does what its comment says: no    *)
(* byte that the camera had sent by the end of the flush of an enabled     *)
(* port is part of the reply, however the camera, the clock and the other  *)
(* CPUs interleave with the two receive loops.                             *)
THEOREM FlushIsComplete == Spec => []FlushedStaysOut
<1>1. IInv => FlushedStaysOut
  BY DEF IInv, Marked, FlushedStaysOut
<1> QED
  BY <1>1, IInvHolds, PTL

(* receive_message_from_camera does not cut an answer: once a byte of it   *)
(* was read, it ends only after a silence of UART_TIMEOUT_US, although     *)
(* secure_uart_getc gives up at once after an earlier timeout.             *)
THEOREM ReplyIsWhole == Spec => ReplyNotCut
<1>1. IInv /\ [Next]_vars =>
        [pc = "receive" /\ pc' = "reply" /\ enabled /\ size > 0 => elapsed >= Timeout]_vars
  <2> SUFFICES ASSUME IInv, Next, pc = "receive", pc' = "reply", enabled, size > 0
               PROVE  elapsed >= Timeout
    BY DEF vars
  <2>1. GetcFails
    BY DEF Next, CameraSends, Transmitter, Tick, InitSecurePort, InitPutc, Request, App,
           Putc, PutcGivesUp, PutcDisabled, NextOut, Sent, Getc, GetcDisabled, Sending, app
  <2>2. ~rx_timed_out
    BY DEF IInv, Fresh, Receiving
  <2> QED
    BY <2>1, <2>2 DEF GetcFails
<1> QED
  BY <1>1, IInvHolds, PTL DEF Spec, ReplyNotCut
=============================================================================
