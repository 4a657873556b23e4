----------------------------- MODULE SecureUart -----------------------------
(***************************************************************************)
(* One camera exchange of the secure UART service: what handle_msg does    *)
(* between read_msg and send_msg (trusty_ipc_setup.c), the camera calls    *)
(* (camera_communication.c), the two system calls (secure_uart.c) and the  *)
(* polled UART driver (secure_port.c).  The app thread, the camera, the    *)
(* transmitter, the clock and the CPUs that bring the port up interleave.  *)
(*                                                                         *)
(* The clock counts in units of which Timeout make UART_TIMEOUT_US.  A     *)
(* poll of the line status register is a step of the app; a tick may fall  *)
(* between any two polls.                                                  *)
(***************************************************************************)
EXTENDS Naturals, Sequences, SequencesExt

CONSTANTS Timeout,    \* UART_TIMEOUT_US in ticks
          MaxBytes,   \* bound on what the camera sends
          MaxInits,   \* bound on secondary CPUs that run platform init
          HeapTails   \* what may follow recieved_byte on the heap, up to a NUL

ASSUME TimeoutAssumption == Timeout \in Nat \ {0}
ASSUME MaxBytesAssumption == MaxBytes \in Nat
ASSUME MaxInitsAssumption == MaxInits \in Nat
ASSUME HeapTailsAssumption == HeapTails # {} /\ \A t \in HeapTails : t \in Seq({"z"})

VARIABLES pc,          \* where handle_msg is
          out,         \* what the current phase still has to transmit
          rx,          \* receive FIFO of the UART
          thre,        \* transmit holding register empty (LSR bit 5)
          thr,         \* transmit holding register: the last byte written
          enabled,     \* disable_secure_port = 0
          inits,       \* secondary CPUs that have enabled the port
          greeting,    \* of them, those whose 'f' is not out yet
          rx_timed_out, tx_timed_out, \* the static timed_out of getc, putc
          elapsed,     \* ticks since the current getc or putc started
          size, text,  \* of the current receive_message_from_camera
          tail,        \* what follows recieved_byte in this call
          emitted,     \* bytes the camera has sent
          taken,       \* bytes the app has read from the UART
          mark         \* bytes that the last flush disposed of, in all

vars == <<pc, out, rx, thre, thr, enabled, inits, greeting, rx_timed_out,
          tx_timed_out, elapsed, size, text, tail, emitted, taken, mark>>
boot == <<enabled, inits, greeting>>
app == <<pc, out, elapsed, size, text, tail, taken, mark, rx_timed_out,
         tx_timed_out>>

CameraBytes == {"NUL", "b"}
Receiving == {"flush", "receive"}
Sending == {"report", "command", "reply"}
Phases == {"idle"} \cup Receiving \cup Sending

Init == /\ pc = "idle" /\ out = << >> /\ rx = << >> /\ thre = TRUE
        /\ thr = "NUL" /\ enabled = FALSE /\ inits = 0 /\ greeting = 0
        /\ rx_timed_out = FALSE /\ tx_timed_out = FALSE
        /\ elapsed = 0 /\ size = 0 /\ text = << >> /\ tail = << >>
        /\ emitted = 0 /\ taken = 0 /\ mark = 0

-----------------------------------------------------------------------------
(* The world around the app *)

(* The camera puts a byte on the line, asked or not. *)
CameraSends(b) == /\ emitted < MaxBytes
                  /\ emitted' = emitted + 1
                  /\ rx' = Append(rx, b)
                  /\ UNCHANGED <<app, thre, thr, boot>>

(* Flow control or line speed makes the transmitter busy for a while. *)
Transmitter == /\ thre' = ~thre
               /\ UNCHANGED <<app, rx, thr, boot, emitted>>

(* The clock, while the app polls; what it compares with is capped. *)
Tick == /\ pc # "idle"
        /\ elapsed < Timeout
        /\ elapsed' = elapsed + 1
        /\ UNCHANGED <<pc, out, rx, thre, thr, boot, rx_timed_out,
                       tx_timed_out, size, text, tail, emitted, taken, mark>>

(* platform_secondary_init on another CPU: platform_init_secure_port       *)
(* enables the port and then writes one character, through the same putc   *)
(* and its static flag.  The clock of that putc is not modelled: while the *)
(* transmitter is busy it may give up at any moment.                       *)
InitSecurePort == /\ inits < MaxInits
                  /\ inits' = inits + 1
                  /\ greeting' = greeting + 1
                  /\ enabled' = TRUE
                  /\ UNCHANGED <<app, rx, thre, thr, emitted>>

InitPutc == /\ greeting > 0
            /\ greeting' = greeting - 1
            /\ thr' = IF thre THEN "f" ELSE thr
            /\ tx_timed_out' = ~thre
            /\ UNCHANGED <<pc, out, rx, thre, enabled, inits, rx_timed_out,
                           elapsed, size, text, tail, emitted, taken, mark>>

-----------------------------------------------------------------------------
(* sys_send_to_uart: the first n characters of a message and its NUL, as   *)
(* the driver writes them.  The uart_port argument is not used.            *)
dputc(ch) == CASE ch = "\n" -> <<"\r", "\n">>
               [] ch = "NUL" -> << >>
               [] OTHER -> <<ch>>
send_to_uart(uart_port, message, n) ==
  FlattenSeq([i \in 1 .. n |-> IF i <= Len(message) THEN dputc(message[i])
                               ELSE dputc("NUL")])

(* The messages of one exchange; every call passes the length 1 or 0.      *)
(* commands[0] is "56001100".                                              *)
CommandText == <<"5", "6", "0", "0", "1", "1", "0", "0">>
DEBUG_PORT == 1
CAMERA_PORT == 3
Report(found) == send_to_uart(DEBUG_PORT, IF found THEN <<"R">> ELSE <<"F">>, 1)
Command == send_to_uart(DEBUG_PORT, <<"S">>, 1)
           \o send_to_uart(DEBUG_PORT, CommandText, 1)
           \o send_to_uart(DEBUG_PORT, <<"\r">>, 1)
           \o send_to_uart(CAMERA_PORT, CommandText, 0)
Reply(found) ==
  (IF found
   THEN send_to_uart(DEBUG_PORT, <<"R">>, 1)
        \o send_to_uart(DEBUG_PORT, text, 1)
        \o send_to_uart(DEBUG_PORT, <<"R">>, 1)
        \o send_to_uart(DEBUG_PORT, text, 1)
        \o send_to_uart(DEBUG_PORT, <<"\n">>, 1)
   ELSE send_to_uart(DEBUG_PORT, <<"F">>, 1))
  \o send_to_uart(DEBUG_PORT, <<"\r">>, 1)

(* A request of the client: handle_msg starts with the flush. *)
Request == /\ pc = "idle"
           /\ pc' = "flush"
           /\ elapsed' = 0 /\ size' = 0 /\ text' = << >>
           /\ tail' \in HeapTails
           /\ UNCHANGED <<out, rx, thre, thr, boot, rx_timed_out,
                          tx_timed_out, emitted, taken, mark>>

-----------------------------------------------------------------------------
(* secure_uart_putc *)

(* The character that is next goes out, or is given up. *)
NextOut == /\ out' = Tail(out)
           /\ elapsed' = 0
           /\ UNCHANGED <<pc, rx, thre, boot, rx_timed_out, size,
                          text, tail, emitted, taken, mark>>

Putc == /\ pc \in Sending /\ out # << >> /\ enabled
        /\ thre
        /\ tx_timed_out' = FALSE
        /\ thr' = Head(out)
        /\ NextOut

PutcGivesUp == /\ pc \in Sending /\ out # << >> /\ enabled
               /\ ~thre
               /\ tx_timed_out \/ elapsed >= Timeout
               /\ tx_timed_out' = TRUE
               /\ thr' = thr
               /\ NextOut

(* secure_platform_dputc returns at once while the port is disabled; one   *)
(* call stands for a newline and the carriage return before it.            *)
PutcDisabled ==
  /\ pc \in Sending /\ out # << >> /\ ~enabled
  /\ out' = IF Len(out) > 1 /\ out[2] = "\n" THEN Tail(Tail(out)) ELSE Tail(out)
  /\ elapsed' = 0
  /\ UNCHANGED <<pc, rx, thre, thr, boot, rx_timed_out, tx_timed_out, size,
                 text, tail, emitted, taken, mark>>

(* The phase has nothing left to transmit: on to the next one. *)
Sent == /\ pc \in Sending /\ out = << >>
        /\ CASE pc = "report" -> pc' = "command" /\ out' = Command
             [] pc = "command" -> pc' = "receive" /\ out' = << >>
             [] pc = "reply" -> pc' = "idle" /\ out' = << >>
        /\ elapsed' = 0
        /\ size' = 0 /\ text' = << >>
        /\ tail' \in IF pc = "command" THEN HeapTails ELSE {<< >>}
        /\ UNCHANGED <<rx, thre, thr, boot, rx_timed_out,
                       tx_timed_out, emitted, taken, mark>>

-----------------------------------------------------------------------------
(* receive_message_from_camera: secure_uart_getc until one call fails *)

(* strcat of a buffer of one byte and of what follows it on the heap *)
Strcat(b) == IF b = "NUL" THEN text ELSE text \o <<b>> \o tail

(* Mistake: the static timed_out is not cleared by a byte. *)
GetcStaysTimedOut ==
  /\ pc \in Receiving /\ enabled
  /\ rx # << >>
  /\ rx' = Tail(rx)
  /\ taken' = taken + 1
  /\ size' = size + 1
  /\ text' = Strcat(Head(rx))
  /\ elapsed' = 0
  /\ UNCHANGED <<pc, out, thre, thr, boot, rx_timed_out,
                 tx_timed_out, tail, emitted, mark>>

Getc == /\ pc \in Receiving /\ enabled
        /\ rx # << >>
        /\ rx_timed_out' = FALSE
        /\ rx' = Tail(rx)
        /\ taken' = taken + 1
        /\ size' = size + 1
        /\ text' = Strcat(Head(rx))
        /\ elapsed' = 0
        /\ UNCHANGED <<pc, out, thre, thr, boot, tx_timed_out,
                       tail, emitted, mark>>

(* When the loop ends the flush is over, or the reply is complete. *)
ReceiveEnds ==
  /\ IF pc = "flush"
     THEN /\ pc' = "report" /\ out' = Report(size > 0)
          /\ mark' = IF enabled THEN emitted ELSE taken
     ELSE /\ pc' = "reply" /\ out' = Reply(size > 0)
          /\ mark' = mark
  /\ UNCHANGED <<rx, thre, thr, boot, tx_timed_out, elapsed, size,
                 text, tail, emitted, taken>>

(* Mistakes: the time is looked at before the status register; the time    *)
(* is not looked at.                                                       *)
GetcFailsFirst == /\ pc \in Receiving /\ enabled
                  /\ rx_timed_out \/ elapsed >= Timeout
                  /\ rx_timed_out' = TRUE
                  /\ ReceiveEnds
GetcNoClock == /\ pc \in Receiving /\ enabled
               /\ rx = << >>
               /\ rx_timed_out
               /\ rx_timed_out' = TRUE
               /\ ReceiveEnds

(* No byte, and the time is up or a getc before timed out already.  The    *)
(* poll that sees no byte and the look at the clock are one step: a byte   *)
(* that arrives between them is one that arrives after the call, and mark  *)
(* counts it so.                                                           *)
GetcFails == /\ pc \in Receiving /\ enabled
             /\ rx = << >>
             /\ rx_timed_out \/ elapsed >= Timeout
             /\ rx_timed_out' = TRUE
             /\ ReceiveEnds

(* secure_platform_dgetc fails at once while the port is disabled. *)
GetcDisabled == /\ pc \in Receiving /\ ~enabled
                /\ UNCHANGED rx_timed_out
                /\ ReceiveEnds

-----------------------------------------------------------------------------
App == Putc \/ PutcGivesUp \/ PutcDisabled \/ Sent \/ Getc \/ GetcFails
       \/ GetcDisabled

Next == \/ \E b \in CameraBytes : CameraSends(b)
        \/ Transmitter \/ Tick \/ InitSecurePort \/ InitPutc
        \/ Request
        \/ App

(* The app's thread runs and time passes; the camera, the transmitter and  *)
(* the clients owe nothing.  A poll loop that never sees its bit ends by   *)
(* the clock, which fairness of the two together provides.                 *)
Fairness == WF_vars(App) /\ WF_vars(Tick)

Spec == Init /\ [][Next]_vars
FairSpec == Spec /\ Fairness

-----------------------------------------------------------------------------
TypeOK ==
  /\ pc \in Phases
  /\ out \in Seq({"R", "F", "S", "5", "\r", "\n", "b"})
  /\ rx \in Seq(CameraBytes)
  /\ thr \in {"R", "F", "S", "5", "\r", "\n", "b", "f", "NUL"}
  /\ text \in Seq({"b", "z"})
  /\ tail \in HeapTails \cup {<< >>}
  /\ {thre, enabled, rx_timed_out, tx_timed_out} \subseteq BOOLEAN
  /\ inits \in 0 .. MaxInits /\ greeting \in 0 .. inits
  /\ elapsed \in 0 .. Timeout
  /\ {size, emitted, taken, mark} \subseteq 0 .. MaxBytes

(* On top of the types, "Flush values from the camera tx buffer"           *)
(* (trusty_ipc_setup.c:142): no byte that the camera had sent when a flush *)
(* of the enabled port ended is ever part of the reply to that request.    *)
FlushedStaysOut ==
  /\ TypeOK
  /\ pc \in {"receive", "reply"} => taken - size >= mark

(* Once the camera has begun to answer, the reply ends only after a        *)
(* silence of the whole timeout: a gap inside the answer does not cut it.  *)
ReplyNotCut ==
  [][pc = "receive" /\ pc' = "reply" /\ enabled /\ size > 0
       => elapsed >= Timeout]_vars

(* Every request is answered in the end, whatever the transmitter does, as *)
(* long as the camera does not send for ever.                              *)
ExchangeEnds == pc # "idle" ~> pc = "idle"

(* "Sent command: " (camera_communication.c:53), CAMERA_PORT and DEBUG_PORT *)
(* (camera_communication.h:6-7): what goes to the camera's line for a       *)
(* request is the command, and none of the debug output.                    *)
CameraGetsCommand ==
  [][pc = "report" /\ pc' = "command" /\ enabled => out' = CommandText]_vars
=============================================================================
