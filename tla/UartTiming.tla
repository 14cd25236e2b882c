----------------------------- MODULE UartTiming -----------------------------
(***************************************************************************)
(* The clock of the listening loop on a serial line that nothing goes      *)
(* wrong on: what the sender's pauses are worth to a receiver that reads   *)
(* for 100 ms after each byte (UartConnector.cpp, receive()), and sleeps   *)
(* and runs handlers before it reads again (IConnector.h, listeningLoop()).*)
(*                                                                         *)
(* A message is sent when the sender's clock says so, and waits in the     *)
(* port's buffer for the loop to read it, which UartLink does byte by      *)
(* byte, its Begin being the moment when the receiver begins to.  A tick   *)
(* is 50 ms; a frame takes no time to be sent or read, and the buffer has  *)
(* no end.                                                                 *)
(***************************************************************************)
EXTENDS UartLink

CONSTANTS
  Pauses,      \* what the sender may leave between two transmissions, in ticks
  Handling     \* the longest time from a message to the end of its handlers

ASSUME UartTimingAssumption ==
  /\ Pauses \subseteq Nat
  /\ Handling \in Nat \ {0}

Timeout == 2   \* of each sp_blocking_read
Sleep   == 1   \* of the loop before it calls receive() again

VARIABLES
  queue,       \* messages in the port's buffer
  pause,       \* what this sender leaves between two transmissions
  gap,         \* the time since its last one, as far as it matters
  quiet,       \* how long sp_blocking_read has been waiting
  away         \* the time until the loop calls receive(), 0: it is in it

clockVars == <<queue, pause, gap, quiet, away>>
timedVars == <<vars, clockVars>>

(* The types.  A loop that is not in receive() has no HdlcFrame. *)
TimedTypeOK ==
  /\ queue \in Seq(Payloads)
  /\ pause \in Pauses
  /\ gap \in 0..pause
  /\ quiet \in 0..Timeout
  /\ away \in 0..Sleep + Handling
  /\ away > 0 => quiet = 0 /\ frame = EmptyFrame /\ ~Busy

TimedInit ==
  /\ Init
  /\ queue = <<>>
  /\ pause \in Pauses
  /\ gap = pause
  /\ quiet = 0
  /\ away = 0

-----------------------------------------------------------------------------
(* The sender *)

Sends(message) ==
  /\ gap = pause
  /\ Len(sent) + Len(queue) < MaxMessages
  /\ queue' = Append(queue, message)
  /\ gap' = 0
  /\ UNCHANGED <<vars, pause, quiet, away>>

(* Bytes outside a frame: decodeByte() skips them, receive() reads on. *)
Noise ==
  /\ gap = pause
  /\ gap' = 0
  /\ quiet' = 0
  /\ UNCHANGED <<vars, queue, pause, away>>

-----------------------------------------------------------------------------
(* receive() *)

Reading == away = 0 /\ ~Busy

ReadsFrame ==
  /\ Reading
  /\ queue # <<>>
  /\ Begin(Head(queue))
  /\ queue' = Tail(queue)
  /\ quiet' = 0
  /\ UNCHANGED <<pause, gap, away>>

FrameGoesOn ==
  /\ WriteByte \/ WriteCrc \/ WriteFlag \/ ReadByte
  /\ UNCHANGED clockVars

(* No byte for 100 ms. *)
TimesOut == Reading /\ queue = <<>> /\ quiet = Timeout /\ quiet' = 0

(* Mutant: the loop sleeps once more, with the guard released. *)
MessageEndsSleepsTwice ==
  /\ TimesOut
  /\ ReadTimesOut
  /\ away' \in Sleep..2 * Sleep + Handling
  /\ UNCHANGED <<queue, pause, gap>>

(* The loop waits for the guard, runs the handlers and sleeps. *)
MessageEnds ==
  /\ TimesOut
  /\ ReadTimesOut
  /\ away' \in Sleep..Sleep + Handling
  /\ UNCHANGED <<queue, pause, gap>>

(* Mutant: receive() does not return without a message. *)
WaitsForMessage ==
  /\ TimesOut
  /\ frame = EmptyFrame
  /\ UNCHANGED <<vars, queue, pause, gap, away>>

NothingCame ==
  /\ TimesOut
  /\ frame = EmptyFrame
  /\ away' = Sleep
  /\ UNCHANGED <<vars, queue, pause, gap>>

-----------------------------------------------------------------------------
(* Time passes, but not while there is something to read, nor when         *)
(* sp_blocking_read is to return.                                          *)

Tick ==
  /\ ~Busy
  /\ away = 0 => queue = <<>> /\ quiet < Timeout
  /\ gap' = IF gap < pause THEN gap + 1 ELSE gap
  /\ IF away > 0 THEN away' = away - 1 /\ UNCHANGED quiet
                 ELSE quiet' = quiet + 1 /\ UNCHANGED away
  /\ UNCHANGED <<vars, queue, pause>>

TimedNext ==
  \/ \E message \in Payloads : Sends(message)
  \/ Noise
  \/ ReadsFrame \/ FrameGoesOn \/ MessageEnds \/ NothingCame
  \/ Tick

TimedSpec == TimedInit /\ [][TimedNext]_timedVars

(* Time passes, and the loop does what it has to at its time. *)
TimedFairSpec ==
  /\ TimedSpec
  /\ WF_timedVars(Tick)
  /\ WF_timedVars(ReadsFrame)
  /\ WF_timedVars(FrameGoesOn)
  /\ WF_timedVars(MessageEnds \/ NothingCame)

-----------------------------------------------------------------------------
(* How long the sender has to pause: for the time out, the sleep and the   *)
(* handlers together.  The 100 ms of the time out alone are not enough.    *)
LongEnough == pause >= Timeout + Sleep + Handling

TimedChannel == INSTANCE MessageChannel WITH
  Messages  <- Payloads,
  inFlight  <- Decoded \o Sending \o queue,
  delivered <- received

(* With pauses that are long enough the line and the loop are a reliable   *)
(* channel, however long the loop is away each time; with shorter ones a   *)
(* message is lost when the next one is read in the same window.  Nothing  *)
(* goes wrong on the line until then.                                      *)
TimedChannelSpec ==
  /\ TimedChannel!Init
  /\ [][faults' = 0 => IF LongEnough THEN TimedChannel!ReliableNext
                                     ELSE TimedChannel!Next]_(TimedChannel!vars)

(* And every message arrives. *)
MessagesArrive ==
  \A n \in 1..MaxMessages :
    LongEnough /\ Len(sent \o queue) = n ~> Len(received) >= n

(* receive() returns, which stopListen() and the destructor wait for, if   *)
(* the line is quiet for more than 100 ms between any two transmissions,   *)
(* however many there are; else it need not.                               *)
ReceiveEnds == pause > Timeout => []<>(away > 0)
=============================================================================
