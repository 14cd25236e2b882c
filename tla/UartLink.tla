------------------------------ MODULE UartLink ------------------------------
(***************************************************************************)
(* A serial line with UartConnector at both ends of its framing: send()    *)
(* encodes a message and writes the frame, receive() feeds what it reads   *)
(* to one HdlcFrame until no byte has come for 100 ms, a `window`.  When a *)
(* window ends is left open here; UartTiming adds the clock.               *)
(* (src/connector/uart/UartConnector.cpp; the TR at the other end uses the *)
(* same framing.)                                                          *)
(*                                                                         *)
(* The frame is written unit by unit, a data byte with its escape prefix   *)
(* being one unit, and a unit is read before the next one: decodeByte sees *)
(* the bytes in the same order however far it lags behind.                 *)
(***************************************************************************)
EXTENDS HdlcFrame

CONSTANTS
  Payloads,      \* the messages sent
  MaxMessages,   \* bounds how many are sent
  MaxFaults      \* bounds the writes cut short and the bytes that come late

ASSUME UartLinkAssumption ==
  /\ Payloads \subseteq Seq(Byte) \ {<<>>}
  /\ MaxMessages \in Nat
  /\ MaxFaults \in Nat

(* Messages whose CRC needs no escape: the others are always rejected. *)
PlainCrcs == \A p \in Payloads : CalculateCrc(p) \notin Special

(* No part of a message that a cut write leaves behind ends in the CRC of  *)
(* what precedes it: such a part is taken for a message.                   *)
PartsAreNoFrames ==
  \A p \in Payloads : \A n \in 1..Len(p) - 1 :
    p[n + 1] # CalculateCrc(SubSeq(p, 1, n))

VARIABLES
  sent,       \* the messages send() has been called with
  phase,      \* what send() writes next: "idle", "data" or "end"
  index,      \* the bytes of the last message written
  wire,       \* the bytes written and not yet read
  frame,      \* the HdlcFrame of receive()
  received,   \* the messages receive() has returned
  dead,       \* receive() has thrown: the listening loop has ended
  faults      \* the faults so far

vars == <<sent, phase, index, wire, frame, received, dead, faults>>

senderVars   == <<sent, phase, index>>
receiverVars == <<frame, received, dead>>

Current == sent[Len(sent)]

(* There is a message whose frame is not yet written and read entirely. *)
Busy == phase # "idle" \/ wire # <<>>

(* A frame that is not open has no escape pending, an open one no CRC. *)
TypeOK ==
  /\ sent \in Seq(Payloads)
  /\ phase \in {"idle", "data", "end"}
  /\ index \in Nat
  /\ wire \in Seq(Byte)
  /\ frame \in Frame
  /\ IF frame.decoding THEN frame.crc = -1 ELSE ~frame.escape
  /\ received \in Seq(Seq(Byte))
  /\ dead \in BOOLEAN
  /\ faults \in Nat

Init ==
  /\ sent = <<>>
  /\ phase = "idle"
  /\ index = 0
  /\ wire = <<>>
  /\ frame = EmptyFrame
  /\ received = <<>>
  /\ dead = FALSE
  /\ faults = 0

-----------------------------------------------------------------------------
(* send(): the message, which is not empty, goes out between two flags. *)

Begin(message) ==
  /\ phase = "idle" /\ wire = <<>>
  /\ Len(sent) < MaxMessages
  /\ sent' = Append(sent, message)
  /\ phase' = "data"
  /\ index' = 0
  /\ wire' = <<FLAG>>
  /\ UNCHANGED <<receiverVars, faults>>

WriteByte ==
  /\ phase = "data" /\ wire = <<>>
  /\ index < Len(Current)
  /\ index' = index + 1
  /\ wire' = EncodeUnit(Current[index + 1])
  /\ UNCHANGED <<sent, phase, receiverVars, faults>>

WriteCrc ==
  /\ phase = "data" /\ wire = <<>>
  /\ index = Len(Current)
  /\ phase' = "end"
  /\ wire' = EncodeCrc(Current)
  /\ UNCHANGED <<sent, index, receiverVars, faults>>

WriteFlag ==
  /\ phase = "end" /\ wire = <<>>
  /\ phase' = "idle"
  /\ wire' = <<FLAG>>
  /\ UNCHANGED <<sent, index, receiverVars, faults>>

(* sp_blocking_write returns after 1 s with fewer bytes written than asked *)
(* for; send() takes the count for a success.                              *)
WriteCutShort ==
  /\ faults < MaxFaults
  /\ phase # "idle"
  /\ phase' = "idle"
  /\ \E n \in 0..Len(wire) : wire' = SubSeq(wire, 1, n)
  /\ faults' = faults + 1
  /\ UNCHANGED <<sent, index, receiverVars>>

-----------------------------------------------------------------------------
(* receive(): an exception of the decoder leaves the function. *)

ReadByte ==
  /\ ~dead
  /\ wire # <<>>
  /\ wire' = Tail(wire)
  /\ frame' = DecodeByte(frame, Head(wire))
  /\ dead' = frame'.failed
  /\ UNCHANGED <<senderVars, received, faults>>

(* Mutants: a result of one byte is taken for no message; the frame is not *)
(* a new one for each call.                                                *)
EndWindowDropsShort ==
  /\ ~dead
  /\ wire = <<>>
  /\ frame # EmptyFrame
  /\ Complete(frame)
  /\ received' = IF Len(frame.data) < 2 THEN received
                 ELSE Append(received, frame.data)
  /\ frame' = EmptyFrame
  /\ UNCHANGED dead

EndWindowKeepsFrame ==
  /\ ~dead
  /\ wire = <<>>
  /\ frame # EmptyFrame
  /\ IF Complete(frame)
     THEN /\ received' = Append(received, frame.data)
          /\ frame' \in {frame, EmptyFrame}
          /\ UNCHANGED dead
     ELSE dead' = TRUE /\ UNCHANGED <<frame, received>>

(* 100 ms without a byte: getData() throws if a frame is open; an empty    *)
(* result is no message.                                                   *)
EndWindow ==
  /\ ~dead
  /\ wire = <<>>
  /\ frame # EmptyFrame
  /\ IF Complete(frame)
     THEN /\ received' = IF frame.data = <<>> THEN received
                         ELSE Append(received, frame.data)
          /\ frame' = EmptyFrame
          /\ UNCHANGED dead
     ELSE dead' = TRUE /\ UNCHANGED <<frame, received>>

ReadTimesOut ==
  /\ phase = "idle"
  /\ EndWindow
  /\ UNCHANGED <<senderVars, wire, faults>>

(* The rest of the frame comes more than 100 ms late. *)
ReadTimesOutEarly ==
  /\ phase # "idle"
  /\ faults < MaxFaults
  /\ faults' = faults + 1
  /\ EndWindow
  /\ UNCHANGED <<senderVars, wire>>

(* The application joins the dead loop and starts a new one; what came in  *)
(* between is still in the port's buffer.                                  *)
Relisten ==
  /\ dead
  /\ dead' = FALSE
  /\ frame' = EmptyFrame
  /\ UNCHANGED <<senderVars, wire, received, faults>>

Sender   == \/ \E message \in Payloads : Begin(message)
            \/ WriteByte \/ WriteCrc \/ WriteFlag
Receiver == ReadByte \/ ReadTimesOut \/ Relisten

Next == Sender \/ Receiver \/ WriteCutShort \/ ReadTimesOutEarly

Spec == Init /\ [][Next]_vars

-----------------------------------------------------------------------------
(* receive() never throws as long as nothing goes wrong on the line: a     *)
(* frame never looks aborted, too short or damaged to its receiver, also   *)
(* when the next one follows before the window of the first has ended.     *)
ReceiverSurvives == faults = 0 => ~dead

(* Whatever is cut short, late, merged or lost, what receive() returns are *)
(* messages that were sent, each at most once and in their order.          *)
NothingInvented ==
  \E origin \in [DOMAIN received -> DOMAIN sent] :
    /\ \A i \in DOMAIN received : received[i] = sent[origin[i]]
    /\ \A i, j \in DOMAIN received : i < j => origin[i] < origin[j]

(* What is on its way: a frame decoded whose window has not ended, and the *)
(* message that is being sent.                                             *)
Decoded == IF ~frame.decoding /\ frame.data # <<>> THEN <<frame.data>> ELSE <<>>
Sending == IF Busy THEN <<Current>> ELSE <<>>

Channel == INSTANCE MessageChannel WITH
  Messages  <- Payloads,
  inFlight  <- Decoded \o Sending,
  delivered <- received

(* The opening flag of a message is the next byte, and the HdlcFrame that  *)
(* will decode it still holds the message before.                          *)
OpeningFlag == wire = <<FLAG>> /\ index = 0
FramesMeet  == OpeningFlag /\ frame # EmptyFrame

(* Until something goes wrong, the line is a reliable channel for          *)
(* messages, but for one way to lose a message: that the next one follows  *)
(* within its window.                                                      *)
ChannelSpec ==
  /\ Channel!Init
  /\ [][faults' = 0 => \/ Channel!ReliableNext
                       \/ FramesMeet /\ Channel!Lose]_(Channel!vars)
=============================================================================
