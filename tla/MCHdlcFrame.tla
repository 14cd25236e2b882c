---------------------------- MODULE MCHdlcFrame ----------------------------
(* HdlcFrame over every message of at most MaxLen bytes of a small alphabet. *)
EXTENDS HdlcFrame

CONSTANTS Alphabet, MaxLen

ASSUME MCAssumption == Alphabet \subseteq Byte /\ MaxLen \in Nat

VARIABLE data

Init == data = <<>>

AddByte == /\ Len(data) < MaxLen
           /\ \E byte \in Alphabet : data' = Append(data, byte)

Spec == Init /\ [][AddByte]_data

(* The CRC tells a message from every other that differs in one byte. *)
OneByteErrorsDetected ==
  \A i \in DOMAIN data : \A byte \in Byte \ {data[i]} :
    CalculateCrc([data EXCEPT ![i] = byte]) # CalculateCrc(data)

(* An encoded message decodes to itself exactly when its CRC needs no      *)
(* escape, and is rejected, never altered, when it does.                   *)
DecodesOrRejects ==
  data # <<>> =>
    LET frame == Decode(Encode(data))
    IN  IF CalculateCrc(data) \in Special
        THEN frame.failed
        ELSE Complete(frame) /\ frame.data = data

(* HdlcFrameTest.cpp: what a frame encodes to, decodes to the frame's data. *)
RoundTrip ==
  data # <<>> =>
    LET frame == Decode(Encode(data))
    IN  Complete(frame) /\ frame.data = data
=============================================================================
