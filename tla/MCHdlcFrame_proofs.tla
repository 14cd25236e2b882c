------------------------- MODULE MCHdlcFrame_proofs -------------------------
(* What the codec runs check on short messages, for every alphabet of bytes *)
(* and every length.                                                        *)
EXTENDS MCHdlcFrame, HdlcFrame_proofs

(* The messages that are tried are sequences of bytes. *)
Message == data \in Seq(Byte)

(* Every message that Spec reaches is one. *)
LEMMA MessageInvariant == Spec => []Message
<1>1. Init => Message
  BY DEF Init, Message
<1>2. Message /\ [AddByte]_data => Message'
  BY MCAssumption, AppendProperties DEF Message, AddByte
<1> QED  BY <1>1, <1>2, PTL DEF Spec

(* No byte of a message can change and the CRC stay the same. *)
THEOREM OneByteErrorsDetectedAlways == Spec => []OneByteErrorsDetected
<1>1. Message => OneByteErrorsDetected
  BY OneByteErrorsChangeCrc DEF Message, OneByteErrorsDetected
<1> QED  BY <1>1, MessageInvariant, PTL

(* What encode() writes, decode() returns as it was or rejects. *)
THEOREM DecodesOrRejectsAlways == Spec => []DecodesOrRejects
<1>1. Message => DecodesOrRejects
  BY FramesDecodeOrAreRejected DEF Message, DecodesOrRejects
<1> QED  BY <1>1, MessageInvariant, PTL
=============================================================================
