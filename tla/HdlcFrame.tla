------------------------------ MODULE HdlcFrame ------------------------------
(***************************************************************************)
(* The HDLC-like frame codec of the UART connector                         *)
(* (src/connector/uart/HdlcFrame.cpp) as operators on byte sequences.      *)
(* A C++ exception is the field `failed` of the decoder it leaves behind.  *)
(***************************************************************************)
EXTENDS Integers, SequencesExt

Byte       == 0..255
FLAG       == 126        \* HDLC_FLAG   0x7E
ESCAPE     == 125        \* HDLC_ESCAPE 0x7D
ESCAPE_BIT == 32         \* 0x20
Special    == {FLAG, ESCAPE}

(* Mutant: or in place of exclusive or. *)
ToggleSets(byte) ==
  IF (byte \div ESCAPE_BIT) % 2 = 1 THEN byte ELSE byte + ESCAPE_BIT

(* byte ^ HDLC_ESCAPE_BIT: bit 5 is toggled. *)
Toggle(byte) ==
  IF (byte \div ESCAPE_BIT) % 2 = 1 THEN byte - ESCAPE_BIT ELSE byte + ESCAPE_BIT

-----------------------------------------------------------------------------
(* calculateCrc: CRC-8 with polynomial 0x8C, least significant bit first. *)

(* The bit of n that has this weight, a power of two. *)
Bit(n, weight) == (n \div weight) % 2

Xor(m, n) ==
  LET bit(weight) == weight * ((Bit(m, weight) + Bit(n, weight)) % 2)
  IN  bit(1) + bit(2) + bit(4) + bit(8) + bit(16) + bit(32) + bit(64) + bit(128)

(* Mutant: the bit is lost, not fed back. *)
ShiftOnly(crc) == crc \div 2

Shift(crc) == IF crc % 2 = 1 THEN Xor(crc \div 2, 140) ELSE crc \div 2

(* The eight shifts after a byte has been added to the CRC. *)
ShiftedOut ==
  [crc \in Byte |->
     LET shifted[k \in 0..8] == IF k = 0 THEN crc ELSE Shift(shifted[k - 1])
     IN  shifted[8]]

CalculateCrc(data) ==
  LET crc[n \in 0..Len(data)] ==
        IF n = 0 THEN 255 ELSE ShiftedOut[Xor(crc[n - 1], data[n])]
  IN  crc[Len(data)]

-----------------------------------------------------------------------------
(* encode() *)

EncodeByte(byte) == IF byte \in Special THEN Toggle(byte) ELSE byte

(* What goes on the wire for one byte of the data. *)
EncodeUnit(byte) ==
  IF byte \in Special THEN <<ESCAPE, EncodeByte(byte)>> ELSE <<byte>>

(* The CRC goes through encodeByte, but no ESCAPE is put before it. *)
EncodeCrc(data) == <<EncodeByte(CalculateCrc(data))>>

Encode(data) ==
  <<FLAG>> \o FlattenSeq([i \in DOMAIN data |-> EncodeUnit(data[i])])
           \o EncodeCrc(data) \o <<FLAG>>

-----------------------------------------------------------------------------
(* decodeByte() *)

Frame == [data : Seq(Byte), decoding : BOOLEAN, escape : BOOLEAN,
          crc : Byte \cup {-1}, failed : BOOLEAN]

EmptyFrame == [data |-> <<>>, decoding |-> FALSE, escape |-> FALSE,
               crc |-> -1, failed |-> FALSE]

(* Mutant: the data of the frame before is kept. *)
OpenKeepsData(frame) == [frame EXCEPT !.crc = -1, !.decoding = TRUE]

Open(frame) == [frame EXCEPT !.data = <<>>, !.crc = -1, !.decoding = TRUE]

Push(frame, byte) ==
  [frame EXCEPT !.data = Append(@, byte), !.escape = FALSE]

Throw(frame) == [frame EXCEPT !.failed = TRUE]

(* A closing flag: the last byte is the CRC of the others. *)
LastByte(data) == data[Len(data)]
ButLast(data)  == SubSeq(data, 1, Len(data) - 1)

(* Mutant: the CRC is taken off but not compared. *)
CloseUnchecked(frame) ==
  IF Len(frame.data) < 2
  THEN Throw([frame EXCEPT !.decoding = FALSE, !.escape = FALSE])
  ELSE [frame EXCEPT !.decoding = FALSE, !.escape = FALSE,
                     !.data = ButLast(@), !.crc = LastByte(frame.data)]

Close(frame) ==
  LET closed  == [frame EXCEPT !.decoding = FALSE, !.escape = FALSE]
      checked == [closed EXCEPT !.data = ButLast(@), !.crc = LastByte(frame.data)]
  IN  IF Len(frame.data) < 2 THEN Throw(closed)
      ELSE IF LastByte(frame.data) # CalculateCrc(ButLast(frame.data))
           THEN Throw(checked)
           ELSE checked

(* Mutant: an aborted frame leaves its escape pending. *)
UnescapeStaysPending(frame, byte) ==
  IF byte = FLAG
  THEN Throw([frame EXCEPT !.decoding = FALSE])
  ELSE IF Toggle(byte) \in Special
       THEN Push(frame, Toggle(byte))
       ELSE Throw([frame EXCEPT !.escape = FALSE])

(* After ESCAPE: a flag aborts the frame, and only flags and escapes may   *)
(* have been escaped.                                                      *)
Unescape(frame, byte) ==
  IF byte = FLAG
  THEN Throw([frame EXCEPT !.decoding = FALSE, !.escape = FALSE])
  ELSE IF Toggle(byte) \in Special
       THEN Push(frame, Toggle(byte))
       ELSE Throw([frame EXCEPT !.escape = FALSE])

DecodeByte(frame, byte) ==
  IF ~frame.decoding
  THEN IF byte = FLAG THEN Open(frame) ELSE frame
  ELSE IF frame.escape THEN Unescape(frame, byte)
  ELSE IF byte = FLAG THEN Close(frame)
  ELSE IF byte = ESCAPE THEN [frame EXCEPT !.escape = TRUE]
  ELSE Push(frame, byte)

(* decode(): nothing is decoded after an exception. *)
Decode(bytes) ==
  LET decoded[n \in 0..Len(bytes)] ==
        IF n = 0 THEN EmptyFrame
        ELSE LET frame == decoded[n - 1]
             IN  IF frame.failed THEN frame ELSE DecodeByte(frame, bytes[n])
  IN  decoded[Len(bytes)]

(* getData() returns the data, and throws while a frame is open. *)
Complete(frame) == ~frame.decoding /\ ~frame.failed
=============================================================================
