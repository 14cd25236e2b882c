--------------------------- MODULE UartLink_proofs ---------------------------
(***************************************************************************)
(* What a message goes through on the serial line, and the proofs that     *)
(* receive() gives back what was sent, for every set of messages, any      *)
(* number of them and any number of faults.                                *)
(***************************************************************************)
EXTENDS UartTiming, HdlcFrame_proofs

(* What a frame that is not finished may hold: a first part of a message,  *)
(* or all of it with its CRC.                                              *)
Part(message, data) ==
  \/ \E n \in 0..Len(message) : data = SubSeq(message, 1, n)
  \/ data = Append(message, Crc(message))

(* A receiver that is in a frame has read this much of the message. *)
Has(data) ==
  ~dead /\ frame.decoding => frame.data = data /\ ~frame.escape

HasEscape(data) ==
  ~dead /\ frame.decoding => frame.data = data /\ frame.escape

(* Some messages are of the first n of all, in the same order. *)
AreOfFirst(some, n, all) ==
  \E origin \in [DOMAIN some -> 1..n] :
    /\ \A i \in DOMAIN some : some[i] = all[origin[i]]
    /\ \A i, j \in DOMAIN some : i < j => origin[i] < origin[j]

(* A frame that is open, or finished, holds one of the first n messages, or *)
(* a part of it, and neither this message nor a later one was received.     *)
Unfinished(n) ==
  ~dead /\ frame.decoding =>
    \E i \in 1..n : Part(sent[i], frame.data) /\ AreOfFirst(received, i - 1, sent)

Finished(n) ==
  ~dead /\ ~frame.decoding /\ frame.data # <<>> =>
    \E i \in 1..n : frame.data = sent[i] /\ AreOfFirst(received, i - 1, sent)

-----------------------------------------------------------------------------
(* The situations that sender and receiver can be in together.  The wire   *)
(* is empty in the first three.                                            *)
Resting ==
  /\ phase = "idle" /\ wire = <<>>
  /\ Unfinished(Len(sent))

BeforeByte ==
  /\ phase = "data" /\ wire = <<>>
  /\ Has(SubSeq(Current, 1, index))

BeforeFlag ==
  /\ phase = "end" /\ wire = <<>>
  /\ index = Len(Current)
  /\ Has(Append(Current, Crc(Current)))

(* The opening flag finds the receiver in the frame before only if that    *)
(* was cut short, or opened by a closing flag.                             *)
Opening ==
  /\ phase \in {"data", "idle"} /\ OpeningFlag
  /\ Unfinished(Len(sent) - 1)

Closing ==
  /\ phase = "idle" /\ wire = <<FLAG>>
  /\ index = Len(Current)
  /\ Has(Append(Current, Crc(Current)))

Unit ==
  /\ phase \in {"data", "idle"} /\ index > 0
  /\ wire = EncodeUnit(Current[index])
  /\ Has(SubSeq(Current, 1, index - 1))

(* Only the escape of the unit was written. *)
EscapeOnly ==
  /\ phase = "idle" /\ index > 0
  /\ wire = <<ESCAPE>>
  /\ Has(SubSeq(Current, 1, index - 1))

EscapedByte ==
  /\ phase \in {"data", "idle"} /\ index > 0
  /\ Current[index] \in Special
  /\ wire = <<EncodeByte(Current[index])>>
  /\ HasEscape(SubSeq(Current, 1, index - 1))

CrcByte ==
  /\ phase \in {"end", "idle"}
  /\ index = Len(Current)
  /\ wire = EncodeCrc(Current)
  /\ Has(Current)

Situation ==
  \/ Resting \/ BeforeByte \/ BeforeFlag \/ Opening \/ Closing
  \/ Unit \/ EscapeOnly \/ EscapedByte \/ CrcByte

(* Without a fault the receiver is in a frame when the sender is. *)
InStep ==
  faults = 0 =>
    /\ ~dead
    /\ frame.decoding <=> Busy /\ ~OpeningFlag
    /\ Resting \/ phase # "idle" \/ Closing

(* The messages whose frames are over. *)
Over == IF Busy THEN Len(sent) - 1 ELSE Len(sent)

LinkConsistent ==
  /\ TypeOK
  /\ Busy => sent # <<>>
  /\ sent # <<>> => index <= Len(Current)
  /\ ~dead => ~frame.failed
  /\ AreOfFirst(received, Over, sent)
  /\ Finished(Over)
  /\ Situation
  /\ InStep
-----------------------------------------------------------------------------
(* The codec *)

(* The CRC of a message is a byte that goes on the wire as it is. *)
LEMMA PlainCrcBytes ==
  ASSUME UartLinkAssumption, PlainCrcs
  PROVE  \A p \in Payloads : CalculateCrc(p) \in Byte \ Special
<1> SUFFICES ASSUME NEW p \in Payloads
             PROVE  CalculateCrc(p) \in Byte \ Special
  OBVIOUS
<1>1. p \in Seq(Byte)
  BY DEF UartLinkAssumption
<1>2. CalculateCrc(p) \in Byte
  BY <1>1, CrcOf
<1> QED  BY <1>2 DEF PlainCrcs

(* The next flag ends the frame: it gives back the message, or fails. *)
LEMMA FlagEnds ==
  ASSUME PlainCrcs, PartsAreNoFrames, UartLinkAssumption,
         NEW m \in Payloads,
         NEW f \in Frame, f.decoding, ~f.failed, Part(m, f.data)
  PROVE  LET g == DecodeByte(f, FLAG)
         IN  ~g.decoding /\ (g.failed \/ g.data = m)
<1>1. /\ m \in Seq(Byte) \ {<<>>} /\ Crc(m) \in Byte
      /\ \A k \in 1..Len(m) - 1 : m[k + 1] # Crc(SubSeq(m, 1, k))
  BY PlainCrcBytes DEF UartLinkAssumption, PartsAreNoFrames, Crc
<1>2. CASE \E n \in 0..Len(m) : f.data = SubSeq(m, 1, n)
  BY <1>1, <1>2, FlagRejects
<1>3. CASE f.data = Append(m, Crc(m)) /\ ~f.escape
  BY <1>1, <1>3, FlagAccepts
<1>4. CASE f.escape
  <2>1. DecodeByte(f, FLAG)
          = Throw([f EXCEPT !.decoding = FALSE, !.escape = FALSE])
    BY <1>4 DEF DecodeByte, Unescape
  <2> QED  BY <2>1 DEF Throw, Frame
<1> QED  BY <1>2, <1>3, <1>4 DEF Part

-----------------------------------------------------------------------------
(* The order of the messages *)

(* Messages of the first m are messages of the first n. *)
LEMMA OfMore ==
  ASSUME NEW some, NEW all, NEW m \in Int, NEW n \in Int, m <= n,
         AreOfFirst(some, m, all)
  PROVE  AreOfFirst(some, n, all)
<1>1. PICK origin \in [DOMAIN some -> 1..m] :
        /\ \A i \in DOMAIN some : some[i] = all[origin[i]]
        /\ \A i, j \in DOMAIN some : i < j => origin[i] < origin[j]
  BY DEF AreOfFirst
<1>2. origin \in [DOMAIN some -> 1..n]
  BY <1>1
<1> QED  BY <1>1, <1>2 DEF AreOfFirst

(* They stay so when one more message is sent. *)
LEMMA OfLonger ==
  ASSUME NEW some, NEW all \in Seq(Payloads), NEW m \in Payloads,
         NEW n \in Int, n <= Len(all), AreOfFirst(some, n, all)
  PROVE  AreOfFirst(some, n, Append(all, m))
<1>1. PICK origin \in [DOMAIN some -> 1..n] :
        /\ \A i \in DOMAIN some : some[i] = all[origin[i]]
        /\ \A i, j \in DOMAIN some : i < j => origin[i] < origin[j]
  BY DEF AreOfFirst
<1>2. \A i \in 1..n : Append(all, m)[i] = all[i]
  BY AppendProperties, LenProperties
<1>3. \A i \in DOMAIN some : some[i] = Append(all, m)[origin[i]]
  BY <1>1, <1>2
<1> QED  BY <1>1, <1>3 DEF AreOfFirst

(* The n-th message after messages of those before it. *)
LEMMA OfNext ==
  ASSUME NEW S, NEW some \in Seq(S), NEW all \in Seq(S),
         NEW n \in 1..Len(all), AreOfFirst(some, n - 1, all)
  PROVE  AreOfFirst(Append(some, all[n]), n, all)
<1> DEFINE more == Append(some, all[n])
<1>1. PICK origin \in [DOMAIN some -> 1..n - 1] :
        /\ \A i \in DOMAIN some : some[i] = all[origin[i]]
        /\ \A i, j \in DOMAIN some : i < j => origin[i] < origin[j]
  BY DEF AreOfFirst
<1>2. /\ Len(some) \in Nat /\ Len(all) \in Nat
      /\ DOMAIN some = 1..Len(some)
      /\ all[n] \in S
  BY LenProperties, ElementOfSeq
<1>3. /\ DOMAIN more = 1..Len(some) + 1
      /\ \A i \in 1..Len(some) : more[i] = some[i]
      /\ more[Len(some) + 1] = all[n]
  BY <1>2, AppendProperties, LenProperties
<1> HIDE DEF more
<1> DEFINE further == [i \in 1..Len(some) + 1 |->
                         IF i = Len(some) + 1 THEN n ELSE origin[i]]
<1>4. further \in [DOMAIN more -> 1..n]
  BY <1>1, <1>2, <1>3
<1>5. \A i \in DOMAIN more : more[i] = all[further[i]]
  BY <1>1, <1>2, <1>3
<1>6. \A i, j \in DOMAIN more : i < j => further[i] < further[j]
  BY <1>1, <1>2, <1>3
<1> QED  BY <1>4, <1>5, <1>6 DEF AreOfFirst, more

-----------------------------------------------------------------------------
(* The sender *)

(* A message on its way is one of the payloads. *)
LEMMA CurrentIs ==
  ASSUME UartLinkAssumption, TypeOK, sent # <<>>
  PROVE  /\ Len(sent) \in Nat \ {0}
         /\ Current \in Payloads
         /\ Current \in Seq(Byte) \ {<<>>}
         /\ Len(Current) \in Nat \ {0}
         /\ \A i \in 1..Len(Current) : Current[i] \in Byte
<1>1. sent \in Seq(Payloads) /\ Len(sent) \in Nat \ {0}
  BY EmptySeq DEF TypeOK
<1>2. Current \in Payloads
  BY <1>1, ElementOfSeq DEF Current
<1>3. Current \in Seq(Byte) \ {<<>>}
  BY <1>2 DEF UartLinkAssumption
<1> QED  BY <1>1, <1>2, <1>3, EmptySeq, ElementOfSeq

(* With nothing on the wire the phase tells the situation. *)
LEMMA WireIsEmpty ==
  ASSUME UartLinkAssumption, LinkConsistent, wire = <<>>
  PROVE  /\ phase = "idle" => Resting
         /\ phase = "data" => BeforeByte
         /\ phase = "end" => BeforeFlag
<1>1. <<FLAG>> # <<>> /\ <<ESCAPE>> # <<>>
  OBVIOUS
<1>2. Unit => FALSE
  BY DEF Unit, EncodeUnit
<1>3. EscapedByte => FALSE
  BY DEF EscapedByte
<1>4. CrcByte => FALSE
  BY DEF CrcByte, EncodeCrc
<1>5. Resting \/ BeforeByte \/ BeforeFlag
  BY <1>1, <1>2, <1>3, <1>4 DEF LinkConsistent, Situation, Opening,
     OpeningFlag, Closing, EscapeOnly
<1> QED  BY <1>5 DEF Resting, BeforeByte, BeforeFlag

(* Every step keeps the types. *)
LEMMA TypeStep ==
  ASSUME UartLinkAssumption, PlainCrcs, LinkConsistent, [Next]_vars
  PROVE  TypeOK'
<1> USE DEF TypeOK
<1>0. TypeOK
  BY DEF LinkConsistent
<1>f. FLAG \in Byte /\ <<FLAG>> \in Seq(Byte) /\ <<>> \in Seq(Byte)
  BY DEF FLAG, Byte
<1>e. /\ EmptyFrame \in Frame
      /\ ~EmptyFrame.decoding /\ ~EmptyFrame.escape
  BY <1>f DEF EmptyFrame, Frame
<1>1. CASE \E message \in Payloads : Begin(message)
  <2>1. PICK message \in Payloads : Begin(message)
    BY <1>1
  <2>2. sent' \in Seq(Payloads)
    BY <1>0, <2>1 DEF Begin
  <2> QED  BY <1>0, <1>f, <2>1, <2>2 DEF Begin, receiverVars
<1>2. CASE WriteByte
  <2>1. sent # <<>> /\ index \in Nat /\ index + 1 \in 1..Len(Current)
    <3>1. sent # <<>>
      BY <1>2 DEF WriteByte, LinkConsistent, Busy
    <3> QED  BY <1>0, <1>2, <3>1, CurrentIs DEF WriteByte
  <2>2. Current[index + 1] \in Byte
    BY <1>0, <2>1, CurrentIs
  <2>3. EncodeUnit(Current[index + 1]) \in Seq(Byte)
    <3>1. ESCAPE \in Byte
      BY DEF ESCAPE, Byte
    <3>2. CASE EncodeUnit(Current[index + 1]) = <<Current[index + 1]>>
      <4> DEFINE b == Current[index + 1]
      <4>1. b \in Byte /\ EncodeUnit(b) = <<b>>
        BY <2>2, <3>2
      <4> HIDE DEF b
      <4>2. <<b>> \in Seq(Byte)
        BY <4>1
      <4> QED  BY <4>1, <4>2 DEF b
    <3>3. CASE /\ EncodeUnit(Current[index + 1])
                   = <<ESCAPE, EncodeByte(Current[index + 1])>>
               /\ EncodeByte(Current[index + 1]) \in Byte
      BY <3>1, <3>3
    <3> QED  BY <2>2, <3>2, <3>3, UnitOf
  <2> QED  BY <1>0, <1>2, <2>1, <2>3 DEF WriteByte, receiverVars
<1>3. CASE WriteCrc
  <2>1. sent # <<>>
    BY <1>3 DEF WriteCrc, LinkConsistent, Busy
  <2>2. CalculateCrc(Current) \in Byte \ Special
    BY <1>0, <2>1, CurrentIs, PlainCrcBytes
  <2>3. EncodeCrc(Current) \in Seq(Byte)
    BY <2>2 DEF EncodeCrc, EncodeByte
  <2> QED  BY <1>0, <1>3, <2>3 DEF WriteCrc, receiverVars
<1>4. CASE WriteFlag
  BY <1>0, <1>4, <1>f DEF WriteFlag, receiverVars
<1>5. CASE WriteCutShort
  <2>1. PICK n \in 0..Len(wire) : wire' = SubSeq(wire, 1, n)
    BY <1>5 DEF WriteCutShort
  <2>2. Len(wire) \in Nat /\ \A i \in 1..n : wire[i] \in Byte
    BY <1>0, ElementOfSeq, LenProperties
  <2>3. wire' \in Seq(Byte)
    BY <2>1, <2>2, SubSeqProperties
  <2> QED  BY <1>0, <1>5, <2>3 DEF WriteCutShort, receiverVars
<1>6. CASE ReadByte
  <2>1. Head(wire) \in Byte /\ wire' \in Seq(Byte)
    BY <1>0, <1>6, HeadTailProperties DEF ReadByte
  <2>2. /\ frame' \in Frame
        /\ IF frame'.decoding THEN frame'.crc = -1 ELSE ~frame'.escape
    BY <1>0, <1>6, <2>1, DecodeByteType DEF ReadByte
  <2>3. dead' \in BOOLEAN
    BY <1>6, <2>2 DEF ReadByte, Frame
  <2> QED  BY <1>0, <1>6, <2>1, <2>2, <2>3 DEF ReadByte, senderVars
<1>7. ASSUME EndWindow, UNCHANGED <<senderVars, wire>>, faults' \in Nat
      PROVE  TypeOK'
  <2>1. CASE Complete(frame)
    <3>1. frame.data \in Seq(Byte)
      BY <1>0 DEF Frame
    <3>2. received' \in Seq(Seq(Byte)) /\ frame' = EmptyFrame /\ dead' = dead
      <4>1. /\ received' \in {received, Append(received, frame.data)}
            /\ frame' = EmptyFrame /\ dead' = dead
        BY <1>7, <2>1 DEF EndWindow
      <4>2. Append(received, frame.data) \in Seq(Seq(Byte))
        BY <1>0, <3>1, AppendProperties
      <4> QED  BY <1>0, <4>1, <4>2
    <3> QED  BY <1>0, <1>7, <1>e, <3>2 DEF senderVars
  <2>2. CASE ~Complete(frame)
    <3>1. frame' = frame /\ received' = received /\ dead' = TRUE
      BY <1>7, <2>2 DEF EndWindow
    <3> QED  BY <1>0, <1>7, <3>1 DEF senderVars
  <2> QED  BY <2>1, <2>2
<1>8. CASE ReadTimesOut
  BY <1>0, <1>7, <1>8 DEF ReadTimesOut, senderVars
<1>9. CASE ReadTimesOutEarly
  BY <1>0, <1>7, <1>9 DEF ReadTimesOutEarly, senderVars
<1>10. CASE Relisten
  BY <1>0, <1>10, <1>e DEF Relisten, senderVars
<1>11. CASE UNCHANGED vars
  BY <1>0, <1>11 DEF vars
<1> QED  BY <1>1, <1>2, <1>3, <1>4, <1>5, <1>6, <1>8, <1>9, <1>10, <1>11
         DEF Next, Sender, Receiver

(* A message sent: its opening flag may find a frame that was cut short. *)
LEMMA BeginConsistent ==
  ASSUME UartLinkAssumption, PlainCrcs, LinkConsistent,
         NEW message \in Payloads, Begin(message)
  PROVE  LinkConsistent'
<1>0. TypeOK /\ TypeOK'
  <2>1. Next
    BY DEF Next, Sender
  <2> QED  BY <2>1, TypeStep DEF LinkConsistent
<1>1. /\ wire = <<>> /\ phase = "idle"
      /\ wire' = <<FLAG>> /\ phase' = "data" /\ index' = 0
      /\ sent' = Append(sent, message)
      /\ received' = received /\ frame' = frame /\ faults' = faults
  BY DEF Begin, receiverVars
<1>2. dead' = dead
  BY DEF Begin, receiverVars
<1>3. /\ sent \in Seq(Payloads) /\ Len(sent) \in Nat
      /\ Len(sent') = Len(sent) + 1
      /\ sent' # <<>>
      /\ \A i \in 1..Len(sent) : sent'[i] = sent[i]
      /\ Current' = message
  <2>1. sent \in Seq(Payloads) /\ Len(sent) \in Nat
    BY <1>0, LenProperties DEF TypeOK
  <2>2. /\ Len(sent') = Len(sent) + 1
        /\ sent' # <<>>
        /\ \A i \in 1..Len(sent) : sent'[i] = sent[i]
        /\ sent'[Len(sent) + 1] = message
    BY <1>1, <2>1, AppendProperties
  <2> QED  BY <2>1, <2>2 DEF Current
<1>4. Len(Current') \in Nat
  BY <1>3 DEF UartLinkAssumption
<1>5. Resting /\ ~Busy /\ Over = Len(sent)
  BY <1>1, WireIsEmpty DEF Busy, Over
<1>6. <<FLAG>> # <<>> /\ Busy' /\ Over' = Len(sent) /\ OpeningFlag'
  BY <1>1, <1>3 DEF Busy, Over, OpeningFlag
<1>7. AreOfFirst(received', Over', sent')
  <2>1. AreOfFirst(received, Len(sent), sent)
    BY <1>5 DEF LinkConsistent
  <2> QED  BY <1>1, <1>3, <1>6, <2>1, OfLonger
<1>8. ASSUME NEW i \in 1..Len(sent), AreOfFirst(received, i - 1, sent)
      PROVE  AreOfFirst(received', i - 1, sent')
  BY <1>1, <1>3, <1>8, OfLonger
<1>9. Finished(Over)'
  <2>1. SUFFICES ASSUME ~dead', ~frame'.decoding, frame'.data # <<>>
                 PROVE  \E i \in 1..Over' :
                          /\ frame'.data = sent'[i]
                          /\ AreOfFirst(received', i - 1, sent')
    BY DEF Finished
  <2>2. PICK i \in 1..Len(sent) : /\ frame.data = sent[i]
                                  /\ AreOfFirst(received, i - 1, sent)
    BY <1>1, <1>2, <1>5, <2>1 DEF LinkConsistent, Finished
  <2> QED  BY <1>1, <1>3, <1>6, <1>8, <2>2
<1>10. Unfinished(Len(sent) - 1)'
  <2>1. SUFFICES ASSUME ~dead', frame'.decoding
                 PROVE  \E i \in 1..Len(sent') - 1 :
                          /\ Part(sent'[i], frame'.data)
                          /\ AreOfFirst(received', i - 1, sent')
    BY DEF Unfinished
  <2>2. PICK i \in 1..Len(sent) : /\ Part(sent[i], frame.data)
                                  /\ AreOfFirst(received, i - 1, sent)
    BY <1>1, <1>2, <1>5, <2>1 DEF Resting, Unfinished
  <2> QED  BY <1>1, <1>3, <1>8, <2>2
<1>11. Situation'
  BY <1>1, <1>6, <1>10 DEF Situation, Opening
<1>12. InStep'
  <2>1. SUFFICES ASSUME faults = 0 PROVE InStep'
    BY <1>1 DEF InStep
  <2>2. ~dead /\ ~frame.decoding
    BY <1>5, <2>1 DEF LinkConsistent, InStep
  <2> QED  BY <1>1, <1>2, <1>6, <2>2 DEF InStep
<1>13. ~dead' => ~frame'.failed
  BY <1>1, <1>2 DEF LinkConsistent
<1>14. index' <= Len(Current')
  BY <1>1, <1>4
<1> QED  BY <1>0, <1>3, <1>7, <1>9, <1>11, <1>12, <1>13, <1>14
         DEF LinkConsistent

(* What was received, and a frame that is finished, stay what they are as  *)
(* long as nothing is sent or received and no frame gets finished.         *)
LEMMA OrderKept ==
  ASSUME UartLinkAssumption, LinkConsistent,
         sent' = sent, received' = received, Over <= Over',
         ~dead' /\ ~frame'.decoding /\ frame'.data # <<>> =>
           ~dead /\ ~frame.decoding /\ frame.data = frame'.data
  PROVE  AreOfFirst(received, Over, sent)' /\ Finished(Over)'
<1>1. Len(sent) \in Nat /\ Over \in Int /\ Over' \in Int
  BY LenProperties DEF LinkConsistent, TypeOK, Over
<1>2. AreOfFirst(received, Over, sent)'
  BY <1>1, OfMore DEF LinkConsistent
<1>3. Finished(Over)'
  <2>1. SUFFICES ASSUME ~dead', ~frame'.decoding, frame'.data # <<>>
                 PROVE  \E i \in 1..Over' :
                          /\ frame'.data = sent'[i]
                          /\ AreOfFirst(received', i - 1, sent')
    BY DEF Finished
  <2>2. PICK i \in 1..Over : /\ frame'.data = sent[i]
                             /\ AreOfFirst(received, i - 1, sent)
    BY <2>1 DEF LinkConsistent, Finished
  <2> QED  BY <1>1, <2>2
<1> QED  BY <1>2, <1>3

(* The part of its message that the receiver has. *)
LEMMA PartOfCurrent ==
  ASSUME UartLinkAssumption, LinkConsistent, Busy,
         ~dead /\ frame.decoding => Part(Current, frame.data)
  PROVE  Unfinished(Len(sent))
<1>1. Len(sent) \in Nat \ {0}
  BY CurrentIs DEF LinkConsistent
<1>2. AreOfFirst(received, Len(sent) - 1, sent)
  BY DEF LinkConsistent, Over
<1> QED  BY <1>1, <1>2 DEF Unfinished, Current

(* Each first part of a message is one, and so is the whole with its CRC. *)
LEMMA PartsAre ==
  ASSUME NEW m \in Seq(Byte)
  PROVE  /\ \A n \in 0..Len(m) : Part(m, SubSeq(m, 1, n))
         /\ Part(m, <<>>) /\ Part(m, m)
         /\ Part(m, Append(m, Crc(m)))
<1>1. Len(m) \in Nat
  BY LenProperties
<1>2. SubSeq(m, 1, 0) = <<>>
  BY SubSeqEmpty
<1>3. SubSeq(m, 1, Len(m)) = m
  BY SubSeqFull
<1>4. \A n \in 0..Len(m) : Part(m, SubSeq(m, 1, n))
  BY DEF Part
<1>5. Part(m, <<>>) /\ Part(m, m)
  <2>1. 0 \in 0..Len(m) /\ Len(m) \in 0..Len(m)
    BY <1>1
  <2> QED  BY <1>2, <1>3, <1>4, <2>1
<1> QED  BY <1>4, <1>5 DEF Part

(* The rest of a frame is written in order. *)
LEMMA WriteConsistent ==
  ASSUME UartLinkAssumption, PlainCrcs, LinkConsistent,
         WriteByte \/ WriteCrc \/ WriteFlag
  PROVE  LinkConsistent'
<1>0. TypeOK /\ TypeOK'
  <2>1. Next
    BY DEF Next, Sender
  <2> QED  BY <2>1, TypeStep DEF LinkConsistent
<1>1. /\ sent' = sent /\ received' = received /\ frame' = frame
      /\ faults' = faults /\ wire = <<>>
  BY DEF WriteByte, WriteCrc, WriteFlag, receiverVars
<1>2. dead' = dead
  BY DEF WriteByte, WriteCrc, WriteFlag, receiverVars
<1>3. Busy /\ sent # <<>> /\ Current' = Current /\ index <= Len(Current)
  <2>1. phase # "idle"
    BY DEF WriteByte, WriteCrc, WriteFlag
  <2> QED  BY <1>1, <2>1 DEF Busy, Current, LinkConsistent
<1>4. /\ Len(sent) \in Nat \ {0}
      /\ Current \in Payloads /\ Current \in Seq(Byte)
      /\ Len(Current) \in Nat \ {0}
      /\ index \in Nat
  BY <1>0, <1>3, CurrentIs DEF TypeOK
<1>5. CASE WriteByte
  <2>1. /\ BeforeByte /\ phase' = "data" /\ index < Len(Current)
        /\ index' = index + 1
        /\ wire' = EncodeUnit(Current[index + 1])
    BY <1>5, WireIsEmpty DEF WriteByte
  <2>2. Busy' /\ Over' = Over
    BY <1>1, <1>3, <2>1 DEF Busy, Over
  <2>3. index' - 1 = index /\ index' > 0 /\ index' <= Len(Current)
    BY <1>4, <2>1
  <2>4. Unit'
    BY <1>1, <1>2, <1>3, <2>1, <2>3 DEF Unit, BeforeByte, Has
  <2>5. InStep'
    <3>1. ~OpeningFlag' /\ ~OpeningFlag
      BY <1>1, <2>3 DEF OpeningFlag
    <3> QED  BY <1>1, <1>2, <1>3, <2>1, <2>2, <3>1 DEF InStep, LinkConsistent
  <2>6. AreOfFirst(received, Over, sent)' /\ Finished(Over)'
    <3>1. Over <= Over'
      BY <1>3, <1>4, <2>2 DEF Over
    <3> QED  BY <1>1, <1>2, <3>1, OrderKept
  <2> QED  BY <1>0, <1>1, <1>2, <1>3, <2>3, <2>4, <2>5, <2>6
           DEF LinkConsistent, Situation
<1>6. CASE WriteCrc
  <2>1. /\ BeforeByte /\ phase' = "end" /\ index = Len(Current)
        /\ index' = index
        /\ wire' = EncodeCrc(Current)
    BY <1>6, WireIsEmpty DEF WriteCrc
  <2>2. Busy' /\ Over' = Over
    BY <1>1, <1>3, <2>1 DEF Busy, Over
  <2>3. SubSeq(Current, 1, index) = Current
    BY <1>4, <2>1, SubSeqFull
  <2>4. CrcByte'
    BY <1>1, <1>2, <1>3, <2>1, <2>3 DEF CrcByte, BeforeByte, Has
  <2>5. InStep'
    <3>1. ~OpeningFlag' /\ ~OpeningFlag
      BY <1>1, <1>4, <2>1 DEF OpeningFlag
    <3> QED  BY <1>1, <1>2, <1>3, <2>1, <2>2, <3>1 DEF InStep, LinkConsistent
  <2>6. AreOfFirst(received, Over, sent)' /\ Finished(Over)'
    <3>1. Over <= Over'
      BY <1>3, <1>4, <2>2 DEF Over
    <3> QED  BY <1>1, <1>2, <3>1, OrderKept
  <2> QED  BY <1>0, <1>1, <1>2, <1>3, <2>1, <2>4, <2>5, <2>6
           DEF LinkConsistent, Situation
<1>7. CASE WriteFlag
  <2>1. /\ BeforeFlag /\ phase' = "idle" /\ index' = index
        /\ wire' = <<FLAG>>
    BY <1>7, WireIsEmpty DEF WriteFlag
  <2>2. Busy' /\ Over' = Over
    BY <1>1, <1>3, <2>1 DEF Busy, Over
  <2>4. Closing'
    BY <1>1, <1>2, <1>3, <2>1 DEF Closing, BeforeFlag, Has
  <2>5. InStep'
    <3>1. ~OpeningFlag' /\ ~OpeningFlag
      BY <1>1, <1>4, <2>1 DEF OpeningFlag, BeforeFlag
    <3> QED  BY <1>1, <1>2, <1>3, <2>1, <2>2, <2>4, <3>1
             DEF InStep, LinkConsistent
  <2>6. AreOfFirst(received, Over, sent)' /\ Finished(Over)'
    <3>1. Over <= Over'
      BY <1>3, <1>4, <2>2 DEF Over
    <3> QED  BY <1>1, <1>2, <3>1, OrderKept
  <2> QED  BY <1>0, <1>1, <1>2, <1>3, <2>1, <2>4, <2>5, <2>6
           DEF LinkConsistent, Situation
<1> QED  BY <1>5, <1>6, <1>7

(* Whatever a frame holds, it is a message, or a part of one. *)
LEMMA AlwaysPart ==
  ASSUME UartLinkAssumption, LinkConsistent
  PROVE  Unfinished(Len(sent))
<1>1. CASE Resting
  BY <1>1 DEF Resting
<1>2. ASSUME Busy, ~dead /\ frame.decoding => Part(Current, frame.data)
      PROVE  Unfinished(Len(sent))
  BY <1>2, PartOfCurrent
<1>3. ASSUME Busy
      PROVE  /\ Len(sent) \in Nat \ {0}
             /\ Current \in Seq(Byte)
             /\ Len(Current) \in Nat
             /\ index \in 0..Len(Current)
  BY <1>3, CurrentIs DEF LinkConsistent, TypeOK
<1>4. CASE BeforeByte
  <2>1. Busy
    BY <1>4 DEF BeforeByte, Busy
  <2>2. Part(Current, SubSeq(Current, 1, index))
    BY <1>3, <2>1, PartsAre
  <2> QED  BY <1>2, <1>4, <2>1, <2>2 DEF BeforeByte, Has
<1>5. CASE BeforeFlag \/ Closing
  <2>1. Busy
    BY <1>5 DEF BeforeFlag, Closing, Busy
  <2>2. Part(Current, Append(Current, Crc(Current)))
    BY <1>3, <2>1, PartsAre
  <2> QED  BY <1>2, <1>5, <2>1, <2>2 DEF BeforeFlag, Closing, Has
<1>6. CASE Opening
  <2>1. Busy
    BY <1>6 DEF Opening, OpeningFlag, Busy
  <2>2. Len(sent) \in Nat
    BY <1>3, <2>1
  <2> QED  BY <1>6, <2>2 DEF Opening, Unfinished
<1>7. CASE Unit \/ EscapeOnly \/ EscapedByte
  <2>1. Busy
    <3>1. EncodeUnit(Current[index]) # <<>>
      BY ShortSequences DEF EncodeUnit
    <3>2. wire # <<>>
      <4>1. \A byte : <<byte>> # <<>>
        BY ShortSequences
      <4> QED  BY <1>7, <3>1, <4>1, Zenon DEF Unit, EscapeOnly, EscapedByte
    <3> QED  BY <3>2 DEF Busy
  <2>2. index - 1 \in 0..Len(Current)
    BY <1>3, <1>7, <2>1 DEF Unit, EscapeOnly, EscapedByte
  <2>3. Part(Current, SubSeq(Current, 1, index - 1))
    BY <1>3, <2>1, <2>2, PartsAre
  <2> QED  BY <1>2, <1>7, <2>1, <2>3 DEF Unit, EscapeOnly, EscapedByte, Has,
         HasEscape
<1>8. CASE CrcByte
  <2>1. Busy
    BY <1>8 DEF CrcByte, Busy, EncodeCrc
  <2>2. Part(Current, Current)
    BY <1>3, <2>1, PartsAre
  <2> QED  BY <1>2, <1>8, <2>1, <2>2 DEF CrcByte, Has
<1> QED  BY <1>1, <1>4, <1>5, <1>6, <1>7, <1>8 DEF LinkConsistent, Situation

(* A write that is cut short leaves a part of the frame. *)
LEMMA CutConsistent ==
  ASSUME UartLinkAssumption, PlainCrcs, LinkConsistent, WriteCutShort
  PROVE  LinkConsistent'
<1>0. TypeOK /\ TypeOK'
  <2>1. Next
    BY DEF Next
  <2> QED  BY <2>1, TypeStep DEF LinkConsistent
<1>1. /\ sent' = sent /\ received' = received /\ frame' = frame
      /\ index' = index /\ phase # "idle" /\ phase' = "idle"
      /\ faults' = faults + 1
  BY DEF WriteCutShort, receiverVars
<1>2. dead' = dead
  BY DEF WriteCutShort, receiverVars
<1>3. PICK n \in 0..Len(wire) : wire' = SubSeq(wire, 1, n)
  BY DEF WriteCutShort
<1>4. Busy /\ sent # <<>> /\ Current' = Current /\ index <= Len(Current)
  BY <1>1 DEF Busy, Current, LinkConsistent
<1>5. /\ Len(sent) \in Nat \ {0}
      /\ Current \in Payloads /\ Current \in Seq(Byte)
      /\ Len(Current) \in Nat \ {0}
      /\ index \in Nat
      /\ wire \in Seq(Byte)
      /\ Len(wire) \in Nat
  BY <1>0, <1>4, CurrentIs, LenProperties DEF TypeOK
<1>6. AreOfFirst(received, Over, sent)' /\ Finished(Over)'
  <2>1. Over <= Over'
    BY <1>1, <1>4, <1>5 DEF Over
  <2> QED  BY <1>1, <1>2, <2>1, OrderKept
<1>7. InStep'
  BY <1>0, <1>1 DEF InStep, TypeOK
<1>8. CASE wire' = <<>>
  <2>1. Unfinished(Len(sent))'
    BY <1>1, <1>2, AlwaysPart DEF Unfinished
  <2> QED  BY <1>0, <1>1, <1>2, <1>4, <1>6, <1>7, <1>8, <2>1
           DEF LinkConsistent, Situation, Resting
<1>9. CASE wire' = wire /\ wire # <<>>
  <2>1. Situation'
    <3>1. CASE Opening
      <4>1. Unfinished(Len(sent) - 1)'
        BY <1>1, <1>2, <3>1 DEF Opening, Unfinished
      <4> QED  BY <1>1, <1>9, <3>1, <4>1 DEF Opening, OpeningFlag, Situation
    <3>2. CASE Unit
      <4>1. Unit'
        BY <1>1, <1>2, <1>4, <1>9, <3>2 DEF Unit, Has
      <4> QED  BY <4>1 DEF Situation
    <3>3. CASE EscapedByte
      <4>1. EscapedByte'
        BY <1>1, <1>2, <1>4, <1>9, <3>3 DEF EscapedByte, HasEscape
      <4> QED  BY <4>1 DEF Situation
    <3>4. CASE CrcByte
      <4>1. CrcByte'
        BY <1>1, <1>2, <1>4, <1>9, <3>4 DEF CrcByte, Has
      <4> QED  BY <4>1 DEF Situation
    <3> QED  BY <1>1, <1>9, <3>1, <3>2, <3>3, <3>4 DEF LinkConsistent,
             Situation, Resting, BeforeByte, BeforeFlag, Closing, EscapeOnly
  <2> QED  BY <1>0, <1>1, <1>2, <1>4, <1>6, <1>7, <2>1 DEF LinkConsistent
<1>10. CASE wire' # <<>> /\ wire' # wire
  <2>1. n \in 1..Len(wire) /\ n # Len(wire)
    <3>1. SubSeq(wire, 1, 0) = <<>>
      BY SubSeqEmpty
    <3>2. SubSeq(wire, 1, Len(wire)) = wire
      BY <1>5, SubSeqFull
    <3>3. n # 0
      BY <1>3, <1>10, <3>1
    <3>4. n # Len(wire)
      BY <1>3, <1>10, <3>2
    <3> QED  BY <1>5, <3>3, <3>4
  <2>2. Len(wire) >= 2 /\ wire # <<>>
    BY <1>5, <2>1
  <2>0. \A byte : wire # <<byte>>
    <3>1. SUFFICES ASSUME NEW byte, wire = <<byte>> PROVE FALSE
      OBVIOUS
    <3>2. Len(wire) = 1
      BY <3>1, ShortSequences
    <3> QED  BY <2>2, <3>2
  <2>3. Unit
    <3>2. ~Opening /\ ~Closing /\ ~EscapeOnly
      BY <2>0 DEF Opening, OpeningFlag, Closing, EscapeOnly
    <3>3. ~EscapedByte
      BY <2>0, Zenon DEF EscapedByte
    <3>4. ~CrcByte
      BY <2>0, Zenon DEF CrcByte, EncodeCrc
    <3>5. ~Resting /\ ~BeforeByte /\ ~BeforeFlag
      BY <2>2 DEF Resting, BeforeByte, BeforeFlag
    <3> QED  BY <3>2, <3>3, <3>4, <3>5 DEF LinkConsistent, Situation
  <2>4. Current[index] \in Byte
    BY <1>4, <1>5, <2>3, ElementOfSeq DEF Unit
  <2>5. wire = <<ESCAPE, EncodeByte(Current[index])>>
    <3>1. wire # <<Current[index]>>
      BY <2>0, Zenon
    <3>2. wire = EncodeUnit(Current[index])
      BY <2>3 DEF Unit
    <3> QED  BY <2>4, <3>1, <3>2, UnitOf, Zenon
  <2>6. wire' = <<ESCAPE>>
    <3>1. Len(wire) = 2 /\ wire[1] = ESCAPE
      BY <2>5
    <3>2. n = 1
      BY <2>1, <3>1
    <3>3. /\ Len(wire') = 1 /\ wire'[1] = ESCAPE /\ wire' \in Seq(Byte)
      <4>1. wire' = SubSeq(wire, 1, 1) /\ 1 \in 1..Len(wire) /\ wire \in Seq(Byte)
        BY <1>3, <1>5, <3>1, <3>2
      <4>2. /\ wire' \in Seq(Byte) /\ Len(wire') = 1
            /\ LastByte(wire') = wire[1]
        BY <4>1, LastOfPart
      <4> QED  BY <3>1, <4>2 DEF LastByte
    <3>4. <<ESCAPE>> \in Seq(Byte) /\ Len(<<ESCAPE>>) = 1 /\ <<ESCAPE>>[1] = ESCAPE
      BY DEF ESCAPE, Byte
    <3> HIDE DEF ESCAPE
    <3> QED  BY <3>3, <3>4, SeqEqual
  <2>7. EscapeOnly'
    BY <1>1, <1>2, <1>4, <2>3, <2>6 DEF EscapeOnly, Unit, Has
  <2> QED  BY <1>0, <1>1, <1>2, <1>4, <1>6, <1>7, <2>6, <2>7
           DEF LinkConsistent, Situation
<1> QED  BY <1>8, <1>9, <1>10

(* A receiver that is in no frame fits every situation. *)
LEMMA SituationWithoutFrame ==
  ASSUME LinkConsistent,
         sent' = sent, phase' = phase, index' = index, wire' = wire,
         ~(~dead' /\ frame'.decoding)
  PROVE  Situation'
<1>0. Current' = Current
  BY DEF Current
<1>1. /\ Resting => Resting'
      /\ Opening => Opening'
  BY DEF Resting, Opening, OpeningFlag, Unfinished
<1>2. /\ BeforeByte => BeforeByte'
      /\ BeforeFlag => BeforeFlag'
      /\ Closing => Closing'
  BY <1>0 DEF BeforeByte, BeforeFlag, Closing, Has
<1>3. Unit => Unit'
  BY <1>0 DEF Unit, Has
<1>4. EscapeOnly => EscapeOnly'
  BY <1>0 DEF EscapeOnly, Has
<1>5. EscapedByte => EscapedByte'
  BY <1>0 DEF EscapedByte, HasEscape
<1>6. CrcByte => CrcByte'
  BY <1>0 DEF CrcByte, Has
<1> QED  BY <1>1, <1>2, <1>3, <1>4, <1>5, <1>6 DEF LinkConsistent, Situation

(* The end of a window: a finished frame is a message that has not been    *)
(* received, an open one ends the listening loop.                          *)
LEMMA WindowConsistent ==
  ASSUME UartLinkAssumption, PlainCrcs, LinkConsistent,
         ReadTimesOut \/ ReadTimesOutEarly
  PROVE  LinkConsistent'
<1>0. TypeOK /\ TypeOK'
  <2>1. Next
    BY DEF Next, Receiver
  <2> QED  BY <2>1, TypeStep DEF LinkConsistent
<1>1. /\ EndWindow
      /\ sent' = sent /\ phase' = phase /\ index' = index /\ wire' = wire
  BY DEF ReadTimesOut, ReadTimesOutEarly, senderVars
<1>2. ~dead /\ wire = <<>>
  BY <1>1 DEF EndWindow
<1>3. /\ Busy' = Busy /\ Over' = Over /\ Current' = Current
      /\ OpeningFlag' = OpeningFlag
  BY <1>1 DEF Busy, Over, Current, OpeningFlag
<1>4. Over \in Int /\ Len(sent) \in Nat /\ Over <= Len(sent)
  BY <1>0, LenProperties DEF TypeOK, Over
<1>5. CASE Complete(frame)
  <2>1. /\ ~frame.decoding /\ ~frame.failed
        /\ frame' = EmptyFrame
        /\ received' = IF frame.data = <<>> THEN received
                       ELSE Append(received, frame.data)
    BY <1>1, <1>5 DEF EndWindow, Complete
  <2>2. dead' = dead
    BY <1>1, <1>5 DEF EndWindow
  <2>3. /\ ~frame'.decoding /\ frame'.data = <<>> /\ ~frame'.failed
    BY <2>1 DEF EmptyFrame
  <2>4. AreOfFirst(received, Over, sent)'
    <3>1. CASE frame.data = <<>>
      BY <1>1, <1>3, <2>1, <3>1 DEF LinkConsistent
    <3>2. CASE frame.data # <<>>
      <4>1. PICK i \in 1..Over : /\ frame.data = sent[i]
                                 /\ AreOfFirst(received, i - 1, sent)
        BY <1>2, <2>1, <3>2 DEF LinkConsistent, Finished
      <4>2. i \in 1..Len(sent)
        BY <1>4
      <4>3. sent \in Seq(Seq(Byte)) /\ received \in Seq(Seq(Byte))
        BY <1>0 DEF TypeOK, UartLinkAssumption
      <4>4. AreOfFirst(Append(received, sent[i]), i, sent)
        BY <4>1, <4>2, <4>3, OfNext
      <4>5. AreOfFirst(Append(received, sent[i]), Over, sent)
        BY <1>4, <4>4, OfMore
      <4> QED  BY <1>1, <1>3, <2>1, <3>2, <4>1, <4>5
    <3> QED  BY <3>1, <3>2
  <2>5. Finished(Over)'
    BY <2>3 DEF Finished
  <2>6. Situation'
    BY <1>1, <2>3, SituationWithoutFrame
  <2>7. InStep'
    <3>1. SUFFICES ASSUME faults' = 0 PROVE InStep'
      BY DEF InStep
    <3>2. faults = 0 /\ phase = "idle" /\ ~Busy
      BY <1>0, <1>2, <3>1 DEF ReadTimesOut, ReadTimesOutEarly, TypeOK, Busy
    <3>3. Resting'
      BY <1>1, <1>2, <2>3, <3>2 DEF Resting, Unfinished
    <3> QED  BY <1>2, <1>3, <2>1, <2>2, <2>3, <3>2, <3>3 DEF InStep
  <2> QED  BY <1>0, <1>1, <1>3, <2>3, <2>4, <2>5, <2>6, <2>7
           DEF LinkConsistent
<1>6. CASE ~Complete(frame)
  <2>1. dead' /\ frame' = frame /\ received' = received
    BY <1>1, <1>6 DEF EndWindow
  <2>2. AreOfFirst(received, Over, sent)' /\ Finished(Over)'
    BY <1>1, <1>3, <2>1 DEF LinkConsistent, Finished
  <2>3. Situation'
    BY <1>1, <2>1, SituationWithoutFrame
  <2>4. InStep'
    <3>1. SUFFICES ASSUME faults' = 0 PROVE FALSE
      BY DEF InStep
    <3>2. faults = 0 /\ phase = "idle" /\ ~Busy
      BY <1>0, <1>2, <3>1 DEF ReadTimesOut, ReadTimesOutEarly, TypeOK, Busy
    <3>3. ~frame.decoding /\ ~frame.failed
      BY <1>2, <3>2 DEF InStep, LinkConsistent
    <3> QED  BY <1>6, <3>3 DEF Complete
  <2> QED  BY <1>0, <1>1, <1>3, <2>1, <2>2, <2>3, <2>4 DEF LinkConsistent
<1> QED  BY <1>5, <1>6

(* A new loop begins with no frame, and only after a fault. *)
LEMMA RelistenConsistent ==
  ASSUME UartLinkAssumption, PlainCrcs, LinkConsistent, Relisten
  PROVE  LinkConsistent'
<1>0. TypeOK /\ TypeOK'
  <2>1. Next
    BY DEF Next, Receiver
  <2> QED  BY <2>1, TypeStep DEF LinkConsistent
<1>1. /\ sent' = sent /\ phase' = phase /\ index' = index /\ wire' = wire
      /\ received' = received /\ faults' = faults
      /\ frame' = EmptyFrame /\ dead
  BY DEF Relisten, senderVars
<1>2. ~frame'.decoding /\ frame'.data = <<>> /\ ~frame'.failed
  BY <1>1 DEF EmptyFrame
<1>3. Busy' = Busy /\ Over' = Over /\ Current' = Current
  BY <1>1 DEF Busy, Over, Current
<1>4. Situation'
  BY <1>1, <1>2, SituationWithoutFrame
<1>5. faults # 0
  BY <1>1 DEF LinkConsistent, InStep
<1> QED  BY <1>0, <1>1, <1>2, <1>3, <1>4, <1>5
         DEF LinkConsistent, InStep, Finished

-----------------------------------------------------------------------------
(* The receiver *)

(* What a read leaves alone. *)
LEMMA ReadKeeps ==
  ASSUME UartLinkAssumption, PlainCrcs, LinkConsistent, ReadByte
  PROVE  /\ TypeOK /\ TypeOK'
         /\ ~dead /\ ~frame.failed /\ wire # <<>> /\ Busy /\ sent # <<>>
         /\ sent' = sent /\ phase' = phase /\ index' = index
         /\ received' = received /\ faults' = faults
         /\ wire' = Tail(wire) /\ frame' = DecodeByte(frame, Head(wire))
         /\ dead' = frame'.failed
         /\ Current' = Current /\ Len(sent) \in Nat \ {0}
         /\ Current \in Payloads /\ Current \in Seq(Byte) \ {<<>>}
         /\ Len(Current) \in Nat \ {0} /\ index \in 0..Len(Current)
         /\ Over = Len(sent) - 1
         /\ Over' \in {Over, Len(sent)}
<1>1. TypeOK /\ TypeOK'
  <2>1. Next
    BY DEF Next, Receiver
  <2> QED  BY <2>1, TypeStep DEF LinkConsistent
<1>2. /\ ~dead /\ wire # <<>>
      /\ sent' = sent /\ phase' = phase /\ index' = index
      /\ received' = received /\ faults' = faults
      /\ wire' = Tail(wire) /\ frame' = DecodeByte(frame, Head(wire))
  BY DEF ReadByte, senderVars
<1>3. dead' = frame'.failed
  BY DEF ReadByte
<1>4. Busy /\ sent # <<>> /\ ~frame.failed /\ index <= Len(Current)
  BY <1>2 DEF Busy, LinkConsistent
<1>5. /\ Len(sent) \in Nat \ {0} /\ Current \in Payloads
      /\ Current \in Seq(Byte) \ {<<>>} /\ Len(Current) \in Nat \ {0}
  BY <1>1, <1>4, CurrentIs
<1>6. index \in 0..Len(Current)
  BY <1>1, <1>4, <1>5 DEF TypeOK
<1>7. Over = Len(sent) - 1 /\ Over' \in {Over, Len(sent)}
  BY <1>2, <1>4 DEF Over
<1>8. Current' = Current
  BY <1>2 DEF Current
<1> QED  BY <1>1, <1>2, <1>3, <1>4, <1>5, <1>6, <1>7, <1>8

(* A byte that is no flag takes the receiver further in its frame, if it   *)
(* is in one.                                                              *)
LEMMA ReadOn ==
  ASSUME UartLinkAssumption, PlainCrcs, LinkConsistent, ReadByte,
         wire # <<FLAG>>, wire' # <<FLAG>>, Situation',
         ~frame.decoding => frame' = frame,
         frame.decoding => frame'.decoding /\ ~frame'.failed
  PROVE  LinkConsistent'
<1>1. Over <= Over'
  BY ReadKeeps
<1>2. AreOfFirst(received, Over, sent)' /\ Finished(Over)'
  BY <1>1, ReadKeeps, OrderKept
<1>3. ~frame'.failed /\ ~dead'
  BY ReadKeeps
<1>4. InStep'
  <2>1. SUFFICES ASSUME faults = 0 PROVE InStep'
    BY ReadKeeps DEF InStep
  <2>2. frame.decoding /\ phase # "idle"
    BY <2>1, ReadKeeps DEF LinkConsistent, InStep, Resting, Closing, OpeningFlag
  <2>3. phase' # "idle" /\ Busy' /\ ~OpeningFlag'
    BY <2>2, ReadKeeps DEF Busy, OpeningFlag
  <2> QED  BY <1>3, <2>2, <2>3 DEF InStep
<1>5. index' <= Len(Current')
  BY ReadKeeps
<1> QED  BY <1>2, <1>3, <1>4, <1>5, ReadKeeps DEF LinkConsistent

(* Having read the last byte of a unit, the receiver has the first bytes   *)
(* of the message.                                                         *)
LEMMA UnitRead ==
  ASSUME UartLinkAssumption, PlainCrcs, LinkConsistent, ReadByte,
         phase \in {"data", "idle"}, wire' = <<>>,
         frame'.decoding =>
           /\ frame'.data = SubSeq(Current, 1, index)
           /\ ~frame'.escape
  PROVE  Situation'
<1>1. CASE phase = "data"
  BY <1>1, ReadKeeps DEF Situation, BeforeByte, Has
<1>2. CASE phase = "idle"
  <2>1. Part(Current, SubSeq(Current, 1, index))
    BY ReadKeeps, PartsAre
  <2>2. AreOfFirst(received, Len(sent) - 1, sent)
    BY ReadKeeps DEF LinkConsistent
  <2>3. Unfinished(Len(sent))'
    <3>1. /\ Len(sent) \in 1..Len(sent) /\ sent' = sent /\ received' = received
      BY ReadKeeps
    <3>2. frame'.decoding => Part(sent[Len(sent)], frame'.data)
      BY <2>1 DEF Current
    <3> QED  BY <2>2, <3>1, <3>2 DEF Unfinished
  <2> QED  BY <1>2, <2>3, ReadKeeps DEF Situation, Resting
<1> QED  BY <1>1, <1>2

(* The first byte of a unit, which may be the only one. *)
LEMMA UnitConsistent ==
  ASSUME UartLinkAssumption, PlainCrcs, LinkConsistent, ReadByte, Unit
  PROVE  LinkConsistent'
<1> DEFINE b == Current[index]
<1>1. /\ index \in 1..Len(Current) /\ b \in Byte
      /\ phase \in {"data", "idle"} /\ wire = EncodeUnit(b)
      /\ frame.decoding => /\ frame.data = SubSeq(Current, 1, index - 1)
                           /\ ~frame.escape
  BY ReadKeeps, ElementOfSeq DEF Unit, Has
<1>2. Append(SubSeq(Current, 1, index - 1), b) = SubSeq(Current, 1, index)
  BY <1>1, ReadKeeps, LastOfPart
<1>3. frame \in Frame
  BY ReadKeeps DEF TypeOK
<1> HIDE DEF b
<1>4. CASE b \notin Special
  <2>1. wire = <<b>>
    BY <1>1, <1>4, UnitOf, Zenon
  <2>2. Head(wire) = b /\ wire' = <<>>
    BY <2>1, ReadKeeps, ShortSequences
  <2>3. b # FLAG
    BY <1>4 DEF Special
  <2>4. /\ ~frame.decoding => frame' = frame
        /\ frame.decoding => /\ frame'.data = Append(frame.data, b)
                             /\ frame'.decoding /\ ~frame'.escape
                             /\ frame'.failed = frame.failed
    <3>1. frame' = DecodeByte(frame, b)
      BY <2>2, ReadKeeps
    <3> QED  BY <1>1, <1>3, <1>4, <2>3, <3>1, ReadsByte
  <2>5. Situation'
    BY <1>1, <1>2, <2>2, <2>4, UnitRead
  <2>6. wire # <<FLAG>> /\ wire' # <<FLAG>>
    BY <2>1, <2>2, <2>3, ShortSequences
  <2>7. frame.decoding => ~frame'.failed
    BY <2>4, ReadKeeps
  <2> QED  BY <2>4, <2>5, <2>6, <2>7, ReadOn
<1>5. CASE b \in Special
  <2>1. /\ wire = <<ESCAPE, EncodeByte(b)>>
        /\ EncodeByte(b) \in Byte \ Special
    BY <1>1, <1>5, UnitOf, Zenon
  <2>2. Head(wire) = ESCAPE /\ wire' = <<EncodeByte(b)>>
    BY <2>1, ReadKeeps, ShortSequences
  <2>3. ESCAPE # FLAG /\ ESCAPE \in Byte
    BY DEF ESCAPE, FLAG, Byte
  <2>4. /\ ~frame.decoding => frame' = frame
        /\ frame.decoding => /\ frame'.data = frame.data
                             /\ frame'.decoding /\ frame'.escape
                             /\ frame'.failed = frame.failed
    <3>1. frame' = DecodeByte(frame, ESCAPE)
      BY <2>2, ReadKeeps
    <3> QED  BY <1>1, <1>3, <2>3, <3>1, ReadsByte
  <2>5. Situation'
    <3>1. EscapedByte'
      BY <1>1, <1>5, <2>2, <2>4, ReadKeeps DEF EscapedByte, HasEscape, b
    <3> QED  BY <3>1 DEF Situation
  <2>6. wire # <<FLAG>> /\ wire' # <<FLAG>>
    <3>1. Len(wire) = 2 /\ Len(<<FLAG>>) = 1
      BY <2>1, ShortSequences
    <3>2. EncodeByte(b) # FLAG
      BY <2>1 DEF Special
    <3> QED  BY <2>2, <3>1, <3>2
  <2>7. frame.decoding => ~frame'.failed
    BY <2>4, ReadKeeps
  <2> QED  BY <2>4, <2>5, <2>6, <2>7, ReadOn
<1> QED  BY <1>4, <1>5

(* An escape that a cut write left alone. *)
LEMMA EscapeOnlyConsistent ==
  ASSUME UartLinkAssumption, PlainCrcs, LinkConsistent, ReadByte, EscapeOnly
  PROVE  LinkConsistent'
<1>1. /\ wire = <<ESCAPE>> /\ phase = "idle" /\ index \in 1..Len(Current)
      /\ frame.decoding => /\ frame.data = SubSeq(Current, 1, index - 1)
                           /\ ~frame.escape
  BY ReadKeeps DEF EscapeOnly, Has
<1>2. frame' = DecodeByte(frame, ESCAPE) /\ wire' = <<>>
  BY <1>1, ReadKeeps, ShortSequences
<1>3. ESCAPE # FLAG /\ ESCAPE \in Byte /\ frame \in Frame
  BY ReadKeeps DEF ESCAPE, FLAG, Byte, TypeOK
<1> HIDE DEF ESCAPE, FLAG
<1>4. /\ ~frame.decoding => frame' = frame
      /\ frame.decoding => /\ frame'.data = frame.data
                           /\ frame'.decoding
                           /\ frame'.failed = frame.failed
  BY <1>1, <1>2, <1>3, ReadsByte
<1>5. Situation'
  <2>1. index - 1 \in 0..Len(Current)
    BY <1>1, ReadKeeps
  <2>2. Part(Current, SubSeq(Current, 1, index - 1))
    BY <2>1, ReadKeeps, PartsAre
  <2>3. AreOfFirst(received, Len(sent) - 1, sent)
    BY ReadKeeps DEF LinkConsistent
  <2>4. Unfinished(Len(sent))'
    <3>1. /\ Len(sent) \in 1..Len(sent) /\ sent' = sent /\ received' = received
      BY ReadKeeps
    <3>2. frame'.decoding => Part(sent[Len(sent)], frame'.data)
      BY <1>1, <1>4, <2>2 DEF Current
    <3> QED  BY <2>3, <3>1, <3>2 DEF Unfinished
  <2> QED  BY <1>1, <1>2, <2>4, ReadKeeps DEF Situation, Resting
<1>6. wire # <<FLAG>> /\ wire' # <<FLAG>>
  BY <1>1, <1>2, <1>3, ShortSequences
<1>7. frame.decoding => frame'.decoding /\ ~frame'.failed
  BY <1>4, ReadKeeps
<1> QED  BY <1>4, <1>5, <1>6, <1>7, ReadOn

(* The byte behind its escape. *)
LEMMA EscapedByteConsistent ==
  ASSUME UartLinkAssumption, PlainCrcs, LinkConsistent, ReadByte, EscapedByte
  PROVE  LinkConsistent'
<1> DEFINE b == Current[index]
           t == EncodeByte(b)
<1>1. /\ index \in 1..Len(Current) /\ b \in Byte /\ b \in Special
      /\ phase \in {"data", "idle"} /\ wire = <<t>>
      /\ frame.decoding => /\ frame.data = SubSeq(Current, 1, index - 1)
                           /\ frame.escape
  BY ReadKeeps, ElementOfSeq DEF EscapedByte, HasEscape
<1>2. Append(SubSeq(Current, 1, index - 1), b) = SubSeq(Current, 1, index)
  BY <1>1, ReadKeeps, LastOfPart
<1>3. frame \in Frame
  BY ReadKeeps DEF TypeOK
<1> HIDE DEF b
<1>4. t \in Byte \ Special /\ Toggle(t) = b
  BY <1>1, UnitOf
<1> HIDE DEF t
<1>5. t # FLAG
  BY <1>4 DEF Special
<1>6. frame' = DecodeByte(frame, t) /\ wire' = <<>>
  BY <1>1, ReadKeeps, ShortSequences
<1>7. /\ ~frame.decoding => frame' = frame
      /\ frame.decoding => /\ frame'.data = Append(frame.data, b)
                           /\ frame'.decoding /\ ~frame'.escape
                           /\ frame'.failed = frame.failed
  BY <1>1, <1>3, <1>4, <1>5, <1>6, ReadsByte
<1>8. Situation'
  BY <1>1, <1>2, <1>6, <1>7, UnitRead
<1>9. wire # <<FLAG>> /\ wire' # <<FLAG>>
  BY <1>1, <1>5, <1>6, ShortSequences
<1>10. frame.decoding => ~frame'.failed
  BY <1>7, ReadKeeps
<1> QED  BY <1>7, <1>8, <1>9, <1>10, ReadOn

(* The CRC. *)
LEMMA CrcByteConsistent ==
  ASSUME UartLinkAssumption, PlainCrcs, LinkConsistent, ReadByte, CrcByte
  PROVE  LinkConsistent'
<1> DEFINE c == Crc(Current)
<1>0. c \in Byte \ Special
  BY ReadKeeps, PlainCrcBytes DEF Crc
<1>1. /\ wire = <<c>> /\ phase \in {"end", "idle"} /\ index = Len(Current)
      /\ frame.decoding => frame.data = Current /\ ~frame.escape
  <2>1. EncodeCrc(Current) = <<c>>
    BY <1>0 DEF EncodeCrc, EncodeByte, Crc
  <2> QED  BY <2>1, ReadKeeps DEF CrcByte, Has
<1>2. frame \in Frame
  BY ReadKeeps DEF TypeOK
<1>3. Part(Current, Append(Current, c))
  BY ReadKeeps, PartsAre
<1> HIDE DEF c
<1>4. c # FLAG
  BY <1>0 DEF Special
<1>5. frame' = DecodeByte(frame, c) /\ wire' = <<>>
  BY <1>1, ReadKeeps, ShortSequences
<1>6. /\ ~frame.decoding => frame' = frame
      /\ frame.decoding => /\ frame'.data = Append(frame.data, c)
                           /\ frame'.decoding /\ ~frame'.escape
                           /\ frame'.failed = frame.failed
  BY <1>0, <1>1, <1>2, <1>4, <1>5, ReadsByte
<1>7. Situation'
  <2>1. CASE phase = "end"
    <3>1. BeforeFlag'
      BY <1>1, <1>5, <1>6, <2>1, ReadKeeps DEF BeforeFlag, Has, c
    <3> QED  BY <3>1 DEF Situation
  <2>2. CASE phase = "idle"
    <3>1. AreOfFirst(received, Len(sent) - 1, sent)
      BY ReadKeeps DEF LinkConsistent
    <3>2. Unfinished(Len(sent))'
      <4>1. /\ Len(sent) \in 1..Len(sent) /\ sent' = sent
            /\ received' = received
        BY ReadKeeps
      <4>2. frame'.decoding => Part(sent[Len(sent)], frame'.data)
        BY <1>1, <1>3, <1>6 DEF Current
      <4> QED  BY <3>1, <4>1, <4>2 DEF Unfinished
    <3> QED  BY <1>5, <2>2, <3>2, ReadKeeps DEF Situation, Resting
  <2> QED  BY <1>1, <2>1, <2>2
<1>8. wire # <<FLAG>> /\ wire' # <<FLAG>>
  BY <1>1, <1>4, <1>5, ShortSequences
<1>9. frame.decoding => ~frame'.failed
  BY <1>6, ReadKeeps
<1> QED  BY <1>6, <1>7, <1>8, <1>9, ReadOn

(* The opening flag: it opens the frame, or ends the one that was still    *)
(* open, whose message, if it is whole, comes before this one.             *)
LEMMA OpeningConsistent ==
  ASSUME UartLinkAssumption, PlainCrcs, faults = 0 \/ PartsAreNoFrames,
         LinkConsistent, ReadByte, Opening
  PROVE  LinkConsistent'
<1>1. /\ wire = <<FLAG>> /\ index = 0 /\ phase \in {"data", "idle"}
      /\ OpeningFlag
  BY DEF Opening, OpeningFlag
<1>2. /\ frame' = DecodeByte(frame, FLAG) /\ wire' = <<>> /\ frame \in Frame
      /\ ~frame.decoding => ~frame.escape
  BY <1>1, ReadKeeps, ShortSequences DEF TypeOK
<1>3. Len(sent) \in Nat \ {0} /\ Over' \in {Len(sent) - 1, Len(sent)}
  BY ReadKeeps
<1>4. AreOfFirst(received, Over, sent)'
  <2>1. AreOfFirst(received, Len(sent) - 1, sent)
    BY ReadKeeps DEF LinkConsistent
  <2>2. AreOfFirst(received, Over', sent)
    BY <1>3, <2>1, OfMore
  <2> QED  BY <2>2, ReadKeeps
<1>5. wire' # <<FLAG>> /\ ~OpeningFlag'
  BY <1>2, ShortSequences DEF OpeningFlag
<1>6. index' <= Len(Current') /\ (Busy' => sent' # <<>>)
  BY ReadKeeps
<1>7. ~dead' => ~frame'.failed
  BY ReadKeeps
<1>8. CASE frame.decoding
  <2>1. PICK i \in 1..Len(sent) - 1 :
          Part(sent[i], frame.data) /\ AreOfFirst(received, i - 1, sent)
    BY <1>8, ReadKeeps DEF Opening, Unfinished
  <2>2. sent[i] \in Payloads
    BY <1>3, ReadKeeps, ElementOfSeq DEF TypeOK
  <2>3. ~frame'.decoding /\ (frame'.failed \/ frame'.data = sent[i])
    <3>1. PartsAreNoFrames
      BY <1>1, <1>8 DEF LinkConsistent, InStep
    <3> QED  BY <1>2, <1>8, <2>1, <2>2, <3>1, ReadKeeps, FlagEnds
  <2>4. Finished(Over)'
    <3>1. i \in 1..Over'
      BY <1>3
    <3> QED  BY <2>1, <2>3, <3>1, ReadKeeps DEF Finished
  <2>5. Situation'
    <3>1. CASE phase = "data"
      BY <1>2, <2>3, <3>1, ReadKeeps DEF Situation, BeforeByte, Has
    <3>2. CASE phase = "idle"
      BY <1>2, <2>3, <3>2, ReadKeeps DEF Situation, Resting, Unfinished
    <3> QED  BY <1>1, <3>1, <3>2
  <2>6. InStep'
    <3>1. faults # 0
      BY <1>1, <1>8 DEF LinkConsistent, InStep
    <3> QED  BY <3>1, ReadKeeps DEF InStep
  <2> QED  BY <1>4, <1>6, <1>7, <2>4, <2>5, <2>6, ReadKeeps
           DEF LinkConsistent
<1>9. CASE ~frame.decoding
  <2>1. /\ frame'.data = <<>> /\ frame'.decoding /\ ~frame'.escape
        /\ frame'.failed = frame.failed
    BY <1>2, <1>9, FlagOpens
  <2>2. Finished(Over)'
    BY <2>1 DEF Finished
  <2>3. Situation'
    <3>1. SubSeq(Current, 1, index) = <<>>
      BY <1>1, SubSeqEmpty
    <3> QED  BY <1>1, <1>2, <2>1, <3>1, UnitRead
  <2>4. InStep'
    <3>1. SUFFICES ASSUME faults = 0 PROVE InStep'
      BY ReadKeeps DEF InStep
    <3>2. phase # "idle"
      <4>1. ~Resting
        BY ReadKeeps DEF Resting
      <4>2. ~Closing
        BY <1>1, ReadKeeps DEF Closing
      <4> QED  BY <3>1, <4>1, <4>2 DEF LinkConsistent, InStep
    <3>3. phase' # "idle" /\ Busy'
      BY <3>2, ReadKeeps DEF Busy
    <3>4. ~dead'
      BY <2>1, ReadKeeps
    <3> QED  BY <1>5, <2>1, <3>3, <3>4 DEF InStep
  <2> QED  BY <1>4, <1>6, <1>7, <2>2, <2>3, <2>4, ReadKeeps
           DEF LinkConsistent
<1> QED  BY <1>8, <1>9

(* The closing flag: it finishes the frame, or opens one that nothing is   *)
(* sent in.                                                                *)
LEMMA ClosingConsistent ==
  ASSUME UartLinkAssumption, PlainCrcs, LinkConsistent, ReadByte, Closing
  PROVE  LinkConsistent'
<1>1. /\ wire = <<FLAG>> /\ index = Len(Current) /\ phase = "idle"
      /\ ~OpeningFlag
      /\ frame.decoding => /\ frame.data = Append(Current, Crc(Current))
                           /\ ~frame.escape
  BY ReadKeeps DEF Closing, OpeningFlag, Has
<1>2. /\ frame' = DecodeByte(frame, FLAG) /\ wire' = <<>> /\ frame \in Frame
      /\ ~frame.decoding => ~frame.escape
  BY <1>1, ReadKeeps, ShortSequences DEF TypeOK
<1>3. /\ Len(sent) \in Nat \ {0} /\ Len(sent) \in 1..Len(sent)
      /\ ~Busy' /\ Over' = Len(sent)
  BY <1>1, <1>2, ReadKeeps DEF Busy, Over
<1>4. AreOfFirst(received, Len(sent) - 1, sent)
  BY ReadKeeps DEF LinkConsistent
<1>5. AreOfFirst(received, Over, sent)'
  <2>1. AreOfFirst(received, Len(sent), sent)
    BY <1>3, <1>4, OfMore
  <2> QED  BY <1>3, <2>1, ReadKeeps
<1>6. index' <= Len(Current') /\ ~OpeningFlag'
  BY <1>1, ReadKeeps DEF OpeningFlag
<1>7. CASE frame.decoding
  <2>1. frame'.data = Current /\ ~frame'.decoding /\ ~frame'.failed
    <3>1. Crc(Current) \in Byte
      BY ReadKeeps, PlainCrcBytes DEF Crc
    <3> QED  BY <1>1, <1>2, <1>7, <3>1, ReadKeeps, FlagAccepts
  <2>2. Finished(Over)'
    BY <1>3, <1>4, <2>1, ReadKeeps DEF Finished, Current
  <2>3. Resting'
    BY <1>1, <1>2, <2>1, ReadKeeps DEF Resting, Unfinished
  <2>4. InStep'
    BY <1>3, <2>1, <2>3, <1>6, ReadKeeps DEF InStep
  <2> QED  BY <1>3, <1>5, <1>6, <2>1, <2>2, <2>3, <2>4, ReadKeeps
           DEF LinkConsistent, Situation
<1>8. CASE ~frame.decoding
  <2>1. /\ frame'.data = <<>> /\ frame'.decoding /\ ~frame'.escape
        /\ frame'.failed = frame.failed
    BY <1>2, <1>8, FlagOpens
  <2>2. Finished(Over)'
    BY <2>1 DEF Finished
  <2>3. Resting'
    <3>1. Part(Current, <<>>)
      BY ReadKeeps, PartsAre
    <3>2. Unfinished(Len(sent))'
      BY <1>3, <1>4, <2>1, <3>1, ReadKeeps DEF Unfinished, Current
    <3> QED  BY <1>1, <1>2, <3>2, ReadKeeps DEF Resting
  <2>4. InStep'
    <3>1. faults # 0
      BY <1>1, <1>8, ReadKeeps DEF LinkConsistent, InStep
    <3> QED  BY <3>1, ReadKeeps DEF InStep
  <2>5. ~frame'.failed
    BY <2>1, ReadKeeps
  <2> QED  BY <1>3, <1>5, <1>6, <2>2, <2>3, <2>4, <2>5, ReadKeeps
           DEF LinkConsistent, Situation
<1> QED  BY <1>7, <1>8

(* A byte is read in one of six situations. *)
LEMMA ReadConsistent ==
  ASSUME UartLinkAssumption, PlainCrcs, faults = 0 \/ PartsAreNoFrames,
         LinkConsistent, ReadByte
  PROVE  LinkConsistent'
<1>1. ~Resting /\ ~BeforeByte /\ ~BeforeFlag
  BY ReadKeeps DEF Resting, BeforeByte, BeforeFlag
<1> QED  BY <1>1, OpeningConsistent, ClosingConsistent, UnitConsistent,
            EscapeOnlyConsistent, EscapedByteConsistent, CrcByteConsistent
         DEF LinkConsistent, Situation

-----------------------------------------------------------------------------
(* The invariant *)

(* It holds at the beginning. *)
LEMMA InitConsistent ==
  ASSUME UartLinkAssumption, Init
  PROVE  LinkConsistent
<1>1. /\ sent = <<>> /\ received = <<>> /\ wire = <<>> /\ phase = "idle"
      /\ index = 0 /\ faults = 0 /\ frame = EmptyFrame /\ ~dead
      /\ dead \in BOOLEAN
  BY DEF Init
<1>2. /\ EmptyFrame \in Frame /\ EmptyFrame.data = <<>>
      /\ ~EmptyFrame.decoding /\ ~EmptyFrame.escape /\ ~EmptyFrame.failed
  BY EmptySeq DEF EmptyFrame, Frame
<1>3. TypeOK
  BY <1>1, <1>2 DEF TypeOK
<1>4. ~Busy /\ Over = 0 /\ ~OpeningFlag
  <2>1. Len(<<>>) = 0 /\ <<>> # <<FLAG>>
    OBVIOUS
  <2> QED  BY <1>1, <2>1 DEF Busy, Over, OpeningFlag
<1>5. AreOfFirst(received, Over, sent)
  <2> DEFINE origin == [i \in {} |-> 0]
  <2>1. DOMAIN received = {}
    BY <1>1
  <2>2. origin \in [DOMAIN received -> 1..Over]
    BY <2>1
  <2> QED  BY <2>1, <2>2 DEF AreOfFirst
<1>6. Finished(Over) /\ Resting
  BY <1>1, <1>2 DEF Finished, Resting, Unfinished
<1>7. InStep
  BY <1>1, <1>2, <1>4, <1>6 DEF InStep
<1> QED  BY <1>1, <1>2, <1>3, <1>4, <1>5, <1>6, <1>7
         DEF LinkConsistent, Situation

(* Every step keeps it. *)
LEMMA StepConsistent ==
  ASSUME UartLinkAssumption, PlainCrcs, faults = 0 \/ PartsAreNoFrames,
         LinkConsistent, [Next]_vars
  PROVE  LinkConsistent'
<1>1. CASE UNCHANGED vars
  <2>1. /\ sent' = sent /\ phase' = phase /\ index' = index /\ wire' = wire
        /\ frame' = frame /\ received' = received /\ faults' = faults
    BY <1>1 DEF vars
  <2>2. dead' = dead
    BY <1>1 DEF vars
  <2>3. /\ Busy' = Busy /\ Over' = Over /\ Current' = Current
        /\ OpeningFlag' = OpeningFlag
    BY <2>1 DEF Busy, Over, Current, OpeningFlag
  <2>4. Situation'
    BY <2>1, <2>2, <2>3 DEF LinkConsistent, Situation, Resting, BeforeByte,
       BeforeFlag, Opening, Closing, Unit, EscapeOnly, EscapedByte, CrcByte,
       Unfinished, Has, HasEscape
  <2>5. InStep'
    BY <2>1, <2>2, <2>3 DEF LinkConsistent, InStep, Resting, Closing,
       Unfinished, Has
  <2>6. TypeOK'
    BY TypeStep
  <2> QED  BY <2>1, <2>2, <2>3, <2>4, <2>5, <2>6
           DEF LinkConsistent, Finished
<1>2. CASE Next
  BY <1>2, BeginConsistent, WriteConsistent, CutConsistent, ReadConsistent,
     WindowConsistent, RelistenConsistent DEF Next, Sender, Receiver
<1> QED  BY <1>1, <1>2

(* Sender and receiver are always in one of the situations together, and   *)
(* what was received are messages that were sent, in their order.          *)
THEOREM ConsistentAlways ==
  ASSUME PlainCrcs, PartsAreNoFrames
  PROVE  Spec => []LinkConsistent
<1>1. Init => LinkConsistent
  BY UartLinkAssumption, InitConsistent
<1>2. LinkConsistent /\ [Next]_vars => LinkConsistent'
  BY UartLinkAssumption, StepConsistent
<1> QED  BY <1>1, <1>2, PTL DEF Spec

(* Each variable has its type, and the decoder's fields fit together. *)
THEOREM TypeCorrectness ==
  ASSUME PlainCrcs, PartsAreNoFrames
  PROVE  Spec => []TypeOK
<1>1. LinkConsistent => TypeOK
  BY DEF LinkConsistent
<1> QED  BY <1>1, ConsistentAlways, PTL

(* Whatever is cut short, late, merged or lost, receive() returns messages *)
(* that were sent, each at most once and in their order.                   *)
THEOREM DeliveryCorrectness ==
  ASSUME PlainCrcs, PartsAreNoFrames
  PROVE  Spec => []NothingInvented
<1>1. LinkConsistent => NothingInvented
  <2>1. SUFFICES ASSUME LinkConsistent PROVE NothingInvented
    OBVIOUS
  <2>2. /\ Len(sent) \in Nat /\ DOMAIN sent = 1..Len(sent)
        /\ Over \in Int /\ Over <= Len(sent)
    BY <2>1, LenProperties DEF LinkConsistent, TypeOK, Over
  <2>3. AreOfFirst(received, Len(sent), sent)
    BY <2>1, <2>2, OfMore DEF LinkConsistent
  <2> QED  BY <2>2, <2>3 DEF AreOfFirst, NothingInvented
<1> QED  BY <1>1, ConsistentAlways, PTL

-----------------------------------------------------------------------------
(* The line without a fault, whatever the messages look like *)

(* Until a fault the invariant needs no more than plain CRCs. *)
UntilFault == faults \in Nat /\ (faults = 0 => LinkConsistent)

(* The messages need only have CRCs that need no escape. *)
THEOREM ConsistentUntilFault ==
  ASSUME PlainCrcs
  PROVE  Spec => []UntilFault
<1>1. Init => UntilFault
  <2>1. Init => faults = 0
    BY DEF Init
  <2> QED  BY <2>1, UartLinkAssumption, InitConsistent DEF UntilFault
<1>2. UntilFault /\ [Next]_vars => UntilFault'
  <2>1. SUFFICES ASSUME UntilFault, [Next]_vars PROVE UntilFault'
    OBVIOUS
  <2>2. faults' \in {faults, faults + 1}
    BY <2>1 DEF Next, Sender, Receiver, Begin, WriteByte, WriteCrc, WriteFlag,
       WriteCutShort, ReadByte, ReadTimesOut, ReadTimesOutEarly, Relisten, vars
  <2>3. ASSUME faults' = 0 PROVE LinkConsistent'
    <3>1. faults = 0
      BY <2>1, <2>2, <2>3 DEF UntilFault
    <3> QED  BY <2>1, <3>1, UartLinkAssumption, StepConsistent DEF UntilFault
  <2> QED  BY <2>1, <2>2, <2>3 DEF UntilFault
<1> QED  BY <1>1, <1>2, PTL DEF Spec

(* receive() never throws as long as nothing goes wrong on the line. *)
THEOREM SurvivalCorrectness ==
  ASSUME PlainCrcs
  PROVE  Spec => []ReceiverSurvives
<1>1. UntilFault => ReceiverSurvives
  BY DEF UntilFault, LinkConsistent, InStep, ReceiverSurvives
<1> QED  BY <1>1, ConsistentUntilFault, PTL

-----------------------------------------------------------------------------
(* The line as a channel for messages *)

(* Sequences of at most two messages. *)
LEMMA FewMessages ==
  ASSUME NEW a, NEW b
  PROVE  /\ <<>> \o <<b>> = <<b>> /\ <<a>> \o <<>> = <<a>>
         /\ <<>> \o <<>> = <<>>
         /\ Append(<<>>, b) = <<b>> /\ Append(<<a>>, b) = <<a>> \o <<b>>
         /\ <<a>> \o <<b>> # <<>>
         /\ Head(<<a>> \o <<b>>) = a /\ Tail(<<a>> \o <<b>>) = <<b>>
<1> DEFINE S == {a, b}
<1>1. <<>> \in Seq(S) /\ <<a>> \in Seq(S) /\ <<b>> \in Seq(S)
  OBVIOUS
<1>2. /\ <<>> \o <<b>> = <<b>> /\ <<a>> \o <<>> = <<a>>
      /\ <<>> \o <<>> = <<>>
  BY <1>1, ConcatEmptySeq
<1>3. Append(<<>>, b) = <<b>> /\ Append(<<a>>, b) = <<a>> \o <<b>>
  BY <1>1, <1>2, AppendIsConcat
<1>4. Head(<<a>>) = a /\ Tail(<<a>>) = <<>> /\ <<a>> # <<>>
  BY ShortSequences
<1>5. /\ Head(Append(<<a>>, b)) = a
      /\ Tail(Append(<<a>>, b)) = Append(<<>>, b)
  BY <1>1, <1>4, HeadTailAppend
<1>6. Append(<<a>>, b) # <<>>
  BY <1>1, AppendProperties
<1> QED  BY <1>2, <1>3, <1>5, <1>6

(* Without a fault the frame that is read is the frame that is sent. *)
LEMMA FaultlessRead ==
  ASSUME UartLinkAssumption, PlainCrcs, LinkConsistent, LinkConsistent',
         ReadByte, faults = 0
  PROVE  /\ Sending = <<Current>>
         /\ \/ /\ OpeningFlag /\ ~frame.decoding
               /\ Decoded' = <<>> /\ Sending' = <<Current>>
            \/ /\ Decoded = <<>>
               /\ Decoded' \o Sending' = <<Current>>
<1>1. Sending = <<Current>>
  BY ReadKeeps DEF Sending, Busy
<1>2. InStep /\ InStep' /\ faults' = 0
  BY ReadKeeps DEF LinkConsistent
<1>3. CASE OpeningFlag
  <2>1. ~frame.decoding
    BY <1>2, <1>3 DEF InStep
  <2>2. frame' = DecodeByte(frame, FLAG) /\ frame \in Frame
    BY <1>3, ReadKeeps, ShortSequences DEF OpeningFlag, TypeOK
  <2>3. frame'.decoding
    BY <2>1, <2>2, FlagOpens
  <2>4. Busy'
    BY <1>2, <2>3 DEF InStep
  <2>5. Decoded' = <<>> /\ Sending' = <<Current>>
    BY <2>3, <2>4, ReadKeeps DEF Decoded, Sending, Busy
  <2> QED  BY <1>1, <1>3, <2>1, <2>5
<1>4. CASE ~OpeningFlag /\ Closing
  <2>1. frame.decoding
    BY <1>2, <1>4, ReadKeeps DEF InStep
  <2>2. /\ frame' = DecodeByte(frame, FLAG) /\ frame \in Frame
        /\ wire' = <<>> /\ phase' = "idle"
    BY <1>4, ReadKeeps, ShortSequences DEF Closing, TypeOK
  <2>3. frame.data = Append(Current, Crc(Current)) /\ ~frame.escape
    BY <1>4, <2>1, ReadKeeps DEF Closing, Has
  <2>4. frame'.data = Current /\ ~frame'.decoding
    <3>1. Crc(Current) \in Byte
      BY ReadKeeps, PlainCrcBytes DEF Crc
    <3> QED  BY <2>1, <2>2, <2>3, <3>1, ReadKeeps, FlagAccepts
  <2>5. Decoded' = <<Current>> /\ Sending' = <<>> /\ Decoded = <<>>
    BY <2>1, <2>2, <2>4, ReadKeeps DEF Decoded, Sending, Busy
  <2> QED  BY <1>1, <2>5, FewMessages
<1>5. CASE ~OpeningFlag /\ ~Closing
  <2>1. phase # "idle" /\ frame.decoding
    BY <1>2, <1>5, ReadKeeps DEF InStep, Resting
  <2>2. index # 0
    BY <1>5, ReadKeeps DEF LinkConsistent, Situation, Resting, BeforeByte,
       BeforeFlag, Opening, Unit, EscapeOnly, EscapedByte, CrcByte
  <2>3. Busy' /\ ~OpeningFlag'
    BY <2>1, <2>2, ReadKeeps DEF Busy, OpeningFlag
  <2>4. frame'.decoding
    BY <1>2, <2>3 DEF InStep
  <2>5. Decoded = <<>> /\ Decoded' = <<>> /\ Sending' = <<Current>>
    BY <2>1, <2>3, <2>4, ReadKeeps DEF Decoded, Sending, Busy
  <2> QED  BY <1>1, <2>5, FewMessages
<1> QED  BY <1>3, <1>4, <1>5

(* What the steps of a line without a fault are to the channel.  The frame *)
(* goes on: nothing, unless it meets the one before.                       *)
LEMMA FrameStep ==
  ASSUME UartLinkAssumption, PlainCrcs, LinkConsistent, LinkConsistent',
         faults = 0, WriteByte \/ WriteCrc \/ WriteFlag \/ ReadByte
  PROVE  UNCHANGED Channel!vars \/ (FramesMeet /\ Channel!Lose)
<1> DEFINE inFlight == Decoded \o Sending
<1>d. Decoded = <<>> \/ Decoded = <<frame.data>>
  BY DEF Decoded
<1>1. CASE WriteByte \/ WriteCrc \/ WriteFlag
  <2>1. /\ sent' = sent /\ frame' = frame /\ received' = received
        /\ phase # "idle" /\ (phase' # "idle" \/ wire' = <<FLAG>>)
    BY <1>1 DEF WriteByte, WriteCrc, WriteFlag, receiverVars
  <2>2. <<FLAG>> # <<>>
    BY ShortSequences
  <2>3. Sending' = Sending /\ Decoded' = Decoded
    BY <2>1, <2>2 DEF Sending, Busy, Decoded, Current
  <2> QED  BY <2>1, <2>3 DEF Channel!vars
<1>2. CASE ReadByte
  <2>1. received' = received /\ Sending = <<Current>>
    BY <1>2, ReadKeeps, FaultlessRead
  <2>2. CASE Decoded = <<>> /\ Decoded' \o Sending' = <<Current>>
    <3>1. inFlight' = inFlight
      BY <2>1, <2>2, FewMessages
    <3> QED  BY <2>1, <3>1 DEF Channel!vars
  <2>3. CASE /\ OpeningFlag /\ ~frame.decoding
             /\ Decoded' = <<>> /\ Sending' = <<Current>>
    <3>1. inFlight' = <<Current>>
      BY <2>3, FewMessages
    <3>2. CASE Decoded = <<>>
      BY <2>1, <3>1, <3>2, FewMessages DEF Channel!vars
    <3>3. CASE Decoded # <<>>
      <4>1. inFlight = <<frame.data>> \o <<Current>>
        BY <1>d, <2>1, <3>3
      <4>2. frame.data # <<>>
        BY <3>3 DEF Decoded
      <4>3. FramesMeet
        BY <2>3, <4>2 DEF FramesMeet, EmptyFrame
      <4>4. inFlight # <<>> /\ inFlight' = Tail(inFlight)
        <5>1. /\ <<frame.data>> \o <<Current>> # <<>>
              /\ Tail(<<frame.data>> \o <<Current>>) = <<Current>>
          BY FewMessages
        <5> HIDE DEF inFlight
        <5> QED  BY <3>1, <4>1, <5>1
      <4>5. Channel!Lose
        BY <2>1, <4>4 DEF Channel!Lose
      <4> QED  BY <4>3, <4>5
    <3> QED  BY <3>2, <3>3
  <2> QED  BY <1>2, <2>2, <2>3, FaultlessRead
<1> QED  BY <1>1, <1>2

(* A window ends: the message in it, if any, is delivered. *)
LEMMA WindowStep ==
  ASSUME UartLinkAssumption, LinkConsistent, faults = 0, ReadTimesOut
  PROVE  /\ UNCHANGED Channel!vars \/ Channel!Deliver
         /\ frame' = EmptyFrame /\ ~Busy /\ ~Busy'
<1> DEFINE inFlight == Decoded \o Sending
<1>0. InStep /\ TypeOK
  BY DEF LinkConsistent
<1>1. /\ EndWindow /\ phase = "idle" /\ phase' = "idle"
      /\ wire = <<>> /\ wire' = <<>> /\ sent' = sent
  BY DEF ReadTimesOut, EndWindow, senderVars
<1>2. ~frame.decoding /\ ~frame.failed
  BY <1>0, <1>1 DEF LinkConsistent, InStep, Busy
<1>3. /\ frame' = EmptyFrame
      /\ received' = IF frame.data = <<>> THEN received
                     ELSE Append(received, frame.data)
  BY <1>1, <1>2 DEF EndWindow, Complete
<1>4. /\ Sending = <<>> /\ Sending' = <<>> /\ Decoded' = <<>>
      /\ ~Busy /\ ~Busy'
  BY <1>1, <1>3 DEF Sending, Busy, Decoded, EmptyFrame
<1>5. inFlight' = <<>>
  BY <1>4, FewMessages
<1>6. CASE frame.data = <<>>
  <2>1. inFlight = <<>>
    BY <1>4, <1>6, FewMessages DEF Decoded
  <2> QED  BY <1>3, <1>4, <1>5, <1>6, <2>1 DEF Channel!vars
<1>7. CASE frame.data # <<>>
  <2>1. inFlight = <<frame.data>>
    BY <1>2, <1>4, <1>7, FewMessages DEF Decoded
  <2>2. /\ inFlight # <<>> /\ Head(inFlight) = frame.data
        /\ inFlight' = Tail(inFlight)
    BY <1>5, <2>1, ShortSequences
  <2>3. Channel!Deliver
    BY <1>3, <1>7, <2>2 DEF Channel!Deliver
  <2> QED  BY <1>3, <1>4, <2>3
<1> QED  BY <1>6, <1>7

(* A step without a fault is a step of the channel. *)
LEMMA ChannelStep ==
  ASSUME UartLinkAssumption, PlainCrcs, LinkConsistent, LinkConsistent',
         Next, faults = 0, faults' = 0
  PROVE  \/ UNCHANGED Channel!vars
         \/ Channel!ReliableNext
         \/ FramesMeet /\ Channel!Lose
<1> DEFINE inFlight == Decoded \o Sending
<1>0. InStep /\ InStep' /\ TypeOK
  BY DEF LinkConsistent
<1>d. Decoded = <<>> \/ Decoded = <<frame.data>>
  BY DEF Decoded
<1>1. ASSUME NEW message \in Payloads, Begin(message)
      PROVE  Channel!ReliableNext
  <2>1. Sending = <<>> /\ Sending' = <<message>>
    <3>1. Current' = message
      <4>1. sent \in Seq(Payloads) /\ sent' = Append(sent, message)
        BY <1>0, <1>1 DEF Begin, TypeOK
      <4> QED  BY <4>1, AppendProperties DEF Current
    <3> QED  BY <1>1, <3>1 DEF Begin, Sending, Busy
  <2>2. Decoded' = Decoded /\ received' = received
    BY <1>1 DEF Begin, receiverVars, Decoded
  <2>3. inFlight' = Append(inFlight, message)
    BY <1>d, <2>1, <2>2, FewMessages
  <2>4. Channel!Send(message)
    BY <2>2, <2>3 DEF Channel!Send
  <2> QED  BY <2>4 DEF Channel!ReliableNext
<1>2. CASE WriteByte \/ WriteCrc \/ WriteFlag \/ ReadByte
  BY <1>2, FrameStep
<1>3. CASE ReadTimesOut
  BY <1>3, WindowStep DEF Channel!ReliableNext
<1>4. ~Relisten /\ ~WriteCutShort /\ ~ReadTimesOutEarly
  BY <1>0 DEF InStep, Relisten, WriteCutShort, ReadTimesOutEarly
<1> QED  BY <1>1, <1>2, <1>3, <1>4 DEF Next, Sender, Receiver

(* Until a fault the line is a reliable channel for messages but for the   *)
(* ones whose window another message gets into.                            *)
THEOREM LinkImplementsChannel ==
  ASSUME PlainCrcs
  PROVE  Spec => ChannelSpec
<1>1. Init => Channel!Init
  <2>1. SUFFICES ASSUME Init PROVE Channel!Init
    OBVIOUS
  <2>2. Decoded = <<>> /\ Sending = <<>> /\ received = <<>>
    BY <2>1 DEF Init, Decoded, Sending, Busy, EmptyFrame
  <2> QED  BY <2>2, FewMessages DEF Channel!Init
<1>2. UntilFault /\ UntilFault' /\ [Next]_vars =>
        [faults' = 0 => \/ Channel!ReliableNext
                        \/ FramesMeet /\ Channel!Lose]_(Channel!vars)
  <2>1. SUFFICES ASSUME UntilFault, UntilFault', [Next]_vars, faults' = 0
                 PROVE  \/ UNCHANGED Channel!vars
                        \/ Channel!ReliableNext
                        \/ FramesMeet /\ Channel!Lose
    OBVIOUS
  <2>2. CASE UNCHANGED vars
    <3>1. /\ sent' = sent /\ phase' = phase /\ wire' = wire
          /\ frame' = frame /\ received' = received
      BY <2>2 DEF vars
    <3> QED  BY <3>1 DEF Channel!vars, Decoded, Sending, Busy, Current
  <2>3. CASE Next
    <3>1. faults' \in {faults, faults + 1}
      BY <2>3 DEF Next, Sender, Receiver, Begin, WriteByte, WriteCrc,
         WriteFlag, WriteCutShort, ReadByte, ReadTimesOut, ReadTimesOutEarly,
         Relisten
    <3>2. faults = 0
      BY <2>1, <3>1 DEF UntilFault
    <3>3. LinkConsistent /\ LinkConsistent'
      BY <2>1, <3>2 DEF UntilFault
    <3> QED  BY <2>1, <2>3, <3>2, <3>3, UartLinkAssumption, ChannelStep
  <2> QED  BY <2>1, <2>2, <2>3
<1> QED  BY <1>1, <1>2, ConsistentUntilFault, PTL DEF Spec, ChannelSpec

-----------------------------------------------------------------------------
(* The clock *)

(* What a sender that pauses for long enough finds: at most one message    *)
(* waits in the port's buffer, with no other one at the receiver, and not  *)
(* for longer than the loop sleeps; the frame is read, and its window      *)
(* ends, so soon that the loop is back, or sleeps, before the next one is  *)
(* sent.                                                                   *)
Waiting ==
  queue # <<>> =>
    Len(queue) = 1 /\ frame = EmptyFrame /\ ~Busy /\ gap + away <= Sleep

InWindow == Busy \/ frame # EmptyFrame => gap <= Sleep + quiet

Away == away <= Sleep \/ gap + away <= Sleep + Timeout + Sleep + Handling

InTime == LongEnough => Waiting /\ InWindow /\ Away /\ ~FramesMeet

TimedConsistent == LinkConsistent /\ faults = 0 /\ TimedTypeOK /\ InTime

(* To the line itself a step of the clock is one of its own, or nothing. *)
LEMMA LineStep ==
  ASSUME TimedTypeOK, TimedNext \/ UNCHANGED timedVars
  PROVE  [Next]_vars /\ faults' = faults
<1>1. CASE ReadsFrame
  <2>1. Head(queue) \in Payloads
    BY <1>1, HeadTailProperties DEF ReadsFrame, TimedTypeOK
  <2> QED  BY <1>1, <2>1 DEF ReadsFrame, Next, Sender, Begin
<1>2. CASE FrameGoesOn
  BY <1>2 DEF FrameGoesOn, Next, Sender, Receiver, WriteByte, WriteCrc,
     WriteFlag, ReadByte
<1>3. CASE MessageEnds
  BY <1>3 DEF MessageEnds, Next, Receiver, ReadTimesOut
<1>4. CASE \/ \E message \in Payloads : Sends(message)
           \/ Noise \/ NothingCame \/ Tick \/ UNCHANGED timedVars
  BY <1>4 DEF Sends, Noise, NothingCame, Tick, timedVars, vars
<1> QED  BY <1>1, <1>2, <1>3, <1>4 DEF TimedNext

(* No flag of a frame but the first one is found by a receiver that still  *)
(* holds the message before.                                               *)
LEMMA NoMeeting ==
  ASSUME UartLinkAssumption, PlainCrcs, LinkConsistent, ~FramesMeet,
         faults = 0, WriteByte \/ WriteCrc \/ WriteFlag \/ ReadByte
  PROVE  ~FramesMeet' /\ Busy
<1>0. <<FLAG>> # <<>>
  BY ShortSequences
<1>1. CASE WriteByte \/ WriteCrc \/ WriteFlag
  <2>1. Busy /\ wire = <<>> /\ sent # <<>> /\ TypeOK
    BY <1>1 DEF WriteByte, WriteCrc, WriteFlag, Busy, LinkConsistent
  <2>2. Len(Current) \in Nat \ {0} /\ index \in Nat
    BY <2>1, CurrentIs DEF TypeOK
  <2>3. phase = "end" => index = Len(Current)
    BY <2>1, WireIsEmpty DEF BeforeFlag
  <2>4. index' # 0
    BY <1>1, <2>2, <2>3 DEF WriteByte, WriteCrc, WriteFlag
  <2> QED  BY <2>1, <2>4 DEF FramesMeet, OpeningFlag
<1>2. CASE ReadByte
  <2>1. CASE OpeningFlag
    <3>1. wire' = <<>>
      BY <1>2, <2>1, ReadKeeps, ShortSequences DEF OpeningFlag
    <3> QED  BY <1>0, <1>2, <3>1, ReadKeeps DEF FramesMeet, OpeningFlag
  <2>2. CASE ~OpeningFlag
    <3>1. index # 0
      BY <1>2, <2>2, ReadKeeps DEF LinkConsistent, Situation, Resting,
         BeforeByte, BeforeFlag, Opening, Closing, Unit, EscapeOnly,
         EscapedByte, CrcByte
    <3> QED  BY <1>2, <3>1, ReadKeeps DEF FramesMeet, OpeningFlag
  <2> QED  BY <1>2, <2>1, <2>2, ReadKeeps
<1> QED  BY <1>1, <1>2

(* The frame of a message that is begun, and what the clock reads then. *)
LEMMA BeginsFrame ==
  ASSUME UartLinkAssumption, TimedConsistent, ReadsFrame
  PROVE  /\ queue' \in Seq(Payloads) /\ Len(queue') = Len(queue) - 1
         /\ Len(queue) \in Nat
         /\ frame' = frame /\ away = 0 /\ away' = 0 /\ quiet' = 0
         /\ pause' = pause /\ gap' = gap
<1>1. queue \in Seq(Payloads) /\ queue # <<>>
  BY DEF TimedConsistent, TimedTypeOK, ReadsFrame
<1>2. queue' = Tail(queue) /\ Begin(Head(queue))
  BY DEF ReadsFrame
<1>3. frame' = frame
  BY <1>2 DEF Begin, receiverVars
<1> QED  BY <1>1, <1>2, <1>3, HeadTailProperties, LenProperties
         DEF ReadsFrame, Reading

(* What each step of the clock leaves of the types. *)
LEMMA TimedTypeStep ==
  ASSUME UartLinkAssumption, UartTimingAssumption, PlainCrcs,
         TimedConsistent, TimedNext
  PROVE  TimedTypeOK'
<1> USE DEF Timeout, Sleep
<1>0. /\ TimedTypeOK /\ LinkConsistent /\ faults = 0
      /\ Pauses \subseteq Nat /\ Handling \in Nat \ {0}
      /\ pause \in Nat /\ gap \in Nat /\ quiet \in Nat /\ away \in Nat
  BY DEF TimedConsistent, TimedTypeOK, UartTimingAssumption
<1>1. ASSUME NEW message \in Payloads, Sends(message)
      PROVE  TimedTypeOK'
  <2>1. queue' \in Seq(Payloads)
    BY <1>0, <1>1, AppendProperties DEF Sends, TimedTypeOK
  <2>2. frame' = frame /\ Busy' = Busy
    BY <1>1 DEF Sends, vars, Busy
  <2>3. /\ gap' = 0 /\ pause' = pause /\ quiet' = quiet /\ away' = away
    BY <1>1 DEF Sends
  <2> QED  BY <1>0, <2>1, <2>2, <2>3 DEF TimedTypeOK
<1>2. CASE Noise
  <2>1. frame' = frame /\ Busy' = Busy
    BY <1>2 DEF Noise, vars, Busy
  <2> QED  BY <1>0, <1>2, <2>1 DEF Noise, TimedTypeOK
<1>3. CASE ReadsFrame
  BY <1>0, <1>3, BeginsFrame DEF TimedTypeOK
<1>4. CASE FrameGoesOn
  <2>1. Busy /\ UNCHANGED <<queue, pause, gap, quiet, away>>
    BY <1>4 DEF FrameGoesOn, clockVars, WriteByte, WriteCrc, WriteFlag,
       ReadByte, Busy
  <2>2. away = 0
    BY <1>0, <2>1 DEF TimedTypeOK
  <2> QED  BY <1>0, <2>1, <2>2 DEF TimedTypeOK
<1>5. CASE MessageEnds
  <2>1. frame' = EmptyFrame /\ ~Busy'
    BY <1>0, <1>5, WindowStep DEF MessageEnds
  <2>2. quiet' = 0 /\ UNCHANGED <<queue, pause, gap>>
    BY <1>5 DEF MessageEnds, TimesOut
  <2>3. away' \in 0..Sleep + Handling
    BY <1>0, <1>5 DEF MessageEnds
  <2> QED  BY <1>0, <2>1, <2>2, <2>3 DEF TimedTypeOK
<1>6. CASE NothingCame
  <2>1. /\ frame' = EmptyFrame /\ Busy' = Busy /\ ~Busy
        /\ quiet' = 0 /\ away' = Sleep
        /\ UNCHANGED <<queue, pause, gap>>
    BY <1>6 DEF NothingCame, TimesOut, Reading, vars, Busy
  <2>2. away' \in 0..Sleep + Handling
    BY <1>0, <2>1
  <2> QED  BY <1>0, <2>1, <2>2 DEF TimedTypeOK
<1>7. CASE Tick
  <2>1. /\ frame' = frame /\ Busy' = Busy /\ queue' = queue /\ pause' = pause
    BY <1>7 DEF Tick, vars, Busy
  <2>2. gap' \in 0..pause
    BY <1>0, <1>7 DEF Tick, TimedTypeOK
  <2>3. CASE away > 0
    <3>1. away' = away - 1 /\ quiet' = quiet
      BY <1>7, <2>3 DEF Tick
    <3> QED  BY <1>0, <2>1, <2>2, <2>3, <3>1 DEF TimedTypeOK
  <2>4. CASE away = 0
    <3>1. away' = 0 /\ quiet' = quiet + 1 /\ quiet < Timeout
      BY <1>7, <2>4 DEF Tick
    <3> QED  BY <1>0, <2>1, <2>2, <3>1 DEF TimedTypeOK
  <2> QED  BY <1>0, <2>3, <2>4
<1> QED  BY <1>1, <1>2, <1>3, <1>4, <1>5, <1>6, <1>7 DEF TimedNext

(* A sender that pauses for long enough stays in time. *)
LEMMA InTimeStep ==
  ASSUME UartLinkAssumption, UartTimingAssumption, PlainCrcs,
         TimedConsistent, TimedNext
  PROVE  InTime'
<1> USE DEF Timeout, Sleep
<1>0. /\ TimedTypeOK /\ LinkConsistent /\ faults = 0
      /\ Pauses \subseteq Nat /\ Handling \in Nat \ {0}
      /\ pause \in Nat /\ gap \in Nat /\ quiet \in 0..Timeout
      /\ away \in Nat /\ away <= Sleep + Handling
      /\ queue \in Seq(Payloads) /\ Len(queue) \in Nat
  BY LenProperties DEF TimedConsistent, TimedTypeOK, UartTimingAssumption
<1>n. gap \in Nat /\ away \in Nat /\ Handling \in Nat
  BY <1>0
<1>p. pause' = pause
  BY DEF TimedNext, Sends, Noise, ReadsFrame, FrameGoesOn, MessageEnds,
     NothingCame, Tick, clockVars
<1>t. PICK g \in Int, a \in Int : gap' = g /\ away' = a
  <2>1. TimedTypeOK'
    BY TimedTypeStep
  <2> QED  BY <1>0, <1>p, <2>1 DEF TimedTypeOK
<1> SUFFICES ASSUME LongEnough PROVE (Waiting /\ InWindow /\ Away /\ ~FramesMeet)'
  BY <1>p DEF InTime, LongEnough
<1>i. Waiting /\ InWindow /\ Away /\ ~FramesMeet
  BY DEF TimedConsistent, InTime
<1>l. pause >= Timeout + Sleep + Handling
  BY DEF LongEnough
(* Nothing is left over from before when the sender's pause is over. *)
<1>g. gap = pause => queue = <<>> /\ frame = EmptyFrame /\ ~Busy /\ away <= Sleep
  BY <1>0, <1>i, <1>l DEF Waiting, InWindow, Away
<1>s. UNCHANGED vars =>
        /\ frame' = frame /\ Busy' = Busy
        /\ FramesMeet' = FramesMeet
  BY DEF vars, Busy, FramesMeet, OpeningFlag
<1>1. ASSUME NEW message \in Payloads, Sends(message)
      PROVE  (Waiting /\ InWindow /\ Away /\ ~FramesMeet)'
  <2>1. UNCHANGED vars /\ gap = pause /\ gap' = 0 /\ away' = away /\ quiet' = quiet
        /\ queue' = Append(queue, message)
    BY <1>1 DEF Sends
  <2>2. queue = <<>> /\ Len(<<>>) = 0
    BY <1>g, <2>1
  <2>3. Len(queue') = 1
    BY <1>0, <1>1, <2>1, <2>2, AppendProperties
  <2> QED  BY <1>0, <1>g, <1>i, <1>s, <2>1, <2>3
           DEF Waiting, InWindow, Away
<1>2. CASE Noise
  <2>1. UNCHANGED vars /\ gap = pause /\ gap' = 0 /\ away' = away
        /\ queue' = queue
    BY <1>2 DEF Noise
  <2> QED  BY <1>0, <1>g, <1>i, <1>s, <2>1 DEF Waiting, InWindow, Away
<1>3. CASE ReadsFrame
  <2>1. queue # <<>> /\ away = 0
    BY <1>3 DEF ReadsFrame, Reading
  <2>2. /\ Len(queue) = 1 /\ frame = EmptyFrame /\ gap <= Sleep
    BY <1>0, <1>i, <2>1 DEF Waiting
  <2>3. /\ queue' \in Seq(Payloads) /\ Len(queue') = 0
        /\ frame' = EmptyFrame /\ away' = 0 /\ quiet' = 0 /\ gap' = gap
    BY <1>3, <2>2, BeginsFrame
  <2>4. queue' = <<>>
    BY <2>3, EmptySeq
  <2> QED  BY <1>0, <2>2, <2>3, <2>4
           DEF Waiting, InWindow, Away, FramesMeet
<1>4. CASE FrameGoesOn
  <2>1. Busy /\ ~FramesMeet'
    BY <1>0, <1>4, <1>i, NoMeeting DEF FrameGoesOn
  <2>2. UNCHANGED <<queue, gap, quiet, away>> /\ queue = <<>>
    BY <1>4, <1>i, <2>1 DEF FrameGoesOn, clockVars, Waiting
  <2> QED  BY <1>0, <1>i, <2>1, <2>2 DEF Waiting, InWindow, Away
<1>5. CASE MessageEnds
  <2>1. frame # EmptyFrame /\ frame' = EmptyFrame /\ ~Busy'
    BY <1>0, <1>5, WindowStep DEF MessageEnds, ReadTimesOut, EndWindow
  <2>2. queue = <<>> /\ queue' = <<>> /\ gap' = gap /\ quiet = Timeout
    BY <1>5 DEF MessageEnds, TimesOut
  <2>3. away' \in Sleep..Sleep + Handling
    BY <1>5 DEF MessageEnds
  <2>4. gap <= Sleep + Timeout
    BY <1>0, <1>i, <2>1, <2>2 DEF InWindow
  <2>5. gap' + away' <= Sleep + Timeout + Sleep + Handling
    <3>1. a <= Sleep + Handling /\ g <= Sleep + Timeout
      BY <1>n, <1>t, <2>2, <2>3, <2>4
    <3>2. g + a <= Sleep + Timeout + Sleep + Handling
      BY <1>n, <3>1
    <3> QED  BY <1>t, <3>2
  <2> QED  BY <2>1, <2>2, <2>5 DEF Waiting, InWindow, Away, FramesMeet
<1>6. CASE NothingCame
  <2>1. UNCHANGED vars /\ queue = <<>> /\ queue' = <<>> /\ away' = Sleep
        /\ frame = EmptyFrame /\ ~Busy
    BY <1>6 DEF NothingCame, TimesOut, Reading
  <2> QED  BY <1>0, <1>i, <1>s, <2>1 DEF Waiting, InWindow, Away
<1>7. CASE Tick
  <2>1. UNCHANGED vars /\ queue' = queue /\ gap' \in {gap, gap + 1} /\ ~Busy
    BY <1>7 DEF Tick
  <2>2. CASE away > 0
    <3>1. away' = away - 1 /\ quiet' = quiet /\ frame = EmptyFrame
      BY <1>0, <1>7, <2>2 DEF Tick, TimedTypeOK
    <3>2. g + a <= gap + away /\ a <= away
      BY <1>n, <1>t, <2>1, <3>1
    <3>3. /\ gap + away <= Sleep => g + a <= Sleep
          /\ \/ a <= Sleep
             \/ g + a <= Sleep + Timeout + Sleep + Handling
      BY <1>n, <1>i, <3>2 DEF Away
    <3>4. Away'
      BY <1>t, <3>3 DEF Away
    <3>5. Waiting'
      BY <1>i, <1>s, <1>t, <2>1, <3>3 DEF Waiting
    <3> QED  BY <1>i, <1>s, <2>1, <3>1, <3>4, <3>5 DEF InWindow
  <2>3. CASE away = 0
    <3>1. away' = 0 /\ quiet' = quiet + 1 /\ queue = <<>>
      BY <1>7, <2>3 DEF Tick
    <3> QED  BY <1>0, <1>i, <1>s, <2>1, <3>1 DEF Waiting, InWindow, Away
  <2> QED  BY <1>0, <2>2, <2>3
<1> QED  BY <1>1, <1>2, <1>3, <1>4, <1>5, <1>6, <1>7 DEF TimedNext

(* On a line that nothing goes wrong on, the loop and the sender agree: a  *)
(* sender that pauses for long enough never has two messages in one window.*)
THEOREM TimedConsistentAlways ==
  ASSUME PlainCrcs
  PROVE  TimedSpec => []TimedConsistent
<1>1. TimedInit => TimedConsistent
  <2>1. SUFFICES ASSUME TimedInit PROVE TimedConsistent
    OBVIOUS
  <2>2. LinkConsistent /\ faults = 0 /\ frame = EmptyFrame /\ ~Busy
    BY <2>1, UartLinkAssumption, InitConsistent DEF TimedInit, Init, Busy
  <2>3. /\ queue = <<>> /\ pause \in Pauses /\ gap = pause /\ quiet = 0
        /\ away = 0 /\ pause \in Nat /\ Handling \in Nat
    BY <2>1, UartTimingAssumption DEF TimedInit, UartTimingAssumption
  <2>4. TimedTypeOK
    BY <2>2, <2>3, EmptySeq DEF TimedTypeOK, Timeout, Sleep
  <2>5. InTime
    BY <2>2, <2>3
       DEF InTime, Waiting, InWindow, Away, FramesMeet, Sleep
  <2> QED  BY <2>2, <2>4, <2>5 DEF TimedConsistent
<1>2. TimedConsistent /\ [TimedNext]_timedVars => TimedConsistent'
  <2>1. SUFFICES ASSUME TimedConsistent, [TimedNext]_timedVars
                 PROVE  TimedConsistent'
    OBVIOUS
  <2>2. LinkConsistent' /\ faults' = 0
    BY <2>1, LineStep, UartLinkAssumption, StepConsistent DEF TimedConsistent
  <2>3. CASE TimedNext
    BY <2>1, <2>2, <2>3, UartLinkAssumption, UartTimingAssumption,
       TimedTypeStep, InTimeStep DEF TimedConsistent
  <2>4. CASE UNCHANGED timedVars
    <3>1. UNCHANGED <<queue, pause, gap, quiet, away, frame, phase, wire, index>>
      BY <2>4 DEF timedVars, clockVars, vars
    <3>2. TimedTypeOK' /\ InTime'
      BY <2>1, <3>1 DEF TimedConsistent, TimedTypeOK, InTime, LongEnough,
         Waiting, InWindow, Away, FramesMeet, OpeningFlag, Busy
    <3> QED  BY <2>2, <3>2 DEF TimedConsistent
  <2> QED  BY <2>1, <2>3, <2>4
<1> QED  BY <1>1, <1>2, PTL DEF TimedSpec

(* The types of the timed line. *)
THEOREM TimedTypeCorrectness ==
  ASSUME PlainCrcs
  PROVE  TimedSpec => []TimedTypeOK
<1>1. TimedConsistent => TimedTypeOK
  BY DEF TimedConsistent
<1> QED  BY <1>1, TimedConsistentAlways, PTL

-----------------------------------------------------------------------------
(* What waits behind messages that are on their way leaves them as they    *)
(* are.                                                                    *)
LEMMA Ahead ==
  ASSUME NEW S, NEW some \in Seq(S), NEW more \in Seq(S), some # <<>>
  PROVE  /\ some \o more # <<>>
         /\ Head(some \o more) = Head(some)
         /\ Tail(some \o more) = Tail(some) \o more
<1>1. /\ Len(some) \in Nat \ {0} /\ Len(more) \in Nat
      /\ Len(some \o more) = Len(some) + Len(more)
      /\ some \o more \in Seq(S)
      /\ \A i \in 1..Len(some) + Len(more) :
           (some \o more)[i] = IF i <= Len(some) THEN some[i]
                               ELSE more[i - Len(some)]
  BY ConcatProperties, LenProperties, EmptySeq
<1>2. some \o more # <<>>
  BY <1>1, EmptySeq
<1>3. Head(some \o more) = Head(some)
  BY <1>1, <1>2
<1>4. /\ Tail(some) \in Seq(S) /\ Len(Tail(some)) = Len(some) - 1
      /\ \A i \in 1..Len(Tail(some)) : Tail(some)[i] = some[i + 1]
  BY HeadTailProperties
<1>5. /\ Tail(some \o more) \in Seq(S)
      /\ Len(Tail(some \o more)) = Len(some \o more) - 1
      /\ \A i \in 1..Len(Tail(some \o more)) :
           Tail(some \o more)[i] = (some \o more)[i + 1]
  BY <1>1, <1>2, HeadTailProperties
<1>6. /\ Tail(some) \o more \in Seq(S)
      /\ Len(Tail(some) \o more) = Len(Tail(some)) + Len(more)
      /\ \A i \in 1..Len(Tail(some)) + Len(more) :
           (Tail(some) \o more)[i] = IF i <= Len(Tail(some)) THEN Tail(some)[i]
                                     ELSE more[i - Len(Tail(some))]
  BY <1>4, ConcatProperties
<1> DEFINE a == Tail(some \o more)
           b == Tail(some) \o more
<1>7. \A i \in 1..Len(a) : a[i] = b[i]
  <2> SUFFICES ASSUME NEW i \in 1..Len(a) PROVE a[i] = b[i]
    OBVIOUS
  <2>1. CASE i <= Len(some) - 1
    BY <1>1, <1>4, <1>5, <1>6, <2>1
  <2>2. CASE i > Len(some) - 1
    <3>1. i \in Nat /\ i + 1 - Len(some) = i - (Len(some) - 1)
      BY <1>1, <1>5
    <3>2. a[i] = more[i + 1 - Len(some)]
      BY <1>1, <1>5, <2>2, <3>1
    <3>3. b[i] = more[i - (Len(some) - 1)]
      BY <1>1, <1>4, <1>5, <1>6, <2>2, <3>1
    <3> QED  BY <3>1, <3>2, <3>3
  <2>3. i \in Nat
    BY <1>1, <1>5
  <2> QED  BY <1>1, <2>1, <2>2, <2>3
<1>8. a = b
  <2>1. a \in Seq(S) /\ b \in Seq(S) /\ Len(a) = Len(b)
    BY <1>1, <1>4, <1>5, <1>6
  <2> HIDE DEF a, b
  <2> QED  BY <1>7, <2>1, SeqEqual
<1> QED  BY <1>2, <1>3, <1>8

(* The messages on the line are sequences of bytes, and so are the ones in *)
(* the buffer.                                                             *)
LEMMA OnTheLine ==
  ASSUME UartLinkAssumption, LinkConsistent, TimedTypeOK
  PROVE  /\ Decoded \o Sending \in Seq(Seq(Byte))
         /\ queue \in Seq(Seq(Byte)) /\ received \in Seq(Seq(Byte))
<1>1. frame.data \in Seq(Byte) /\ received \in Seq(Seq(Byte))
  BY DEF LinkConsistent, TypeOK, Frame
<1>2. Decoded \in Seq(Seq(Byte))
  BY <1>1 DEF Decoded
<1>3. Sending \in Seq(Seq(Byte))
  <2>1. CASE Busy
    <3>1. Current \in Seq(Byte)
      BY <2>1, CurrentIs DEF LinkConsistent
    <3> QED  BY <2>1, <3>1 DEF Sending
  <2>2. CASE ~Busy
    BY <2>2 DEF Sending
  <2> QED  BY <2>1, <2>2
<1>4. queue \in Seq(Seq(Byte))
  BY DEF TimedTypeOK, UartLinkAssumption
<1> QED  BY <1>1, <1>2, <1>3, <1>4, ConcatProperties

(* A step of the line alone is the same step of the channel with what      *)
(* waits in the buffer behind it.                                          *)
LEMMA Behind ==
  ASSUME UartLinkAssumption, LinkConsistent, TimedTypeOK, queue' = queue
  PROVE  /\ UNCHANGED Channel!vars => UNCHANGED TimedChannel!vars
         /\ Channel!Deliver => TimedChannel!Deliver
         /\ Channel!Lose => TimedChannel!Lose
<1> DEFINE line == Decoded \o Sending
<1>1. line \in Seq(Seq(Byte)) /\ queue \in Seq(Seq(Byte))
  BY OnTheLine
<1>2. UNCHANGED Channel!vars => UNCHANGED TimedChannel!vars
  BY DEF Channel!vars, TimedChannel!vars
<1>3. ASSUME line # <<>>, line' = Tail(line)
      PROVE  /\ line \o queue # <<>> /\ Head(line \o queue) = Head(line)
             /\ (line \o queue)' = Tail(line \o queue)
  <2>1. line' \o queue = Tail(line) \o queue
    BY <1>3
  <2> HIDE DEF line
  <2> QED  BY <1>1, <1>3, <2>1, Ahead
<1>4. Channel!Deliver => TimedChannel!Deliver
  BY <1>3 DEF Channel!Deliver, TimedChannel!Deliver
<1>5. Channel!Lose => TimedChannel!Lose
  BY <1>3 DEF Channel!Lose, TimedChannel!Lose
<1> QED  BY <1>2, <1>4, <1>5

(* A message that is sent goes behind the ones that wait. *)
LEMMA SendsBehind ==
  ASSUME UartLinkAssumption, LinkConsistent, TimedTypeOK,
         NEW message \in Payloads, Sends(message)
  PROVE  TimedChannel!Send(message)
<1> DEFINE line == Decoded \o Sending
<1>1. /\ line \in Seq(Seq(Byte)) /\ queue \in Seq(Seq(Byte))
      /\ message \in Seq(Byte)
  BY OnTheLine DEF UartLinkAssumption
<1>2. queue' = Append(queue, message) /\ received' = received
  BY DEF Sends, vars
<1>3. line' = line
  BY DEF Sends, vars, Decoded, Sending, Busy, Current
<1>4. line \o Append(queue, message) = Append(line \o queue, message)
  <2> HIDE DEF line
  <2>1. Append(queue, message) = queue \o <<message>>
    BY <1>1, AppendIsConcat
  <2>2. line \o queue \in Seq(Seq(Byte)) /\ <<message>> \in Seq(Seq(Byte))
    BY <1>1, ConcatProperties
  <2>3. Append(line \o queue, message) = (line \o queue) \o <<message>>
    BY <1>1, <2>2, AppendIsConcat
  <2> QED  BY <1>1, <2>1, <2>2, <2>3, ConcatAssociative
<1> QED  BY <1>2, <1>3, <1>4 DEF TimedChannel!Send

(* The first message of the buffer becomes the last one on the line. *)
LEMMA BeginsBehind ==
  ASSUME UartLinkAssumption, LinkConsistent, TimedTypeOK, ReadsFrame
  PROVE  UNCHANGED TimedChannel!vars
<1> DEFINE h == Head(queue)
           t == Tail(queue)
<1>1. queue \in Seq(Payloads) /\ queue \in Seq(Seq(Byte)) /\ queue # <<>>
  BY OnTheLine DEF TimedTypeOK, ReadsFrame
<1>2. /\ h \in Seq(Byte) /\ t \in Seq(Seq(Byte))
      /\ <<h>> \in Seq(Seq(Byte))
  <2>1. h \in Seq(Byte) /\ t \in Seq(Seq(Byte))
    BY <1>1, HeadTailProperties
  <2> HIDE DEF h, t
  <2> QED  BY <2>1
<1>3. queue = <<h>> \o t
  <2>1. Tail(<<h>> \o t) = Tail(<<h>>) \o t /\ Head(<<h>> \o t) = Head(<<h>>)
        /\ <<h>> \o t # <<>> /\ <<h>> \o t \in Seq(Seq(Byte))
    <3> HIDE DEF h, t
    <3> QED  BY <1>2, ShortSequences, Ahead, ConcatProperties
  <2>2. Head(<<h>>) = h /\ Tail(<<h>>) = <<>> /\ <<>> \o t = t
    BY <1>2, ShortSequences, ConcatEmptySeq
  <2>3. Len(queue) = Len(<<h>> \o t)
    <3>1. Len(queue) \in Nat /\ Len(t) = Len(queue) - 1
      BY <1>1, HeadTailProperties, LenProperties
    <3>2. Len(<<h>> \o t) = 1 + Len(t)
      <4> HIDE DEF h, t
      <4> QED  BY <1>2, ShortSequences, ConcatProperties
    <3> QED  BY <3>1, <3>2
  <2>4. \A i \in 1..Len(queue) : queue[i] = (<<h>> \o t)[i]
    <3>1. \A i \in 1..Len(t) : t[i] = queue[i + 1]
      BY <1>1, HeadTailProperties
    <3>2. /\ Len(queue) \in Nat /\ Len(t) = Len(queue) - 1 /\ h = queue[1]
      BY <1>1, HeadTailProperties, LenProperties
    <3> HIDE DEF h, t
    <3>3. \A i \in 1..1 + Len(t) :
            (<<h>> \o t)[i] = IF i <= 1 THEN <<h>>[i] ELSE t[i - 1]
      <4>1. Len(<<h>>) = 1
        BY ShortSequences
      <4> QED  BY <1>2, <4>1, ConcatProperties
    <3> QED  BY <3>1, <3>2, <3>3
  <2> HIDE DEF h, t
  <2> QED  BY <1>1, <2>1, <2>3, <2>4, SeqEqual
<1>4. /\ Sending = <<>> /\ Sending' = <<h>> /\ Decoded' = Decoded
      /\ queue' = t /\ received' = received
  <2>1. Begin(h) /\ queue' = t
    BY DEF ReadsFrame
  <2>2. Current' = h
    <3>1. sent \in Seq(Payloads) /\ sent' = Append(sent, h) /\ h \in Payloads
      BY <1>1, <2>1, HeadTailProperties DEF Begin, LinkConsistent, TypeOK
    <3> HIDE DEF h
    <3> QED  BY <3>1, AppendProperties DEF Current
  <2> QED  BY <2>1, <2>2 DEF Begin, receiverVars, Sending, Busy, Decoded
<1>5. Decoded \in Seq(Seq(Byte))
  BY DEF Decoded, LinkConsistent, TypeOK, Frame
<1>6. (Decoded \o <<>>) \o queue = (Decoded \o <<h>>) \o t
  <2> HIDE DEF h, t
  <2>1. Decoded \o <<>> = Decoded
    BY <1>5, ConcatEmptySeq
  <2>2. (Decoded \o <<h>>) \o t = Decoded \o (<<h>> \o t)
    BY <1>2, <1>5, ConcatAssociative
  <2> QED  BY <1>3, <2>1, <2>2
<1> QED  BY <1>4, <1>6 DEF TimedChannel!vars

(* On a line that nothing goes wrong on, sender, line and loop together    *)
(* are a channel for messages, and a reliable one if the sender pauses for *)
(* as long as a read's time out, the loop's sleep and the handlers take    *)
(* together.                                                               *)
THEOREM TimedLinkImplementsChannel ==
  ASSUME PlainCrcs
  PROVE  TimedSpec => TimedChannelSpec
<1>1. TimedInit => TimedChannel!Init
  <2>1. SUFFICES ASSUME TimedInit PROVE TimedChannel!Init
    OBVIOUS
  <2>2. Decoded = <<>> /\ Sending = <<>> /\ received = <<>> /\ queue = <<>>
    BY <2>1 DEF TimedInit, Init, Decoded, Sending, Busy, EmptyFrame
  <2> QED  BY <2>2, FewMessages DEF TimedChannel!Init
<1>2. TimedConsistent /\ TimedConsistent' /\ [TimedNext]_timedVars =>
        [faults' = 0 => IF LongEnough THEN TimedChannel!ReliableNext
                                      ELSE TimedChannel!Next]_(TimedChannel!vars)
  <2>1. SUFFICES ASSUME TimedConsistent, TimedConsistent', TimedNext
                 PROVE  \/ UNCHANGED TimedChannel!vars
                        \/ TimedChannel!ReliableNext
                        \/ ~LongEnough /\ TimedChannel!Lose
    <3>1. UNCHANGED timedVars => UNCHANGED TimedChannel!vars
      BY DEF timedVars, clockVars, vars, TimedChannel!vars, Decoded, Sending,
         Busy, Current
    <3> QED  BY <3>1 DEF TimedChannel!Next
  <2>2. /\ UartLinkAssumption /\ LinkConsistent /\ TimedTypeOK /\ faults = 0
        /\ LinkConsistent' /\ (LongEnough => ~FramesMeet)
    BY <2>1, UartLinkAssumption DEF TimedConsistent, InTime
  <2>3. CASE \E message \in Payloads : Sends(message)
    BY <2>2, <2>3, SendsBehind DEF TimedChannel!ReliableNext
  <2>4. CASE ReadsFrame
    BY <2>2, <2>4, BeginsBehind
  <2>5. CASE FrameGoesOn
    <3>1. /\ UNCHANGED Channel!vars \/ (FramesMeet /\ Channel!Lose)
          /\ queue' = queue
      BY <2>2, <2>5, FrameStep DEF FrameGoesOn, clockVars
    <3> QED  BY <2>2, <3>1, Behind
  <2>6. CASE MessageEnds
    <3>1. UNCHANGED Channel!vars \/ Channel!Deliver
      BY <2>2, <2>6, WindowStep DEF MessageEnds
    <3>2. queue' = queue
      BY <2>6 DEF MessageEnds
    <3> QED  BY <2>2, <3>1, <3>2, Behind DEF TimedChannel!ReliableNext
  <2>7. CASE Noise \/ NothingCame \/ Tick
    BY <2>7 DEF Noise, NothingCame, Tick, vars, TimedChannel!vars, Decoded,
       Sending, Busy, Current
  <2> QED  BY <2>1, <2>3, <2>4, <2>5, <2>6, <2>7 DEF TimedNext
<1> QED  BY <1>1, <1>2, TimedConsistentAlways, PTL
         DEF TimedSpec, TimedChannelSpec
=============================================================================
