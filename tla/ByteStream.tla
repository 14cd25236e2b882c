----------------------------- MODULE ByteStream -----------------------------
(***************************************************************************)
(* A stream of numbered segments: what is delivered was written, once and  *)
(* in order, in portions of any size; portions may be lost.                *)
(***************************************************************************)
EXTENDS Naturals, Sequences

VARIABLES written, inFlight, delivered

vars == <<written, inFlight, delivered>>

Init == written = 0 /\ inFlight = <<>> /\ delivered = <<>>

(* What is written is new: it is in the stream, and delivered, once only. *)
Write ==
  /\ inFlight' = Append(inFlight, written + 1)
  /\ written' = written + 1
  /\ UNCHANGED delivered

Deliver ==
  /\ \E n \in 1..Len(inFlight) :
       /\ delivered' = delivered \o SubSeq(inFlight, 1, n)
       /\ inFlight' = SubSeq(inFlight, n + 1, Len(inFlight))
  /\ UNCHANGED written

(* Some of it, but nothing in the middle. *)
Lose ==
  /\ inFlight # <<>>
  /\ \/ inFlight' = <<>>
     \/ \E m, n \in 1..Len(inFlight) : inFlight' = SubSeq(inFlight, m, n)
  /\ UNCHANGED <<written, delivered>>

ReliableNext == Write \/ Deliver
Next         == ReliableNext \/ Lose

Spec == Init /\ [][Next]_vars
=============================================================================
