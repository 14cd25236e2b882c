--------------------------- MODULE MessageChannel ---------------------------
(***************************************************************************)
(* A channel for messages: what is delivered was sent, once, in the order  *)
(* it was sent in; it may drop messages unless it is reliable, but never   *)
(* alters or repeats one.                                                  *)
(***************************************************************************)
EXTENDS Sequences

CONSTANT Messages

VARIABLES inFlight, delivered

vars == <<inFlight, delivered>>

Init == inFlight = <<>> /\ delivered = <<>>

Send(m) ==
  /\ inFlight' = Append(inFlight, m)
  /\ UNCHANGED delivered

Deliver ==
  /\ inFlight # <<>>
  /\ delivered' = Append(delivered, Head(inFlight))
  /\ inFlight' = Tail(inFlight)

Lose ==
  /\ inFlight # <<>>
  /\ inFlight' = Tail(inFlight)
  /\ UNCHANGED delivered

ReliableNext == (\E m \in Messages : Send(m)) \/ Deliver
Next         == ReliableNext \/ Lose

Spec         == Init /\ [][Next]_vars
ReliableSpec == Init /\ [][ReliableNext]_vars
=============================================================================
