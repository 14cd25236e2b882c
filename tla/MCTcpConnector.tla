--------------------------- MODULE MCTcpConnector ---------------------------
(* Small instances of TcpConnector for TLC. *)
EXTENDS TcpConnector

CONSTANTS loop, app

(* Two segments may be read at once, or one by one; with a second thread   *)
(* one is enough to see what that thread does to a read.                   *)
TwoOrOne == [s \in BOOLEAN |-> IF s THEN 1 ELSE 2]

NoSegments == [s \in BOOLEAN |-> 0]
=============================================================================
