---------------------------- MODULE MCIConnector ----------------------------
(* Small instances of IConnector for TLC. *)
EXTENDS IConnector, TLC

CONSTANTS c1, c2, l1, l2

(* Two clients that both want exclusive access, one of them with a normal  *)
(* handler, the other with a sniffer.                                      *)
UsesMixed == c1 :> {"Normal", "Exclusive"} @@ c2 :> {"Exclusive", "Sniffer"}

(* The same contest for exclusive access, without the sniffer. *)
UsesContest == c1 :> {"Normal", "Exclusive"} @@ c2 :> {"Exclusive"}

(* One client has exclusive access now and then, one has the other two. *)
UsesApart == c1 :> {"Exclusive"} @@ c2 :> {"Normal", "Sniffer"}

(* Loops are interchangeable. *)
LoopSymmetry == Permutations(Loops)
=============================================================================
