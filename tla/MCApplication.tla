---------------------------- MODULE MCApplication ----------------------------
(* The example programs, with one listening loop. *)
EXTENDS Application, TLC

UsesNormal == main :> {"Normal"}
=============================================================================
