-------------------------- MODULE MCUartConnector --------------------------
(* A small instance of UartConnector for TLC. *)
EXTENDS UartConnector

CONSTANTS owner, other
=============================================================================
