-------------------------- MODULE ConnectorMonitor --------------------------
(***************************************************************************)
(* What a connector promises its clients, without threads or locks: it is  *)
(* a monitor.  One transmission is under way at a time, one handler runs   *)
(* at a time, no transmission of another client overlaps a handler, and    *)
(* while one client has exclusive access the normal channel is shut, to    *)
(* messages as well as to transmissions.  IConnector implements this.      *)
(***************************************************************************)
CONSTANTS Clients, None

AccessType == {"Normal", "Exclusive", "Sniffer"}

VARIABLES
  slots,     \* slots[a]: the client whose handler is registered for a
  sending,   \* the transmission under way: {} or {<<client, access>>}
  calling    \* the handler that runs: {} or {[slot, client]}

vars == <<slots, sending, calling>>

Init ==
  /\ slots = [a \in AccessType |-> None]
  /\ sending = {}
  /\ calling = {}

(* Client c may use the connector: nothing is under way but its own handler. *)
Free(c) ==
  /\ sending = {}
  /\ \A call \in calling : call.client = c

Register(c, a) ==
  /\ Free(c)
  /\ a = "Exclusive" => slots["Exclusive"] = None
  /\ slots' = [slots EXCEPT ![a] = c]
  /\ UNCHANGED <<sending, calling>>

Unregister(c, a) ==
  /\ Free(c)
  /\ slots' = [slots EXCEPT ![a] = None]
  /\ UNCHANGED <<sending, calling>>

BeginSend(c, a) ==
  /\ Free(c)
  /\ a = "Normal" => slots["Exclusive"] = None
  /\ sending' = {<<c, a>>}
  /\ UNCHANGED <<slots, calling>>

EndSend ==
  /\ sending # {}
  /\ sending' = {}
  /\ UNCHANGED <<slots, calling>>

Addressee == IF slots["Exclusive"] # None THEN "Exclusive" ELSE "Normal"

Calls(slot) == {[slot |-> slot, client |-> slots[slot]]}

(* A message is handed to the exclusive handler, or else to the normal one. *)
Deliver ==
  /\ sending = {} /\ calling = {}
  /\ slots[Addressee] # None
  /\ calling' = Calls(Addressee)
  /\ UNCHANGED <<slots, sending>>

(* The sniffer sees what the other handler has just been given. *)
Sniff ==
  /\ sending = {}
  /\ \E call \in calling : call.slot # "Sniffer"
  /\ slots["Sniffer"] # None
  /\ calling' = Calls("Sniffer")
  /\ UNCHANGED <<slots, sending>>

EndDelivery ==
  /\ sending = {} /\ calling # {}
  /\ calling' = {}
  /\ UNCHANGED <<slots, sending>>

Next ==
  \/ \E c \in Clients, a \in AccessType : Register(c, a) \/ Unregister(c, a)
  \/ \E c \in Clients, a \in {"Normal", "Exclusive"} : BeginSend(c, a)
  \/ EndSend
  \/ Deliver \/ Sniff \/ EndDelivery

Spec     == Init /\ [][Next]_vars
FairSpec == Spec /\ WF_vars(EndSend) /\ SF_vars(EndDelivery)
=============================================================================
