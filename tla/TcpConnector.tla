---------------------------- MODULE TcpConnector ----------------------------
(***************************************************************************)
(* The TCP connector (src/connector/tcp/TcpConnector.cpp): receive() and   *)
(* connect() each start an asynchronous operation and a timer on the one   *)
(* io_context and run it until both handlers have been called; a lost      *)
(* connection is replaced by reconnect(), which tries until it succeeds.   *)
(*                                                                         *)
(* A timer that has expired and an operation that has completed have       *)
(* queued their handlers: nothing cancels a queued handler any more, and   *)
(* the two run in either order.  A handler called with operation_aborted   *)
(* that does nothing is left out: its timer is simply "off".               *)
(*                                                                         *)
(* The socket, the timer, the io_context and the flag `connecting` are     *)
(* shared by the listening loop and the threads that send; whether there   *)
(* are such threads is chosen at the start.                                *)
(*                                                                         *)
(* The server writes segments, numbered; a read takes some of those that   *)
(* have come, in their order and without regard to their borders.          *)
(***************************************************************************)
EXTENDS Naturals, Sequences

CONSTANTS
  Threads,      \* threads that use the connector
  Listener,     \* the one that runs the listening loop
  Latency,      \* seconds the server may take to accept a connection
  MaxOutages,   \* bounds how often the network fails
  MaxSegments   \* MaxSegments[shared] bounds what the server writes

ASSUME TcpConnectorAssumption ==
  /\ Listener \in Threads
  /\ Latency \in Nat
  /\ MaxOutages \in Nat
  /\ MaxSegments \in [BOOLEAN -> Nat]

VARIABLES
  socket,       \* "open": a descriptor without a connection; "broken" and
                \* "silent": a lost one, that reads notice or do not
  connecting,   \* the atomic flag
  pc,           \* where each thread is
  op,           \* the asynchronous read or connect of each thread
  alarm,        \* the timer that limits it
  timedOut,     \* the locals timeout and timedOut
  result,       \* what the operation's handler has stored
  delay,        \* the local currentTimeout of connect()
  reachable,    \* the server accepts connections
  outages,      \* network failures so far
  shared,       \* whether threads beside the Listener send
  written,      \* the number of segments the server has written
  inFlight,     \* those that have not been read
  buffer,       \* what the read of receive() has taken
  returned      \* what receive() has returned so far

stream  == <<written, inFlight, buffer, returned>>
network == <<reachable, outages, shared, stream>>

vars == <<socket, connecting, pc, op, alarm, timedOut, result, delay, network>>

MaxTimeout == 64
Delays     == {2, 4, 8, 16, 32, 64}

ControlTypes ==
  /\ socket \in {"closed", "open", "connected", "broken", "silent"}
  /\ connecting \in BOOLEAN
  /\ pc \in [Threads -> {"out", "reading", "disconnect", "connect", "attempt",
                         "dialing", "backoff", "dead"}]
  /\ op \in [Threads -> {"none", "pending", "done", "failed"}]
  /\ alarm \in [Threads -> {"off", "pending", "expired"}]
  /\ timedOut \in [Threads -> BOOLEAN]
  /\ result \in [Threads -> {"none", "ok", "error"}]
  /\ delay \in [Threads -> Delays]

NetworkTypes ==
  /\ reachable \in BOOLEAN
  /\ outages \in 0..MaxOutages
  /\ shared \in BOOLEAN
  /\ written \in 0..MaxSegments[shared]
  /\ inFlight \in Seq(1..written)
  /\ buffer \in Seq(1..written)
  /\ returned \in Seq(1..written)

(* The types; the buffer is receive()'s own, and filled by its read. *)
TypeOK ==
  /\ ControlTypes
  /\ NetworkTypes
  /\ buffer # <<>> => pc[Listener] = "reading" /\ op[Listener] # "pending"

(* The constructor's connect() has succeeded. *)
Init ==
  /\ socket = "connected"
  /\ connecting = FALSE
  /\ pc = [t \in Threads |-> "out"]
  /\ op = [t \in Threads |-> "none"]
  /\ alarm = [t \in Threads |-> "off"]
  /\ timedOut = [t \in Threads |-> FALSE]
  /\ result = [t \in Threads |-> "none"]
  /\ delay = [t \in Threads |-> 2]
  /\ reachable = TRUE
  /\ outages = 0
  /\ shared \in BOOLEAN
  /\ written = 0
  /\ inFlight = <<>>
  /\ buffer = <<>>
  /\ returned = <<>>

-----------------------------------------------------------------------------
Goto(t, label) == pc' = [pc EXCEPT ![t] = label]

(* Closing or cancelling the socket fails what is pending on it; what has  *)
(* been sent over a connection that is closed is not read any more.        *)
Aborted == [t \in Threads |-> IF op[t] = "pending" THEN "failed" ELSE op[t]]

Forgotten ==
  /\ inFlight' = <<>>
  /\ UNCHANGED <<reachable, outages, shared, written, buffer, returned>>

(* An operation and its timer start; what they left behind is reset. *)
Start(t, label, ops, alarms) ==
  /\ Goto(t, label)
  /\ op' = [ops EXCEPT ![t] = "pending"]
  /\ alarm' = [alarms EXCEPT ![t] = "pending"]
  /\ timedOut' = [timedOut EXCEPT ![t] = FALSE]
  /\ result' = [result EXCEPT ![t] = "none"]

(* Setting or cancelling the member `timer` ends every wait on it that has *)
(* not expired, whichever thread's connect() it is for.                    *)
TimerCancelled ==
  [t \in Threads |-> IF pc[t] = "dialing" /\ alarm[t] = "pending"
                     THEN "off" ELSE alarm[t]]

(* io_context::run() returns when there is no work left, anybody's. *)
NoWork == \A t \in Threads : op[t] = "none" /\ alarm[t] = "off"

-----------------------------------------------------------------------------
(* receive() *)

ReceiveThrows(t) ==
  /\ t = Listener
  /\ pc[t] = "out"
  /\ socket = "closed"
  /\ Goto(t, "dead")
  /\ UNCHANGED <<socket, connecting, op, alarm, timedOut, result, delay, network>>

ReceiveBegins(t) ==
  /\ t = Listener
  /\ pc[t] = "out"
  /\ socket # "closed"
  /\ Start(t, "reading", op, alarm)
  /\ UNCHANGED <<socket, connecting, delay, network>>

(* The handler of async_read_some, which cancels the deadline. *)
ReadHandler(t) ==
  /\ pc[t] = "reading"
  /\ op[t] \in {"done", "failed"}
  /\ result' = [result EXCEPT ![t] = IF op[t] = "done" THEN "ok" ELSE "error"]
  /\ op' = [op EXCEPT ![t] = "none"]
  /\ alarm' = [alarm EXCEPT ![t] = IF @ = "pending" THEN "off" ELSE @]
  /\ UNCHANGED <<socket, connecting, pc, timedOut, delay, network>>

(* Mutant: close() in place of cancel(). *)
DeadlineHandlerCloses(t) ==
  /\ pc[t] = "reading"
  /\ alarm[t] = "expired"
  /\ socket # "closed"
  /\ timedOut' = [timedOut EXCEPT ![t] = TRUE]
  /\ alarm' = [alarm EXCEPT ![t] = "off"]
  /\ socket' = "closed"
  /\ op' = Aborted
  /\ Forgotten
  /\ UNCHANGED <<connecting, pc, result, delay>>

(* The deadline's handler cancels the read. *)
DeadlineHandler(t) ==
  /\ pc[t] = "reading"
  /\ alarm[t] = "expired"
  /\ socket # "closed"
  /\ timedOut' = [timedOut EXCEPT ![t] = TRUE]
  /\ alarm' = [alarm EXCEPT ![t] = "off"]
  /\ op' = Aborted
  /\ UNCHANGED <<socket, connecting, pc, result, delay, network>>

(* cancel() of a closed socket throws, out of the run() of some thread:    *)
(* receive() does not catch it, connect() does.  The handlers that thread  *)
(* leaves behind refer to locals that are gone; they do nothing here.      *)
DeadlineHandlerThrows(t) ==
  /\ pc[t] = "reading"
  /\ alarm[t] = "expired"
  /\ socket = "closed"
  /\ timedOut' = [timedOut EXCEPT ![t] = TRUE]
  /\ \E u \in Threads :
       /\ \/ pc[u] = "reading" /\ Goto(u, "dead")
          \/ pc[u] = "dialing" /\ Goto(u, "backoff")
       /\ op' = [op EXCEPT ![u] = "none"]
       /\ alarm' = [alarm EXCEPT ![t] = "off", ![u] = "off"]
       /\ buffer' = IF u = Listener THEN <<>> ELSE buffer
  /\ UNCHANGED <<socket, connecting, result, delay, reachable, outages, shared,
                 written, inFlight, returned>>

(* What a receive() with this outcome returns. *)
Results(t) == IF ~timedOut[t] /\ result[t] = "ok" THEN buffer ELSE <<>>

(* Mutant: the buffer is kept for the next call. *)
ReceiveReturnsOldData(t) ==
  /\ pc[t] = "reading"
  /\ NoWork
  /\ Goto(t, IF ~timedOut[t] /\ result[t] = "error" THEN "disconnect" ELSE "out")
  /\ returned' = returned \o buffer
  /\ buffer' = IF timedOut[t] THEN buffer ELSE <<>>
  /\ UNCHANGED <<socket, connecting, op, alarm, timedOut, result, delay,
                 reachable, outages, shared, written, inFlight>>

(* Nothing is returned after a timeout, even if the read had its data. *)
ReceiveReturns(t) ==
  /\ pc[t] = "reading"
  /\ NoWork
  /\ Goto(t, IF ~timedOut[t] /\ result[t] = "error" THEN "disconnect" ELSE "out")
  /\ returned' = returned \o Results(t)
  /\ buffer' = <<>>
  /\ UNCHANGED <<socket, connecting, op, alarm, timedOut, result, delay,
                 reachable, outages, shared, written, inFlight>>

(* The application stops the loop that has ended, and starts a new one. *)
Relisten(t) ==
  /\ pc[t] = "dead"
  /\ Goto(t, "out")
  /\ UNCHANGED <<socket, connecting, op, alarm, timedOut, result, delay, network>>

-----------------------------------------------------------------------------
(* send(): a write that fails is not repeated, the connection is replaced. *)

SendFails(t) ==
  /\ pc[t] = "out"
  /\ t # Listener => shared
  /\ socket \in {"open", "broken"}
  /\ Goto(t, "disconnect")
  /\ UNCHANGED <<socket, connecting, op, alarm, timedOut, result, delay, network>>

(* A write over a connection that was lost in silence succeeds; that it is *)
(* not answered, or by a reset, tells the operations after it.             *)
SendUnanswered(t) ==
  /\ pc[t] = "out"
  /\ t # Listener => shared
  /\ socket = "silent"
  /\ socket' = "broken"
  /\ UNCHANGED <<connecting, pc, op, alarm, timedOut, result, delay, network>>

-----------------------------------------------------------------------------
(* reconnect(): disconnect(), then connect(). *)

Disconnect(t) ==
  /\ pc[t] = "disconnect"
  /\ socket' = "closed"
  /\ op' = Aborted
  /\ Forgotten
  /\ Goto(t, "connect")
  /\ UNCHANGED <<connecting, alarm, timedOut, result, delay>>

ConnectTest(t) ==
  /\ pc[t] = "connect"
  /\ Goto(t, IF connecting THEN "out" ELSE "attempt")
  /\ delay' = [delay EXCEPT ![t] = 2]
  /\ UNCHANGED <<socket, connecting, op, alarm, timedOut, result, network>>

(* The address does not resolve. *)
AttemptFails(t) ==
  /\ pc[t] = "attempt"
  /\ ~reachable
  /\ connecting' = TRUE
  /\ Goto(t, "backoff")
  /\ UNCHANGED <<socket, op, alarm, timedOut, result, delay, network>>

(* async_connect starts with a fresh descriptor. *)
Attempt(t) ==
  /\ pc[t] = "attempt"
  /\ connecting' = TRUE
  /\ socket' = "open"
  /\ Start(t, "dialing", Aborted, TimerCancelled)
  /\ Forgotten
  /\ UNCHANGED delay

(* A connection whose socket has been closed meanwhile is none. *)
ConnectHandler(t) ==
  /\ pc[t] = "dialing"
  /\ op[t] \in {"done", "failed"}
  /\ result' = [result EXCEPT ![t] =
                  IF op[t] = "done" /\ socket # "closed" THEN "ok" ELSE "error"]
  /\ op' = [op EXCEPT ![t] = "none"]
  /\ alarm' = TimerCancelled
  /\ UNCHANGED <<socket, connecting, pc, timedOut, delay, network>>

ConnectTimer(t) ==
  /\ pc[t] = "dialing"
  /\ alarm[t] = "expired"
  /\ alarm' = [alarm EXCEPT ![t] = "off"]
  /\ IF result[t] = "ok"
     THEN UNCHANGED <<socket, op, timedOut, network>>
     ELSE /\ timedOut' = [timedOut EXCEPT ![t] = TRUE]
          /\ socket' = "closed"
          /\ op' = Aborted
          /\ Forgotten
  /\ UNCHANGED <<connecting, pc, result, delay>>

(* Mutant: the flag is left set. *)
ConnectReturnsConnecting(t) ==
  /\ pc[t] = "dialing"
  /\ NoWork
  /\ IF timedOut[t] \/ result[t] = "error"
     THEN Goto(t, "backoff") ELSE Goto(t, "out")
  /\ UNCHANGED <<socket, connecting, op, alarm, timedOut, result, delay, network>>

ConnectReturns(t) ==
  /\ pc[t] = "dialing"
  /\ NoWork
  /\ IF timedOut[t] \/ result[t] = "error"
     THEN Goto(t, "backoff") /\ UNCHANGED connecting
     ELSE Goto(t, "out") /\ connecting' = FALSE
  /\ UNCHANGED <<socket, op, alarm, timedOut, result, delay, network>>

(* Mutants: no limit to the wait, and no growth. *)
NextDelayDoubled(d) == 2 * d
NextDelaySame(d)    == d

NextDelay(d) == IF d < MaxTimeout THEN 2 * d ELSE MaxTimeout

(* The wait before the next attempt. *)
Backoff(t) ==
  /\ pc[t] = "backoff"
  /\ delay' = [delay EXCEPT ![t] = NextDelay(@)]
  /\ Goto(t, "attempt")
  /\ UNCHANGED <<socket, connecting, op, alarm, timedOut, result, network>>

-----------------------------------------------------------------------------
(* The network. *)

ServerWrites ==
  /\ written < MaxSegments[shared]
  /\ socket = "connected"
  /\ written' = written + 1
  /\ inFlight' = Append(inFlight, written')
  /\ UNCHANGED <<socket, connecting, pc, op, alarm, timedOut, result, delay,
                 reachable, outages, shared, buffer, returned>>

(* async_read_some takes any part of what has come. *)
ReadCompletes(t) ==
  /\ pc[t] = "reading"
  /\ op[t] = "pending"
  /\ socket \in {"connected", "broken", "silent"}
  /\ op' = [op EXCEPT ![t] = "done"]
  /\ \E n \in 1..Len(inFlight) :
       /\ buffer' = SubSeq(inFlight, 1, n)
       /\ inFlight' = SubSeq(inFlight, n + 1, Len(inFlight))
  /\ UNCHANGED <<socket, connecting, pc, alarm, timedOut, result, delay,
                 reachable, outages, shared, written, returned>>

(* The connection is found to be lost, or not to be there. *)
ReadFails(t) ==
  /\ pc[t] = "reading"
  /\ op[t] = "pending"
  /\ socket = "open" \/ (socket = "broken" /\ inFlight = <<>>)
  /\ op' = [op EXCEPT ![t] = "failed"]
  /\ UNCHANGED <<socket, connecting, pc, alarm, timedOut, result, delay, network>>

ConnectCompletes(t) ==
  /\ pc[t] = "dialing"
  /\ op[t] = "pending"
  /\ socket = "open"
  /\ IF reachable
     THEN op' = [op EXCEPT ![t] = "done"] /\ socket' = "connected"
     ELSE op' = [op EXCEPT ![t] = "failed"] /\ UNCHANGED socket
  /\ UNCHANGED <<connecting, pc, alarm, timedOut, result, delay, network>>

(* A read waits for one second, unless it is to fail, and so it does on a  *)
(* connection that was lost in silence; a connection that the server       *)
(* accepts is there within Latency.                                        *)
AlarmExpires(t) ==
  /\ alarm[t] = "pending"
  /\ pc[t] = "reading" => socket \in {"connected", "silent"}
  /\ pc[t] = "dialing" => ~reachable \/ delay[t] <= Latency
  /\ alarm' = [alarm EXCEPT ![t] = "expired"]
  /\ UNCHANGED <<socket, connecting, pc, op, timedOut, result, delay, network>>

(* The connection is lost, with or without the server, and with or without *)
(* what has come over it; it is closed or reset, or it goes silent.  (No   *)
(* keep-alive is set.)                                                     *)
Outage ==
  /\ outages < MaxOutages
  /\ outages' = outages + 1
  /\ reachable' \in {reachable, FALSE}
  /\ socket' \in IF socket = "connected" THEN {"broken", "silent"} ELSE {socket}
  /\ inFlight' \in {inFlight, <<>>}
  /\ UNCHANGED <<connecting, pc, op, alarm, timedOut, result, delay, shared,
                 written, buffer, returned>>

ServerReturns ==
  /\ ~reachable
  /\ reachable' = TRUE
  /\ UNCHANGED <<socket, connecting, pc, op, alarm, timedOut, result, delay,
                 outages, shared, stream>>

-----------------------------------------------------------------------------
Receive(t)   == \/ ReceiveThrows(t) \/ ReceiveBegins(t) \/ ReceiveReturns(t)
                \/ Relisten(t)
Handler(t)   == \/ ReadHandler(t) \/ DeadlineHandler(t) \/ DeadlineHandlerThrows(t)
                \/ ConnectHandler(t) \/ ConnectTimer(t)
Reconnect(t) == \/ Disconnect(t) \/ ConnectTest(t) \/ AttemptFails(t)
                \/ Attempt(t) \/ ConnectReturns(t) \/ Backoff(t)

Step(t) == Receive(t) \/ Handler(t) \/ Reconnect(t)

Completion(t) == ReadCompletes(t) \/ ReadFails(t) \/ ConnectCompletes(t)

Next ==
  \/ \E t \in Threads :
       \/ Step(t) \/ SendFails(t) \/ SendUnanswered(t)
       \/ Completion(t) \/ AlarmExpires(t)
  \/ Outage \/ ServerReturns \/ ServerWrites

Spec == Init /\ [][Next]_vars

(* Threads run, the loop goes on receiving, timers expire or what they     *)
(* limit completes, every outage ends, and a thread that run() lets go     *)
(* again and again leaves it at last.                                      *)
FairSpec ==
  /\ Spec
  /\ \A t \in Threads :
       /\ WF_vars(Step(t))
       /\ SF_vars(ConnectReturns(t))
       /\ WF_vars(Completion(t) \/ AlarmExpires(t))
  /\ WF_vars(ServerReturns)

-----------------------------------------------------------------------------
(* Between the calls of a thread that has the connector for itself it is   *)
(* Ready on a socket that has been connected: whichever handler comes      *)
(* first, connect() never returns with a socket that its own timer has     *)
(* closed.                                                                 *)
ReadyBetweenCalls ==
  ~shared /\ pc[Listener] = "out" => socket \in {"connected", "broken", "silent"}

(* The flag `connecting` is set only while some thread works on a          *)
(* connection, also when two threads do: left behind, it would turn every  *)
(* later reconnect() into nothing, for ever.                               *)
FlagHasOwner ==
  connecting => \E t \in Threads : pc[t] \in {"attempt", "dialing", "backoff"}

(* When the outages are over the connection is there again, and stays, if  *)
(* one thread has the connector for itself and the last connection was not *)
(* lost in silence.  Then receive() returns nothing every second, for ever,*)
(* unless something is sent.                                               *)
Recovers ==
  ~shared /\ ~<>[](socket = "silent") => <>[](socket = "connected")

(* reconnect(): "This method will attempt to reconnect if the connection   *)
(* is lost" (TcpConnector.h).  A closed socket is one that some thread is  *)
(* about to connect.                                                       *)
LostMeansReconnecting ==
  socket = "closed" =>
    \E t \in Threads : pc[t] \in {"connect", "attempt", "dialing", "backoff"}

Stream == INSTANCE ByteStream WITH
  inFlight  <- buffer \o inFlight,
  delivered <- returned

(* What receive() returns are the server's bytes, in their order and once, *)
(* with two threads too; what is missing was lost with a connection, or    *)
(* had been read when the deadline of receive() expired.                   *)
StreamSpec ==
  /\ Stream!Init
  /\ [][\/ Stream!ReliableNext
        \/ Stream!Lose /\ (socket' # "connected" \/ timedOut[Listener])
       ]_(Stream!vars)
=============================================================================
