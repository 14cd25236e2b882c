------------------------- MODULE TcpConnector_proofs -------------------------
(* Theorems about TcpConnector for every set of threads, every latency and *)
(* any number of outages and segments.                                     *)
EXTENDS TcpConnector, SequenceTheorems, TLAPS

(* The listening loop alone calls receive(), and ends. *)
OnlyListenerReads ==
  \A t \in Threads : pc[t] \in {"reading", "dead"} => t = Listener

(* The types need to know whose read it is that fills the buffer. *)
Consistent == TypeOK /\ OnlyListenerReads

(* The constructor leaves everything at rest. *)
LEMMA InitConsistent == Init => Consistent
  <1> SUFFICES ASSUME Init PROVE Consistent
    OBVIOUS
  <1> USE TcpConnectorAssumption DEF Init
  <1>1. ControlTypes
    BY DEF ControlTypes, Delays
  <1>2. NetworkTypes
    <2>1. written \in 0..MaxSegments[shared]
      OBVIOUS
    <2>2. <<>> \in Seq(1..written)
      BY EmptySeq
    <2>3. QED
      BY <2>1, <2>2 DEF NetworkTypes
  <1>3. QED
    BY <1>1, <1>2 DEF Consistent, TypeOK, OnlyListenerReads

(* receive() returns what its buffer holds, or nothing. *)
LEMMA ReceiveConsistent ==
  ASSUME Consistent, NEW t \in Threads, Receive(t)
  PROVE  Consistent'
  <1> USE TcpConnectorAssumption DEF Consistent, TypeOK, OnlyListenerReads,
        Receive, ReceiveThrows, ReceiveBegins, Relisten, Start, Goto,
        network, stream
  <1>1. CASE ReceiveThrows(t) \/ ReceiveBegins(t) \/ Relisten(t)
    <2>1. ControlTypes'
      BY <1>1 DEF ControlTypes
    <2>2. NetworkTypes'
      BY <1>1 DEF NetworkTypes
    <2>3. QED
      BY <1>1, <2>1, <2>2 DEF ControlTypes
  <1>2. CASE ReceiveReturns(t)
    <2>1. ControlTypes'
      BY <1>2 DEF ReceiveReturns, ControlTypes
    <2>2. NetworkTypes'
      <3>1. <<>> \in Seq(1..written) /\ Results(t) \in Seq(1..written)
        BY EmptySeq DEF Results, NetworkTypes
      <3>2. returned \o Results(t) \in Seq(1..written)
        BY <3>1, ConcatProperties DEF NetworkTypes
      <3>3. QED
        BY <1>2, <3>1, <3>2 DEF ReceiveReturns, NetworkTypes
    <2>3. QED
      BY <1>2, <2>1, <2>2 DEF ReceiveReturns, ControlTypes
  <1>3. QED
    BY <1>1, <1>2

(* Closing a connection loses what is on its way, not what has been read. *)
LEMMA ForgottenTypes ==
  ASSUME NetworkTypes, Forgotten
  PROVE  NetworkTypes'
  <1>1. <<>> \in Seq(1..written)
    BY EmptySeq
  <1>2. QED
    BY <1>1 DEF Forgotten, NetworkTypes

(* A handler of a read or of a connection attempt, or of its timer. *)
LEMMA HandlerConsistent ==
  ASSUME Consistent, NEW t \in Threads, Handler(t)
  PROVE  Consistent'
  <1> USE TcpConnectorAssumption DEF Consistent, TypeOK, OnlyListenerReads, Goto
  <1>1. CASE ReadHandler(t) \/ ConnectHandler(t) \/ DeadlineHandler(t)
    <2>1. ControlTypes'
      <3>1. CASE ReadHandler(t)
        BY <3>1 DEF ReadHandler, ControlTypes
      <3>2. CASE ConnectHandler(t)
        BY <3>2 DEF ConnectHandler, TimerCancelled, ControlTypes
      <3>3. CASE DeadlineHandler(t)
        BY <3>3 DEF DeadlineHandler, Aborted, ControlTypes
      <3>4. QED
        BY <1>1, <3>1, <3>2, <3>3
    <2>2. NetworkTypes'
      BY <1>1 DEF ReadHandler, ConnectHandler, DeadlineHandler, network,
         stream,
         NetworkTypes
    <2>3. QED
      BY <1>1, <2>1, <2>2 DEF ReadHandler, ConnectHandler, DeadlineHandler,
         Aborted, network, stream, ControlTypes
  <1>2. CASE DeadlineHandlerThrows(t)
    <2>1. ControlTypes'
      BY <1>2 DEF DeadlineHandlerThrows, ControlTypes
    <2>2. NetworkTypes'
      <3>1. /\ buffer' = <<>> \/ buffer' = buffer
            /\ UNCHANGED <<reachable, outages, shared, written, inFlight,
                           returned>>
        BY <1>2 DEF DeadlineHandlerThrows
      <3>2. QED
        BY <3>1, EmptySeq DEF NetworkTypes
    <2>3. PICK u \in Threads :
            /\ \/ pc[u] = "reading" /\ pc' = [pc EXCEPT ![u] = "dead"]
               \/ pc[u] = "dialing" /\ pc' = [pc EXCEPT ![u] = "backoff"]
            /\ op' = [op EXCEPT ![u] = "none"]
            /\ buffer' = IF u = Listener THEN <<>> ELSE buffer
      BY <1>2 DEF DeadlineHandlerThrows
    <2>4. OnlyListenerReads'
      BY <2>3 DEF ControlTypes
    <2>5. buffer' # <<>> => pc'[Listener] = "reading" /\ op'[Listener] # "pending"
      BY <2>3 DEF ControlTypes
    <2>6. QED
      BY <2>1, <2>2, <2>4, <2>5
  <1>3. CASE ConnectTimer(t)
    <2>1. ControlTypes'
      <3>1. CASE result[t] = "ok"
        BY <1>3, <3>1 DEF ConnectTimer, ControlTypes, network, stream
      <3>2. CASE result[t] # "ok"
        <4>1. /\ shared' = shared /\ UNCHANGED <<pc, result, delay>>
              /\ timedOut' = [timedOut EXCEPT ![t] = TRUE]
              /\ alarm' = [alarm EXCEPT ![t] = "off"]
              /\ op' = Aborted /\ socket' = "closed"
          BY <1>3, <3>2 DEF ConnectTimer, Forgotten, network, stream
        <4>2. connecting' = connecting
          BY <1>3, Zenon DEF ConnectTimer
        <4>3. op' \in [Threads -> {"none", "pending", "done", "failed"}]
          BY <4>1 DEF Aborted, ControlTypes
        <4>4. QED
          BY <4>1, <4>2, <4>3 DEF ControlTypes
      <3>3. QED
        BY <3>1, <3>2
    <2>2. NetworkTypes'
      <3>1. CASE Forgotten
        BY <3>1, ForgottenTypes
      <3>2. CASE UNCHANGED network
        BY <3>2 DEF network, stream, NetworkTypes
      <3>3. QED
        BY <1>3, <3>1, <3>2 DEF ConnectTimer
    <2>3. QED
      BY <1>3, <2>1, <2>2 DEF ConnectTimer, Aborted, Forgotten, network,
         stream,
         ControlTypes
  <1>4. QED
    BY <1>1, <1>2, <1>3 DEF Handler

(* The steps of reconnect(). *)
LEMMA ReconnectConsistent ==
  ASSUME Consistent, NEW t \in Threads, Reconnect(t)
  PROVE  Consistent'
  <1> USE TcpConnectorAssumption DEF Consistent, TypeOK, OnlyListenerReads, Goto
  <1>1. CASE Disconnect(t)
    <2>1. ControlTypes'
      BY <1>1 DEF Disconnect, Aborted, ControlTypes
    <2>2. NetworkTypes'
      BY <1>1, ForgottenTypes DEF Disconnect
    <2>3. QED
      BY <1>1, <2>1, <2>2 DEF Disconnect, Aborted, Forgotten, ControlTypes
  <1>2. CASE Attempt(t)
    <2>1. ControlTypes'
      BY <1>2 DEF Attempt, Start, Aborted, TimerCancelled, ControlTypes
    <2>2. NetworkTypes'
      BY <1>2, ForgottenTypes DEF Attempt
    <2>3. QED
      BY <1>2, <2>1, <2>2 DEF Attempt, Start, Aborted, Forgotten, ControlTypes
  <1>3. CASE ConnectTest(t) \/ AttemptFails(t) \/ ConnectReturns(t) \/ Backoff(t)
    <2>1. ControlTypes'
      <3>1. 2 \in Delays /\ \A d \in Delays : NextDelay(d) \in Delays
        BY DEF NextDelay, Delays, MaxTimeout
      <3>2. connecting' \in BOOLEAN
        BY <1>3, Zenon DEF ConnectTest, AttemptFails, ConnectReturns, Backoff,
           ControlTypes
      <3>3. PICK label \in {"out", "attempt", "backoff"} :
              pc' = [pc EXCEPT ![t] = label]
        BY <1>3 DEF ConnectTest, AttemptFails, ConnectReturns, Backoff
      <3>4. delay' \in [Threads -> Delays]
        <4>1. \/ delay' = [delay EXCEPT ![t] = 2]
              \/ delay' = [delay EXCEPT ![t] = NextDelay(@)]
              \/ delay' = delay
          BY <1>3, Zenon DEF ConnectTest, AttemptFails, ConnectReturns, Backoff
        <4>2. delay \in [Threads -> Delays] /\ NextDelay(delay[t]) \in Delays
          BY <3>1, Zenon DEF ControlTypes
        <4>3. QED
          BY <3>1, <4>1, <4>2, Zenon
      <3>5. UNCHANGED <<socket, op, alarm, timedOut, result>>
        BY <1>3 DEF ConnectTest, AttemptFails, ConnectReturns, Backoff
      <3>6. pc' \in [Threads -> {"out", "reading", "disconnect", "connect",
                                "attempt", "dialing", "backoff", "dead"}]
        BY <3>3 DEF ControlTypes
      <3>7. QED
        BY <3>2, <3>4, <3>5, <3>6, Zenon DEF ControlTypes
    <2>2. NetworkTypes'
      BY <1>3 DEF ConnectTest, AttemptFails, ConnectReturns, Backoff, network,
         stream, NetworkTypes
    <2>3. QED
      BY <1>3, <2>1, <2>2 DEF ConnectTest, AttemptFails, ConnectReturns,
         Backoff,
         network, stream, ControlTypes
  <1>4. QED
    BY <1>1, <1>2, <1>3 DEF Reconnect

(* The server, the network and the clock. *)
NetworkStep ==
  \/ \E t \in Threads :
       SendFails(t) \/ SendUnanswered(t) \/ Completion(t) \/ AlarmExpires(t)
  \/ Outage \/ ServerReturns \/ ServerWrites

(* None of them touches a program counter but that of a failed send(). *)
LEMMA NetworkConsistent ==
  ASSUME Consistent, NetworkStep
  PROVE  Consistent'
  <1> USE TcpConnectorAssumption DEF Consistent, TypeOK, OnlyListenerReads, Goto
  <1>1. ASSUME NEW t \in Threads,
               \/ SendFails(t) \/ SendUnanswered(t) \/ ReadFails(t)
               \/ ConnectCompletes(t) \/ AlarmExpires(t)
        PROVE  Consistent'
    <2>1. ControlTypes'
      BY <1>1 DEF SendFails, SendUnanswered, ReadFails, ConnectCompletes,
         AlarmExpires,
         ControlTypes
    <2>2. NetworkTypes'
      BY <1>1 DEF SendFails, SendUnanswered, ReadFails, ConnectCompletes,
         AlarmExpires, network,
         stream, NetworkTypes
    <2>3. QED
      BY <1>1, <2>1, <2>2 DEF SendFails, SendUnanswered, ReadFails,
         ConnectCompletes,
         AlarmExpires, network, stream, ControlTypes
  <1>2. ASSUME NEW t \in Threads, ReadCompletes(t) PROVE Consistent'
    <2>1. ControlTypes'
      BY <1>2 DEF ReadCompletes, ControlTypes
    <2>2. NetworkTypes'
      <3>1. PICK n \in 1..Len(inFlight) :
              /\ buffer' = SubSeq(inFlight, 1, n)
              /\ inFlight' = SubSeq(inFlight, n + 1, Len(inFlight))
        BY <1>2 DEF ReadCompletes
      <3>2. \A i \in 1..Len(inFlight) : inFlight[i] \in 1..written
        BY ElementOfSeq DEF NetworkTypes
      <3>3. Len(inFlight) \in Nat
        BY LenProperties DEF NetworkTypes
      <3>4. /\ buffer' \in Seq(1..written)
            /\ inFlight' \in Seq(1..written)
        BY <3>1, <3>2, <3>3, SubSeqProperties
      <3>5. QED
        BY <1>2, <3>4 DEF ReadCompletes, NetworkTypes
    <2>3. QED
      BY <1>2, <2>1, <2>2 DEF ReadCompletes, ControlTypes
  <1>3. CASE Outage \/ ServerReturns
    <2>1. ControlTypes'
      BY <1>3 DEF Outage, ServerReturns, ControlTypes
    <2>2. NetworkTypes'
      <3>1. reachable' \in BOOLEAN /\ shared' \in BOOLEAN
        BY <1>3, Zenon DEF Outage, ServerReturns, stream, NetworkTypes
      <3>2. outages' \in 0..MaxOutages
        <4>1. \/ outages' = outages
              \/ outages < MaxOutages /\ outages' = outages + 1
          BY <1>3, Zenon DEF Outage, ServerReturns
        <4>2. QED
          BY <4>1 DEF NetworkTypes
      <3>3. /\ inFlight' \in Seq(1..written)
            /\ UNCHANGED <<shared, written, buffer, returned>>
        BY <1>3, EmptySeq DEF Outage, ServerReturns, stream, NetworkTypes
      <3>4. QED
        BY <3>1, <3>2, <3>3 DEF NetworkTypes
    <2>3. QED
      BY <1>3, <2>1, <2>2 DEF Outage, ServerReturns, stream
  <1>4. CASE ServerWrites
    <2>1. ControlTypes'
      BY <1>4 DEF ServerWrites, ControlTypes
    <2>2. NetworkTypes'
      <3>1. /\ written \in Nat
            /\ written' \in 0..MaxSegments[shared]
            /\ written' = written + 1
        BY <1>4 DEF ServerWrites, NetworkTypes
      <3>2. 1..written \subseteq 1..written'
        BY <3>1
      <3>3. /\ inFlight \in Seq(1..written') /\ buffer \in Seq(1..written')
            /\ returned \in Seq(1..written')
        BY <3>2, SeqMonotonic DEF NetworkTypes
      <3>4. Append(inFlight, written') \in Seq(1..written')
        BY <3>1, <3>3, AppendProperties
      <3>5. QED
        BY <1>4, <3>1, <3>3, <3>4 DEF ServerWrites, NetworkTypes
    <2>3. QED
      BY <1>4, <2>1, <2>2 DEF ServerWrites
  <1>5. QED
    BY <1>1, <1>2, <1>3, <1>4 DEF NetworkStep, Completion

(* The invariant is inductive. *)
LEMMA StepConsistent == Consistent /\ [Next]_vars => Consistent'
  <1> SUFFICES ASSUME Consistent, [Next]_vars PROVE Consistent'
    OBVIOUS
  <1>1. ASSUME NEW t \in Threads, Step(t) PROVE Consistent'
    BY <1>1, ReceiveConsistent, HandlerConsistent, ReconnectConsistent DEF Step
  <1>2. CASE NetworkStep
    BY <1>2, NetworkConsistent
  <1>3. CASE UNCHANGED vars
    BY <1>3 DEF vars, network, stream, Consistent, TypeOK, OnlyListenerReads,
       ControlTypes, NetworkTypes
  <1>4. QED
    BY <1>1, <1>2, <1>3 DEF Next, NetworkStep

(* The invariant holds in every reachable state. *)
THEOREM ConsistentAlways == Spec => []Consistent
  <1>1. QED
    BY InitConsistent, StepConsistent, PTL DEF Spec

(* Types, however the threads, the handlers and the network interleave. *)
THEOREM TypeCorrectness == Spec => []TypeOK
  <1>1. Consistent => TypeOK
    BY DEF Consistent
  <1>2. QED
    BY <1>1, ConsistentAlways, PTL
-----------------------------------------------------------------------------
(* Who works on a connection goes on until it has cleared the flag. *)
LEMMA StepFlagHasOwner ==
  ASSUME ControlTypes, FlagHasOwner, [Next]_vars
  PROVE  FlagHasOwner'
  <1> DEFINE Works(t) == pc[t] \in {"attempt", "dialing", "backoff"}
  <1> USE DEF FlagHasOwner, ControlTypes, Goto
  <1>1. ASSUME NEW t \in Threads, Works(t)', ~Works(t)
        PROVE  FlagHasOwner'
    BY <1>1
  <1>2. ASSUME \A t \in Threads : Works(t) => Works(t)', connecting' => connecting
        PROVE  FlagHasOwner'
    BY <1>2
  <1>3. ASSUME ~connecting'
        PROVE  FlagHasOwner'
    BY <1>3
  <1>4. ASSUME NEW t \in Threads, Receive(t) \/ Handler(t)
        PROVE  FlagHasOwner'
    <2>1. \A u \in Threads : Works(u) => Works(u)'
      BY <1>4 DEF Receive, ReceiveThrows, ReceiveBegins, ReceiveReturns,
         Relisten,
         Start, Handler, ReadHandler, DeadlineHandler, DeadlineHandlerThrows,
         ConnectHandler, ConnectTimer
    <2>2. connecting' = connecting
      BY <1>4, Zenon DEF Receive, ReceiveThrows, ReceiveBegins, ReceiveReturns,
         Relisten, Handler, ReadHandler, DeadlineHandler,
         DeadlineHandlerThrows, ConnectHandler, ConnectTimer
    <2>3. QED
      BY <1>2, <2>1, <2>2
  <1>5. ASSUME NEW t \in Threads,
               \/ Disconnect(t) \/ ConnectTest(t) \/ SendFails(t) \/ SendUnanswered(t)
               \/ Completion(t) \/ AlarmExpires(t)
        PROVE  FlagHasOwner'
    <2>1. \A u \in Threads : Works(u) => Works(u)'
      BY <1>5 DEF Disconnect, ConnectTest, SendFails, SendUnanswered,
         Completion, ReadCompletes,
         ReadFails, ConnectCompletes, AlarmExpires
    <2>2. connecting' = connecting
      BY <1>5, Zenon DEF Disconnect, ConnectTest, SendFails, SendUnanswered,
         Completion,
         ReadCompletes, ReadFails, ConnectCompletes, AlarmExpires
    <2>3. QED
      BY <1>2, <2>1, <2>2
  <1>6. ASSUME NEW t \in Threads, AttemptFails(t) \/ Attempt(t) \/ Backoff(t)
        PROVE  FlagHasOwner'
    <2>1. Works(t)'
      BY <1>6 DEF AttemptFails, Attempt, Start, Backoff
    <2>2. QED
      BY <2>1
  <1>7. ASSUME NEW t \in Threads, ConnectReturns(t)
        PROVE  FlagHasOwner'
    <2>1. CASE pc' = [pc EXCEPT ![t] = "backoff"]
      <3>1. Works(t)'
        BY <2>1
      <3>2. QED
        BY <3>1
    <2>2. CASE ~connecting'
      BY <2>2
    <2>3. QED
      BY <1>7, <2>1, <2>2 DEF ConnectReturns
  <1>8. CASE Outage \/ ServerReturns \/ ServerWrites \/ UNCHANGED vars
    BY <1>8 DEF Outage, ServerReturns, ServerWrites, vars
  <1>9. QED
    BY <1>4, <1>5, <1>6, <1>7, <1>8 DEF Next, Step, Reconnect

(* The flag `connecting` is never left set by a thread that gives up. *)
THEOREM FlagCorrectness == Spec => []FlagHasOwner
  <1>1. Init => FlagHasOwner
    BY DEF Init, FlagHasOwner
  <1>2. Consistent /\ FlagHasOwner /\ [Next]_vars => FlagHasOwner'
    BY StepFlagHasOwner DEF Consistent, TypeOK
  <1>3. QED
    BY <1>1, <1>2, ConsistentAlways, PTL DEF Spec

-----------------------------------------------------------------------------
(* What a thread that has the connector for itself finds.  Nobody but the  *)
(* listening loop does anything; its calls leave no handler behind;        *)
(* between them and while it reads there is a connection; and an attempt   *)
(* to connect that has succeeded has left one, unless its timer came first.*)
OthersAreOut == \A t \in Threads \ {Listener} : pc[t] = "out"

QuietOutside ==
  \A t \in Threads :
    pc[t] \notin {"reading", "dialing"} => op[t] = "none" /\ alarm[t] = "off"

HasConnection ==
  /\ pc[Listener] # "dead"
  /\ pc[Listener] \in {"out", "reading"} => socket \in {"connected", "broken", "silent"}

DialedConnection ==
  pc[Listener] = "dialing" /\ ~timedOut[Listener] =>
    /\ op[Listener] = "done" \/ result[Listener] = "ok" =>
         socket \in {"connected", "broken", "silent"}
    /\ op[Listener] = "none" => result[Listener] # "none"

Alone ==
  ~shared => OthersAreOut /\ QuietOutside /\ HasConnection /\ DialedConnection

(* Then every step of a thread is the loop's. *)
ThreadStep(t) ==
  \/ Step(t) \/ SendFails(t) \/ SendUnanswered(t)
  \/ Completion(t) \/ AlarmExpires(t)

(* A thread that is out of the connector has no step but a failed send(). *)
LEMMA OnlyListenerActs ==
  ASSUME ControlTypes, ~shared, OthersAreOut, QuietOutside,
         NEW t \in Threads, ThreadStep(t)
  PROVE  t = Listener
  BY DEF OthersAreOut, QuietOutside, ThreadStep, Step, Receive, ReceiveThrows,
     ReceiveBegins, ReceiveReturns, Relisten, Handler, ReadHandler,
     DeadlineHandler, DeadlineHandlerThrows, ConnectHandler, ConnectTimer,
     Reconnect, Disconnect, ConnectTest, AttemptFails, Attempt, ConnectReturns,
     Backoff, SendFails, SendUnanswered, Completion, ReadCompletes, ReadFails, ConnectCompletes,
     AlarmExpires

(* At the beginning of connect() the flag is clear: nobody else has set it. *)
LEMMA AloneNotConnecting ==
  ASSUME TcpConnectorAssumption, FlagHasOwner, OthersAreOut,
         pc[Listener] = "connect"
  PROVE  ~connecting
  BY DEF FlagHasOwner, OthersAreOut

(* The invariant is inductive, with the owner of the flag. *)
LEMMA StepAlone ==
  ASSUME Consistent, FlagHasOwner, Alone, [Next]_vars
  PROVE  Alone'
  <1> SUFFICES ASSUME ~shared'
               PROVE  OthersAreOut' /\ QuietOutside' /\ HasConnection'
                        /\ DialedConnection'
    BY DEF Alone
  <1>1. shared' = shared
    BY Zenon DEF Next, Step, Receive, ReceiveThrows, ReceiveBegins,
       ReceiveReturns, Relisten, Handler, ReadHandler, DeadlineHandler,
       DeadlineHandlerThrows, ConnectHandler, ConnectTimer, Reconnect,
       Disconnect, ConnectTest, AttemptFails, Attempt, ConnectReturns, Backoff,
       Forgotten, SendFails, SendUnanswered, Completion, ReadCompletes, ReadFails,
       ConnectCompletes, AlarmExpires, Outage, ServerReturns, ServerWrites,
       network, vars
  <1>2. /\ ~shared /\ ControlTypes
        /\ OthersAreOut /\ QuietOutside /\ HasConnection /\ DialedConnection
    BY <1>1 DEF Alone, Consistent, TypeOK
  <1> DEFINE Goal == OthersAreOut' /\ QuietOutside' /\ HasConnection'
                       /\ DialedConnection'
  <1> USE TcpConnectorAssumption DEF Goto, ControlTypes, OthersAreOut,
        QuietOutside, HasConnection, DialedConnection
  <1>3. ASSUME Receive(Listener) PROVE Goal
    <2>1. CASE ReceiveThrows(Listener) \/ Relisten(Listener)
      BY <1>2, <2>1 DEF ReceiveThrows, Relisten
    <2>2. CASE ReceiveBegins(Listener)
      BY <1>2, <2>2 DEF ReceiveBegins, Start
    <2>3. CASE ReceiveReturns(Listener)
      BY <1>2, <2>3 DEF ReceiveReturns, NoWork
    <2>4. QED
      BY <1>3, <2>1, <2>2, <2>3 DEF Receive
  <1>4. ASSUME ReadHandler(Listener) \/ DeadlineHandler(Listener)
                 \/ DeadlineHandlerThrows(Listener)
        PROVE  Goal
    BY <1>2, <1>4 DEF ReadHandler, DeadlineHandler, DeadlineHandlerThrows,
       Aborted
  <1>5. ASSUME ConnectHandler(Listener) \/ ConnectTimer(Listener) PROVE Goal
    BY <1>2, <1>5 DEF ConnectHandler, ConnectTimer, TimerCancelled, Aborted
  <1>6. ASSUME Disconnect(Listener) \/ Attempt(Listener) PROVE Goal
    BY <1>2, <1>6 DEF Disconnect, Attempt, Start, TimerCancelled, Aborted
  <1>7. ASSUME ConnectTest(Listener) PROVE Goal
    BY <1>2, <1>7, AloneNotConnecting DEF ConnectTest
  <1>8. ASSUME ConnectReturns(Listener) PROVE Goal
    BY <1>2, <1>8 DEF ConnectReturns, NoWork
  <1>9. ASSUME AttemptFails(Listener) \/ Backoff(Listener)
                 \/ SendFails(Listener) \/ SendUnanswered(Listener)
                 \/ AlarmExpires(Listener)
        PROVE  Goal
    BY <1>2, <1>9 DEF AttemptFails, Backoff, SendFails, SendUnanswered,
       AlarmExpires
  <1>10. ASSUME Completion(Listener) PROVE Goal
    BY <1>2, <1>10 DEF Completion, ReadCompletes, ReadFails, ConnectCompletes
  <1>11. CASE Outage \/ ServerReturns \/ ServerWrites \/ UNCHANGED vars
    BY <1>2, <1>11 DEF Outage, ServerReturns, ServerWrites, vars
  <1>12. ASSUME NEW t \in Threads, ThreadStep(t) PROVE Goal
    <2>1. t = Listener
      BY <1>2, <1>12, OnlyListenerActs
    <2>2. QED
      BY <1>12, <2>1, <1>3, <1>4, <1>5, <1>6, <1>7, <1>8, <1>9, <1>10
         DEF ThreadStep, Step, Handler, Reconnect
  <1>13. QED
    BY <1>11, <1>12 DEF Next, ThreadStep

(* It holds from the start, when the constructor has connected. *)
LEMMA AloneAlways == Spec => []Alone
  <1>1. Init => Alone
    BY TcpConnectorAssumption DEF Init, Alone, OthersAreOut, QuietOutside,
       HasConnection, DialedConnection
  <1>2. Consistent /\ FlagHasOwner /\ Alone /\ [Next]_vars => Alone'
    BY StepAlone
  <1>3. QED
    BY <1>1, <1>2, ConsistentAlways, FlagCorrectness, PTL DEF Spec

(* Whatever order timer and operation come in, connect() returns a socket  *)
(* that was connected, if one thread has the connector for itself.         *)
THEOREM ConnectionCorrectness == Spec => []ReadyBetweenCalls
  <1>1. Alone => ReadyBetweenCalls
    BY DEF Alone, HasConnection, ReadyBetweenCalls
  <1>2. QED
    BY <1>1, AloneAlways, PTL
-----------------------------------------------------------------------------
(* What a read has taken is what its handler has reported, or will report, *)
(* as a success; only a deadline keeps it from being returned.             *)
ReadHasData ==
  buffer # <<>> =>
    op[Listener] = "done" \/ (op[Listener] = "none" /\ result[Listener] = "ok")

(* No other thread's step changes what the loop's read has come to. *)
LEMMA StepReadHasData ==
  ASSUME Consistent, ReadHasData, [Next]_vars
  PROVE  ReadHasData'
  <1> USE TcpConnectorAssumption DEF ReadHasData, Consistent, TypeOK,
        OnlyListenerReads, ControlTypes, Goto
  <1>1. ASSUME NEW t \in Threads, Receive(t) PROVE ReadHasData'
    BY <1>1 DEF Receive, ReceiveThrows, ReceiveBegins, ReceiveReturns,
       Relisten,
       Start, network, stream
  <1>2. ASSUME NEW t \in Threads, ReadHandler(t) \/ ConnectHandler(t)
        PROVE  ReadHasData'
    BY <1>2 DEF ReadHandler, ConnectHandler, network, stream
  <1>3. ASSUME NEW t \in Threads, DeadlineHandler(t) \/ ConnectTimer(t)
        PROVE  ReadHasData'
    BY <1>3 DEF DeadlineHandler, ConnectTimer, Aborted, Forgotten, network,
       stream
  <1>4. ASSUME NEW t \in Threads, DeadlineHandlerThrows(t) PROVE ReadHasData'
    BY <1>4 DEF DeadlineHandlerThrows
  <1>5. ASSUME NEW t \in Threads, Disconnect(t) \/ Attempt(t)
        PROVE  ReadHasData'
    <2>1. CASE buffer = <<>>
      BY <1>5, <2>1 DEF Disconnect, Attempt, Forgotten
    <2>2. CASE buffer # <<>>
      <3>1. t # Listener
        BY <1>5, <2>2 DEF Disconnect, Attempt
      <3>2. op[Listener] # "pending"
        BY <2>2
      <3>3. CASE Disconnect(t)
        BY <2>2, <3>2, <3>3 DEF Disconnect, Aborted
      <3>4. CASE Attempt(t)
        <4>1. Aborted[Listener] = op[Listener]
          BY <3>2 DEF Aborted
        <4>2. /\ op' = [Aborted EXCEPT ![t] = "pending"]
              /\ result' = [result EXCEPT ![t] = "none"]
          BY <3>4 DEF Attempt, Start
        <4>3. op'[Listener] = op[Listener] /\ result'[Listener] = result[Listener]
          BY <3>1, <4>1, <4>2 DEF Aborted
        <4>4. QED
          BY <2>2, <4>3
      <3>5. QED
        BY <1>5, <3>3, <3>4
    <2>3. QED
      BY <2>1, <2>2
  <1>6. ASSUME NEW t \in Threads,
               \/ ConnectTest(t) \/ AttemptFails(t) \/ ConnectReturns(t)
               \/ Backoff(t) \/ SendFails(t) \/ SendUnanswered(t) \/ AlarmExpires(t)
        PROVE  ReadHasData'
    BY <1>6 DEF ConnectTest, AttemptFails, ConnectReturns, Backoff,
       SendFails, SendUnanswered,
       AlarmExpires, network, stream
  <1>7. ASSUME NEW t \in Threads, Completion(t) PROVE ReadHasData'
    BY <1>7 DEF Completion, ReadCompletes, ReadFails, ConnectCompletes,
       network,
       stream
  <1>8. CASE Outage \/ ServerReturns \/ ServerWrites \/ UNCHANGED vars
    BY <1>8 DEF Outage, ServerReturns, ServerWrites, vars, network, stream
  <1>9. QED
    BY <1>1, <1>2, <1>3, <1>4, <1>5, <1>6, <1>7, <1>8
       DEF Next, Step, Handler, Reconnect

(* The invariant holds from the start, when nothing has been read. *)
LEMMA ReadHasDataAlways == Spec => []ReadHasData
  <1>1. Init => ReadHasData
    BY DEF Init, ReadHasData
  <1>2. Consistent /\ ReadHasData /\ [Next]_vars => ReadHasData'
    BY StepReadHasData
  <1>3. QED
    BY <1>1, <1>2, ConsistentAlways, PTL DEF Spec

(* A sequence is a first part and a rest, either of which may be empty. *)
LEMMA FirstPart ==
  ASSUME NEW S, NEW a \in Seq(S), NEW b \in Seq(S), a # <<>>
  PROVE  /\ Len(a) \in 1..Len(a \o b)
         /\ SubSeq(a \o b, 1, Len(a)) = a
  <1>1. Len(a) \in Nat \ {0} /\ Len(b) \in Nat
    BY EmptySeq, LenProperties
  <1>2. Len(a \o b) = Len(a) + Len(b)
    BY ConcatProperties
  <1>3. SubSeq(a \o b, 1, Len(a)) = SubSeq(a, 1, Len(a))
    BY <1>1, SubSeqOfConcat1
  <1>4. QED
    BY <1>1, <1>2, <1>3, SubSeqFull

(* The rest begins after the last element of the first part. *)
LEMMA Rest ==
  ASSUME NEW S, NEW a \in Seq(S), NEW b \in Seq(S)
  PROVE  SubSeq(a \o b, Len(a) + 1, Len(a \o b)) = b
  <1>1. Len(a) \in Nat /\ Len(b) \in Nat /\ Len(a \o b) = Len(a) + Len(b)
    BY ConcatProperties, LenProperties
  <1>2. CASE b = <<>>
    <2>1. Len(b) = 0
      BY <1>2, EmptySeq
    <2>2. Len(a) + 1 \in Int /\ Len(a \o b) \in Int /\ Len(a \o b) < Len(a) + 1
      BY <1>1, <2>1
    <2>3. SubSeq(a \o b, Len(a) + 1, Len(a \o b)) = <<>>
      BY <2>2, SubSeqEmpty
    <2>4. QED
      BY <1>2, <2>3
  <1>3. CASE b # <<>>
    <2>1. Len(b) # 0
      BY <1>3, EmptySeq
    <2>2. /\ Len(a) + 1 \in Len(a) + 1..Len(a) + Len(b)
          /\ Len(a) + Len(b) \in Len(a) + 1..Len(a) + Len(b)
      BY <1>1, <2>1
    <2>3. SubSeq(a \o b, Len(a) + 1, Len(a) + Len(b))
            = SubSeq(b, (Len(a) + 1) - Len(a), (Len(a) + Len(b)) - Len(a))
      BY <2>2, SubSeqOfConcat2
    <2>4. (Len(a) + 1) - Len(a) = 1 /\ (Len(a) + Len(b)) - Len(a) = Len(b)
      BY <1>1
    <2>5. QED
      BY <1>1, <2>3, <2>4, SubSeqFull
  <1>4. QED
    BY <1>2, <1>3
-----------------------------------------------------------------------------
(* The stream that the connector implements, with its conditions on losses. *)
StreamStep ==
  \/ Stream!ReliableNext
  \/ Stream!Lose /\ (socket' # "connected" \/ timedOut[Listener])
  \/ UNCHANGED Stream!vars

(* What is on its way and has not been read is lost. *)
LEMMA FlightLost ==
  ASSUME NetworkTypes, inFlight' = <<>>, buffer' = buffer,
         written' = written, returned' = returned
  PROVE  Stream!Lose \/ UNCHANGED Stream!vars
  <1> DEFINE S == 1..written
             old == buffer \o inFlight
  <1>1. buffer \in Seq(S) /\ inFlight \in Seq(S) /\ old \in Seq(S)
    BY ConcatProperties DEF NetworkTypes
  <1>2. buffer' \o inFlight' = buffer
    BY <1>1, ConcatEmptySeq
  <1>3. CASE old = <<>>
    <2>1. buffer = <<>>
      BY <1>1, <1>3, ConcatEqualIffEmpty
    <2>2. QED
      BY <1>2, <1>3, <2>1 DEF Stream!vars
  <1>4. CASE old # <<>> /\ buffer = <<>>
    BY <1>2, <1>4 DEF Stream!Lose
  <1>5. CASE old # <<>> /\ buffer # <<>>
    <2>1. Len(buffer) \in 1..Len(old) /\ SubSeq(old, 1, Len(buffer)) = buffer
      BY <1>1, <1>5, FirstPart
    <2>2. 1 \in 1..Len(old)
      BY <2>1
    <2>3. QED
      BY <1>2, <1>5, <2>1, <2>2 DEF Stream!Lose
  <1>6. QED
    BY <1>3, <1>4, <1>5

(* What has been read is lost before it is returned. *)
LEMMA BufferLost ==
  ASSUME NetworkTypes, buffer' = <<>>, inFlight' = inFlight,
         written' = written, returned' = returned
  PROVE  Stream!Lose \/ UNCHANGED Stream!vars
  <1> DEFINE S == 1..written
             old == buffer \o inFlight
  <1>1. buffer \in Seq(S) /\ inFlight \in Seq(S) /\ old \in Seq(S)
    BY ConcatProperties DEF NetworkTypes
  <1>2. buffer' \o inFlight' = inFlight
    BY <1>1, ConcatEmptySeq
  <1>3. CASE buffer = <<>>
    BY <1>2, <1>3 DEF Stream!vars
  <1>4. CASE inFlight = <<>> /\ buffer # <<>>
    <2>1. old # <<>>
      BY <1>1, <1>4, ConcatEmptySeq
    <2>2. QED
      BY <1>2, <1>4, <2>1 DEF Stream!Lose
  <1>5. CASE inFlight # <<>> /\ buffer # <<>>
    <2>1. SubSeq(old, Len(buffer) + 1, Len(old)) = inFlight
      BY <1>1, Rest
    <2>2. /\ Len(buffer) \in Nat /\ Len(inFlight) \in Nat \ {0}
          /\ Len(old) = Len(buffer) + Len(inFlight)
      BY <1>1, <1>5, EmptySeq, LenProperties, ConcatProperties
    <2>3. Len(buffer) + 1 \in 1..Len(old) /\ Len(old) \in 1..Len(old)
      BY <2>2
    <2>4. old # <<>>
      BY <1>1, <1>5, ConcatEqualIffEmpty
    <2>5. QED
      BY <1>2, <2>1, <2>3, <2>4 DEF Stream!Lose
  <1>6. QED
    BY <1>3, <1>4, <1>5

(* receive() returns all that has been read. *)
LEMMA BufferDelivered ==
  ASSUME NetworkTypes, buffer' = <<>>, inFlight' = inFlight,
         written' = written, returned' = returned \o buffer
  PROVE  Stream!Deliver \/ UNCHANGED Stream!vars
  <1> DEFINE S == 1..written
             old == buffer \o inFlight
  <1>1. /\ buffer \in Seq(S) /\ inFlight \in Seq(S) /\ old \in Seq(S)
        /\ returned \in Seq(S)
    BY ConcatProperties DEF NetworkTypes
  <1>2. buffer' \o inFlight' = inFlight
    BY <1>1, ConcatEmptySeq
  <1>3. CASE buffer = <<>>
    <2>1. returned' = returned
      BY <1>1, <1>3, ConcatEmptySeq
    <2>2. QED
      BY <1>2, <1>3, <2>1 DEF Stream!vars
  <1>4. CASE buffer # <<>>
    <2>1. Len(buffer) \in 1..Len(old) /\ SubSeq(old, 1, Len(buffer)) = buffer
      BY <1>1, <1>4, FirstPart
    <2>2. SubSeq(old, Len(buffer) + 1, Len(old)) = inFlight
      BY <1>1, Rest
    <2>3. QED
      BY <1>2, <2>1, <2>2 DEF Stream!Deliver
  <1>5. QED
    BY <1>3, <1>4

(* What the server writes joins what is on its way. *)
LEMMA WritesToStream ==
  ASSUME NetworkTypes, ServerWrites
  PROVE  Stream!Write
  <1>1. /\ buffer \in Seq(Nat) /\ inFlight \in Seq(Nat)
        /\ written \in Nat
    BY TcpConnectorAssumption, SeqMonotonic DEF NetworkTypes
  <1>2. /\ inFlight' = Append(inFlight, written + 1)
        /\ written' = written + 1
        /\ buffer' = buffer /\ returned' = returned
    BY DEF ServerWrites
  <1>3. Append(inFlight, written + 1) = inFlight \o <<written + 1>>
    BY <1>1, AppendIsConcat
  <1>4. /\ buffer \o inFlight \in Seq(Nat)
        /\ <<written + 1>> \in Seq(Nat)
    BY <1>1, ConcatProperties
  <1>5. buffer \o (inFlight \o <<written + 1>>)
          = (buffer \o inFlight) \o <<written + 1>>
    BY <1>1, <1>4, ConcatAssociative
  <1>6. Append(buffer \o inFlight, written + 1)
          = (buffer \o inFlight) \o <<written + 1>>
    BY <1>1, <1>4, AppendIsConcat
  <1>7. QED
    BY <1>2, <1>3, <1>5, <1>6 DEF Stream!Write

(* A read moves segments from one part of the stream to the other. *)
LEMMA ReadKeepsStream ==
  ASSUME Consistent, NEW t \in Threads, ReadCompletes(t)
  PROVE  UNCHANGED Stream!vars
  <1>1. t = Listener /\ op[t] = "pending"
    BY DEF ReadCompletes, Consistent, OnlyListenerReads
  <1>2. buffer = <<>>
    BY <1>1 DEF Consistent, TypeOK
  <1>3. PICK n \in 1..Len(inFlight) :
          /\ buffer' = SubSeq(inFlight, 1, n)
          /\ inFlight' = SubSeq(inFlight, n + 1, Len(inFlight))
    BY DEF ReadCompletes
  <1>4. inFlight \in Seq(1..written) /\ Len(inFlight) \in Nat
    BY LenProperties DEF Consistent, TypeOK, NetworkTypes
  <1>5. SubSeq(inFlight, 1, n) \o SubSeq(inFlight, n + 1, Len(inFlight)) = inFlight
    <2>1. SubSeq(inFlight, 1, n) \o SubSeq(inFlight, n + 1, Len(inFlight))
            = SubSeq(inFlight, 1, Len(inFlight))
      BY <1>4, ConcatAdjacentSubSeq
    <2>2. QED
      BY <1>4, <2>1, SubSeqFull
  <1>6. buffer \o inFlight = inFlight
    BY <1>2, <1>4, ConcatEmptySeq
  <1>7. written' = written /\ returned' = returned
    BY DEF ReadCompletes
  <1>8. QED
    BY <1>3, <1>5, <1>6, <1>7 DEF Stream!vars

(* receive() delivers what it has read, unless its deadline came first. *)
LEMMA ReceiveToStream ==
  ASSUME Consistent, ReadHasData, NEW t \in Threads, ReceiveReturns(t)
  PROVE  StreamStep
  <1>1. t = Listener /\ op[t] = "none"
    BY DEF ReceiveReturns, NoWork, Consistent, OnlyListenerReads
  <1>2. /\ NetworkTypes
        /\ buffer' = <<>> /\ inFlight' = inFlight /\ written' = written
        /\ returned' = returned \o Results(t)
    BY DEF ReceiveReturns, Consistent, TypeOK
  <1>3. CASE ~timedOut[t] /\ result[t] = "ok"
    BY <1>2, <1>3, BufferDelivered DEF Results, StreamStep, Stream!ReliableNext
  <1>4. CASE timedOut[t] \/ result[t] # "ok"
    <2>1. returned' = returned
      BY <1>2, <1>4, ConcatEmptySeq DEF Results, NetworkTypes
    <2>2. Stream!Lose \/ UNCHANGED Stream!vars
      BY <1>2, <2>1, BufferLost
    <2>3. CASE timedOut[t]
      BY <1>1, <2>2, <2>3 DEF StreamStep
    <2>4. CASE result[t] # "ok"
      <3>1. buffer = <<>>
        BY <1>1, <2>4 DEF ReadHasData
      <3>2. UNCHANGED Stream!vars
        BY <1>2, <2>1, <3>1 DEF Stream!vars
      <3>3. QED
        BY <3>2 DEF StreamStep
    <2>5. QED
      BY <1>4, <2>3, <2>4
  <1>5. QED
    BY <1>3, <1>4

(* Every other step leaves the stream alone, or loses a part of it with    *)
(* the connection or after a timeout.                                      *)
LEMMA LossesOnlyWithoutConnection ==
  ASSUME Consistent,
         \/ Outage
         \/ \E t \in Threads : \/ Disconnect(t) \/ Attempt(t) \/ ConnectTimer(t)
                               \/ DeadlineHandlerThrows(t)
  PROVE  StreamStep
  <1> USE DEF StreamStep
  <1>1. NetworkTypes
    BY DEF Consistent, TypeOK
  <1>2. UNCHANGED <<buffer, inFlight, written, returned>> => StreamStep
    BY DEF Stream!vars
  <1>3. ASSUME Forgotten, socket' # "connected" PROVE StreamStep
    <2>1. Stream!Lose \/ UNCHANGED Stream!vars
      BY <1>1, <1>3, FlightLost DEF Forgotten
    <2>2. QED
      BY <1>3, <2>1
  <1>4. CASE Outage
    <2>1. /\ inFlight' \in {inFlight, <<>>}
          /\ buffer' = buffer /\ written' = written /\ returned' = returned
          /\ socket' # "connected"
      BY <1>4 DEF Outage
    <2>2. CASE inFlight' = inFlight
      BY <1>2, <2>1, <2>2
    <2>3. CASE inFlight' = <<>>
      <3>1. Stream!Lose \/ UNCHANGED Stream!vars
        BY <1>1, <2>1, <2>3, FlightLost
      <3>2. QED
        BY <2>1, <3>1
    <2>4. QED
      BY <2>1, <2>2, <2>3
  <1>5. ASSUME NEW t \in Threads, Disconnect(t) PROVE StreamStep
    <2>1. Forgotten /\ socket' # "connected"
      BY <1>5 DEF Disconnect
    <2>2. QED
      BY <1>3, <2>1
  <1>6. ASSUME NEW t \in Threads, Attempt(t) PROVE StreamStep
    <2>1. Forgotten /\ socket' # "connected"
      BY <1>6 DEF Attempt
    <2>2. QED
      BY <1>3, <2>1
  <1>7. ASSUME NEW t \in Threads, ConnectTimer(t) PROVE StreamStep
    <2>1. \/ Forgotten /\ socket' # "connected"
          \/ UNCHANGED <<buffer, inFlight, written, returned>>
      BY <1>7, Zenon DEF ConnectTimer, network, stream
    <2>2. QED
      BY <1>2, <1>3, <2>1
  <1>8. ASSUME NEW t \in Threads, DeadlineHandlerThrows(t) PROVE StreamStep
    <2>1. /\ buffer' \in {buffer, <<>>}
          /\ inFlight' = inFlight /\ written' = written /\ returned' = returned
          /\ socket' # "connected"
      BY <1>8 DEF DeadlineHandlerThrows
    <2>2. CASE buffer' = buffer
      BY <1>2, <2>1, <2>2
    <2>3. CASE buffer' = <<>>
      <3>1. Stream!Lose \/ UNCHANGED Stream!vars
        BY <1>1, <2>1, <2>3, BufferLost
      <3>2. QED
        BY <2>1, <3>1
    <2>4. QED
      BY <2>1, <2>2, <2>3
  <1>9. QED
    BY <1>4, <1>5, <1>6, <1>7, <1>8

(* So every step of the connector is a step of the stream, or a stutter. *)
LEMMA StepRefines ==
  ASSUME Consistent, ReadHasData, [Next]_vars
  PROVE  StreamStep
  <1>1. UNCHANGED stream => StreamStep
    BY DEF StreamStep, stream, Stream!vars
  <1>2. ASSUME NEW t \in Threads,
               \/ ReceiveThrows(t) \/ ReceiveBegins(t) \/ Relisten(t)
               \/ ReadHandler(t) \/ DeadlineHandler(t) \/ ConnectHandler(t)
               \/ ConnectTest(t) \/ AttemptFails(t) \/ ConnectReturns(t)
               \/ Backoff(t) \/ SendFails(t) \/ SendUnanswered(t) \/ AlarmExpires(t)
               \/ ReadFails(t) \/ ConnectCompletes(t)
        PROVE  StreamStep
    <2>1. UNCHANGED stream
      BY <1>2, Zenon DEF ReceiveThrows, ReceiveBegins, Relisten, ReadHandler,
         DeadlineHandler, ConnectHandler, ConnectTest, AttemptFails,
         ConnectReturns, Backoff, SendFails, SendUnanswered, AlarmExpires, ReadFails,
         ConnectCompletes, network
    <2>2. QED
      BY <1>1, <2>1
  <1>3. ASSUME NEW t \in Threads,
               \/ ReceiveReturns(t) \/ ReadCompletes(t) \/ Disconnect(t)
               \/ Attempt(t) \/ ConnectTimer(t) \/ DeadlineHandlerThrows(t)
        PROVE  StreamStep
    <2>1. CASE ReceiveReturns(t)
      BY <2>1, ReceiveToStream
    <2>2. CASE ReadCompletes(t)
      BY <2>2, ReadKeepsStream DEF StreamStep
    <2>3. QED
      BY <1>3, <2>1, <2>2, LossesOnlyWithoutConnection
  <1>4. CASE Outage
    BY <1>4, LossesOnlyWithoutConnection
  <1>5. CASE ServerReturns \/ UNCHANGED vars
    BY <1>1, <1>5, Zenon DEF ServerReturns, vars, network
  <1>6. CASE ServerWrites
    BY <1>6, WritesToStream DEF Consistent, TypeOK, StreamStep,
       Stream!ReliableNext
  <1>7. QED
    BY <1>2, <1>3, <1>4, <1>5, <1>6
       DEF Next, Step, Receive, Handler, Reconnect, Completion

(* receive() returns the server's bytes once and in their order, for any   *)
(* number of threads, outages and segments; what is missing was lost with  *)
(* a connection, or had been read when the deadline of receive() expired.  *)
THEOREM ConnectorImplementsStream == Spec => StreamSpec
  <1>1. Init => Stream!Init
    <2>1. Init => buffer \o inFlight = <<>>
      BY ConcatEmptySeq DEF Init
    <2>2. QED
      BY <2>1 DEF Init, Stream!Init
  <1>2. Consistent /\ ReadHasData /\ [Next]_vars =>
          [\/ Stream!ReliableNext
           \/ Stream!Lose /\ (socket' # "connected" \/ timedOut[Listener])
          ]_(Stream!vars)
    BY StepRefines DEF StreamStep
  <1>3. QED
    BY <1>1, <1>2, ConsistentAlways, ReadHasDataAlways, PTL DEF Spec,
       StreamSpec
=============================================================================
