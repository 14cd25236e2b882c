-------------------------- MODULE IConnector_proofs --------------------------
(* Theorems about IConnector for every set of clients, loops, uses and faults. *)
EXTENDS IConnector, TLAPS

(* The inductive invariant.  The types need the guard (depth stays small)  *)
(* and the guard needs the types.                                          *)
Consistent == TypeOK /\ GuardIsConsistent

(* Initially nobody is in a call. *)
LEMMA InitConsistent == Init => Consistent
  <1> SUFFICES ASSUME Init PROVE Consistent
    OBVIOUS
  <1>1. /\ pc \in [Threads -> {"idle", "none"}]
        /\ \A c \in Clients : pc[c] = "idle"
        /\ \A l \in Loops : pc[l] = "none"
    BY IConnectorAssumption DEF Init, Threads
  <1>2. DataTypes
    <2>1. handler \in [AccessType -> Clients \cup {None}]
      BY DEF Init
    <2>2. tokens \in [Clients -> SUBSET AccessType] /\ depth \in 0..2
      BY DEF Init
    <2>3. owner \in Threads \cup {None} /\ listeningThread \in Loops \cup {None}
      BY DEF Init
    <2>4. QED
      BY <2>1, <2>2, <2>3 DEF DataTypes
  <1>8. FlagTypes
    BY Zenon DEF Init, FlagTypes
  <1>3. PcTypes
    BY <1>1 DEF PcTypes, LoopLabels
  <1>4. ArgTypes
    BY DEF Init, ArgTypes
  <1>5. CallbackTypes
    BY <1>1 DEF Init, CallbackTypes, CallLabels
  <1>6. GuardIsConsistent
    <2>1. \A l \in Loops : ~LoopGuards(l)
      BY <1>1 DEF LoopGuards, CallLabels
    <2>2. \A t \in Threads : pc[t] # "xmit"
      BY <1>1
    <2>3. \A t \in Threads : Holds(t) = 0
      BY <2>1, <2>2 DEF Holds
    <2>4. QED
      BY <2>3 DEF Init, GuardIsConsistent
  <1>7. QED
    BY <1>2, <1>3, <1>4, <1>5, <1>6, <1>8 DEF Consistent, TypeOK

(* Beginning a call does not touch the guard. *)
LEMMA CallConsistent ==
  ASSUME Consistent, NEW t \in Threads, Call(t)
  PROVE  Consistent'
  <1> USE IConnectorAssumption DEF Consistent, TypeOK, Call, CallRegister,
        CallWithToken, DirectSendBegins, ListenTest, StopFlag, MayCall, Home,
        Goto, PcTypes, CallLabels, LoopLabels, Threads, accessVars, guardVars,
        loopVars
  <1>1. DataTypes'
    BY DEF DataTypes, ArgTypes, CallbackTypes, GuardIsConsistent, Holds,
           LoopGuards
  <1>2. PcTypes'
    OBVIOUS
  <1>3. ArgTypes'
    BY DEF ArgTypes
  <1>4. CallbackTypes'
    BY DEF CallbackTypes
  <1>5. GuardIsConsistent'
    BY DEF DataTypes, GuardIsConsistent, Holds, LoopGuards
  <1>6. FlagTypes'
    BY Zenon DEF FlagTypes
  <1>7. QED
    BY <1>1, <1>2, <1>3, <1>4, <1>5, <1>6

(* A call that waited for the guard locks it only if it goes on to         *)
(* transmit.                                                               *)
LEMMA WaitingConsistent ==
  ASSUME Consistent, NEW t \in Threads, Waiting(t)
  PROVE  Consistent'
  <1> USE IConnectorAssumption DEF Consistent, TypeOK, Waiting, Register,
        Unregister, SendRefused, SendBegins, Refused, MaySend, CanLock, Lock,
        Return, Home, Self, Goto, PcTypes, CallLabels, LoopLabels, Threads,
        accessVars, guardVars, loopVars
  <1>1. DataTypes'
    BY DEF DataTypes, ArgTypes, CallbackTypes, GuardIsConsistent, Holds,
           LoopGuards
  <1>2. PcTypes'
    OBVIOUS
  <1>3. ArgTypes'
    BY DEF ArgTypes
  <1>4. CallbackTypes'
    BY DEF CallbackTypes
  <1>5. GuardIsConsistent'
    BY DEF DataTypes, GuardIsConsistent, Holds, LoopGuards
  <1>6. FlagTypes'
    BY Zenon DEF FlagTypes
  <1>7. QED
    BY <1>1, <1>2, <1>3, <1>4, <1>5, <1>6

(* The end of a transmission gives back the one lock it took. *)
LEMMA SendingConsistent ==
  ASSUME Consistent, NEW t \in Threads, Sending(t)
  PROVE  Consistent'
  <1> USE IConnectorAssumption DEF Consistent, TypeOK, Sending, SendEnds,
        DirectSendEnds, Unlock, Return, Home, Goto, PcTypes, CallLabels,
        LoopLabels, Threads, accessVars, guardVars, loopVars
  <1>1. DataTypes'
    BY DEF DataTypes, ArgTypes, CallbackTypes, GuardIsConsistent, Holds,
           LoopGuards
  <1>2. PcTypes'
    OBVIOUS
  <1>3. ArgTypes'
    BY DEF ArgTypes
  <1>4. CallbackTypes'
    BY DEF CallbackTypes
  <1>5. GuardIsConsistent'
    BY DEF DataTypes, GuardIsConsistent, Holds, LoopGuards
  <1>6. FlagTypes'
    BY Zenon DEF FlagTypes
  <1>7. QED
    BY <1>1, <1>2, <1>3, <1>4, <1>5, <1>6

(* listen() and stopListen() never lock, and a loop that is joined is over. *)
LEMMA ControlConsistent ==
  ASSUME Consistent, NEW t \in Threads, Control(t)
  PROVE  Consistent'
  <1> USE IConnectorAssumption DEF Consistent, TypeOK, Control, ListenFlag,
        ListenSpawn, ListenSpawnFails, ListenAssign, StopJoins,
        StopDoesNotJoin, Joined, Return, Home, Goto, PcTypes,
        CallLabels, LoopLabels, Threads, accessVars, guardVars, loopVars
  <1>1. DataTypes'
    BY DEF DataTypes, ArgTypes, CallbackTypes, GuardIsConsistent, Holds,
           LoopGuards
  <1>2. PcTypes'
    OBVIOUS
  <1>3. ArgTypes'
    <2>1. CASE StopJoins(t)
      BY <2>1 DEF DataTypes, ArgTypes
    <2>2. CASE ~StopJoins(t)
      BY <2>2 DEF ArgTypes
    <2>3. QED
      BY <2>1, <2>2
  <1>4. CallbackTypes'
    BY DEF CallbackTypes
  <1>5. GuardIsConsistent'
    BY DEF DataTypes, GuardIsConsistent, Holds, LoopGuards
  <1>6. FlagTypes'
    BY Zenon DEF FlagTypes
  <1>7. QED
    BY <1>1, <1>2, <1>3, <1>4, <1>5, <1>6

(* The loop outside its handlers: the iteration that held the guard frees  *)
(* it.                                                                     *)
LEMMA RunningConsistent ==
  ASSUME Consistent, NEW l \in Loops, Running(l)
  PROVE  Consistent'
  <1> USE IConnectorAssumption DEF Consistent, TypeOK, Running, LoopHead,
        Receive, EndIteration, Catch, Unlock, Goto, PcTypes, CallLabels,
        LoopLabels, Threads, accessVars, guardVars, loopVars
  <1>1. DataTypes'
    BY DEF DataTypes, ArgTypes, CallbackTypes, GuardIsConsistent, Holds,
           LoopGuards
  <1>2. PcTypes'
    OBVIOUS
  <1>3. ArgTypes'
    BY DEF ArgTypes
  <1>4. CallbackTypes'
    BY DEF CallbackTypes
  <1>5. GuardIsConsistent'
    BY DEF DataTypes, GuardIsConsistent, Holds, LoopGuards
  <1>6. FlagTypes'
    BY Zenon DEF FlagTypes
  <1>7. QED
    BY <1>1, <1>2, <1>3, <1>4, <1>5, <1>6

(* A message in hand locks the guard, unless there is nobody to call. *)
LEMMA HandingConsistent ==
  ASSUME Consistent, NEW l \in Loops, Handing(l)
  PROVE  Consistent'
  <1> USE IConnectorAssumption DEF Consistent, TypeOK, Handing, Dispatch,
        DispatchNobody, CanLock, Lock, Target, Goto, PcTypes, CallLabels,
        LoopLabels, Threads, accessVars, guardVars, loopVars
  <1>1. DataTypes'
    BY DEF DataTypes, ArgTypes, CallbackTypes, GuardIsConsistent, Holds,
           LoopGuards
  <1>2. PcTypes'
    OBVIOUS
  <1>3. ArgTypes'
    BY DEF ArgTypes
  <1>4. CallbackTypes'
    <2>1. CASE DispatchNobody(l)
      BY <2>1, IConnectorAssumption
         DEF PcTypes, CallbackTypes, CallLabels, LoopLabels, Threads
    <2>2. CASE Dispatch(l)
      <3> DEFINE call == [slot |-> Target, client |-> handler[Target]]
      <3>1. call \in [slot : AccessType, client : Clients]
        BY <2>2 DEF DataTypes, AccessType
      <3>2. call # NoCallback
        BY <3>1, IConnectorAssumption DEF NoCallback
      <3>3. callback' = [callback EXCEPT ![l] = call]
        BY <2>2
      <3>4. pc' = [pc EXCEPT ![l] = "callback"]
        BY <2>2
      <3> HIDE DEF call
      <3>5. QED
        BY <3>1, <3>2, <3>3, <3>4 DEF PcTypes, CallbackTypes, Threads
    <2>3. QED
      BY <2>1, <2>2
  <1>5. GuardIsConsistent'
    BY DEF DataTypes, GuardIsConsistent, Holds, LoopGuards
  <1>6. FlagTypes'
    BY Zenon DEF FlagTypes
  <1>7. QED
    BY <1>1, <1>2, <1>3, <1>4, <1>5, <1>6

(* From handler to handler the guard stays; an exception gives it back. *)
LEMMA HandlingConsistent ==
  ASSUME Consistent, NEW l \in Loops, Handling(l)
  PROVE  Consistent'
  <1> USE IConnectorAssumption DEF Consistent, TypeOK, Handling, ThenSniffer,
        HandlersDone, HandlerThrows, Unlock, Goto, PcTypes, CallLabels,
        LoopLabels, Threads, accessVars, guardVars, loopVars
  <1>1. DataTypes'
    BY DEF DataTypes, ArgTypes, CallbackTypes, GuardIsConsistent, Holds,
           LoopGuards
  <1>2. PcTypes'
    OBVIOUS
  <1>3. ArgTypes'
    BY DEF ArgTypes
  <1>4. CallbackTypes'
    <2>1. CASE ThenSniffer(l)
      <3> DEFINE call == [slot |-> "Sniffer", client |-> handler["Sniffer"]]
      <3>1. call \in [slot : AccessType, client : Clients]
        BY <2>1 DEF DataTypes, AccessType
      <3>2. call # NoCallback
        BY <3>1, IConnectorAssumption DEF NoCallback
      <3>3. callback' = [callback EXCEPT ![l] = call] /\ pc' = pc
        BY <2>1
      <3> HIDE DEF call
      <3>4. QED
        BY <2>1, <3>1, <3>2, <3>3 DEF CallbackTypes
    <2>2. CASE HandlersDone(l) \/ HandlerThrows(l)
      <3>1. callback' = [callback EXCEPT ![l] = NoCallback]
        BY <2>2
      <3>2. PICK label \in {"hold", "catch"} : pc' = [pc EXCEPT ![l] = label]
        BY <2>2
      <3>3. QED
        BY <3>1, <3>2 DEF PcTypes, CallbackTypes, CallLabels, Threads
    <2>3. QED
      BY <2>1, <2>2
  <1>5. GuardIsConsistent'
    BY DEF DataTypes, GuardIsConsistent, Holds, LoopGuards
  <1>6. FlagTypes'
    BY Zenon DEF FlagTypes
  <1>7. QED
    BY <1>1, <1>2, <1>3, <1>4, <1>5, <1>6

(* The invariant is inductive. *)
LEMMA StepConsistent == Consistent /\ [Next]_vars => Consistent'
  <1> SUFFICES ASSUME Consistent, [Next]_vars PROVE Consistent'
    OBVIOUS
  <1>1. ASSUME NEW t \in Threads, Step(t) PROVE Consistent'
    BY <1>1, CallConsistent, WaitingConsistent, SendingConsistent,
       ControlConsistent DEF Step
  <1>2. ASSUME NEW l \in Loops, LoopStep(l) PROVE Consistent'
    BY <1>2, RunningConsistent, HandingConsistent, HandlingConsistent
       DEF LoopStep
  <1>3. CASE UNCHANGED vars
    BY <1>3 DEF vars, Consistent, TypeOK, DataTypes, FlagTypes, PcTypes,
       ArgTypes, CallbackTypes, GuardIsConsistent, Holds, LoopGuards
  <1>4. QED
    BY <1>1, <1>2, <1>3 DEF Next

(* The inductive invariant holds in every reachable state. *)
THEOREM ConsistentAlways == Spec => []Consistent
  <1>1. QED
    BY InitConsistent, StepConsistent, PTL DEF Spec

(* Types, for every number of clients and loops and any interleaving. *)
THEOREM TypeCorrectness == Spec => []TypeOK
  <1>1. Consistent => TypeOK
    BY DEF Consistent
  <1>2. QED
    BY <1>1, ConsistentAlways, PTL

(* The recursive mutex is released exactly as often as it is locked. *)
THEOREM GuardCorrectness == Spec => []GuardIsConsistent
  <1>1. Consistent => GuardIsConsistent
    BY DEF Consistent
  <1>2. QED
    BY <1>1, ConsistentAlways, PTL

(* Whoever transmits with a token, runs a handler or sleeps after one is   *)
(* the owner of the guard.                                                 *)
LEMMA GuardedIsOwner ==
  ASSUME Consistent, NEW t \in Threads, Holds(t) > 0
  PROVE  owner = t
  BY DEF Consistent, GuardIsConsistent

(* In particular a thread that transmits with a token is. *)
LEMMA TransmitterIsOwner ==
  ASSUME Consistent, NEW t \in Threads, pc[t] = "xmit"
  PROVE  owner = t
  <1>1. Holds(t) > 0
    BY DEF Holds
  <1>2. QED
    BY <1>1, GuardedIsOwner

(* And so is a loop that runs a handler. *)
LEMMA CallbackIsOwner ==
  ASSUME Consistent, NEW l \in Loops, callback[l] # NoCallback
  PROVE  owner = l
  <1>1. LoopGuards(l)
    BY DEF Consistent, TypeOK, CallbackTypes, LoopGuards
  <1>2. pc[l] \in CallLabels \cup LoopLabels \cup {"idle"}
    BY DEF Consistent, TypeOK, PcTypes, Threads
  <1>3. Holds(l) > 0
    BY <1>1 DEF Holds
  <1>4. QED
    BY <1>3, GuardedIsOwner DEF Threads

(* Sends with a token and response handlers of two threads never overlap. *)
THEOREM MutualExclusionHolds == Spec => []MutualExclusion
  <1>1. Consistent => MutualExclusion
    BY GuardedIsOwner DEF MutualExclusion
  <1>2. QED
    BY <1>1, ConsistentAlways, PTL

-----------------------------------------------------------------------------
(* Exclusive access is not granted while a normal send is under way: only  *)
(* a registration could make it so, and it needs the guard, which the      *)
(* sender owns.                                                            *)
LEMMA StepNormalSend ==
  ASSUME Consistent, NormalSendExcludesExclusive, [Next]_vars
  PROVE  NormalSendExcludesExclusive'
  <1> SUFFICES ASSUME NEW t \in Threads, (pc[t] = "xmit")', (arg[t] = "Normal")'
               PROVE  ~HasExclusiveAccess'
    BY DEF NormalSendExcludesExclusive
  <1> USE DEF NormalSendExcludesExclusive, HasExclusiveAccess, Goto,
        accessVars, guardVars, loopVars
  <1>1. PcTypes /\ ArgTypes /\ DataTypes
    BY DEF Consistent, TypeOK
  <1>2. ASSUME NEW u \in Threads, Register(u) PROVE ~HasExclusiveAccess'
    <2>1. pc[t] = "xmit" /\ t # u
      BY <1>1, <1>2 DEF Register, Return, Home, PcTypes
    <2>2. owner = t
      BY <2>1, TransmitterIsOwner
    <2>3. QED
      BY <1>2, <2>1, <2>2, IConnectorAssumption DEF Register, CanLock, Threads
  <1>3. ASSUME NEW u \in Threads, Unregister(u) PROVE ~HasExclusiveAccess'
    BY <1>1, <1>3 DEF Unregister, Return, Home, PcTypes, ArgTypes, DataTypes
  <1>4. ASSUME NEW u \in Threads, SendRefused(u) \/ SendBegins(u) \/ Sending(u)
        PROVE ~HasExclusiveAccess'
    BY <1>1, <1>4 DEF SendRefused, SendBegins, Sending, SendEnds, DirectSendEnds,
       MaySend, Return, Home, PcTypes, ArgTypes
  <1>5. ASSUME NEW u \in Threads, Call(u) PROVE ~HasExclusiveAccess'
    BY <1>1, <1>5 DEF Call, CallRegister, CallWithToken, DirectSendBegins,
       ListenTest, StopFlag, PcTypes, ArgTypes
  <1>6. ASSUME NEW u \in Threads, Control(u) PROVE ~HasExclusiveAccess'
    BY <1>1, <1>6 DEF Control, ListenFlag, ListenSpawn, ListenSpawnFails,
       ListenAssign, StopJoins, StopDoesNotJoin, Joined, Return, Home,
       PcTypes, ArgTypes, Threads
  <1>7. ASSUME NEW l \in Loops, LoopStep(l) PROVE ~HasExclusiveAccess'
    BY <1>1, <1>7 DEF LoopStep, Running, LoopHead, Receive, EndIteration, Catch,
       Handing, Dispatch, DispatchNobody, Handling, ThenSniffer, HandlersDone,
       HandlerThrows, PcTypes, ArgTypes
  <1>8. CASE UNCHANGED vars
    BY <1>8 DEF vars
  <1>9. QED
    BY <1>2, <1>3, <1>4, <1>5, <1>6, <1>7, <1>8 DEF Next, Step, Waiting

(* A normal send and exclusive access never coexist. *)
THEOREM NormalSendCorrectness == Spec => []NormalSendExcludesExclusive
  <1>1. Init => NormalSendExcludesExclusive
    BY DEF Init, NormalSendExcludesExclusive, HasExclusiveAccess, AccessType
  <1>2. Consistent /\ NormalSendExcludesExclusive /\ [Next]_vars
          => NormalSendExcludesExclusive'
    BY StepNormalSend
  <1>3. QED
    BY <1>1, <1>2, ConsistentAlways, PTL DEF Spec

-----------------------------------------------------------------------------
(* Handlers that make no registrations of their own. *)
QuietHandlers == ReentrantCalls \cap {"register", "unregister"} = {}

(* Then loop threads are never inside a registration, and what a loop      *)
(* calls stays registered: the registration would need the guard.          *)
HandlerInv ==
  /\ \A l \in Loops : pc[l] \notin {"register", "unregister"}
  /\ RunningHandlerIsRegistered
  /\ NormalHandlerExcludesExclusive

(* That invariant is inductive, given the first one. *)
LEMMA StepHandlerInv ==
  ASSUME QuietHandlers, Consistent, HandlerInv, [Next]_vars
  PROVE  HandlerInv'
  <1> USE DEF HandlerInv, RunningHandlerIsRegistered,
        NormalHandlerExcludesExclusive, HasExclusiveAccess, Goto,
        accessVars, guardVars, loopVars
  <1>1. PcTypes /\ DataTypes /\ CallbackTypes
    BY DEF Consistent, TypeOK
  <1>2. ASSUME NEW t \in Threads, Call(t) PROVE HandlerInv'
    BY <1>1, <1>2, IConnectorAssumption DEF Call, CallRegister, CallWithToken,
       DirectSendBegins, ListenTest, StopFlag, MayCall, QuietHandlers,
       PcTypes, Threads
  <1>3. ASSUME NEW t \in Threads, Register(t) \/ Unregister(t)
        PROVE  HandlerInv'
    <2>1. t \in Clients
      BY <1>3 DEF Register, Unregister, Threads
    <2>2. \A l \in Loops : callback[l] = NoCallback
      BY <1>3, <2>1, CallbackIsOwner, IConnectorAssumption
         DEF Register, Unregister, CanLock, Threads
    <2>3. callback' = callback /\ pc' = [pc EXCEPT ![t] = "idle"]
      BY <1>3, <2>1, IConnectorAssumption
         DEF Register, Unregister, Return, Home
    <2>4. \A l \in Loops : callback'[l].slot # "Normal"
      BY <2>2, <2>3, IConnectorAssumption DEF NoCallback, AccessType
    <2>5. QED
      BY <1>1, <2>1, <2>2, <2>3, <2>4 DEF PcTypes, Threads
  <1>4. ASSUME NEW t \in Threads, SendRefused(t) \/ SendBegins(t) \/ Sending(t)
        PROVE  HandlerInv'
    BY <1>1, <1>4 DEF SendRefused, SendBegins, Sending, SendEnds,
       DirectSendEnds, Return, Home, PcTypes, Threads
  <1>5. ASSUME NEW t \in Threads, Control(t) PROVE HandlerInv'
    BY <1>1, <1>5 DEF Control, ListenFlag, ListenSpawn, ListenSpawnFails,
       ListenAssign, StopJoins, StopDoesNotJoin, Joined, Return, Home,
       PcTypes, Threads
  <1>6. ASSUME NEW l \in Loops, Running(l) \/ DispatchNobody(l)
        PROVE  HandlerInv'
    BY <1>1, <1>6 DEF Running, LoopHead, Receive, EndIteration, Catch,
       DispatchNobody, PcTypes, Threads
  <1>7. ASSUME NEW l \in Loops, Dispatch(l) PROVE HandlerInv'
    BY <1>1, <1>7 DEF Dispatch, Target, PcTypes, CallbackTypes
  <1>8. ASSUME NEW l \in Loops, Handling(l) PROVE HandlerInv'
    <2>1. CASE ThenSniffer(l)
      BY <1>1, <2>1 DEF ThenSniffer, CallbackTypes
    <2>2. CASE HandlersDone(l) \/ HandlerThrows(l)
      <3>1. callback' = [callback EXCEPT ![l] = NoCallback] /\ handler' = handler
        BY <2>2 DEF HandlersDone, HandlerThrows
      <3>2. NoCallback.slot # "Normal"
        BY IConnectorAssumption DEF NoCallback, AccessType
      <3>3. \A k \in Loops : pc'[k] \notin {"register", "unregister"}
        BY <1>1, <2>2 DEF HandlersDone, HandlerThrows, PcTypes, Threads
      <3>4. QED
        BY <1>1, <3>1, <3>2, <3>3 DEF CallbackTypes
    <2>3. QED
      BY <1>8, <2>1, <2>2 DEF Handling
  <1>9. CASE UNCHANGED vars
    BY <1>9 DEF vars
  <1>10. QED
    BY <1>2, <1>3, <1>4, <1>5, <1>6, <1>7, <1>8, <1>9
       DEF Next, Step, Waiting, LoopStep, Handing

(* A handler runs only while it is registered, the normal one only while   *)
(* nobody has exclusive access, if handlers do not register or unregister. *)
THEOREM HandlerCorrectness ==
  ASSUME QuietHandlers
  PROVE  Spec => [](RunningHandlerIsRegistered /\ NormalHandlerExcludesExclusive)
  <1>1. Init => HandlerInv
    <2>1. Init => \A l \in Loops : pc[l] = "none" /\ callback[l] = NoCallback
      BY IConnectorAssumption DEF Init, Threads
    <2>2. NoCallback.slot # "Normal"
      BY IConnectorAssumption DEF NoCallback, AccessType
    <2>3. QED
      BY <2>1, <2>2 DEF HandlerInv, RunningHandlerIsRegistered,
         NormalHandlerExcludesExclusive
  <1>2. Consistent /\ HandlerInv /\ [Next]_vars => HandlerInv'
    BY StepHandlerInv
  <1>3. HandlerInv => RunningHandlerIsRegistered /\ NormalHandlerExcludesExclusive
    BY DEF HandlerInv
  <1>4. QED
    BY <1>1, <1>2, <1>3, ConsistentAlways, PTL DEF Spec

-----------------------------------------------------------------------------
(* The loop is stopped before it is started again, and handlers do not     *)
(* start it.                                                               *)
Orderly == StopsBeforeListen /\ "listen" \notin ReentrantCalls

(* One client at a time is in listen() or stopListen(), as when a lock of  *)
(* the application's own serialises them.                                  *)
ControlLabels == {"flag", "spawn", "assign", "join", "joining"}

OneInControl ==
  \A c, d \in Clients : {pc[c], pc[d]} \subseteq ControlLabels => c = d

(* The threads inside listen() are controllers, and they got there with    *)
(* the std::thread member reset.  A handler that calls stopListen() runs   *)
(* on the only loop, whose join() of itself throws: no loop is a joiner.   *)
LoopInv ==
  /\ \A t \in Threads : pc[t] \in {"flag", "spawn", "assign"} =>
       t \in Controllers /\ listeningThread = None /\ ~stopped
  /\ stopped => listeningThread = None
  /\ \A c \in Clients : pc[c] \in {"join", "joining"} => c \in Controllers
  /\ \A l \in Loops : pc[l] # "joining"
  /\ OneJoinableLoop
  /\ OneJoiner
  /\ NeverTerminates

(* It is inductive: `stopped` is set only where the member was seen reset. *)
LEMMA StepLoopInv ==
  ASSUME Orderly, OneInControl, Consistent, LoopInv, [Next]_vars
  PROVE  LoopInv'
  <1> USE DEF LoopInv, OneJoinableLoop, OneJoiner, NeverTerminates, Goto,
        accessVars, guardVars, loopVars
  <1>1. PcTypes /\ ArgTypes /\ DataTypes
    BY DEF Consistent, TypeOK
  <1>2. ASSUME NEW t \in Threads, Call(t) PROVE LoopInv'
    BY <1>1, <1>2, IConnectorAssumption DEF Call, CallRegister, CallWithToken,
       DirectSendBegins, ListenTest, StopFlag, MayCall, Home, Orderly,
       PcTypes, ArgTypes, Threads
  <1>3. ASSUME NEW t \in Threads, Waiting(t) \/ Sending(t) PROVE LoopInv'
    BY <1>1, <1>3, IConnectorAssumption DEF Waiting, Register, Unregister,
       SendRefused, SendBegins, Sending, SendEnds, DirectSendEnds, Return, Home,
       PcTypes, ArgTypes, Threads
  <1>4. ASSUME NEW t \in Threads, ListenFlag(t) PROVE LoopInv'
    BY <1>1, <1>4 DEF ListenFlag, PcTypes, Threads
  <1>5. ASSUME NEW t \in Threads, ListenSpawn(t) PROVE LoopInv'
    BY <1>1, <1>5, IConnectorAssumption
       DEF ListenSpawn, OneInControl, ControlLabels, PcTypes, ArgTypes, Threads
  <1>6. ASSUME NEW t \in Threads, ListenAssign(t) PROVE LoopInv'
    BY <1>1, <1>6, IConnectorAssumption
       DEF ListenAssign, Return, Home, OneInControl, ControlLabels, PcTypes,
           ArgTypes, Threads
  <1>7. ASSUME NEW t \in Threads, Joined(t) PROVE LoopInv'
    BY <1>1, <1>7, IConnectorAssumption
       DEF Joined, Home, OneInControl, ControlLabels, PcTypes, ArgTypes, Threads
  <1>8. ASSUME NEW t \in Threads,
               ListenSpawnFails(t) \/ StopJoins(t) \/ StopDoesNotJoin(t)
        PROVE  LoopInv'
    <2>1. CASE ListenSpawnFails(t)
      BY <1>1, <2>1, IConnectorAssumption
         DEF ListenSpawnFails, Return, Home, PcTypes, ArgTypes, Threads
    <2>4. CASE StopJoins(t)
      <3>1. t \in Clients
        BY <1>1, <2>4 DEF StopJoins, Threads
      <3>2. \A u \in Threads : pc[u] # "joining" /\ pc[u] # "assign"
        BY <2>4, <3>1, IConnectorAssumption
           DEF StopJoins, OneInControl, ControlLabels, Threads
      <3>3. QED
        BY <1>1, <2>4, <3>1, <3>2, IConnectorAssumption
           DEF StopJoins, PcTypes, ArgTypes, Threads
    <2>2. CASE StopDoesNotJoin(t)
      <3>1. stopped' => stopped \/ (t \in Clients /\ listeningThread = None)
        BY <2>2 DEF StopDoesNotJoin
      <3>2. QED
        BY <1>1, <2>2, <3>1, IConnectorAssumption
           DEF StopDoesNotJoin, Return, Home, OneInControl, ControlLabels,
               PcTypes, ArgTypes, Threads
    <2>3. QED
      BY <1>8, <2>1, <2>2, <2>4
  <1>9. ASSUME NEW l \in Loops, LoopStep(l) PROVE LoopInv'
    BY <1>1, <1>9, IConnectorAssumption DEF LoopStep, Running, LoopHead, Receive,
       EndIteration, Catch, Handing, Dispatch, DispatchNobody, Handling,
       ThenSniffer, HandlersDone, HandlerThrows, PcTypes, Threads
  <1>10. CASE UNCHANGED vars
    BY <1>10 DEF vars
  <1>11. QED
    BY <1>2, <1>3, <1>4, <1>5, <1>6, <1>7, <1>8, <1>9, <1>10
       DEF Next, Step, Control

(* With one client at a time in control there is one loop at most, and     *)
(* none after stopListen(), it is joined by one thread only, and listen()  *)
(* never assigns to a joinable thread, however many clients control the    *)
(* loop, and although handlers may call stopListen().                      *)
THEOREM SerialControlCorrectness ==
  ASSUME Orderly
  PROVE  Spec /\ []OneInControl =>
           [](OneJoinableLoop /\ OneJoiner /\ NeverTerminates)
  <1>1. Init => LoopInv
    <2>1. Init => /\ \A l \in Loops : pc[l] = "none"
                  /\ \A c \in Clients : pc[c] = "idle"
                  /\ listeningThread = None
      BY IConnectorAssumption DEF Init, Threads
    <2>2. Init => NeverTerminates
      BY Zenon DEF Init, NeverTerminates
    <2>3. QED
      BY <2>1, <2>2 DEF LoopInv, OneJoinableLoop, OneJoiner, Threads
  <1>2. Consistent /\ OneInControl /\ LoopInv /\ [Next]_vars => LoopInv'
    BY StepLoopInv
  <1>3. LoopInv => OneJoinableLoop /\ OneJoiner /\ NeverTerminates
    BY DEF LoopInv
  <1>4. QED
    BY <1>1, <1>2, <1>3, ConsistentAlways, PTL DEF Spec

(* A single controller needs no lock. *)
OneController == Orderly /\ \A c, d \in Controllers : c = d

(* Only controllers are in listen() and stopListen(), handlers apart. *)
ControllersControl ==
  \A c \in Clients : pc[c] \in ControlLabels => c \in Controllers

(* Nobody else gets there. *)
LEMMA StepControllersControl ==
  ASSUME Consistent, ControllersControl, [Next]_vars
  PROVE  ControllersControl'
  <1> USE DEF ControllersControl, ControlLabels, Goto, Return, Home
  <1>1. PcTypes /\ ArgTypes
    BY DEF Consistent, TypeOK
  <1>2. ASSUME NEW t \in Threads, Call(t) PROVE ControllersControl'
    BY <1>1, <1>2, IConnectorAssumption DEF Call, CallRegister, CallWithToken,
       DirectSendBegins, ListenTest, StopFlag, MayCall, PcTypes, Threads
  <1>3. ASSUME NEW t \in Threads, Waiting(t) \/ Sending(t)
        PROVE  ControllersControl'
    BY <1>1, <1>3 DEF Waiting, Register, Unregister, SendRefused, SendBegins,
       Sending, SendEnds, DirectSendEnds, PcTypes, Threads
  <1>4. ASSUME NEW t \in Threads, Control(t) PROVE ControllersControl'
    BY <1>1, <1>4, IConnectorAssumption DEF Control, ListenFlag, ListenSpawn,
       ListenSpawnFails, ListenAssign, StopJoins, StopDoesNotJoin, Joined,
       ArgTypes, PcTypes, Threads
  <1>5. ASSUME NEW l \in Loops, LoopStep(l) PROVE ControllersControl'
    BY <1>1, <1>5, IConnectorAssumption DEF LoopStep, Running, LoopHead, Receive,
       EndIteration, Catch, Handing, Dispatch, DispatchNobody, Handling,
       ThenSniffer, HandlersDone, HandlerThrows, PcTypes, Threads
  <1>6. CASE UNCHANGED vars
    BY <1>6 DEF vars
  <1>7. QED
    BY <1>2, <1>3, <1>4, <1>5, <1>6 DEF Next, Step

(* With one controller there is one loop at most, and none after           *)
(* stopListen(), and listen() never assigns to a joinable thread.          *)
THEOREM LoopCorrectness ==
  ASSUME OneController
  PROVE  Spec => [](OneJoinableLoop /\ OneJoiner /\ NeverTerminates)
  <1>1. Orderly
    BY DEF OneController
  <1>2. Init => ControllersControl
    BY IConnectorAssumption
       DEF Init, ControllersControl, ControlLabels, Threads
  <1>3. Consistent /\ ControllersControl /\ [Next]_vars => ControllersControl'
    BY StepControllersControl
  <1>4. ControllersControl => OneInControl
    BY DEF OneController, ControllersControl, OneInControl
  <1>5. Spec /\ []OneInControl =>
          [](OneJoinableLoop /\ OneJoiner /\ NeverTerminates)
    BY <1>1, SerialControlCorrectness
  <1>6. QED
    BY <1>2, <1>3, <1>4, <1>5, ConsistentAlways, PTL DEF Spec

(* In particular listen() never calls std::terminate. *)
THEOREM TerminationCorrectness ==
  ASSUME OneController
  PROVE  Spec => []NeverTerminates
  BY LoopCorrectness, PTL

(* And stopListen() never joins a loop that another thread joins already,  *)
(* nor lets go of another one than it waited for.                          *)
THEOREM JoinCorrectness ==
  ASSUME OneController
  PROVE  Spec => []OneJoiner
  BY LoopCorrectness, PTL

(* In particular the normal handler does not run beside exclusive access. *)
THEOREM NormalHandlerCorrectness ==
  ASSUME QuietHandlers
  PROVE  Spec => []NormalHandlerExcludesExclusive
  <1>1. RunningHandlerIsRegistered /\ NormalHandlerExcludesExclusive
          => NormalHandlerExcludesExclusive
    OBVIOUS
  <1>2. QED
    BY <1>1, HandlerCorrectness, PTL

-----------------------------------------------------------------------------
(* A loop that listen() has started and that has not ended. *)
Going(l) == pc[l] \notin {"none", "exited"}

(* A step that leaves the flag alone, keeps who is about to start a loop   *)
(* and ends no loop cannot make the flag wrong.                            *)
LEMMA FlagStaysTrue ==
  ASSUME ListeningIsTrue, UNCHANGED listening,
         \A t \in Threads : pc[t] = "spawn" => pc'[t] = "spawn",
         \A l \in Loops : Going(l) => Going(l)'
  PROVE  ListeningIsTrue'
  BY Zenon DEF ListeningIsTrue, Going

(* The flag is set only on the way to a new loop, and a loop that ends     *)
(* has seen it reset or resets it.                                         *)
LEMMA StepListeningIsTrue ==
  ASSUME "thread" \notin Faults, Consistent, ListeningIsTrue, [Next]_vars
  PROVE  ListeningIsTrue'
  <1> USE IConnectorAssumption DEF Goto
  <1>1. PcTypes /\ DataTypes
    BY DEF Consistent, TypeOK
  <1>2. ASSUME NEW t \in Threads, ListenFlag(t) PROVE ListeningIsTrue'
    <2>1. pc'[t] = "spawn"
      BY <1>1, <1>2 DEF ListenFlag, PcTypes
    <2>2. QED
      BY <2>1 DEF ListeningIsTrue
  <1>3. ASSUME NEW t \in Threads, ListenSpawn(t) PROVE ListeningIsTrue'
    <2>1. PICK l \in Loops : pc' = [pc EXCEPT ![t] = "assign", ![l] = "head"]
      BY <1>3 DEF ListenSpawn
    <2>2. pc'[l] = "head"
      BY <1>1, <2>1 DEF PcTypes, Threads
    <2>3. QED
      BY <2>2 DEF ListeningIsTrue
  <1>4. ASSUME NEW t \in Threads, StopFlag(t) PROVE ListeningIsTrue'
    BY <1>4, Zenon DEF StopFlag, ListeningIsTrue
  <1>5. ASSUME NEW l \in Loops, Catch(l) PROVE ListeningIsTrue'
    BY <1>5, Zenon DEF Catch, ListeningIsTrue
  <1>6. ASSUME NEW l \in Loops, LoopHead(l) PROVE ListeningIsTrue'
    <2>1. CASE listening
      <3>1. pc' = [pc EXCEPT ![l] = "receive"]
        BY <1>6, <2>1 DEF LoopHead
      <3>2. pc'[l] = "receive"
        BY <1>1, <3>1 DEF PcTypes, Threads
      <3>3. QED
        BY <3>2 DEF ListeningIsTrue
    <2>2. CASE ~listening
      BY <1>6, <2>2, Zenon DEF LoopHead, loopVars, ListeningIsTrue
    <2>3. QED
      BY <2>1, <2>2
  <1>7. ASSUME NEW t \in Threads,
               \/ \E a \in AccessType : CallRegister(t, a)
               \/ \E op \in {"unregister", "send"}, a \in AccessType :
                    CallWithToken(t, op, a)
               \/ DirectSendBegins(t) \/ ListenTest(t)
        PROVE  ListeningIsTrue'
    <2>1. UNCHANGED listening
      BY <1>7, Zenon DEF CallRegister, CallWithToken, DirectSendBegins,
         ListenTest, loopVars
    <2>2. /\ pc[t] # "spawn"
          /\ \E x \in CallLabels : pc' = [pc EXCEPT ![t] = x]
      BY <1>7 DEF CallRegister, CallWithToken, DirectSendBegins, ListenTest,
         MayCall, Home, CallLabels
    <2>3. QED
      BY <1>1, <2>1, <2>2, FlagStaysTrue DEF PcTypes, Going, Threads, CallLabels
  <1>8. ASSUME NEW t \in Threads,
               \/ Waiting(t) \/ Sending(t) \/ ListenAssign(t) \/ StopJoins(t)
               \/ StopDoesNotJoin(t)
        PROVE  ListeningIsTrue'
    <2>1. UNCHANGED listening
      BY <1>8, Zenon DEF Waiting, Register, Unregister, SendRefused, SendBegins,
         Sending, SendEnds, DirectSendEnds, ListenAssign, StopJoins,
         StopDoesNotJoin, loopVars
    <2>2. /\ pc[t] # "spawn"
          /\ \E x \in {"callback", "idle", "xmit", "joining"} :
               pc' = [pc EXCEPT ![t] = x]
      BY <1>8 DEF Waiting, Register, Unregister, SendRefused, SendBegins,
         Sending, SendEnds, DirectSendEnds, ListenAssign, StopJoins,
         StopDoesNotJoin, Return, Home
    <2>3. QED
      BY <1>1, <2>1, <2>2, FlagStaysTrue DEF PcTypes, Going, Threads
  <1>9. ASSUME NEW t \in Threads, Joined(t) PROVE ListeningIsTrue'
    <2>1. UNCHANGED listening
      BY <1>9, Zenon DEF Joined
    <2>2. /\ pc[t] = "joining" /\ pc[arg[t]] \in {"exited", "none"}
          /\ pc' = [pc EXCEPT ![t] = Home(t), ![arg[t]] = "none"]
      BY <1>9 DEF Joined
    <2>3. QED
      BY <1>1, <2>1, <2>2, FlagStaysTrue DEF PcTypes, Home, Going, Threads
  <1>10. ASSUME NEW l \in Loops,
                Receive(l) \/ EndIteration(l) \/ Handing(l) \/ Handling(l)
         PROVE  ListeningIsTrue'
    <2>1. UNCHANGED listening
      BY <1>10, Zenon DEF Receive, EndIteration, Handing, Dispatch,
         DispatchNobody, Handling, ThenSniffer, HandlersDone, HandlerThrows,
         loopVars
    <2>2. /\ pc[l] # "spawn"
          /\ \/ UNCHANGED pc
             \/ \E x \in LoopLabels \ {"none", "exited"} :
                  pc' = [pc EXCEPT ![l] = x]
      BY <1>10 DEF Receive, EndIteration, Handing, Dispatch, DispatchNobody,
         Handling, ThenSniffer, HandlersDone, HandlerThrows, LoopLabels
    <2>3. QED
      BY <1>1, <2>1, <2>2, FlagStaysTrue DEF PcTypes, Going, Threads, LoopLabels
  <1>11. CASE UNCHANGED vars
    BY <1>11, Zenon DEF vars, ListeningIsTrue
  <1>12. QED
    BY <1>2, <1>3, <1>4, <1>5, <1>6, <1>7, <1>8, <1>9, <1>10, <1>11
       DEF Next, Step, Call, Control, ListenSpawnFails, LoopStep, Running

(* isListening() is true of a loop, for any number of controllers, if the  *)
(* system never refuses a thread.                                          *)
THEOREM ListeningCorrectness ==
  ASSUME "thread" \notin Faults
  PROVE  Spec => []ListeningIsTrue
  <1>1. Init => ListeningIsTrue
    BY Zenon DEF Init, ListeningIsTrue
  <1>2. Consistent /\ ListeningIsTrue /\ [Next]_vars => ListeningIsTrue'
    BY StepListeningIsTrue
  <1>3. QED
    BY <1>1, <1>2, ConsistentAlways, PTL DEF Spec
-----------------------------------------------------------------------------
(***************************************************************************)
(* Every step of IConnector is a step of ConnectorMonitor or changes       *)
(* nothing that ConnectorMonitor sees, if all sends go through the guard.  *)
(***************************************************************************)

(* No client calls the public send(data). *)
AllGuarded == DirectSenders = {}

NoDirect == \A t \in Threads : pc[t] # "direct"

Guarded == Consistent /\ NoDirect

(* Then nobody is ever inside it. *)
LEMMA StepNoDirect ==
  ASSUME AllGuarded, Consistent, NoDirect, [Next]_vars
  PROVE  NoDirect'
  <1> USE DEF NoDirect, Goto, Return, Home
  <1>1. PcTypes
    BY DEF Consistent, TypeOK
  <1>2. ASSUME NEW t \in Threads, Step(t) PROVE NoDirect'
    BY <1>1, <1>2 DEF AllGuarded, Step, Call, CallRegister, CallWithToken,
       DirectSendBegins, ListenTest, StopFlag, Waiting, Register, Unregister,
       SendRefused, SendBegins, Sending, SendEnds, DirectSendEnds, Control,
       ListenFlag, ListenSpawn, ListenSpawnFails, ListenAssign, StopJoins,
       StopDoesNotJoin, Joined, PcTypes
  <1>3. ASSUME NEW l \in Loops, LoopStep(l) PROVE NoDirect'
    BY <1>1, <1>3 DEF LoopStep, Running, LoopHead, Receive, EndIteration, Catch,
       Handing, Dispatch, DispatchNobody, Handling, ThenSniffer, HandlersDone,
       HandlerThrows, PcTypes
  <1>4. CASE UNCHANGED vars
    BY <1>4 DEF vars
  <1>5. QED
    BY <1>2, <1>3, <1>4 DEF Next

-----------------------------------------------------------------------------
(* What ConnectorMonitor sees, seen from the thread that has the guard. *)

(* To a thread that may lock the guard, nobody transmits. *)
LEMMA NothingSent ==
  ASSUME Guarded, NEW t \in Threads, CanLock(t), pc[t] # "xmit"
  PROVE  Transmitting = {} /\ TransmissionsUnderWay = {}
  BY TransmitterIsOwner, IConnectorAssumption
     DEF Guarded, NoDirect, CanLock, Transmitting, TransmissionsUnderWay

(* A thread that transmits is the only one. *)
LEMMA OneSent ==
  ASSUME Guarded, NEW t \in Threads, pc[t] = "xmit"
  PROVE  /\ Transmitting = {t}
         /\ TransmissionsUnderWay = {<<Self(t), arg[t]>>}
  <1>1. Transmitting = {t}
    BY TransmitterIsOwner DEF Guarded, NoDirect, Transmitting
  <1>2. QED
    BY <1>1 DEF TransmissionsUnderWay

(* To a thread that may lock the guard, no handler runs but its own. *)
LEMMA NothingCalled ==
  ASSUME Consistent, NEW t \in Threads, CanLock(t),
         t \in Loops => callback[t] = NoCallback
  PROVE  CallingBack = {} /\ HandlersUnderWay = {}
  BY CallbackIsOwner, IConnectorAssumption
     DEF CanLock, CallingBack, HandlersUnderWay, Threads

(* A loop that runs a handler is the only one. *)
LEMMA OneCalled ==
  ASSUME Consistent, NEW l \in Loops, callback[l] # NoCallback
  PROVE  CallingBack = {l} /\ HandlersUnderWay = {callback[l]}
  <1>1. CallingBack = {l}
    BY CallbackIsOwner DEF CallingBack
  <1>2. QED
    BY <1>1 DEF HandlersUnderWay

(* A thread that has come through the guard finds the monitor free. *)
LEMMA Free ==
  ASSUME Guarded, NEW t \in Threads, CanLock(t),
         pc[t] \in {"register", "unregister", "send"}
  PROVE  Self(t) \in Clients /\ Monitor!Free(Self(t))
  <1>1. TransmissionsUnderWay = {}
    BY NothingSent
  <1>2. CASE t \in Loops
    <2>1. callback[t] # NoCallback
      BY <1>2 DEF Guarded, Consistent, TypeOK, CallbackTypes, CallLabels
    <2>2. HandlersUnderWay = {callback[t]}
      BY <1>2, <2>1, OneCalled DEF Guarded
    <2>3. callback[t] \in [slot : AccessType, client : Clients]
      BY <1>2, <2>1 DEF Guarded, Consistent, TypeOK, CallbackTypes
    <2>4. QED
      BY <1>1, <1>2, <2>2, <2>3 DEF Self, Monitor!Free
  <1>3. CASE t \notin Loops
    <2>1. HandlersUnderWay = {}
      BY <1>3, NothingCalled DEF Guarded
    <2>2. QED
      BY <1>1, <1>3, <2>1 DEF Self, Monitor!Free, Threads
  <1>4. QED
    BY <1>2, <1>3

-----------------------------------------------------------------------------
(* The steps of the threads, one group of actions at a time. *)

(* Steps that leave the handlers, the transmissions and callbacks alone. *)
LEMMA Stutters ==
  ASSUME handler' = handler, callback' = callback,
         Transmitting' = Transmitting,
         \A t \in Transmitting : arg'[t] = arg[t]
  PROVE  UNCHANGED Monitor!vars
  <1>1. HandlersUnderWay' = HandlersUnderWay
    BY DEF HandlersUnderWay, CallingBack
  <1>2. \A t \in Transmitting : Self(t)' = Self(t)
    BY DEF Self
  <1>3. TransmissionsUnderWay' = TransmissionsUnderWay
    BY <1>2 DEF TransmissionsUnderWay
  <1>4. QED
    BY <1>1, <1>3 DEF Monitor!vars

(* Beginning a call is not seen: the guard is not yet locked. *)
LEMMA CallRefines ==
  ASSUME AllGuarded, Guarded, NEW t \in Threads, Call(t)
  PROVE  UNCHANGED Monitor!vars
  <1>1. PcTypes /\ ArgTypes
    BY DEF Guarded, Consistent, TypeOK
  <1>2. handler' = handler /\ callback' = callback
    BY DEF Call, CallRegister, CallWithToken, DirectSendBegins, ListenTest,
       StopFlag, accessVars
  <1>3. pc[t] \notin {"xmit", "direct"}
    BY IConnectorAssumption DEF AllGuarded, Call, CallRegister, CallWithToken,
       DirectSendBegins, ListenTest, StopFlag, MayCall, Home
  <1>4. PICK label \in CallLabels \ {"xmit", "direct"} :
          pc' = [pc EXCEPT ![t] = label]
    BY DEF AllGuarded, Call, CallRegister, CallWithToken, DirectSendBegins,
       ListenTest, StopFlag, Goto, CallLabels
  <1>5. \A u \in Threads \ {t} : arg'[u] = arg[u]
    BY <1>1 DEF Call, CallRegister, CallWithToken, DirectSendBegins, ListenTest,
       StopFlag, ArgTypes
  <1>6. Transmitting' = Transmitting
    BY <1>1, <1>3, <1>4 DEF Transmitting, PcTypes
  <1>7. QED
    BY <1>2, <1>3, <1>5, <1>6, Stutters DEF Transmitting

(* A registration, granted or refused, finds the monitor free. *)
LEMMA RegisterRefines ==
  ASSUME Guarded, NEW t \in Threads, Register(t)
  PROVE  [Monitor!Next]_(Monitor!vars)
  <1>1. /\ PcTypes /\ ArgTypes /\ DataTypes
        /\ arg[t] \in AccessType
    BY DEF Register, Guarded, Consistent, TypeOK, ArgTypes
  <1>2. Self(t) \in Clients /\ Monitor!Free(Self(t))
    BY Free DEF Register
  <1>3. Transmitting = {} /\ TransmissionsUnderWay = {}
    BY NothingSent DEF Register
  <1>4. Transmitting' = {}
    BY <1>1, <1>3 DEF Register, Return, Home, Transmitting, PcTypes
  <1>5. /\ HandlersUnderWay' = HandlersUnderWay
        /\ TransmissionsUnderWay' = TransmissionsUnderWay
    BY <1>3, <1>4 DEF Register, HandlersUnderWay, CallingBack,
       TransmissionsUnderWay
  <1>6. CASE Refused(arg[t])
    BY <1>5, <1>6 DEF Register, accessVars, Monitor!vars
  <1>7. CASE ~Refused(arg[t]) /\ handler' = [handler EXCEPT ![arg[t]] = Self(t)]
    <2>1. Monitor!Register(Self(t), arg[t])
      BY <1>2, <1>5, <1>7 DEF Monitor!Register, Refused, HasExclusiveAccess
    <2>2. QED
      BY <1>1, <1>2, <2>1 DEF Monitor!Next, AccessType, Monitor!AccessType
  <1>8. CASE ~Refused(arg[t]) /\ handler' = [handler EXCEPT ![arg[t]] = None]
    <2>1. Monitor!Unregister(Self(t), arg[t])
      BY <1>2, <1>5, <1>8 DEF Monitor!Unregister
    <2>2. QED
      BY <1>1, <1>2, <2>1 DEF Monitor!Next, AccessType, Monitor!AccessType
  <1>9. QED
    BY <1>6, <1>7, <1>8 DEF Register

(* So does an unregistration. *)
LEMMA UnregisterRefines ==
  ASSUME Guarded, NEW t \in Threads, Unregister(t)
  PROVE  Monitor!Next
  <1>1. PcTypes /\ arg[t] \in AccessType
    BY DEF Unregister, Guarded, Consistent, TypeOK, ArgTypes
  <1>2. Self(t) \in Clients /\ Monitor!Free(Self(t))
    BY Free DEF Unregister
  <1>3. Transmitting = {} /\ TransmissionsUnderWay = {}
    BY NothingSent DEF Unregister
  <1>4. Transmitting' = {}
    BY <1>1, <1>3 DEF Unregister, Return, Home, Transmitting, PcTypes
  <1>5. /\ HandlersUnderWay' = HandlersUnderWay
        /\ TransmissionsUnderWay' = TransmissionsUnderWay
    BY <1>3, <1>4 DEF Unregister, HandlersUnderWay, CallingBack,
       TransmissionsUnderWay
  <1>6. Monitor!Unregister(Self(t), arg[t])
    BY <1>2, <1>5 DEF Unregister, Monitor!Unregister
  <1>7. QED
    BY <1>1, <1>2, <1>6 DEF Monitor!Next, AccessType, Monitor!AccessType

(* A send that passes the access rule begins the one transmission. *)
LEMMA SendRefines ==
  ASSUME Guarded, NEW t \in Threads, SendBegins(t)
  PROVE  Monitor!Next
  <1>1. PcTypes /\ arg[t] \in {"Normal", "Exclusive"}
    BY DEF SendBegins, MaySend, Guarded, Consistent, TypeOK
  <1>2. Self(t) \in Clients /\ Monitor!Free(Self(t))
    BY Free DEF SendBegins, Lock
  <1>3. Transmitting = {}
    BY NothingSent DEF SendBegins, Lock
  <1>4. Transmitting' = {t}
    BY <1>1, <1>3 DEF SendBegins, Goto, Transmitting, PcTypes
  <1>5. Self(t)' = Self(t) /\ arg' = arg
    BY DEF SendBegins, Self
  <1>6. TransmissionsUnderWay' = {<<Self(t), arg[t]>>}
    BY <1>4, <1>5 DEF TransmissionsUnderWay
  <1>7. HandlersUnderWay' = HandlersUnderWay
    BY DEF SendBegins, HandlersUnderWay, CallingBack
  <1>8. Monitor!BeginSend(Self(t), arg[t])
    BY <1>2, <1>6, <1>7 DEF SendBegins, MaySend, HasExclusiveAccess, accessVars,
       Monitor!BeginSend
  <1>9. QED
    BY <1>1, <1>2, <1>8 DEF Monitor!Next

(* And its end is the end of that transmission. *)
LEMMA SendEndsRefines ==
  ASSUME Guarded, NEW t \in Threads, SendEnds(t)
  PROVE  Monitor!Next
  <1>1. PcTypes
    BY DEF Guarded, Consistent, TypeOK
  <1>2. Transmitting = {t} /\ TransmissionsUnderWay # {}
    BY OneSent DEF SendEnds
  <1>3. Transmitting' = {}
    BY <1>1, <1>2 DEF SendEnds, Return, Home, Transmitting, PcTypes
  <1>4. TransmissionsUnderWay' = {} /\ HandlersUnderWay' = HandlersUnderWay
    BY <1>3 DEF SendEnds, TransmissionsUnderWay, HandlersUnderWay, CallingBack
  <1>5. Monitor!EndSend
    BY <1>2, <1>4 DEF SendEnds, accessVars, Monitor!EndSend
  <1>6. QED
    BY <1>5 DEF Monitor!Next

(* Refused sends, the listening loop's control, the loop between messages. *)
LEMMA OtherRefines ==
  ASSUME Guarded,
         \/ \E t \in Threads : SendRefused(t) \/ Control(t)
         \/ \E l \in Loops : Running(l) \/ DispatchNobody(l)
  PROVE  UNCHANGED Monitor!vars
  <1>1. PcTypes /\ ArgTypes
    BY DEF Guarded, Consistent, TypeOK
  <1>2. handler' = handler /\ callback' = callback
    BY DEF SendRefused, Control, ListenFlag, ListenSpawn, ListenSpawnFails,
       ListenAssign, StopJoins, StopDoesNotJoin, Joined, Running, LoopHead,
       Receive, EndIteration, Catch, DispatchNobody, accessVars
  <1>3. ASSUME NEW t \in Threads, SendRefused(t) \/ Control(t)
        PROVE  /\ Transmitting' = Transmitting
               /\ \A u \in Transmitting : arg'[u] = arg[u]
    BY <1>1, <1>3 DEF SendRefused, Control, ListenFlag, ListenSpawn,
       ListenSpawnFails, ListenAssign, StopJoins, StopDoesNotJoin, Joined,
       Return, Home, Goto, Transmitting, PcTypes, ArgTypes, Threads
  <1>4. ASSUME NEW l \in Loops, Running(l) \/ DispatchNobody(l)
        PROVE  /\ Transmitting' = Transmitting
               /\ \A u \in Transmitting : arg'[u] = arg[u]
    BY <1>1, <1>4 DEF Running, LoopHead, Receive, EndIteration, Catch,
       DispatchNobody, Goto, Transmitting, PcTypes, ArgTypes, Threads
  <1>5. QED
    BY <1>2, <1>3, <1>4, Stutters

(* The loop hands a message to the handler the monitor delivers it to. *)
LEMMA DispatchRefines ==
  ASSUME Guarded, NEW l \in Loops, Dispatch(l)
  PROVE  Monitor!Next
  <1>1. PcTypes /\ CallbackTypes /\ l \in Threads
    BY DEF Guarded, Consistent, TypeOK, Threads
  <1>2. callback[l] = NoCallback
    BY <1>1 DEF Dispatch, CallbackTypes, CallLabels
  <1>3. CallingBack = {} /\ HandlersUnderWay = {}
    BY <1>1, <1>2, NothingCalled DEF Dispatch, Lock, Guarded
  <1>4. Transmitting = {} /\ TransmissionsUnderWay = {}
    BY <1>1, NothingSent DEF Dispatch, Lock
  <1>5. Transmitting' = {}
    BY <1>1, <1>4 DEF Dispatch, Goto, Transmitting, PcTypes
  <1>6. callback'[l] = [slot |-> Target, client |-> handler[Target]]
    BY <1>1 DEF Dispatch, CallbackTypes
  <1>7. callback'[l] # NoCallback
    BY <1>6 DEF Dispatch, NoCallback
  <1>8. CallingBack' = {l}
    BY <1>1, <1>3, <1>7 DEF Dispatch, CallingBack, CallbackTypes
  <1>9. HandlersUnderWay' = {[slot |-> Target, client |-> handler[Target]]}
    BY <1>6, <1>8 DEF HandlersUnderWay
  <1>10. TransmissionsUnderWay' = TransmissionsUnderWay
    BY <1>4, <1>5 DEF TransmissionsUnderWay
  <1>11. Monitor!Deliver
    BY <1>3, <1>4, <1>9, <1>10 DEF Dispatch, Target, HasExclusiveAccess,
       accessVars, Monitor!Deliver, Monitor!Addressee, Monitor!Calls
  <1>12. QED
    BY <1>11 DEF Monitor!Next

(* At its callback label a loop has the guard and does not transmit. *)
LEMMA InCallback ==
  ASSUME Guarded, NEW l \in Loops, pc[l] = "callback"
  PROVE  /\ callback[l] # NoCallback
         /\ CallingBack = {l} /\ HandlersUnderWay = {callback[l]}
         /\ Transmitting = {} /\ TransmissionsUnderWay = {}
  <1>1. callback[l] # NoCallback
    BY DEF Guarded, Consistent, TypeOK, CallbackTypes
  <1>2. CanLock(l) /\ l \in Threads
    BY <1>1, CallbackIsOwner DEF Guarded, CanLock, Threads
  <1>3. QED
    BY <1>1, <1>2, OneCalled, NothingSent DEF Guarded

(* The sniffer is called after the first handler, or the delivery ends. *)
LEMMA HandlingRefines ==
  ASSUME Guarded, NEW l \in Loops, Handling(l)
  PROVE  Monitor!Next
  <1>1. PcTypes /\ CallbackTypes /\ l \in Threads /\ pc[l] = "callback"
    BY DEF Handling, ThenSniffer, HandlersDone, HandlerThrows,
       Guarded, Consistent, TypeOK, Threads
  <1>2. /\ CallingBack = {l} /\ HandlersUnderWay = {callback[l]}
        /\ Transmitting = {} /\ TransmissionsUnderWay = {}
    BY <1>1, InCallback
  <1>3. Transmitting' = {}
    BY <1>1, <1>2 DEF Handling, ThenSniffer, HandlersDone, HandlerThrows, Goto,
       Transmitting, PcTypes
  <1>4. TransmissionsUnderWay' = TransmissionsUnderWay
    BY <1>2, <1>3 DEF TransmissionsUnderWay
  <1>5. CASE ThenSniffer(l)
    <2>1. callback'[l] = [slot |-> "Sniffer", client |-> handler["Sniffer"]]
      BY <1>1, <1>5 DEF ThenSniffer, CallbackTypes
    <2>2. callback'[l] # NoCallback
      BY <1>5, <2>1 DEF ThenSniffer, NoCallback
    <2>3. CallingBack' = {l}
      BY <1>1, <1>2, <1>5, <2>2 DEF ThenSniffer, CallingBack, CallbackTypes
    <2>4. HandlersUnderWay' =
            {[slot |-> "Sniffer", client |-> handler["Sniffer"]]}
      BY <2>1, <2>3 DEF HandlersUnderWay
    <2>5. Monitor!Sniff
      BY <1>2, <1>4, <1>5, <2>4 DEF ThenSniffer, accessVars, Monitor!Sniff,
         Monitor!Calls
    <2>6. QED
      BY <2>5 DEF Monitor!Next
  <1>6. CASE HandlersDone(l) \/ HandlerThrows(l)
    <2>1. callback' = [callback EXCEPT ![l] = NoCallback] /\ handler' = handler
      BY <1>6 DEF HandlersDone, HandlerThrows, accessVars
    <2>2. CallingBack' = {}
      BY <1>1, <1>2, <2>1 DEF CallingBack, CallbackTypes
    <2>3. HandlersUnderWay' = {}
      BY <2>2 DEF HandlersUnderWay
    <2>4. Monitor!EndDelivery
      BY <1>2, <1>4, <2>1, <2>3 DEF Monitor!EndDelivery
    <2>5. QED
      BY <2>4 DEF Monitor!Next
  <1>7. QED
    BY <1>5, <1>6 DEF Handling

-----------------------------------------------------------------------------
(* Initially nothing is registered, sent or handled. *)
LEMMA InitRefines == Init => Monitor!Init
  <1> SUFFICES ASSUME Init PROVE Monitor!Init
    OBVIOUS
  <1>1. \A t \in Threads : pc[t] \in {"idle", "none"}
    BY DEF Init
  <1>2. TransmissionsUnderWay = {}
    BY <1>1 DEF Transmitting, TransmissionsUnderWay
  <1>3. HandlersUnderWay = {}
    BY DEF Init, CallingBack, HandlersUnderWay
  <1>4. QED
    BY <1>2, <1>3 DEF Init, Monitor!Init, AccessType, Monitor!AccessType

(* Every step is one of the monitor's or leaves it unchanged. *)
LEMMA StepRefines ==
  ASSUME AllGuarded, Guarded, [Next]_vars
  PROVE  [Monitor!Next]_(Monitor!vars)
  <1>1. ASSUME NEW t \in Threads, Step(t)
        PROVE  [Monitor!Next]_(Monitor!vars)
    <2>1. CASE Call(t)
      BY <2>1, CallRefines
    <2>2. CASE Register(t)
      BY <2>2, RegisterRefines
    <2>3. CASE Unregister(t) \/ SendBegins(t) \/ SendEnds(t)
      BY <2>3, UnregisterRefines, SendRefines, SendEndsRefines
    <2>4. CASE SendRefused(t) \/ Control(t)
      BY <2>4, OtherRefines
    <2>5. CASE DirectSendEnds(t)
      BY <2>5 DEF DirectSendEnds, Guarded, NoDirect
    <2>6. QED
      BY <1>1, <2>1, <2>2, <2>3, <2>4, <2>5 DEF Step, Waiting, Sending
  <1>2. ASSUME NEW l \in Loops, LoopStep(l)
        PROVE  [Monitor!Next]_(Monitor!vars)
    <2>1. CASE Running(l) \/ DispatchNobody(l)
      BY <2>1, OtherRefines
    <2>2. CASE Dispatch(l) \/ Handling(l)
      BY <2>2, DispatchRefines, HandlingRefines
    <2>3. QED
      BY <1>2, <2>1, <2>2 DEF LoopStep, Handing
  <1>3. CASE UNCHANGED vars
    BY <1>3, Stutters DEF vars, Transmitting
  <1>4. QED
    BY <1>1, <1>2, <1>3 DEF Next

(* A connector whose clients all send with tokens is the monitor of        *)
(* ConnectorMonitor, for every number of clients, loops and controllers,   *)
(* whatever handlers call and whatever fails.                              *)
THEOREM ConnectorImplementsMonitor ==
  ASSUME AllGuarded
  PROVE  Spec => MonitorSpec
  <1>1. Init => NoDirect
    BY DEF Init, NoDirect
  <1>2. Consistent /\ NoDirect /\ [Next]_vars => NoDirect'
    BY StepNoDirect
  <1>3. Consistent /\ NoDirect /\ [Next]_vars => [Monitor!Next]_(Monitor!vars)
    BY StepRefines DEF Guarded
  <1>4. QED
    BY <1>1, <1>2, <1>3, InitRefines, ConsistentAlways, PTL
       DEF Spec, MonitorSpec, Monitor!Spec
=============================================================================
