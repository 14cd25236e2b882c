----------------------------- MODULE IConnector -----------------------------
(***************************************************************************)
(* The access control and the listening loop that every connector inherits *)
(* from class IConnector (include/iqrf/connector/IConnector.h).            *)
(*                                                                         *)
(* Threads are the application's clients and the listening loops that      *)
(* listen() starts.  Each has a program counter; a step is atomic when the *)
(* code runs it under the recursive mutex `guard`, and is split wherever   *)
(* another thread can observe the state in between: around the blocking    *)
(* transmission, the response handlers, receive(), and between the         *)
(* unguarded statements of listen() and stopListen().                      *)
(*                                                                         *)
(* A response handler runs client code on the loop's thread, with the      *)
(* guard held; the calls it makes back into the connector are the clients' *)
(* own actions, performed by the loop thread (Home, Self).                 *)
(*                                                                         *)
(* Messages carry no content here: the codecs are modelled in HdlcFrame.   *)
(***************************************************************************)
EXTENDS Naturals

CONSTANTS
  Clients,            \* the application's threads; each has handlers of its own
  Loops,              \* threads that listen() may start (bounds their number)
  None,               \* no client, no thread, an empty std::function
  Uses,               \* Uses[c]: the access types client c registers for
  Controllers,        \* the clients that call listen() and stopListen()
  DirectSenders,      \* the clients that call the public send(data) override
  ReentrantCalls,     \* the calls response handlers make on the connector
  Faults,             \* what may throw: "receive", "handler", "thread"
  EmptyHandlers,      \* whether an empty std::function may be registered
  StopsBeforeListen   \* whether controllers call stopListen() before listen()

AccessType == {"Normal", "Exclusive", "Sniffer"}
Threads    == Clients \cup Loops

ASSUME IConnectorAssumption ==
  /\ Clients \cap Loops = {}
  /\ None \notin Threads \cup AccessType
  /\ Loops \cap AccessType = {}
  /\ Uses \in [Clients -> SUBSET AccessType]
  /\ Controllers \subseteq Clients
  /\ DirectSenders \subseteq Clients
  /\ ReentrantCalls \subseteq
       {"register", "unregister", "send", "listen", "stopListen"}
  /\ Faults \subseteq {"receive", "handler", "thread"}
  /\ EmptyHandlers \in BOOLEAN
  /\ StopsBeforeListen \in BOOLEAN

VARIABLES
  handler,            \* the three handler members: whose handler, or None
  tokens,             \* tokens[c]: access types of the AccessTokens c has got
  owner, depth,       \* the recursive mutex `guard`
  listening,          \* the atomic flag
  listeningThread,    \* the std::thread member: a loop, None: not joinable
  pc,                 \* where each thread is
  arg,                \* its call's access type, or the loop it starts or joins
  callback,           \* callback[l]: the handler that loop l is running
  terminated,         \* std::terminate has been called
  stopped             \* stopListen() has returned since the last listen()

vars == <<handler, tokens, owner, depth, listening, listeningThread, pc, arg,
          callback, terminated, stopped>>

guardVars  == <<owner, depth>>
loopVars   == <<listening, listeningThread, stopped>>
accessVars == <<handler, tokens>>

NoCallback == [slot |-> None, client |-> None]

CallLabels == {"register", "unregister", "send", "xmit", "direct",
               "flag", "spawn", "assign", "join", "joining"}
LoopLabels == {"none", "head", "receive", "dispatch", "callback", "hold",
               "catch", "exited"}

DataTypes ==
  /\ handler \in [AccessType -> Clients \cup {None}]
  /\ tokens \in [Clients -> SUBSET AccessType]
  /\ owner \in Threads \cup {None}
  /\ depth \in 0..2
  /\ listeningThread \in Loops \cup {None}

FlagTypes == {listening, terminated, stopped} \subseteq BOOLEAN

PcTypes ==
  /\ pc \in [Threads -> CallLabels \cup LoopLabels \cup {"idle"}]
  /\ \A c \in Clients : pc[c] \notin LoopLabels
  /\ \A l \in Loops : pc[l] \notin {"idle", "direct"}

ArgTypes ==
  /\ arg \in [Threads -> AccessType \cup Loops \cup {None}]
  /\ \A t \in Threads :
       /\ pc[t] \in {"register", "unregister", "send"} => arg[t] \in AccessType
       /\ pc[t] = "xmit" => arg[t] \in {"Normal", "Exclusive"}
       /\ pc[t] = "assign" => arg[t] \in Loops
       /\ pc[t] = "joining" => arg[t] \in Loops \ {t}

CallbackTypes ==
  /\ callback \in [Loops -> [slot : AccessType, client : Clients]
                              \cup {NoCallback}]
  /\ \A l \in Loops :
       callback[l] # NoCallback <=> pc[l] \in CallLabels \cup {"callback"}

(* The types.  A client is never at a label of the loop; a callback is     *)
(* recorded while it runs, and a call's argument while it is under way.    *)
TypeOK == DataTypes /\ FlagTypes /\ PcTypes /\ ArgTypes /\ CallbackTypes

Init ==
  /\ handler = [a \in AccessType |-> None]
  /\ tokens = [c \in Clients |-> {}]
  /\ owner = None
  /\ depth = 0
  /\ listening = FALSE
  /\ listeningThread = None
  /\ pc = [t \in Threads |-> IF t \in Clients THEN "idle" ELSE "none"]
  /\ arg = [t \in Threads |-> None]
  /\ callback = [l \in Loops |-> NoCallback]
  /\ terminated = FALSE
  /\ stopped = TRUE

-----------------------------------------------------------------------------
(* The recursive mutex: its owner may lock it again. *)

(* Mutants: no mutex at all, and one that is not recursive. *)
CanLockAlways(t) == TRUE
CanLockOnce(t)   == owner = None

CanLock(t) == owner \in {None, t}

Lock(t) ==
  /\ CanLock(t)
  /\ owner' = t
  /\ depth' = depth + 1

(* Mutants: a level of the lock is left, or all of them are given up. *)
UnlockKeepsDepth(t) ==
  /\ owner = t
  /\ owner' = IF depth = 1 THEN None ELSE t
  /\ UNCHANGED depth

UnlockAll(t) == owner = t /\ owner' = None /\ depth' = depth - 1

Unlock(t) ==
  /\ owner = t
  /\ depth' = depth - 1
  /\ owner' = IF depth = 1 THEN None ELSE t

HasExclusiveAccess == handler["Exclusive"] # None

(* Where thread t is between calls, and the client whose code it runs. *)
Home(t) == IF t \in Loops THEN "callback" ELSE "idle"
Self(t) == IF t \in Loops THEN callback[t].client ELSE t

Goto(t, label) == pc' = [pc EXCEPT ![t] = label]

Return(t) ==
  /\ pc' = [pc EXCEPT ![t] = Home(t)]
  /\ arg' = [arg EXCEPT ![t] = None]

(* Calls that a client makes at will, and the ones its handlers make. *)
MayCall(t, op) ==
  /\ pc[t] = Home(t)
  /\ t \in Loops => op \in ReentrantCalls
  /\ op \in {"listen", "stopListen"} => t \in Controllers \cup Loops

-----------------------------------------------------------------------------
(* registerResponseHandler, unregisterResponseHandler and send(data, token) *)
(* start by locking the guard: the call waits at its own label.            *)

CallRegister(t, a) ==
  /\ MayCall(t, "register")
  /\ a \in Uses[Self(t)]
  /\ Goto(t, "register")
  /\ arg' = [arg EXCEPT ![t] = a]
  /\ UNCHANGED <<accessVars, guardVars, loopVars, callback, terminated>>

CallWithToken(t, op, a) ==
  /\ op \in {"unregister", "send"}
  /\ MayCall(t, op)
  /\ a \in tokens[Self(t)]
  /\ Goto(t, op)
  /\ arg' = [arg EXCEPT ![t] = a]
  /\ UNCHANGED <<accessVars, guardVars, loopVars, callback, terminated>>

(* A second exclusive registration throws; the other types overwrite. *)
Refused(a) == a = "Exclusive" /\ HasExclusiveAccess

Register(t) ==
  /\ pc[t] = "register"
  /\ CanLock(t)
  /\ \/ /\ Refused(arg[t])
        /\ UNCHANGED accessVars
     \/ /\ ~Refused(arg[t])
        /\ \E h \in {Self(t)} \cup (IF EmptyHandlers THEN {None} ELSE {}) :
             handler' = [handler EXCEPT ![arg[t]] = h]
        /\ tokens' = [tokens EXCEPT ![Self(t)] = @ \cup {arg[t]}]
  /\ Return(t)
  /\ UNCHANGED <<guardVars, loopVars, callback, terminated>>

(* Only the type of the token is looked at, and the token stays usable:    *)
(* its default move leaves the access type behind in the moved-from token. *)
Unregister(t) ==
  /\ pc[t] = "unregister"
  /\ CanLock(t)
  /\ handler' = [handler EXCEPT ![arg[t]] = None]
  /\ Return(t)
  /\ UNCHANGED <<tokens, guardVars, loopVars, callback, terminated>>

(* Mutant: the exclusive handler of another client is not looked at. *)
MaySendAny(a) == a \in {"Normal", "Exclusive"}

(* The access rule of send(data, token); what it refuses throws. *)
MaySend(a) == a = "Exclusive" \/ (a = "Normal" /\ ~HasExclusiveAccess)

SendRefused(t) ==
  /\ pc[t] = "send"
  /\ CanLock(t)
  /\ ~MaySend(arg[t])
  /\ Return(t)
  /\ UNCHANGED <<accessVars, guardVars, loopVars, callback, terminated>>

SendBegins(t) ==
  /\ pc[t] = "send"
  /\ Lock(t)
  /\ MaySend(arg[t])
  /\ Goto(t, "xmit")
  /\ UNCHANGED <<accessVars, loopVars, arg, callback, terminated>>

(* The transmission ends, by returning or by an exception of the transport. *)
SendEnds(t) ==
  /\ pc[t] = "xmit"
  /\ Unlock(t)
  /\ Return(t)
  /\ UNCHANGED <<accessVars, loopVars, callback, terminated>>

(* The connectors override send(data) as a public member: no guard, no token. *)
DirectSendBegins(c) ==
  /\ c \in DirectSenders
  /\ pc[c] = "idle"
  /\ Goto(c, "direct")
  /\ UNCHANGED <<accessVars, guardVars, loopVars, arg, callback, terminated>>

DirectSendEnds(c) ==
  /\ pc[c] = "direct"
  /\ Return(c)
  /\ UNCHANGED <<accessVars, guardVars, loopVars, callback, terminated>>

-----------------------------------------------------------------------------
(* listen(): the test of the flag, its setting, the construction of the    *)
(* thread and the move assignment to listeningThread are four steps that   *)
(* other threads, the new loop included, can come between.                 *)

(* With the flag set the call throws and changes nothing. *)
ListenTest(t) ==
  /\ MayCall(t, "listen")
  /\ StopsBeforeListen => stopped
  /\ ~listening
  /\ Goto(t, "flag")
  /\ stopped' = FALSE
  /\ UNCHANGED <<accessVars, guardVars, listening, listeningThread, arg,
                 callback, terminated>>

ListenFlag(t) ==
  /\ pc[t] = "flag"
  /\ listening' = TRUE
  /\ Goto(t, "spawn")
  /\ UNCHANGED <<accessVars, guardVars, listeningThread, arg, callback,
                 terminated, stopped>>

ListenSpawn(t) ==
  /\ pc[t] = "spawn"
  /\ \E l \in Loops :
       /\ pc[l] = "none"
       /\ pc' = [pc EXCEPT ![t] = "assign", ![l] = "head"]
       /\ arg' = [arg EXCEPT ![t] = l]
  /\ UNCHANGED <<accessVars, guardVars, loopVars, callback, terminated>>

(* The system has no thread to give: the constructor throws. *)
ListenSpawnFails(t) ==
  /\ pc[t] = "spawn"
  /\ "thread" \in Faults
  /\ Return(t)
  /\ UNCHANGED <<accessVars, guardVars, loopVars, callback, terminated>>

(* Move assignment to a std::thread that is still joinable terminates. *)
ListenAssign(t) ==
  /\ pc[t] = "assign"
  /\ \/ /\ listeningThread = None
        /\ listeningThread' = arg[t]
        /\ UNCHANGED terminated
     \/ /\ listeningThread # None
        /\ terminated' = TRUE
        /\ UNCHANGED listeningThread
  /\ Return(t)
  /\ UNCHANGED <<accessVars, guardVars, listening, callback, stopped>>

-----------------------------------------------------------------------------
(* stopListen(): clears the flag, then joins the thread if there is one.   *)

(* Mutant: a loop that has ended by itself is taken for one that is joined. *)
StopFlagIfListening(t) ==
  /\ MayCall(t, "stopListen")
  /\ listening' = FALSE
  /\ IF listening THEN Goto(t, "join") ELSE UNCHANGED pc
  /\ stopped' = (stopped \/ ~listening)
  /\ UNCHANGED <<accessVars, guardVars, listeningThread, arg, callback,
                 terminated>>

StopFlag(t) ==
  /\ MayCall(t, "stopListen")
  /\ listening' = FALSE
  /\ Goto(t, "join")
  /\ UNCHANGED <<accessVars, guardVars, listeningThread, arg, callback,
                 terminated, stopped>>

(* join() in the loop's own thread throws.  Two threads that join the same *)
(* loop are undefined behaviour: the second may wait as well or get an     *)
(* exception.                                                              *)
StopJoins(t) ==
  /\ pc[t] = "join"
  /\ listeningThread \notin {None, t}
  /\ Goto(t, "joining")
  /\ arg' = [arg EXCEPT ![t] = listeningThread]
  /\ UNCHANGED <<accessVars, guardVars, loopVars, callback, terminated>>

StopDoesNotJoin(t) ==
  /\ pc[t] = "join"
  /\ listeningThread \in {None, t} \/ \E u \in Threads : pc[u] = "joining"
  /\ Return(t)
  /\ stopped' = (stopped \/ (t \in Clients /\ listeningThread = None))
  /\ UNCHANGED <<accessVars, guardVars, listening, listeningThread, callback,
                 terminated>>

(* Mutant: detach() in place of join(). *)
Detached(t) ==
  /\ pc[t] = "joining"
  /\ listeningThread' = None
  /\ Return(t)
  /\ stopped' = (stopped \/ t \in Clients)
  /\ UNCHANGED <<accessVars, guardVars, listening, callback, terminated>>

(* The joined thread's resources are released and the member is reset,     *)
(* whatever it holds by now.                                               *)
Joined(t) ==
  /\ pc[t] = "joining"
  /\ pc[arg[t]] \in {"exited", "none"}
  /\ listeningThread' = None
  /\ pc' = [pc EXCEPT ![t] = Home(t), ![arg[t]] = "none"]
  /\ arg' = [arg EXCEPT ![t] = None]
  /\ stopped' = (stopped \/ t \in Clients)
  /\ UNCHANGED <<accessVars, guardVars, listening, callback, terminated>>

-----------------------------------------------------------------------------
(* listeningLoop(). *)

(* Mutant: while (true). *)
LoopHeadForEver(l) ==
  /\ pc[l] = "head"
  /\ Goto(l, "receive")
  /\ UNCHANGED <<accessVars, guardVars, loopVars, arg, callback, terminated>>

LoopHead(l) ==
  /\ pc[l] = "head"
  /\ Goto(l, IF listening THEN "receive" ELSE "exited")
  /\ UNCHANGED <<accessVars, guardVars, loopVars, arg, callback, terminated>>

(* receive() is called without the guard, and may take for ever; with no   *)
(* data the loop continues.                                                *)
Receive(l) ==
  /\ pc[l] = "receive"
  /\ \/ Goto(l, "dispatch")
     \/ Goto(l, "head")
     \/ "receive" \in Faults /\ Goto(l, "catch")
  /\ UNCHANGED <<accessVars, guardVars, loopVars, arg, callback, terminated>>

(* Mutant: the normal handler goes first. *)
TargetNormalFirst ==
  IF handler["Normal"] # None THEN "Normal" ELSE "Exclusive"

(* The handler a message goes to first. *)
Target == IF HasExclusiveAccess THEN "Exclusive" ELSE "Normal"

Dispatch(l) ==
  /\ pc[l] = "dispatch"
  /\ handler[Target] # None
  /\ Lock(l)
  /\ callback' = [callback EXCEPT ![l] = [slot |-> Target,
                                          client |-> handler[Target]]]
  /\ Goto(l, "callback")
  /\ UNCHANGED <<accessVars, loopVars, arg, terminated>>

(* Calling an empty std::function throws bad_function_call. *)
DispatchNobody(l) ==
  /\ pc[l] = "dispatch"
  /\ CanLock(l)
  /\ handler[Target] = None
  /\ Goto(l, "catch")
  /\ UNCHANGED <<accessVars, guardVars, loopVars, arg, callback, terminated>>

(* After the first handler the sniffer, if any, gets the same message. *)
ThenSniffer(l) ==
  /\ pc[l] = "callback"
  /\ callback[l].slot # "Sniffer"
  /\ handler["Sniffer"] # None
  /\ callback' = [callback EXCEPT ![l] = [slot |-> "Sniffer",
                                          client |-> handler["Sniffer"]]]
  /\ UNCHANGED <<accessVars, guardVars, loopVars, pc, arg, terminated>>

(* The last handler returns; the loop sleeps 50 ms with the guard held. *)
HandlersDone(l) ==
  /\ pc[l] = "callback"
  /\ callback[l].slot = "Sniffer" \/ handler["Sniffer"] = None
  /\ callback' = [callback EXCEPT ![l] = NoCallback]
  /\ Goto(l, "hold")
  /\ UNCHANGED <<accessVars, guardVars, loopVars, arg, terminated>>

HandlerThrows(l) ==
  /\ pc[l] = "callback"
  /\ "handler" \in Faults
  /\ Unlock(l)
  /\ callback' = [callback EXCEPT ![l] = NoCallback]
  /\ Goto(l, "catch")
  /\ UNCHANGED <<accessVars, loopVars, arg, terminated>>

EndIteration(l) ==
  /\ pc[l] = "hold"
  /\ Unlock(l)
  /\ Goto(l, "head")
  /\ UNCHANGED <<accessVars, loopVars, arg, callback, terminated>>

(* Mutant: the flag is left set. *)
CatchKeepsListening(l) ==
  /\ pc[l] = "catch"
  /\ Goto(l, "exited")
  /\ UNCHANGED <<accessVars, guardVars, loopVars, arg, callback, terminated>>

Catch(l) ==
  /\ pc[l] = "catch"
  /\ listening' = FALSE
  /\ Goto(l, "exited")
  /\ UNCHANGED <<accessVars, guardVars, listeningThread, arg, callback,
                 terminated, stopped>>

-----------------------------------------------------------------------------
(* A thread under way in a call, and the steps it takes on its own. *)
Waiting(t)  == Register(t) \/ Unregister(t) \/ SendRefused(t) \/ SendBegins(t)
Sending(t)  == SendEnds(t) \/ DirectSendEnds(t)
Control(t)  == \/ ListenFlag(t) \/ ListenSpawn(t) \/ ListenSpawnFails(t)
               \/ ListenAssign(t)
               \/ StopJoins(t) \/ StopDoesNotJoin(t) \/ Joined(t)
Running(l)  == LoopHead(l) \/ Receive(l) \/ EndIteration(l) \/ Catch(l)
Handing(l)  == Dispatch(l) \/ DispatchNobody(l)
Handling(l) == ThenSniffer(l) \/ HandlersDone(l) \/ HandlerThrows(l)

Call(t) ==
  \/ \E a \in AccessType : CallRegister(t, a)
  \/ \E op \in {"unregister", "send"}, a \in AccessType :
       CallWithToken(t, op, a)
  \/ DirectSendBegins(t)
  \/ ListenTest(t)
  \/ StopFlag(t)

Step(t) == Call(t) \/ Waiting(t) \/ Sending(t) \/ Control(t)

LoopStep(l) == Running(l) \/ Handing(l) \/ Handling(l)

Next ==
  /\ ~terminated
  /\ \/ \E t \in Threads : Step(t)
     \/ \E l \in Loops : LoopStep(l)

(* Every thread runs: a call once made goes on, handlers return, and a     *)
(* mutex that is released again and again is granted at last to each       *)
(* thread that waits for it.  Not so receive(), which the UART connector   *)
(* leaves only when no byte has come for 100 ms, and the TCP connector     *)
(* only when it has a connection.                                          *)
Fairness ==
  /\ \A t \in Threads :
       /\ WF_vars(~terminated /\ (Sending(t) \/ Control(t)))
       /\ SF_vars(~terminated /\ Waiting(t))
  /\ \A l \in Loops :
       /\ WF_vars(~terminated /\ Running(l) /\ pc[l] # "receive")
       /\ SF_vars(~terminated /\ Handing(l))
       /\ SF_vars(~terminated /\ Handling(l))

Spec     == Init /\ [][Next]_vars
FairSpec == Spec /\ Fairness

-----------------------------------------------------------------------------
(* What TLC checks and IConnector_proofs proves. *)

(* The loop's nesting of the guard, from the moment it has a message. *)
LoopGuards(l) == pc[l] \in CallLabels \cup {"callback", "hold"}

(* How often thread t has locked the guard. *)
Holds(t) == (IF pc[t] = "xmit" THEN 1 ELSE 0)
          + (IF t \in Loops /\ LoopGuards(t) THEN 1 ELSE 0)

(* The recursive mutex is held by exactly the thread that transmits, runs  *)
(* handlers or sleeps after them, as deep as its calls are nested, so it   *)
(* is free again when they are over, exceptions included.                  *)
GuardIsConsistent ==
  /\ owner = None <=> depth = 0
  /\ \A t \in Threads : Holds(t) = IF owner = t THEN depth ELSE 0

(* A loop is joined by one thread at a time, and the member keeps it until *)
(* that is done: join() is never called twice for a loop, which would be   *)
(* undefined, nor lets go of another loop than it waited for, although     *)
(* handlers call stopListen() too.                                         *)
OneJoiner ==
  \A t \in Threads : pc[t] = "joining" =>
    /\ listeningThread = arg[t]
    /\ \A u \in Threads : pc[u] = "joining" => u = t

(* No transmission of one thread overlaps a transmission or a response     *)
(* handler of another (sends with a token, IConnector.h "Guards atomicity  *)
(* of connector operations").                                              *)
MutualExclusion ==
  \A t, u \in Threads : Holds(t) > 0 /\ Holds(u) > 0 => t = u

(* While a client has exclusive access nothing is being sent with a normal *)
(* token: exclusive access can neither be granted during a normal send nor *)
(* be overlooked by one.                                                   *)
NormalSendExcludesExclusive ==
  \A t \in Threads :
    pc[t] = "xmit" /\ arg[t] = "Normal" => ~HasExclusiveAccess

(* A handler that runs is still the registered one: no std::function is    *)
(* destroyed under its own call, and no client is called back after its    *)
(* unregisterResponseHandler returned (for handlers that do not themselves *)
(* register or unregister).                                                *)
RunningHandlerIsRegistered ==
  \A l \in Loops : callback[l] # NoCallback =>
    callback[l].client = handler[callback[l].slot]

(* The normal handler is not running while a client has exclusive access   *)
(* (for handlers that do not register).                                    *)
NormalHandlerExcludesExclusive ==
  \A l \in Loops : callback[l].slot = "Normal" => ~HasExclusiveAccess

(* At most one loop thread exists, and when the member listeningThread is  *)
(* not joinable and no listen() is about to assign it there is none: after *)
(* stopListen() no handler is called any more.                             *)
OneJoinableLoop ==
  \A l \in Loops : pc[l] # "none" =>
    \/ l = listeningThread
    \/ listeningThread = None /\ \E t \in Threads : pc[t] = "assign" /\ arg[t] = l

(* listen() never assigns to a joinable std::thread, which would call      *)
(* std::terminate.                                                         *)
NeverTerminates == ~terminated

(* isListening() "Checks whether the listening loop is running": with no   *)
(* listen() between its flag and its thread, a set flag means that a loop  *)
(* runs.                                                                   *)
ListeningIsTrue ==
  listening /\ (\A t \in Threads : pc[t] # "spawn") =>
    \E l \in Loops : pc[l] \notin {"none", "exited"}

(* No call of receive() takes for ever: there is a pause of 100 ms between *)
(* bytes now and then (UART), or the server comes back (TCP).              *)
ReceiveReturns == \A l \in Loops : []<>(pc[l] # "receive")

(* No call of a client waits for the guard for ever, nor stopListen() for  *)
(* the loop that it joins, unless that stays in receive().                 *)
CallsReturn ==
  /\ \A c \in Clients :
       pc[c] \notin {"idle", "joining"} ~> pc[c] \in {"idle", "joining"}
  /\ ReceiveReturns => \A c \in Clients : pc[c] # "idle" ~> pc[c] = "idle"

(* A loop told to stop stops, although each receive() may bring another    *)
(* message and handlers may throw or call back; if receive() returns.      *)
LoopStops ==
  ReceiveReturns =>
    \A l \in Loops : pc[l] # "none" /\ ~listening ~>
                       pc[l] \in {"none", "exited"} \/ listening

Transmitting == {t \in Threads : pc[t] \in {"xmit", "direct"}}
CallingBack  == {l \in Loops : callback[l] # NoCallback}

TransmissionsUnderWay == {<<Self(t), arg[t]>> : t \in Transmitting}
HandlersUnderWay      == {callback[l] : l \in CallingBack}

(* The connector is a monitor: its transmissions and its handlers are      *)
(* those of ConnectorMonitor, which has neither threads nor locks.         *)
Monitor == INSTANCE ConnectorMonitor WITH
  slots   <- handler,
  sending <- TransmissionsUnderWay,
  calling <- HandlersUnderWay

MonitorSpec     == Monitor!Spec
MonitorFairSpec == Monitor!FairSpec
=============================================================================
