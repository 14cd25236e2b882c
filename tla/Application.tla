---------------------------- MODULE Application ----------------------------
(***************************************************************************)
(* A program around a connector, from its start to its end: the examples   *)
(* examples/connector/tcp/main.cpp and examples/connector/uart/main.cpp on *)
(* top of IConnector, with the connectors' destructors and the library's   *)
(* log, on which both the program and the connector write.                 *)
(*                                                                         *)
(* The connector and the log are objects with static storage duration: the *)
(* program constructs the one and exit() destroys both.  A signal may      *)
(* interrupt either thread anywhere; its handler calls exit(), which does  *)
(* not return, so the interrupted code does not go on.  One that comes     *)
(* when the program is ending already is not modelled.                     *)
(***************************************************************************)
EXTENDS IConnector

CONSTANTS
  main,         \* the thread of main()
  loop,         \* the one that listen() starts
  MaxOutages    \* bounds how often receive() stops returning

ASSUME ApplicationAssumption ==
  /\ Clients = {main} /\ Controllers = {main} /\ DirectSenders = {main}
  /\ Loops = {loop}
  /\ Uses[main] = {"Normal"}
  /\ MaxOutages \in Nat

VARIABLES
  kind,         \* the program: "tcp" or "uart"
  build,        \* how the library is linked: "shared" or "static"
  program,      \* where main() is, or exit()
  connector,    \* the connector: "none", "alive" or "gone"
  log,          \* Logger::log: "alive" or "gone"
  writing,      \* the threads that have a Logger with a message
  signal,       \* which thread took the signal, and where main() was then
  held,         \* receive() does not return
  outages       \* how often that has begun

connectorVars == vars
processVars   == <<kind, build, connector, log, writing, signal, held, outages>>
appVars       == <<connectorVars, program, processVars>>

NoSignal == [thread |-> None, at |-> "none"]

AppInit ==
  /\ Init
  /\ kind \in {"tcp", "uart"}
  /\ build \in {"shared", "static"}
  /\ program = "construct"
  /\ connector = "none"
  /\ log = "alive"
  /\ writing = {}
  /\ signal = NoSignal
  /\ held = FALSE
  /\ outages = 0

-----------------------------------------------------------------------------
LoopIsOver == pc[loop] \in {"none", "exited"}

Proceed(from, to) == program = from /\ program' = to

(* A step of main() in the connector. *)
Within(from, to) == Proceed(from, to) /\ UNCHANGED processVars

(* Without its server a TCP connector does not connect, nor send once the  *)
(* connection is lost: it tries to connect, in the call that found it so.  *)
Unconnected == kind = "tcp" /\ held

-----------------------------------------------------------------------------
(* main() *)

(* The constructor of the TCP connector connects; that of the UART         *)
(* connector may throw.                                                    *)
Constructs ==
  /\ ~Unconnected
  /\ Proceed("construct", "register")
  /\ connector' = "alive"
  /\ UNCHANGED <<connectorVars, kind, build, log, writing, signal, held, outages>>

ConstructorThrows ==
  /\ kind = "uart"
  /\ Within("construct", "exit")
  /\ UNCHANGED connectorVars

Registers ==
  \/ CallRegister(main, "Normal") /\ Within("register", "registering")
  \/ Register(main) /\ Within("registering", "listen")

(* An exception of listen() leaves main(). *)
Listens ==
  \/ ListenTest(main) /\ Within("listen", "listening")
  \/ (ListenFlag(main) \/ ListenSpawn(main)) /\ Within("listening", "listening")
  \/ ListenAssign(main) /\ Within("listening", "run")
  \/ ListenSpawnFails(main) /\ Within("listening", "exit")

SendStarts == DirectSendBegins(main) /\ Within("run", "run")

(* The TCP program goes on after a send that throws, the UART program ends. *)
SendReturns ==
  /\ ~Unconnected
  /\ DirectSendEnds(main)
  /\ Within("run", "run") \/ (kind = "uart" /\ Within("run", "exit"))

-----------------------------------------------------------------------------
(* The destructors of the connectors *)

(* Mutant: the loop is not stopped. *)
DestructorSkipsStop ==
  /\ Within("destroy", "stopping")
  /\ UNCHANGED connectorVars

(* ~TcpConnector and ~UartConnector begin with stopListen(). *)
DestructorStops == StopFlag(main) /\ Within("destroy", "stopping")

StopGoesOn ==
  /\ StopJoins(main) \/ StopDoesNotJoin(main) \/ Joined(main)
  /\ Within("stopping", "stopping")

(* The members go after the body: a std::thread that is still joinable     *)
(* ends the program.                                                       *)
DestructorEnds ==
  /\ pc[main] = "idle"
  /\ Proceed("stopping", "exit")
  /\ connector' = "gone"
  /\ terminated' = (listeningThread # None)
  /\ UNCHANGED <<accessVars, guardVars, loopVars, pc, arg, callback,
                 kind, build, log, writing, signal, held, outages>>

-----------------------------------------------------------------------------
(* exit() destroys the static objects, the last one constructed first.     *)

ExitDestroysConnector ==
  /\ connector = "alive"
  /\ Within("exit", "destroy")
  /\ UNCHANGED connectorVars

(* The objects of a shared library outlive those of the program; in one    *)
(* that is linked statically their order is unspecified.                   *)
MayDestroyLog == build = "static" \/ connector # "alive"

ExitDestroysLog ==
  /\ log = "alive"
  /\ MayDestroyLog
  /\ Proceed("exit", "exit")
  /\ log' = "gone"
  /\ UNCHANGED <<connectorVars, kind, build, connector, writing, signal, held,
                 outages>>

(* The process ends, and every thread with it. *)
ExitEnds ==
  /\ connector # "alive" /\ log = "gone"
  /\ Within("exit", "ended")
  /\ UNCHANGED connectorVars

-----------------------------------------------------------------------------
(* The log: IQRF_LOG makes a Logger that gathers the message, and writes   *)
(* it on Logger::log when it is destroyed.  The programs log every level.  *)

(* The response handler logs, main(), the constructors, and the TCP        *)
(* connector when it receives, connects and disconnects.                   *)
MayLog(t) ==
  IF t = loop
  THEN pc[loop] = "callback" \/ (kind = "tcp" /\ pc[loop] = "receive")
  ELSE \/ program \in {"construct", "run"}
       \/ kind = "tcp" /\ program = "stopping" /\ pc[main] = "idle"

MessageBegins(t) ==
  /\ t \notin writing
  /\ MayLog(t)
  /\ writing' = writing \cup {t}
  /\ UNCHANGED <<connectorVars, program, kind, build, connector, log, signal,
                 held, outages>>

MessageAppended(t) ==
  /\ t \in writing
  /\ writing' = writing \ {t}
  /\ UNCHANGED <<connectorVars, program, kind, build, connector, log, signal,
                 held, outages>>

-----------------------------------------------------------------------------
(* A signal *)

Interruptible ==
  /\ signal = NoSignal
  /\ program \in {"construct", "register", "registering", "listen",
                  "listening", "run"}

Taken(t) == signal' = [thread |-> t, at |-> pc[main]]

(* Mutant: the handler only calls exit(). *)
HandlerExits == program' = "exit"

(* The TCP program's handler destroys the connector, if there is one, and  *)
(* calls exit(); the UART program's leaves the connector to exit().        *)
SignalHandler ==
  program' = IF kind = "tcp" /\ connector = "alive" THEN "destroy" ELSE "exit"

(* The call that main() was in, and its message, are abandoned. *)
SignalInMain ==
  /\ Interruptible
  /\ Taken(main)
  /\ SignalHandler
  /\ Return(main)
  /\ writing' = writing \ {main}
  /\ UNCHANGED <<accessVars, guardVars, loopVars, callback, terminated,
                 kind, build, connector, log, held, outages>>

(* In the loop's own thread the destructor's join() throws.  If listen()   *)
(* has not stored the thread yet, the destructor ends while main() is in   *)
(* listen(), and what happens then is undefined.                           *)
SignalInLoop ==
  /\ Interruptible
  /\ pc[loop] \notin {"none", "exited"}
  /\ Taken(loop)
  /\ listening' = FALSE
  /\ writing' = writing \ {loop}
  /\ IF listeningThread = loop
     THEN terminated' = TRUE /\ UNCHANGED <<program, connector>>
     ELSE /\ program' = "undefined" /\ connector' = "gone"
          /\ UNCHANGED terminated
  /\ UNCHANGED <<accessVars, guardVars, listeningThread, stopped, pc, arg,
                 callback, kind, build, log, held, outages>>

-----------------------------------------------------------------------------
(* The loop, and what keeps it in receive(): a TCP server that does not    *)
(* answer, or bytes on the UART that come less than 100 ms apart.          *)

LoopRuns ==
  /\ loop \notin writing
  /\ LoopStep(loop)
  /\ pc[loop] = "receive" => ~held
  /\ UNCHANGED <<program, processVars>>

ReceiveHangs ==
  /\ ~held
  /\ outages < MaxOutages
  /\ outages' = outages + 1
  /\ held' = TRUE
  /\ UNCHANGED <<connectorVars, program, kind, build, connector, log, writing,
                 signal>>

ReceiveGoesOn ==
  /\ held
  /\ held' = FALSE
  /\ UNCHANGED <<connectorVars, program, kind, build, connector, log, writing,
                 signal, outages>>

MainStep ==
  /\ main \notin writing
  /\ \/ Constructs \/ ConstructorThrows \/ Registers \/ Listens
     \/ SendStarts \/ SendReturns
     \/ DestructorStops \/ StopGoesOn \/ DestructorEnds
     \/ ExitDestroysConnector \/ ExitDestroysLog \/ ExitEnds

InProgress == ~terminated /\ program \notin {"ended", "undefined"}

AppNext ==
  /\ InProgress
  /\ \/ MainStep \/ LoopRuns
     \/ \E t \in Threads : MessageBegins(t) \/ MessageAppended(t)
     \/ SignalInMain \/ SignalInLoop
     \/ ReceiveHangs \/ ReceiveGoesOn

AppSpec == AppInit /\ [][AppNext]_appVars

(* Both threads run, between their messages too, and a message comes to    *)
(* its end.  Nothing says that the server comes back or the line is quiet. *)
AppFairSpec ==
  /\ AppSpec
  /\ SF_appVars(InProgress /\ MainStep)
  /\ SF_appVars(InProgress /\ LoopRuns)
  /\ \A t \in Threads : WF_appVars(InProgress /\ MessageAppended(t))

-----------------------------------------------------------------------------
(* The signal came when listen() had started the loop's thread and had not *)
(* yet stored it in the member: nobody can join it.                        *)
ListenInterrupted == signal.at = "assign"

(* When a connector is destroyed, by the signal's handler, by exit() or    *)
(* after an error, its listening loop has ended: it neither receives on a  *)
(* connector nor calls a handler that is not there any more.  The only     *)
(* exception is a signal within listen().                                  *)
ConnectorOutlivesItsLoop ==
  connector = "gone" /\ ~ListenInterrupted => LoopIsOver

(* The log is there when a message ends, the loop's and the destructor's   *)
(* too.  With the library linked statically this is so only for the TCP    *)
(* program after a signal, whose handler destroys the connector before it  *)
(* calls exit().                                                           *)
LogOutlivesItsUsers ==
  /\ writing # {} /\ ~ListenInterrupted
  /\ build = "shared" \/ (kind = "tcp" /\ signal # NoSignal)
  => log = "alive"

(* A program that is told to end ends, and is not aborted: after an error, *)
(* or a signal that main() takes outside listen().  The destructor waits   *)
(* for a receive() that is under way: if the TCP server does not come back *)
(* or bytes keep coming to the UART, the program never ends.               *)
Ends ==
  []<>~held =>
    (program \in {"destroy", "exit"} /\ ~ListenInterrupted ~> program = "ended")
=============================================================================
