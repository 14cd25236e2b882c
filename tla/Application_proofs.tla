------------------------- MODULE Application_proofs -------------------------
(***************************************************************************)
(* How the program, the connector and its listening loop depend on each    *)
(* other, and the proofs that the connector outlives its loop and the log  *)
(* its users, whatever faults, outages and signals there are.              *)
(***************************************************************************)
EXTENDS Application, TLAPS

AppTypes ==
  /\ pc \in [Threads -> CallLabels \cup LoopLabels \cup {"idle"}]
  /\ arg \in [Threads -> AccessType \cup Loops \cup {None}]
  /\ pc[loop] \in LoopLabels
  /\ listeningThread \in {None, loop}
  /\ writing \subseteq Threads
  /\ connector \in {"none", "alive", "gone"}

(* The calls that main() is in, at each place of the program. *)
MainIsAt ==
  /\ program \in {"construct", "register", "listen", "destroy", "exit",
                  "ended"} => pc[main] = "idle"
  /\ program = "registering" => pc[main] = "register"
  /\ program = "listening" => pc[main] \in {"flag", "spawn", "assign"}
  /\ program = "run" => pc[main] \in {"idle", "direct"}
  /\ program = "stopping" => pc[main] \in {"join", "joining", "idle"}

(* The member listeningThread holds the loop from its start to its join,   *)
(* but for the moment in which listen() is about to store it there.        *)
LoopIsHeld ==
  IF pc[main] = "assign"
  THEN listeningThread = None /\ arg[main] = loop /\ pc[loop] # "none"
  ELSE listeningThread = (IF pc[loop] = "none" THEN None ELSE loop)

JoinsTheLoop ==
  pc[main] = "joining" => listeningThread = loop /\ arg[main] = loop

(* Where the program is when there is no connector, or no longer one. *)
ConnectorIsWhere ==
  /\ connector = "none" =>
       program \in {"construct", "exit", "ended"} /\ pc[loop] = "none"
  /\ connector = "gone" => program \in {"exit", "ended", "undefined"}

(* A loop that logs is where it logs, so it does not end meanwhile;  *)
(* the destructor of the connector lets no loop behind.                    *)
LoopIsJoined ==
  /\ loop \in writing => pc[loop] \in {"callback", "receive"}
  /\ program = "stopping" /\ pc[main] = "idle" => listeningThread = None
  /\ connector = "gone" => listeningThread = None

(* The builds and programs whose log is destroyed after the connector. *)
LogGoesLast == build = "shared" \/ (kind = "tcp" /\ signal # NoSignal)

LogIsWhere ==
  /\ log = "gone" => program \in {"exit", "destroy", "stopping", "ended"}
  /\ kind = "tcp" /\ signal # NoSignal /\ ~terminated =>
       program \in {"destroy", "stopping", "undefined"} \/ connector # "alive"

NobodyLogs ==
  log = "gone" /\ LogGoesLast => connector # "alive" /\ writing = {}

(* An abort is the work of a signal that the loop's thread takes. *)
AbortsAreSignals == terminated => signal.thread = loop

(* After a signal the program only ends; its behaviour is undefined only   *)
(* after one in the midst of listen().                                     *)
SignalEnds ==
  /\ signal # NoSignal /\ ~terminated =>
       program \in {"destroy", "stopping", "exit", "ended", "undefined"}
  /\ program = "undefined" => ListenInterrupted

AppConsistent ==
  /\ AppTypes /\ MainIsAt /\ JoinsTheLoop /\ ConnectorIsWhere /\ LogIsWhere
  /\ SignalEnds
  /\ ~ListenInterrupted =>
       LoopIsHeld /\ LoopIsJoined /\ NobodyLogs /\ AbortsAreSignals

-----------------------------------------------------------------------------
(* There are two threads, main()'s and the loop's. *)
LEMMA TwoThreads ==
  /\ Threads = {main, loop} /\ Clients = {main} /\ Loops = {loop}
  /\ main # loop /\ None \notin {main, loop} /\ None \notin AccessType
  /\ Home(main) = "idle"
BY IConnectorAssumption, ApplicationAssumption DEF Threads, Home

(* Before a signal, and after one that did not interrupt listen(), the     *)
(* steps that take no signal leave it so.                                  *)
LEMMA SameSignal ==
  ASSUME signal' = signal
  PROVE  ListenInterrupted' = ListenInterrupted
BY DEF ListenInterrupted

(* The conjuncts of the invariant that main()'s calls of the connector can *)
(* disturb: the others follow from where the program is.                   *)
LEMMA MainCallsConsistent ==
  ASSUME AppConsistent, ~terminated,
         UNCHANGED processVars, UNCHANGED terminated,
         program \in {"register", "registering", "listen", "listening", "run",
                      "stopping"},
         program' \in {"registering", "listen", "listening", "run", "stopping",
                       "exit"},
         program = "stopping" <=> program' = "stopping",
         AppTypes', MainIsAt', JoinsTheLoop',
         ~ListenInterrupted => LoopIsHeld' /\ LoopIsJoined'
  PROVE  AppConsistent'
<1>1. /\ kind' = kind /\ build' = build /\ connector' = connector
      /\ log' = log /\ writing' = writing /\ signal' = signal
  BY DEF processVars
<1>2. connector = "alive"
  BY DEF AppConsistent, AppTypes, ConnectorIsWhere
<1>3. ConnectorIsWhere'
  BY <1>1, <1>2 DEF ConnectorIsWhere
<1>4. LogIsWhere'
  <2>1. program' = "exit" => ~(kind = "tcp" /\ signal # NoSignal)
    BY <1>2 DEF AppConsistent, LogIsWhere
  <2> QED  BY <1>1, <1>2, <2>1 DEF AppConsistent, LogIsWhere
<1>5. ListenInterrupted' = ListenInterrupted
  BY <1>1, SameSignal
<1>6. ~ListenInterrupted => NobodyLogs' /\ AbortsAreSignals'
  BY <1>1 DEF AppConsistent, NobodyLogs, AbortsAreSignals, LogGoesLast
<1>7. SignalEnds'
  BY <1>1, <1>5 DEF AppConsistent, SignalEnds
<1> QED  BY <1>3, <1>4, <1>5, <1>6, <1>7, Zenon DEF AppConsistent

(* main() registers its handler, starts the loop and sends. *)
LEMMA CallsConsistent ==
  ASSUME AppConsistent, ~terminated, main \notin writing,
         Registers \/ Listens \/ SendStarts \/ SendReturns
  PROVE  AppConsistent'
<1> USE TwoThreads DEF Within, Proceed, Goto, Return, CallLabels, LoopLabels,
      accessVars, guardVars, loopVars
<1>1. AppTypes /\ MainIsAt /\ JoinsTheLoop /\ ConnectorIsWhere
  BY DEF AppConsistent
<1>2. UNCHANGED processVars
  BY Zenon DEF Registers, Listens, SendStarts, SendReturns
<1>3. connector' = connector /\ writing' = writing
  BY <1>2 DEF processVars
<1>4. ASSUME ~ListenInterrupted PROVE LoopIsHeld /\ LoopIsJoined
  BY <1>4 DEF AppConsistent
<1>5. CASE Registers
  <2>1. /\ pc' \in {[pc EXCEPT ![main] = "register"],
                    [pc EXCEPT ![main] = "idle"]}
        /\ pc[main] \in {"idle", "register"} /\ pc'[main] # pc[main]
        /\ arg' \in {[arg EXCEPT ![main] = "Normal"],
                     [arg EXCEPT ![main] = None]}
        /\ listeningThread' = listeningThread
        /\ \/ program = "register" /\ program' = "registering"
              /\ pc'[main] = "register"
           \/ program = "registering" /\ program' = "listen"
              /\ pc'[main] = "idle"
    BY <1>1, <1>5 DEF Registers, CallRegister, MayCall, Register, AppTypes
  <2>2. UNCHANGED terminated
    BY <1>5, Zenon DEF Registers, CallRegister, Register
  <2>3. AppTypes' /\ MainIsAt' /\ JoinsTheLoop'
    BY <1>1, <1>3, <2>1 DEF AppTypes, MainIsAt, JoinsTheLoop, AccessType
  <2>4. ASSUME ~ListenInterrupted PROVE LoopIsHeld' /\ LoopIsJoined'
    BY <1>1, <1>3, <1>4, <2>1, <2>4 DEF AppTypes, LoopIsHeld, LoopIsJoined,
       ConnectorIsWhere
  <2> QED  BY <1>2, <2>1, <2>2, <2>3, <2>4, MainCallsConsistent
<1>6. CASE SendStarts \/ SendReturns
  <2>1. /\ pc' = [pc EXCEPT ![main] = "direct"] \/
             pc' = [pc EXCEPT ![main] = "idle"]
        /\ arg' \in {arg, [arg EXCEPT ![main] = None]}
        /\ listeningThread' = listeningThread
        /\ program = "run"
        /\ \/ program' = "run"
           \/ program' = "exit" /\ pc'[main] = "idle"
    BY <1>1, <1>6 DEF SendStarts, SendReturns, DirectSendBegins,
       DirectSendEnds, AppTypes
  <2>2. UNCHANGED terminated
    BY <1>6, Zenon DEF SendStarts, SendReturns, DirectSendBegins, DirectSendEnds
  <2>3. AppTypes' /\ MainIsAt' /\ JoinsTheLoop'
    BY <1>1, <1>3, <2>1 DEF AppTypes, MainIsAt, JoinsTheLoop
  <2>4. ASSUME ~ListenInterrupted PROVE LoopIsHeld' /\ LoopIsJoined'
    BY <1>1, <1>3, <1>4, <2>1, <2>4 DEF AppTypes, MainIsAt, LoopIsHeld,
       LoopIsJoined, ConnectorIsWhere
  <2> QED  BY <1>2, <2>1, <2>2, <2>3, <2>4, MainCallsConsistent
<1>7. CASE Listens
  <2>1. /\ listeningThread' = listeningThread \/ ListenAssign(main)
        /\ \/ /\ ListenTest(main)
              /\ program = "listen" /\ program' = "listening"
           \/ /\ ListenFlag(main) \/ ListenSpawn(main)
              /\ program = "listening" /\ program' = "listening"
           \/ /\ ListenAssign(main)
              /\ program = "listening" /\ program' = "run"
           \/ /\ ListenSpawnFails(main)
              /\ program = "listening" /\ program' = "exit"
    BY <1>7 DEF Listens, ListenTest, ListenFlag, ListenSpawn, ListenSpawnFails
  <2>2. CASE ListenTest(main) \/ ListenFlag(main)
    <3>1. /\ pc' = [pc EXCEPT ![main] = "flag"] \/
               pc' = [pc EXCEPT ![main] = "spawn"]
          /\ arg' = arg /\ listeningThread' = listeningThread
          /\ pc[main] \in {"idle", "flag"}
      BY <2>2 DEF ListenTest, ListenFlag, MayCall
    <3>2. UNCHANGED terminated
      BY <2>2, Zenon DEF ListenTest, ListenFlag
    <3>3. program' = "listening" /\ program \in {"listen", "listening"}
      BY <2>1, <2>2, <3>1, <1>1 DEF ListenAssign, ListenSpawnFails, ListenSpawn
    <3>4. AppTypes' /\ MainIsAt' /\ JoinsTheLoop'
      BY <1>1, <1>3, <3>1, <3>3 DEF AppTypes, MainIsAt, JoinsTheLoop
    <3>5. ASSUME ~ListenInterrupted PROVE LoopIsHeld' /\ LoopIsJoined'
      BY <1>1, <1>3, <1>4, <3>1, <3>3, <3>5 DEF AppTypes, LoopIsHeld,
         LoopIsJoined, ConnectorIsWhere
    <3> QED  BY <1>2, <3>2, <3>3, <3>4, <3>5, MainCallsConsistent
  <2>3. CASE ListenSpawn(main)
    <3>1. /\ pc' = [pc EXCEPT ![main] = "assign", ![loop] = "head"]
          /\ arg' = [arg EXCEPT ![main] = loop]
          /\ listeningThread' = listeningThread
          /\ pc[main] = "spawn" /\ pc[loop] = "none"
      BY <2>3 DEF ListenSpawn
    <3>2. UNCHANGED terminated
      BY <2>3, Zenon DEF ListenSpawn
    <3>3. program' = "listening" /\ program = "listening"
      <4>1. program = "listening" /\ program' \in {"listening", "exit"}
        BY <2>1, <3>1, <1>1 DEF ListenAssign, ListenTest, MayCall
      <4>2. pc'[main] = "assign"
        BY <3>1, <1>1 DEF AppTypes
      <4>3. ~ListenSpawnFails(main)
        BY <4>2, <1>1 DEF ListenSpawnFails, AppTypes
      <4> QED  BY <2>1, <4>1, <4>3
    <3>4. AppTypes' /\ MainIsAt' /\ JoinsTheLoop'
      BY <1>1, <1>3, <3>1, <3>3 DEF AppTypes, MainIsAt, JoinsTheLoop
    <3>5. ASSUME ~ListenInterrupted PROVE LoopIsHeld' /\ LoopIsJoined'
      BY <1>1, <1>3, <1>4, <3>1, <3>3, <3>5 DEF AppTypes, LoopIsHeld,
         LoopIsJoined, ConnectorIsWhere
    <3> QED  BY <1>2, <3>2, <3>3, <3>4, <3>5, MainCallsConsistent
  <2>4. CASE ListenAssign(main)
    <3>1. pc[main] = "assign"
      BY <2>4 DEF ListenAssign
    <3>2. program' = "run" /\ program = "listening"
      BY <2>1, <3>1, <1>1 DEF ListenSpawnFails, ListenSpawn, ListenTest,
         MayCall, ListenFlag
    <3>3. ~ListenInterrupted
      BY <3>2 DEF AppConsistent, SignalEnds, ListenInterrupted, NoSignal
    <3>4. listeningThread = None /\ arg[main] = loop /\ pc[loop] # "none"
      BY <1>4, <3>1, <3>3 DEF LoopIsHeld
    <3>5. /\ pc' = [pc EXCEPT ![main] = "idle"]
          /\ arg' = [arg EXCEPT ![main] = None]
          /\ listeningThread' = loop
      BY <2>4, <3>4 DEF ListenAssign
    <3>6. UNCHANGED terminated
      BY <2>4, <3>4, Zenon DEF ListenAssign
    <3>7. AppTypes' /\ MainIsAt' /\ JoinsTheLoop'
      BY <1>1, <1>3, <3>2, <3>5 DEF AppTypes, MainIsAt, JoinsTheLoop
    <3>8. LoopIsHeld' /\ LoopIsJoined'
      BY <1>1, <1>3, <1>4, <3>2, <3>3, <3>4, <3>5 DEF AppTypes, LoopIsHeld,
         LoopIsJoined, ConnectorIsWhere
    <3> QED  BY <1>2, <3>2, <3>6, <3>7, <3>8, MainCallsConsistent
  <2>5. CASE ListenSpawnFails(main)
    <3>1. /\ pc' = [pc EXCEPT ![main] = "idle"]
          /\ arg' = [arg EXCEPT ![main] = None]
          /\ listeningThread' = listeningThread
          /\ pc[main] = "spawn"
      BY <2>5 DEF ListenSpawnFails
    <3>2. UNCHANGED terminated
      BY <2>5, Zenon DEF ListenSpawnFails
    <3>3. program' \in {"listening", "exit"} /\ program = "listening"
      BY <2>1, <3>1, <1>1 DEF ListenAssign, ListenTest, MayCall, ListenFlag
    <3>4. program' = "exit"
      <4>1. pc'[main] = "idle"
        BY <3>1, <1>1 DEF AppTypes
      <4>2. ~ListenSpawn(main)
        BY <4>1, <1>1 DEF ListenSpawn, AppTypes
      <4> QED
        BY <2>1, <3>1, <3>3, <4>2 DEF ListenFlag, ListenAssign
    <3>5. AppTypes' /\ MainIsAt' /\ JoinsTheLoop'
      BY <1>1, <1>3, <3>1, <3>4 DEF AppTypes, MainIsAt, JoinsTheLoop
    <3>6. ASSUME ~ListenInterrupted PROVE LoopIsHeld' /\ LoopIsJoined'
      BY <1>1, <1>3, <1>4, <3>1, <3>3, <3>4, <3>6 DEF AppTypes, LoopIsHeld,
         LoopIsJoined, ConnectorIsWhere
    <3> QED  BY <1>2, <3>2, <3>3, <3>4, <3>5, <3>6, MainCallsConsistent
  <2> QED  BY <1>7, <2>2, <2>3, <2>4, <2>5 DEF Listens
<1> QED  BY <1>5, <1>6, <1>7

(* The program constructs its connector, or cannot. *)
LEMMA StartConsistent ==
  ASSUME AppConsistent, ~terminated, main \notin writing,
         Constructs \/ ConstructorThrows
  PROVE  AppConsistent'
<1>1. AppTypes /\ MainIsAt /\ JoinsTheLoop /\ ConnectorIsWhere /\ SignalEnds
  BY DEF AppConsistent
<1>2. /\ UNCHANGED <<pc, arg, listeningThread, writing, log, kind, build, signal>>
      /\ program = "construct"
      /\ \/ program' = "register" /\ connector' = "alive"
         \/ program' = "exit" /\ connector' = connector /\ kind = "uart"
  BY DEF Constructs, ConstructorThrows, Within, Proceed, connectorVars, vars,
     processVars
<1>3. UNCHANGED terminated
  BY Zenon DEF Constructs, ConstructorThrows, connectorVars, vars
<1>4. signal = NoSignal
  BY <1>1, <1>2 DEF SignalEnds
<1>5. log # "gone"
  BY <1>2 DEF AppConsistent, LogIsWhere
<1>6. AppTypes' /\ MainIsAt' /\ JoinsTheLoop' /\ LogIsWhere'
  BY <1>1, <1>2, <1>4, <1>5 DEF AppTypes, MainIsAt, JoinsTheLoop, LogIsWhere
<1>7. ConnectorIsWhere'
  BY <1>1, <1>2 DEF ConnectorIsWhere
<1>8. SignalEnds'
  BY <1>2, <1>4 DEF SignalEnds
<1>9. ~ListenInterrupted => LoopIsHeld' /\ LoopIsJoined' /\ NobodyLogs'
  BY <1>1, <1>2, <1>5 DEF AppConsistent, LoopIsHeld, LoopIsJoined, NobodyLogs,
     ConnectorIsWhere
<1>10. ~ListenInterrupted => AbortsAreSignals'
  BY <1>3 DEF AbortsAreSignals
<1>11. ListenInterrupted' = ListenInterrupted
  BY <1>2, SameSignal
<1> QED  BY <1>6, <1>7, <1>8, <1>9, <1>10, <1>11, Zenon DEF AppConsistent

(* The destructor stops and joins the loop. *)
LEMMA DestructorConsistent ==
  ASSUME AppConsistent, ~terminated, DestructorStops \/ StopGoesOn
  PROVE  AppConsistent'
<1> USE TwoThreads DEF Within, Proceed, Goto, Return, CallLabels, LoopLabels,
      accessVars, guardVars, loopVars
<1>1. AppTypes /\ MainIsAt /\ JoinsTheLoop /\ ConnectorIsWhere /\ SignalEnds
  BY DEF AppConsistent
<1>2. UNCHANGED processVars
  BY Zenon DEF DestructorStops, StopGoesOn
<1>3. /\ connector' = connector /\ writing' = writing /\ log' = log
      /\ kind' = kind /\ build' = build /\ signal' = signal
  BY <1>2 DEF processVars
<1>4. ListenInterrupted' = ListenInterrupted
  BY <1>3, SameSignal
<1>5. UNCHANGED terminated
  BY Zenon DEF DestructorStops, StopGoesOn, StopFlag, StopJoins,
     StopDoesNotJoin, Joined
<1>6. /\ program \in {"destroy", "stopping"} /\ program' = "stopping"
      /\ pc[main] \in {"idle", "join", "joining"}
  BY <1>1 DEF DestructorStops, StopGoesOn, MainIsAt
<1>7. connector = "alive"
  BY <1>1, <1>6 DEF AppTypes, ConnectorIsWhere
<1>8. \A u \in Threads : pc[u] = "joining" => u = main
  BY <1>1 DEF AppTypes
<1>9. /\ arg' \in {arg, [arg EXCEPT ![main] = None],
                     [arg EXCEPT ![main] = loop]}
      /\ \/ /\ listeningThread' = listeningThread
            /\ \/ pc' = [pc EXCEPT ![main] = "join"]
               \/ /\ pc' = [pc EXCEPT ![main] = "joining"]
                  /\ listeningThread = loop
                  /\ arg' = [arg EXCEPT ![main] = loop]
               \/ /\ pc' = [pc EXCEPT ![main] = "idle"]
                  /\ listeningThread = None
         \/ /\ listeningThread' = None
            /\ pc[main] = "joining" /\ pc[loop] \in {"exited", "none"}
            /\ pc' = [pc EXCEPT ![main] = "idle", ![loop] = "none"]
  <2>1. CASE DestructorStops
    BY <2>1 DEF DestructorStops, StopFlag
  <2>2. CASE StopGoesOn /\ StopJoins(main)
    BY <1>1, <2>2 DEF StopGoesOn, StopJoins, AppTypes
  <2>3. CASE StopGoesOn /\ StopDoesNotJoin(main)
    BY <1>1, <1>8, <2>3 DEF StopGoesOn, StopDoesNotJoin, AppTypes
  <2>4. CASE StopGoesOn /\ Joined(main)
    BY <1>1, <2>4 DEF StopGoesOn, Joined, JoinsTheLoop
  <2> QED  BY <2>1, <2>2, <2>3, <2>4 DEF StopGoesOn
<1>10. AppTypes' /\ MainIsAt' /\ JoinsTheLoop'
  BY <1>1, <1>3, <1>6, <1>9 DEF AppTypes, MainIsAt, JoinsTheLoop
<1>11. ConnectorIsWhere' /\ SignalEnds'
  BY <1>1, <1>3, <1>6, <1>7 DEF ConnectorIsWhere, SignalEnds
<1>12. LogIsWhere'
  BY <1>3, <1>6 DEF AppConsistent, LogIsWhere
<1>13. ASSUME ~ListenInterrupted PROVE LoopIsHeld' /\ LoopIsJoined'
  <2>1. LoopIsHeld /\ LoopIsJoined
    BY <1>13 DEF AppConsistent
  <2> QED
    BY <1>1, <1>3, <1>6, <1>7, <1>9, <2>1 DEF AppTypes, LoopIsHeld, LoopIsJoined
<1>14. ~ListenInterrupted => NobodyLogs'
  BY <1>3 DEF AppConsistent, NobodyLogs, LogGoesLast
<1>15. ~ListenInterrupted => AbortsAreSignals'
  BY <1>5 DEF AbortsAreSignals
<1> QED
  BY <1>4, <1>10, <1>11, <1>12, <1>13, <1>14, <1>15, Zenon DEF AppConsistent

(* The destructor ends, with no loop that could still be joined. *)
LEMMA DestructorEndsConsistent ==
  ASSUME AppConsistent, ~terminated, main \notin writing, DestructorEnds
  PROVE  AppConsistent'
<1>1. AppTypes /\ MainIsAt /\ JoinsTheLoop /\ ConnectorIsWhere /\ SignalEnds
  BY DEF AppConsistent
<1>2. /\ UNCHANGED <<pc, arg, listeningThread, writing, log, kind, build, signal>>
      /\ program = "stopping" /\ program' = "exit" /\ connector' = "gone"
      /\ pc[main] = "idle"
  BY DEF DestructorEnds, Proceed, loopVars
<1>3. ListenInterrupted' = ListenInterrupted
  BY <1>2, SameSignal
<1>4. /\ AppTypes' /\ MainIsAt' /\ JoinsTheLoop' /\ ConnectorIsWhere'
      /\ LogIsWhere' /\ SignalEnds'
  BY <1>1, <1>2, <1>3 DEF AppTypes, MainIsAt, JoinsTheLoop, ConnectorIsWhere,
     LogIsWhere, SignalEnds
<1>5. ASSUME ~ListenInterrupted
      PROVE  LoopIsHeld' /\ LoopIsJoined' /\ NobodyLogs' /\ AbortsAreSignals'
  <2>1. LoopIsHeld /\ LoopIsJoined /\ NobodyLogs
    BY <1>5 DEF AppConsistent
  <2>2. listeningThread = None
    BY <1>2, <2>1 DEF LoopIsJoined
  <2>3. ~terminated'
    BY <2>2 DEF DestructorEnds
  <2> QED
    BY <1>2, <2>1, <2>2, <2>3 DEF LoopIsHeld, LoopIsJoined, NobodyLogs,
       LogGoesLast, AbortsAreSignals
<1> QED  BY <1>3, <1>4, <1>5, Zenon DEF AppConsistent

(* exit() destroys the connector and the log, and ends the process. *)
LEMMA ExitConsistent ==
  ASSUME AppConsistent, ~terminated, main \notin writing,
         ExitDestroysConnector \/ ExitDestroysLog \/ ExitEnds
  PROVE  AppConsistent'
<1>1. AppTypes /\ MainIsAt /\ JoinsTheLoop /\ ConnectorIsWhere /\ SignalEnds
  BY DEF AppConsistent
<1>2. /\ UNCHANGED <<pc, arg, listeningThread, connector, writing, kind, build,
                     signal>>
      /\ program = "exit"
      /\ \/ program' = "destroy" /\ log' = log /\ connector = "alive"
         \/ program' = "exit" /\ log' = "gone" /\ MayDestroyLog
         \/ program' = "ended" /\ log' = log /\ connector # "alive"
  BY DEF ExitDestroysConnector, ExitDestroysLog, ExitEnds, Within, Proceed,
     connectorVars, vars, processVars
<1>3. UNCHANGED terminated
  BY Zenon DEF ExitDestroysConnector, ExitDestroysLog, ExitEnds, connectorVars,
     vars
<1>4. ListenInterrupted' = ListenInterrupted
  BY <1>2, SameSignal
<1>5. AppTypes' /\ MainIsAt' /\ JoinsTheLoop' /\ ConnectorIsWhere' /\ SignalEnds'
  BY <1>1, <1>2, <1>4 DEF AppTypes, MainIsAt, JoinsTheLoop, ConnectorIsWhere,
     SignalEnds
<1>6. LogIsWhere'
  BY <1>2 DEF AppConsistent, LogIsWhere
<1>7. ASSUME ~ListenInterrupted PROVE LoopIsHeld' /\ LoopIsJoined' /\ NobodyLogs'
  <2>1. LoopIsHeld /\ LoopIsJoined /\ NobodyLogs
    BY <1>7 DEF AppConsistent
  <2>2. LoopIsHeld' /\ LoopIsJoined'
    BY <1>2, <2>1 DEF LoopIsHeld, LoopIsJoined
  <2>3. log' = "gone" /\ LogGoesLast' => connector # "alive"
    BY <1>2, <2>1 DEF AppConsistent, LogIsWhere, NobodyLogs, LogGoesLast,
       MayDestroyLog
  <2>4. connector # "alive" => pc[loop] = "none"
    BY <1>1, <1>2, <2>1, TwoThreads DEF AppTypes, MainIsAt, ConnectorIsWhere,
       LoopIsHeld, LoopIsJoined
  <2>5. connector # "alive" => writing = {}
    BY <1>1, <2>1, <2>4, TwoThreads DEF AppTypes, LoopIsJoined
  <2> QED  BY <1>2, <2>2, <2>3, <2>5 DEF NobodyLogs
<1>8. ~ListenInterrupted => AbortsAreSignals'
  BY <1>3 DEF AbortsAreSignals
<1> QED  BY <1>4, <1>5, <1>6, <1>7, <1>8, Zenon DEF AppConsistent

(* The loop runs, but not while it writes a message. *)
LEMMA LoopRunsConsistent ==
  ASSUME AppConsistent, ~terminated, LoopRuns
  PROVE  AppConsistent'
<1> USE TwoThreads DEF Goto, LoopLabels, accessVars, guardVars, loopVars
<1>1. AppTypes /\ MainIsAt /\ JoinsTheLoop /\ ConnectorIsWhere /\ SignalEnds
  BY DEF AppConsistent
<1>2. /\ UNCHANGED <<program, connector, writing, log, kind, build, signal>>
      /\ loop \notin writing
  BY DEF LoopRuns, processVars
<1>3. LoopStep(loop)
  BY DEF LoopRuns
<1>4. UNCHANGED terminated
  BY <1>3, Zenon DEF LoopStep, Running, Handing, Handling, LoopHead, Receive,
     EndIteration, Catch, Dispatch, DispatchNobody, ThenSniffer, HandlersDone,
     HandlerThrows
<1>5. /\ arg' = arg /\ listeningThread' = listeningThread
      /\ pc[loop] \notin {"none", "exited"}
      /\ \E l \in LoopLabels \ {"none"} : pc' = [pc EXCEPT ![loop] = l]
  <2>1. CASE Running(loop)
    BY <2>1 DEF Running, LoopHead, Receive, EndIteration, Catch
  <2>2. CASE Handing(loop)
    BY <2>2 DEF Handing, Dispatch, DispatchNobody
  <2>3. CASE HandlersDone(loop) \/ HandlerThrows(loop)
    BY <2>3 DEF HandlersDone, HandlerThrows
  <2>4. CASE ThenSniffer(loop)
    <3>1. pc[loop] = "callback" /\ UNCHANGED <<pc, arg, listeningThread>>
      BY <2>4 DEF ThenSniffer
    <3>2. pc' = [pc EXCEPT ![loop] = "callback"]
      BY <1>1, <3>1 DEF AppTypes
    <3> QED  BY <3>1, <3>2
  <2> QED  BY <1>3, <2>1, <2>2, <2>3, <2>4 DEF LoopStep, Handling
<1>6. AppTypes' /\ MainIsAt' /\ JoinsTheLoop'
  BY <1>1, <1>2, <1>5 DEF AppTypes, MainIsAt, JoinsTheLoop
<1>7. ListenInterrupted' = ListenInterrupted
  BY <1>2, SameSignal
<1>8. ConnectorIsWhere' /\ SignalEnds' /\ LogIsWhere'
  BY <1>1, <1>2, <1>4, <1>5, <1>7 DEF AppConsistent, ConnectorIsWhere,
     SignalEnds, LogIsWhere
<1>9. ASSUME ~ListenInterrupted PROVE LoopIsHeld' /\ LoopIsJoined' /\ NobodyLogs'
  <2>1. LoopIsHeld /\ LoopIsJoined /\ NobodyLogs
    BY <1>9 DEF AppConsistent
  <2> QED
    BY <1>1, <1>2, <1>5, <2>1 DEF AppTypes, LoopIsHeld, LoopIsJoined,
       NobodyLogs, LogGoesLast
<1>10. ~ListenInterrupted => AbortsAreSignals'
  BY <1>4 DEF AbortsAreSignals
<1> QED
  BY <1>6, <1>7, <1>8, <1>9, <1>10, Zenon DEF AppConsistent

(* A thread begins a message only while the connector is there, or before  *)
(* it is constructed, and what begins a message does not leave its place.  *)
LEMMA MessageConsistent ==
  ASSUME AppConsistent, ~terminated, NEW t \in Threads,
         MessageBegins(t) \/ MessageAppended(t)
  PROVE  AppConsistent'
<1>1. AppTypes /\ MainIsAt /\ JoinsTheLoop /\ ConnectorIsWhere /\ SignalEnds
  BY DEF AppConsistent
<1>2. /\ UNCHANGED <<pc, arg, listeningThread, program, connector, log, kind,
                     build, signal>>
      /\ \/ MayLog(t) /\ writing' = writing \cup {t}
         \/ writing' = writing \ {t}
  BY DEF MessageBegins, MessageAppended, connectorVars, vars
<1>3. UNCHANGED terminated
  BY Zenon DEF MessageBegins, MessageAppended, connectorVars, vars
<1>4. ListenInterrupted' = ListenInterrupted
  BY <1>2, SameSignal
<1>5. AppTypes' /\ MainIsAt' /\ JoinsTheLoop'
  BY <1>1, <1>2 DEF AppTypes, MainIsAt, JoinsTheLoop
<1>6. ConnectorIsWhere' /\ SignalEnds' /\ LogIsWhere'
  BY <1>1, <1>2, <1>3, <1>4 DEF AppConsistent, ConnectorIsWhere, SignalEnds,
     LogIsWhere
<1>7. ASSUME ~ListenInterrupted PROVE LoopIsHeld' /\ LoopIsJoined' /\ NobodyLogs'
  <2>1. LoopIsHeld /\ LoopIsJoined /\ NobodyLogs
    BY <1>7 DEF AppConsistent
  <2>2. LoopIsHeld'
    BY <1>2, <2>1 DEF LoopIsHeld
  <2>3. LoopIsJoined'
    BY <1>2, <2>1, TwoThreads DEF LoopIsJoined, MayLog
  <2>4. ASSUME log = "gone", LogGoesLast PROVE ~MayLog(t)
    <3>1. connector # "alive" /\ program \in {"exit", "ended", "undefined"}
      BY <1>1, <2>1, <2>4 DEF AppConsistent, AppTypes, NobodyLogs,
         ConnectorIsWhere, LogIsWhere
    <3>2. program # "undefined"
      BY <2>4 DEF AppConsistent, LogIsWhere
    <3>3. pc[loop] = "none"
      BY <1>1, <2>1, <3>1, <3>2, TwoThreads DEF AppTypes, MainIsAt,
         ConnectorIsWhere, LoopIsHeld, LoopIsJoined
    <3> QED  BY <3>1, <3>3, TwoThreads DEF MayLog
  <2>5. NobodyLogs'
    BY <1>2, <2>1, <2>4 DEF NobodyLogs, LogGoesLast
  <2> QED  BY <2>2, <2>3, <2>5
<1>8. ~ListenInterrupted => AbortsAreSignals'
  BY <1>2, <1>3 DEF AppConsistent, AbortsAreSignals
<1> QED
  BY <1>4, <1>5, <1>6, <1>7, <1>8, Zenon DEF AppConsistent

(* A signal in main()'s thread abandons the call that it was in, and its   *)
(* handler destroys the connector or leaves that to exit().                *)
LEMMA SignalInMainConsistent ==
  ASSUME AppConsistent, ~terminated, SignalInMain
  PROVE  AppConsistent'
<1> USE TwoThreads
<1>1. AppTypes /\ MainIsAt /\ JoinsTheLoop /\ ConnectorIsWhere /\ SignalEnds
  BY DEF AppConsistent
<1>2. /\ UNCHANGED <<listeningThread, connector, log, kind, build>>
      /\ pc' = [pc EXCEPT ![main] = "idle"] /\ arg' = [arg EXCEPT ![main] = None]
      /\ writing' = writing \ {main}
      /\ signal = NoSignal /\ signal' = [thread |-> main, at |-> pc[main]]
      /\ program \in {"construct", "register", "registering", "listen",
                      "listening", "run"}
      /\ program' = (IF kind = "tcp" /\ connector = "alive"
                     THEN "destroy" ELSE "exit")
  BY DEF SignalInMain, Interruptible, Taken, SignalHandler, Return, loopVars
<1>3. UNCHANGED terminated
  BY Zenon DEF SignalInMain
<1>4. ~ListenInterrupted /\ (ListenInterrupted' <=> pc[main] = "assign")
  BY <1>2 DEF ListenInterrupted, NoSignal
<1>5. log # "gone"
  BY <1>2 DEF AppConsistent, LogIsWhere
<1>6. AppTypes' /\ MainIsAt' /\ JoinsTheLoop'
  BY <1>1, <1>2 DEF AppTypes, MainIsAt, JoinsTheLoop
<1>7. ConnectorIsWhere' /\ SignalEnds' /\ LogIsWhere'
  BY <1>1, <1>2, <1>5 DEF AppTypes, ConnectorIsWhere, SignalEnds, LogIsWhere,
     LoopLabels
<1>8. ASSUME ~ListenInterrupted' PROVE LoopIsHeld' /\ LoopIsJoined' /\ NobodyLogs'
  <2>1. LoopIsHeld /\ LoopIsJoined
    BY <1>4 DEF AppConsistent
  <2> QED
    BY <1>1, <1>2, <1>4, <1>5, <1>8, <2>1 DEF AppTypes, LoopIsHeld,
       LoopIsJoined, NobodyLogs
<1>9. AbortsAreSignals'
  BY <1>3 DEF AbortsAreSignals
<1> QED
  BY <1>6, <1>7, <1>8, <1>9, Zenon DEF AppConsistent

(* A signal in the loop's thread aborts the program, or interrupts         *)
(* listen(), in which main() has not stored the thread yet.                *)
LEMMA SignalInLoopConsistent ==
  ASSUME AppConsistent, ~terminated, SignalInLoop
  PROVE  AppConsistent'
<1> USE TwoThreads
<1>1. AppTypes /\ MainIsAt /\ JoinsTheLoop /\ ConnectorIsWhere /\ SignalEnds
  BY DEF AppConsistent
<1>2. /\ UNCHANGED <<pc, arg, listeningThread, log, kind, build>>
      /\ writing' = writing \ {loop} /\ pc[loop] # "none"
      /\ signal = NoSignal /\ signal' = [thread |-> loop, at |-> pc[main]]
      /\ program \in {"construct", "register", "registering", "listen",
                      "listening", "run"}
  BY DEF SignalInLoop, Interruptible, Taken
<1>3. ~ListenInterrupted /\ (ListenInterrupted' <=> pc[main] = "assign")
  BY <1>2 DEF ListenInterrupted, NoSignal
<1>4. LoopIsHeld /\ LoopIsJoined
  BY <1>3 DEF AppConsistent
<1>5. log # "gone" /\ connector = "alive"
  BY <1>1, <1>2 DEF AppConsistent, AppTypes, LogIsWhere, ConnectorIsWhere
<1>6. \/ /\ listeningThread = loop /\ pc[main] # "assign"
         /\ UNCHANGED <<program, connector>>
      \/ /\ pc[main] = "assign"
         /\ program' = "undefined" /\ connector' = "gone"
  BY <1>2, <1>4 DEF SignalInLoop, LoopIsHeld
<1>7. pc[main] # "assign" => terminated'
  BY <1>2, <1>4 DEF SignalInLoop, LoopIsHeld
<1>8. AppTypes' /\ MainIsAt' /\ JoinsTheLoop' /\ ConnectorIsWhere'
  BY <1>1, <1>2, <1>6 DEF AppTypes, MainIsAt, JoinsTheLoop, ConnectorIsWhere
<1>9. SignalEnds' /\ LogIsWhere'
  BY <1>2, <1>3, <1>5, <1>6, <1>7 DEF SignalEnds, LogIsWhere
<1>10. ASSUME ~ListenInterrupted'
       PROVE  LoopIsHeld' /\ LoopIsJoined' /\ NobodyLogs' /\ AbortsAreSignals'
  BY <1>1, <1>2, <1>3, <1>4, <1>5, <1>6, <1>10 DEF AppTypes, LoopIsHeld,
     LoopIsJoined, NobodyLogs, AbortsAreSignals
<1> QED
  BY <1>8, <1>9, <1>10, Zenon DEF AppConsistent

(* What holds receive() up, and the steps that change nothing. *)
LEMMA ReceiveConsistent ==
  ASSUME AppConsistent, ReceiveHangs \/ ReceiveGoesOn \/ UNCHANGED appVars
  PROVE  AppConsistent'
<1>1. UNCHANGED <<pc, arg, listeningThread, program, kind, build, connector, log,
                  writing, signal>>
  BY DEF ReceiveHangs, ReceiveGoesOn, appVars, processVars, connectorVars, vars
<1>2. UNCHANGED terminated
  BY Zenon DEF ReceiveHangs, ReceiveGoesOn, appVars, processVars, connectorVars,
     vars
<1>3. ListenInterrupted' = ListenInterrupted
  BY <1>1, SameSignal
<1>4. /\ AppTypes' /\ MainIsAt' /\ JoinsTheLoop' /\ ConnectorIsWhere'
      /\ SignalEnds' /\ LogIsWhere'
  BY <1>1, <1>2, <1>3 DEF AppConsistent, AppTypes, MainIsAt, JoinsTheLoop,
     ConnectorIsWhere, SignalEnds, LogIsWhere
<1>5. ASSUME ~ListenInterrupted
      PROVE  LoopIsHeld' /\ LoopIsJoined' /\ NobodyLogs' /\ AbortsAreSignals'
  BY <1>1, <1>2, <1>5 DEF AppConsistent, LoopIsHeld, LoopIsJoined, NobodyLogs,
     LogGoesLast, AbortsAreSignals
<1> QED  BY <1>3, <1>4, <1>5, Zenon DEF AppConsistent

(* The program starts so. *)
LEMMA InitConsistent == AppInit => AppConsistent
<1> SUFFICES ASSUME AppInit PROVE AppConsistent
  OBVIOUS
<1> USE TwoThreads
<1>1. AppTypes /\ MainIsAt /\ JoinsTheLoop /\ ConnectorIsWhere
  BY DEF AppInit, Init, AppTypes, MainIsAt, JoinsTheLoop, ConnectorIsWhere,
     LoopLabels
<1>2. LogIsWhere /\ SignalEnds
  BY DEF AppInit, LogIsWhere, SignalEnds
<1>3. LoopIsHeld /\ LoopIsJoined /\ NobodyLogs
  BY DEF AppInit, Init, LoopIsHeld, LoopIsJoined, NobodyLogs
<1>4. AbortsAreSignals
  BY DEF AppInit, Init, AbortsAreSignals
<1> QED  BY <1>1, <1>2, <1>3, <1>4 DEF AppConsistent

(* Every step of the program leaves it so. *)
LEMMA StepConsistent == AppConsistent /\ [AppNext]_appVars => AppConsistent'
<1> SUFFICES ASSUME AppConsistent, [AppNext]_appVars PROVE AppConsistent'
  OBVIOUS
<1>1. CASE UNCHANGED appVars
  BY <1>1, ReceiveConsistent
<1>2. CASE AppNext
  <2>1. ~terminated
    BY <1>2 DEF AppNext, InProgress
  <2>2. CASE MainStep
    BY <2>1, <2>2, StartConsistent, CallsConsistent, DestructorConsistent,
       DestructorEndsConsistent, ExitConsistent, Zenon DEF MainStep
  <2>3. CASE LoopRuns
    BY <2>1, <2>3, LoopRunsConsistent
  <2>4. CASE \E t \in Threads : MessageBegins(t) \/ MessageAppended(t)
    BY <2>1, <2>4, MessageConsistent, Zenon
  <2>5. CASE SignalInMain
    BY <2>1, <2>5, SignalInMainConsistent
  <2>6. CASE SignalInLoop
    BY <2>1, <2>6, SignalInLoopConsistent
  <2>7. CASE ReceiveHangs \/ ReceiveGoesOn
    BY <2>7, ReceiveConsistent
  <2> QED
    BY <1>2, <2>2, <2>3, <2>4, <2>5, <2>6, <2>7, Zenon DEF AppNext
<1> QED  BY <1>1, <1>2

-----------------------------------------------------------------------------
(* The program, the connector and the loop stay consistent. *)
THEOREM ConsistentAlways == AppSpec => []AppConsistent
<1>1. AppInit => AppConsistent
  BY InitConsistent
<1>2. AppConsistent /\ [AppNext]_appVars => AppConsistent'
  BY StepConsistent
<1> QED  BY <1>1, <1>2, PTL DEF AppSpec

(* Whoever destroys the connector, an error, exit() or a signal's handler, *)
(* has joined the loop before, except when the signal hits listen().       *)
THEOREM ConnectorCorrectness == AppSpec => []ConnectorOutlivesItsLoop
<1>1. AppConsistent => ConnectorOutlivesItsLoop
  <2> SUFFICES ASSUME AppConsistent, connector = "gone", ~ListenInterrupted
               PROVE  LoopIsOver
    BY DEF ConnectorOutlivesItsLoop
  <2>1. program \in {"exit", "ended"}
    BY DEF AppConsistent, ConnectorIsWhere, SignalEnds
  <2>2. pc[main] = "idle"
    BY <2>1 DEF AppConsistent, MainIsAt
  <2>3. pc[loop] = "none"
    BY <2>2, TwoThreads DEF AppConsistent, LoopIsHeld, LoopIsJoined
  <2> QED  BY <2>3 DEF LoopIsOver
<1> QED  BY <1>1, ConsistentAlways, PTL

(* No message is written on a log that exit() has destroyed, where the     *)
(* library is shared or the signal's handler destroys the connector first. *)
THEOREM LogCorrectness == AppSpec => []LogOutlivesItsUsers
<1>1. AppConsistent /\ log \in {"alive", "gone"} => LogOutlivesItsUsers
  BY DEF AppConsistent, NobodyLogs, LogGoesLast, LogOutlivesItsUsers
<1>2. AppSpec => [](log \in {"alive", "gone"})
  <2>1. AppInit => log \in {"alive", "gone"}
    BY DEF AppInit
  <2>2. log \in {"alive", "gone"} /\ [AppNext]_appVars =>
          (log \in {"alive", "gone"})'
    BY DEF AppNext, MainStep, Constructs, ConstructorThrows, Registers,
       Listens, SendStarts, SendReturns, DestructorStops, StopGoesOn,
       DestructorEnds, ExitDestroysConnector, ExitDestroysLog, ExitEnds,
       LoopRuns, MessageBegins, MessageAppended, SignalInMain, SignalInLoop,
       ReceiveHangs, ReceiveGoesOn, Within, processVars, appVars
  <2> QED  BY <2>1, <2>2, PTL DEF AppSpec
<1> QED  BY <1>1, <1>2, ConsistentAlways, PTL

(* The program is aborted only by a signal that the loop's own thread      *)
(* takes: never by an error, or by a signal that main() takes outside      *)
(* listen().                                                               *)
THEOREM AbortCorrectness ==
  AppSpec => [](terminated /\ ~ListenInterrupted => signal.thread = loop)
<1>1. AppConsistent =>
        (terminated /\ ~ListenInterrupted => signal.thread = loop)
  BY DEF AppConsistent, AbortsAreSignals
<1> QED  BY <1>1, ConsistentAlways, PTL
=============================================================================
