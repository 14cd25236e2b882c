--------------------------- MODULE UartConnector ---------------------------
(***************************************************************************)
(* The life of a UartConnector (src/connector/uart/UartConnector.cpp) as   *)
(* far as it drives GPIO lines: construction, resetTr() and destruction,   *)
(* one GPIO operation at a time, each of which may throw.  An exception    *)
(* during construction destroys the members built so far, one in a         *)
(* destructor terminates the program.  The same machine runs a BusSwitcher *)
(* that a program uses alone.                                              *)
(*                                                                         *)
(* The configuration is chosen at the start.  Opening the serial port is   *)
(* two operations that may throw and touch no line; delays are left out,   *)
(* and the listening loop is in IConnector (it is stopped before the       *)
(* destructor touches a line).                                             *)
(***************************************************************************)
EXTENDS BusSwitcher, Naturals

CONSTANTS
  Threads,      \* the threads that call resetTr()
  Owner,        \* the one that constructs and destroys the object
  MaxFailures   \* bounds the exceptions of the GPIO driver and the port

ASSUME UartConnectorAssumption ==
  /\ Owner \in Threads
  /\ MaxFailures \in Nat

VARIABLES
  object,       \* "connector" or "switcher"
  lines,        \* the GPIO lines that are configured
  trModuleReset, disablePowerOnShutdown,
  stage,        \* the life of the object
  todo,         \* what each thread's call has left to do
  level,        \* the value last given to each line
  failures      \* exceptions so far

vars == <<object, lines, trModuleReset, disablePowerOnShutdown, stage, todo,
          level, failures>>

config == <<object, lines, trModuleReset, disablePowerOnShutdown>>

Lines == SwitchLines \cup {"power", "pgm"}

OpenPort == [op |-> "port", line |-> "none", value |-> TRUE]

Operations ==
  [op : {"init", "set", "port"}, line : Lines \cup {"none"}, value : BOOLEAN]

ConfigTypes ==
  /\ object \in {"connector", "switcher"}
  /\ lines \subseteq Lines
  /\ {trModuleReset, disablePowerOnShutdown} \subseteq BOOLEAN

StateTypes ==
  /\ stage \in {"new", "constructing", "alive", "closing", "unwinding", "gone",
                "terminated"}
  /\ todo \in [Threads -> Seq(Operations)]
  /\ level \in [Lines -> {"unset", "low", "high"}]
  /\ failures \in 0..MaxFailures

(* The types; only the owner is in a constructor or a destructor. *)
TypeOK ==
  /\ ConfigTypes /\ StateTypes
  /\ \A t \in Threads :
       todo[t] # <<>> =>
         /\ stage \notin {"new", "gone"}
         /\ t = Owner \/ stage = "alive"
  /\ \A l \in Lines : level[l] # "unset" => l \in lines

Init ==
  /\ object \in {"connector", "switcher"}
  /\ lines \in SUBSET (IF object = "connector" THEN Lines ELSE SwitchLines)
  /\ trModuleReset \in (IF object = "connector" THEN BOOLEAN ELSE {FALSE})
  /\ disablePowerOnShutdown \in
       (IF object = "connector" THEN BOOLEAN ELSE {FALSE})
  /\ stage = "new"
  /\ todo = [t \in Threads |-> <<>>]
  /\ level = [l \in Lines |-> "unset"]
  /\ failures = 0

-----------------------------------------------------------------------------
(* The calls, as sequences of operations. *)

(* Mutant: the optional is dereferenced unchecked. *)
IfConfiguredUnchecked(line, operations) == operations

(* An operation on a line that the configuration may not have. *)
IfConfigured(line, operations) == IF line \in lines THEN operations ELSE <<>>

(* Mutant: the pulse is inverted. *)
ResetInverted ==
  IfConfigured("power", <<SetValue("power", TRUE), SetValue("power", FALSE)>>)

ResetTr ==
  IfConfigured("power", <<SetValue("power", FALSE), SetValue("power", TRUE)>>)

(* Mutant: the UART is enabled before the module is reset. *)
InitGpioEarly ==
  IfConfigured("pgm", <<InitOutput("pgm", FALSE)>>)
  \o IfConfigured("power", <<InitOutput("power", TRUE)>>)
  \o InitSwitch(lines)
  \o ToggleBus(lines, "uart", TRUE)
  \o (IF trModuleReset THEN ResetTr ELSE <<>>)

InitGpio ==
  IfConfigured("pgm", <<InitOutput("pgm", FALSE)>>)
  \o IfConfigured("power", <<InitOutput("power", TRUE)>>)
  \o InitSwitch(lines)
  \o (IF trModuleReset THEN ResetTr ELSE <<>>)
  \o ToggleBus(lines, "uart", TRUE)

(* The port is found and opened, then set up. *)
Constructor == InitGpio \o <<OpenPort, OpenPort>>

(* ~UartConnector, then the destructor of its member busSwitcher. *)
Destructor ==
  (IF disablePowerOnShutdown
   THEN IfConfigured("power", <<SetValue("power", FALSE)>>) ELSE <<>>)
  \o ToggleBus(lines, "uart", FALSE)
  \o IfConfigured("pgm", <<SetValue("pgm", FALSE)>>)
  \o DestroySwitch(lines)

-----------------------------------------------------------------------------
Calls(t, operations) == todo' = [todo EXCEPT ![t] = operations]

Idle(t) == todo[t] = <<>>

Construct ==
  /\ stage = "new"
  /\ stage' = "constructing"
  /\ Calls(Owner, IF object = "connector" THEN Constructor ELSE <<>>)
  /\ UNCHANGED <<config, level, failures>>

Constructed ==
  /\ stage = "constructing"
  /\ Idle(Owner)
  /\ stage' = "alive"
  /\ UNCHANGED <<config, todo, level, failures>>

(* Neither resetTr() nor the switch takes a lock: threads interleave. *)
CallResetTr(t) ==
  /\ object = "connector"
  /\ stage = "alive"
  /\ Idle(t)
  /\ ResetTr # <<>>
  /\ Calls(t, ResetTr)
  /\ UNCHANGED <<config, stage, level, failures>>

CallSwitch ==
  /\ object = "switcher"
  /\ stage = "alive"
  /\ Idle(Owner)
  /\ \/ Calls(Owner, InitSwitch(lines))
     \/ \E bus \in {"i2c", "spi", "uart"}, enable \in BOOLEAN :
          Calls(Owner, ToggleBus(lines, bus, enable))
  /\ UNCHANGED <<config, stage, level, failures>>

(* The owner sees to it that no other call is under way. *)
Destroy ==
  /\ stage = "alive"
  /\ \A t \in Threads : Idle(t)
  /\ stage' = "closing"
  /\ Calls(Owner, IF object = "connector" THEN Destructor
                                          ELSE DestroySwitch(lines))
  /\ UNCHANGED <<config, level, failures>>

Destroyed ==
  /\ stage \in {"closing", "unwinding"}
  /\ Idle(Owner)
  /\ stage' = "gone"
  /\ UNCHANGED <<config, todo, level, failures>>

(* A line has no value before it is initialised: setting it throws. *)
Succeeds(t) == Head(todo[t]).op = "set" => level[Head(todo[t]).line] # "unset"

Operate(t) ==
  /\ ~Idle(t)
  /\ stage # "terminated"
  /\ Succeeds(t)
  /\ level' = IF Head(todo[t]).op = "port" THEN level
              ELSE [level EXCEPT ![Head(todo[t]).line] =
                      IF Head(todo[t]).value THEN "high" ELSE "low"]
  /\ Calls(t, Tail(todo[t]))
  /\ UNCHANGED <<config, stage, failures>>

(* Where an exception goes: to the caller, through the members that are    *)
(* built already, or out of a destructor.                                  *)
Throws(t) ==
  \/ /\ stage = "alive"
     /\ Calls(t, <<>>)
     /\ UNCHANGED stage
  \/ /\ stage = "constructing"
     /\ Calls(t, DestroySwitch(lines))
     /\ stage' = "unwinding"
  \/ /\ stage \in {"closing", "unwinding"}
     /\ stage' = "terminated"
     /\ UNCHANGED todo

OperationFails(t) ==
  /\ ~Idle(t)
  /\ Succeeds(t)
  /\ failures < MaxFailures
  /\ failures' = failures + 1
  /\ Throws(t)
  /\ UNCHANGED <<config, level>>

OperationRefused(t) ==
  /\ ~Idle(t)
  /\ ~Succeeds(t)
  /\ Throws(t)
  /\ UNCHANGED <<config, level, failures>>

Next ==
  \/ Construct \/ Constructed \/ CallSwitch \/ Destroy \/ Destroyed
  \/ \E t \in Threads :
       CallResetTr(t) \/ Operate(t) \/ OperationFails(t) \/ OperationRefused(t)

Spec == Init /\ [][Next]_vars

-----------------------------------------------------------------------------
EnabledBuses == {l \in SwitchLines : level[l] = "high"}

(* However the object's life ends short of a termination, by its           *)
(* destructor or by an exception in its constructor after the UART was     *)
(* enabled, no bus stays enabled.                                          *)
BusesOffWhenGone == stage = "gone" => EnabledBuses = {}

(* While the connector is being constructed, through the module's reset    *)
(* too, the bus is enabled only when the module has power.                 *)
BusNeedsPower ==
  /\ object = "connector"
  /\ stage = "constructing"
  /\ EnabledBuses # {}
  /\ "power" \in lines
  => level["power"] = "high"

(* Unless an operation failed, the module has power whenever no call is    *)
(* under way, however the resetTr() calls of several threads interleaved.  *)
PoweredBetweenCalls ==
  /\ object = "connector"
  /\ stage = "alive"
  /\ \A t \in Threads : Idle(t)
  /\ "power" \in lines
  /\ failures = 0
  => level["power"] = "high"

(* A connector sets no line that it has not initialised, in its destructor *)
(* either, unless an operation of the driver failed before.                *)
TerminatesOnlyOnFailure ==
  object = "connector" /\ stage = "terminated" => failures > 0

(* Unless an operation failed, at most one bus is enabled between two      *)
(* calls, in whatever order the buses are toggled.                         *)
OneBusBetweenCalls ==
  stage = "alive" /\ Idle(Owner) /\ failures = 0 =>
    \A a, b \in EnabledBuses : a = b
=============================================================================
