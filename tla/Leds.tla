-------------------------------- MODULE Leds --------------------------------
(***************************************************************************)
(* The program examples/gpio/leds/main.cpp on the lines of Gpio: it drives *)
(* a green LED and perhaps a red one, and turns them off after an error or *)
(* a signal.  On a host without it the objects are used in any way.        *)
(*                                                                         *)
(* Not modelled: a signal while exit() destroys the objects.               *)
(***************************************************************************)
EXTENDS Gpio

VARIABLES
  program,     \* where it is, or "absent"
  led,         \* the object of each LED
  current,     \* the LED at which it is
  installed    \* whether it has installed its signal handler

ledVars == <<program, led, current, installed>>

Colours == {"green", "red"}

LedsInit ==
  /\ Init
  /\ program \in {"absent", "construct"}
  /\ program # "absent" => platform # "mock"
  /\ led = [c \in Colours |-> None]
  /\ current = "green"
  /\ installed = FALSE

(* Whether the driver of this LED accepts a call. *)
Usable(c) == platform = "freebsd" \/ Holds(led[c])

InitialValue(c) == IF c = "red" THEN "high" ELSE "low"

-----------------------------------------------------------------------------
(* main() *)

ConstructsLed ==
  /\ program = "construct"
  /\ program' = "init"
  /\ \E o \in Objects :
       Construct(o) /\ led' = [led EXCEPT ![current] = o]
  /\ UNCHANGED <<current, installed>>

InitialisesLed ==
  /\ program = "init"
  /\ program' = "initialising"
  /\ Initialise(led[current], "output", InitialValue(current))
  /\ UNCHANGED <<led, current, installed>>

(* The red LED comes after the green one if it is configured; then the     *)
(* program installs its handler.                                           *)
LedInitialised ==
  /\ program = "initialising"
  /\ Ready(led[current]) /\ Usable(current)
  /\ value[Cell(led[current])] = InitialValue(current)
  /\ \/ /\ current = "green"
        /\ program' = "construct" /\ current' = "red"
        /\ UNCHANGED installed
     \/ program' = "run" /\ installed' = TRUE /\ UNCHANGED current
  /\ UNCHANGED <<vars, led>>

SetsLed ==
  /\ program = "run"
  /\ \E c \in Colours, v \in Values : led[c] # None /\ SetValue(led[c], v)
  /\ UNCHANGED ledVars

(* An exception of main(): its catch clause calls gpioCleanup(). *)
Throws ==
  /\ program \in {"construct", "init", "initialising", "run"}
  /\ program = "initialising" => Ready(led[current])
  /\ UNCHANGED <<vars, led, installed>>

(* Mutant: the catch clause does not clean up. *)
CaughtOnly == Throws /\ program' = "ended" /\ UNCHANGED current

Caught == Throws /\ program' = "cleanup" /\ current' = "green"

-----------------------------------------------------------------------------
(* Signals.  The handler calls gpioCleanup() too, also when the signal     *)
(* finds the program in a gpioCleanup(), to which it does not return: it   *)
(* calls exit().  Before it is installed a signal kills the program,       *)
(* wherever that is.                                                       *)

SignalHandler ==
  /\ installed
  /\ \/ program = "run" /\ program' = "handler"
     \/ program \in {"handler", "cleanup"} /\ UNCHANGED program
  /\ current' = "green"
  /\ UNCHANGED <<vars, led, installed>>

Killed ==
  /\ ~installed
  /\ program \in {"construct", "init", "initialising", "cleanup"}
  /\ program' = "killed"
  /\ UNCHANGED <<vars, led, current, installed>>

-----------------------------------------------------------------------------
(* gpioCleanup(), in the catch clause or in the signal handler: an LED     *)
(* that has an object becomes an input.                                    *)

CleanedUp ==
  /\ program' = IF current = "green" THEN program ELSE "ended"
  /\ current' = "red"
  /\ UNCHANGED <<led, installed>>

CleansUp ==
  /\ program \in {"cleanup", "handler"}
  /\ \/ led[current] = None /\ UNCHANGED vars
     \/ led[current] # None /\ Usable(current) /\ SetDirection(led[current], "input")
  /\ CleanedUp

(* It throws if the line was never requested or its driver fails, and the  *)
(* LED that comes next keeps its line.  Nobody catches an exception of the *)
(* catch clause; one that leaves the handler, which is undefined, ends the *)
(* program or meets the catch clause of the main() it has interrupted.     *)
CleanupThrows ==
  /\ program \in {"cleanup", "handler"}
  /\ led[current] # None
  /\ \/ /\ program' = IF Usable(current) THEN "failed" ELSE "terminated"
        /\ UNCHANGED current
     \/ program = "handler" /\ program' = "cleanup" /\ current' = "green"
  /\ UNCHANGED <<vars, led, installed>>

(* The objects go with the process: exit() destroys them; otherwise it is  *)
(* the kernel that takes the lines back.                                   *)
Exits ==
  /\ \E c \in Colours :
       /\ led[c] # None /\ led' = [led EXCEPT ![c] = None]
       /\ \/ program = "ended" /\ Drop(led[c])
          \/ program \in {"terminated", "failed", "killed"} /\ Vanishes(led[c])
  /\ UNCHANGED <<program, current, installed>>

LedsStep ==
  \/ ConstructsLed \/ InitialisesLed \/ LedInitialised \/ SetsLed \/ Caught
  \/ SignalHandler \/ Killed \/ CleansUp \/ CleanupThrows \/ Exits

LedsNext ==
  \/ LedsStep
  \/ program = "absent" /\ (\E o \in Objects : Use(o)) /\ UNCHANGED ledVars
  \/ /\ program \in {"absent", "initialising"}
     /\ (\E o \in Objects : Continue(o)) /\ UNCHANGED ledVars
  \/ Environment /\ UNCHANGED ledVars

LedsSpec == LedsInit /\ [][LedsNext]_<<vars, ledVars>>

-----------------------------------------------------------------------------
(* No usable line drives this LED. *)
Dark(c) == led[c] # None /\ Usable(c) => direction[Cell(led[c])] = "input"

(* A program that an exception or a handled signal ends leaves no line     *)
(* behind that drives an LED: however far it has come, whichever signals   *)
(* interrupt its gpioCleanup(), and also if that is terminated at a line   *)
(* that was never requested.  If a driver fails in it, the LEDs before     *)
(* that line are dark; the failed one and the next may shine.  A program   *)
(* that is killed cleans up nothing.                                       *)
LedsAreSafe ==
  /\ program \in {"ended", "terminated"} => \A c \in Colours : Dark(c)
  /\ program = "failed" /\ current = "red" => Dark("green")
=============================================================================
