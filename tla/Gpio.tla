-------------------------------- MODULE Gpio --------------------------------
(***************************************************************************)
(* GPIO lines as class Gpio offers them (src/gpio/Gpio.cpp) on top of the  *)
(* drivers for libgpiod 1 and 2, FreeBSD and the mock.  A Gpio is a shared *)
(* pointer to a driver object; copies of it share the object, which is     *)
(* destroyed with the last of them.                                        *)
(*                                                                         *)
(* With libgpiod a line must be requested; the kernel grants it to one     *)
(* holder at a time, and other processes compete for it.  A FreeBSD line   *)
(* has no holder.  A mock has a line of its own.  An operation that throws *)
(* and changes nothing is left out.                                        *)
(***************************************************************************)
EXTENDS GpioResolver

CONSTANTS
  Objects,     \* driver objects
  MaxCopies    \* bounds the copies of a Gpio

VARIABLES
  object,      \* object[o]: its line, the copies of its Gpio, and what its
               \* initialisation has left to do
  holder,      \* who has requested the line: an object or "other"
  direction, value

gpioVars == <<object, holder, direction, value>>
vars     == <<platform, chips, gpioMap, object, holder, direction, value>>

host == <<platform, chips, gpioMap>>

Cells == Lines \cup Objects

Directions == {"input", "output"}
Values     == {"low", "high"}
LeftToDo   == {[op |-> "none"]}
  \cup [op : {"request"}, direction : Directions, value : Values]
  \cup [op : {"set"}, value : Values]

Nothing == [op |-> "none"]

DriverObject == [line : Lines, copies : 1..MaxCopies, todo : LeftToDo]

ASSUME GpioAssumption ==
  /\ MaxCopies \in Nat \ {0}
  /\ None \notin Objects \cup DriverObject \cup {"other"}
  /\ "other" \notin Objects

Alive(o) == object[o] # None

(* The line an object drives. *)
Cell(o) == IF platform = "mock" THEN o ELSE object[o].line

GpioTypes ==
  /\ object \in [Objects -> DriverObject \cup {None}]
  /\ holder \in [Cells -> Objects \cup {None, "other"}]
  /\ direction \in [Cells -> Directions]
  /\ value \in [Cells -> Values]

(* An initialisation has nothing left to do where it is one operation, and *)
(* libgpiod 1 sets the value of an output it has requested.                *)
PendingTypes ==
  \A o \in Objects : Alive(o) =>
    /\ object[o].todo.op = "request" => platform = "gpiod1"
    /\ object[o].todo.op = "set" =>
         \/ platform = "freebsd"
         \/ /\ platform = "gpiod1"
            /\ holder[Cell(o)] = o /\ direction[Cell(o)] = "output"

(* The types, and the order of the map. *)
TypeOK ==
  /\ platform \in {"gpiod1", "gpiod2", "freebsd", "mock"}
  /\ chips \in [Chips -> {"absent", "good", "failing"}]
  /\ gpioMap # None => gpioMap \in Seq(Lines)
  /\ NumericOrder
  /\ GpioTypes /\ PendingTypes

Init ==
  /\ platform \in {"gpiod1", "gpiod2", "freebsd", "mock"}
  /\ chips \in [Chips -> {"absent", "good", "failing"}]
  /\ gpioMap = None
  /\ object = [o \in Objects |-> None]
  /\ holder = [l \in Cells |-> None]
  /\ direction = [l \in Cells |-> "input"]
  /\ value = [l \in Cells |-> "low"]

-----------------------------------------------------------------------------
(* Gpio: construction from a configuration, copies, and their end          *)

(* A GpioConfig names a line by its chip and offset, by its chip and name, *)
(* or by a pin number, for which the resolver fills in chip and offset.    *)
GpioConfig == [by : {"offset", "name"}, line : Lines]
                \cup [by : {"pin"}, line : Resolvable]

(* Each driver's constructor opens the chip.  Those for libgpiod look up   *)
(* a line that has a name; that for FreeBSD does not read the name and     *)
(* takes line 0; that of the mock keeps the configuration and opens        *)
(* nothing.                                                                *)
GpiodV1Opens(config, l) ==
  platform = "gpiod1" /\ chips[l[1]] = "good" /\ l = config.line

GpiodV2Opens(config, l) ==
  platform = "gpiod2" /\ chips[l[1]] = "good" /\ l = config.line

FreeBsdOpens(config, l) ==
  /\ platform = "freebsd" /\ chips[l[1]] = "good"
  /\ l = IF config.by = "name" THEN <<config.line[1], 0>> ELSE config.line

GpioMockOpens(config, l) == platform = "mock" /\ l = config.line

Construct(o) ==
  /\ ~Alive(o)
  /\ \E config \in GpioConfig, l \in Lines :
       /\ \/ GpiodV1Opens(config, l) \/ GpiodV2Opens(config, l)
          \/ FreeBsdOpens(config, l) \/ GpioMockOpens(config, l)
       /\ object' = [object EXCEPT ![o] = [line |-> l, copies |-> 1,
                                           todo |-> Nothing]]
  /\ UNCHANGED <<host, holder, direction, value>>

Ready(o) == Alive(o) /\ object[o].todo = Nothing

Copy(o) ==
  /\ Ready(o)
  /\ object[o].copies < MaxCopies
  /\ object' = [object EXCEPT ![o].copies = @ + 1]
  /\ UNCHANGED <<host, holder, direction, value>>

(* What a line does that nobody holds is not modelled. *)
Release(o) ==
  IF holder[Cell(o)] = o \/ platform = "mock"
  THEN /\ holder' = [holder EXCEPT ![Cell(o)] = None]
       /\ direction' = [direction EXCEPT ![Cell(o)] = "input"]
       /\ value' = [value EXCEPT ![Cell(o)] = "low"]
  ELSE UNCHANGED <<holder, direction, value>>

(* Mutants: copies do not share the object; the line is not released. *)
DropOwns(o) ==
  /\ Ready(o)
  /\ object' = [object EXCEPT ![o] = IF @.copies = 1 THEN None
                                     ELSE [@ EXCEPT !.copies = @ - 1]]
  /\ Release(o)
  /\ UNCHANGED host

DropLeaks(o) ==
  /\ Ready(o)
  /\ object' = [object EXCEPT ![o] = IF @.copies = 1 THEN None
                                     ELSE [@ EXCEPT !.copies = @ - 1]]
  /\ UNCHANGED <<host, holder, direction, value>>

(* The driver's destructor releases the line. *)
Drop(o) ==
  /\ Ready(o)
  /\ IF object[o].copies > 1
     THEN /\ object' = [object EXCEPT ![o].copies = @ - 1]
          /\ UNCHANGED <<holder, direction, value>>
     ELSE object' = [object EXCEPT ![o] = None] /\ Release(o)
  /\ UNCHANGED host

(* The process is killed, perhaps amid a call: the kernel releases it.  A  *)
(* FreeBSD line stays as it is.                                            *)
Vanishes(o) ==
  /\ Alive(o)
  /\ object' = [object EXCEPT ![o] = None] /\ Release(o)
  /\ UNCHANGED host

-----------------------------------------------------------------------------
(* initInput() and initOutput() *)

Configure(o, d, v) ==
  /\ direction' = [direction EXCEPT ![Cell(o)] = d]
  /\ value' = [value EXCEPT ![Cell(o)] = v]

(* libgpiod 2: a single request, for the direction and the value.  The old *)
(* request is still there when the new one is made, so a line can be       *)
(* initialised only once.                                                  *)
GpiodV2Init(o, d, v) ==
  /\ platform = "gpiod2"
  /\ holder[Cell(o)] = None
  /\ holder' = [holder EXCEPT ![Cell(o)] = o]
  /\ Configure(o, d, IF d = "output" THEN v ELSE value[Cell(o)])
  /\ UNCHANGED object

GpioMockInit(o, d, v) ==
  /\ platform = "mock"
  /\ holder' = [holder EXCEPT ![Cell(o)] = o]
  /\ Configure(o, d, IF d = "output" THEN v ELSE value[Cell(o)])
  /\ UNCHANGED object

(* libgpiod 1 releases the line, requests it, and sets the value. *)
InitReleases(o, d, v) ==
  /\ platform = "gpiod1"
  /\ Release(o)
  /\ object' = [object EXCEPT ![o].todo = [op |-> "request", direction |-> d,
                                           value |-> v]]

(* Another holder, or an error, makes the request throw; an output is low  *)
(* until its value is set.                                                 *)
InitRequests(o) ==
  /\ Alive(o)
  /\ object[o].todo.op = "request"
  /\ \/ /\ holder[Cell(o)] = None
        /\ holder' = [holder EXCEPT ![Cell(o)] = o]
        /\ Configure(o, object[o].todo.direction, "low")
        /\ object' = [object EXCEPT ![o].todo =
                        IF @.direction = "output"
                        THEN [op |-> "set", value |-> @.value] ELSE Nothing]
     \/ /\ object' = [object EXCEPT ![o].todo = Nothing]
        /\ UNCHANGED <<holder, direction, value>>
  /\ UNCHANGED host

(* FreeBSD sets the direction, then the value. *)
InitDirects(o, d, v) ==
  /\ platform = "freebsd"
  /\ Configure(o, d, value[Cell(o)])
  /\ object' = [object EXCEPT ![o].todo =
                  IF d = "output" THEN [op |-> "set", value |-> v] ELSE Nothing]
  /\ UNCHANGED holder

(* An error leaves the value as it is. *)
InitSets(o) ==
  /\ Alive(o)
  /\ object[o].todo.op = "set"
  /\ \E v \in {object[o].todo.value, value[Cell(o)]} :
       value' = [value EXCEPT ![Cell(o)] = v]
  /\ object' = [object EXCEPT ![o].todo = Nothing]
  /\ UNCHANGED <<host, holder, direction>>

Initialise(o, d, v) ==
  /\ Ready(o)
  /\ \/ InitReleases(o, d, v) \/ GpiodV2Init(o, d, v)
     \/ InitDirects(o, d, v) \/ GpioMockInit(o, d, v)
  /\ UNCHANGED host

-----------------------------------------------------------------------------
(* setDirection() and setValue() throw on a line that is not initialised   *)
(* (with libgpiod 2 they dereference a null pointer).                      *)

Holds(o) == holder[Cell(o)] = o

(* libgpiod makes a line that turns into an output low. *)
Turn(o, d) == Configure(o, d, IF d = "output" THEN "low" ELSE value[Cell(o)])

GpiodV1SetDirection(o, d) == platform = "gpiod1" /\ Holds(o) /\ Turn(o, d)
GpiodV2SetDirection(o, d) == platform = "gpiod2" /\ Holds(o) /\ Turn(o, d)

FreeBsdSetDirection(o, d) ==
  platform = "freebsd" /\ Configure(o, d, value[Cell(o)])

GpioMockSetDirection(o, d) ==
  platform = "mock" /\ Holds(o) /\ Configure(o, d, value[Cell(o)])

SetDirection(o, d) ==
  /\ Ready(o)
  /\ \/ GpiodV1SetDirection(o, d) \/ GpiodV2SetDirection(o, d)
     \/ FreeBsdSetDirection(o, d) \/ GpioMockSetDirection(o, d)
  /\ UNCHANGED <<host, object, holder>>

(* The value of an input is not set: the kernel or the mock refuses. *)
Drives(o, v) ==
  /\ Holds(o)
  /\ direction[Cell(o)] = "output"
  /\ value' = [value EXCEPT ![Cell(o)] = v]

GpiodV1SetValue(o, v)  == platform = "gpiod1" /\ Drives(o, v)
GpiodV2SetValue(o, v)  == platform = "gpiod2" /\ Drives(o, v)
GpioMockSetValue(o, v) == platform = "mock" /\ Drives(o, v)

FreeBsdSetValue(o, v) ==
  platform = "freebsd" /\ value' = [value EXCEPT ![Cell(o)] = v]

SetValue(o, v) ==
  /\ Ready(o)
  /\ \/ GpiodV1SetValue(o, v) \/ GpiodV2SetValue(o, v)
     \/ FreeBsdSetValue(o, v) \/ GpioMockSetValue(o, v)
  /\ UNCHANGED <<host, object, holder, direction>>

(* What a test does to the input of a mock. *)
SetInputValue(o, v) ==
  /\ Ready(o)
  /\ platform = "mock" /\ direction[Cell(o)] = "input"
  /\ value' = [value EXCEPT ![Cell(o)] = v]
  /\ UNCHANGED <<host, object, holder, direction>>

-----------------------------------------------------------------------------
(* Other processes, and the chips of the host: one whose lines are in use  *)
(* stays.                                                                  *)

OtherProcess(l) ==
  /\ platform \in {"gpiod1", "gpiod2"}
  /\ l \in Lines
  /\ \/ holder[l] = None /\ holder' = [holder EXCEPT ![l] = "other"]
     \/ holder[l] = "other" /\ holder' = [holder EXCEPT ![l] = None]
  /\ UNCHANGED <<host, object, direction, value>>

Plug(c) ==
  /\ \A o \in Objects : Alive(o) => object[o].line[1] # c
  /\ chips' \in {[chips EXCEPT ![c] = s] : s \in {"absent", "good", "failing"}}
  /\ UNCHANGED <<platform, gpioMap, gpioVars>>

(* The calls on an object, what an initialisation has left to do, and what *)
(* happens on the host.                                                    *)
Use(o) ==
  \/ Construct(o) \/ Copy(o) \/ Drop(o) \/ Vanishes(o)
  \/ \E d \in Directions, v \in Values : Initialise(o, d, v)
  \/ \E d \in Directions : SetDirection(o, d)
  \/ \E v \in Values : SetValue(o, v) \/ SetInputValue(o, v)

Continue(o) == InitRequests(o) \/ InitSets(o)

Environment ==
  \/ GetResolver /\ UNCHANGED gpioVars
  \/ \E l \in Lines : OtherProcess(l)
  \/ \E c \in Chips : Plug(c)

Next == (\E o \in Objects : Use(o) \/ Continue(o)) \/ Environment

Spec == Init /\ [][Next]_vars

-----------------------------------------------------------------------------
(* A line is requested only on behalf of an object that exists and drives  *)
(* it: none stays taken after the last copy of its Gpio is gone.           *)
HeldLinesAreDriven ==
  \A l \in Cells : holder[l] \in Objects =>
    Alive(holder[l]) /\ Cell(holder[l]) = l

(* An object keeps the line it has requested until the last copy of its    *)
(* Gpio is gone, whatever the other copies and other processes do; only    *)
(* libgpiod 1 gives it up when it is initialised again.                    *)
LinesAreKept ==
  [][\A l \in Cells : holder[l] \in Objects /\ holder'[l] # holder[l] =>
       \/ object'[holder[l]] = None
       \/ object'[holder[l]].todo.op = "request"]_vars
=============================================================================
