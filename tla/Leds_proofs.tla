---------------------------- MODULE Leds_proofs ----------------------------
(* Theorems about Gpio, and about the program Leds on top of it, for every *)
(* set of chips, lines and driver objects.                                 *)
EXTENDS Leds, TLAPS, FiniteSetTheorems, SequenceTheorems, WellFoundedInduction

(* The inductive invariant of the lines. *)
LinesConsistent ==
  /\ platform \in {"gpiod1", "gpiod2", "freebsd", "mock"}
  /\ GpioTypes /\ PendingTypes /\ HeldLinesAreDriven

(* That of the program: its LEDs are the only objects, with one copy each, *)
(* and only the one that is being initialised, or was when the program was *)
(* killed, has anything left to do.                                        *)
LedTypes ==
  /\ program \in {"absent", "construct", "init", "initialising", "run",
                  "handler", "cleanup", "ended", "terminated", "failed", "killed"}
  /\ led \in [Colours -> Objects \cup {None}]
  /\ current \in Colours
  /\ program = "absent" => led = [c \in Colours |-> None]
  /\ program # "absent" => platform # "mock"

InTheMiddle(o) == program \in {"initialising", "killed"} /\ o = led[current]

LedsAreTheObjects ==
  /\ led["green"] = led["red"] => led["green"] = None
  /\ \A c \in Colours : led[c] # None => Alive(led[c])
  /\ program # "absent" =>
       \A o \in Objects : Alive(o) =>
         /\ object[o].copies = 1
         /\ \E c \in Colours : led[c] = o
         /\ object[o].todo = Nothing \/ InTheMiddle(o)

(* The LEDs are constructed one after the other. *)
GreenFirst ==
  /\ program = "construct" => led[current] = None
  /\ program \in {"init", "initialising"} => led[current] # None
  /\ program \in {"construct", "init", "initialising"} /\ current = "green" =>
       led["red"] = None
  /\ \/ program \in {"construct", "init", "initialising"} /\ current = "red"
     \/ program \in {"construct", "init", "initialising", "run", "handler",
                       "cleanup"}
        /\ led["red"] # None
     => led["green"] # None /\ Usable("green")

(* An LED that has been cleaned up does not shine. *)
CleanedUpSoFar ==
  /\ program \in {"handler", "cleanup", "failed"} /\ current = "red" => Dark("green")
  /\ program \in {"ended", "terminated"} => \A c \in Colours : Dark(c)

LedsConsistent == LedTypes /\ LedsAreTheObjects /\ GreenFirst /\ CleanedUpSoFar
-----------------------------------------------------------------------------
(* The lines: every call of a Gpio, and whatever happens on the host,      *)
(* preserves the invariant.                                                *)

(* What is said of an object when one of its fields changes. *)
LEMMA ObjectFields ==
  ASSUME NEW r \in DriverObject, NEW n \in 1..MaxCopies, NEW d \in LeftToDo
  PROVE  /\ [r EXCEPT !.copies = n] \in DriverObject
         /\ [r EXCEPT !.copies = n].line = r.line
         /\ [r EXCEPT !.copies = n].copies = n
         /\ [r EXCEPT !.copies = n].todo = r.todo
         /\ [r EXCEPT !.todo = d] \in DriverObject
         /\ [r EXCEPT !.todo = d].line = r.line
         /\ [r EXCEPT !.todo = d].copies = r.copies
         /\ [r EXCEPT !.todo = d].todo = d
         /\ r.line \in Lines /\ r.copies \in 1..MaxCopies /\ r.todo \in LeftToDo
  BY DEF DriverObject

(* What an initialisation may have left to do. *)
LEMMA WaysLeft ==
  ASSUME NEW d \in Directions, NEW v \in Values
  PROVE  /\ Nothing \in LeftToDo /\ Nothing.op = "none"
         /\ [op |-> "request", direction |-> d, value |-> v] \in LeftToDo
         /\ [op |-> "set", value |-> v] \in LeftToDo
  BY DEF Nothing, LeftToDo

(* In the beginning there is no object, and nobody holds a line. *)
LEMMA InitLinesConsistent == Init => LinesConsistent
  BY GpioAssumption
     DEF Init, LinesConsistent, GpioTypes, PendingTypes, HeldLinesAreDriven,
         Alive, Directions, Values

(* What LinesAreKept says of a step. *)
LinesKept ==
  \A l \in Cells : holder[l] \in Objects /\ holder'[l] # holder[l] =>
    \/ object'[holder[l]] = None
    \/ object'[holder[l]].todo.op = "request"

(* An object is left alone: it stays as it is, on its line, which it holds *)
(* as before.                                                              *)
Alone(p) ==
  /\ object'[p] = object[p]
  /\ Alive(p) => Cell(p)' = Cell(p) /\ (Holds(p)' <=> Holds(p))

OthersAlone(o) == \A p \in Objects \ {o} : Alone(p)

(* A step of one object: it changes no other object and no line but its    *)
(* own, which it takes when it is free and gives up when it had it.        *)
LEMMA OwnLineOnly ==
  ASSUME LinesConsistent, NEW o \in Objects, Alive(o), platform' = platform,
         GpioTypes',
         \A p \in Objects \ {o} : object'[p] = object[p],
         \A l \in Cells \ {Cell(o)} :
           holder'[l] = holder[l] /\ direction'[l] = direction[l],
         Alive(o)' =>
           /\ object'[o].line = object[o].line
           /\ object'[o].todo.op = "request" => platform = "gpiod1"
           /\ object'[o].todo.op = "set" =>
                \/ platform = "freebsd"
                \/ /\ platform = "gpiod1"
                   /\ holder'[Cell(o)] = o /\ direction'[Cell(o)] = "output",
         \/ holder'[Cell(o)] = holder[Cell(o)] /\ direction'[Cell(o)] = direction[Cell(o)]
         \/ holder[Cell(o)] \in {o, None} /\ holder'[Cell(o)] \in {o, None}
         \/ platform # "gpiod1" /\ holder'[Cell(o)] = holder[Cell(o)]
         \/ platform = "mock" /\ holder'[Cell(o)] \in {o, None},
         ~Alive(o)' => holder'[Cell(o)] # o,
         holder[Cell(o)] = o /\ holder'[Cell(o)] # o =>
           ~Alive(o)' \/ object'[o].todo.op = "request"
  PROVE  LinesConsistent' /\ LinesKept /\ OthersAlone(o)
  <1> DEFINE c == Cell(o)
  <1>1. /\ GpioTypes /\ HeldLinesAreDriven /\ PendingTypes
        /\ None \notin Objects /\ "other" \notin Objects
    BY GpioAssumption DEF LinesConsistent
  <1>2. \A p \in Objects : Alive(p) => Cell(p) \in Cells
    BY <1>1 DEF GpioTypes, Alive, Cell, Cells, DriverObject
  <1>3. /\ \A p \in Objects \ {o} : Alive(p)' <=> Alive(p)
        /\ \A p \in Objects : Alive(p)' => Cell(p)' = Cell(p)
    BY <1>1 DEF Alive, Cell
  <1>4. platform = "mock" /\ holder[c] \in Objects => holder[c] = o
    BY <1>1, <1>2 DEF HeldLinesAreDriven, Cell
  <1>5. HeldLinesAreDriven'
    <2>1. SUFFICES ASSUME NEW l \in Cells, NEW p \in Objects, holder'[l] = p
                   PROVE  Alive(p)' /\ Cell(p)' = l
      BY DEF HeldLinesAreDriven, Alive, Cell
    <2>2. CASE holder[l] = p
      BY <1>1, <1>2, <1>3, <2>1, <2>2 DEF HeldLinesAreDriven
    <2>3. CASE l = c /\ p = o
      BY <1>2, <1>3, <2>1, <2>3
    <2>4. QED
      BY <1>1, <2>1, <2>2, <2>3
  <1>6. PendingTypes'
    <2>1. ASSUME NEW p \in Objects \ {o}, Alive(p)'
          PROVE  /\ object'[p].todo.op = "request" => platform = "gpiod1"
                 /\ object'[p].todo.op = "set" =>
                      \/ platform = "freebsd"
                      \/ /\ platform = "gpiod1"
                         /\ holder'[Cell(p)] = p /\ direction'[Cell(p)] = "output"
      <3>1. Alive(p) /\ object'[p] = object[p] /\ Cell(p) \in Cells
        BY <1>2, <1>3, <2>1
      <3>2. CASE Cell(p) # c
        BY <1>1, <3>1, <3>2 DEF PendingTypes
      <3>3. CASE Cell(p) = c /\ holder[c] = p /\ platform = "gpiod1"
        BY <1>1, <3>1, <3>3 DEF PendingTypes
      <3>4. CASE Cell(p) = c /\ (holder[c] # p \/ platform # "gpiod1")
        BY <1>1, <3>1, <3>4 DEF PendingTypes
      <3>5. QED
        BY <3>2, <3>3, <3>4
    <2>2. QED
      BY <1>3, <2>1 DEF PendingTypes
  <1>7. LinesKept
    BY <1>1, <1>4 DEF LinesKept, Alive
  <1>8. OthersAlone(o)
    <2>1. ASSUME NEW p \in Objects \ {o}, Alive(p)
          PROVE  Cell(p)' = Cell(p) /\ (holder'[Cell(p)] = p <=> holder[Cell(p)] = p)
      <3>1. Cell(p)' = Cell(p) /\ Cell(p) \in Cells /\ p # None
        BY <1>1, <1>2, <1>3, <2>1
      <3>2. CASE Cell(p) # c
        BY <3>1, <3>2
      <3>3. CASE Cell(p) = c
        BY <1>4, <2>1, <3>1, <3>3 DEF Cell
      <3>4. QED
        BY <3>1, <3>2, <3>3
    <2>2. QED
      BY <2>1 DEF OthersAlone, Alone, Holds
  <1>9. QED
    BY <1>1, <1>5, <1>6, <1>7, <1>8 DEF LinesConsistent

(* The line of an object is one of the lines, or its own. *)
LEMMA CellOf ==
  ASSUME LinesConsistent, NEW o \in Objects, Alive(o)
  PROVE  /\ Cell(o) \in Cells /\ object[o] \in DriverObject
         /\ platform = "mock" /\ holder[Cell(o)] \in Objects => holder[Cell(o)] = o
         /\ None \notin DriverObject /\ None \notin Objects /\ GpioTypes
         /\ o # None
  BY GpioAssumption
     DEF LinesConsistent, GpioTypes, HeldLinesAreDriven, Alive, Cell, Cells,
         DriverObject

(* A new object has no line yet. *)
LEMMA ConstructKeeps ==
  ASSUME LinesConsistent, NEW o \in Objects, Construct(o)
  PROVE  LinesConsistent' /\ LinesKept /\ OthersAlone(o)
  <1>1. PICK l \in Lines :
          object' = [object EXCEPT ![o] = [line |-> l, copies |-> 1, todo |-> Nothing]]
    BY DEF Construct
  <1> DEFINE r == [line |-> l, copies |-> 1, todo |-> Nothing]
  <1>2. r \in DriverObject /\ r.todo.op = "none"
    BY GpioAssumption, 1 \in 1..MaxCopies DEF DriverObject, LeftToDo, Nothing
  <1>3. /\ ~Alive(o) /\ platform' = platform
        /\ holder' = holder /\ direction' = direction /\ value' = value
    BY DEF Construct, host
  <1> HIDE DEF r
  <1>4. object' = [object EXCEPT ![o] = r]
    BY <1>1 DEF r
  <1>5. /\ GpioTypes /\ HeldLinesAreDriven /\ PendingTypes
        /\ platform \in {"gpiod1", "gpiod2", "freebsd", "mock"}
    BY DEF LinesConsistent
  <1>6. /\ object'[o] = r
        /\ \A p \in Objects \ {o} : object'[p] = object[p]
        /\ object' \in [Objects -> DriverObject \cup {None}]
    BY <1>2, <1>4, <1>5 DEF GpioTypes
  <1>7. \A p \in Objects \ {o} : (Alive(p)' <=> Alive(p)) /\ Cell(p)' = Cell(p)
    BY <1>3, <1>6 DEF Alive, Cell
  <1>8. GpioTypes'
    BY <1>3, <1>5, <1>6 DEF GpioTypes, Cells
  <1>9. HeldLinesAreDriven'
    <2>1. SUFFICES ASSUME NEW l2 \in Cells, NEW p \in Objects, holder'[l2] = p
                   PROVE  Alive(p)' /\ Cell(p)' = l2
      BY DEF HeldLinesAreDriven, Alive, Cell
    <2>2. QED
      BY <1>3, <1>5, <1>7, <2>1 DEF HeldLinesAreDriven
  <1>10. PendingTypes'
    BY <1>2, <1>3, <1>5, <1>6, <1>7 DEF PendingTypes
  <1>11. LinesKept /\ OthersAlone(o)
    BY <1>3, <1>6, <1>7 DEF LinesKept, OthersAlone, Alone, Holds
  <1>12. QED
    BY <1>3, <1>5, <1>8, <1>9, <1>10, <1>11 DEF LinesConsistent

(* A copy shares the object. *)
LEMMA CopyKeeps ==
  ASSUME LinesConsistent, NEW o \in Objects, Copy(o)
  PROVE  LinesConsistent' /\ LinesKept /\ OthersAlone(o)
  <1>1. /\ Alive(o) /\ object[o].todo = Nothing /\ object[o].copies < MaxCopies
        /\ object' = [object EXCEPT ![o] =
                        [object[o] EXCEPT !.copies = object[o].copies + 1]]
        /\ platform' = platform
        /\ holder' = holder /\ direction' = direction /\ value' = value
    BY DEF Copy, Ready, host
  <1>2. /\ Cell(o) \in Cells /\ object[o] \in DriverObject /\ GpioTypes
        /\ None \notin DriverObject
    BY <1>1, CellOf
  <1> DEFINE n == object[o].copies + 1
             r == [object[o] EXCEPT !.copies = n]
  <1>3. n \in 1..MaxCopies /\ Nothing \in LeftToDo
    BY <1>1, <1>2, GpioAssumption DEF DriverObject, LeftToDo, Nothing
  <1> HIDE DEF n
  <1>4. r \in DriverObject /\ r.line = object[o].line /\ r.todo = Nothing
    BY <1>1, <1>2, <1>3, ObjectFields
  <1> HIDE DEF r
  <1>5. object' = [object EXCEPT ![o] = r]
    BY <1>1 DEF r, n
  <1>6. /\ object'[o] = r /\ GpioTypes'
        /\ \A p \in Objects \ {o} : object'[p] = object[p]
    BY <1>1, <1>2, <1>4, <1>5 DEF GpioTypes, Cells
  <1>7. Alive(o)'
    BY <1>2, <1>4, <1>6 DEF Alive
  <1>8. object'[o].todo.op = "none"
    BY <1>4, <1>6 DEF Nothing
  <1>9. QED
    BY <1>1, <1>2, <1>4, <1>6, <1>7, <1>8, OwnLineOnly

(* What an initialisation has left to do is kept with the object. *)
LEMMA LeavesToDo ==
  ASSUME LinesConsistent, NEW o \in Objects, Alive(o), NEW d \in LeftToDo,
         object' = [object EXCEPT ![o].todo = d]
  PROVE  /\ object' \in [Objects -> DriverObject \cup {None}]
         /\ object'[o].todo = d /\ object'[o].line = object[o].line
         /\ object'[o].copies = object[o].copies
         /\ Alive(o)'
         /\ \A p \in Objects \ {o} : object'[p] = object[p]
  <1> DEFINE r == [object[o] EXCEPT !.todo = d]
  <1>1. object[o] \in DriverObject /\ None \notin DriverObject /\ GpioTypes
    BY CellOf
  <1>2. ASSUME NEW q \in DriverObject
        PROVE  LET e == [q EXCEPT !.todo = d]
               IN  /\ e \in DriverObject /\ e.line = q.line /\ e.todo = d
                   /\ e.copies = q.copies
    BY DEF DriverObject
  <1>3. /\ r \in DriverObject /\ r.line = object[o].line /\ r.todo = d
        /\ r.copies = object[o].copies
    BY <1>1, <1>2
  <1>4. object' = [object EXCEPT ![o] = r]
    OBVIOUS
  <1> HIDE DEF r
  <1>5. QED
    BY <1>1, <1>3, <1>4 DEF GpioTypes, Alive

(* A line is configured, and no other line. *)
LEMMA ConfigureOf ==
  ASSUME GpioTypes, NEW o \in Objects, Cell(o) \in Cells,
         NEW d \in Directions, NEW v \in Values, Configure(o, d, v)
  PROVE  /\ direction' \in [Cells -> Directions] /\ value' \in [Cells -> Values]
         /\ direction'[Cell(o)] = d /\ value'[Cell(o)] = v
         /\ \A l \in Cells \ {Cell(o)} :
              direction'[l] = direction[l] /\ value'[l] = value[l]
  BY DEF GpioTypes, Configure

(* A line that is released belongs to nobody. *)
LEMMA ReleaseOf ==
  ASSUME LinesConsistent, NEW o \in Objects, Alive(o), Release(o)
  PROVE  /\ holder' \in [Cells -> Objects \cup {None, "other"}]
         /\ direction' \in [Cells -> Directions] /\ value' \in [Cells -> Values]
         /\ \A l \in Cells \ {Cell(o)} :
              holder'[l] = holder[l] /\ direction'[l] = direction[l]
         /\ holder'[Cell(o)] # o
         /\ \/ holder'[Cell(o)] = None /\ direction'[Cell(o)] = "input"
               /\ (holder[Cell(o)] = o \/ platform = "mock")
            \/ holder[Cell(o)] # o /\ holder' = holder /\ direction' = direction
  <1>1. GpioTypes /\ Cell(o) \in Cells /\ o # None
    BY CellOf
  <1>2. QED
    BY <1>1 DEF Release, GpioTypes, Directions, Values

(* An object that vanishes leaves its line free. *)
LEMMA VanishesKeeps ==
  ASSUME LinesConsistent, NEW o \in Objects, Vanishes(o)
  PROVE  LinesConsistent' /\ LinesKept /\ OthersAlone(o)
  <1>1. Alive(o) /\ platform' = platform
    BY DEF Vanishes, host
  <1>2. Cell(o) \in Cells /\ object[o] \in DriverObject /\ GpioTypes /\ o # None
    BY <1>1, CellOf
  <1>3. object' = [object EXCEPT ![o] = None] /\ Release(o)
    BY DEF Vanishes
  <1>4. /\ \A l \in Cells \ {Cell(o)} :
             holder'[l] = holder[l] /\ direction'[l] = direction[l]
        /\ holder'[Cell(o)] # o
        /\ \/ /\ holder'[Cell(o)] = None
              /\ holder[Cell(o)] = o \/ platform = "mock"
           \/ holder[Cell(o)] # o /\ holder' = holder /\ direction' = direction
        /\ holder' \in [Cells -> Objects \cup {None, "other"}]
        /\ direction' \in [Cells -> Directions] /\ value' \in [Cells -> Values]
    BY <1>1, <1>3, ReleaseOf
  <1>5. /\ ~Alive(o)' /\ GpioTypes'
        /\ \A p \in Objects \ {o} : object'[p] = object[p]
    BY <1>2, <1>3, <1>4 DEF GpioTypes, Cells, Alive
  <1>6. QED
    BY <1>1, <1>2, <1>4, <1>5, OwnLineOnly

(* The last copy takes the object with it, and the line is free again. *)
LEMMA DropKeeps ==
  ASSUME LinesConsistent, NEW o \in Objects, Drop(o)
  PROVE  LinesConsistent' /\ LinesKept /\ OthersAlone(o)
  <1>1. Alive(o) /\ object[o].todo = Nothing /\ platform' = platform
    BY DEF Drop, Ready, host
  <1>2. /\ Cell(o) \in Cells /\ object[o] \in DriverObject /\ GpioTypes
        /\ None \notin DriverObject /\ o # None
    BY <1>1, CellOf
  <1>3. CASE object[o].copies > 1
    <2> DEFINE n == object[o].copies - 1
               r == [object[o] EXCEPT !.copies = n]
    <2>1. n \in 1..MaxCopies /\ Nothing \in LeftToDo
      BY <1>2, <1>3, GpioAssumption DEF DriverObject, LeftToDo, Nothing
    <2>2. object' = [object EXCEPT ![o] = r] /\ UNCHANGED <<holder, direction, value>>
      BY <1>3 DEF Drop
    <2> HIDE DEF n
    <2>3. r \in DriverObject /\ r.line = object[o].line /\ r.todo = Nothing
      BY <1>1, <1>2, <2>1, ObjectFields
    <2> HIDE DEF r
    <2>4. /\ object'[o] = r /\ GpioTypes' /\ Alive(o)'
          /\ \A p \in Objects \ {o} : object'[p] = object[p]
      BY <1>1, <1>2, <2>2, <2>3 DEF GpioTypes, Cells, Alive
    <2>5. object'[o].todo.op = "none"
      BY <2>3, <2>4 DEF Nothing
    <2>6. QED
      BY <1>1, <1>2, <2>2, <2>3, <2>4, <2>5, OwnLineOnly
  <1>4. CASE ~(object[o].copies > 1)
    BY <1>1, <1>4, VanishesKeeps DEF Drop, Vanishes
  <1>5. QED
    BY <1>3, <1>4

(* Initialisation: a driver takes a line only when it is free, and only    *)
(* libgpiod 1 gives it up before.                                          *)
LEMMA InitialiseKeeps ==
  ASSUME LinesConsistent, NEW o \in Objects, NEW d \in Directions, NEW v \in Values,
         Initialise(o, d, v)
  PROVE  LinesConsistent' /\ LinesKept /\ OthersAlone(o)
  <1>1. Alive(o) /\ object[o].todo = Nothing /\ platform' = platform
    BY DEF Initialise, Ready, host
  <1>2. /\ Cell(o) \in Cells /\ object[o] \in DriverObject /\ GpioTypes
        /\ None \notin DriverObject /\ o # None
    BY <1>1, CellOf
  <1>3. /\ value[Cell(o)] \in Values /\ direction[Cell(o)] \in Directions
        /\ object[o].todo.op = "none" /\ Nothing \in LeftToDo /\ Nothing.op = "none"
    BY <1>1, <1>2 DEF GpioTypes, Nothing, LeftToDo
  <1>4. CASE GpiodV2Init(o, d, v) \/ GpioMockInit(o, d, v)
    <2>1. PICK w \in Values :
            /\ Configure(o, d, w) /\ holder' = [holder EXCEPT ![Cell(o)] = o]
            /\ object' = object
            /\ \/ platform = "gpiod2" /\ holder[Cell(o)] = None
               \/ platform = "mock"
      BY <1>3, <1>4 DEF GpiodV2Init, GpioMockInit
    <2>2. /\ direction' \in [Cells -> Directions] /\ value' \in [Cells -> Values]
          /\ \A l \in Cells \ {Cell(o)} : direction'[l] = direction[l]
      BY <1>2, <2>1, ConfigureOf
    <2>3. /\ GpioTypes' /\ holder'[Cell(o)] = o
          /\ \A l \in Cells \ {Cell(o)} : holder'[l] = holder[l]
      BY <1>2, <2>1, <2>2 DEF GpioTypes, Cells
    <2>4. Alive(o)'
      BY <1>1, <2>1 DEF Alive
    <2>5. QED
      BY <1>1, <1>2, <1>3, <2>1, <2>2, <2>3, <2>4, OwnLineOnly
  <1>5. CASE InitReleases(o, d, v)
    <2> DEFINE left == [op |-> "request", direction |-> d, value |-> v]
    <2>1. /\ object' = [object EXCEPT ![o].todo = left]
          /\ platform = "gpiod1" /\ Release(o)
          /\ left \in LeftToDo /\ left.op = "request"
      BY <1>5, WaysLeft DEF InitReleases
    <2> HIDE DEF left
    <2>2. /\ object' \in [Objects -> DriverObject \cup {None}]
          /\ object'[o].todo = left /\ object'[o].line = object[o].line
          /\ Alive(o)' /\ \A p \in Objects \ {o} : object'[p] = object[p]
      BY <1>1, <2>1, LeavesToDo
    <2>3. /\ \A l \in Cells \ {Cell(o)} :
               holder'[l] = holder[l] /\ direction'[l] = direction[l]
          /\ holder'[Cell(o)] # o
          /\ \/ holder'[Cell(o)] = None /\ holder[Cell(o)] = o
             \/ holder' = holder /\ direction' = direction
          /\ holder' \in [Cells -> Objects \cup {None, "other"}]
          /\ direction' \in [Cells -> Directions] /\ value' \in [Cells -> Values]
      BY <1>1, <2>1, ReleaseOf
    <2>4. GpioTypes'
      BY <2>2, <2>3 DEF GpioTypes, Cells
    <2>5. QED
      BY <1>1, <1>2, <2>1, <2>2, <2>3, <2>4, OwnLineOnly
  <1>6. CASE InitDirects(o, d, v)
    <2> DEFINE left == IF d = "output" THEN [op |-> "set", value |-> v] ELSE Nothing
    <2>1. /\ object' = [object EXCEPT ![o].todo = left]
          /\ platform = "freebsd" /\ Configure(o, d, value[Cell(o)])
          /\ holder' = holder
      BY <1>6 DEF InitDirects
    <2>2. left \in LeftToDo /\ left.op # "request"
      BY WaysLeft DEF Nothing
    <2> HIDE DEF left
    <2>3. /\ object' \in [Objects -> DriverObject \cup {None}]
          /\ object'[o].todo = left /\ object'[o].line = object[o].line
          /\ Alive(o)' /\ \A p \in Objects \ {o} : object'[p] = object[p]
      BY <1>1, <2>1, <2>2, LeavesToDo
    <2>4. /\ direction' \in [Cells -> Directions] /\ value' \in [Cells -> Values]
          /\ \A l \in Cells \ {Cell(o)} : direction'[l] = direction[l]
      BY <1>2, <1>3, <2>1, ConfigureOf
    <2>5. GpioTypes'
      BY <1>2, <2>1, <2>3, <2>4 DEF GpioTypes, Cells
    <2>6. QED
      BY <1>1, <1>2, <2>1, <2>2, <2>3, <2>4, <2>5, OwnLineOnly
  <1>7. QED
    BY <1>4, <1>5, <1>6 DEF Initialise

(* The request takes the line if it is free; an output gets its value      *)
(* afterwards.                                                             *)
LEMMA ContinueKeeps ==
  ASSUME LinesConsistent, NEW o \in Objects, Continue(o)
  PROVE  LinesConsistent' /\ LinesKept /\ OthersAlone(o)
  <1>1. Alive(o) /\ platform' = platform
    BY DEF Continue, InitRequests, InitSets, host
  <1>2. /\ Cell(o) \in Cells /\ object[o] \in DriverObject /\ GpioTypes
        /\ None \notin DriverObject /\ o # None
    BY <1>1, CellOf
  <1>3. /\ value[Cell(o)] \in Values /\ direction[Cell(o)] \in Directions
        /\ object[o].todo \in LeftToDo /\ Nothing \in LeftToDo /\ Nothing.op = "none"
        /\ "low" \in Values
    BY <1>2 DEF GpioTypes, Nothing, LeftToDo, DriverObject, Values
  <1>4. CASE InitSets(o)
    <2>1. /\ object[o].todo.op = "set"
          /\ object' = [object EXCEPT ![o].todo = Nothing]
          /\ UNCHANGED <<holder, direction>>
      BY <1>4 DEF InitSets
    <2>2. object[o].todo.value \in Values
      BY <1>3, <2>1 DEF LeftToDo
    <2>3. value' \in [Cells -> Values]
      BY <1>2, <1>3, <1>4, <2>2 DEF InitSets, GpioTypes
    <2>4. /\ object' \in [Objects -> DriverObject \cup {None}]
          /\ object'[o].todo = Nothing /\ object'[o].line = object[o].line
          /\ Alive(o)' /\ \A p \in Objects \ {o} : object'[p] = object[p]
      BY <1>1, <1>3, <2>1, LeavesToDo
    <2>5. GpioTypes'
      BY <1>2, <2>1, <2>3, <2>4 DEF GpioTypes, Cells
    <2>6. QED
      BY <1>1, <1>2, <1>3, <2>1, <2>4, <2>5, OwnLineOnly
  <1>5. CASE InitRequests(o) /\ UNCHANGED <<holder, direction, value>>
             /\ object' = [object EXCEPT ![o].todo = Nothing]
    <2>1. /\ object' \in [Objects -> DriverObject \cup {None}]
          /\ object'[o].todo = Nothing /\ object'[o].line = object[o].line
          /\ Alive(o)' /\ \A p \in Objects \ {o} : object'[p] = object[p]
      BY <1>1, <1>3, <1>5, LeavesToDo
    <2>2. GpioTypes'
      BY <1>2, <1>5, <2>1 DEF GpioTypes, Cells
    <2>3. QED
      BY <1>1, <1>2, <1>3, <1>5, <2>1, <2>2, OwnLineOnly
  <1>6. CASE InitRequests(o) /\ holder[Cell(o)] = None
             /\ holder' = [holder EXCEPT ![Cell(o)] = o]
             /\ Configure(o, object[o].todo.direction, "low")
             /\ object' = [object EXCEPT ![o].todo =
                             IF @.direction = "output"
                             THEN [op |-> "set", value |-> @.value] ELSE Nothing]
    <2> DEFINE d    == object[o].todo.direction
               left == IF d = "output"
                       THEN [op |-> "set", value |-> object[o].todo.value]
                       ELSE Nothing
    <2>1. object[o].todo.op = "request" /\ object' = [object EXCEPT ![o].todo = left]
      BY <1>6 DEF InitRequests
    <2>2. platform = "gpiod1"
      BY <1>1, <2>1 DEF LinesConsistent, PendingTypes
    <2>3. d \in Directions /\ object[o].todo.value \in Values
      BY <1>3, <2>1 DEF LeftToDo
    <2>4. left \in LeftToDo /\ left.op # "request" /\ (left.op = "set" => d = "output")
      BY <2>3, WaysLeft DEF Nothing
    <2> HIDE DEF left
    <2>5. /\ object' \in [Objects -> DriverObject \cup {None}]
          /\ object'[o].todo = left /\ object'[o].line = object[o].line
          /\ Alive(o)' /\ \A p \in Objects \ {o} : object'[p] = object[p]
      BY <1>1, <2>1, <2>4, LeavesToDo
    <2> HIDE DEF d
    <2>6. Configure(o, d, "low")
      BY <1>6 DEF d
    <2>7. /\ direction' \in [Cells -> Directions] /\ value' \in [Cells -> Values]
          /\ direction'[Cell(o)] = d
          /\ \A l \in Cells \ {Cell(o)} : direction'[l] = direction[l]
      BY <1>2, <1>3, <2>3, <2>6, ConfigureOf
    <2>8. /\ GpioTypes' /\ holder'[Cell(o)] = o
          /\ \A l \in Cells \ {Cell(o)} : holder'[l] = holder[l]
      BY <1>2, <1>6, <2>5, <2>7 DEF GpioTypes, Cells
    <2>9. QED
      BY <1>1, <1>2, <1>6, <2>2, <2>4, <2>5, <2>7, <2>8, OwnLineOnly
  <1>7. QED
    BY <1>4, <1>5, <1>6 DEF Continue, InitRequests

(* setDirection() and setValue() leave the holders as they are. *)
LEMMA SetDirectionKeeps ==
  ASSUME LinesConsistent, NEW o \in Objects, NEW d \in Directions, SetDirection(o, d)
  PROVE  LinesConsistent' /\ LinesKept /\ OthersAlone(o)
  <1>1. /\ Alive(o) /\ object[o].todo = Nothing /\ platform' = platform
        /\ object' = object /\ holder' = holder
    BY DEF SetDirection, Ready, host
  <1>2. /\ Cell(o) \in Cells /\ GpioTypes
        /\ object[o].todo.op = "none" /\ value[Cell(o)] \in Values /\ "low" \in Values
    BY <1>1, CellOf DEF Nothing, GpioTypes, Values
  <1>3. PICK v \in Values : Configure(o, d, v)
    BY <1>2 DEF SetDirection, GpiodV1SetDirection, GpiodV2SetDirection,
       FreeBsdSetDirection, GpioMockSetDirection, Turn
  <1>4. /\ direction' \in [Cells -> Directions] /\ value' \in [Cells -> Values]
        /\ \A l \in Cells \ {Cell(o)} : direction'[l] = direction[l]
    BY <1>2, <1>3, ConfigureOf
  <1>5. platform = "gpiod1" => holder[Cell(o)] = o
    BY DEF SetDirection, GpiodV1SetDirection, GpiodV2SetDirection,
       FreeBsdSetDirection, GpioMockSetDirection, Holds
  <1>6. GpioTypes' /\ Alive(o)'
    BY <1>1, <1>2, <1>4 DEF GpioTypes, Cells, Alive
  <1>7. QED
    BY <1>1, <1>2, <1>4, <1>5, <1>6, OwnLineOnly

(* The value is the only thing that changes. *)
LEMMA SetValueKeeps ==
  ASSUME LinesConsistent, NEW o \in Objects, NEW v \in Values,
         SetValue(o, v) \/ SetInputValue(o, v)
  PROVE  LinesConsistent' /\ LinesKept /\ OthersAlone(o)
  <1>1. /\ Alive(o) /\ object[o].todo = Nothing /\ platform' = platform
        /\ object' = object /\ holder' = holder /\ direction' = direction
        /\ value' = [value EXCEPT ![Cell(o)] = v]
    BY DEF SetValue, SetInputValue, GpiodV1SetValue, GpiodV2SetValue,
       FreeBsdSetValue, GpioMockSetValue, Drives, Ready, host
  <1>2. Cell(o) \in Cells /\ GpioTypes /\ object[o].todo.op = "none"
    BY <1>1, CellOf DEF Nothing
  <1>3. GpioTypes' /\ Alive(o)'
    BY <1>1, <1>2 DEF GpioTypes, Cells, Alive
  <1>4. QED
    BY <1>1, <1>2, <1>3, OwnLineOnly

(* Other processes take and give up only lines that no object holds. *)
LEMMA EnvironmentKeeps ==
  ASSUME LinesConsistent, Environment \/ UNCHANGED vars
  PROVE  LinesConsistent' /\ LinesKept /\ \A o \in Objects : Alone(o)
  <1>1. /\ platform' = platform
        /\ UNCHANGED <<object, direction, value>>
        /\ \/ holder' = holder
           \/ \E l \in Lines : /\ platform \in {"gpiod1", "gpiod2"}
                               /\ holder[l] \in {None, "other"}
                               /\ \E h \in {None, "other"} :
                                    holder' = [holder EXCEPT ![l] = h]
    BY DEF Environment, GetResolver, OtherProcess, Plug, gpioVars, vars, host
  <1>2. /\ GpioTypes /\ PendingTypes /\ HeldLinesAreDriven
        /\ None \notin Objects /\ "other" \notin Objects
    BY GpioAssumption DEF LinesConsistent
  <1>3. /\ \A l \in Cells : holder[l] \in Objects => holder'[l] = holder[l]
        /\ \A l \in Cells : holder'[l] \in Objects => holder'[l] = holder[l]
        /\ holder' \in [Cells -> Objects \cup {None, "other"}]
    BY <1>1, <1>2 DEF GpioTypes, Cells
  <1>4. \A o \in Objects : /\ Alive(o)' <=> Alive(o)
                           /\ Cell(o)' = Cell(o)
                           /\ Alive(o) => Cell(o) \in Cells
    BY <1>1, <1>2, CellOf DEF Alive, Cell
  <1>5. GpioTypes'
    BY <1>1, <1>2, <1>3 DEF GpioTypes, Cells
  <1>6. HeldLinesAreDriven'
    <2>1. SUFFICES ASSUME NEW l \in Cells, NEW p \in Objects, holder'[l] = p
                   PROVE  Alive(p)' /\ Cell(p)' = l
      BY DEF HeldLinesAreDriven, Alive, Cell
    <2>2. QED
      BY <1>2, <1>3, <1>4, <2>1 DEF HeldLinesAreDriven
  <1>7. PendingTypes'
    BY <1>1, <1>2, <1>3, <1>4 DEF PendingTypes
  <1>8. LinesKept
    BY <1>3 DEF LinesKept
  <1>9. ASSUME NEW o \in Objects PROVE Alone(o)
    <2>1. ASSUME Alive(o)
          PROVE  Cell(o)' = Cell(o) /\ (holder'[Cell(o)] = o <=> holder[Cell(o)] = o)
      BY <1>3, <1>4, <2>1
    <2>2. QED
      BY <1>1, <2>1 DEF Alone, Holds
  <1>10. QED
    BY <1>1, <1>5, <1>6, <1>7, <1>8, <1>9 DEF LinesConsistent

(* Every step preserves the invariant and keeps the lines. *)
LEMMA StepKeepsLines == LinesConsistent /\ [Next]_vars => LinesConsistent' /\ LinesKept
  <1> SUFFICES ASSUME LinesConsistent, [Next]_vars
               PROVE  LinesConsistent' /\ LinesKept
    OBVIOUS
  <1>1. ASSUME NEW o \in Objects, Use(o)
        PROVE  LinesConsistent' /\ LinesKept
    BY <1>1, ConstructKeeps, CopyKeeps, DropKeeps, VanishesKeeps, InitialiseKeeps,
       SetDirectionKeeps, SetValueKeeps DEF Use
  <1>2. QED
    BY <1>1, ContinueKeeps, EnvironmentKeeps DEF Next

(* The invariant holds of every behaviour of the lines. *)
THEOREM LinesConsistentAlways == Spec => []LinesConsistent
  <1>1. LinesConsistent /\ [Next]_vars => LinesConsistent'
    BY StepKeepsLines
  <1>2. QED
    BY <1>1, InitLinesConsistent, PTL DEF Spec

(* No line stays taken after the last copy of its Gpio is gone, and no     *)
(* line is taken for an object that drives another one.                    *)
THEOREM HolderCorrectness == Spec => []HeldLinesAreDriven
  <1>1. LinesConsistent => HeldLinesAreDriven
    BY DEF LinesConsistent
  <1>2. QED
    BY <1>1, LinesConsistentAlways, PTL

(* An object keeps its line until the last copy is gone, unless libgpiod 1 *)
(* initialises it again.                                                   *)
THEOREM LineCorrectness == Spec => LinesAreKept
  <1>1. LinesConsistent /\ [Next]_vars => [LinesKept]_vars
    BY StepKeepsLines
  <1>2. Spec => [][LinesKept]_vars
    BY <1>1, LinesConsistentAlways, PTL DEF Spec
  <1>3. QED
    BY <1>2 DEF LinesAreKept, LinesKept
-----------------------------------------------------------------------------
(* The program: every step of it is a step of the lines.                   *)

(* At the start there is no LED. *)
LEMMA InitLedsConsistent == LedsInit => LedsConsistent
  <1> SUFFICES ASSUME LedsInit PROVE LedsConsistent
    OBVIOUS
  <1>1. /\ \A o \in Objects : ~Alive(o)
        /\ led = [c \in Colours |-> None] /\ current = "green"
        /\ program \in {"absent", "construct"}
        /\ program # "absent" => platform # "mock"
    BY DEF LedsInit, Init, Alive
  <1>2. /\ led["green"] = None /\ led["red"] = None /\ current \in Colours
        /\ \A c \in Colours : led[c] = None
    BY <1>1 DEF Colours
  <1>3. LedTypes
    BY <1>1, <1>2 DEF LedTypes
  <1>4. LedsAreTheObjects /\ GreenFirst /\ CleanedUpSoFar
    BY <1>1, <1>2 DEF LedsAreTheObjects, GreenFirst, CleanedUpSoFar
  <1>5. QED
    BY <1>3, <1>4 DEF LedsConsistent

(* What the program does, it does with the lines as anybody else. *)
LEMMA StepOfLines ==
  LedsConsistent /\ [LedsNext]_<<vars, ledVars>> => [Next]_vars
  <1> SUFFICES ASSUME LedsConsistent, LedsNext PROVE Next \/ UNCHANGED vars
    BY DEF vars
  <1>1. /\ \A c \in Colours : led[c] # None => led[c] \in Objects
        /\ current \in Colours
        /\ program \in {"init", "initialising"} => led[current] \in Objects
    BY DEF LedsConsistent, LedTypes, GreenFirst
  <1>2. \A o \in Objects : Use(o) \/ Continue(o) => Next
    BY DEF Next
  <1>3. CASE ConstructsLed \/ InitialisesLed \/ SetsLed
    BY <1>1, <1>2, <1>3
       DEF ConstructsLed, InitialisesLed, SetsLed, Use, Directions, Values, InitialValue
  <1>4. CASE CleansUp
    BY <1>1, <1>2, <1>4 DEF CleansUp, Use, Directions
  <1>5. CASE Exits
    BY <1>1, <1>2, <1>5 DEF Exits, Use
  <1>6. CASE LedInitialised \/ Caught \/ SignalHandler \/ Killed \/ CleanupThrows
    BY <1>6 DEF LedInitialised, Caught, Throws, SignalHandler, Killed, CleanupThrows
  <1>7. QED
    BY <1>2, <1>3, <1>4, <1>5, <1>6 DEF LedsNext, LedsStep, Next

(* The LEDs that a step leaves alone. *)
LEMMA LedAlone ==
  ASSUME LinesConsistent, LedsConsistent, UNCHANGED platform, NEW c \in Colours,
         led[c] # None, Alone(led[c]), led'[c] = led[c]
  PROVE  /\ Alive(led[c])' /\ object'[led[c]] = object[led[c]]
         /\ Cell(led[c])' = Cell(led[c])
         /\ Usable(c)' <=> Usable(c)
         /\ led[c] \in Objects /\ Alive(led[c]) /\ Cell(led[c]) \in Cells
  <1>1. led[c] \in Objects /\ Alive(led[c])
    BY DEF LedsConsistent, LedTypes, LedsAreTheObjects
  <1>2. Cell(led[c]) \in Cells
    BY <1>1, CellOf
  <1>3. /\ object'[led[c]] = object[led[c]]
        /\ Cell(led[c])' = Cell(led[c])
        /\ Holds(led[c])' <=> Holds(led[c])
    BY <1>1 DEF Alone, Cell, Alive
  <1>4. QED
    BY <1>1, <1>2, <1>3 DEF Usable, Alive, Holds, Cell

(* A new LED has an object of its own. *)
LEMMA ConstructsLedConsistent ==
  ASSUME LinesConsistent, LedsConsistent, ConstructsLed
  PROVE  LedsConsistent'
  <1>1. PICK o \in Objects : Construct(o) /\ led' = [led EXCEPT ![current] = o]
    BY DEF ConstructsLed
  <1>2. /\ program = "construct" /\ program' = "init" /\ current' = current
        /\ LedTypes /\ LedsAreTheObjects /\ GreenFirst
        /\ platform' = platform
    BY <1>1 DEF ConstructsLed, LedsConsistent, Construct, host
  <1>3. PICK l \in Lines :
          object' = [object EXCEPT ![o] = [line |-> l, copies |-> 1, todo |-> Nothing]]
    BY <1>1 DEF Construct
  <1> DEFINE r == [line |-> l, copies |-> 1, todo |-> Nothing]
  <1>4. /\ r \in DriverObject /\ r.copies = 1 /\ r.todo = Nothing
        /\ None \notin DriverObject /\ o # None /\ ~Alive(o)
        /\ object \in [Objects -> DriverObject \cup {None}]
    BY <1>1, GpioAssumption, 1 \in 1..MaxCopies
       DEF DriverObject, LeftToDo, Nothing, LinesConsistent, GpioTypes, Construct
  <1> HIDE DEF r
  <1>5. object' = [object EXCEPT ![o] = r]
    BY <1>3 DEF r
  <1>6. /\ object'[o] = r /\ Alive(o)'
        /\ \A p \in Objects \ {o} : object'[p] = object[p] /\ (Alive(p)' <=> Alive(p))
    BY <1>4, <1>5 DEF Alive
  <1>7. /\ led'[current] = o /\ led' \in [Colours -> Objects \cup {None}]
        /\ \A c \in Colours \ {current} : led'[c] = led[c] /\ led[c] # o
    BY <1>1, <1>2, <1>4 DEF LedTypes, LedsAreTheObjects
  <1>8. LedTypes'
    BY <1>2, <1>7 DEF LedTypes
  <1>9. LedsAreTheObjects'
    <2>1. \A c \in Colours : led'[c] # None => object'[led'[c]] # None /\ (led'[c] = o <=> c = current)
      BY <1>2, <1>4, <1>6, <1>7 DEF LedTypes, LedsAreTheObjects, Alive
    <2>2. led'["green"] = led'["red"] => led'["green"] = None
      BY <1>2, <1>4, <1>7, <2>1 DEF LedTypes, LedsAreTheObjects, Colours
    <2>3. ASSUME NEW p \in Objects, Alive(p)'
          PROVE  /\ object'[p].copies = 1 /\ object'[p].todo = Nothing
                 /\ \E c \in Colours : led'[c] = p
      <3>1. CASE p = o
        BY <1>2, <1>4, <1>6, <1>7, <3>1 DEF LedTypes
      <3>2. CASE p # o
        <4>1. object'[p] = object[p] /\ Alive(p)
          BY <1>6, <2>3, <3>2
        <4>2. /\ object[p].copies = 1 /\ object[p].todo = Nothing
              /\ \E c \in Colours : led[c] = p
          BY <1>2, <4>1 DEF LedsAreTheObjects, InTheMiddle
        <4>3. PICK c \in Colours : led[c] = p
          BY <4>2
        <4>4. c # current
          BY <1>2, <1>4, <4>3, GpioAssumption DEF GreenFirst
        <4>5. QED
          BY <1>7, <4>1, <4>2, <4>3, <4>4
      <3>3. QED
        BY <3>1, <3>2
    <2>4. QED
      BY <2>1, <2>2, <2>3 DEF LedsAreTheObjects, Alive
  <1>10. GreenFirst'
    <2>1. CASE current = "green"
      BY <1>2, <1>4, <1>7, <2>1 DEF GreenFirst, Colours
    <2>2. CASE current = "red"
      <3>1. led["green"] # None /\ Usable("green") /\ "green" \in Colours
        BY <1>2, <2>2 DEF GreenFirst, Colours
      <3>2. led'["green"] = led["green"] /\ led["green"] # o /\ led["green"] \in Objects
        BY <1>2, <1>7, <2>2, <3>1 DEF Colours, LedTypes
      <3>3. Alone(led["green"])
        BY <1>1, <3>2, ConstructKeeps DEF OthersAlone
      <3>4. Usable("green")'
        BY <1>2, <3>1, <3>2, <3>3, LedAlone
      <3>5. QED
        BY <1>2, <1>4, <1>7, <2>2, <3>1, <3>2, <3>4 DEF GreenFirst
    <2>3. QED
      BY <1>2, <2>1, <2>2 DEF LedTypes, Colours
  <1>11. CleanedUpSoFar'
    BY <1>2 DEF CleanedUpSoFar
  <1>12. QED
    BY <1>8, <1>9, <1>10, <1>11 DEF LedsConsistent

(* An LED's object goes on with its initialisation; the other LED is left  *)
(* alone.                                                                  *)
LEMMA InitialisingConsistent ==
  ASSUME LinesConsistent, LedsConsistent, UNCHANGED platform,
         program \in {"init", "initialising"}, program' = "initialising",
         UNCHANGED <<led, current>>, OthersAlone(led[current]),
         Alive(led[current])', object'[led[current]].copies = object[led[current]].copies
  PROVE  LedsConsistent'
  <1>1. /\ LedTypes /\ LedsAreTheObjects /\ GreenFirst
        /\ current \in Colours /\ led[current] # None /\ led[current] \in Objects
        /\ Alive(led[current])
        /\ \A c \in Colours \ {current} : led[c] # led[current]
    BY DEF LedsConsistent, LedTypes, LedsAreTheObjects, GreenFirst, Colours
  <1>2. \A p \in Objects \ {led[current]} :
          Alone(p) /\ object'[p] = object[p] /\ (Alive(p)' <=> Alive(p))
    BY DEF OthersAlone, Alone, Alive
  <1>3. LedTypes'
    BY <1>1 DEF LedTypes
  <1>4. LedsAreTheObjects'
    <2>1. \A c \in Colours : led[c] # None => Alive(led[c])'
      BY <1>1, <1>2 DEF LedTypes, LedsAreTheObjects, Alive
    <2>2. ASSUME NEW o \in Objects, Alive(o)'
          PROVE  /\ object'[o].copies = 1 /\ \E c \in Colours : led[c] = o
                 /\ object'[o].todo = Nothing \/ o = led[current]
      BY <1>1, <1>2, <2>2 DEF LedsAreTheObjects, InTheMiddle
    <2>3. QED
      BY <1>1, <2>1, <2>2 DEF LedsAreTheObjects, InTheMiddle, Alive
  <1>5. GreenFirst'
    <2>1. CASE current = "green"
      BY <1>1, <2>1 DEF GreenFirst
    <2>2. CASE current = "red"
      <3>1. /\ led["green"] # None /\ Usable("green") /\ "green" \in Colours
            /\ led["green"] \in Objects \ {led[current]}
        BY <1>1, <2>2 DEF GreenFirst, Colours, LedTypes
      <3>2. Usable("green")'
        BY <1>2, <3>1, LedAlone
      <3>3. QED
        BY <1>1, <2>2, <3>1, <3>2 DEF GreenFirst
    <2>3. QED
      BY <1>1, <2>1, <2>2 DEF Colours
  <1>6. CleanedUpSoFar'
    BY DEF CleanedUpSoFar
  <1>7. QED
    BY <1>3, <1>4, <1>5, <1>6 DEF LedsConsistent

(* Without a program the objects are used in any way. *)
LEMMA AbsentConsistent ==
  ASSUME LedsConsistent, program = "absent", UNCHANGED <<ledVars, platform>>
  PROVE  LedsConsistent'
  <1>1. UNCHANGED <<program, led, current>>
    BY DEF ledVars
  <1>2. LedTypes' /\ \A c \in Colours : led[c] = None
    BY <1>1 DEF LedsConsistent, LedTypes
  <1>3. led["green"] = None /\ led["red"] = None
    BY <1>2 DEF Colours
  <1>4. LedsAreTheObjects' /\ GreenFirst' /\ CleanedUpSoFar'
    BY <1>1, <1>2, <1>3 DEF LedsAreTheObjects, GreenFirst, CleanedUpSoFar
  <1>5. QED
    BY <1>2, <1>4 DEF LedsConsistent

(* Where the program goes without a call of the lines. *)
LEMMA QuietConsistent ==
  ASSUME LedsConsistent, UNCHANGED <<vars, led>>,
         LedInitialised \/ Caught \/ SignalHandler \/ Killed \/ CleanupThrows
         \/ (CleansUp /\ led[current] = None)
  PROVE  LedsConsistent'
  <1>1. /\ LedTypes /\ LedsAreTheObjects /\ GreenFirst /\ CleanedUpSoFar
        /\ current \in {"green", "red"} /\ Colours = {"green", "red"}
    BY DEF LedsConsistent, LedTypes, Colours
  <1>2. /\ UNCHANGED <<platform, object, holder, direction, led>>
        /\ \A p \in Objects : (Alive(p)' <=> Alive(p)) /\ Cell(p)' = Cell(p)
        /\ \A c \in Colours : (Usable(c)' <=> Usable(c)) /\ (Dark(c)' <=> Dark(c))
    BY DEF vars, Alive, Cell, Usable, Holds, Dark
  <1>3. program # "absent" /\ program' # "absent" /\ LedTypes'
    BY <1>1, <1>2 DEF LedInitialised, Caught, Throws, SignalHandler, Killed,
       CleanupThrows, CleansUp, CleanedUp, LedTypes, Colours
  <1>4. \/ program \notin {"initialising", "killed"}
        \/ Ready(led[current])
        \/ program' = "killed" /\ current' = current
    BY DEF LedInitialised, Caught, Throws, SignalHandler, Killed, CleanupThrows, CleansUp
  <1>5. LedsAreTheObjects'
    <2>1. ASSUME NEW o \in Objects, Alive(o)
          PROVE  object[o].todo = Nothing \/ InTheMiddle(o)'
      BY <1>1, <1>2, <1>3, <1>4, <2>1 DEF LedsAreTheObjects, InTheMiddle, Ready
    <2>2. \A c \in Colours : led[c] # None => Alive(led[c])
      BY <1>1 DEF LedsAreTheObjects
    <2>3. QED
      BY <1>1, <1>2, <1>3, <2>1, <2>2 DEF LedsAreTheObjects, Alive
  <1>6. GreenFirst' /\ CleanedUpSoFar'
    <2>1. CASE LedInitialised
      BY <1>1, <1>2, <2>1 DEF LedInitialised, GreenFirst, CleanedUpSoFar
    <2>2. CASE Caught
      BY <1>1, <1>2, <2>2 DEF Caught, Throws, GreenFirst, CleanedUpSoFar
    <2>3. CASE SignalHandler
      BY <1>1, <1>2, <2>3 DEF SignalHandler, GreenFirst, CleanedUpSoFar
    <2>4. CASE Killed
      BY <1>1, <1>2, <2>4 DEF Killed, GreenFirst, CleanedUpSoFar
    <2>5. CASE CleanupThrows
      BY <1>1, <1>2, <2>5 DEF CleanupThrows, GreenFirst, CleanedUpSoFar, Dark
    <2>6. CASE CleansUp /\ led[current] = None
      BY <1>1, <1>2, <2>6 DEF CleansUp, CleanedUp, GreenFirst, CleanedUpSoFar, Dark
    <2>7. QED
      BY <2>1, <2>2, <2>3, <2>4, <2>5, <2>6
  <1>7. QED
    BY <1>3, <1>5, <1>6 DEF LedsConsistent

(* Steps that leave the LEDs' objects and the holders of their lines as    *)
(* they are, and the directions of their lines while it counts.            *)
LEMMA LedsAloneConsistent ==
  ASSUME LedsConsistent, UNCHANGED <<ledVars, platform, object>>,
         \A c \in Colours : led[c] # None => (Usable(c)' <=> Usable(c)),
         direction' = direction \/ program \notin {"handler", "cleanup", "ended",
                                                 "terminated", "failed"}
  PROVE  LedsConsistent'
  <1>1. /\ LedTypes /\ LedsAreTheObjects /\ GreenFirst /\ CleanedUpSoFar
        /\ UNCHANGED <<program, led, current>> /\ Colours = {"green", "red"}
    BY DEF LedsConsistent, ledVars, Colours
  <1>2. \A p \in Objects : (Alive(p)' <=> Alive(p)) /\ Cell(p)' = Cell(p)
    BY DEF Alive, Cell
  <1>3. LedTypes' /\ LedsAreTheObjects' /\ GreenFirst'
    BY <1>1, <1>2 DEF LedTypes, LedsAreTheObjects, InTheMiddle, GreenFirst, Alive
  <1>4. \A c \in Colours : led[c] # None => Cell(led[c])' = Cell(led[c])
    BY <1>1, <1>2 DEF LedTypes
  <1>5. CleanedUpSoFar'
    BY <1>1, <1>4 DEF CleanedUpSoFar, Dark
  <1>6. QED
    BY <1>3, <1>5 DEF LedsConsistent

(* An LED that becomes an input is dark, and no other one lights up. *)
LEMMA CleansUpConsistent ==
  ASSUME LinesConsistent, LedsConsistent, CleansUp, led[current] # None
  PROVE  LedsConsistent'
  <1> DEFINE o == led[current]
  <1>1. /\ LedTypes /\ LedsAreTheObjects /\ GreenFirst /\ CleanedUpSoFar
        /\ current \in {"green", "red"} /\ Colours = {"green", "red"}
        /\ o \in Objects /\ program \in {"cleanup", "handler"} /\ Usable(current)
        /\ \A c \in Colours : led[c] # None => led[c] \in Objects /\ Alive(led[c])
    BY DEF LedsConsistent, LedTypes, LedsAreTheObjects, Colours, CleansUp
  <1>2. /\ SetDirection(o, "input") /\ led' = led /\ current' = "red"
        /\ program' = IF current = "green" THEN program ELSE "ended"
    BY DEF CleansUp, CleanedUp
  <1>3. /\ UNCHANGED <<platform, object, holder>>
        /\ \E v : Configure(o, "input", v)
    BY <1>2 DEF SetDirection, GpiodV1SetDirection, GpiodV2SetDirection,
       FreeBsdSetDirection, GpioMockSetDirection, Turn, host
  <1>4. Cell(o) \in Cells /\ GpioTypes
    BY <1>1, CellOf
  <1>5. /\ direction'[Cell(o)] = "input"
        /\ \A l \in Cells : direction'[l] \in {direction[l], "input"}
    BY <1>3, <1>4 DEF Configure, GpioTypes
  <1>6. /\ \A p \in Objects : (Alive(p)' <=> Alive(p)) /\ Cell(p)' = Cell(p)
        /\ \A c \in Colours : led[c] # None => (Usable(c)' <=> Usable(c))
    BY <1>1, <1>2, <1>3 DEF Alive, Cell, Usable, Holds
  <1>7. LedTypes'
    BY <1>1, <1>2, <1>3 DEF LedTypes
  <1>8. LedsAreTheObjects'
    BY <1>1, <1>2, <1>3, <1>6 DEF LedsAreTheObjects, InTheMiddle, Alive
  <1>9. GreenFirst'
    BY <1>1, <1>2, <1>6 DEF GreenFirst
  <1>10. ASSUME NEW c \in Colours, Dark(c) \/ c = current
         PROVE  Dark(c)'
    <2>1. ASSUME led[c] # None PROVE Cell(led[c]) \in Cells
      BY <1>1, <2>1, CellOf
    <2>2. led[c] # None => Cell(led[c])' = Cell(led[c])
      BY <1>1, <1>2, <1>6
    <2>3. CASE c = current
      BY <1>2, <1>5, <2>2, <2>3 DEF Dark
    <2>4. CASE Dark(c)
      BY <1>2, <1>5, <1>6, <2>1, <2>2, <2>4 DEF Dark
    <2>5. QED
      BY <1>10, <2>3, <2>4
  <1>11. CleanedUpSoFar'
    BY <1>1, <1>2, <1>10 DEF CleanedUpSoFar
  <1>12. QED
    BY <1>7, <1>8, <1>9, <1>11 DEF LedsConsistent

(* The end of an object leaves no line driven. *)
LEMMA ExitsConsistent ==
  ASSUME LinesConsistent, LedsConsistent, Exits
  PROVE  LedsConsistent'
  <1>1. PICK c \in Colours :
          /\ led[c] # None /\ led' = [led EXCEPT ![c] = None]
          /\ Drop(led[c]) \/ Vanishes(led[c])
    BY DEF Exits
  <1> DEFINE o == led[c]
  <1>2. /\ LedTypes /\ LedsAreTheObjects /\ CleanedUpSoFar /\ Colours = {"green", "red"}
        /\ program \in {"ended", "terminated", "failed", "killed"} /\ program' = program
        /\ current' = current /\ o \in Objects /\ Alive(o) /\ object[o].copies = 1
        /\ platform' = platform
        /\ led'[c] = None /\ led' \in [Colours -> Objects \cup {None}]
        /\ \A d \in Colours \ {c} : led'[d] = led[d] /\ (led[d] # None => led[d] # o)
    BY <1>1 DEF LedsConsistent, LedTypes, LedsAreTheObjects, Colours, Exits, Drop, Vanishes, host
  <1>3. object' = [object EXCEPT ![o] = None] /\ Release(o) /\ GpioTypes
    BY <1>1, <1>2, CellOf DEF Drop, Vanishes
  <1>4. /\ OthersAlone(o) /\ \A l \in Cells : direction'[l] \in {direction[l], "input"}
    BY <1>1, <1>2, <1>3, DropKeeps, VanishesKeeps, ReleaseOf
  <1>5. /\ object'[o] = None
        /\ \A p \in Objects \ {o} :
             Alone(p) /\ object'[p] = object[p] /\ (Alive(p)' <=> Alive(p))
    BY <1>2, <1>3, <1>4 DEF GpioTypes, OthersAlone, Alone, Alive
  <1>6. LedTypes'
    BY <1>2 DEF LedTypes
  <1>7. LedsAreTheObjects'
    <2>1. led'["green"] = led'["red"] => led'["green"] = None
      BY <1>2 DEF LedsAreTheObjects
    <2>2. ASSUME NEW d \in Colours, led'[d] # None PROVE object'[led'[d]] # None
      <3>1. /\ d # c /\ led'[d] = led[d] /\ led[d] \in Objects \ {o}
            /\ object[led[d]] # None
        BY <1>2, <2>2 DEF LedTypes, LedsAreTheObjects, Alive
      <3>2. QED
        BY <1>5, <3>1
    <2>3. ASSUME NEW p \in Objects, object'[p] # None
          PROVE  /\ object'[p].copies = 1
                 /\ object'[p].todo = Nothing \/ InTheMiddle(p)'
                 /\ \E d \in Colours : led'[d] = p
      <3>1. p # o /\ object'[p] = object[p] /\ Alive(p)
        BY <1>5, <2>3 DEF Alive
      <3>2. PICK d \in Colours : led[d] = p
        BY <1>2, <3>1 DEF LedsAreTheObjects
      <3>3. d # c /\ led'[d] = p
        BY <1>2, <3>1, <3>2
      <3>4. object[p].copies = 1 /\ (object[p].todo = Nothing \/ InTheMiddle(p))
        BY <1>2, <3>1 DEF LedsAreTheObjects
      <3>5. InTheMiddle(p) => InTheMiddle(p)'
        BY <1>2, <3>1 DEF InTheMiddle, LedTypes
      <3>6. QED
        BY <3>1, <3>3, <3>4, <3>5
    <2>4. QED
      BY <2>1, <2>2, <2>3 DEF LedsAreTheObjects, Alive
  <1>8. GreenFirst'
    BY <1>2 DEF GreenFirst
  <1>9. ASSUME NEW d \in Colours, Dark(d) PROVE Dark(d)'
    <2>1. CASE led'[d] = None
      BY <2>1 DEF Dark
    <2>2. CASE led'[d] # None
      <3>1. led'[d] = led[d] /\ led[d] \in Objects \ {o} /\ led[d] # None
        BY <1>2, <2>2 DEF LedTypes
      <3>2. /\ Cell(led[d])' = Cell(led[d]) /\ (Usable(d)' <=> Usable(d))
            /\ Cell(led[d]) \in Cells
        BY <1>2, <1>5, <3>1, LedAlone
      <3>3. Dark(d)
        BY <1>9
      <3>4. direction'[Cell(led[d])] \in {direction[Cell(led[d])], "input"}
        BY <1>4, <3>2
      <3>5. QED
        BY <3>1, <3>2, <3>3, <3>4 DEF Dark
    <2>3. QED
      BY <2>1, <2>2
  <1>10. CleanedUpSoFar'
    BY <1>2, <1>9 DEF CleanedUpSoFar
  <1>11. QED
    BY <1>6, <1>7, <1>8, <1>10 DEF LedsConsistent

(* Every step of the program preserves the invariant. *)
LEMMA StepLedsConsistent ==
  LinesConsistent /\ LedsConsistent /\ [LedsNext]_<<vars, ledVars>> => LedsConsistent'
  <1> SUFFICES ASSUME LinesConsistent, LedsConsistent, [LedsNext]_<<vars, ledVars>>
               PROVE  LedsConsistent'
    OBVIOUS
  <1>1. /\ \A c \in Colours : led[c] # None => led[c] \in Objects /\ Alive(led[c])
        /\ current \in Colours
        /\ program \in {"init", "initialising"} =>
             /\ led[current] # None /\ led[current] \in Objects
             /\ Alive(led[current])
        /\ platform # "mock" \/ program = "absent"
    BY DEF LedsConsistent, LedTypes, LedsAreTheObjects, GreenFirst
  <1>2. CASE InitialisesLed
    <2> DEFINE o == led[current]
    <2>1. PICK v \in Values : Initialise(o, "output", v)
      BY <1>2 DEF InitialisesLed, InitialValue, Values
    <2>2. /\ program = "init" /\ program' = "initialising"
          /\ UNCHANGED <<led, current>> /\ "output" \in Directions
          /\ o \in Objects /\ Alive(o) /\ platform' = platform /\ platform # "mock"
      BY <1>1, <1>2, <2>1 DEF InitialisesLed, Initialise, host, Directions
    <2>3. OthersAlone(o)
      BY <2>1, <2>2, InitialiseKeeps
    <2>4. object' = object \/ \E d \in LeftToDo : object' = [object EXCEPT ![o].todo = d]
      <3>1. Nothing \in LeftToDo
        BY DEF Nothing, LeftToDo
      <3>2. QED
        BY <2>1, <2>2, <3>1, WaysLeft
           DEF Initialise, InitReleases, GpiodV2Init, InitDirects, GpioMockInit
    <2>5. Alive(o)' /\ object'[o].copies = object[o].copies
      <3>1. CASE object' = object
        BY <2>2, <3>1 DEF Alive
      <3>2. CASE \E d \in LeftToDo : object' = [object EXCEPT ![o].todo = d]
        <4>1. PICK d \in LeftToDo : object' = [object EXCEPT ![o].todo = d]
          BY <3>2
        <4>2. object'[o] # None /\ object'[o].copies = object[o].copies
          BY <2>2, <4>1, LeavesToDo DEF Alive
        <4>3. QED
          BY <2>2, <4>2 DEF Alive
      <3>3. QED
        BY <2>4, <3>1, <3>2
    <2>6. QED
      BY <2>2, <2>3, <2>5, InitialisingConsistent
  <1>3. ASSUME NEW o \in Objects, Continue(o), UNCHANGED ledVars,
               program \in {"absent", "initialising"}
        PROVE  LedsConsistent'
    <2>1. /\ UNCHANGED <<program, led, current, platform>> /\ Alive(o)
          /\ object[o].todo # Nothing
      BY <1>3 DEF ledVars, Continue, InitRequests, InitSets, host, Nothing
    <2>2. CASE program = "absent"
      BY <1>3, <2>1, <2>2, AbsentConsistent
    <2>3. CASE program # "absent"
      <3>1. program = "initialising" /\ o = led[current]
        BY <1>3, <2>1, <2>3 DEF LedsConsistent, LedsAreTheObjects, InTheMiddle
      <3>2. OthersAlone(o)
        BY <1>3, ContinueKeeps
      <3>3. PICK d \in LeftToDo : object' = [object EXCEPT ![o].todo = d]
        <4>1. Nothing \in LeftToDo /\ object[o].todo \in LeftToDo
          BY <2>1, CellOf DEF Nothing, LeftToDo, DriverObject
        <4>2. object[o].todo.op = "request" => object[o].todo.value \in Values
          BY <4>1 DEF LeftToDo
        <4>3. "output" \in Directions
          BY DEF Directions
        <4>4. QED
          BY <1>3, <4>1, <4>2, <4>3, WaysLeft DEF Continue, InitRequests, InitSets
      <3>4. Alive(o)' /\ object'[o].copies = object[o].copies
        BY <2>1, <3>3, LeavesToDo
      <3>5. Alive(led[current])' /\ object'[led[current]].copies = object[led[current]].copies
        BY <2>1, <3>1, <3>4 DEF Alive
      <3>6. QED
        BY <2>1, <3>1, <3>2, <3>5, InitialisingConsistent
    <2>4. QED
      BY <2>2, <2>3
  <1>4. CASE SetsLed
    <2>1. PICK c \in Colours, v \in Values : led[c] # None /\ SetValue(led[c], v)
      BY <1>4 DEF SetsLed
    <2>2. /\ UNCHANGED <<ledVars, platform, object, holder>> /\ program = "run"
          /\ UNCHANGED led
      BY <1>4, <2>1 DEF SetsLed, SetValue, host, ledVars
    <2>3. \A d \in Colours : led[d] # None => (Usable(d)' <=> Usable(d))
      BY <2>2 DEF Usable, Holds, Cell
    <2>4. QED
      BY <2>2, <2>3, LedsAloneConsistent
  <1>5. CASE program = "absent" /\ (\E o \in Objects : Use(o)) /\ UNCHANGED ledVars
    <2>1. platform' = platform
      BY <1>5 DEF Use, Construct, Copy, Drop, Vanishes, Initialise, SetDirection, SetValue,
         SetInputValue, host
    <2>2. QED
      BY <1>5, <2>1, AbsentConsistent
  <1>6. CASE (Environment \/ UNCHANGED vars) /\ UNCHANGED ledVars
    <2>1. UNCHANGED <<platform, object, direction, led>>
      BY <1>6 DEF Environment, GetResolver, OtherProcess, Plug, gpioVars, vars,
         host, ledVars
    <2>2. \A o \in Objects : Alone(o)
      BY <1>6, EnvironmentKeeps
    <2>3. \A d \in Colours : led[d] # None => (Usable(d)' <=> Usable(d))
      BY <1>1, <2>1, <2>2, LedAlone
    <2>4. QED
      BY <1>6, <2>1, <2>3, LedsAloneConsistent
  <1>7. CASE LedInitialised \/ Caught \/ SignalHandler \/ Killed \/ CleanupThrows
             \/ (CleansUp /\ led[current] = None)
    <2>1. UNCHANGED <<vars, led>>
      BY <1>7 DEF LedInitialised, Caught, Throws, SignalHandler, Killed,
         CleanupThrows, CleansUp, CleanedUp
    <2>2. QED
      BY <1>7, <2>1, QuietConsistent
  <1>8. CASE CleansUp /\ led[current] # None
    BY <1>8, CleansUpConsistent
  <1>9. QED
    BY <1>2, <1>3, <1>4, <1>5, <1>6, <1>7, <1>8, ConstructsLedConsistent,
       ExitsConsistent
       DEF LedsNext, LedsStep
-----------------------------------------------------------------------------
(* The program does nothing with the lines that a program may not do. *)
THEOREM ProgramUsesLines == LedsSpec => Spec
  <1>1. LedsInit => Init
    BY DEF LedsInit
  <1>2. LinesConsistent /\ LedsConsistent /\ [LedsNext]_<<vars, ledVars>>
          => LinesConsistent' /\ LedsConsistent' /\ [Next]_vars
    BY StepOfLines, StepKeepsLines, StepLedsConsistent
  <1>3. LedsInit => LinesConsistent /\ LedsConsistent
    BY <1>1, InitLinesConsistent, InitLedsConsistent
  <1>4. QED
    BY <1>1, <1>2, <1>3, PTL DEF LedsSpec, Spec

(* gpioCleanup(): a program that an exception or a handled signal ends     *)
(* leaves no line behind that drives an LED, wherever it meets them; if a  *)
(* driver fails in it, the LEDs before that one are dark.                  *)
THEOREM CleanupCorrectness == LedsSpec => []LedsAreSafe
  <1>1. LedsInit => LinesConsistent /\ LedsConsistent
    BY InitLinesConsistent, InitLedsConsistent DEF LedsInit
  <1>2. LinesConsistent /\ LedsConsistent /\ [LedsNext]_<<vars, ledVars>>
          => LinesConsistent' /\ LedsConsistent'
    BY StepOfLines, StepKeepsLines, StepLedsConsistent
  <1>3. LedsConsistent => LedsAreSafe
    BY DEF LedsConsistent, CleanedUpSoFar, Dark, LedsAreSafe
  <1>4. QED
    BY <1>1, <1>2, <1>3, PTL DEF LedsSpec
-----------------------------------------------------------------------------
(***************************************************************************)
(* The map of the resolver.  It is built in a loop over the chips, so what *)
(* holds of it is proved by induction, over a set of numbers as no theorem *)
(* with an operator as its parameter can be used.                          *)
(***************************************************************************)

(* A set that holds 0, and with a number the next, holds all of them. *)
LEMMA NatSetInduction ==
  ASSUME NEW S, 0 \in S, \A n \in Nat : n \in S => n + 1 \in S
  PROVE  Nat \subseteq S
  <1> DEFINE T == Nat \ S
  <1>1. SUFFICES ASSUME T # {} PROVE FALSE
    OBVIOUS
  <1>2. PICK x \in T : \A y \in T : ~ (<<y, x>> \in OpToRel(<, Nat))
    <2>1. T \subseteq Nat
      OBVIOUS
    <2> HIDE DEF T
    <2>2. QED
      BY <1>1, <2>1, NatLessThanWellFounded, WFMin
  <1>3. x \in Nat /\ x # 0
    OBVIOUS
  <1>4. x - 1 \in Nat /\ x - 1 < x /\ (x - 1) + 1 = x
    BY <1>3
  <1>5. <<x - 1, x>> \in OpToRel(<, Nat)
    BY <1>3, <1>4 DEF OpToRel
  <1>6. x - 1 \in S
    BY <1>2, <1>4, <1>5
  <1>7. QED
    BY <1>3, <1>4, <1>6

(* The values of a loop of N steps. *)
Loops(D, first, step, N) ==
  {f \in [0..N -> D] : f[0] = first /\ \A n \in 1..N : f[n] = step[n][f[n - 1]]}

(* There are some. *)
LEMMA LoopExists ==
  ASSUME NEW D, NEW first \in D, NEW step \in [Nat -> [D -> D]], NEW N \in Nat
  PROVE  Loops(D, first, step, N) # {}
  <1> DEFINE P(m) == Loops(D, first, step, m) # {}
             S == {m \in Nat : P(m)}
  <1>1. 0 \in S
    <2> DEFINE f == [n \in 0..0 |-> first]
    <2>1. /\ f \in [0..0 -> D] /\ f[0] = first
          /\ \A n \in 1..0 : f[n] = step[n][f[n - 1]]
      OBVIOUS
    <2>2. QED
      BY <2>1 DEF Loops
  <1>2. ASSUME NEW m \in Nat, m \in S PROVE m + 1 \in S
    <2>1. PICK f \in [0..m -> D] :
            f[0] = first /\ \A n \in 1..m : f[n] = step[n][f[n - 1]]
      BY <1>2 DEF Loops
    <2> DEFINE g == [n \in 0..(m + 1) |->
                       IF n = m + 1 THEN step[n][f[n - 1]] ELSE f[n]]
    <2>2. step[m + 1][f[m]] \in D
      OBVIOUS
    <2>3. g \in [0..(m + 1) -> D]
      BY <2>2
    <2>4. g[0] = first
      BY <2>1
    <2>5. ASSUME NEW n \in 1..(m + 1) PROVE g[n] = step[n][g[n - 1]]
      BY <2>1
    <2>6. P(m + 1)
      <3> HIDE DEF g
      <3>1. QED
        BY <2>3, <2>4, <2>5 DEF Loops
    <2>7. QED
      BY <2>6
  <1>3. Nat \subseteq S
    <2> HIDE DEF S
    <2>1. QED
      BY <1>1, <1>2, NatSetInduction
  <1>4. QED
    BY <1>3

(* The lines of a chip, in order. *)
LEMMA LinesOfChip ==
  ASSUME NEW c \in Chips
  PROVE  /\ NumLines[c] \in Nat
         /\ LinesOf(c) \in Seq(Lines) /\ Len(LinesOf(c)) = NumLines[c]
         /\ \A n \in 1..NumLines[c] : LinesOf(c)[n] = <<c, n - 1>>
  <1>1. NumLines[c] \in Nat
    BY GpioResolverAssumption
  <1>2. \A n \in 1..NumLines[c] : <<c, n - 1>> \in Lines
    BY <1>1 DEF Lines
  <1>3. LinesOf(c) \in [1..NumLines[c] -> Lines]
    BY <1>2 DEF LinesOf
  <1>4. LinesOf(c) \in Seq(Lines) /\ Len(LinesOf(c)) = NumLines[c]
    BY <1>1, <1>3
  <1>5. QED
    BY <1>1, <1>4 DEF LinesOf

(* An order holds every chip that is there, once. *)
LEMMA OrderOfChips ==
  ASSUME NEW order \in InOrder
  PROVE  /\ order \in Seq(Chips)
         /\ Len(order) \in Nat
         /\ \A i \in 1..Len(order) : order[i] \in Present /\ order[i] \in Chips
         /\ \A i, j \in 1..Len(order) : order[i] = order[j] => i = j
         /\ \A c \in Present : \E i \in 1..Len(order) : order[i] = c
  <1> DEFINE N == Cardinality(Present)
  <1>1. Present \subseteq Chips
    BY DEF Present
  <1>2. IsFiniteSet(Present) /\ N \in Nat
    BY <1>1, GpioResolverAssumption, FS_Subset, FS_CardinalityType
  <1>3. /\ order \in [1..N -> Present]
        /\ \A i, j \in 1..N : i # j => order[i] # order[j]
    BY DEF InOrder, SetToSeqs
  <1> HIDE DEF N
  <1>4. order \in [1..N -> Chips]
    BY <1>1, <1>3
  <1>5. order \in Seq(Chips) /\ Len(order) = N
    BY <1>2, <1>4
  <1>6. \A c \in Present : \E i \in 1..N : order[i] = c
    <2>1. order \in Injection(1..N, Present)
      BY <1>3 DEF Injection, IsInjective
    <2>2. IsFiniteSet(1..N) /\ Cardinality(1..N) = N
      BY <1>2, FS_Interval
    <2>3. order \in Surjection(1..N, Present)
      BY <1>2, <2>1, <2>2, FS_Injection DEF N
    <2>4. QED
      BY <2>3 DEF Surjection
  <1>7. QED
    BY <1>1, <1>2, <1>3, <1>5, <1>6

(* What the loop has done after n chips.  It goes over the chips of an     *)
(* order in turn, so that all pins of one chip are before those of the     *)
(* next, and those of a chip are in the order of its lines.                *)
ChipOf(map, p)   == map[p][1]
OffsetOf(map, p) == map[p][2]

OfFirst(map, order, n) ==
  \A p \in 1..Len(map) : \E i \in 1..n :
    ChipOf(map, p) = order[i] /\ chips[order[i]] = "good"

Before(map, order, p, q) ==
  \A i, j \in 1..Len(order) :
    ChipOf(map, p) = order[i] /\ ChipOf(map, q) = order[j] =>
      i < j \/ (i = j /\ OffsetOf(map, p) < OffsetOf(map, q))

InTurn(map, order) ==
  \A p, q \in 1..Len(map) : p < q => Before(map, order, p, q)

HasPin(map, c, n) == \E p \in 1..Len(map) : map[p] = <<c, n>>

HasPins(map, c) == \A n \in 0..NumLines[c] - 1 : HasPin(map, c, n)

AllOfFirst(map, order, n) ==
  \A i \in 1..n : chips[order[i]] = "good" => HasPins(map, order[i])

MapOfFirst(map, order, n) ==
  /\ map \in Seq(Lines)
  /\ OfFirst(map, order, n) /\ InTurn(map, order) /\ AllOfFirst(map, order, n)

(* One more chip, which can be opened. *)
LEMMA NextChip ==
  ASSUME NEW order \in InOrder, NEW n \in Nat, n + 1 \in 1..Len(order),
         NEW map, MapOfFirst(map, order, n), chips[order[n + 1]] = "good"
  PROVE  MapOfFirst(map \o LinesOf(order[n + 1]), order, n + 1)
  <1> DEFINE c == order[n + 1]
             L == Len(map)
             K == NumLines[c]
             all == map \o LinesOf(c)
  <1>1. /\ Len(order) \in Nat /\ c \in Chips
        /\ \A i, j \in 1..Len(order) : order[i] = order[j] => i = j
    BY OrderOfChips
  <1>2. /\ map \in Seq(Lines) /\ L \in Nat
        /\ OfFirst(map, order, n) /\ InTurn(map, order) /\ AllOfFirst(map, order, n)
    BY LenProperties DEF MapOfFirst
  <1> HIDE DEF c
  <1>3. /\ K \in Nat
        /\ LinesOf(c) \in Seq(Lines) /\ Len(LinesOf(c)) = K
        /\ \A k \in 1..K : LinesOf(c)[k] = <<c, k - 1>>
    BY <1>1, LinesOfChip
  <1>4. /\ all \in Seq(Lines) /\ Len(all) = L + K
        /\ \A p \in 1..(L + K) :
             all[p] = IF p <= L THEN map[p] ELSE LinesOf(c)[p - L]
    <2> DEFINE lines == LinesOf(c)
    <2>1. lines \in Seq(Lines) /\ Len(lines) = K /\ map \in Seq(Lines)
      BY <1>2, <1>3
    <2> HIDE DEF lines, K
    <2>2. /\ map \o lines \in Seq(Lines) /\ Len(map \o lines) = L + K
          /\ \A p \in 1..(L + K) :
               (map \o lines)[p] = IF p <= L THEN map[p] ELSE lines[p - L]
      BY <2>1, ConcatProperties
    <2>3. QED
      BY <2>2 DEF lines
  <1> HIDE DEF all, L, K
  <1>5. \A p \in 1..L : p \in 1..(L + K) /\ all[p] = map[p]
    BY <1>2, <1>3, <1>4
  <1>6. \A p \in 1..(L + K) : p \notin 1..L => all[p] = <<c, p - L - 1>>
    <2>1. SUFFICES ASSUME NEW p \in 1..(L + K), p \notin 1..L
                   PROVE  all[p] = <<c, p - L - 1>>
      OBVIOUS
    <2>2. p - L \in 1..K /\ ~(p <= L)
      BY <1>2, <1>3, <2>1
    <2>3. QED
      BY <1>3, <1>4, <2>2
  <1>7. OfFirst(all, order, n + 1)
    <2>1. SUFFICES ASSUME NEW p \in 1..(L + K)
                   PROVE  \E i \in 1..(n + 1) : /\ ChipOf(all, p) = order[i]
                                                /\ chips[order[i]] = "good"
      BY <1>4 DEF OfFirst
    <2>2. CASE p \in 1..L
      <3>1. PICK i \in 1..n : ChipOf(map, p) = order[i] /\ chips[order[i]] = "good"
        BY <1>2, <2>2 DEF OfFirst, L
      <3>2. i \in 1..(n + 1) /\ ChipOf(all, p) = order[i]
        BY <1>5, <2>2, <3>1 DEF ChipOf
      <3>3. QED
        BY <3>1, <3>2
    <2>3. CASE p \notin 1..L
      <3>1. ChipOf(all, p) = order[n + 1]
        BY <1>6, <2>3 DEF ChipOf, c
      <3>2. QED
        BY <3>1
    <2>4. QED
      BY <2>2, <2>3
  <1>8. InTurn(all, order)
    <2>1. SUFFICES ASSUME NEW p \in 1..(L + K), NEW q \in 1..(L + K), p < q,
                          NEW i \in 1..Len(order), NEW j \in 1..Len(order),
                          ChipOf(all, p) = order[i], ChipOf(all, q) = order[j]
                   PROVE  \/ i < j
                          \/ i = j /\ OffsetOf(all, p) < OffsetOf(all, q)
      BY <1>4 DEF InTurn, Before
    <2>2. CASE q \in 1..L
      <3>1. p \in 1..L
        BY <1>2, <2>1, <2>2
      <3>2. all[p] = map[p] /\ all[q] = map[q]
        BY <1>5, <2>2, <3>1
      <3>3. Before(map, order, p, q)
        BY <1>2, <2>1, <2>2, <3>1 DEF InTurn, L
      <3>4. QED
        BY <2>1, <3>2, <3>3 DEF Before, ChipOf, OffsetOf
    <2>3. CASE q \notin 1..L /\ p \in 1..L
      <3>1. j = n + 1
        BY <1>1, <1>6, <2>1, <2>3 DEF ChipOf, c
      <3>2. PICK k \in 1..n : ChipOf(map, p) = order[k]
        BY <1>2, <2>3 DEF OfFirst, L
      <3>3. order[i] = order[k]
        BY <1>5, <2>1, <2>3, <3>2 DEF ChipOf
      <3>4. k \in 1..Len(order)
        BY <1>1
      <3>5. i = k
        BY <1>1, <3>3, <3>4
      <3>6. QED
        BY <3>1, <3>5
    <2>4. CASE q \notin 1..L /\ p \notin 1..L
      <3>1. all[p] = <<c, p - L - 1>> /\ all[q] = <<c, q - L - 1>>
        BY <1>6, <2>4
      <3>2. i = j
        BY <1>1, <2>1, <3>1 DEF ChipOf
      <3>3. p - L - 1 < q - L - 1
        BY <1>2, <2>1
      <3>4. QED
        BY <3>1, <3>2, <3>3 DEF OffsetOf
    <2>5. QED
      BY <2>2, <2>3, <2>4
  <1>9. AllOfFirst(all, order, n + 1)
    <2>1. SUFFICES ASSUME NEW i \in 1..(n + 1), chips[order[i]] = "good",
                          NEW k \in 0..NumLines[order[i]] - 1
                   PROVE  HasPin(all, order[i], k)
      BY DEF AllOfFirst, HasPins
    <2>2. CASE i \in 1..n
      <3>1. HasPin(map, order[i], k)
        BY <1>2, <2>1, <2>2 DEF AllOfFirst, HasPins
      <3>2. PICK p \in 1..L : map[p] = <<order[i], k>>
        BY <3>1 DEF HasPin, L
      <3>3. QED
        BY <1>4, <1>5, <3>2 DEF HasPin
    <2>3. CASE i = n + 1
      <3>1. order[i] = c /\ k \in 0..K - 1
        BY <2>1, <2>3 DEF c, K
      <3>2. /\ L + k + 1 \in 1..(L + K) /\ L + k + 1 \notin 1..L
            /\ (L + k + 1) - L - 1 = k
        BY <1>2, <1>3, <3>1
      <3>3. all[L + k + 1] = <<c, k>>
        BY <1>6, <3>2
      <3>4. QED
        BY <1>4, <3>1, <3>2, <3>3 DEF HasPin
    <2>4. QED
      BY <2>2, <2>3
  <1>10. QED
    BY <1>4, <1>7, <1>8, <1>9 DEF MapOfFirst, all, c

(* The map of an order: all lines of the chips that can be opened. *)
LEMMA MapOfOrder ==
  ASSUME NEW order \in InOrder
  PROVE  MapOfFirst(GetGpioMap(order), order, Len(order))
  <1> DEFINE N == Len(order)
             good(n) == chips[order[n]] = "good"
             Is(f) == f = [n \in 0..N |->
                             IF n = 0 THEN <<>>
                             ELSE IF good(n) THEN f[n - 1] \o LinesOf(order[n])
                             ELSE f[n - 1]]
             All == Seq(Lines)
             none == <<>>
             step == [n \in Nat |-> [map \in All |->
                        IF n \in 1..N /\ good(n) THEN map \o LinesOf(order[n])
                        ELSE map]]
  <1>1. N \in Nat /\ \A n \in 1..N : order[n] \in Chips
    BY OrderOfChips
  <1>2. \A n \in 1..N : LinesOf(order[n]) \in All
    BY <1>1, LinesOfChip
  <1>3. \A map, lines \in All : map \o lines \in All
    BY ConcatProperties
  <1>4. none \in All
    BY EmptySeq
  <1> HIDE DEF N, good, All, none
  <1>5. step \in [Nat -> [All -> All]]
    BY <1>2, <1>3
  <1>6. PICK f : f \in Loops(All, none, step, N)
    <2> HIDE DEF step
    <2>1. QED
      BY <1>1, <1>4, <1>5, LoopExists
  <1>7. /\ f \in [0..N -> All] /\ f[0] = none
        /\ \A n \in 1..N : f[n] = step[n][f[n - 1]]
    <2> HIDE DEF step
    <2>1. QED
      BY <1>6 DEF Loops
  <1>8. \A n \in 1..N : f[n] = IF good(n) THEN f[n - 1] \o LinesOf(order[n])
                               ELSE f[n - 1]
    <2>1. \A n \in 1..N : n \in Nat /\ n - 1 \in 0..N
      BY <1>1
    <2>2. \A n \in 1..N : f[n - 1] \in All
      BY <1>7, <2>1
    <2>3. QED
      BY <1>7, <2>1, <2>2
  <1> HIDE DEF step
  <1>9. Is(f)
    <2>1. \A n \in 0..N : n # 0 => n \in 1..N
      BY <1>1
    <2>2. QED
      BY <1>7, <1>8, <2>1 DEF none
  <1> DEFINE g == CHOOSE g : Is(g)
  <1>10. Is(g)
    <2> HIDE DEF Is
    <2>1. QED
      BY <1>9, Zenon
  <1>11. GetGpioMap(order) = g[N]
    BY DEF GetGpioMap, N, good
  <1> HIDE DEF g
  <1>12. g[0] = none
    BY <1>1, <1>10 DEF none
  <1>13. ASSUME NEW n \in 1..N
         PROVE  g[n] = IF good(n) THEN g[n - 1] \o LinesOf(order[n]) ELSE g[n - 1]
    <2>1. n \in 0..N /\ n # 0
      BY <1>1
    <2>2. QED
      BY <1>10, <2>1
  <1> HIDE DEF Is
  <1> DEFINE S == {n \in Nat : n <= N => MapOfFirst(g[n], order, n)}
  <1>14. 0 \in S
    <2>1. none \in Seq(Lines) /\ Len(none) = 0
      BY EmptySeq DEF none
    <2>2. MapOfFirst(none, order, 0)
      BY <2>1 DEF MapOfFirst, OfFirst, InTurn, AllOfFirst
    <2>3. QED
      BY <1>12, <2>2
  <1>15. ASSUME NEW n \in Nat, n \in S PROVE n + 1 \in S
    <2>1. SUFFICES ASSUME n + 1 <= N PROVE MapOfFirst(g[n + 1], order, n + 1)
      OBVIOUS
    <2>2. n + 1 \in 1..N /\ (n + 1) - 1 = n /\ MapOfFirst(g[n], order, n)
      BY <1>1, <1>15, <2>1
    <2>3. CASE good(n + 1)
      <3>1. g[n + 1] = g[n] \o LinesOf(order[n + 1])
        BY <1>13, <2>2, <2>3
      <3>2. MapOfFirst(g[n] \o LinesOf(order[n + 1]), order, n + 1)
        BY <2>2, <2>3, NextChip DEF good, N
      <3>3. QED
        BY <3>1, <3>2
    <2>4. CASE ~good(n + 1)
      <3>1. g[n + 1] = g[n]
        BY <1>13, <2>2, <2>4
      <3>2. MapOfFirst(g[n], order, n + 1)
        <4>1. \A i \in 1..n : i \in 1..(n + 1)
          OBVIOUS
        <4>2. \A i \in 1..(n + 1) : i \in 1..n \/ i = n + 1
          OBVIOUS
        <4>3. OfFirst(g[n], order, n + 1)
          BY <2>2, <4>1 DEF MapOfFirst, OfFirst
        <4>4. AllOfFirst(g[n], order, n + 1)
          BY <2>2, <2>4, <4>2 DEF MapOfFirst, AllOfFirst, good
        <4>5. QED
          BY <2>2, <4>3, <4>4 DEF MapOfFirst
      <3>3. QED
        BY <3>1, <3>2
    <2>5. QED
      BY <2>3, <2>4
  <1>16. Nat \subseteq S
    <2> HIDE DEF S
    <2>1. QED
      BY <1>14, <1>15, NatSetInduction
  <1>17. MapOfFirst(g[N], order, N)
    BY <1>1, <1>16
  <1>18. QED
    BY <1>11, <1>17 DEF N

(* Every line of a chip that can be opened has one pin, and nothing else   *)
(* has a pin.                                                              *)
OnePinEach(map) ==
  /\ \A p \in DOMAIN map : map[p] \in Lines /\ chips[map[p][1]] = "good"
  /\ \A p, q \in DOMAIN map : map[p] = map[q] => p = q
  /\ \A l \in Lines : chips[l[1]] = "good" => \E p \in DOMAIN map : map[p] = l

(* The resolver numbers the lines of all chips that can be opened when the *)
(* map is built, and with libgpiod 2 in the order of the chips' numbers.   *)
THEOREM ResolverNumbersLines ==
  ASSUME GetResolver, chips \in [Chips -> {"absent", "good", "failing"}]
  PROVE  gpioMap' \in Seq(Lines) /\ OnePinEach(gpioMap') /\ NumericOrder'
  <1>1. PICK order \in InOrder : gpioMap' = GetGpioMap(order)
    BY DEF GetResolver
  <1> DEFINE map == gpioMap'
             N == Len(order)
  <1>2. /\ map \in Seq(Lines)
        /\ OfFirst(map, order, N) /\ InTurn(map, order) /\ AllOfFirst(map, order, N)
    BY <1>1, MapOfOrder DEF MapOfFirst
  <1>3. /\ N \in Nat /\ \A i \in 1..N : order[i] \in Chips
        /\ \A c \in Present : \E i \in 1..N : order[i] = c
    BY OrderOfChips
  <1> HIDE DEF map
  <1>4. Len(map) \in Nat /\ DOMAIN map = 1..Len(map)
    BY <1>2, LenProperties
  <1> HIDE DEF N
  <1>5. \A p \in 1..Len(map) : \E i \in 1..N : /\ map[p][1] = order[i]
                                               /\ chips[order[i]] = "good"
    BY <1>2 DEF OfFirst, ChipOf
  <1>6. \A p, q \in 1..Len(map), i, j \in 1..N :
          p < q /\ map[p][1] = order[i] /\ map[q][1] = order[j] =>
            i < j \/ (i = j /\ map[p][2] < map[q][2])
    BY <1>2 DEF InTurn, Before, ChipOf, OffsetOf, N
  <1>7. \A p \in 1..Len(map) : map[p] \in Lines
    BY <1>2, ElementOfSeq
  <1>8. \A l \in Lines : /\ l[1] \in Chips /\ l[2] \in 0..NumLines[l[1]] - 1
                         /\ l = <<l[1], l[2]>>
    BY DEF Lines
  <1>9. OnePinEach(map)
    <2>1. \A p \in DOMAIN map : map[p] \in Lines /\ chips[map[p][1]] = "good"
      BY <1>4, <1>5, <1>7
    <2>2. ASSUME NEW p \in 1..Len(map), NEW q \in 1..Len(map), p < q
          PROVE  map[p] # map[q]
      <3>1. PICK i \in 1..N : map[p][1] = order[i]
        BY <1>5
      <3>2. SUFFICES ASSUME map[p] = map[q] PROVE FALSE
        OBVIOUS
      <3>3. map[q][1] = order[i] /\ ~(i < i)
        BY <1>3, <3>1, <3>2
      <3>4. map[p][2] < map[q][2]
        BY <1>6, <2>2, <3>1, <3>3
      <3>5. map[q][2] < map[q][2] /\ map[q][2] \in 0..NumLines[map[q][1]] - 1
        BY <1>7, <1>8, <3>2, <3>4
      <3>6. QED
        BY <3>5
    <2>3. \A p, q \in DOMAIN map : map[p] = map[q] => p = q
      BY <1>4, <2>2
    <2>4. ASSUME NEW l \in Lines, chips[l[1]] = "good"
          PROVE  \E p \in DOMAIN map : map[p] = l
      <3>1. l[1] \in Present
        BY <1>8, <2>4 DEF Present
      <3>2. PICK i \in 1..N : order[i] = l[1]
        BY <1>3, <3>1
      <3>3. HasPins(map, l[1])
        BY <1>2, <2>4, <3>2 DEF AllOfFirst
      <3>4. HasPin(map, l[1], l[2])
        BY <1>8, <3>3 DEF HasPins
      <3>5. QED
        BY <1>4, <1>8, <3>4 DEF HasPin
    <2>5. QED
      BY <2>1, <2>3, <2>4 DEF OnePinEach
  <1>10. NumericOrder'
    <2>1. SUFFICES ASSUME platform' = "gpiod2",
                          NEW p \in 1..Len(map), NEW q \in 1..Len(map), p < q
                   PROVE  Ordinal[map[p][1]] <= Ordinal[map[q][1]]
      BY <1>4 DEF NumericOrder, map
    <2>2. PICK i, j \in 1..N : map[p][1] = order[i] /\ map[q][1] = order[j]
      BY <1>5
    <2>3. i < j \/ i = j
      BY <1>6, <2>1, <2>2
    <2>4. i < j => Ordinal[order[i]] < Ordinal[order[j]]
      <3>1. platform = "gpiod2"
        BY <2>1 DEF GetResolver
      <3>2. DOMAIN order = 1..N
        BY OrderOfChips, LenProperties DEF N
      <3>3. QED
        BY <3>1, <3>2 DEF InOrder, Ascending
    <2>5. Ordinal[order[i]] \in Nat /\ Ordinal[order[j]] \in Nat
      BY <1>3, GpioResolverAssumption
    <2>6. QED
      BY <2>2, <2>3, <2>4, <2>5
  <1>11. QED
    BY <1>2, <1>9, <1>10 DEF map

(* The types of the host's part of the state. *)
HostTypes ==
  /\ chips \in [Chips -> {"absent", "good", "failing"}]
  /\ gpioMap # None => gpioMap \in Seq(Lines)
  /\ NumericOrder

(* Nothing but the resolver changes the map. *)
LEMMA StepKeepsHostTypes ==
  ASSUME HostTypes, LinesConsistent, [Next]_vars
  PROVE  HostTypes'
  <1>1. CASE UNCHANGED <<platform, chips, gpioMap>>
    BY <1>1 DEF HostTypes, NumericOrder
  <1>2. CASE GetResolver
    BY <1>2, ResolverNumbersLines DEF HostTypes, GetResolver
  <1>3. ASSUME NEW c \in Chips, Plug(c) PROVE HostTypes'
    <2>1. chips' \in [Chips -> {"absent", "good", "failing"}]
      BY <1>3 DEF Plug, HostTypes
    <2>2. QED
      BY <1>3, <2>1 DEF Plug, HostTypes, NumericOrder
  <1>4. ASSUME NEW o \in Objects, Use(o) \/ Continue(o)
        PROVE  UNCHANGED <<platform, chips, gpioMap>>
    BY <1>4 DEF Use, Continue, Construct, Copy, Drop, Vanishes, Initialise, SetDirection,
       SetValue, SetInputValue, InitRequests, InitSets, host
  <1>5. ASSUME NEW l \in Lines, OtherProcess(l)
        PROVE  UNCHANGED <<platform, chips, gpioMap>>
    BY <1>5 DEF OtherProcess, host
  <1>6. CASE UNCHANGED vars
    BY <1>1, <1>6 DEF vars
  <1>7. QED
    BY <1>1, <1>2, <1>3, <1>4, <1>5, <1>6 DEF Next, Environment

(* The types of the lines and the chips, and with libgpiod 2 the pins are  *)
(* in the numerical order of the chips.                                    *)
THEOREM TypeCorrectness == Spec => []TypeOK
  <1>1. Init => HostTypes
    BY DEF Init, HostTypes, NumericOrder
  <1>2. HostTypes /\ LinesConsistent /\ [Next]_vars => HostTypes'
    BY StepKeepsHostTypes
  <1>3. HostTypes /\ LinesConsistent => TypeOK
    BY DEF HostTypes, LinesConsistent, TypeOK
  <1>4. QED
    BY <1>1, <1>2, <1>3, LinesConsistentAlways, PTL DEF Spec
=============================================================================
