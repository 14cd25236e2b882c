---------------------------- MODULE GpioResolver ----------------------------
(***************************************************************************)
(* The numbering of GPIO pins (src/gpio/GpioMap.cpp) and the resolver      *)
(* singleton that keeps it (src/gpio/GpioResolver.cpp).  A pin number is a *)
(* position in the list of all lines of all chips; pin 0 is the first.     *)
(*                                                                         *)
(* The chips in the device directory come and go.  A "failing" one cannot  *)
(* be opened.  The library is built for one platform: libgpiod 1 or 2 on   *)
(* Linux, or FreeBSD.                                                      *)
(***************************************************************************)
EXTENDS Naturals, SequencesExt

CONSTANTS
  Chips,      \* the chips that may be there
  Ordinal,    \* Ordinal[c]: the number in the file name of chip c
  NumLines,   \* NumLines[c]: how many lines it has
  None        \* no map yet, no holder, no object

ASSUME GpioResolverAssumption ==
  /\ IsFiniteSet(Chips)
  /\ Ordinal \in [Chips -> Nat]
  /\ \A c, d \in Chips : Ordinal[c] = Ordinal[d] => c = d
  /\ NumLines \in [Chips -> Nat]

VARIABLES
  platform,   \* what the library is built for
  chips,      \* the device directory
  gpioMap     \* the map of the resolver, once it has been built

Lines == UNION {{c} \X (0..NumLines[c] - 1) : c \in Chips}

Present == {c \in Chips : chips[c] # "absent"}

Ascending(order) ==
  \A i, j \in DOMAIN order : i < j => Ordinal[order[i]] < Ordinal[order[j]]

(* Mutant: the chips are left in the directory's order. *)
InDirectoryOrder == SetToSeqs(Present)

(* With libgpiod 2 the chips are sorted by their numbers (not names);      *)
(* FreeBSD and libgpiod 1 take them as the directory lists them.           *)
InOrder ==
  {order \in SetToSeqs(Present) : platform = "gpiod2" => Ascending(order)}

LinesOf(c) == [n \in 1..NumLines[c] |-> <<c, n - 1>>]

(* The map of the chips in this order, without those that fail. *)
GetGpioMap(order) ==
  LET map[n \in 0..Len(order)] ==
        IF n = 0 THEN <<>>
        ELSE IF chips[order[n]] = "good" THEN map[n - 1] \o LinesOf(order[n])
        ELSE map[n - 1]
  IN  map[Len(order)]

(* GetResolver() builds the map once.  With libgpiod 1 a chip that cannot  *)
(* be opened makes it throw, and the next call tries again.                *)
GetResolver ==
  /\ gpioMap = None
  /\ platform = "gpiod1" => \A c \in Present : chips[c] = "good"
  /\ \E order \in InOrder : gpioMap' = GetGpioMap(order)
  /\ UNCHANGED <<platform, chips>>

(* resolveGpioPin: the lines that a GpioConfig may name by a pin number.   *)
Resolvable == IF gpioMap = None THEN {} ELSE {gpioMap[p] : p \in DOMAIN gpioMap}

-----------------------------------------------------------------------------
(* With libgpiod 2 pins are in the order of the chips' numbers, 2 before   *)
(* 10, in whatever order the directory is read: the same on every start.   *)
NumericOrder ==
  gpioMap # None /\ platform = "gpiod2" =>
    \A p, q \in DOMAIN gpioMap :
      p < q => Ordinal[gpioMap[p][1]] <= Ordinal[gpioMap[q][1]]
=============================================================================
