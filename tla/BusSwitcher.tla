----------------------------- MODULE BusSwitcher -----------------------------
(***************************************************************************)
(* The bus switch (include/iqrf/connector/BusSwitcher.h): each operation   *)
(* as the sequence of GPIO operations it performs.  A GPIO operation that  *)
(* throws ends the sequence, so they are executed one by one               *)
(* (UartConnector).                                                        *)
(***************************************************************************)
EXTENDS Sequences

SwitchLines == {"bus", "i2c", "spi", "uart"}

InitOutput(line, value) == [op |-> "init", line |-> line, value |-> value]
SetValue(line, value)   == [op |-> "set", line |-> line, value |-> value]

(* A line that the configuration may not have. *)
Configured(lines, line) == IF line \in lines THEN <<line>> ELSE <<>>

(* The configured lines that switch the buses: the general one, or those   *)
(* of the single buses.                                                    *)
Switches(lines) ==
  IF "bus" \in lines THEN <<"bus">>
  ELSE Configured(lines, "i2c") \o Configured(lines, "spi")
         \o Configured(lines, "uart")

InitSwitch(lines) ==
  [i \in DOMAIN Switches(lines) |-> InitOutput(Switches(lines)[i], FALSE)]

(* Mutant: the buses to be disabled are left alone. *)
ToggleEnables(lines, enabled) ==
  LET left == IF enabled = {} THEN {} ELSE SwitchLines \ (enabled \cup {"bus"})
      on   == SelectSeq(Switches(lines), LAMBDA s : s \notin left)
  IN  [i \in DOMAIN on |-> SetValue(on[i], enabled # {})]

(* toggle(): each line in turn, the disabled buses and the enabled one. *)
Toggle(lines, enabled) ==
  [i \in DOMAIN Switches(lines) |->
     SetValue(Switches(lines)[i],
              IF Switches(lines)[i] = "bus" THEN enabled # {}
                                            ELSE Switches(lines)[i] \in enabled)]

(* toggleI2c, toggleSpi and toggleUart. *)
ToggleBus(lines, bus, enable) == Toggle(lines, IF enable THEN {bus} ELSE {})

(* Mutant: the buses are left as they are. *)
NoDestructor(lines) == <<>>

(* ~BusSwitcher. *)
DestroySwitch(lines) == Toggle(lines, {})
=============================================================================
