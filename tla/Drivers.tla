-------------------------------- MODULE Drivers --------------------------------
(***************************************************************************)
(* The serial buses of the board under one shell: a command on the SPI bus *)
(* (SpiBus) or one on the I2C bus (Eeprom), one after the other, in any    *)
(* order.  The buses share no state; what is left of a command on its bus  *)
(* (a select, a byte in the FIFO, a chip that is storing, an address       *)
(* counter) meets the next one.                                            *)
(***************************************************************************)
EXTENDS SpiBus, Eeprom

CONSTANT Total   \* bound: commands on both buses

vars == <<spiVars, eeVars>>

\* The shell runs one command at a time; the chip's cycle ends on its own.
ShellIdle == \A u \in Users : call[u] = Idle

Init == SpiInit /\ EeInit

More == calls + jobs < Total

Spi == \/ ShellIdle /\ job = Idle0 /\ More /\ SpiIssue
       \/ SpiRun

I2c == \/ ShellIdle /\ More /\ EeIssue
       \/ EeRun

Next == (Spi /\ UNCHANGED eeVars) \/ (I2c /\ UNCHANGED spiVars)

Spec == Init /\ [][Next]_vars

-----------------------------------------------------------------------------
\* Type invariant of both buses.
TypeOK == SpiTypeOK /\ EeTypeOK
===============================================================================
