------------------------------ MODULE MCI8042 ------------------------------
(***************************************************************************)
(* I8042 for TLC: the control register as different firmwares leave it.    *)
(***************************************************************************)
EXTENDS I8042

AnyFirmware == Bytes
AnyCode     == {{}, {"int"}}   \* a code that looks like a control register, or not
Interrupts  == {{"int"}}       \* keyboard on, with interrupts
=============================================================================
