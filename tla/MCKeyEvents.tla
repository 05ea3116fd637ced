---------------------------- MODULE MCKeyEvents ----------------------------
(***************************************************************************)
(* KeyEvents for TLC: the console and the profiler as listeners, with a    *)
(* KeyEventSync barrier each, or with one barrier of that name for both,   *)
(* and the console alone.                                                  *)
(***************************************************************************)
EXTENDS KeyEvents, TLC

CONSTANTS console, profiler

TwoListeners == {console, profiler}
OneListener  == {console}

\* With a barrier each, the two listeners may change places.
Exchange == Permutations(TwoListeners)

OwnNames   == [c \in Clients |-> c]
OneName    == [c \in Clients |-> "KeyEventSync"]
\* Keyboard and interrupt on; with or without interrupt, on or off.
Interrupts  == {{"int"}}
AnyFirmware == SUBSET {"int", "dis"}
=============================================================================
