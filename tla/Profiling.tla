----------------------------- MODULE Profiling -----------------------------
(***************************************************************************)
(* The profiler program and class Profiler.  The kernel has one profile    *)
(* buffer (external); the program sets it up after it has registered the   *)
(* wall "Profiler", waits for a KeyEvent, and starts, pauses and flushes   *)
(* the profile on Ctrl with Home, End and Delete.  It may be started       *)
(* several times.                                                          *)
(***************************************************************************)
EXTENDS Naturals, FiniteSets

CONSTANTS Procs,        \* starts of the program
          Samples,      \* profileDataSamples
          Keys          \* the keys of class Key the program looks at, and another one

VARIABLES
  pc,          \* UserProgramEntry of each process
  started,     \* Profiler::_started of each process
  wall,        \* kernel: the processes that own the wall
  profiling, usage,     \* kernel: the profile is on; entries in the buffer
  flushed      \* kernel: the entries of the last flush

kernel == <<wall, profiling, usage, flushed>>
vars   == <<pc, started, kernel>>

TypeOK ==
  /\ pc \in [Procs -> {"register", "setup", "keyEvent", "loop", "ended"}]
  /\ started \in [Procs -> BOOLEAN]
  /\ wall \subseteq Procs /\ Cardinality(wall) <= 1
  /\ profiling \in BOOLEAN /\ usage \in 0..Samples /\ flushed \in 0..Samples

Init ==
  /\ pc = [p \in Procs |-> "register"]
  /\ started = [p \in Procs |-> FALSE]
  /\ wall = {} /\ profiling = FALSE /\ usage = 0 /\ flushed = 0

GoesOn(p, s) == pc' = [pc EXCEPT ![p] = s]

\* Communication::Register("Profiler", ...), outside of the try block.
Register(p) ==
  /\ pc[p] = "register" /\ wall = {}
  /\ wall' = {p} /\ GoesOn(p, "setup")
  /\ UNCHANGED <<started, profiling, usage, flushed>>

RegisterThrows(p) ==
  /\ pc[p] = "register" /\ wall # {}
  /\ GoesOn(p, "ended")
  /\ UNCHANGED <<started, kernel>>

\* Profiler::Profiler: SCT::Debug::Profile_Setup.
Setup(p) ==
  /\ pc[p] = "setup"
  /\ usage' = 0 /\ GoesOn(p, "keyEvent")
  /\ UNCHANGED <<started, wall, profiling, flushed>>

MakeKeyEvent(p) ==
  /\ pc[p] = "keyEvent" /\ GoesOn(p, "loop")
  /\ UNCHANGED <<started, kernel>>

\* The constructor of KeyEvent throws an IPCSetupException, which nobody catches.
KeyEventThrows(p) ==
  /\ pc[p] = "keyEvent" /\ GoesOn(p, "ended")
  /\ wall' = wall \ {p}
  /\ UNCHANGED <<started, profiling, usage, flushed>>

\* Profiler::Start, Profiler::Pause and Profiler::FlushKernel.
Start(p) ==
  IF started[p] THEN UNCHANGED <<started, profiling>>
  ELSE started' = [started EXCEPT ![p] = TRUE] /\ profiling' = TRUE

\* Mutant: _started stays set.
PauseKeeps(p) ==
  IF started[p] THEN profiling' = FALSE /\ UNCHANGED started
  ELSE UNCHANGED <<started, profiling>>

Pause(p) ==
  IF started[p] THEN started' = [started EXCEPT ![p] = FALSE] /\ profiling' = FALSE
  ELSE UNCHANGED <<started, profiling>>

FlushKernel == flushed' = usage

\* One round of the loop.
GetKey(p, ctrl, key) ==
  /\ pc[p] = "loop"
  /\ CASE ctrl /\ key = "home" -> Start(p)
       [] ctrl /\ key = "end"  -> Pause(p)
       [] OTHER                -> UNCHANGED <<started, profiling>>
  /\ IF ctrl /\ key = "delete" THEN FlushKernel ELSE UNCHANGED flushed
  /\ UNCHANGED <<pc, wall, usage>>

\* The kernel records a function call (external).
Sample ==
  /\ profiling /\ usage < Samples
  /\ usage' = usage + 1
  /\ UNCHANGED <<pc, started, wall, profiling, flushed>>

Next ==
  \/ Sample
  \/ \E p \in Procs :
       \/ Register(p) \/ RegisterThrows(p) \/ Setup(p) \/ MakeKeyEvent(p) \/ KeyEventThrows(p)
       \/ \E ctrl \in BOOLEAN, key \in Keys : GetKey(p, ctrl, key)

Spec == Init /\ [][Next]_vars

-----------------------------------------------------------------------------
(* Properties.                                                             *)

\* The kernel's one profile is on exactly when the one process that may switch it
\* believes so: no second start of the program disturbs the first, and no failed one
\* leaves the profile on.
StartedIsProfiling ==
  /\ profiling <=> \E p \in Procs : started[p]
  /\ \A p \in Procs : started[p] => wall = {p} /\ pc[p] = "loop"
=============================================================================
