----------------------------- MODULE I8042Poll -----------------------------
(***************************************************************************)
(* The poll loops of the i8042 driver, I8042Flush, I8042WaitRead and       *)
(* I8042WaitWrite, with the 16 bit counter they share as a pattern:        *)
(*                                                                         *)
(*     while((<not ready>) && (tries--));   return -(tries == 0);          *)
(*                                                                         *)
(* in the order in which InitDriver runs through them.  A step is one poll *)
(* of the status register.                                                 *)
(***************************************************************************)
EXTENDS Naturals, Sequences

CONSTANTS Timeout,      \* TIMEOUT
          Size,         \* 2^16, the values of a UINT16
          BufferSize    \* I8042_BUFFER_SIZE

ASSUME PollAssumption == /\ Timeout \in Nat /\ Size \in Nat /\ BufferSize \in Nat
                         /\ 0 < Timeout /\ Timeout < Size /\ 1 < Size

\* I8042ControllerCheck, then I8042Command with RCTR (one reply), twice with
\* WCTR (one parameter each).
Loops == << "flush", "waitWrite", "waitRead",
            "waitWrite", "waitWrite", "waitWrite", "waitWrite" >>
Done  == 8

VARIABLES
  present,   \* there is a controller; without one every status bit reads as 1
  at,        \* position in Loops
  ended,     \* "polling", or why the loop ended: the status, or no tries left
  tries,
  read,      \* bytes I8042Flush has taken out of the buffer
  check,     \* the result of I8042ControllerCheck, which InitDriver ignores
  error      \* I8042Probe has returned an error, which InitDriver ignores

vars == <<present, at, ended, tries, read, check, error>>

TypeOK ==
  /\ present \in BOOLEAN /\ error \in BOOLEAN
  /\ at \in 1..Done
  /\ ended \in {"polling", "ready", "late"}
  /\ tries \in 0..(Size - 1) /\ read \in 0..Timeout
  /\ check \in {"none", "ok", "nodev"}

Init ==
  /\ present \in BOOLEAN
  /\ at = 1 /\ ended = "polling" /\ tries = Timeout
  /\ read = 0 /\ check = "none" /\ error = FALSE

\* What a poll may find: a controller that is there may always be ready or not.
MayGoOn == present \/ Loops[at] # "waitRead"
MayEnd  == present \/ Loops[at] = "waitRead"

\* Mutant: the counter goes down twice.
PollTwice ==
  /\ at < Done /\ ended = "polling" /\ MayGoOn /\ tries > 1
  /\ tries' = tries - 2
  /\ read' = IF Loops[at] = "flush" THEN read + 1 ELSE read
  /\ UNCHANGED <<present, at, ended, check, error>>

\* Not ready, and tries-- finds something left.
Poll ==
  /\ at < Done /\ ended = "polling" /\ MayGoOn /\ tries > 0
  /\ tries' = tries - 1
  /\ read' = IF Loops[at] = "flush" THEN read + 1 ELSE read
  /\ UNCHANGED <<present, at, ended, check, error>>

\* Not ready, and tries-- finds 0 and wraps.
GiveUp ==
  /\ at < Done /\ ended = "polling" /\ MayGoOn /\ tries = 0
  /\ tries' = Size - 1
  /\ ended' = "late"
  /\ UNCHANGED <<present, at, read, check, error>>

Ready ==
  /\ at < Done /\ ended = "polling" /\ MayEnd
  /\ ended' = "ready"
  /\ UNCHANGED <<present, at, tries, read, check, error>>

\* TIMEOUT - tries is I8042_BUFFER_SIZE; as a UINT32 a negative one is far above.
CountIsBufferSize == Timeout = tries + BufferSize

ReturnFlush ==
  /\ at = 1 /\ ended # "polling"
  /\ check' = IF CountIsBufferSize THEN "nodev" ELSE "ok"
  /\ at' = 2 /\ ended' = "polling" /\ tries' = Timeout /\ read' = 0
  /\ UNCHANGED <<present, error>>

\* Mutant: the counter is compared with what it wraps to.
ReturnWaitWrapped ==
  /\ at \in 2..(Done - 1) /\ ended # "polling"
  /\ IF tries = Size - 1
     THEN error' = TRUE /\ at' = Done /\ UNCHANGED <<ended, tries>>
     ELSE /\ at' = at + 1 /\ UNCHANGED error
          /\ ended' = "polling" /\ tries' = Timeout
  /\ UNCHANGED <<present, read, check>>

\* Mutant: a failed wait is tried again.
ReturnWaitRetry ==
  /\ at \in 2..(Done - 1) /\ ended # "polling"
  /\ at' = IF tries = 0 THEN at ELSE at + 1
  /\ ended' = "polling" /\ tries' = Timeout
  /\ UNCHANGED <<present, read, check, error>>

\* I8042Command, I8042ControllerInit and I8042Probe return the first error.
ReturnWait ==
  /\ at \in 2..(Done - 1) /\ ended # "polling"
  /\ IF tries = 0
     THEN error' = TRUE /\ at' = Done /\ UNCHANGED <<ended, tries>>
     ELSE /\ at' = at + 1 /\ UNCHANGED error
          /\ ended' = "polling" /\ tries' = Timeout
  /\ UNCHANGED <<present, read, check>>

Next == Poll \/ GiveUp \/ Ready \/ ReturnFlush \/ ReturnWait

Spec     == Init /\ [][Next]_vars
FairSpec == Spec /\ WF_vars(Next)

-----------------------------------------------------------------------------
(* Properties.                                                             *)

\* What I8042Flush counts is what it has read, unless it ran out of tries.
FlushCounts == at = 1 /\ ended # "late" => read + tries = Timeout

\* I8042Probe never fails because of a timeout: the one case in which a loop
\* returns -1 is that the controller is ready exactly when no try is left.
OnlyLastPollFails == error => ended = "ready" /\ tries = 0

\* InitDriver gets to its Go whatever the controller does.
InitDriverEnds == <>(at = Done)
=============================================================================
