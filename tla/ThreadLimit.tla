---------------------------- MODULE ThreadLimit ----------------------------
(***************************************************************************)
(* The console's test "stress thread": StressTestThreads starts threads    *)
(* until the kernel refuses, and each LimitThread counts itself under      *)
(* limitSemaphore.  Threads, semaphores and their limits are the kernel's. *)
(***************************************************************************)
EXTENDS Naturals, FiniteSets

CONSTANTS Threads,      \* the threads the kernel can hold beside the console
          MaxStarts,    \* bound: starts in one run of the test
          MaxRuns,      \* bound: runs of the test
          None

VARIABLES
  con,            \* StressTestThreads: not running, at the head of the loop, after a Start
  runs, n,
  limitsStarted,
  pc, value,      \* each thread, and the limitsStarted it has read
  holder          \* who has entered limitSemaphore

vars == <<con, runs, n, limitsStarted, pc, value, holder>>

States == {"free", "enter", "read", "write", "leave", "exit"}
Count  == 0..(MaxStarts * MaxRuns)

TypeOK ==
  /\ con \in {"prompt", "loop", "print"}
  /\ runs \in 0..MaxRuns /\ n \in 0..MaxStarts
  /\ limitsStarted \in Count
  /\ pc \in [Threads -> States] /\ value \in [Threads -> Count]
  /\ holder \in Threads \cup {None}

Init ==
  /\ con = "prompt" /\ runs = 0 /\ n = 0
  /\ limitsStarted = 0
  /\ pc = [t \in Threads |-> "free"] /\ value = [t \in Threads |-> 0]
  /\ holder = None

\* n = 0 and limitsStarted = 0, while threads of an earlier run may still count.
Command ==
  /\ con = "prompt" /\ runs < MaxRuns
  /\ runs' = runs + 1 /\ con' = "loop"
  /\ n' = 0 /\ limitsStarted' = 0
  /\ UNCHANGED <<pc, value, holder>>

\* Thread::Start.
Start ==
  /\ con = "loop" /\ n < MaxStarts
  /\ n' = n + 1 /\ con' = "print"
  /\ \E t \in Threads : pc[t] = "free" /\ pc' = [pc EXCEPT ![t] = "enter"]
  /\ UNCHANGED <<runs, limitsStarted, value, holder>>

\* The kernel refuses: ThreadCreationException, and the loop ends.
StartThrows ==
  /\ con = "loop"
  /\ n < MaxStarts /\ \A t \in Threads : pc[t] # "free"
  /\ n' = n + 1 /\ con' = "prompt"
  /\ UNCHANGED <<runs, limitsStarted, pc, value, holder>>

\* "Started n Threads. limitsStarted up and running so far."
Report ==
  /\ con = "print" /\ con' = "loop"
  /\ UNCHANGED <<runs, n, limitsStarted, pc, value, holder>>

GoesOn(t, s) == pc' = [pc EXCEPT ![t] = s]

\* Mutant: the semaphore lets two in.
EnterAnyway(t) ==
  /\ pc[t] = "enter"
  /\ holder' = t /\ GoesOn(t, "read")
  /\ UNCHANGED <<con, runs, n, limitsStarted, value>>

Enter(t) ==
  /\ pc[t] = "enter" /\ holder = None
  /\ holder' = t /\ GoesOn(t, "read")
  /\ UNCHANGED <<con, runs, n, limitsStarted, value>>

Read(t) ==
  /\ pc[t] = "read"
  /\ value' = [value EXCEPT ![t] = limitsStarted] /\ GoesOn(t, "write")
  /\ UNCHANGED <<con, runs, n, limitsStarted, holder>>

Write(t) ==
  /\ pc[t] = "write"
  /\ limitsStarted' = value[t] + 1
  /\ GoesOn(t, "leave")
  /\ UNCHANGED <<con, runs, n, value, holder>>

Leave(t) ==
  /\ pc[t] = "leave"
  /\ holder' = None /\ GoesOn(t, "exit")
  /\ UNCHANGED <<con, runs, n, limitsStarted, value>>

\* KernelThreadCallback: ExitThread(obj->Run()), and the kernel has room again.
ExitThread(t) ==
  /\ pc[t] = "exit"
  /\ GoesOn(t, "free") /\ value' = [value EXCEPT ![t] = 0]
  /\ UNCHANGED <<con, runs, n, limitsStarted, holder>>

Thread(t) == Enter(t) \/ Read(t) \/ Write(t) \/ Leave(t) \/ ExitThread(t)

Next == Command \/ Start \/ StartThrows \/ Report \/ \E t \in Threads : Thread(t)

Spec == Init /\ [][Next]_vars

-----------------------------------------------------------------------------
(* Properties.                                                             *)

\* In the first run limitsStarted misses no thread and counts none twice, however the
\* threads overlap with each other and with the loop that starts them: those that have
\* still to write it make up the difference.
EachCountsOnce ==
  runs = 1 =>
    LET Uncounted == {t \in Threads : pc[t] \in {"enter", "read", "write"}}
        Started   == IF con = "prompt" THEN n - 1 ELSE n
    IN  limitsStarted + Cardinality(Uncounted) = Started
=============================================================================
