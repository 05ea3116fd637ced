---------------------------- MODULE FairnessTest ----------------------------
(***************************************************************************)
(* The console's scheduler test ("stress sched"): StressTestScheduler      *)
(* starts or aborts N TestThreads, which count their rounds, and one       *)
(* StatisticsThread, which prints each one's share of the rounds and sets  *)
(* the counts back.  They share fairnessRunTime under fairnessSemaphore.   *)
(* A step is one access to shared state; fairnessRunTime[n]++ is two.      *)
(***************************************************************************)
EXTENDS Naturals, FiniteSets

CONSTANTS N,              \* fairnessThreads
          MaxRounds,      \* bound on the rounds a thread has not reported
          MaxRuns         \* bound on the times the test is started

ASSUME ThreadsAssumption == N \in Nat /\ N > 0
ASSUME BoundsAssumption  == MaxRounds \in Nat /\ MaxRuns \in Nat

Tests   == 0..(N - 1)
Stat    == N              \* the StatisticsThread
Threads == 0..N

VARIABLES
  command,          \* what the console thread is doing
  next,             \* its loop variable n; N stands for the statistics
  fairnessRunning,
  runs,             \* how often the test has been started
  orphan,           \* a thread was aborted that held the semaphore, and the
                    \* kernel did not release it
  alive,            \* the threads that exist
  semaphore,        \* fairnessSemaphore is free
  pc,               \* where each thread is
  fairnessRunTime,
  value,            \* fairnessRunTime[n] as a TestThread has read it
  n, sum,           \* the StatisticsThread's locals
  shares,           \* the percentages it has printed in this round, added up
  rounds            \* rounds of a TestThread that no statistics has shown yet

console == <<command, next, fairnessRunning, runs, orphan>>
stat    == <<n, sum, shares>>
vars    == <<console, alive, semaphore, pc, fairnessRunTime, value, stat, rounds>>

TypeOK ==
  /\ command \in {"prompt", "start", "abort", "ended"} /\ next \in Threads
  /\ fairnessRunning \in BOOLEAN /\ runs \in 0..MaxRuns /\ orphan \in BOOLEAN
  /\ alive \subseteq Threads /\ semaphore \in BOOLEAN
  /\ pc \in [Threads -> {"enter", "read", "write", "sum", "print", "leave"}]
  /\ fairnessRunTime \in [Tests -> Nat] /\ value \in [Tests -> Nat]
  /\ n \in 0..N /\ sum \in Nat /\ shares \in Nat
  /\ rounds \in [Tests -> Nat]

Init ==
  /\ command = "prompt" /\ next = 0 /\ fairnessRunning = FALSE /\ runs = 0 /\ orphan = FALSE
  /\ alive = {} /\ semaphore = TRUE
  /\ pc = [t \in Threads |-> "enter"]
  /\ fairnessRunTime = [t \in Tests |-> 0] /\ value = [t \in Tests |-> 0]
  /\ n = 0 /\ sum = 0 /\ shares = 0
  /\ rounds = [t \in Tests |-> 0]

-----------------------------------------------------------------------------
(* The threads.                                                            *)

Step(t, from, to) == t \in alive /\ pc[t] = from /\ pc' = [pc EXCEPT ![t] = to]

\* Mutant: Enter does not wait.
EnterAtOnce(t) ==
  /\ Step(t, "enter", IF t = Stat THEN "sum" ELSE "read")
  /\ t # Stat => fairnessRunTime[t] < MaxRounds
  /\ semaphore' = FALSE
  /\ IF t = Stat THEN n' = 0 /\ sum' = 0 /\ shares' = 0 ELSE UNCHANGED stat
  /\ UNCHANGED <<console, alive, fairnessRunTime, value, rounds>>

Enter(t) ==
  /\ Step(t, "enter", IF t = Stat THEN "sum" ELSE "read")
  /\ t # Stat => fairnessRunTime[t] < MaxRounds
  /\ semaphore /\ semaphore' = FALSE
  /\ IF t = Stat THEN n' = 0 /\ sum' = 0 /\ shares' = 0 ELSE UNCHANGED stat
  /\ UNCHANGED <<console, alive, fairnessRunTime, value, rounds>>

\* Mutant: the semaphore is not released.
LeaveNot(t) ==
  /\ Step(t, "leave", "enter")
  /\ UNCHANGED <<console, alive, semaphore, fairnessRunTime, value, stat, rounds>>

Leave(t) ==
  /\ Step(t, "leave", "enter")
  /\ semaphore' = TRUE
  /\ UNCHANGED <<console, alive, fairnessRunTime, value, stat, rounds>>

\* fairnessRunTime[_uniqueNumber]++
ReadTime(t) ==
  /\ t \in Tests /\ Step(t, "read", "write")
  /\ value' = [value EXCEPT ![t] = fairnessRunTime[t]]
  /\ UNCHANGED <<console, alive, semaphore, fairnessRunTime, stat, rounds>>

WriteTime(t) ==
  /\ t \in Tests /\ Step(t, "write", "leave")
  /\ fairnessRunTime' = [fairnessRunTime EXCEPT ![t] = value[t] + 1]
  /\ rounds' = [rounds EXCEPT ![t] = @ + 1]
  /\ UNCHANGED <<console, alive, semaphore, value, stat>>

\* After the first loop: if (sum > 0).
AfterLoop(total) == IF total > 0 THEN "print" ELSE "leave"

\* Mutant: the first loop stops one thread early.
AddUpShort ==
  /\ Step(Stat, "sum", IF n = N - 1 THEN AfterLoop(sum) ELSE "sum")
  /\ sum' = IF n = N - 1 THEN sum ELSE sum + fairnessRunTime[n]
  /\ n' = IF n = N - 1 THEN 0 ELSE n + 1
  /\ UNCHANGED <<console, alive, semaphore, fairnessRunTime, value, shares, rounds>>

AddUp ==
  /\ Step(Stat, "sum", IF n = N - 1 THEN AfterLoop(sum + fairnessRunTime[n]) ELSE "sum")
  /\ sum' = sum + fairnessRunTime[n]
  /\ n' = IF n = N - 1 THEN 0 ELSE n + 1
  /\ UNCHANGED <<console, alive, semaphore, fairnessRunTime, value, shares, rounds>>

PrintShare ==
  /\ Step(Stat, "print", IF n = N - 1 THEN "leave" ELSE "print")
  /\ shares' = shares + (fairnessRunTime[n] * 100) \div sum
  /\ fairnessRunTime' = [fairnessRunTime EXCEPT ![n] = 0]
  /\ rounds' = [rounds EXCEPT ![n] = 0]
  /\ n' = n + 1
  /\ UNCHANGED <<console, alive, semaphore, value, sum>>

-----------------------------------------------------------------------------
(* StressTestScheduler.                                                    *)

Command ==
  /\ command = "prompt" /\ next' = 0
  /\ \/ fairnessRunning /\ command' = "abort" /\ UNCHANGED runs
     \/ ~fairnessRunning /\ runs < MaxRuns /\ command' = "start" /\ runs' = runs + 1
  /\ UNCHANGED <<fairnessRunning, orphan, alive, semaphore, pc, fairnessRunTime, value,
                 stat, rounds>>

Advance(running) ==
  IF next = N THEN command' = "prompt" /\ next' = 0 /\ fairnessRunning' = running
              ELSE next' = next + 1 /\ UNCHANGED <<command, fairnessRunning>>

StartNext ==
  /\ command = "start"
  /\ alive' = alive \cup {next}
  /\ pc' = [pc EXCEPT ![next] = "enter"]
  /\ IF next \in Tests
     THEN /\ fairnessRunTime' = [fairnessRunTime EXCEPT ![next] = 0]
          /\ rounds' = [rounds EXCEPT ![next] = 0]
     ELSE UNCHANGED <<fairnessRunTime, rounds>>
  /\ Advance(TRUE)
  /\ UNCHANGED <<runs, orphan, semaphore, value, stat>>

\* Nobody catches the ThreadCreationException: the process ends.
StartFails ==
  /\ command = "start"
  /\ command' = "ended" /\ alive' = {}
  /\ UNCHANGED <<next, fairnessRunning, runs, orphan, semaphore, pc, fairnessRunTime, value, stat, rounds>>

\* The threads between Enter and Leave.
Holders == {t \in alive : pc[t] # "enter"}

\* The code releases nothing: what becomes of the semaphore is left to the kernel.
AbortNext ==
  /\ command = "abort"
  /\ alive' = alive \ {next}
  /\ \/ next \in Holders /\ semaphore' = TRUE /\ UNCHANGED orphan
     \/ next \in Holders /\ orphan' = TRUE /\ UNCHANGED semaphore
     \/ next \notin Holders /\ UNCHANGED <<semaphore, orphan>>
  /\ Advance(FALSE)
  /\ UNCHANGED <<runs, pc, fairnessRunTime, value, stat, rounds>>

-----------------------------------------------------------------------------
Thread(t) == Enter(t) \/ ReadTime(t) \/ WriteTime(t) \/ Leave(t)
Next == \/ \E t \in Threads : Thread(t)
        \/ AddUp \/ PrintShare
        \/ Command \/ StartNext \/ StartFails \/ AbortNext

Spec == Init /\ [][Next]_vars

-----------------------------------------------------------------------------
(* Properties.                                                             *)

\* Never are two threads between Enter and Leave, however often the test is
\* aborted and started again.
MutualExclusion == \A s, t \in Holders : s = t

\* The semaphore is taken exactly while a thread that exists is between Enter and
\* Leave, so that no thread waits in Enter for nobody, unless the kernel has kept it
\* taken for an aborted thread (stress.cpp:259): then no thread gets in any more.
HolderIsAlive ==
  command # "ended" => (Holders # {} <=> ~semaphore /\ ~orphan) /\ (orphan => ~semaphore)

\* "we read the values multiple times" (stress.cpp:69): between the readings no
\* count changes, so a count is what has been done since it was last shown.
NoRoundLost == fairnessRunTime = rounds

\* The shares printed together add up to 100 percent, but for rounding.
SharesAddUp ==
  /\ shares <= 100
  /\ pc[Stat] = "leave" /\ Stat \in alive /\ sum > 0 => shares + N > 100
=============================================================================
