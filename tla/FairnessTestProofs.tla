------------------------- MODULE FairnessTestProofs -------------------------
(***************************************************************************)
(* Proofs about FairnessTest for any number of threads, rounds and runs.   *)
(***************************************************************************)
EXTENDS FairnessTest, TLAPS

\* The types the proofs need; the sums are left to TLC.
Types ==
  /\ next \in Threads /\ alive \subseteq Threads /\ semaphore \in BOOLEAN
  /\ pc \in [Threads -> {"enter", "read", "write", "sum", "print", "leave"}]
  /\ fairnessRunTime \in [Tests -> Nat] /\ value \in [Tests -> Nat]
  /\ rounds \in [Tests -> Nat]
  /\ n \in 0..N /\ (pc[Stat] \in {"sum", "print"} => n \in Tests)

\* Which threads may exist while StressTestScheduler starts or aborts them.
Population ==
  /\ command \in {"prompt", "start", "abort", "ended"}
  /\ command = "prompt" /\ ~fairnessRunning => alive = {}
  /\ command = "start" => alive \subseteq {t \in Threads : t < next} /\ ~fairnessRunning
  /\ command = "abort" => alive \subseteq {t \in Threads : t >= next}
  /\ command = "ended" => alive = {}

\* Whoever is between Enter and Leave has taken the semaphore.
Locking == MutualExclusion /\ (semaphore => Holders = {})

\* What a TestThread has read is still there when it writes.
Reading == \A t \in Tests : t \in alive /\ pc[t] = "write" => value[t] = fairnessRunTime[t]

Inv == Types /\ Population /\ Locking /\ Reading /\ NoRoundLost

LEMMA Sets == Threads = Tests \cup {Stat} /\ Stat \notin Tests
BY ThreadsAssumption DEF Threads, Tests, Stat

LEMMA InvInit == Init => Inv
<1> SUFFICES ASSUME Init PROVE Inv
  OBVIOUS
<1>1. alive = {} /\ command = "prompt" /\ semaphore = TRUE /\ n = 0 /\ next = 0
  BY DEF Init
<1>2. pc = [t \in Threads |-> "enter"] /\ fairnessRunTime = [t \in Tests |-> 0]
      /\ value = [t \in Tests |-> 0] /\ rounds = [t \in Tests |-> 0]
  BY DEF Init
<1>3. Types
  BY <1>1, <1>2, ThreadsAssumption DEF Types, Threads, Tests, Stat
<1>4. Population
  BY <1>1 DEF Population
<1>5. Locking /\ Reading
  BY <1>1 DEF Locking, Reading, MutualExclusion, Holders
<1>6. NoRoundLost
  BY <1>2 DEF NoRoundLost
<1>7. QED
  BY <1>3, <1>4, <1>5, <1>6 DEF Inv

\* A step of thread t inside or out of the critical section.
LEMMA ThreadStep ==
  ASSUME Inv, NEW t \in Threads, NEW from, NEW to, Step(t, from, to),
         UNCHANGED <<console, alive>>,
         to \in {"enter", "read", "write", "sum", "print", "leave"},
         \/ from # "enter" /\ to # "enter" /\ semaphore' = semaphore
         \/ from = "enter" /\ semaphore /\ ~semaphore'
         \/ from # "enter" /\ to = "enter"
  PROVE  /\ Locking' /\ Population'
         /\ pc' \in [Threads -> {"enter", "read", "write", "sum", "print", "leave"}]
         /\ \A s \in Threads : s # t => pc'[s] = pc[s]
         /\ pc'[t] = to /\ t \in alive /\ pc[t] = from
<1>1. t \in alive /\ pc[t] = from /\ pc' = [pc EXCEPT ![t] = to] /\ alive \subseteq Threads
  BY DEF Step, Inv, Types
<1>2. \A s \in Threads : pc'[s] = IF s = t THEN to ELSE pc[s]
  BY <1>1 DEF Inv, Types
<1>3. pc' \in [Threads -> {"enter", "read", "write", "sum", "print", "leave"}]
  BY <1>1 DEF Inv, Types
<1>4. Population'
  BY DEF Inv, Population, console
<1>5. Locking'
  <2>1. CASE from # "enter"
    <3>1. Holders = {t} /\ ~semaphore
      BY <1>1, <2>1 DEF Inv, Locking, MutualExclusion, Holders
    <3>2. Holders' = IF to = "enter" THEN {} ELSE {t}
      BY <1>1, <1>2, <2>1, <3>1 DEF Holders
    <3>3. QED
      BY <2>1, <3>1, <3>2 DEF Locking, MutualExclusion
  <2>2. CASE from = "enter"
    <3>1. Holders = {}
      BY <2>2 DEF Inv, Locking
    <3>2. Holders' \subseteq {t} /\ ~semaphore'
      BY <1>1, <1>2, <2>2, <3>1 DEF Holders
    <3>3. QED
      BY <3>2 DEF Locking, MutualExclusion
  <2>3. QED
    BY <2>1, <2>2
<1>6. QED
  BY <1>1, <1>2, <1>3, <1>4, <1>5

LEMMA InvThreads ==
  ASSUME Inv, \/ \E t \in Threads : Thread(t)
              \/ AddUp \/ PrintShare
  PROVE  Inv'
<1> USE ThreadsAssumption, Sets DEF Tests, Threads, Stat
<1>a. Types /\ Reading /\ NoRoundLost /\ Locking
  BY DEF Inv
<1>1. ASSUME NEW t \in Threads, Enter(t) PROVE Inv'
  <2> DEFINE to == IF t = Stat THEN "sum" ELSE "read"
  <2>0. to \in {"sum", "read"} /\ (to = "sum" => t = Stat)
    OBVIOUS
  <2>1. Step(t, "enter", to) /\ semaphore /\ semaphore' = FALSE
        /\ UNCHANGED <<console, alive, fairnessRunTime, value, rounds>>
    BY <1>1 DEF Enter
  <2>2. n' \in 0..N /\ (t = Stat => n' = 0) /\ (t # Stat => n' = n)
    <3>1. CASE t = Stat
      BY <1>1, <3>1 DEF Enter
    <3>2. CASE t # Stat
      BY <1>1, <1>a, <3>2 DEF Enter, Types, stat
    <3>3. QED
      BY <3>1, <3>2
  <2> HIDE DEF to
  <2>3. /\ Locking' /\ Population'
        /\ pc' \in [Threads -> {"enter", "read", "write", "sum", "print", "leave"}]
        /\ \A s \in Threads : s # t => pc'[s] = pc[s]
        /\ pc'[t] = to /\ t \in alive
    BY <2>0, <2>1, ThreadStep
  <2>4. Types'
    <3>1. n' \in 0..N /\ (pc'[Stat] \in {"sum", "print"} => n' \in Tests)
      BY <1>a, <2>0, <2>2, <2>3 DEF Types
    <3>2. semaphore' \in BOOLEAN
      BY <2>1
    <3>3. QED
      BY <1>a, <2>1, <2>3, <3>1, <3>2 DEF Types, console
  <2>5. Reading' /\ NoRoundLost'
    BY <1>a, <2>0, <2>1, <2>3 DEF Reading, NoRoundLost
  <2>6. QED
    BY <2>3, <2>4, <2>5 DEF Inv
<1>2. ASSUME NEW t \in Threads, Leave(t) PROVE Inv'
  <2>1. Step(t, "leave", "enter") /\ semaphore' = TRUE
        /\ UNCHANGED <<console, alive, fairnessRunTime, value, stat, rounds>>
    BY <1>2 DEF Leave
  <2>2. /\ Locking' /\ Population'
        /\ pc' \in [Threads -> {"enter", "read", "write", "sum", "print", "leave"}]
        /\ \A s \in Threads : s # t => pc'[s] = pc[s]
        /\ pc'[t] = "enter"
    BY <2>1, ThreadStep
  <2>3. Types'
    BY <1>a, <2>1, <2>2 DEF Types, console, stat
  <2>4. Reading' /\ NoRoundLost'
    BY <1>a, <2>1, <2>2 DEF Reading, NoRoundLost
  <2>5. QED
    BY <2>2, <2>3, <2>4 DEF Inv
<1>3. ASSUME NEW t \in Threads, ReadTime(t) PROVE Inv'
  <2>1. t \in Tests /\ Step(t, "read", "write") /\ value' = [value EXCEPT ![t] = fairnessRunTime[t]]
        /\ UNCHANGED <<console, alive, semaphore, fairnessRunTime, stat, rounds>>
    BY <1>3 DEF ReadTime
  <2>2. /\ Locking' /\ Population'
        /\ pc' \in [Threads -> {"enter", "read", "write", "sum", "print", "leave"}]
        /\ \A s \in Threads : s # t => pc'[s] = pc[s]
    BY <2>1, ThreadStep
  <2>3. value' \in [Tests -> Nat] /\ value'[t] = fairnessRunTime[t]
        /\ \A s \in Tests : s # t => value'[s] = value[s]
    BY <1>a, <2>1 DEF Types
  <2>4. Types'
    BY <1>a, <2>1, <2>2, <2>3 DEF Types, console, stat
  <2>5. Reading' /\ NoRoundLost'
    BY <1>a, <2>1, <2>2, <2>3 DEF Reading, NoRoundLost
  <2>6. QED
    BY <2>2, <2>4, <2>5 DEF Inv
<1>4. ASSUME NEW t \in Threads, WriteTime(t) PROVE Inv'
  <2>1. t \in Tests /\ Step(t, "write", "leave")
        /\ fairnessRunTime' = [fairnessRunTime EXCEPT ![t] = value[t] + 1]
        /\ rounds' = [rounds EXCEPT ![t] = rounds[t] + 1]
        /\ UNCHANGED <<console, alive, semaphore, value, stat>>
    BY <1>4 DEF WriteTime
  <2>2. /\ Locking' /\ Population'
        /\ pc' \in [Threads -> {"enter", "read", "write", "sum", "print", "leave"}]
        /\ \A s \in Threads : s # t => pc'[s] = pc[s]
        /\ pc'[t] = "leave" /\ t \in alive /\ pc[t] = "write"
    BY <2>1, ThreadStep
  <2>3. value[t] = fairnessRunTime[t] /\ fairnessRunTime = rounds
    BY <1>a, <2>1, <2>2 DEF Reading, NoRoundLost
  <2>4. fairnessRunTime' \in [Tests -> Nat] /\ fairnessRunTime' = rounds'
        /\ \A s \in Tests : s # t => fairnessRunTime'[s] = fairnessRunTime[s]
    BY <1>a, <2>1, <2>3 DEF Types
  <2>5. Types'
    BY <1>a, <2>1, <2>2, <2>4 DEF Types, console, stat
  <2>6. Reading' /\ NoRoundLost'
    BY <1>a, <2>1, <2>2, <2>4 DEF Reading, NoRoundLost
  <2>7. QED
    BY <2>2, <2>5, <2>6 DEF Inv
<1>5. CASE AddUp
  <2> DEFINE to == IF n = N - 1 THEN AfterLoop(sum + fairnessRunTime[n]) ELSE "sum"
  <2>1. Step(Stat, "sum", to) /\ n' = (IF n = N - 1 THEN 0 ELSE n + 1)
        /\ UNCHANGED <<console, alive, semaphore, fairnessRunTime, value, rounds>>
    BY <1>5 DEF AddUp
  <2>2. to \in {"sum", "print", "leave"}
    BY DEF AfterLoop
  <2> HIDE DEF to
  <2>3. /\ Locking' /\ Population'
        /\ pc' \in [Threads -> {"enter", "read", "write", "sum", "print", "leave"}]
        /\ \A s \in Threads : s # Stat => pc'[s] = pc[s]
        /\ pc[Stat] = "sum"
    BY <2>1, <2>2, ThreadStep
  <2>4. n \in Tests /\ n' \in Tests
    BY <1>a, <2>1, <2>3 DEF Types
  <2>5. Types'
    BY <1>a, <2>1, <2>3, <2>4 DEF Types, console
  <2>6. Reading' /\ NoRoundLost'
    BY <1>a, <2>1, <2>3 DEF Reading, NoRoundLost
  <2>7. QED
    BY <2>3, <2>5, <2>6 DEF Inv
<1>6. CASE PrintShare
  <2> DEFINE to == IF n = N - 1 THEN "leave" ELSE "print"
  <2>1. Step(Stat, "print", to) /\ n' = n + 1
        /\ fairnessRunTime' = [fairnessRunTime EXCEPT ![n] = 0] /\ rounds' = [rounds EXCEPT ![n] = 0]
        /\ UNCHANGED <<console, alive, semaphore, value>>
    BY <1>6 DEF PrintShare
  <2>2. to \in {"print", "leave"} /\ (to = "print" => n # N - 1)
    OBVIOUS
  <2> HIDE DEF to
  <2>3. /\ Locking' /\ Population'
        /\ pc' \in [Threads -> {"enter", "read", "write", "sum", "print", "leave"}]
        /\ \A s \in Threads : s # Stat => pc'[s] = pc[s]
        /\ pc[Stat] = "print" /\ Stat \in alive /\ pc'[Stat] = to
    BY <2>1, <2>2, ThreadStep
  <2>4. n \in Tests /\ n' \in 0..N /\ (to = "print" => n' \in Tests)
    BY <1>a, <2>1, <2>2, <2>3 DEF Types
  <2>5. fairnessRunTime' \in [Tests -> Nat] /\ rounds' = fairnessRunTime'
    BY <1>a, <2>1, <2>4 DEF Types, NoRoundLost
  <2>6. Types'
    BY <1>a, <2>1, <2>2, <2>3, <2>4, <2>5 DEF Types, console
  <2>7. \A s \in Tests : s \in alive => pc[s] = "enter"
    BY <1>a, <2>3 DEF Locking, MutualExclusion, Holders
  <2>8. Reading' /\ NoRoundLost'
    BY <2>1, <2>3, <2>5, <2>7 DEF Reading, NoRoundLost
  <2>9. QED
    BY <2>3, <2>6, <2>8 DEF Inv
<1>7. QED
  BY <1>1, <1>2, <1>3, <1>4, <1>5, <1>6 DEF Thread

LEMMA InvConsole ==
  ASSUME Inv, Command \/ StartNext \/ StartFails \/ AbortNext
  PROVE  Inv'
<1> USE ThreadsAssumption, Sets DEF Tests, Threads, Stat
<1>a. Types /\ Population /\ Reading /\ NoRoundLost /\ Locking
  BY DEF Inv
<1>1. CASE Command
  <2>1. command = "prompt" /\ next' = 0
        /\ UNCHANGED <<fairnessRunning, alive, semaphore, pc, fairnessRunTime, value, stat, rounds>>
    BY <1>1 DEF Command
  <2>2. \/ fairnessRunning /\ command' = "abort"
        \/ ~fairnessRunning /\ command' = "start"
    BY <1>1 DEF Command
  <2>3. Types' /\ Reading' /\ NoRoundLost' /\ Locking'
    BY <1>a, <2>1 DEF Types, Reading, NoRoundLost, Locking, MutualExclusion, Holders, stat
  <2>4. Population'
    BY <1>a, <2>1, <2>2 DEF Types, Population
  <2>5. QED
    BY <2>3, <2>4 DEF Inv
<1>2. CASE StartNext
  <2>1. command = "start" /\ alive' = alive \cup {next} /\ pc' = [pc EXCEPT ![next] = "enter"]
        /\ Advance(TRUE) /\ UNCHANGED <<runs, semaphore, value, stat>> /\ next \in Threads
    BY <1>2, <1>a DEF StartNext, Types
  <2>2. next \notin alive /\ ~fairnessRunning
    BY <1>a, <2>1 DEF Population, Types
  <2>3. pc' \in [Threads -> {"enter", "read", "write", "sum", "print", "leave"}]
        /\ pc'[next] = "enter" /\ \A t \in Threads : t # next => pc'[t] = pc[t]
    BY <1>a, <2>1 DEF Types
  <2>4. /\ fairnessRunTime' \in [Tests -> Nat] /\ rounds' = fairnessRunTime'
        /\ \A t \in Tests : t # next => fairnessRunTime'[t] = fairnessRunTime[t]
    <3>1. CASE next \in Tests
      <4>1. fairnessRunTime' = [fairnessRunTime EXCEPT ![next] = 0]
            /\ rounds' = [rounds EXCEPT ![next] = 0]
        BY <1>2, <3>1 DEF StartNext
      <4>2. QED
        BY <1>a, <3>1, <4>1 DEF Types, NoRoundLost
    <3>2. CASE next \notin Tests
      BY <1>2, <1>a, <3>2 DEF StartNext, Types, NoRoundLost
    <3>3. QED
      BY <3>1, <3>2
  <2>5. next' \in Threads
    BY <2>1 DEF Advance
  <2>6. Types'
    BY <1>a, <2>1, <2>3, <2>4, <2>5 DEF Types, stat
  <2>7. Holders' = Holders
    BY <1>a, <2>1, <2>2, <2>3 DEF Holders, Types
  <2>8. Locking' /\ Reading' /\ NoRoundLost'
    BY <1>a, <2>1, <2>3, <2>4, <2>7 DEF Locking, MutualExclusion, Reading, NoRoundLost
  <2>9. Population'
    <3>1. CASE next = N
      BY <2>1, <3>1 DEF Population, Advance
    <3>2. CASE next # N
      BY <1>a, <2>1, <2>2, <3>2 DEF Population, Advance
    <3>3. QED
      BY <3>1, <3>2
  <2>10. QED
    BY <2>6, <2>8, <2>9 DEF Inv
<1>3. CASE StartFails
  <2>1. command' = "ended" /\ alive' = {}
        /\ UNCHANGED <<next, semaphore, pc, fairnessRunTime, value, stat, rounds>>
    BY <1>3 DEF StartFails
  <2>2. QED
    BY <1>a, <2>1 DEF Inv, Types, Population, Locking, MutualExclusion, Holders, Reading,
                      NoRoundLost, stat
<1>4. CASE AbortNext
  <2>1. command = "abort" /\ alive' = alive \ {next} /\ Advance(FALSE) /\ next \in Threads
        /\ UNCHANGED <<runs, pc, fairnessRunTime, value, stat, rounds>>
    BY <1>4, <1>a DEF AbortNext, Types
  <2>2. (semaphore' = TRUE /\ next \in Holders) \/ semaphore' = semaphore
    BY <1>4 DEF AbortNext
  <2>3. semaphore' \in BOOLEAN
    BY <1>a, <2>2 DEF Types
  <2>4. next' \in Threads
    BY <2>1 DEF Advance
  <2>5. Types'
    BY <1>a, <2>1, <2>3, <2>4 DEF Types, stat
  <2>6. Holders' = Holders \ {next}
    BY <2>1 DEF Holders
  <2>7. Locking'
    BY <1>a, <2>2, <2>6 DEF Locking, MutualExclusion
  <2>8. Reading' /\ NoRoundLost'
    BY <1>a, <2>1 DEF Reading, NoRoundLost
  <2>9. Population'
    <3>1. CASE next = N
      BY <1>a, <2>1, <3>1 DEF Population, Advance
    <3>2. CASE next # N
      BY <1>a, <2>1, <3>2 DEF Population, Advance
    <3>3. QED
      BY <3>1, <3>2
  <2>10. QED
    BY <2>5, <2>7, <2>8, <2>9 DEF Inv
<1>5. QED
  BY <1>1, <1>2, <1>3, <1>4

LEMMA InvStep == ASSUME Inv, [Next]_vars PROVE Inv'
<1>1. CASE UNCHANGED vars
  BY <1>1 DEF vars, console, stat, Inv, Types, Population, Locking, MutualExclusion, Holders,
              Reading, NoRoundLost
<1>2. CASE Next
  BY <1>2, InvThreads, InvConsole DEF Next
<1>3. QED
  BY <1>1, <1>2

LEMMA Invariant == Spec => []Inv
<1>1. Inv /\ [Next]_vars => Inv'
  BY InvStep
<1>2. QED
  BY <1>1, InvInit, PTL DEF Spec

\* Whatever aborts and restarts, one thread at a time is between Enter and Leave.
THEOREM OneThreadInside == Spec => []MutualExclusion
<1>1. Inv => MutualExclusion
  BY DEF Inv, Locking
<1>2. QED
  BY <1>1, Invariant, PTL

\* No round is lost or shown twice, for either behaviour of Abort.
THEOREM RoundsAreCounted == Spec => []NoRoundLost
<1>1. Inv => NoRoundLost
  BY DEF Inv
<1>2. QED
  BY <1>1, Invariant, PTL

\* Whatever the kernel does with the semaphore of an aborted thread: it is taken exactly
\* while a living thread is inside, or for ever after an abort that did not release it.
THEOREM HolderLives == Spec => []HolderIsAlive
<1>1. Init => HolderIsAlive
  BY DEF Init, HolderIsAlive, Holders
<1>2. ASSUME Inv, HolderIsAlive, [Next]_vars PROVE HolderIsAlive'
  <2> SUFFICES ASSUME command' # "ended"
               PROVE  /\ Holders' # {} => ~semaphore' /\ ~orphan'
                      /\ ~semaphore' /\ ~orphan' => Holders' # {}
                      /\ orphan' => ~semaphore'
    BY Zenon DEF HolderIsAlive
  <2>a. Inv' /\ alive \subseteq Threads
    BY <1>2, InvStep DEF Inv, Types
  <2>b. Holders' # {} => ~semaphore'
    BY <2>a, Zenon DEF Inv, Locking
  <2>c. command # "ended"
    BY <1>2 DEF Next, Thread, Enter, ReadTime, WriteTime, Leave, AddUp, PrintShare, Command,
                StartNext, StartFails, AbortNext, vars, console
  <2>d. /\ Holders # {} => ~semaphore /\ ~orphan
        /\ ~semaphore /\ ~orphan => Holders # {}
        /\ orphan => ~semaphore
    BY <1>2, <2>c, Zenon DEF HolderIsAlive
  <2>1. ASSUME NEW t \in Threads, Enter(t) PROVE t \in Holders' /\ ~orphan'
    BY <1>2, <2>d, <2>1 DEF Enter, Step, Holders, Inv, Types, console
  <2>2. ASSUME NEW t \in Threads, ReadTime(t) \/ WriteTime(t) \/ Leave(t)
        PROVE  /\ orphan' = orphan /\ t \in Holders
               /\ Leave(t) \/ t \in Holders'
    BY <1>2, <2>2 DEF ReadTime, WriteTime, Leave, Step, Holders, Inv, Types, console
  <2>3. ASSUME NEW t \in Threads, Leave(t) PROVE semaphore' = TRUE
    BY <2>3 DEF Leave
  <2>4. CASE AddUp \/ PrintShare
    <3>1. Stat \in Holders /\ Stat \in Holders' /\ orphan' = orphan
      BY <1>2, <2>4, ThreadsAssumption DEF AddUp, PrintShare, AfterLoop, Step, Holders, Inv, Types,
                                           console, Threads, Stat
    <3>2. QED
      BY <2>b, <2>d, <3>1, Zenon
  <2>5. CASE Command \/ UNCHANGED vars
    <3>1. Holders' = Holders /\ semaphore' = semaphore /\ orphan' = orphan
      BY <2>5 DEF Command, vars, console, Holders
    <3>2. QED
      BY <2>d, <3>1, Zenon
  <2>6. CASE StartNext
    <3>1. next \notin alive /\ semaphore' = semaphore /\ orphan' = orphan
          /\ alive' = alive \cup {next} /\ pc' = [pc EXCEPT ![next] = "enter"] /\ next \in Threads
      BY <1>2, <2>6, ThreadsAssumption DEF StartNext, Inv, Population, Types, Threads
    <3>2. Holders' = Holders
      BY <1>2, <3>1 DEF Holders, Inv, Types
    <3>3. QED
      BY <2>d, <3>1, <3>2, Zenon
  <2>7. CASE AbortNext
    <3>1. Holders' = Holders \ {next}
      BY <2>7 DEF AbortNext, Holders
    <3>2. CASE next \in Holders
      <4>1. Holders' = {}
        BY <1>2, <3>1, <3>2 DEF Inv, Locking, MutualExclusion, Holders
      <4>2. CASE semaphore' = TRUE /\ orphan' = orphan
        BY <2>d, <3>2, <4>1, <4>2, Zenon
      <4>3. CASE orphan' = TRUE /\ semaphore' = semaphore
        BY <2>d, <3>2, <4>1, <4>3, Zenon
      <4>4. QED
        BY <2>7, <3>2, <4>2, <4>3 DEF AbortNext
    <3>3. CASE next \notin Holders
      <4>1. Holders' = Holders /\ semaphore' = semaphore /\ orphan' = orphan
        BY <2>7, <3>1, <3>3 DEF AbortNext
      <4>2. QED
        BY <2>d, <4>1, Zenon
    <3>4. QED
      BY <3>2, <3>3
  <2>8. CASE StartFails
    BY <2>8 DEF StartFails
  <2>9. ASSUME NEW t \in Threads, Enter(t) PROVE Holders' # {} /\ ~orphan'
    BY <2>1, <2>9
  <2>10. ASSUME NEW t \in Threads, ReadTime(t) \/ WriteTime(t) \/ Leave(t)
         PROVE  /\ orphan' = orphan /\ ~orphan
                /\ semaphore' = TRUE \/ Holders' # {}
    BY <2>2, <2>3, <2>d, <2>10
  <2>11. QED
    BY <1>2, <2>b, <2>4, <2>5, <2>6, <2>7, <2>8, <2>9, <2>10 DEF Next, Thread
<1>3. QED
  BY <1>1, <1>2, Invariant, PTL DEF Spec

-----------------------------------------------------------------------------
(* The printed shares.                                                     *)

\* A share is rounded down.
LEMMA Share ==
  ASSUME NEW c \in Nat, NEW s \in Nat, s > 0, NEW q, q = (c * 100) \div s
  PROVE  q \in Nat /\ q * s <= 100 * c /\ 100 * c <= q * s + (s - 1)
<1>1. c * 100 \in Nat
  OBVIOUS
<1>2. PICK x \in Nat : x = c * 100
  BY <1>1
<1>3. q \in Nat /\ q * s <= x /\ x <= q * s + (s - 1)
  BY <1>2
<1> QED BY <1>2, <1>3

\* Shares h, printed of counts that add up to u, and one more.
LEMMA OneMoreShare ==
  ASSUME NEW c \in Nat, NEW s \in Nat, s > 0, NEW q, q = (c * 100) \div s,
         NEW h \in Nat, NEW u \in Nat, NEW i \in Nat,
         h * s <= 100 * u, 100 * u <= h * s + i * (s - 1)
  PROVE  /\ h + q \in Nat /\ (h + q) * s <= 100 * (u + c)
         /\ 100 * (u + c) <= (h + q) * s + (i + 1) * (s - 1)
<1>1. q \in Nat /\ q * s <= 100 * c /\ 100 * c <= q * s + (s - 1)
  BY Share
<1>2. (h + q) * s = h * s + q * s /\ (i + 1) * (s - 1) = i * (s - 1) + (s - 1)
  BY <1>1
<1>3. h * s \in Nat /\ q * s \in Nat /\ i * (s - 1) \in Nat /\ s - 1 \in Nat
  BY <1>1
<1>4. PICK a \in Nat, b \in Nat, d \in Nat : a = h * s /\ b = q * s /\ d = i * (s - 1)
  BY <1>3
<1> QED BY <1>1, <1>2, <1>3, <1>4

\* What shares of counts up to the sum s come to, and the shares of all of it.
LEMMA AtMostAll ==
  ASSUME NEW s \in Nat, s > 0, NEW h \in Nat, NEW u \in Nat, h * s <= 100 * u, u <= s
  PROVE  h <= 100
<1>1. h * s <= 100 * s
  <2>1. 100 * u <= 100 * s /\ h * s \in Nat
    OBVIOUS
  <2> QED BY <2>1
<1>2. ASSUME h > 100 PROVE FALSE
  <2>1. (h - 101) * s \in Nat /\ h * s = (h - 101) * s + 101 * s
    BY <1>2
  <2> QED BY <1>1, <2>1
<1> QED BY <1>2

LEMMA NearlyAll ==
  ASSUME NEW s \in Nat, s > 0, NEW h \in Nat, NEW i \in Nat, i > 0, 100 * s <= h * s + i * (s - 1)
  PROVE  h + i > 100
<1>1. h * s + i * (s - 1) = (h + i) * s - i /\ (h + i) * s \in Nat
  OBVIOUS
<1>2. ASSUME h + i <= 100 PROVE FALSE
  <2>1. (100 - (h + i)) * s \in Nat /\ (100 - (h + i)) * s = 100 * s - (h + i) * s
    BY <1>2
  <2> QED BY <1>1, <2>1
<1> QED BY <1>2

\* u[k] is the sum of the first k of the counts c.
Sums(c, u, m) == u \in [0..m -> Nat] /\ u[0] = 0 /\ \A k \in 1..m : u[k] = u[k - 1] + c[k - 1]

\* The StatisticsThread has added up n counts, or has printed n shares of the counts c
\* as it found them, each rounded down.
Adding(u) ==
  shares = 0 /\ Sums(fairnessRunTime, u, n) /\ u[n] = sum /\ \A k \in 0..n : u[k] <= sum

Printing(c, u) ==
  /\ c \in [Tests -> Nat] /\ Sums(c, u, N) /\ u[N] = sum /\ \A k \in 0..N : u[k] <= sum
  /\ \A k \in n..(N - 1) : fairnessRunTime[k] = c[k]
  /\ shares * sum <= 100 * u[n] /\ 100 * u[n] <= shares * sum + n * (sum - 1)

Statistics ==
  /\ sum \in Nat /\ shares \in Nat /\ shares <= 100
  /\ Stat \in alive =>
       /\ pc[Stat] = "sum" => \E u : Adding(u)
       /\ pc[Stat] = "print" => sum > 0 /\ \E c, u : Printing(c, u)
       /\ pc[Stat] = "leave" /\ sum > 0 => shares + N > 100

LEMMA StatisticsInit == Init => Statistics
BY DEF Init, Statistics

\* Steps that leave the statistics and what it counts alone.
LEMMA StatisticsKept ==
  ASSUME Statistics, UNCHANGED stat,
         \/ Stat \notin alive'
         \/ pc'[Stat] = "enter"
         \/ Stat \in alive /\ pc'[Stat] = pc[Stat] /\ fairnessRunTime' = fairnessRunTime
  PROVE  Statistics'
<1>1. sum' = sum /\ shares' = shares /\ n' = n
  BY DEF stat
<1>2. CASE Stat \notin alive' \/ pc'[Stat] = "enter"
  BY <1>1, <1>2 DEF Statistics
<1>3. CASE Stat \in alive /\ pc'[Stat] = pc[Stat] /\ fairnessRunTime' = fairnessRunTime
  <2>1. \A u : Adding(u) => Adding(u)'
    BY <1>1, <1>3 DEF Adding, Sums
  <2>2. \A c, u : Printing(c, u) => Printing(c, u)'
    BY <1>1, <1>3 DEF Printing, Sums
  <2> QED BY <1>1, <1>3, <2>1, <2>2 DEF Statistics
<1> QED BY <1>2, <1>3

\* One more count is added.
LEMMA OneMoreCount ==
  ASSUME Inv, NEW u, Adding(u), n \in Tests, sum \in Nat, NEW x, x = sum + fairnessRunTime[n],
         NEW v, v = [k \in 0..(n + 1) |-> IF k <= n THEN u[k] ELSE x]
  PROVE  x \in Nat /\ Sums(fairnessRunTime, v, n + 1) /\ v[n + 1] = x /\ \A k \in 0..(n + 1) : v[k] <= x
<1>1. n \in Nat /\ fairnessRunTime[n] \in Nat /\ x \in Nat /\ x >= sum
  BY ThreadsAssumption DEF Inv, Types, Tests
<1>2. u \in [0..n -> Nat] /\ u[0] = 0 /\ u[n] = sum /\ (\A k \in 0..n : u[k] <= sum)
      /\ \A k \in 1..n : u[k] = u[k - 1] + fairnessRunTime[k - 1]
  BY DEF Adding, Sums
<1>3. v \in [0..(n + 1) -> Nat] /\ v[n + 1] = x /\ \A k \in 0..n : v[k] = u[k]
  BY <1>1, <1>2
<1>4. ASSUME NEW k \in 1..(n + 1) PROVE v[k] = v[k - 1] + fairnessRunTime[k - 1]
  <2>1. CASE k = n + 1
    <3>1. v[k] = x /\ k - 1 = n /\ v[n] = sum
      BY <1>1, <1>2, <1>3, <2>1
    <3> QED BY <3>1
  <2>2. CASE k # n + 1
    <3>1. k \in 1..n /\ k \in 0..n /\ k - 1 \in 0..n
      BY <1>1, <2>2
    <3> QED BY <1>2, <1>3, <3>1
  <2> QED BY <2>1, <2>2
<1>5. ASSUME NEW k \in 0..(n + 1) PROVE v[k] <= x
  <2>1. CASE k = n + 1
    BY <1>1, <1>3, <2>1
  <2>2. CASE k # n + 1
    <3>1. k \in 0..n /\ v[k] = u[k] /\ u[k] <= sum /\ u[k] \in Nat
      BY <1>1, <1>2, <1>3, <2>2
    <3> QED BY <1>1, <3>1
  <2> QED BY <2>1, <2>2
<1>6. v[0] = 0
  BY <1>1, <1>2, <1>3
<1> QED BY <1>1, <1>3, <1>4, <1>5, <1>6 DEF Sums

LEMMA StatisticsAdds ==
  ASSUME Inv, Statistics, AddUp
  PROVE  Statistics'
<1>1. /\ Stat \in alive /\ pc[Stat] = "sum" /\ alive' = alive /\ fairnessRunTime' = fairnessRunTime
      /\ sum' = sum + fairnessRunTime[n] /\ n' = (IF n = N - 1 THEN 0 ELSE n + 1) /\ shares' = shares
      /\ pc' = [pc EXCEPT ![Stat] = IF n = N - 1 THEN AfterLoop(sum + fairnessRunTime[n]) ELSE "sum"]
  BY DEF AddUp, Step
<1>2. /\ n \in Tests /\ pc \in [Threads -> {"enter", "read", "write", "sum", "print", "leave"}]
      /\ Stat \in Threads /\ fairnessRunTime \in [Tests -> Nat]
  BY <1>1, Sets DEF Inv, Types
<1>3. PICK u : Adding(u)
  BY <1>1 DEF Statistics
<1>4. PICK x : x = sum + fairnessRunTime[n]
  OBVIOUS
<1>5. PICK v : v = [k \in 0..(n + 1) |-> IF k <= n THEN u[k] ELSE x]
  OBVIOUS
<1>6. sum \in Nat /\ shares = 0 /\ n \in Nat
  BY <1>2, <1>3, ThreadsAssumption DEF Statistics, Adding, Tests
<1>7. x \in Nat /\ Sums(fairnessRunTime, v, n + 1) /\ v[n + 1] = x /\ \A k \in 0..(n + 1) : v[k] <= x
  BY <1>2, <1>3, <1>4, <1>5, <1>6, OneMoreCount
<1>8. CASE n # N - 1
  <2>1. n' = n + 1 /\ pc'[Stat] = "sum" /\ sum' = x
    BY <1>1, <1>2, <1>4, <1>8
  <2>2. Adding(v)'
    BY <1>1, <1>6, <1>7, <2>1 DEF Adding, Sums
  <2> QED BY <1>1, <1>6, <1>7, <2>1, <2>2 DEF Statistics
<1>9. CASE n = N - 1
  <2>1. n' = 0 /\ n + 1 = N /\ sum' = x /\ pc'[Stat] = AfterLoop(x)
    <3>1. pc' = [pc EXCEPT ![Stat] = AfterLoop(x)]
      BY <1>1, <1>4, <1>9
    <3> QED BY <1>1, <1>2, <1>4, <1>6, <1>9, <3>1, ThreadsAssumption
  <2>2. Printing(fairnessRunTime, v)'
    <3>1. fairnessRunTime' \in [Tests -> Nat] /\ Sums(fairnessRunTime', v, N)
      BY <1>1, <1>2, <1>7, <2>1
    <3>2. v[0] = 0 /\ 0 \in 0..N
      BY <3>1, ThreadsAssumption DEF Sums
    <3>3. shares' * sum' <= 100 * v[0] /\ 100 * v[0] <= shares' * sum' + 0 * (sum' - 1)
      BY <1>1, <1>6, <1>7, <2>1, <3>2
    <3> QED BY <1>7, <2>1, <3>1, <3>3 DEF Printing, Sums
  <2>3. pc'[Stat] = "print" => sum' > 0
    BY <2>1 DEF AfterLoop
  <2>4. pc'[Stat] = "leave" => ~(sum' > 0)
    BY <2>1 DEF AfterLoop
  <2>5. pc'[Stat] # "sum"
    BY <2>1 DEF AfterLoop
  <2> QED BY <1>1, <1>6, <1>7, <2>1, <2>2, <2>3, <2>4, <2>5 DEF Statistics
<1> QED BY <1>8, <1>9

LEMMA StatisticsPrints ==
  ASSUME Inv, Statistics, PrintShare
  PROVE  Statistics'
<1>1. /\ Stat \in alive /\ pc[Stat] = "print" /\ alive' = alive /\ sum' = sum /\ n' = n + 1
      /\ shares' = shares + (fairnessRunTime[n] * 100) \div sum
      /\ fairnessRunTime' = [fairnessRunTime EXCEPT ![n] = 0]
      /\ pc' = [pc EXCEPT ![Stat] = IF n = N - 1 THEN "leave" ELSE "print"]
  BY DEF PrintShare, Step
<1>2. /\ n \in Tests /\ pc \in [Threads -> {"enter", "read", "write", "sum", "print", "leave"}]
      /\ Stat \in Threads /\ fairnessRunTime \in [Tests -> Nat] /\ n \in Nat /\ N \in Nat /\ n < N
  BY <1>1, Sets, ThreadsAssumption DEF Inv, Types, Tests
<1>3. PICK c, u : Printing(c, u)
  BY <1>1 DEF Statistics
<1>4. sum \in Nat /\ shares \in Nat /\ sum > 0
  BY <1>1 DEF Statistics
<1>5. /\ n \in 0..N /\ n + 1 \in 0..N /\ n + 1 \in 1..N /\ (n + 1) - 1 = n /\ n \in n..(N - 1)
  BY <1>2
<1>6. /\ c[n] = fairnessRunTime[n] /\ c[n] \in Nat /\ u[n] \in Nat /\ u[n + 1] \in Nat
      /\ u[n + 1] = u[n] + c[n] /\ u[n + 1] <= sum
  BY <1>2, <1>3, <1>5 DEF Printing, Sums
<1>7. PICK q : q = (c[n] * 100) \div sum
  OBVIOUS
<1>8. /\ shares + q \in Nat /\ (shares + q) * sum <= 100 * (u[n] + c[n])
      /\ 100 * (u[n] + c[n]) <= (shares + q) * sum + (n + 1) * (sum - 1)
  <2>1. shares * sum <= 100 * u[n] /\ 100 * u[n] <= shares * sum + n * (sum - 1)
    BY <1>3 DEF Printing
  <2>2. PICK a \in Nat, b \in Nat : a = c[n] /\ b = u[n]
    BY <1>6
  <2>3. q = (a * 100) \div sum /\ shares * sum <= 100 * b /\ 100 * b <= shares * sum + n * (sum - 1)
    BY <1>7, <2>1, <2>2
  <2>4. /\ shares + q \in Nat /\ (shares + q) * sum <= 100 * (b + a)
        /\ 100 * (b + a) <= (shares + q) * sum + (n + 1) * (sum - 1)
    <3>1. PICK s \in Nat, h \in Nat, i \in Nat : s = sum /\ h = shares /\ i = n
      BY <1>2, <1>4
    <3>2. s > 0 /\ q = (a * 100) \div s /\ h * s <= 100 * b /\ 100 * b <= h * s + i * (s - 1)
      BY <1>4, <2>3, <3>1
    <3>3. /\ h + q \in Nat /\ (h + q) * s <= 100 * (b + a)
          /\ 100 * (b + a) <= (h + q) * s + (i + 1) * (s - 1)
      BY <3>2, OneMoreShare
    <3> QED BY <3>1, <3>3
  <2> QED BY <2>2, <2>4, Zenon
<1>9. shares' = shares + q /\ shares' \in Nat
  BY <1>1, <1>6, <1>7, <1>8
<1>10. shares' * sum' <= 100 * u[n + 1] /\ 100 * u[n + 1] <= shares' * sum' + (n + 1) * (sum' - 1)
  BY <1>1, <1>6, <1>8, <1>9
<1>11. shares' <= 100
  BY <1>1, <1>4, <1>6, <1>9, <1>10, AtMostAll
<1>12. CASE n # N - 1
  <2>1. pc'[Stat] = "print"
    BY <1>1, <1>2, <1>12
  <2>2. \A k \in (n + 1)..(N - 1) : fairnessRunTime'[k] = c[k]
    <3> TAKE k \in (n + 1)..(N - 1)
    <3>1. k \in Tests /\ k # n /\ k \in n..(N - 1)
      BY <1>2 DEF Tests
    <3>2. fairnessRunTime'[k] = fairnessRunTime[k]
      BY <1>1, <1>2, <3>1
    <3> QED BY <1>3, <3>1, <3>2 DEF Printing
  <2>3. Printing(c, u)'
    BY <1>1, <1>3, <1>10, <2>2 DEF Printing, Sums
  <2> QED BY <1>1, <1>4, <1>9, <1>11, <2>1, <2>3 DEF Statistics
<1>13. CASE n = N - 1
  <2>1. pc'[Stat] = "leave" /\ n + 1 = N
    BY <1>1, <1>2, <1>13
  <2>2. u[N] = sum
    BY <1>3 DEF Printing
  <2>3. 100 * sum <= shares' * sum + N * (sum - 1)
    BY <1>1, <1>10, <2>1, <2>2
  <2>4. shares' + N > 100
    BY <1>4, <1>9, <2>3, NearlyAll, ThreadsAssumption
  <2> QED BY <1>1, <1>4, <1>9, <1>11, <2>1, <2>4 DEF Statistics
<1> QED BY <1>12, <1>13

\* The statistics begins.
LEMMA StatisticsEnters ==
  ASSUME Inv, Statistics, Enter(Stat)
  PROVE  Statistics'
<1>1. /\ n' = 0 /\ sum' = 0 /\ shares' = 0 /\ fairnessRunTime' = fairnessRunTime
      /\ pc' = [pc EXCEPT ![Stat] = "sum"]
  BY DEF Enter, Step
<1>2. pc'[Stat] = "sum"
  BY <1>1, Sets DEF Inv, Types
<1>3. PICK u : u = [k \in 0..0 |-> 0]
  OBVIOUS
<1>4. Adding(u)'
  BY <1>1, <1>3 DEF Adding, Sums
<1> QED BY <1>1, <1>2, <1>4 DEF Statistics

LEMMA StatisticsStep ==
  ASSUME Inv, Statistics, [Next]_vars
  PROVE  Statistics'
<1>a. /\ alive \subseteq Threads /\ Stat \in Threads
      /\ pc \in [Threads -> {"enter", "read", "write", "sum", "print", "leave"}]
  BY Sets DEF Inv, Types
<1>1. ASSUME NEW t \in Threads, Enter(t), t # Stat PROVE Statistics'
  BY <1>1, <1>a, StatisticsKept DEF Enter, Step, stat, console, Statistics
<1>2. ASSUME NEW t \in Threads, ReadTime(t) PROVE Statistics'
  BY <1>2, <1>a, Sets, StatisticsKept DEF ReadTime, Step, stat, console, Statistics
<1>3. ASSUME NEW t \in Threads, WriteTime(t) PROVE Statistics'
  <2>1. t \in Tests /\ t \in alive /\ pc[t] = "write" /\ t # Stat /\ UNCHANGED <<stat, alive>>
        /\ pc' = [pc EXCEPT ![t] = "leave"]
    BY <1>3, Sets DEF WriteTime, Step, console
  <2>2. pc'[Stat] = pc[Stat]
    BY <1>a, <2>1
  <2>3. Stat \in alive => pc[Stat] = "enter"
    BY <2>1 DEF Inv, Locking, MutualExclusion, Holders
  <2> QED BY <2>1, <2>2, <2>3, StatisticsKept
<1>4. ASSUME NEW t \in Threads, Leave(t) PROVE Statistics'
  <2>1. pc' = [pc EXCEPT ![t] = "enter"] /\ UNCHANGED <<stat, alive, fairnessRunTime>>
    BY <1>4 DEF Leave, Step, console
  <2>2. pc'[Stat] = IF t = Stat THEN "enter" ELSE pc[Stat]
    BY <1>a, <2>1
  <2> QED BY <2>1, <2>2, StatisticsKept
<1>5. CASE Command \/ StartFails
  BY <1>5, StatisticsKept DEF Command, StartFails
<1>6. CASE StartNext
  <2>1. /\ command = "start" /\ alive' = alive \cup {next} /\ pc' = [pc EXCEPT ![next] = "enter"]
        /\ UNCHANGED stat /\ next \in Threads
    BY <1>6 DEF StartNext, Inv, Types
  <2>2. Stat \notin alive
    BY <2>1, ThreadsAssumption DEF Inv, Population, Threads, Stat
  <2>3. CASE next = Stat
    <3>1. pc'[Stat] = "enter"
      BY <1>a, <2>1, <2>3
    <3> QED BY <2>1, <3>1, StatisticsKept
  <2>4. CASE next # Stat
    <3>1. Stat \notin alive'
      BY <2>1, <2>2, <2>4
    <3> QED BY <2>1, <3>1, StatisticsKept
  <2> QED BY <2>3, <2>4
<1>7. CASE AbortNext
  BY <1>7, StatisticsKept DEF AbortNext
<1>8. CASE UNCHANGED vars
  BY <1>8, StatisticsKept DEF vars, console, Statistics
<1> QED BY <1>1, <1>2, <1>3, <1>4, <1>5, <1>6, <1>7, <1>8, StatisticsEnters, StatisticsAdds,
           StatisticsPrints DEF Next, Thread

\* However the counts divide, and whatever a restart leaves behind, the shares printed
\* together never exceed 100 percent, and fall short of it by less than one for each thread.
THEOREM SharesAreWhole == Spec => []SharesAddUp
<1>1. Statistics => SharesAddUp
  BY DEF Statistics, SharesAddUp
<1> QED BY <1>1, Invariant, StatisticsInit, StatisticsStep, PTL DEF Spec
=============================================================================
