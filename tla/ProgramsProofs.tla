--------------------------- MODULE ProgramsProofs ---------------------------
(***************************************************************************)
(* Proofs about the console's thread test (ThreadLimit), ipc1 and ipc2     *)
(* (Pairing) and the profiler (Profiling), as MCPrograms puts them         *)
(* together: for any numbers of threads, of starts of each program, of     *)
(* tests and of samples.                                                   *)
(***************************************************************************)
EXTENDS MCPrograms, FiniteSetTheorems, SequenceTheorems, TLAPS

-----------------------------------------------------------------------------
(* ThreadLimit.                                                            *)

\* The kernel's threads are finitely many.
ThreadsAssumption == IsFiniteSet(Threads)

LEMMA NoThreadIsNone == None \notin Threads
BY ProgramsAssumption DEF ProgramsAssumption

LimitTypes ==
  /\ con \in {"prompt", "loop", "print"} /\ tests \in Nat /\ n \in Nat
  /\ limitsStarted \in Nat /\ holder \in Threads \cup {None}
  /\ threadPc \in [Threads -> {"free", "enter", "read", "write", "leave", "exit"}]
  /\ value \in [Threads -> Nat]

\* What the semaphore is for: one thread at a time between Enter and Leave, so that in the
\* first run nobody counts between the reading and the writing of limitsStarted.
Inside ==
  /\ tests = 0 => con = "prompt" /\ \A t \in Threads : threadPc[t] = "free"
  /\ \A t \in Threads : threadPc[t] \in {"read", "write", "leave"} <=> holder = t
  /\ tests = 1 => \A t \in Threads : threadPc[t] = "write" => value[t] = limitsStarted

Uncounted == {t \in Threads : threadPc[t] \in {"enter", "read", "write"}}
Begun     == IF con = "prompt" THEN n - 1 ELSE n
Counted   == tests = 1 => limitsStarted + Cardinality(Uncounted) = Begun

LimitInv == LimitTypes /\ Inside /\ Counted

LEMMA SameCardinality == \A S : T!Cardinality(S) = Cardinality(S)
BY DEF T!Cardinality, Cardinality

LEMMA CountedIsEachCountsOnce == Counted <=> EachCountsOnce
BY SameCardinality DEF Counted, EachCountsOnce, T!EachCountsOnce, Uncounted, Begun

LEMMA UncountedFinite ==
  ASSUME ThreadsAssumption
  PROVE  IsFiniteSet(Uncounted) /\ Cardinality(Uncounted) \in Nat
<1>1. IsFiniteSet(Uncounted)
  BY FS_Subset DEF ThreadsAssumption, Uncounted
<1> QED BY <1>1, FS_CardinalityType

LEMMA LimitInit ==
  ASSUME ThreadsAssumption, T!Init
  PROVE  LimitInv
BY NoThreadIsNone DEF T!Init, LimitInv, LimitTypes, Inside, Counted

\* What a step of a thread leaves alone in the sum.
LEMMA CountedStays ==
  ASSUME LimitInv, tests' = tests, limitsStarted' = limitsStarted, Begun' = Begun, Uncounted' = Uncounted
  PROVE  Counted'
BY DEF LimitInv, Counted

LEMMA CommandStep ==
  ASSUME ThreadsAssumption, LimitInv, T!Command
  PROVE  LimitInv'
<1> USE DEF LimitInv, LimitTypes, T!Command
<1>1. LimitTypes' /\ Inside'
  BY DEF Inside
<1>2. ASSUME tests' = 1 PROVE (limitsStarted + Cardinality(Uncounted))' = Begun'
  <2>1. Uncounted' = {}
    BY <1>2 DEF Inside, Uncounted
  <2>2. Begun' = 0 /\ limitsStarted' = 0
    BY DEF Begun
  <2> QED BY <2>1, <2>2, FS_EmptySet
<1> QED BY <1>1, <1>2 DEF Counted

LEMMA StartStep ==
  ASSUME ThreadsAssumption, LimitInv, T!Start
  PROVE  LimitInv'
<1> USE DEF LimitInv, LimitTypes
<1>1. PICK t \in Threads : threadPc[t] = "free" /\ threadPc' = [threadPc EXCEPT ![t] = "enter"]
  BY DEF T!Start
<1>2. con = "loop" /\ con' = "print" /\ n' = n + 1 /\ UNCHANGED <<tests, limitsStarted, value, holder>>
  BY DEF T!Start
<1>3. LimitTypes' /\ Inside'
  BY <1>1, <1>2 DEF Inside
<1>4. Uncounted' = Uncounted \cup {t} /\ t \notin Uncounted
  BY <1>1 DEF Uncounted
<1>5. Cardinality(Uncounted') = Cardinality(Uncounted) + 1
  BY <1>4, UncountedFinite, FS_AddElement
<1>6. Begun' = Begun + 1
  BY <1>2 DEF Begun
<1> QED BY <1>2, <1>3, <1>5, <1>6, UncountedFinite DEF Counted, Begun

LEMMA ThrowsStep ==
  ASSUME ThreadsAssumption, LimitInv, T!StartThrows \/ T!Report
  PROVE  LimitInv'
<1> USE DEF LimitInv, LimitTypes, T!StartThrows, T!Report
<1>1. LimitTypes' /\ Inside'
  BY DEF Inside
<1>2. Uncounted' = Uncounted
  BY DEF Uncounted
<1>3. Begun' = Begun
  BY DEF Begun
<1> QED BY <1>1, <1>2, <1>3, CountedStays

\* The steps of a thread that write neither limitsStarted nor the set Uncounted.
LEMMA OtherThreadStep ==
  ASSUME ThreadsAssumption, LimitInv, NEW t \in Threads,
         T!Enter(t) \/ T!Read(t) \/ T!Leave(t) \/ T!ExitThread(t)
  PROVE  LimitInv'
<1> USE DEF LimitInv, LimitTypes, T!Enter, T!Read, T!Leave, T!ExitThread, T!GoesOn
<1>1. LimitTypes'
  OBVIOUS
<1>2. Inside'
  BY NoThreadIsNone DEF Inside
<1>3. Uncounted' = Uncounted
  BY DEF Uncounted
<1>4. Begun' = Begun
  BY DEF Begun
<1> QED BY <1>1, <1>2, <1>3, <1>4, CountedStays

\* The thread that writes is the only one inside: nothing was written since it has read.
LEMMA WriteStep ==
  ASSUME ThreadsAssumption, LimitInv, NEW t \in Threads, T!Write(t)
  PROVE  LimitInv'
<1> USE DEF LimitInv, LimitTypes, T!Write, T!GoesOn
<1>1. LimitTypes' /\ Inside'
  BY NoThreadIsNone DEF Inside
<1>2. Uncounted' = Uncounted \ {t} /\ t \in Uncounted
  BY DEF Uncounted
<1>3. Cardinality(Uncounted') = Cardinality(Uncounted) - 1
  BY <1>2, UncountedFinite, FS_RemoveElement
<1>4. tests = 1 => limitsStarted' = limitsStarted + 1
  BY DEF Inside
<1>5. Begun' = Begun
  BY DEF Begun
<1> QED BY <1>1, <1>3, <1>4, <1>5, UncountedFinite DEF Counted, Begun

LEMMA LimitNext ==
  ASSUME ThreadsAssumption, LimitInv, T!Next \/ UNCHANGED threadVars
  PROVE  LimitInv'
<1>1. CASE UNCHANGED threadVars
  BY <1>1 DEF threadVars, LimitInv, LimitTypes, Inside, Counted, Uncounted, Begun
<1> QED
  BY <1>1, CommandStep, StartStep, ThrowsStep, OtherThreadStep, WriteStep DEF T!Next, T!Thread

\* The console's thread test, in the first run: limitsStarted and the threads that have
\* still to count themselves make up the threads started, for any number of threads.
THEOREM EachThreadCounts ==
  ASSUME ThreadsAssumption
  PROVE  AllSpec => []EachCountsOnce
<1>1. AllInit => LimitInv
  BY LimitInit DEF AllInit
<1>2. LimitInv /\ [AllNext]_allVars => LimitInv'
  BY LimitNext DEF AllNext, allVars
<1>3. LimitInv => EachCountsOnce
  BY CountedIsEachCountsOnce DEF LimitInv
<1> QED BY <1>1, <1>2, <1>3, PTL DEF AllSpec

-----------------------------------------------------------------------------
(* Pairing.                                                                *)

PairTypes ==
  /\ one \in [Ones -> I!OneStates] /\ two \in [Twos -> I!TwoStates]
  /\ result \in [Ones -> {0, I!Number}] /\ call \in [Ones -> {"none", "TestFunction", "ToString"}]
  /\ string \in [Ones -> {<<>>, <<I!Prefix>>} \cup {<<I!Prefix, k>> : k \in {0, I!Number}}]

\* The barrier is opened by an ipc2 whose socket is known, and for nobody earlier.
OpenedIsKnown ==
  /\ \A b \in Twos : two[b] = "go" => b \in known
  /\ opened # {} => known # {}
  /\ \A a \in Ones : one[a] = "plug" => known # {}

\* Where ipc1 is and what the call it waits for has done so far: the task of a call runs
\* only while its caller waits.
CallsInTurn ==
  \A a \in Ones :
    /\ call[a] = "TestFunction" => one[a] = "waitRemote"
    /\ call[a] = "ToString" => one[a] = "waitString"
    /\ one[a] = "waitRemote" /\ call[a] = "none" => result[a] = I!Number
    /\ one[a] \in {"ipcnew", "toString", "waitString", "print"} => result[a] = I!Number
    /\ one[a] = "toString" \/ call[a] = "ToString" => string[a] = <<I!Prefix>>
    /\ one[a] = "print" \/ (one[a] = "waitString" /\ call[a] = "none") =>
         string[a] = <<I!Prefix, I!Number>>

PairInv == PairTypes /\ OpenedIsKnown /\ CallsInTurn

LEMMA PairInit ==
  ASSUME I!Init
  PROVE  PairInv
BY DEF I!Init, PairInv, PairTypes, OpenedIsKnown, CallsInTurn, I!OneStates, I!TwoStates

LEMMA TwoStep ==
  ASSUME PairInv, NEW b \in Twos, I!Two(b)
  PROVE  PairInv'
<1> USE DEF PairInv, PairTypes, I!Two, I!MakeSync, I!Register2, I!Register2Throws, I!Plug2,
            I!Plug2Throws, I!Go, I!TwoGoes, I!kernel, I!TwoStates
<1>1. PairTypes'
  OBVIOUS
<1>2. OpenedIsKnown'
  BY DEF OpenedIsKnown
<1>3. CallsInTurn'
  BY DEF CallsInTurn
<1> QED BY <1>1, <1>2, <1>3

LEMMA AppendOne == \A x, y : Append(<<x>>, y) = <<x, y>>
<1> TAKE x, y
<1> DEFINE S == {x, y}
<1>1. <<x>> \in Seq(S) /\ <<x, y>> \in Seq(S) /\ y \in S
  OBVIOUS
<1>2. /\ Append(<<x>>, y) \in Seq(S) /\ Len(Append(<<x>>, y)) = 2
      /\ Append(<<x>>, y)[1] = x /\ Append(<<x>>, y)[2] = y
  BY <1>1, AppendProperties
<1>3. Len(<<x, y>>) = 2 /\ <<x, y>>[1] = x /\ <<x, y>>[2] = y
  OBVIOUS
<1>4. \A k \in 1..2 : Append(<<x>>, y)[k] = <<x, y>>[k]
  BY <1>2, <1>3
<1> HIDE DEF S
<1> QED BY <1>1, <1>2, <1>3, <1>4, SeqEqual

LEMMA TaskStep ==
  ASSUME PairInv, NEW a \in Ones, I!Task(a)
  PROVE  PairInv'
<1> USE DEF PairInv, PairTypes, I!Task, I!TestFunction, I!ToString
<1>1. ASSUME call[a] = "ToString" PROVE Append(string[a], result[a]) = <<I!Prefix, I!Number>>
  <2>1. string[a] = <<I!Prefix>> /\ result[a] = I!Number
    BY <1>1 DEF CallsInTurn
  <2> QED BY <2>1, AppendOne
<1>2. PairTypes'
  <2>1. string' \in [Ones -> {<<>>, <<I!Prefix>>} \cup {<<I!Prefix, k>> : k \in {0, I!Number}}]
    <3>1. CASE I!ToString(a)
      BY <1>1, <3>1
    <3>2. CASE I!TestFunction(a)
      BY <3>2
    <3> QED BY <3>1, <3>2
  <2> QED BY <2>1
<1>3. OpenedIsKnown'
  BY DEF OpenedIsKnown
<1>4. CallsInTurn'
  BY <1>1 DEF CallsInTurn
<1> QED BY <1>2, <1>3, <1>4

LEMMA OneStep ==
  ASSUME PairInv, NEW a \in Ones, I!One(a)
  PROVE  PairInv'
<1> USE DEF PairInv, PairTypes, I!One, I!Register1, I!Register1Throws, I!Arrive, I!Plug1, I!Plug1Throws,
            I!CallThrows, I!Ends, I!Remote, I!IpcNew, I!RemoteString, I!PrintAndEnd, I!Call, I!Returned,
            I!OneGoes, I!kernel, I!OneStates
<1>1. PairTypes'
  OBVIOUS
<1>2. OpenedIsKnown'
  BY DEF OpenedIsKnown
<1>3. CallsInTurn'
  BY DEF CallsInTurn
<1> QED BY <1>1, <1>2, <1>3

LEMMA PairNext ==
  ASSUME PairInv, I!Next \/ UNCHANGED pairVars
  PROVE  PairInv'
<1>1. CASE UNCHANGED pairVars
  BY <1>1 DEF pairVars, PairInv, PairTypes, OpenedIsKnown, CallsInTurn
<1> QED BY <1>1, TwoStep, TaskStep, OneStep DEF I!Next

\* ipc1 and ipc2, started any number of times: who has passed the barrier finds a socket,
\* and each ipc1 prints the number its own call returned behind its own prefix.
THEOREM PrintsItsAnswer == AllSpec => []AnswersArrive
<1>1. AllInit => PairInv
  BY PairInit DEF AllInit
<1>2. PairInv /\ [AllNext]_allVars => PairInv'
  BY PairNext DEF AllNext, allVars
<1>3. PairInv => AnswersArrive
  BY DEF PairInv, OpenedIsKnown, CallsInTurn, AnswersArrive, I!AnswersArrive
<1> QED BY <1>1, <1>2, <1>3, PTL DEF AllSpec

-----------------------------------------------------------------------------
(* Profiling.                                                              *)

ProfilerTypes ==
  /\ profilerPc \in [Procs -> {"register", "setup", "keyEvent", "loop", "ended"}]
  /\ started \in [Procs -> BOOLEAN] /\ profiling \in BOOLEAN

\* The wall admits one process, and only that one comes to the loop.
OneOwner ==
  /\ wall \subseteq Procs /\ \A p, q \in wall : p = q
  /\ \A p \in Procs : p \in wall <=> profilerPc[p] \in {"setup", "keyEvent", "loop"}
  /\ \A p \in Procs : started[p] => profilerPc[p] = "loop"

OnIsStarted == profiling <=> \E p \in Procs : started[p]

ProfilerInv == ProfilerTypes /\ OneOwner /\ OnIsStarted

LEMMA ProfilerInit ==
  ASSUME P!Init
  PROVE  ProfilerInv
BY DEF P!Init, ProfilerInv, ProfilerTypes, OneOwner, OnIsStarted

LEMMA SetupStep ==
  ASSUME ProfilerInv, NEW p \in Procs,
         P!Register(p) \/ P!RegisterThrows(p) \/ P!Setup(p) \/ P!MakeKeyEvent(p) \/ P!KeyEventThrows(p)
  PROVE  ProfilerInv'
<1> USE DEF ProfilerInv, P!Register, P!RegisterThrows, P!Setup, P!MakeKeyEvent, P!KeyEventThrows,
            P!GoesOn, P!kernel
<1>1. ProfilerTypes'
  BY DEF ProfilerTypes
<1>2. OneOwner'
  BY DEF ProfilerTypes, OneOwner
<1>3. OnIsStarted'
  BY DEF OnIsStarted
<1> QED BY <1>1, <1>2, <1>3

\* Only one process is in the loop, so what it believes is all there is to believe.
LEMMA KeyStep ==
  ASSUME ProfilerInv, NEW p \in Procs, NEW ctrl \in BOOLEAN, NEW key \in Keys, P!GetKey(p, ctrl, key)
  PROVE  ProfilerInv'
<1>1. /\ profilerPc[p] = "loop" /\ UNCHANGED <<profilerPc, wall>>
      /\ \/ started' = [started EXCEPT ![p] = TRUE] /\ profiling' = TRUE
         \/ started' = [started EXCEPT ![p] = FALSE] /\ profiling' = FALSE
         \/ UNCHANGED <<started, profiling>>
  BY DEF P!GetKey, P!Start, P!Pause
<1>2. ProfilerTypes'
  BY <1>1 DEF ProfilerInv, ProfilerTypes
<1>3. OneOwner'
  BY <1>1 DEF ProfilerInv, ProfilerTypes, OneOwner
<1>4. \A q \in Procs \ {p} : ~started[q]
  BY <1>1 DEF ProfilerInv, OneOwner
<1>5. OnIsStarted'
  BY <1>1, <1>4 DEF ProfilerInv, ProfilerTypes, OnIsStarted
<1> QED BY <1>2, <1>3, <1>5 DEF ProfilerInv

LEMMA ProfilerNext ==
  ASSUME ProfilerInv, P!Next \/ UNCHANGED profilerVars
  PROVE  ProfilerInv'
<1>1. ASSUME UNCHANGED <<profilerPc, started, wall, profiling>> PROVE ProfilerInv'
  BY <1>1 DEF ProfilerInv, ProfilerTypes, OneOwner, OnIsStarted
<1>2. CASE P!Sample \/ UNCHANGED profilerVars
  BY <1>1, <1>2 DEF P!Sample, profilerVars
<1> QED BY <1>2, SetupStep, KeyStep DEF P!Next

\* However often the profiler is started, the kernel's profile is on exactly when the one
\* process that owns the wall and is in its loop believes so.
THEOREM ProfileBelongsToTheLoop == AllSpec => []StartedIsProfiling
<1>1. AllInit => ProfilerInv
  BY ProfilerInit DEF AllInit
<1>2. ProfilerInv /\ [AllNext]_allVars => ProfilerInv'
  BY ProfilerNext DEF AllNext, allVars
<1>3. ProfilerInv => StartedIsProfiling
  BY DEF ProfilerInv, ProfilerTypes, OneOwner, OnIsStarted, StartedIsProfiling, P!StartedIsProfiling
<1> QED BY <1>1, <1>2, <1>3, PTL DEF AllSpec
=============================================================================
