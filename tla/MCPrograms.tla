----------------------------- MODULE MCPrograms -----------------------------
(***************************************************************************)
(* The programs for TLC that share no state: the console's input loop      *)
(* (LineEditor), its thread test (ThreadLimit), ipc1 and ipc2 (Pairing)    *)
(* and the profiler (Profiling).  Each behaviour runs one of them.         *)
(***************************************************************************)
EXTENDS LineEditor

CONSTANTS Threads, MaxStarts, MaxTests, None    \* ThreadLimit
CONSTANTS Ones, Twos                            \* Pairing
CONSTANTS Procs, Samples, Keys                  \* Profiling

VARIABLES con, tests, n, limitsStarted, threadPc, value, holder
VARIABLES one, result, string, two, walls, known, opened, call
VARIABLES profilerPc, started, wall, profiling, usage, flushed
VARIABLE  program

threadVars   == <<con, tests, n, limitsStarted, threadPc, value, holder>>
pairVars     == <<one, result, string, two, walls, known, opened, call>>
profilerVars == <<profilerPc, started, wall, profiling, usage, flushed>>
allVars      == <<vars, threadVars, pairVars, profilerVars, program>>

T == INSTANCE ThreadLimit WITH MaxRuns <- MaxTests, runs <- tests, pc <- threadPc
I == INSTANCE Pairing
P == INSTANCE Profiling WITH pc <- profilerPc

ASSUME ProgramsAssumption ==
  /\ MaxStarts \in Nat /\ MaxTests \in Nat /\ None \notin Threads
  /\ Ones \cap Twos = {}
  /\ Samples \in Nat \ {0} /\ {"home", "end", "delete"} \subseteq Keys

ExitLine == <<"a", "a">>

-----------------------------------------------------------------------------
AllInit ==
  /\ program \in {"lines", "threads", "pair", "profiler"}
  /\ Init /\ T!Init /\ I!Init /\ P!Init

AllNext ==
  /\ UNCHANGED program
  /\ \/ program = "lines" /\ Next /\ UNCHANGED <<threadVars, pairVars, profilerVars>>
     \/ program = "threads" /\ T!Next /\ UNCHANGED <<vars, pairVars, profilerVars>>
     \/ program = "pair" /\ I!Next /\ UNCHANGED <<vars, threadVars, profilerVars>>
     \/ program = "profiler" /\ P!Next /\ UNCHANGED <<vars, threadVars, pairVars>>

\* The fairness of ipc1 and ipc2, as their module states it.
AllSpec ==
  /\ AllInit /\ [][AllNext]_allVars
  /\ program = "pair" =>
       /\ \A a \in Ones : WF_pairVars(I!One(a)) /\ WF_pairVars(I!Task(a))
       /\ \A b \in Twos : WF_pairVars(I!Two(b))

-----------------------------------------------------------------------------
\* ThreadLimit: limitsStarted misses no thread and counts none twice.
EachCountsOnce == T!EachCountsOnce

\* Pairing: each ipc1 prints its own answer, and ends.
AnswersArrive == I!AnswersArrive
OnesEnd       == program = "pair" => I!OnesEnd

\* Profiling: the kernel's one profile belongs to the process in the loop.
StartedIsProfiling == P!StartedIsProfiling
=============================================================================
