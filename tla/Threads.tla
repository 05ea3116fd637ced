------------------------------ MODULE Threads ------------------------------
(***************************************************************************)
(* Class Thread: Start, Join, Abort, Notify and IsAlive of Thread objects, *)
(* called by any number of threads of a program at once; one of them may   *)
(* be the thread that was just started, which has the object as well.      *)
(* The kernel writes the handle of a new thread into the object before     *)
(* THREAD_CREATE returns; what it knows of a thread is external.           *)
(***************************************************************************)
EXTENDS Naturals

CONSTANTS Callers, Objects,
          MaxThreads,     \* bound: threads started
          Codes,          \* what Run returns
          NoThread        \* EXIT_CODE_NO_THREAD, which Run may return, too

VARIABLES
  threadStarted, pidHandle,     \* of each object; 0 is a handle never written
  call,       \* the system call each caller is in, and the thread it is about
  answer,     \* what Join, IsAlive or Notify has just told the caller, and of which
              \* object and thread
  begun,      \* history: the threads that Start of each object has created
  state, code \* kernel: the threads and their exit codes

vars == <<threadStarted, pidHandle, call, answer, begun, state, code>>

AllThreads == 1..MaxThreads
NoCall  == [name |-> "none", thread |-> 0]
Names   == {"Start", "Join", "IsAlive", "Notify", "Abort"}
Throws  == "ThreadStateException"
Values  == Codes \cup {Throws, "yes", "no", "done"}

TypeOK ==
  /\ threadStarted \in [Objects -> BOOLEAN] /\ pidHandle \in [Objects -> 0..MaxThreads]
  /\ call \in [Callers -> {NoCall} \cup [name : Names, object : Objects, thread : 0..MaxThreads]]
  /\ answer \in [Callers -> {NoCall} \cup [name : Names, object : Objects, thread : AllThreads, value : Values]]
  /\ begun \in [Objects -> SUBSET AllThreads]
  /\ state \in [AllThreads -> {"unused", "running", "ended", "forgotten"}] /\ code \in [AllThreads -> Codes]

Init ==
  /\ threadStarted = [o \in Objects |-> FALSE] /\ pidHandle = [o \in Objects |-> 0]
  /\ call = [c \in Callers |-> NoCall] /\ answer = [c \in Callers |-> NoCall]
  /\ begun = [o \in Objects |-> {}]
  /\ state = [t \in AllThreads |-> "unused"] /\ code = [t \in AllThreads |-> NoThread]

Unchanged == UNCHANGED <<threadStarted, pidHandle, begun, state, code>>

Begin(c, name, o, t) ==
  /\ call[c] = NoCall
  /\ call' = [call EXCEPT ![c] = [name |-> name, object |-> o, thread |-> t]]
  /\ answer' = [answer EXCEPT ![c] = NoCall]

\* Start, up to the return of THREAD_CREATE: the thread runs, also on the same object.
Start(c, o) ==
  \E t \in AllThreads :
    /\ state[t] = "unused" /\ Begin(c, "Start", o, t)
    /\ state' = [state EXCEPT ![t] = "running"] /\ pidHandle' = [pidHandle EXCEPT ![o] = t]
    /\ begun' = [begun EXCEPT ![o] = @ \cup {t}] /\ UNCHANGED <<threadStarted, code>>

\* THREAD_CREATE fails.
StartThrows(c, o) == Begin(c, "Start", o, 0) /\ Unchanged

\* The other methods ask the kernel about the thread in pidHandle; without one they
\* throw at once.
Ask(c, name, o) == threadStarted[o] /\ Begin(c, name, o, pidHandle[o]) /\ Unchanged

In(c, name) == call[c] # NoCall /\ call[c].name = name
Return(c)   == call' = [call EXCEPT ![c] = NoCall]

\* Mutant: threadStarted is set whatever the kernel said.
StartedAnyway(c) ==
  /\ In(c, "Start") /\ Return(c)
  /\ threadStarted' = [threadStarted EXCEPT ![call[c].object] = TRUE]
  /\ UNCHANGED <<pidHandle, answer, begun, state, code>>

\* Start returns, or throws because the kernel has failed.
Started(c) ==
  /\ In(c, "Start") /\ Return(c)
  /\ threadStarted' = IF call[c].thread = 0 THEN threadStarted
                      ELSE [threadStarted EXCEPT ![call[c].object] = TRUE]
  /\ UNCHANGED <<pidHandle, answer, begun, state, code>>

\* A method returns a value, or throws.
Tell(c, value) ==
  /\ Return(c) /\ Unchanged
  /\ answer' = [answer EXCEPT ![c] = [name |-> call[c].name, object |-> call[c].object,
                                     thread |-> call[c].thread, value |-> value]]

\* The kernel answers when the thread has ended; for one it has forgotten, it answers
\* with the code that stands for none.
Join(c) ==
  LET t      == call[c].thread
      result == IF state[t] = "forgotten" THEN NoThread ELSE code[t]
  IN  /\ In(c, "Join") /\ state[t] # "running"
      /\ Tell(c, IF result = NoThread THEN Throws ELSE result)

\* The kernel's answer to THREAD_ALIVE, whether the thread runs, is returned.
IsAlive(c) ==
  In(c, "IsAlive") /\ Tell(c, IF state[call[c].thread] = "running" THEN "yes" ELSE "no")

\* THREAD_NOTIFY fails for a thread that does not run, and may fail for one that does;
\* then Notify throws.
Notify(c) ==
  /\ In(c, "Notify")
  /\ \/ state[call[c].thread] = "running" /\ Tell(c, "done")
     \/ Tell(c, Throws)

Ends(t, v) ==
  /\ state[t] = "running"
  /\ state' = [state EXCEPT ![t] = "ended"] /\ code' = [code EXCEPT ![t] = v]

\* The result of THREAD_ABORT is ignored.
Abort(c) ==
  /\ In(c, "Abort") /\ Return(c) /\ UNCHANGED <<threadStarted, pidHandle, answer, begun>>
  /\ IF state[call[c].thread] = "running" THEN \E v \in Codes : Ends(call[c].thread, v)
     ELSE UNCHANGED <<state, code>>

\* ExitThread(obj->Run()); and the kernel need not remember a thread for ever.
ExitThread(t) == \E v \in Codes : Ends(t, v) /\ UNCHANGED <<threadStarted, pidHandle, call, answer, begun>>
Forget(t) ==
  /\ state[t] = "ended" /\ state' = [state EXCEPT ![t] = "forgotten"]
  /\ UNCHANGED <<threadStarted, pidHandle, call, answer, begun, code>>

Next ==
  \/ \E c \in Callers :
       \/ \E o \in Objects : \/ Start(c, o) \/ StartThrows(c, o)
                             \/ \E name \in Names \ {"Start"} : Ask(c, name, o)
       \/ Started(c) \/ Join(c) \/ IsAlive(c) \/ Notify(c) \/ Abort(c)
  \/ \E t \in AllThreads : ExitThread(t) \/ Forget(t)

Spec == Init /\ [][Next]_vars

-----------------------------------------------------------------------------
(* Properties.                                                             *)

\* What a method told stays true of the thread it asked about: it was created by a Start
\* of that very object.  After Join it has ended with the code returned; or Join threw,
\* and the kernel has forgotten it or it returned EXIT_CODE_NO_THREAD.  After IsAlive's
\* "no" it has ended.
IsTrue(a) ==
  /\ a.thread \in begun[a.object]
  /\ a.name = "Join" \/ a.value = "no" => state[a.thread] \in {"ended", "forgotten"}
  /\ a.name = "Join" =>
       IF a.value = Throws THEN code[a.thread] = NoThread \/ state[a.thread] = "forgotten"
       ELSE a.value = code[a.thread]

\* However the calls overlap, with each other, with a second Start of the same object
\* and with the end of the thread: the kernel is asked only about a thread that a Start
\* of this object has created, and what the method then tells of it is and stays true.
AnswersAreTrue ==
  \A c \in Callers :
    /\ call[c] # NoCall /\ call[c].name # "Start" => call[c].thread \in begun[call[c].object]
    /\ answer[c] # NoCall => IsTrue(answer[c])
=============================================================================
