------------------------------ MODULE Pairing ------------------------------
(***************************************************************************)
(* The programs ipc1 and ipc2, each started any number of times in any     *)
(* order: ipc2 opens the barrier "dingsbums" when its socket can be        *)
(* plugged, ipc1 waits there, calls two methods of ipc2 and gives a buffer *)
(* away with the second call.  Walls, barriers, cables, the task that      *)
(* answers a call and message buffers are the kernel's.                    *)
(***************************************************************************)
EXTENDS Naturals, Sequences

CONSTANTS Ones, Twos    \* the starts of ipc1 and of ipc2, disjoint sets

VARIABLES
  one,        \* ipc1: UserProgramEntry
  result,     \* ipc1: what remote(42, 3.1415926f) returned
  string,     \* ipc1: the text in the message buffer
  two         \* ipc2: UserProgramEntry
VARIABLES
  walls,      \* kernel: the processes that own "Verbindung" or "andererProzess"
  known,      \* kernel: the processes whose socket "dessenSocket" it has
  opened,     \* kernel: the processes for which the barrier is open
  call        \* kernel: the method each process of ipc1 waits for

kernel == <<walls, known, opened, call>>
vars   == <<one, result, string, two, kernel>>

OneStates == {"register", "arrive", "plug", "remote", "waitRemote", "ipcnew", "toString", "waitString",
              "print", "ended"}
TwoStates == {"sync", "register", "plug", "go", "sleep", "ended"}
Prefix    == "String value = "
Number    == 666

TypeOK ==
  /\ one \in [Ones -> OneStates] /\ two \in [Twos -> TwoStates]
  /\ result \in [Ones -> {0, Number}]
  /\ string \in [Ones -> {<<>>, <<Prefix>>} \cup {<<Prefix, n>> : n \in {0, Number}}]
  /\ walls \subseteq Ones \cup Twos /\ known \subseteq Twos /\ opened \subseteq Ones \cup Twos
  /\ call \in [Ones -> {"none", "TestFunction", "ToString"}]

Init ==
  /\ one = [a \in Ones |-> "register"] /\ two = [b \in Twos |-> "sync"]
  /\ result = [a \in Ones |-> 0] /\ string = [a \in Ones |-> <<>>]
  /\ walls = {} /\ known = {} /\ opened = {} /\ call = [a \in Ones |-> "none"]

OneGoes(a, s) == one' = [one EXCEPT ![a] = s]
TwoGoes(b, s) == two' = [two EXCEPT ![b] = s]

(***************************************************************************)
(* ipc2.                                                                   *)
(***************************************************************************)
MakeSync(b) ==
  /\ two[b] = "sync" /\ TwoGoes(b, "register")
  /\ UNCHANGED <<one, result, string, kernel>>

Register2(b) ==
  /\ two[b] = "register" /\ walls \cap Twos = {}
  /\ walls' = walls \cup {b} /\ TwoGoes(b, "plug")
  /\ UNCHANGED <<one, result, string, known, opened, call>>

\* The wall is occupied: IPCSetupException, and the program ends with -1.
Register2Throws(b) ==
  /\ two[b] = "register" /\ walls \cap Twos # {}
  /\ TwoGoes(b, "ended")
  /\ UNCHANGED <<one, result, string, kernel>>

Plug2(b) ==
  /\ two[b] = "plug"
  /\ known' = known \cup {b} /\ TwoGoes(b, "go")
  /\ UNCHANGED <<one, result, string, walls, opened, call>>

\* The exception is caught, Go is left out, and the program sleeps.
Plug2Throws(b) ==
  /\ two[b] = "plug" /\ TwoGoes(b, "sleep")
  /\ UNCHANGED <<one, result, string, kernel>>

\* Mutant: the barrier is opened for the own process only.
GoOwn(b) ==
  /\ two[b] = "go"
  /\ opened' = opened \cup {b} /\ TwoGoes(b, "sleep")
  /\ UNCHANGED <<one, result, string, walls, known, call>>

\* waitForOther.Go(TRUE)
Go(b) ==
  /\ two[b] = "go"
  /\ opened' = Ones \cup Twos /\ TwoGoes(b, "sleep")
  /\ UNCHANGED <<one, result, string, walls, known, call>>

\* TestFunction in a task of ipc2.
TestFunction(a) ==
  /\ call[a] = "TestFunction"
  /\ call' = [call EXCEPT ![a] = "none"] /\ result' = [result EXCEPT ![a] = Number]
  /\ UNCHANGED <<one, string, two, walls, known, opened>>

\* ToString appends its argument to the text in the buffer.
ToString(a) ==
  /\ call[a] = "ToString"
  /\ call' = [call EXCEPT ![a] = "none"]
  /\ string' = [string EXCEPT ![a] = Append(@, result[a])]
  /\ UNCHANGED <<one, result, two, walls, known, opened>>

(***************************************************************************)
(* ipc1.                                                                   *)
(***************************************************************************)
Register1(a) ==
  /\ one[a] = "register" /\ walls \cap Ones = {}
  /\ walls' = walls \cup {a} /\ OneGoes(a, "arrive")
  /\ UNCHANGED <<result, string, two, known, opened, call>>

Register1Throws(a) ==
  /\ one[a] = "register" /\ walls \cap Ones # {}
  /\ OneGoes(a, "ended")
  /\ UNCHANGED <<result, string, two, kernel>>

Arrive(a) ==
  /\ one[a] = "arrive" /\ a \in opened
  /\ OneGoes(a, "plug")
  /\ UNCHANGED <<result, string, two, kernel>>

Plug1(a) ==
  /\ one[a] = "plug" /\ known # {}
  /\ OneGoes(a, "remote")
  /\ UNCHANGED <<result, string, two, kernel>>

\* The program ends, and its wall is free again.
Ends(a) ==
  /\ OneGoes(a, "ended") /\ walls' = walls \ {a}
  /\ UNCHANGED <<result, string, two, known, opened, call>>

\* The constructor of Plug throws an IPCSetupException, which is caught.
Plug1Throws(a) == one[a] = "plug" /\ Ends(a)

\* A call that the kernel refuses throws an IPCCommException, which nobody catches.
CallThrows(a) == one[a] \in {"remote", "toString"} /\ Ends(a)

\* remote(42, 3.1415926f) and toString(result, buffer): blocking calls.
Call(a, before, after, method) ==
  /\ one[a] = before /\ OneGoes(a, after)
  /\ call' = [call EXCEPT ![a] = method]
  /\ UNCHANGED <<result, string, two, walls, known, opened>>

Returned(a, before, after) ==
  /\ one[a] = before /\ call[a] = "none" /\ OneGoes(a, after)
  /\ UNCHANGED <<result, string, two, kernel>>

\* Mutant: remote is called without waiting for the answer.
RemoteNonBlocking(a) ==
  \/ Call(a, "remote", "waitRemote", "TestFunction")
  \/ one[a] = "waitRemote" /\ OneGoes(a, "ipcnew") /\ UNCHANGED <<result, string, two, kernel>>

Remote(a) ==
  \/ Call(a, "remote", "waitRemote", "TestFunction")
  \/ Returned(a, "waitRemote", "ipcnew")

IpcNew(a) ==
  /\ one[a] = "ipcnew" /\ OneGoes(a, "toString")
  /\ string' = [string EXCEPT ![a] = <<Prefix>>]
  /\ UNCHANGED <<result, two, kernel>>

RemoteString(a) ==
  \/ Call(a, "toString", "waitString", "ToString")
  \/ Returned(a, "waitString", "print")

PrintAndEnd(a) == one[a] = "print" /\ Ends(a)

Two(b)  == MakeSync(b) \/ Register2(b) \/ Register2Throws(b) \/ Plug2(b) \/ Plug2Throws(b) \/ Go(b)
Task(a) == TestFunction(a) \/ ToString(a)
One(a)  == \/ Register1(a) \/ Register1Throws(a) \/ Arrive(a) \/ Plug1(a) \/ Plug1Throws(a)
           \/ CallThrows(a) \/ Remote(a) \/ IpcNew(a) \/ RemoteString(a) \/ PrintAndEnd(a)

Next == (\E a \in Ones : One(a) \/ Task(a)) \/ (\E b \in Twos : Two(b))

\* Every program that was started and every task of the kernel runs.
Spec     == Init /\ [][Next]_vars
FairSpec == /\ Spec
            /\ \A a \in Ones : WF_vars(One(a)) /\ WF_vars(Task(a))
            /\ \A b \in Twos : WF_vars(Two(b))

-----------------------------------------------------------------------------
(* Properties.                                                             *)

\* Whoever has passed the barrier finds the socket, whichever programs were started how
\* often and in what order; and each ipc1 prints the number that its own first call
\* returned, behind its own prefix.
AnswersArrive ==
  \A a \in Ones : /\ one[a] = "plug" => known # {}
                  /\ one[a] = "print" => string[a] = <<Prefix, Number>>

\* Once some ipc2 has its socket, every ipc1 that waits or comes later ends.
OnesEnd == \A a \in Ones : known # {} ~> one[a] = "ended"
=============================================================================
