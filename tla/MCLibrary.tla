----------------------------- MODULE MCLibrary -----------------------------
(***************************************************************************)
(* The classes of the library for TLC: sockets and plugs of a driver and a *)
(* client (Ipc), Thread (Threads) and Semaphore (Semaphores).  Each        *)
(* behaviour uses one of them.                                             *)
(***************************************************************************)
EXTENDS Ipc, TLC

CONSTANTS driver, client, driverSocket, clientSocket, oneSignature, otherSignature
CONSTANTS Callers, ThreadObjects, MaxThreads, Codes, NoThread                   \* Threads
CONSTANTS Starts, Addresses, Base, Buffer, SystemWide                           \* Semaphores

VARIABLES threadStarted, pidHandle, call, answer, begun, state, code
VARIABLES handle, living, locks
VARIABLE  part

T == INSTANCE Threads WITH Objects <- ThreadObjects
S == INSTANCE Semaphores WITH Procs <- Starts, alive <- living

threadVars == <<threadStarted, pidHandle, call, answer, begun, state, code>>
lockVars   == <<handle, living, locks>>
allVars    == <<vars, threadVars, lockVars, part>>

ASSUME LibraryAssumption ==
  /\ MaxThreads \in Nat /\ NoThread \in Codes
  /\ Addresses \subseteq Nat \ {0} /\ Base \in Nat \ {0, 1} /\ Buffer \in Nat /\ SystemWide \in BOOLEAN
  /\ None \notin Starts \X Addresses

TwoOwners == driverSocket :> driver @@ clientSocket :> client
TwoWalls  == driver :> "Driver" @@ client :> "Client"

\* The driver calls, the client is called.
CallsMost  == driverSocket :> 2 @@ clientSocket :> 0
CalledMost == driverSocket :> 1 @@ clientSocket :> 2

\* With one to four digits; two of them differ in the last digit only.
SomeAddresses == {1, 3, 6, 10, 27}

-----------------------------------------------------------------------------
AllInit == part \in {"ipc", "thread", "semaphore"} /\ Init /\ T!Init /\ S!Init

AllNext ==
  /\ UNCHANGED part
  /\ \/ part = "ipc" /\ Next /\ UNCHANGED <<threadVars, lockVars>>
     \/ part = "thread" /\ T!Next /\ UNCHANGED <<vars, lockVars>>
     \/ part = "semaphore" /\ S!Next /\ UNCHANGED <<vars, threadVars>>

AllSpec == AllInit /\ [][AllNext]_allVars

-----------------------------------------------------------------------------
\* Threads: a method asks about a thread of its own object, and what Join returns and
\* IsAlive denies stays true of it.
AnswersAreTrue == T!AnswersAreTrue

\* Semaphores: each object has its own lock, under its own name.
OwnLock == S!OwnLock
=============================================================================
