---------------------------- MODULE LibraryProofs ----------------------------
(***************************************************************************)
(* Proofs about the library's sockets and plugs (Ipc), class Thread        *)
(* (Threads) and class Semaphore (Semaphores) as MCLibrary puts them side  *)
(* by side: for any processes, sockets, signatures and lengths of lists,   *)
(* any callers, objects and threads, and any addresses.                    *)
(***************************************************************************)
EXTENDS MCLibrary, SequenceTheorems, WellFoundedInduction, TLAPS


-----------------------------------------------------------------------------
(* Sockets and plugs.  First the registration.                             *)

\* Only one part takes steps.
LEMMA IpcPart == [AllNext]_allVars => [Next]_vars
BY DEF AllNext, allVars

RegTypes ==
  /\ DOMAIN isRegistered = Procs /\ DOMAIN pc = Procs
  /\ registeredSockets \in [Procs -> SUBSET Sockets]
  /\ exists \subseteq Sockets /\ alive \subseteq Procs

\* A socket exists only in a process that has registered its wall, and a constructor of
\* Plug works on a socket of its own process.
Owned ==
  /\ \A s \in exists : isRegistered[Owner[s]]
  /\ \A p \in Procs : pc[p].at # "idle" => pc[p].socket \in exists /\ Owner[pc[p].socket] = p

RegInv == RegTypes /\ Owned /\ RegisteredIsKnown

LEMMA RegInit == Init => RegInv
  BY DEF Init, RegInv, RegTypes, Owned, RegisteredIsKnown, Idle

LEMMA RegNext == RegInv /\ [Next]_vars => RegInv'
<1> SUFFICES ASSUME RegInv, [Next]_vars PROVE RegInv'
  OBVIOUS
<1> USE IpcAssumption DEF RegInv, RegTypes, Owned, RegisteredIsKnown, Ready, Idle, kernel
<1>1. ASSUME NEW p \in Procs, Register(p) PROVE RegInv'
  BY <1>1 DEF Register
<1>2. ASSUME NEW s \in Sockets, CreateSocket(s) PROVE RegInv'
  BY <1>2 DEF CreateSocket
<1>3. ASSUME NEW s \in Sockets, NEW sig, AddRemoteMethod(s, sig) \/ AddLocalCallback(s, sig) PROVE RegInv'
  BY <1>3 DEF AddRemoteMethod, AddLocalCallback
<1>4. ASSUME NEW s \in Sockets, NEW t, BeginPlug(s, t) PROVE RegInv'
  BY <1>4 DEF BeginPlug
<1>5. ASSUME NEW p \in Procs, RegisterSocket(p) PROVE RegInv'
  <2>1. pc[p].socket \in exists /\ Owner[pc[p].socket] = p /\ p \in walls
    BY <1>5 DEF RegisterSocket
  <2>2. RegTypes'
    BY <1>5, <2>1 DEF RegisterSocket, AfterRegister
  <2>3. Owned'
    BY <1>5 DEF RegisterSocket, AfterRegister
  <2>4. RegisteredIsKnown'
    BY <1>5, <2>1 DEF RegisterSocket
  <2> QED BY <2>2, <2>3, <2>4
<1>6. ASSUME NEW p \in Procs, SocketRegistered(p) PROVE RegInv'
  BY <1>6 DEF SocketRegistered, AfterRegister
<1>7. ASSUME NEW p \in Procs, Throws(p) PROVE RegInv'
  BY <1>7 DEF Throws
<1>8. ASSUME NEW p \in Procs, PlugInto(p) PROVE RegInv'
  BY <1>8 DEF PlugInto
<1>9. ASSUME NEW s \in Sockets, PlugCable(s) PROVE RegInv'
  BY <1>9 DEF PlugCable
<1>10. ASSUME NEW p \in Procs, NEW i, GetRemoteMethod(p, i) PROVE RegInv'
  BY <1>10 DEF GetRemoteMethod
<1>11. ASSUME NEW p \in Procs, Ends(p) PROVE RegInv'
  BY <1>11 DEF Ends
<1>12. CASE UNCHANGED vars
  BY <1>12 DEF vars
<1> QED
  BY <1>1, <1>2, <1>3, <1>4, <1>5, <1>6, <1>7, <1>8, <1>9, <1>10, <1>11, <1>12 DEF Next, Build

\* Whatever fails, throws or is tried again, a process lists exactly the sockets the
\* kernel has of it (Communication::registeredSockets).
THEOREM ListAgreesWithKernel == AllSpec => []RegisteredIsKnown
<1>1. AllInit => RegInv
  BY RegInit DEF AllInit
<1>2. RegInv /\ [AllNext]_allVars => RegInv'
  BY RegNext, IpcPart
<1>3. RegInv => RegisteredIsKnown
  BY DEF RegInv
<1> QED BY <1>1, <1>2, <1>3, PTL DEF AllSpec

-----------------------------------------------------------------------------
(* Sockets and plugs: the signatures.                                      *)

CallTypes ==
  /\ DOMAIN pc = Procs /\ DOMAIN plug = Procs /\ DOMAIN method = Procs
  /\ remoteMethods \in [Sockets -> Seq(Signatures)] /\ localCallbacks \in [Sockets -> Seq(Signatures)]
  /\ expected \in [Sockets -> Seq(Signatures)] /\ offered \in [Sockets -> Seq(Signatures)]
  /\ created \subseteq Sockets /\ known \subseteq created /\ alive \subseteq Procs

StartOf(short, long) ==
  Len(short) <= Len(long) /\ \A i \in 1..Len(short) : short[i] = long[i]

\* A table is what the list was when the table was made; what was added is behind it.
TablesStart ==
  \A s \in created : StartOf(expected[s], remoteMethods[s]) /\ StartOf(offered[s], localCallbacks[s])

CablesFit ==
  \A c \in cables : /\ c.a \in created /\ c.b \in created
                    /\ Fits(c.a, c.b, c.ab) /\ Fits(c.b, c.a, c.ba)

OwnSocket(p, s) == s \in created /\ Owner[s] = p
AtEnd(s, c)     == s = c.a \/ s = c.b

Working(p) == pc[p].at # "idle" => OwnSocket(p, pc[p].socket)

Plugged(p) ==
  plug[p] # None =>
    /\ OwnSocket(p, plug[p].socket) /\ AtEnd(plug[p].socket, plug[p].cable)
    /\ plug[p].numRemote = Len(expected[plug[p].socket])

Called(p) ==
  method[p] # None =>
    /\ OwnSocket(p, method[p].socket) /\ AtEnd(method[p].socket, method[p].cable)
    /\ method[p].index \in 1..Len(expected[method[p].socket])
    /\ method[p].signature = expected[method[p].socket][method[p].index]

CallInv ==
  /\ CallTypes /\ TablesStart /\ CablesFit
  /\ \A p \in Procs : Working(p) /\ Plugged(p) /\ Called(p)

LEMMA CallInit == Init => CallInv
  BY IpcAssumption DEF Init, CallInv, CallTypes, TablesStart, CablesFit, Working, Plugged, Called, Idle

\* Socket::Create leaves the tables of a socket that has some as they are.
LEMMA CreateKeeps ==
  ASSUME CallInv, NEW s \in Sockets, Create(s)
  PROVE  /\ expected' \in [Sockets -> Seq(Signatures)] /\ offered' \in [Sockets -> Seq(Signatures)]
         /\ created' = created \cup {s}
         /\ \A t \in created : expected'[t] = expected[t] /\ offered'[t] = offered[t]
         /\ s \notin created => expected'[s] = remoteMethods[s] /\ offered'[s] = localCallbacks[s]
  BY DEF CallInv, CallTypes, Create, tables

LEMMA AppendKeeps ==
  ASSUME NEW E, NEW long \in Seq(E), NEW short \in Seq(E), NEW x \in E, StartOf(short, long)
  PROVE  StartOf(short, Append(long, x))
  BY DEF StartOf

LEMMA CallNext == CallInv /\ [Next]_vars => CallInv'
<1> SUFFICES ASSUME CallInv, [Next]_vars PROVE CallInv'
  OBVIOUS
<1> USE IpcAssumption
<1>0. CallTypes /\ TablesStart /\ CablesFit /\ \A p \in Procs : Working(p) /\ Plugged(p) /\ Called(p)
  BY DEF CallInv
<1> USE DEF CallTypes, Ready, Idle, kernel, tables, lists, OwnSocket, AtEnd
<1>1. ASSUME NEW p \in Procs, Register(p) PROVE CallInv'
  BY <1>0, <1>1 DEF Register, CallInv, TablesStart, CablesFit, Fits, Working, Plugged, Called
<1>2. ASSUME NEW s \in Sockets, CreateSocket(s) PROVE CallInv'
  BY <1>0, <1>2 DEF CreateSocket, CallInv, TablesStart, CablesFit, Fits, Working, Plugged, Called
<1>3. ASSUME NEW s \in Sockets, NEW sig \in Signatures, AddRemoteMethod(s, sig) PROVE CallInv'
  <2>1. CallTypes' /\ CablesFit' /\ \A p \in Procs : (Working(p) /\ Plugged(p) /\ Called(p))'
    BY <1>0, <1>3 DEF AddRemoteMethod, CablesFit, Fits, Working, Plugged, Called
  <2>2. TablesStart'
    BY <1>0, <1>3, AppendKeeps DEF AddRemoteMethod, TablesStart
  <2> QED BY <2>1, <2>2 DEF CallInv
<1>4. ASSUME NEW s \in Sockets, NEW sig \in Signatures, AddLocalCallback(s, sig) PROVE CallInv'
  <2>1. CallTypes' /\ CablesFit' /\ \A p \in Procs : (Working(p) /\ Plugged(p) /\ Called(p))'
    BY <1>0, <1>4 DEF AddLocalCallback, CablesFit, Fits, Working, Plugged, Called
  <2>2. TablesStart'
    BY <1>0, <1>4, AppendKeeps DEF AddLocalCallback, TablesStart
  <2> QED BY <2>1, <2>2 DEF CallInv
<1>5. ASSUME NEW s \in Sockets, NEW t, BeginPlug(s, t) PROVE CallInv'
  <2>1. Create(s) /\ UNCHANGED <<remoteMethods, localCallbacks, plug, method, alive, known, cables>>
    BY <1>5 DEF BeginPlug
  <2>2. /\ expected' \in [Sockets -> Seq(Signatures)] /\ offered' \in [Sockets -> Seq(Signatures)]
        /\ created' = created \cup {s}
        /\ \A u \in created : expected'[u] = expected[u] /\ offered'[u] = offered[u]
        /\ s \notin created => expected'[s] = remoteMethods[s] /\ offered'[s] = localCallbacks[s]
    BY <2>1, CreateKeeps
  <2>3. CallTypes'
    BY <1>0, <1>5, <2>1, <2>2 DEF BeginPlug
  <2>4. TablesStart'
    <3> SUFFICES ASSUME NEW u \in created'
                 PROVE  StartOf(expected[u], remoteMethods[u])' /\ StartOf(offered[u], localCallbacks[u])'
      BY DEF TablesStart
    <3>1. CASE u \in created
      <4>1. StartOf(expected[u], remoteMethods[u]) /\ StartOf(offered[u], localCallbacks[u])
        BY <1>0, <3>1 DEF TablesStart
      <4>2. /\ expected'[u] = expected[u] /\ offered'[u] = offered[u]
            /\ remoteMethods'[u] = remoteMethods[u] /\ localCallbacks'[u] = localCallbacks[u]
        BY <2>1, <2>2, <3>1
      <4> QED BY <4>1, <4>2 DEF StartOf
    <3>2. CASE u \notin created
      <4>1. u = s /\ expected'[u] = remoteMethods'[u] /\ offered'[u] = localCallbacks'[u]
        BY <2>1, <2>2, <3>2
      <4>2. Len(remoteMethods'[u]) \in Nat /\ Len(localCallbacks'[u]) \in Nat
        BY <1>0, <2>1, <4>1
      <4> QED BY <4>1, <4>2 DEF StartOf
    <3> QED BY <3>1, <3>2
  <2>5. CablesFit'
    <3> SUFFICES ASSUME NEW c \in cables
                 PROVE  /\ c.a \in created' /\ c.b \in created'
                        /\ Fits(c.a, c.b, c.ab)' /\ Fits(c.b, c.a, c.ba)'
      BY <2>1 DEF CablesFit
    <3>1. c.a \in created /\ c.b \in created /\ Fits(c.a, c.b, c.ab) /\ Fits(c.b, c.a, c.ba)
      BY <1>0 DEF CablesFit
    <3> QED BY <2>2, <3>1 DEF Fits
  <2>6. ASSUME NEW p \in Procs PROVE (Working(p) /\ Plugged(p) /\ Called(p))'
    <3>1. Working(p)'
      BY <1>0, <1>5, <2>2 DEF BeginPlug, Working
    <3>2. Plugged(p)'
      BY <1>0, <2>1, <2>2 DEF Plugged
    <3>3. Called(p)'
      BY <1>0, <2>1, <2>2 DEF Called
    <3> QED BY <3>1, <3>2, <3>3
  <2> QED BY <2>3, <2>4, <2>5, <2>6 DEF CallInv
<1>6. ASSUME NEW p \in Procs, RegisterSocket(p) PROVE CallInv'
  <2>1. pc[p].socket \in created
    BY <1>0, <1>6 DEF RegisterSocket, Working
  <2>2. UNCHANGED <<lists, tables, plug, method, cables>>
    BY <1>6 DEF RegisterSocket
  <2>3. CallTypes' /\ TablesStart' /\ CablesFit'
    BY <1>0, <1>6, <2>1, <2>2 DEF RegisterSocket, AfterRegister, TablesStart, CablesFit, Fits
  <2>4. ASSUME NEW q \in Procs PROVE (Working(q) /\ Plugged(q) /\ Called(q))'
    <3>1. Working(q)'
      BY <1>0, <1>6, <2>2 DEF RegisterSocket, AfterRegister, Working
    <3>2. Plugged(q)' /\ Called(q)'
      BY <1>0, <2>2 DEF Plugged, Called
    <3> QED BY <3>1, <3>2
  <2> QED BY <2>3, <2>4 DEF CallInv
<1>7. ASSUME NEW p \in Procs, SocketRegistered(p) PROVE CallInv'
  BY <1>0, <1>7 DEF SocketRegistered, AfterRegister, CallInv, TablesStart, CablesFit, Fits, Working, Plugged, Called
<1>8. ASSUME NEW p \in Procs, Throws(p) PROVE CallInv'
  BY <1>0, <1>8 DEF Throws, CallInv, TablesStart, CablesFit, Fits, Working, Plugged, Called
<1>9. ASSUME NEW p \in Procs, PlugInto(p) PROVE CallInv'
  <2>0. PICK s, t : s = pc[p].socket /\ t = pc[p].remote
    OBVIOUS
  <2>1. OwnSocket(p, s) /\ t \in created
    BY <1>0, <1>9, <2>0 DEF PlugInto, Working
  <2>2. PICK ab, ba \in Maps :
          LET c == [a |-> s, b |-> t, ab |-> ab, ba |-> ba]
          IN  /\ Fits(s, t, ab) /\ Fits(t, s, ba)
              /\ cables' = cables \cup {c} /\ plug' = [plug EXCEPT ![p] = NewPlug(s, c)]
    BY <1>9, <2>0 DEF PlugInto
  <2>3. UNCHANGED <<lists, tables, method, alive, known>> /\ pc' = [pc EXCEPT ![p] = Idle]
    BY <1>9 DEF PlugInto
  <2>4. CallTypes' /\ TablesStart'
    BY <1>0, <2>2, <2>3 DEF TablesStart
  <2>5. CablesFit'
    <3>1. ASSUME NEW c \in cables PROVE (c.a \in created /\ c.b \in created
                                        /\ Fits(c.a, c.b, c.ab) /\ Fits(c.b, c.a, c.ba))'
      BY <1>0, <2>3 DEF CablesFit, Fits
    <3>2. (Fits(s, t, ab) /\ Fits(t, s, ba))'
      BY <2>2, <2>3 DEF Fits
    <3> QED BY <2>1, <2>2, <2>3, <3>1, <3>2 DEF CablesFit
  <2>6. ASSUME NEW q \in Procs PROVE (Working(q) /\ Plugged(q) /\ Called(q))'
    BY <1>0, <2>1, <2>2, <2>3 DEF Working, Plugged, Called, NewPlug
  <2> QED BY <2>4, <2>5, <2>6 DEF CallInv
<1>10. ASSUME NEW s \in Sockets, PlugCable(s) PROVE CallInv'
  <2>1. PICK c \in cables : s \in {c.a, c.b} /\ plug' = [plug EXCEPT ![Owner[s]] = NewPlug(s, c)]
    BY <1>10 DEF PlugCable
  <2>2. s \in created
    BY <1>0, <2>1 DEF CablesFit
  <2>3. UNCHANGED <<lists, tables, pc, method, kernel>>
    BY <1>10, <2>2 DEF PlugCable, Create
  <2>4. CallTypes' /\ TablesStart' /\ CablesFit'
    BY <1>0, <2>1, <2>3 DEF TablesStart, CablesFit, Fits
  <2>5. ASSUME NEW q \in Procs PROVE (Working(q) /\ Plugged(q) /\ Called(q))'
    BY <1>0, <2>1, <2>2, <2>3 DEF Working, Plugged, Called, NewPlug
  <2> QED BY <2>4, <2>5 DEF CallInv
<1>11. ASSUME NEW p \in Procs, NEW i \in 1..MaxList, GetRemoteMethod(p, i) PROVE CallInv'
  <2> DEFINE s == plug[p].socket
  <2>1. OwnSocket(p, s) /\ AtEnd(s, plug[p].cable) /\ i \in 1..Len(expected[s])
    BY <1>0, <1>11 DEF GetRemoteMethod, Plugged
  <2>2. remoteMethods[s][i] = expected[s][i]
    BY <1>0, <2>1 DEF TablesStart, StartOf
  <2>3. CallTypes' /\ TablesStart' /\ CablesFit'
    BY <1>0, <1>11 DEF GetRemoteMethod, TablesStart, CablesFit, Fits
  <2>4. ASSUME NEW q \in Procs PROVE (Working(q) /\ Plugged(q) /\ Called(q))'
    BY <1>0, <1>11, <2>1, <2>2 DEF GetRemoteMethod, Working, Plugged, Called
  <2> QED BY <2>3, <2>4 DEF CallInv
<1>12. ASSUME NEW p \in Procs, Ends(p) PROVE CallInv'
  <2>1. CallTypes'
    BY <1>0, <1>12 DEF Ends
  <2>2. \A s \in created' : /\ s \in created /\ Owner[s] # p
                            /\ expected'[s] = expected[s] /\ offered'[s] = offered[s]
                            /\ remoteMethods'[s] = remoteMethods[s] /\ localCallbacks'[s] = localCallbacks[s]
    BY <1>0, <1>12 DEF Ends
  <2>3. TablesStart'
    BY <1>0, <2>2 DEF TablesStart
  <2>4. CablesFit'
    <3> SUFFICES ASSUME NEW c \in cables'
                 PROVE  /\ c.a \in created' /\ c.b \in created'
                        /\ Fits(c.a, c.b, c.ab)' /\ Fits(c.b, c.a, c.ba)'
      BY DEF CablesFit
    <3>1. c.a \in created /\ c.b \in created /\ Fits(c.a, c.b, c.ab) /\ Fits(c.b, c.a, c.ba)
      BY <1>0, <1>12 DEF Ends, CablesFit
    <3>2. c.a \in created' /\ c.b \in created'
      BY <1>12, <3>1 DEF Ends
    <3> QED BY <2>2, <3>1, <3>2 DEF Fits
  <2>5. ASSUME NEW q \in Procs PROVE (Working(q) /\ Plugged(q) /\ Called(q))'
    BY <1>0, <1>12, <2>2 DEF Ends, Working, Plugged, Called
  <2> QED BY <2>1, <2>3, <2>4, <2>5 DEF CallInv
<1>13. CASE UNCHANGED vars
  BY <1>0, <1>13 DEF vars, CallInv, TablesStart, CablesFit, Fits, Working, Plugged, Called
<1> QED
  BY <1>1, <1>2, <1>3, <1>4, <1>5, <1>6, <1>7, <1>8, <1>9, <1>10, <1>11, <1>12, <1>13 DEF Next, Build

LEMMA CallInvIsEnough == CallInv => CallsAreTyped
<1> SUFFICES ASSUME CallInv, NEW p \in alive, method[p] # None, method[p].cable \in cables
             PROVE  LET m == method[p]
                        map    == IF m.socket = m.cable.a THEN m.cable.ab ELSE m.cable.ba
                        target == IF m.socket = m.cable.a THEN m.cable.b ELSE m.cable.a
                    IN  m.index \in DOMAIN map /\ localCallbacks[target][map[m.index]] = m.signature
  BY DEF CallsAreTyped
<1> DEFINE m == method[p]
           map    == IF m.socket = m.cable.a THEN m.cable.ab ELSE m.cable.ba
           target == IF m.socket = m.cable.a THEN m.cable.b ELSE m.cable.a
<1>1. /\ m.socket \in created /\ target \in created /\ Fits(m.socket, target, map)
      /\ m.index \in 1..Len(expected[m.socket]) /\ m.signature = expected[m.socket][m.index]
  BY DEF CallInv, CallTypes, CablesFit, Called, OwnSocket, AtEnd
<1>2. m.index \in DOMAIN map /\ map[m.index] \in 1..Len(offered[target])
  <2>1. expected[m.socket] \in Seq(Signatures) /\ offered[target] \in Seq(Signatures)
    BY <1>1 DEF CallInv, CallTypes
  <2> HIDE DEF m, map, target
  <2>2. DOMAIN expected[m.socket] = 1..Len(expected[m.socket]) /\ DOMAIN offered[target] = 1..Len(offered[target])
    BY <2>1
  <2> QED BY <1>1, <2>2 DEF Fits
<1>3. offered[target][map[m.index]] = m.signature
  BY <1>1, <1>2 DEF Fits
<1>4. localCallbacks[target][map[m.index]] = offered[target][map[m.index]]
  BY <1>1, <1>2 DEF CallInv, TablesStart, StartOf
<1> QED BY <1>2, <1>3, <1>4

\* A remote method that GetRemoteMethod has returned meets a callback with its own
\* signature, for lists of any length that may grow behind the tables.
THEOREM SignaturesMatch == AllSpec => []CallsAreTyped
<1>1. AllInit => CallInv
  BY CallInit DEF AllInit
<1>2. CallInv /\ [AllNext]_allVars => CallInv'
  BY CallNext, IpcPart
<1> QED BY <1>1, <1>2, CallInvIsEnough, PTL DEF AllSpec

-----------------------------------------------------------------------------
(* Class Thread.  The invariant says that a handle, once written, names a  *)
(* thread that a Start of its object has created, although pidHandle and   *)
(* threadStarted are written by different steps of several callers.        *)

\* An exception is no number that Run may return.
CodesAssumption == T!Throws \notin Codes

\* EXIT_CODE_NO_THREAD is one.
LEMMA Numbers == MaxThreads \in Nat /\ NoThread \in Codes
BY LibraryAssumption DEF LibraryAssumption

\* What call and answer hold.
AllCalls   == {T!NoCall} \cup [name : T!Names, object : ThreadObjects, thread : 0..MaxThreads]
AllAnswers == {T!NoCall} \cup
              [name : T!Names, object : ThreadObjects, thread : T!AllThreads, value : T!Values]
USE DEF AllCalls, AllAnswers

HandleInv ==
  /\ \A o \in ThreadObjects : \A t \in begun[o] : state[t] # "unused"
  /\ \A o \in ThreadObjects : pidHandle[o] # 0 => pidHandle[o] \in begun[o]
  /\ \A o \in ThreadObjects : threadStarted[o] => pidHandle[o] # 0
  /\ \A c \in Callers : call[c] # T!NoCall /\ call[c].thread # 0 =>
       call[c].thread \in begun[call[c].object] /\ pidHandle[call[c].object] # 0

ThreadInv == T!TypeOK /\ HandleInv /\ T!AnswersAreTrue

LEMMA InitThreads ==
  ASSUME T!Init
  PROVE  ThreadInv
BY Numbers DEF T!Init, ThreadInv, T!TypeOK, HandleInv, T!AnswersAreTrue, T!NoCall, T!AllThreads

-----------------------------------------------------------------------------
(* What the calls do to the state.                                         *)

\* A method that has begun is about an object and about a thread, or about none.
LEMMA Begun ==
  ASSUME T!TypeOK, NEW c \in Callers, NEW name \in T!Names, NEW o \in ThreadObjects,
         NEW t \in 0..MaxThreads, T!Begin(c, name, o, t)
  PROVE  /\ call' \in [Callers -> AllCalls]
         /\ answer' \in [Callers -> AllAnswers]
         /\ call'[c] = [name |-> name, object |-> o, thread |-> t] /\ answer'[c] = T!NoCall
         /\ \A d \in Callers \ {c} : call'[d] = call[d] /\ answer'[d] = answer[d]
BY DEF T!Begin, T!TypeOK

\* A method that is running belongs to an object; the method that has returned is gone.
LEMMA Returned ==
  ASSUME T!TypeOK, NEW c \in Callers, NEW name \in T!Names, T!In(c, name), T!Return(c)
  PROVE  /\ call[c] \in [name : {name}, object : ThreadObjects, thread : 0..MaxThreads] /\ call[c] # T!NoCall
         /\ call' \in [Callers -> AllCalls]
         /\ call'[c] = T!NoCall /\ \A d \in Callers \ {c} : call'[d] = call[d]
BY DEF T!In, T!Return, T!TypeOK

\* Nothing of what is known of a thread is lost when the thread goes on: one that was
\* started stays so, and one that has ended keeps its exit code.
Onward ==
  /\ \A t \in T!AllThreads :
       /\ state'[t] = "unused" => state[t] = "unused"
       /\ state[t] = "ended" => state'[t] \in {"ended", "forgotten"}
       /\ state[t] = "forgotten" => state'[t] = "forgotten"
       /\ state[t] \in {"ended", "forgotten"} => code'[t] = code[t]
  /\ \A o \in ThreadObjects : begun[o] \subseteq begun'[o]

Kernel ==
  /\ state' \in [T!AllThreads -> {"unused", "running", "ended", "forgotten"}]
  /\ code' \in [T!AllThreads -> Codes]
  /\ begun' \in [ThreadObjects -> SUBSET T!AllThreads]
  /\ \A o \in ThreadObjects : \A t \in begun'[o] : state'[t] # "unused"

LEMMA KernelStays ==
  ASSUME ThreadInv, UNCHANGED <<state, code, begun>>
  PROVE  Onward /\ Kernel
BY DEF ThreadInv, HandleInv, T!TypeOK, Onward, Kernel

LEMMA KernelEnds ==
  ASSUME ThreadInv, NEW t \in T!AllThreads, NEW v \in Codes, T!Ends(t, v), UNCHANGED begun
  PROVE  Onward /\ Kernel
BY DEF ThreadInv, HandleInv, T!TypeOK, Onward, Kernel, T!Ends

\* What was told stays true while threads go on.
LEMMA AnswersStay ==
  ASSUME ThreadInv, Onward, NEW c \in Callers, answer[c] # T!NoCall, answer'[c] = answer[c]
  PROVE  T!IsTrue(answer[c])'
<1>1. /\ answer[c].thread \in T!AllThreads /\ answer[c].object \in ThreadObjects
      /\ T!IsTrue(answer[c])
  BY DEF ThreadInv, T!TypeOK, T!AnswersAreTrue
<1>2. PICK a : a = answer[c]
  OBVIOUS
<1>3. /\ a.thread \in begun'[a.object]
      /\ a.name = "Join" \/ a.value = "no" => state'[a.thread] \in {"ended", "forgotten"}
      /\ a.name = "Join" =>
           IF a.value = T!Throws THEN code'[a.thread] = NoThread \/ state'[a.thread] = "forgotten"
           ELSE a.value = code'[a.thread]
  BY <1>1, <1>2 DEF T!IsTrue, Onward
<1> QED BY <1>2, <1>3 DEF T!IsTrue

\* A step of one caller leaves the invariant alone, if what it knows of handles is true
\* and its answer, if it has a new one, is.
LEMMA OtherCallers ==
  ASSUME ThreadInv, NEW c \in Callers, Onward, Kernel,
         threadStarted' \in [ThreadObjects -> BOOLEAN], pidHandle' \in [ThreadObjects -> 0..MaxThreads],
         call' \in [Callers -> AllCalls],
         \A d \in Callers \ {c} : call'[d] = call[d],
         answer' \in [Callers -> AllAnswers],
         \A d \in Callers \ {c} : answer'[d] = answer[d],
         answer'[c] \in {T!NoCall, answer[c]} \/ T!IsTrue(answer[c])',
         \A o \in ThreadObjects : pidHandle[o] # 0 => pidHandle'[o] # 0,
         \A o \in ThreadObjects : pidHandle'[o] # 0 => pidHandle'[o] \in begun'[o],
         \A o \in ThreadObjects : threadStarted'[o] => pidHandle'[o] # 0,
         call'[c] # T!NoCall =>
           /\ call'[c].thread # 0 =>
                call'[c].thread \in begun'[call'[c].object] /\ pidHandle'[call'[c].object] # 0
           /\ call'[c].name # "Start" => call'[c].thread # 0
  PROVE  ThreadInv'
<1>1. T!TypeOK'
  BY DEF T!TypeOK, Kernel
<1>2. ASSUME NEW d \in Callers, call'[d] # T!NoCall, call'[d].thread # 0
      PROVE  call'[d].thread \in begun'[call'[d].object] /\ pidHandle'[call'[d].object] # 0
  <2>1. CASE d = c
    BY <1>2, <2>1
  <2>2. CASE d # c
    <3>1. call'[d] = call[d] /\ call[d].object \in ThreadObjects
      BY <1>2, <2>2 DEF ThreadInv, T!TypeOK
    <3>2. call[d].thread \in begun[call[d].object] /\ pidHandle[call[d].object] # 0
      BY <1>2, <3>1 DEF ThreadInv, HandleInv
    <3> QED BY <3>1, <3>2 DEF Onward
  <2> QED BY <2>1, <2>2
<1>3. HandleInv'
  BY <1>2 DEF HandleInv, Kernel
<1>4. ASSUME NEW d \in Callers, call'[d] # T!NoCall, call'[d].name # "Start"
      PROVE  call'[d].thread \in begun'[call'[d].object]
  <2>1. call'[d].thread # 0
    <3>1. CASE d = c
      BY <1>4, <3>1
    <3>2. CASE d # c
      <4>1. call'[d] = call[d] /\ call[d].object \in ThreadObjects
        BY <1>4, <3>2 DEF ThreadInv, T!TypeOK
      <4>2. call[d].thread \in begun[call[d].object] /\ begun[call[d].object] \subseteq 1..MaxThreads
        BY <1>4, <4>1 DEF ThreadInv, T!AnswersAreTrue, T!TypeOK, T!AllThreads
      <4> QED BY <4>1, <4>2
    <3> QED BY <3>1, <3>2
  <2> QED BY <1>2, <1>4, <2>1
<1>5. ASSUME NEW d \in Callers, answer'[d] # T!NoCall PROVE T!IsTrue(answer[d])'
  <2>1. CASE answer'[d] = answer[d]
    BY <1>5, <2>1, AnswersStay
  <2>2. CASE answer'[d] # answer[d]
    <3>1. d = c
      BY <2>2
    <3> QED BY <1>5, <2>2, <3>1
  <2> QED BY <2>1, <2>2
<1>6. T!AnswersAreTrue'
  BY <1>4, <1>5 DEF T!AnswersAreTrue
<1> QED BY <1>1, <1>3, <1>6 DEF ThreadInv

-----------------------------------------------------------------------------
(* The steps.                                                              *)

LEMMA StartStep ==
  ASSUME ThreadInv, NEW c \in Callers, NEW o \in ThreadObjects, T!Start(c, o)
  PROVE  ThreadInv'
<1>1. PICK t \in T!AllThreads :
        /\ state[t] = "unused" /\ T!Begin(c, "Start", o, t)
        /\ state' = [state EXCEPT ![t] = "running"] /\ pidHandle' = [pidHandle EXCEPT ![o] = t]
        /\ begun' = [begun EXCEPT ![o] = begun[o] \cup {t}] /\ UNCHANGED <<threadStarted, code>>
  BY DEF T!Start
<1>2. T!TypeOK /\ t \in 0..MaxThreads /\ t # 0
  BY DEF ThreadInv, T!AllThreads
<1>3. /\ call' \in [Callers -> AllCalls]
      /\ answer' \in [Callers -> AllAnswers]
      /\ call'[c] = [name |-> "Start", object |-> o, thread |-> t] /\ answer'[c] = T!NoCall
      /\ \A d \in Callers \ {c} : call'[d] = call[d] /\ answer'[d] = answer[d]
  BY <1>1, <1>2, Begun DEF T!Names
<1>4. /\ begun' \in [ThreadObjects -> SUBSET T!AllThreads] /\ begun'[o] = begun[o] \cup {t}
      /\ \A q \in ThreadObjects \ {o} : begun'[q] = begun[q]
  BY <1>1, <1>2 DEF T!TypeOK
<1>5. /\ state' \in [T!AllThreads -> {"unused", "running", "ended", "forgotten"}]
      /\ state'[t] = "running" /\ \A u \in T!AllThreads \ {t} : state'[u] = state[u]
  BY <1>1, <1>2 DEF T!TypeOK
<1>6. Onward
  BY <1>1, <1>4, <1>5 DEF Onward
<1>7. ASSUME NEW q \in ThreadObjects, NEW u \in begun'[q] PROVE state'[u] # "unused"
  <2>1. u = t \/ u \in begun[q]
    BY <1>4, <1>7
  <2>2. u \in T!AllThreads
    BY <1>4, <1>7
  <2>3. u # t => state[u] # "unused"
    BY <2>1 DEF ThreadInv, HandleInv
  <2> QED BY <1>5, <2>2, <2>3
<1>8. Kernel
  BY <1>1, <1>2, <1>4, <1>5, <1>7 DEF Kernel, T!TypeOK
<1>9. /\ pidHandle' \in [ThreadObjects -> 0..MaxThreads] /\ threadStarted' \in [ThreadObjects -> BOOLEAN]
      /\ pidHandle'[o] = t /\ \A q \in ThreadObjects \ {o} : pidHandle'[q] = pidHandle[q]
  BY <1>1, <1>2 DEF T!TypeOK
<1>10. ASSUME NEW q \in ThreadObjects, pidHandle'[q] # 0 PROVE pidHandle'[q] \in begun'[q]
  <2>1. CASE q = o
    BY <2>1, <1>4, <1>9
  <2>2. CASE q # o
    BY <1>4, <1>9, <1>10, <2>2 DEF ThreadInv, HandleInv
  <2> QED BY <2>1, <2>2
<1>11. \A q \in ThreadObjects : threadStarted'[q] => pidHandle'[q] # 0
  BY <1>1, <1>2, <1>9 DEF ThreadInv, HandleInv
<1>12. \A q \in ThreadObjects : pidHandle[q] # 0 => pidHandle'[q] # 0
  BY <1>2, <1>9
<1>13. t \in begun'[o]
  BY <1>4
<1> QED BY <1>2, <1>3, <1>6, <1>8, <1>9, <1>10, <1>11, <1>12, <1>13, OtherCallers

\* A step of a caller that leaves the handles as they are.
LEMMA HandlesStay ==
  ASSUME ThreadInv, Onward, UNCHANGED <<threadStarted, pidHandle>>
  PROVE  /\ threadStarted' \in [ThreadObjects -> BOOLEAN] /\ pidHandle' \in [ThreadObjects -> 0..MaxThreads]
         /\ \A o \in ThreadObjects : pidHandle'[o] # 0 => pidHandle'[o] \in begun'[o]
         /\ \A o \in ThreadObjects : threadStarted'[o] => pidHandle'[o] # 0
         /\ \A o \in ThreadObjects : pidHandle[o] # 0 => pidHandle'[o] # 0
BY DEF ThreadInv, T!TypeOK, HandleInv, Onward

LEMMA StartThrowsStep ==
  ASSUME ThreadInv, NEW c \in Callers, NEW o \in ThreadObjects, T!StartThrows(c, o)
  PROVE  ThreadInv'
<1>1. T!TypeOK /\ 0 \in 0..MaxThreads /\ T!Begin(c, "Start", o, 0) /\ T!Unchanged
  BY Numbers DEF T!StartThrows, ThreadInv
<1>2. /\ call' \in [Callers -> AllCalls]
      /\ answer' \in [Callers -> AllAnswers]
      /\ call'[c] = [name |-> "Start", object |-> o, thread |-> 0] /\ answer'[c] = T!NoCall
      /\ \A d \in Callers \ {c} : call'[d] = call[d] /\ answer'[d] = answer[d]
  BY <1>1, Begun DEF T!Names
<1>3. Onward /\ Kernel
  BY <1>1, KernelStays DEF T!Unchanged
<1> QED BY <1>1, <1>2, <1>3, HandlesStay, OtherCallers DEF T!Unchanged

LEMMA AskStep ==
  ASSUME ThreadInv, NEW c \in Callers, NEW o \in ThreadObjects, NEW name \in T!Names \ {"Start"},
         T!Ask(c, name, o)
  PROVE  ThreadInv'
<1>1. T!TypeOK /\ threadStarted[o] /\ T!Begin(c, name, o, pidHandle[o]) /\ T!Unchanged
  BY DEF T!Ask, ThreadInv
<1>2. pidHandle[o] \in 0..MaxThreads /\ pidHandle[o] # 0
  BY <1>1 DEF ThreadInv, HandleInv, T!TypeOK
<1>3. PICK t : t = pidHandle[o]
  OBVIOUS
<1>4. /\ call' \in [Callers -> AllCalls]
      /\ answer' \in [Callers -> AllAnswers]
      /\ call'[c] = [name |-> name, object |-> o, thread |-> t] /\ answer'[c] = T!NoCall
      /\ \A d \in Callers \ {c} : call'[d] = call[d] /\ answer'[d] = answer[d]
  BY <1>1, <1>2, <1>3, Begun
<1>5. Onward /\ Kernel
  BY <1>1, KernelStays DEF T!Unchanged
<1>6. t \in begun'[o] /\ pidHandle'[o] = t
  BY <1>1, <1>2, <1>3 DEF ThreadInv, HandleInv, T!Unchanged
<1> QED BY <1>1, <1>2, <1>3, <1>4, <1>5, <1>6, HandlesStay, OtherCallers DEF T!Unchanged

LEMMA StartedStep ==
  ASSUME ThreadInv, NEW c \in Callers, T!Started(c)
  PROVE  ThreadInv'
<1>1. T!TypeOK /\ T!In(c, "Start") /\ T!Return(c) /\ UNCHANGED <<pidHandle, answer, begun, state, code>>
  BY DEF T!Started, ThreadInv
<1>2. /\ call[c] \in [name : {"Start"}, object : ThreadObjects, thread : 0..MaxThreads] /\ call[c] # T!NoCall
      /\ call' \in [Callers -> AllCalls]
      /\ call'[c] = T!NoCall /\ \A d \in Callers \ {c} : call'[d] = call[d]
  BY <1>1, Returned DEF T!Names
<1>3. Onward /\ Kernel
  BY <1>1, KernelStays
<1>4. /\ threadStarted' \in [ThreadObjects -> BOOLEAN]
      /\ \A o \in ThreadObjects :
           threadStarted'[o] => threadStarted[o] \/ (o = call[c].object /\ call[c].thread # 0)
  BY <1>1, <1>2 DEF T!Started, T!TypeOK
<1>5. \A o \in ThreadObjects : threadStarted'[o] => pidHandle'[o] # 0
  BY <1>1, <1>2, <1>4 DEF ThreadInv, HandleInv
<1>6. \A o \in ThreadObjects : pidHandle'[o] # 0 => pidHandle'[o] \in begun'[o]
  BY <1>1 DEF ThreadInv, HandleInv
<1> QED BY <1>1, <1>2, <1>3, <1>4, <1>5, <1>6, OtherCallers DEF T!TypeOK

\* Join, IsAlive or Notify returns or throws; what it tells must be true.
LEMMA TellStep ==
  ASSUME ThreadInv, NEW c \in Callers, NEW name \in T!Names \ {"Start"}, NEW value \in T!Values,
         T!In(c, name), T!Tell(c, value),
         name = "Join" \/ value = "no" => state[call[c].thread] \in {"ended", "forgotten"},
         name = "Join" =>
           IF value = T!Throws THEN code[call[c].thread] = NoThread \/ state[call[c].thread] = "forgotten"
           ELSE value = code[call[c].thread]
  PROVE  ThreadInv'
<1>1. T!TypeOK /\ T!Return(c) /\ T!Unchanged
  BY DEF T!Tell, ThreadInv
<1>2. /\ call[c] \in [name : {name}, object : ThreadObjects, thread : 0..MaxThreads] /\ call[c] # T!NoCall
      /\ call' \in [Callers -> AllCalls]
      /\ call'[c] = T!NoCall /\ \A d \in Callers \ {c} : call'[d] = call[d]
  BY <1>1, Returned
<1>3. PICK t, o : t = call[c].thread /\ o = call[c].object
  OBVIOUS
<1>4. t \in begun[o] /\ o \in ThreadObjects /\ t \in T!AllThreads
  BY <1>1, <1>2, <1>3 DEF ThreadInv, T!AnswersAreTrue, T!TypeOK
<1>5. answer' = [answer EXCEPT ![c] = [name |-> name, object |-> o, thread |-> t, value |-> value]]
  BY <1>2, <1>3 DEF T!Tell
<1>6. /\ answer' \in [Callers -> AllAnswers]
      /\ answer'[c] = [name |-> name, object |-> o, thread |-> t, value |-> value]
      /\ \A d \in Callers \ {c} : answer'[d] = answer[d]
  BY <1>1, <1>4, <1>5 DEF T!TypeOK
<1>7. T!IsTrue(answer[c])'
  <2>1. UNCHANGED <<begun, state, code>>
    BY <1>1 DEF T!Unchanged
  <2> QED BY <1>3, <1>4, <1>6, <2>1 DEF T!IsTrue
<1>8. Onward /\ Kernel
  BY <1>1, KernelStays DEF T!Unchanged
<1> QED BY <1>1, <1>2, <1>6, <1>7, <1>8, HandlesStay, OtherCallers DEF T!Unchanged

LEMMA JoinStep ==
  ASSUME CodesAssumption, ThreadInv, NEW c \in Callers, T!Join(c)
  PROVE  ThreadInv'
<1> DEFINE t      == call[c].thread
           result == IF state[t] = "forgotten" THEN NoThread ELSE code[t]
           value  == IF result = NoThread THEN T!Throws ELSE result
<1>1. T!In(c, "Join") /\ state[t] # "running" /\ T!Tell(c, value)
  BY DEF T!Join
<1>2. call[c] # T!NoCall /\ call[c].name = "Join" /\ call[c].object \in ThreadObjects
  BY <1>1 DEF T!In, ThreadInv, T!TypeOK
<1>3. t \in begun[call[c].object]
  BY <1>2 DEF ThreadInv, T!AnswersAreTrue
<1>4. t \in T!AllThreads /\ state[t] \in {"ended", "forgotten"} /\ code[t] \in Codes
  BY <1>1, <1>2, <1>3 DEF ThreadInv, HandleInv, T!TypeOK
<1>5. result \in Codes /\ value \in T!Values
  BY <1>4, Numbers DEF T!Values
<1>6. IF value = T!Throws THEN code[t] = NoThread \/ state[t] = "forgotten" ELSE value = code[t]
  BY <1>4, <1>5 DEF CodesAssumption
<1>7. PICK v \in T!Values : v = value
  BY <1>5
<1>8. /\ T!Tell(c, v) /\ state[t] \in {"ended", "forgotten"}
      /\ IF v = T!Throws THEN code[t] = NoThread \/ state[t] = "forgotten" ELSE v = code[t]
  BY <1>1, <1>4, <1>6, <1>7
<1> HIDE DEF result, value
<1>9. "Join" \in T!Names \ {"Start"}
  BY DEF T!Names
<1> QED BY <1>1, <1>8, <1>9, TellStep

LEMMA IsAliveStep ==
  ASSUME ThreadInv, NEW c \in Callers, T!IsAlive(c)
  PROVE  ThreadInv'
<1>1. T!In(c, "IsAlive")
  BY DEF T!IsAlive
<1>2. call[c] # T!NoCall /\ call[c].name = "IsAlive" /\ call[c].object \in ThreadObjects
  BY <1>1 DEF T!In, ThreadInv, T!TypeOK
<1>3. call[c].thread \in begun[call[c].object]
  BY <1>2 DEF ThreadInv, T!AnswersAreTrue
<1>4. PICK t : t = call[c].thread
  OBVIOUS
<1>5. t \in T!AllThreads /\ state[t] \in {"running", "ended", "forgotten"}
  BY <1>2, <1>3, <1>4 DEF ThreadInv, HandleInv, T!TypeOK
<1>6. PICK v \in {"yes", "no"} : T!Tell(c, v) /\ (v = "no" => state[t] # "running")
  BY <1>4 DEF T!IsAlive
<1>7. "IsAlive" \in T!Names \ {"Start"} /\ v \in T!Values
  BY DEF T!Names, T!Values
<1>8. v = "no" => state[call[c].thread] \in {"ended", "forgotten"}
  BY <1>4, <1>5, <1>6
<1> QED BY <1>1, <1>6, <1>7, <1>8, TellStep

LEMMA NotifyStep ==
  ASSUME ThreadInv, NEW c \in Callers, T!Notify(c)
  PROVE  ThreadInv'
<1>1. PICK v \in {"done", T!Throws} : T!In(c, "Notify") /\ T!Tell(c, v)
  BY DEF T!Notify
<1>2. "Notify" \in T!Names \ {"Start"} /\ v \in T!Values /\ v # "no"
  BY DEF T!Names, T!Values, T!Throws
<1> QED BY <1>1, <1>2, TellStep

\* The result of THREAD_ABORT is ignored; what happens to the thread is Onward.
LEMMA AbortStep ==
  ASSUME ThreadInv, NEW c \in Callers, T!Abort(c)
  PROVE  ThreadInv'
<1>1. T!TypeOK /\ T!In(c, "Abort") /\ T!Return(c) /\ UNCHANGED <<threadStarted, pidHandle, answer, begun>>
  BY DEF T!Abort, ThreadInv
<1>2. call[c].thread \in T!AllThreads
  <2>1. call[c] # T!NoCall /\ call[c].name = "Abort" /\ call[c].object \in ThreadObjects
    BY <1>1 DEF T!In, T!TypeOK
  <2> QED BY <1>1, <2>1 DEF ThreadInv, T!AnswersAreTrue, T!TypeOK
<1>3. Onward /\ Kernel
  <2>1. CASE state[call[c].thread] = "running"
    <3>1. PICK t \in T!AllThreads, v \in Codes : T!Ends(t, v)
      BY <1>2, <2>1 DEF T!Abort
    <3> QED BY <1>1, <3>1, KernelEnds
  <2>2. CASE state[call[c].thread] # "running"
    BY <1>1, <2>2, KernelStays DEF T!Abort
  <2> QED BY <2>1, <2>2
<1>4. /\ call' \in [Callers -> AllCalls]
      /\ call'[c] = T!NoCall /\ \A d \in Callers \ {c} : call'[d] = call[d]
  BY <1>1, Returned DEF T!Names
<1>5. answer' \in [Callers -> AllAnswers]
  BY <1>1 DEF T!TypeOK
<1> QED BY <1>1, <1>3, <1>4, <1>5, HandlesStay, OtherCallers

\* A thread ends or is forgotten while the callers wait.
LEMMA ThreadStep ==
  ASSUME ThreadInv, Onward, Kernel, UNCHANGED <<threadStarted, pidHandle, call, answer>>
  PROVE  ThreadInv'
<1>1. T!TypeOK'
  BY DEF ThreadInv, T!TypeOK, Kernel
<1>2. ASSUME NEW d \in Callers, call[d] # T!NoCall, call[d].thread \in begun[call[d].object]
      PROVE  call[d].thread \in begun'[call[d].object]
  <2>1. call[d].object \in ThreadObjects
    BY <1>2 DEF ThreadInv, T!TypeOK
  <2> QED BY <1>2, <2>1 DEF Onward
<1>3. HandleInv'
  BY <1>2, HandlesStay DEF ThreadInv, HandleInv, Kernel
<1>4. \A d \in Callers : answer'[d] # T!NoCall => T!IsTrue(answer[d])'
  BY AnswersStay
<1>5. T!AnswersAreTrue'
  BY <1>2, <1>4 DEF ThreadInv, T!AnswersAreTrue
<1> QED BY <1>1, <1>3, <1>5 DEF ThreadInv

LEMMA NextThreads ==
  ASSUME CodesAssumption, ThreadInv, T!Next \/ UNCHANGED threadVars
  PROVE  ThreadInv'
<1>0. T!TypeOK
  BY DEF ThreadInv
<1>1. ASSUME NEW c \in Callers, NEW o \in ThreadObjects, T!Start(c, o) PROVE ThreadInv'
  BY <1>1, StartStep
<1>2. ASSUME NEW c \in Callers, NEW o \in ThreadObjects, T!StartThrows(c, o) PROVE ThreadInv'
  BY <1>2, StartThrowsStep
<1>3. ASSUME NEW c \in Callers, NEW o \in ThreadObjects, NEW name \in T!Names \ {"Start"}, T!Ask(c, name, o)
      PROVE  ThreadInv'
  BY <1>3, AskStep
<1>4. ASSUME NEW c \in Callers, T!Started(c) PROVE ThreadInv'
  BY <1>4, StartedStep
<1>5. ASSUME NEW c \in Callers, T!Join(c) PROVE ThreadInv'
  BY <1>5, JoinStep
<1>6. ASSUME NEW c \in Callers, T!IsAlive(c) PROVE ThreadInv'
  BY <1>6, IsAliveStep
<1>7. ASSUME NEW c \in Callers, T!Notify(c) PROVE ThreadInv'
  BY <1>7, NotifyStep
<1>8. ASSUME NEW c \in Callers, T!Abort(c) PROVE ThreadInv'
  BY <1>8, AbortStep
<1>9. ASSUME NEW t \in T!AllThreads, T!ExitThread(t) PROVE ThreadInv'
  <2>1. PICK v \in Codes : T!Ends(t, v) /\ UNCHANGED <<threadStarted, pidHandle, call, answer, begun>>
    BY <1>9 DEF T!ExitThread
  <2> QED BY <2>1, KernelEnds, ThreadStep
<1>10. ASSUME NEW t \in T!AllThreads, T!Forget(t) PROVE ThreadInv'
  <2>1. Onward /\ Kernel /\ UNCHANGED <<threadStarted, pidHandle, call, answer>>
    BY <1>0, <1>10 DEF T!Forget, T!TypeOK, Onward, Kernel, ThreadInv, HandleInv
  <2> QED BY <2>1, ThreadStep
<1>11. CASE UNCHANGED threadVars
  BY <1>11, KernelStays, ThreadStep DEF threadVars
<1> QED BY <1>1, <1>2, <1>3, <1>4, <1>5, <1>6, <1>7, <1>8, <1>9, <1>10, <1>11 DEF T!Next

\* Class Thread: whichever threads call Start, Join, Abort, Notify and IsAlive on the
\* same objects, and however their calls overlap with each other and with the end of the
\* thread, the kernel is asked about a thread that a Start of this object has created,
\* and what Join reports and IsAlive denies of it is and stays true.
THEOREM ThreadsAnswer ==
  ASSUME CodesAssumption
  PROVE  AllSpec => []AnswersAreTrue
<1>1. AllInit => ThreadInv
  BY InitThreads DEF AllInit
<1>2. ThreadInv /\ [AllNext]_allVars => ThreadInv'
  BY NextThreads DEF AllNext, allVars
<1>3. ThreadInv => AnswersAreTrue
  BY DEF ThreadInv, AnswersAreTrue
<1> QED BY <1>1, <1>2, <1>3, PTL DEF AllSpec

-----------------------------------------------------------------------------
(* Class Semaphore.  The names: the digits of a number to any base, as     *)
(* MakeStringFromAddress computes them, last digit first.                  *)

\* Every set of numbers has a least one: what the proofs by induction below rest on.
LEMMA Least ==
  ASSUME NEW N, N \subseteq Nat, N # {}
  PROVE  \E m \in N : \A k \in N : m <= k
<1> DEFINE Less == OpToRel(<, Nat)
<1>1. IsWellFoundedOn(Less, Nat)
  BY NatLessThanWellFounded, Zenon
<1>2. \A k, m \in Nat : k < m => <<k, m>> \in Less
  BY Zenon DEF OpToRel
<1> HIDE DEF Less
<1>3. PICK m \in N : \A k \in N : ~(<<k, m>> \in Less)
  BY <1>1, WFMin
<1>4. m \in Nat /\ \A k \in N : k \in Nat /\ ~(k < m)
  BY <1>2, <1>3
<1>5. \A k \in N : m <= k
  BY <1>4
<1> QED BY <1>5

LEMMA BaseIsPositive == Base \in Nat /\ Base >= 2
BY LibraryAssumption DEF LibraryAssumption

LEMMA Monotonic ==
  ASSUME NEW a \in Nat, NEW b \in Nat, NEW c \in Nat, a >= b
  PROVE  c * a >= c * b
<1>1. PICK d \in Nat : a = b + d
  <2>1. a - b \in Nat /\ a = b + (a - b)
    OBVIOUS
  <2> QED BY <2>1
<1>2. c * a = c * b + c * d
  BY <1>1
<1>3. c * d \in Nat /\ c * b \in Nat
  OBVIOUS
<1> QED BY <1>2, <1>3

LEMMA Division ==
  ASSUME NEW k \in Nat
  PROVE  /\ k \div Base \in Nat /\ k % Base \in 0..(Base - 1)
         /\ k = Base * (k \div Base) + (k % Base)
         /\ k # 0 => k \div Base < k
<1>1. k \div Base \in Int /\ k % Base \in 0..(Base - 1) /\ k = Base * (k \div Base) + (k % Base)
  BY BaseIsPositive
<1>2. k \div Base >= 0
  BY <1>1, BaseIsPositive
<1>3. k # 0 => k \div Base < k
  BY <1>1, <1>2, BaseIsPositive
<1> QED BY <1>1, <1>2, <1>3

\* The function that Digits defines for a number, as an equation.
Divides(f, k) ==
  f = [i \in 0..k |-> IF i = 0 THEN <<>> ELSE <<i % Base>> \o f[i \div Base]]

LEMMA DividesAt ==
  ASSUME NEW k \in Nat, NEW f, Divides(f, k), NEW i \in 0..k
  PROVE  f[i] = IF i = 0 THEN <<>> ELSE <<i % Base>> \o f[i \div Base]
BY DEF Divides

LEMMA DividesExists ==
  ASSUME NEW k \in Nat
  PROVE  \E f : Divides(f, k)
<1> DEFINE Bad == {j \in Nat : ~\E f : Divides(f, j)}
<1> SUFFICES ASSUME Bad # {} PROVE FALSE
  OBVIOUS
<1>1. PICK j \in Bad : \A i \in Bad : j <= i
  BY Least
<1>2. j # 0
  <2>1. Divides([i \in 0..0 |-> <<>>], 0)
    BY DEF Divides
  <2> QED BY <2>1
<1>3. j - 1 \in Nat /\ j - 1 \notin Bad
  BY <1>1, <1>2
<1>4. PICK f : Divides(f, j - 1)
  BY <1>3
<1> DEFINE g == [i \in 0..j |-> IF i < j THEN f[i] ELSE <<j % Base>> \o f[j \div Base]]
<1>5. \A i \in 0..j : i # 0 => i \div Base \in 0..(j - 1) /\ i \div Base < i
  BY Division
<1>6. \A i \in 0..(j - 1) : g[i] = f[i]
  OBVIOUS
<1>7. g[j] = <<j % Base>> \o f[j \div Base]
  BY <1>3
<1>8. \A i \in 0..(j - 1) : f[i] = IF i = 0 THEN <<>> ELSE <<i % Base>> \o f[i \div Base]
  BY <1>4 DEF Divides
<1>9. \A i \in 0..j : i # 0 => g[i \div Base] = f[i \div Base]
  BY <1>5, <1>6
<1>10. \A i \in 0..j : g[i] = IF i = 0 THEN <<>> ELSE <<i % Base>> \o g[i \div Base]
  <2> TAKE i \in 0..j
  <2>1. CASE i = j
    BY <2>1, <1>2, <1>7, <1>9
  <2>2. CASE i # j
    <3>1. i \in 0..(j - 1)
      BY <2>2
    <3> HIDE DEF g
    <3> QED BY <3>1, <1>6, <1>8, <1>9
  <2> QED BY <2>1, <2>2
<1>11. Divides(g, j)
  <2>1. g = [i \in 0..j |-> g[i]]
    OBVIOUS
  <2> HIDE DEF g
  <2> QED BY <2>1, <1>10 DEF Divides
<1> QED BY <1>11

\* Two of these functions agree where both are defined.
LEMMA DividesOnce ==
  ASSUME NEW k \in Nat, NEW l \in Nat, NEW f, NEW g, Divides(f, k), Divides(g, l)
  PROVE  \A i \in 0..k : i <= l => f[i] = g[i]
<1> DEFINE Bad == {i \in 0..k : i <= l /\ f[i] # g[i]}
<1> SUFFICES ASSUME Bad # {} PROVE FALSE
  OBVIOUS
<1>1. PICK j \in Bad : \A i \in Bad : j <= i
  <2>1. Bad \subseteq Nat
    OBVIOUS
  <2> HIDE DEF Bad
  <2> QED BY <2>1, Least
<1>2. /\ f[j] = IF j = 0 THEN <<>> ELSE <<j % Base>> \o f[j \div Base]
      /\ g[j] = IF j = 0 THEN <<>> ELSE <<j % Base>> \o g[j \div Base]
  <2>1. j \in 0..k /\ j \in 0..l
    BY <1>1
  <2> QED BY <2>1, DividesAt
<1>3. j # 0
  BY <1>1, <1>2
<1>4. j \div Base \in 0..k /\ j \div Base <= l /\ j \div Base < j
  BY <1>1, <1>3, Division
<1>5. f[j \div Base] = g[j \div Base]
  BY <1>1, <1>4
<1> QED BY <1>1, <1>2, <1>3, <1>5

\* MakeStringFromAddress takes a number apart.
LEMMA DigitsOf ==
  ASSUME NEW k \in Nat
  PROVE  S!Digits(k) = IF k = 0 THEN <<>> ELSE <<k % Base>> \o S!Digits(k \div Base)
<1> DEFINE From(l) == CHOOSE f : Divides(f, l)
<1>1. \A l \in Nat : Divides(From(l), l) /\ S!Digits(l) = From(l)[l]
  BY DividesExists DEF S!Digits, Divides
<1> HIDE DEF From
<1>2. From(k)[k] = IF k = 0 THEN <<>> ELSE <<k % Base>> \o From(k)[k \div Base]
  BY <1>1, DividesAt
<1>3. ASSUME k # 0 PROVE From(k)[k \div Base] = From(k \div Base)[k \div Base]
  <2>1. k \div Base \in Nat /\ k \div Base \in 0..k
    BY <1>3, Division
  <2> QED BY <1>1, <2>1, DividesOnce
<1> QED BY <1>1, <1>2, <1>3, Division

LEMMA Consing ==
  ASSUME NEW A, NEW a \in A, NEW s \in Seq(A)
  PROVE  /\ <<a>> \o s \in Seq(A) /\ Len(<<a>> \o s) = Len(s) + 1 /\ (<<a>> \o s)[1] = a
         /\ \A i \in 1..Len(s) : (<<a>> \o s)[i + 1] = s[i]
<1>1. <<a>> \in Seq(A) /\ Len(<<a>>) = 1 /\ <<a>>[1] = a
  OBVIOUS
<1>2. /\ <<a>> \o s \in Seq(A) /\ Len(<<a>> \o s) = 1 + Len(s)
      /\ \A i \in 1..(1 + Len(s)) : (<<a>> \o s)[i] = IF i <= 1 THEN <<a>>[i] ELSE s[i - 1]
  BY <1>1, ConcatProperties
<1>3. Len(s) \in Nat
  OBVIOUS
<1>4. (<<a>> \o s)[1] = a
  BY <1>1, <1>2, <1>3
<1>5. \A i \in 1..Len(s) : (<<a>> \o s)[i + 1] = s[i]
  BY <1>2, <1>3
<1> QED BY <1>2, <1>3, <1>4, <1>5

LEMMA ConsingEqual ==
  ASSUME NEW A, NEW a \in A, NEW b \in A, NEW s \in Seq(A), NEW t \in Seq(A), <<a>> \o s = <<b>> \o t
  PROVE  a = b /\ s = t
<1>1. a = b
  BY Consing
<1>2. Len(s) + 1 = Len(t) + 1 /\ Len(s) \in Nat /\ Len(t) \in Nat
  BY Consing
<1>3. \A i \in 1..Len(s) : s[i] = t[i]
  BY <1>2, Consing
<1> QED BY <1>1, <1>2, <1>3, SeqEqual

LEMMA DigitsAreDigits ==
  ASSUME NEW k \in Nat
  PROVE  S!Digits(k) \in Seq(0..(Base - 1))
<1> DEFINE Bad == {j \in Nat : S!Digits(j) \notin Seq(0..(Base - 1))}
<1> SUFFICES ASSUME Bad # {} PROVE FALSE
  OBVIOUS
<1>1. PICK j \in Bad : \A i \in Bad : j <= i
  <2>1. Bad \subseteq Nat
    OBVIOUS
  <2> HIDE DEF Bad
  <2> QED BY <2>1, Least
<1>2. j \in Nat /\ j # 0
  <2>1. S!Digits(0) = <<>> /\ <<>> \in Seq(0..(Base - 1))
    BY DigitsOf, EmptySeq
  <2>2. S!Digits(j) \notin Seq(0..(Base - 1)) /\ j \in Nat
    OBVIOUS
  <2> HIDE DEF Bad
  <2> QED BY <2>1, <2>2
<1>3. j \div Base \in Nat /\ j \div Base < j /\ j % Base \in 0..(Base - 1)
  BY <1>2, Division
<1>4. S!Digits(j \div Base) \in Seq(0..(Base - 1))
  BY <1>1, <1>3
<1>5. S!Digits(j) = <<j % Base>> \o S!Digits(j \div Base)
  BY <1>2, DigitsOf
<1>6. S!Digits(j) \in Seq(0..(Base - 1))
  <2> HIDE DEF Bad
  <2> QED BY <1>3, <1>4, <1>5, Consing
<1> QED BY <1>6

\* Two addresses never give the same name.
LEMMA DigitsDiffer ==
  ASSUME NEW k \in Nat, NEW l \in Nat, S!Digits(k) = S!Digits(l)
  PROVE  k = l
<1> DEFINE Bad == {j \in Nat : \E i \in Nat : i # j /\ S!Digits(i) = S!Digits(j)}
<1> SUFFICES ASSUME Bad # {} PROVE FALSE
  OBVIOUS
<1>1. PICK j \in Bad : \A i \in Bad : j <= i
  <2>1. Bad \subseteq Nat
    OBVIOUS
  <2> HIDE DEF Bad
  <2> QED BY <2>1, Least
<1>2. PICK i \in Nat : i # j /\ S!Digits(i) = S!Digits(j)
  OBVIOUS
<1>3. j \in Nat /\ i \in Bad
  BY <1>2
<1>4. S!Digits(0) = <<>> /\ Len(<<>>) = 0
  BY DigitsOf
<1>5. ASSUME NEW m \in Nat, m # 0
      PROVE  /\ S!Digits(m) = <<m % Base>> \o S!Digits(m \div Base) /\ Len(S!Digits(m)) # 0
             /\ m % Base \in 0..(Base - 1) /\ S!Digits(m \div Base) \in Seq(0..(Base - 1))
             /\ m \div Base \in Nat /\ m \div Base < m /\ m = Base * (m \div Base) + (m % Base)
  <2>1. /\ m % Base \in 0..(Base - 1) /\ S!Digits(m \div Base) \in Seq(0..(Base - 1))
        /\ m \div Base \in Nat /\ m \div Base < m /\ m = Base * (m \div Base) + (m % Base)
    BY <1>5, Division, DigitsAreDigits
  <2>2. S!Digits(m) = <<m % Base>> \o S!Digits(m \div Base)
    BY <1>5, DigitsOf
  <2>3. Len(S!Digits(m \div Base)) \in Nat
    BY <2>1
  <2>4. Len(S!Digits(m)) = Len(S!Digits(m \div Base)) + 1
    BY <2>1, <2>2, Consing
  <2> QED BY <2>1, <2>2, <2>3, <2>4
<1>6. i # 0 /\ j # 0
  BY <1>2, <1>3, <1>4, <1>5
<1>7. i % Base = j % Base /\ S!Digits(i \div Base) = S!Digits(j \div Base)
  <2> HIDE DEF Bad
  <2>1. PICK a, b, s, t : /\ a = i % Base /\ s = S!Digits(i \div Base)
                          /\ b = j % Base /\ t = S!Digits(j \div Base)
    OBVIOUS
  <2>2. /\ a \in 0..(Base - 1) /\ b \in 0..(Base - 1) /\ s \in Seq(0..(Base - 1)) /\ t \in Seq(0..(Base - 1))
        /\ <<a>> \o s = <<b>> \o t
    BY <2>1, <1>2, <1>3, <1>5, <1>6
  <2>3. a = b /\ s = t
    BY <2>2, ConsingEqual
  <2> QED BY <2>1, <2>3
<1>8. i \div Base = j \div Base
  <2>1. j \div Base \in Nat /\ i \div Base \in Nat /\ j \div Base < j
    BY <1>2, <1>3, <1>5, <1>6
  <2>2. j \div Base \notin Bad
    <3> HIDE DEF Bad
    <3> QED BY <1>1, <1>3, <2>1
  <2> QED BY <2>1, <2>2, <1>7
<1> QED BY <1>2, <1>3, <1>5, <1>6, <1>7, <1>8

\* A number below the l-th power of Base has at most l digits.
Powers(p, l) == p[0] = 1 /\ \A i \in 1..l : p[i] = Base * p[i - 1]

LEMMA DigitsAreFew ==
  ASSUME NEW l \in Nat, NEW p \in [0..l -> Nat], Powers(p, l), NEW k \in Nat, k < p[l]
  PROVE  Len(S!Digits(k)) <= l
<1> DEFINE Bad == {i \in 0..l : \E j \in Nat : j < p[i] /\ ~(Len(S!Digits(j)) <= i)}
<1> SUFFICES ASSUME ~(Len(S!Digits(k)) <= l) PROVE FALSE
  OBVIOUS
<1>0. l \in Bad
  OBVIOUS
<1>1. PICK i \in Bad : \A h \in Bad : i <= h
  <2>1. Bad \subseteq Nat
    OBVIOUS
  <2> HIDE DEF Bad
  <2> QED BY <1>0, <2>1, Least
<1>2. PICK j \in Nat : j < p[i] /\ ~(Len(S!Digits(j)) <= i)
  OBVIOUS
<1>3. S!Digits(0) = <<>> /\ Len(<<>>) = 0
  BY DigitsOf
<1>4. j # 0
  BY <1>2, <1>3
<1>5. i # 0
  BY <1>2, <1>4 DEF Powers
<1>6. p[i] = Base * p[i - 1] /\ p[i - 1] \in Nat /\ i - 1 \in 0..l /\ i - 1 \notin Bad
  BY <1>1, <1>5 DEF Powers
<1>7. j \div Base \in Nat /\ j % Base \in 0..(Base - 1) /\ j = Base * (j \div Base) + (j % Base)
  BY Division
<1>8. j \div Base < p[i - 1]
  <2> SUFFICES ASSUME j \div Base >= p[i - 1] PROVE FALSE
    BY <1>6, <1>7
  <2>1. Base * (j \div Base) >= Base * p[i - 1]
    BY <1>6, <1>7, BaseIsPositive, Monotonic
  <2>2. PICK x, y : x = Base * (j \div Base) /\ y = Base * p[i - 1]
    OBVIOUS
  <2>3. x \in Int /\ y \in Int
    BY <2>2, <1>6, <1>7, BaseIsPositive
  <2> QED BY <2>1, <2>2, <2>3, <1>2, <1>6, <1>7, BaseIsPositive
<1>9. Len(S!Digits(j \div Base)) <= i - 1
  BY <1>6, <1>7, <1>8
<1>10. S!Digits(j) = <<j % Base>> \o S!Digits(j \div Base) /\ S!Digits(j \div Base) \in Seq(0..(Base - 1))
  BY <1>4, <1>7, DigitsOf, DigitsAreDigits
<1>11. Len(S!Digits(j)) = Len(S!Digits(j \div Base)) + 1 /\ Len(S!Digits(j \div Base)) \in Nat
  BY <1>7, <1>10, Consing
<1> QED BY <1>2, <1>9, <1>11

\* The name of an object at any address fits into _stringBuffer.
AddressesFit ==
  \E l \in Nat : \E p \in [0..l -> Nat] :
    Powers(p, l) /\ l + 1 < Buffer /\ \A a \in Addresses : a < p[l]

LEMMA FitsInSeven ==
  ASSUME \E r \in [0..7 -> Nat] : Powers(r, 7) /\ 7 + 1 < Buffer /\ \A a \in Addresses : a < r[7]
  PROVE  AddressesFit
<1>1. 7 \in Nat
  OBVIOUS
<1> QED BY <1>1, Zenon DEF AddressesFit

\* An address of 32 bits has at most seven digits to the base of 26.
LEMMA CodeFits ==
  ASSUME Base = 26, Buffer = 20, \A a \in Addresses : a < 4294967296
  PROVE  AddressesFit
<1> DEFINE powers == <<1, 26, 676, 17576, 456976, 11881376, 308915776, 8031810176>>
           q == [i \in 0..7 |-> powers[i + 1]]
<1>1. q \in [0..7 -> Nat] /\ Powers(q, 7) /\ q[7] = 8031810176
  <2>1. q \in [0..7 -> Nat]
    BY SMT
  <2>2. /\ q[0] = 1 /\ q[1] = 26 /\ q[2] = 676 /\ q[3] = 17576 /\ q[4] = 456976 /\ q[5] = 11881376
        /\ q[6] = 308915776 /\ q[7] = 8031810176
    BY SMT
  <2> HIDE DEF powers, q
  <2> QED BY <2>1, <2>2, SMT DEF Powers
<1>2. PICK p \in [0..7 -> Nat] : Powers(p, 7) /\ p[7] = 8031810176
  <2> HIDE DEF q
  <2> QED BY <1>1, SMT
<1>3. \A a \in Addresses : a < p[7]
  BY <1>2, LibraryAssumption, SMT DEF LibraryAssumption
<1>4. 7 \in Nat /\ 7 + 1 < Buffer
  BY SMT
<1>5. \E r \in [0..7 -> Nat] : Powers(r, 7) /\ 7 + 1 < Buffer /\ \A a \in Addresses : a < r[7]
  BY <1>2, <1>3, <1>4, SMT
<1> QED BY <1>5, FitsInSeven, SMT

LEMMA NameLength ==
  ASSUME AddressesFit, NEW a \in Addresses
  PROVE  Len(S!MakeStringFromAddress(a)) < Buffer
<1>1. PICK l \in Nat : \E p \in [0..l -> Nat] : Powers(p, l) /\ l + 1 < Buffer /\ a < p[l]
  BY DEF AddressesFit
<1>2. PICK p \in [0..l -> Nat] : Powers(p, l) /\ l + 1 < Buffer /\ a < p[l]
  BY <1>1
<1>3. a \in Nat /\ Buffer \in Nat
  BY LibraryAssumption DEF LibraryAssumption
<1>4. Len(S!Digits(a)) <= l
  BY <1>2, <1>3, DigitsAreFew
<1> DEFINE A == 0..(Base - 1) \cup {"R"}
<1>5. S!Digits(a) \in Seq(A) /\ "R" \in A
  BY <1>3, DigitsAreDigits, SeqMonotonic
<1>6. Len(<<"R">> \o S!Digits(a)) = Len(S!Digits(a)) + 1 /\ Len(S!Digits(a)) \in Nat
  BY <1>5, Consing
<1> QED BY <1>2, <1>3, <1>4, <1>6 DEF S!MakeStringFromAddress

LEMMA NamesDiffer ==
  ASSUME NEW a \in Addresses, NEW b \in Addresses, S!MakeStringFromAddress(a) = S!MakeStringFromAddress(b)
  PROVE  a = b
<1>1. a \in Nat /\ b \in Nat
  BY LibraryAssumption DEF LibraryAssumption
<1> DEFINE A == 0..(Base - 1) \cup {"R"}
<1>2. S!Digits(a) \in Seq(A) /\ S!Digits(b) \in Seq(A) /\ "R" \in A
  BY <1>1, DigitsAreDigits, SeqMonotonic
<1>3. <<"R">> \o S!Digits(a) = <<"R">> \o S!Digits(b)
  BY DEF S!MakeStringFromAddress
<1> HIDE DEF A
<1>4. S!Digits(a) = S!Digits(b)
  BY <1>2, <1>3, ConsingEqual
<1> QED BY <1>1, <1>4, DigitsDiffer

-----------------------------------------------------------------------------
(* The locks: each is the one of the object whose name it has.             *)

LockInv ==
  /\ living \subseteq Starts
  /\ handle \in [S!Objects -> S!Objects \cup {None}]
  /\ \A o \in S!Objects : handle[o] # None => handle[o] = o /\ o[1] \in living
  /\ DOMAIN locks = {o \in S!Objects : handle[o] # None}
  /\ \A o \in DOMAIN locks : locks[o] = S!Name(o)

\* The value None of a handle is none of the objects.
LEMMA NoObject == None \notin S!Objects
BY LibraryAssumption DEF LibraryAssumption, S!Objects

LEMMA LockInit ==
  ASSUME S!Init
  PROVE  LockInv
BY DEF S!Init, LockInv

LEMMA ConstructStep ==
  ASSUME LockInv, NEW o \in S!Objects, S!Construct(o)
  PROVE  LockInv'
BY NoObject DEF LockInv, S!Construct, S!Name

LEMMA DestroyStep ==
  ASSUME LockInv, NEW o \in S!Objects, S!Destroy(o)
  PROVE  LockInv'
BY NoObject DEF LockInv, S!Destroy, S!Without, S!Name

LEMMA EndsStep ==
  ASSUME LockInv, NEW p \in living, S!Ends(p)
  PROVE  LockInv'
BY NoObject DEF LockInv, S!Ends, S!Without, S!Name, S!Objects

LEMMA LockNext ==
  ASSUME LockInv, S!Next \/ UNCHANGED lockVars
  PROVE  LockInv'
<1>1. CASE UNCHANGED lockVars
  BY <1>1 DEF lockVars, LockInv
<1>2. ASSUME NEW o \in S!Objects, S!ConstructThrows(o) PROVE LockInv'
  BY <1>2, EndsStep DEF S!ConstructThrows
<1> QED BY <1>1, <1>2, ConstructStep, DestroyStep, EndsStep DEF S!Next

\* A name in use is that of an object at the same address, of another process.
LEMMA InUseByAnother ==
  ASSUME LockInv, NEW o \in S!Objects, S!InUse(o), handle[o] = None
  PROVE  \E q \in living \ {o[1]} : handle[<<q, o[2]>>] # None
<1>1. PICK l \in DOMAIN locks : locks[l] = S!Name(o)
  BY DEF S!InUse
<1>2. l \in S!Objects /\ handle[l] # None /\ l[1] \in living /\ S!Name(l) = S!Name(o)
  BY <1>1 DEF LockInv
<1>3. l[2] = o[2]
  <2>1. l[2] \in Addresses /\ o[2] \in Addresses
    BY <1>2 DEF S!Objects
  <2> QED BY <1>2, <2>1, NamesDiffer DEF S!Name
<1>4. l = <<l[1], o[2]>> /\ o = <<o[1], o[2]>>
  BY <1>2, <1>3 DEF S!Objects
<1>5. l[1] # o[1]
  BY <1>2, <1>4
<1> QED BY <1>2, <1>4, <1>5

\* Class Semaphore: the names of the objects of a process differ and fit into the
\* buffer, so a constructor throws only when another process has an object at the same
\* address; every object has its own lock, and no lock outlives its object.
THEOREM EachHasItsLock ==
  ASSUME AddressesFit
  PROVE  AllSpec => []OwnLock
<1>1. AllInit => LockInv
  BY LockInit DEF AllInit
<1>2. LockInv /\ [AllNext]_allVars => LockInv'
  BY LockNext DEF AllNext, allVars
<1>3. ASSUME LockInv PROVE OwnLock
  <2>1. \A o, q \in S!Objects : handle[o] # None /\ handle[o] = handle[q] => o = q
    BY <1>3 DEF LockInv
  <2>2. DOMAIN locks = {handle[o] : o \in {q \in S!Objects : handle[q] # None}}
    BY <1>3 DEF LockInv
  <2>3. \A o \in S!Objects : Len(S!Name(o)) < Buffer
    BY NameLength DEF S!Name, S!Objects
  <2> QED BY <1>3, <2>1, <2>2, <2>3, InUseByAnother DEF OwnLock, S!OwnLock
<1> QED BY <1>1, <1>2, <1>3, PTL DEF AllSpec
=============================================================================
