-------------------------------- MODULE Ipc --------------------------------
(***************************************************************************)
(* The set-up of remote method calls by the library's classes              *)
(* Communication, Socket, Plug and RemoteMethod: a process names its wall, *)
(* describes sockets by two lists of signatures, hands them to the kernel  *)
(* when the first plug is made, and calls the methods of the other side by *)
(* their index.  A signature is a value; how it is read from the           *)
(* declaration is the subject of Signature.  What the kernel does is       *)
(* external: it keeps walls, sockets and cables, and a cable gives each    *)
(* expected function of one side the number of an offered one of the other *)
(* with the same signature.  A process builds with one thread.             *)
(***************************************************************************)
EXTENDS Naturals, Sequences

CONSTANTS Procs, Sockets, Signatures,
          Owner,        \* the process that creates a socket
          Wall,         \* the name a process registers
          MaxList,      \* bound: the entries of one list
          MaxRemote, MaxLocal,    \* bounds: those of the lists of each socket
          None

ASSUME IpcAssumption ==
  /\ Owner \in [Sockets -> Procs] /\ DOMAIN Wall = Procs
  /\ MaxList \in Nat /\ None \notin Sockets
  /\ MaxRemote \in [Sockets -> 0..MaxList] /\ MaxLocal \in [Sockets -> 0..MaxList]

VARIABLES
  isRegistered,           \* Communication::isRegistered of each process
  registeredSockets,      \* Communication::registeredSockets of each process
  exists, created,        \* sets of sockets: constructed; Create() was called
  remoteMethods, localCallbacks,    \* the lists AddRemoteMethod and AddLocalCallback fill
  expected, offered,      \* socket.expectedRemoteFunctions, socket.localCallbacks
  pc,                     \* what each process does
  plug, method            \* the Plug and the RemoteMethod it holds
VARIABLES alive, walls, known, cables    \* kernel

lists  == <<remoteMethods, localCallbacks>>
tables == <<created, expected, offered>>
kernel == <<alive, walls, known, cables>>
vars   == <<isRegistered, registeredSockets, exists, lists, tables, pc, plug, method, kernel>>

Lists  == UNION {[1..n -> Signatures] : n \in 0..MaxList}

\* The ends of a cable and the two arrays destinationFunctionNumbers.
Maps   == UNION {[1..n -> 1..MaxList] : n \in 0..MaxList}
Cables == [a : Sockets, b : Sockets, ab : Maps, ba : Maps]

Idle    == [at |-> "idle", socket |-> None, remote |-> None]
Plugs   == [socket : Sockets, cable : Cables, numRemote : 0..MaxList, numLocal : 0..MaxList]
Methods == [socket : Sockets, cable : Cables, index : 1..MaxList, signature : Signatures]

TypeOK ==
  /\ isRegistered \in [Procs -> BOOLEAN]
  /\ registeredSockets \in [Procs -> SUBSET Sockets]
  /\ exists \subseteq Sockets /\ created \subseteq Sockets
  /\ remoteMethods \in [Sockets -> Lists] /\ localCallbacks \in [Sockets -> Lists]
  /\ expected \in [Sockets -> Lists] /\ offered \in [Sockets -> Lists]
  /\ \A p \in Procs :
       /\ pc[p] \in {Idle} \cup [at : {"register"}, socket : Sockets, remote : Sockets \cup {None}]
                           \cup [at : {"plugInto"}, socket : Sockets, remote : Sockets]
       /\ plug[p] = None \/ plug[p] \in Plugs
       /\ method[p] = None \/ method[p] \in Methods
  /\ alive \subseteq Procs /\ walls \subseteq Procs /\ known \subseteq Sockets
  /\ cables \subseteq Cables

Init ==
  /\ isRegistered = [p \in Procs |-> FALSE]
  /\ registeredSockets = [p \in Procs |-> {}]
  /\ exists = {} /\ created = {}
  /\ remoteMethods = [s \in Sockets |-> <<>>] /\ localCallbacks = [s \in Sockets |-> <<>>]
  /\ expected = [s \in Sockets |-> <<>>] /\ offered = [s \in Sockets |-> <<>>]
  /\ pc = [p \in Procs |-> Idle]
  /\ plug = [p \in Procs |-> None] /\ method = [p \in Procs |-> None]
  /\ alive = Procs /\ walls = {} /\ known = {} /\ cables = {}

Ready(p) == p \in alive /\ pc[p] = Idle

\* Communication::Register: RMI_WRONG_SETUP and RMI_OCCUPIED throw.
Register(p) ==
  /\ Ready(p)
  /\ p \notin walls /\ \A q \in walls : Wall[q] # Wall[p]
  /\ walls' = walls \cup {p}
  /\ isRegistered' = [isRegistered EXCEPT ![p] = TRUE]
  /\ UNCHANGED <<registeredSockets, exists, lists, tables, pc, plug, method, alive, known, cables>>

CreateSocket(s) ==
  /\ Ready(Owner[s]) /\ s \notin exists
  /\ isRegistered[Owner[s]]
  /\ exists' = exists \cup {s}
  /\ UNCHANGED <<isRegistered, registeredSockets, lists, tables, pc, plug, method, kernel>>

\* _AddRemoteMethod and _AddLocalCallback, before or after Create().
AddRemoteMethod(s, sig) ==
  /\ Ready(Owner[s]) /\ s \in exists /\ Len(remoteMethods[s]) < MaxRemote[s]
  /\ remoteMethods' = [remoteMethods EXCEPT ![s] = Append(@, sig)]
  /\ UNCHANGED <<isRegistered, registeredSockets, exists, localCallbacks, tables, pc, plug, method, kernel>>

AddLocalCallback(s, sig) ==
  /\ Ready(Owner[s]) /\ s \in exists /\ Len(localCallbacks[s]) < MaxLocal[s]
  /\ localCallbacks' = [localCallbacks EXCEPT ![s] = Append(@, sig)]
  /\ UNCHANGED <<isRegistered, registeredSockets, exists, remoteMethods, tables, pc, plug, method, kernel>>

\* Mutant: the tables are made anew for every plug.
CreateAgain(s) ==
  /\ created' = created \cup {s}
  /\ expected' = [expected EXCEPT ![s] = remoteMethods[s]]
  /\ offered' = [offered EXCEPT ![s] = localCallbacks[s]]

\* Socket::Create with CreateFunctionList: once per socket.
Create(s) ==
  IF s \in created THEN UNCHANGED tables
  ELSE /\ created' = created \cup {s}
       /\ expected' = [expected EXCEPT ![s] = remoteMethods[s]]
       /\ offered' = [offered EXCEPT ![s] = localCallbacks[s]]

\* The head of Plug(Socket&), with remote = None, and of Plug(Socket&, wall, name).
BeginPlug(s, remote) ==
  /\ Ready(Owner[s]) /\ s \in exists
  /\ Create(s)
  /\ pc' = [pc EXCEPT ![Owner[s]] = [at |-> "register", socket |-> s, remote |-> remote]]
  /\ UNCHANGED <<isRegistered, registeredSockets, exists, lists, plug, method, kernel>>

AfterRegister(p) == [pc EXCEPT ![p] = IF pc[p].remote = None THEN Idle ELSE [@ EXCEPT !.at = "plugInto"]]

\* Mutant: the socket is not entered into the list.
RegisterSocketUnlisted(p) ==
  /\ p \in alive /\ pc[p].at = "register"
  /\ pc[p].socket \notin registeredSockets[p] \cup known
  /\ known' = known \cup {pc[p].socket}
  /\ pc' = AfterRegister(p)
  /\ UNCHANGED <<isRegistered, registeredSockets, exists, lists, tables, plug, method, alive, walls, cables>>

\* Communication::RegisterSocket: RMI_SUCCESS for a socket not yet in the list.
RegisterSocket(p) ==
  /\ p \in alive /\ pc[p].at = "register"
  /\ pc[p].socket \notin registeredSockets[p] \cup known
  /\ known' = known \cup {pc[p].socket}
  /\ registeredSockets' = [registeredSockets EXCEPT ![p] = @ \cup {pc[p].socket}]
  /\ pc' = AfterRegister(p)
  /\ UNCHANGED <<isRegistered, exists, lists, tables, plug, method, alive, walls, cables>>

SocketRegistered(p) ==
  /\ p \in alive /\ pc[p].at = "register" /\ pc[p].socket \in registeredSockets[p]
  /\ pc' = AfterRegister(p)
  /\ UNCHANGED <<isRegistered, registeredSockets, exists, lists, tables, plug, method, kernel>>

\* RMI_OUT_OF_MEMORY and RMI_OCCUPIED, or any failure of PlugInto: the exception
\* leaves the constructor; what was registered stays.
Throws(p) ==
  /\ p \in alive
  /\ pc[p].at = "plugInto" \/ (pc[p].at = "register" /\ pc[p].socket \notin registeredSockets[p])
  /\ pc' = [pc EXCEPT ![p] = Idle]
  /\ UNCHANGED <<isRegistered, registeredSockets, exists, lists, tables, plug, method, kernel>>

\* The kernel's numbers for the functions s expects of t.
Fits(s, t, map) ==
  /\ DOMAIN map = DOMAIN expected[s]
  /\ \A i \in DOMAIN map : map[i] \in DOMAIN offered[t] /\ offered[t][map[i]] = expected[s][i]

NewPlug(s, c) ==
  [socket |-> s, cable |-> c, numRemote |-> Len(expected[s]), numLocal |-> Len(offered[s])]

\* Communication::PlugInto with RMI_SUCCESS: the other socket is known and compatible,
\* and there is no cable between the two.
PlugInto(p) ==
  LET s == pc[p].socket
      t == pc[p].remote
  IN  /\ p \in alive /\ pc[p].at = "plugInto" /\ t \in known
      /\ \A c \in cables : {c.a, c.b} # {s, t}
      /\ \E ab, ba \in Maps :
           LET c == [a |-> s, b |-> t, ab |-> ab, ba |-> ba]
           IN  /\ Fits(s, t, ab) /\ Fits(t, s, ba)
               /\ cables' = cables \cup {c}
               /\ plug' = [plug EXCEPT ![p] = NewPlug(s, c)]
      /\ pc' = [pc EXCEPT ![p] = Idle]
      /\ UNCHANGED <<isRegistered, registeredSockets, exists, lists, tables, method, alive, walls, known>>

\* Plug(Socket&, CABLE_USER*), with a cable from GetAllCables or GetCurrentCable.
PlugCable(s) ==
  /\ Ready(Owner[s]) /\ s \in exists
  /\ Create(s)
  /\ \E c \in cables :
       /\ s \in {c.a, c.b}
       /\ plug' = [plug EXCEPT ![Owner[s]] = NewPlug(s, c)]
  /\ UNCHANGED <<isRegistered, registeredSockets, exists, lists, pc, method, kernel>>

\* Plug::GetRemoteMethod; an index out of range throws.
GetRemoteMethod(p, i) ==
  /\ Ready(p) /\ plug[p] # None /\ i <= plug[p].numRemote
  /\ method' = [method EXCEPT ![p] = [socket |-> plug[p].socket, cable |-> plug[p].cable, index |-> i,
                                      signature |-> remoteMethods[plug[p].socket][i]]]
  /\ UNCHANGED <<isRegistered, registeredSockets, exists, lists, tables, pc, plug, kernel>>

\* A process ends: its memory goes, and the kernel forgets what it had.
Ends(p) ==
  /\ p \in alive
  /\ alive' = alive \ {p} /\ walls' = walls \ {p}
  /\ known' = {s \in known : Owner[s] # p}
  /\ cables' = {c \in cables : p \notin {Owner[c.a], Owner[c.b]}}
  /\ pc' = [pc EXCEPT ![p] = Idle]
  /\ plug' = [plug EXCEPT ![p] = None] /\ method' = [method EXCEPT ![p] = None]
  /\ isRegistered' = [isRegistered EXCEPT ![p] = FALSE]
  /\ registeredSockets' = [registeredSockets EXCEPT ![p] = {}]
  /\ exists' = {s \in exists : Owner[s] # p}
  /\ created' = {s \in created : Owner[s] # p}
  /\ LET Cleared(f) == [s \in Sockets |-> IF Owner[s] = p THEN <<>> ELSE f[s]]
     IN  /\ remoteMethods' = Cleared(remoteMethods) /\ localCallbacks' = Cleared(localCallbacks)
         /\ expected' = Cleared(expected) /\ offered' = Cleared(offered)

Build(s) ==
  \/ CreateSocket(s) \/ PlugCable(s)
  \/ \E sig \in Signatures : AddRemoteMethod(s, sig) \/ AddLocalCallback(s, sig)
  \/ \E t \in (Sockets \ {s}) \cup {None} : BeginPlug(s, t)

Next ==
  \/ \E p \in Procs :
       \/ Register(p) \/ RegisterSocket(p) \/ SocketRegistered(p) \/ Throws(p) \/ PlugInto(p) \/ Ends(p)
       \/ \E i \in 1..MaxList : GetRemoteMethod(p, i)
  \/ \E s \in Sockets : Build(s)

Spec == Init /\ [][Next]_vars

-----------------------------------------------------------------------------
(* Properties.                                                             *)

\* Whatever the kernel knows of a living process belongs to its wall, and its list
\* registeredSockets agrees: no socket is given to the kernel twice, none is plugged
\* that the kernel does not have, also after a constructor has thrown.
RegisteredIsKnown ==
  \A p \in alive :
    /\ isRegistered[p] <=> p \in walls
    /\ registeredSockets[p] = {s \in known : Owner[s] = p}
    /\ registeredSockets[p] # {} => p \in walls

\* InvokeRemote: a method that GetRemoteMethod has returned has a number in its cable,
\* and the arguments are those of the callback the kernel runs, whatever was added to
\* the lists of the two sockets since.
CallsAreTyped ==
  \A p \in alive :
    LET m == method[p]
        map    == IF m.socket = m.cable.a THEN m.cable.ab ELSE m.cable.ba
        target == IF m.socket = m.cable.a THEN m.cable.b ELSE m.cable.a
    IN  m # None /\ m.cable \in cables =>
          /\ m.index \in DOMAIN map
          /\ localCallbacks[target][map[m.index]] = m.signature
=============================================================================
