----------------------------- MODULE Semaphores -----------------------------
(***************************************************************************)
(* Class Semaphore: the constructor makes a name of the object's address   *)
(* and creates a lock of the kernel under it, which the destructor         *)
(* destroys.  The names of locks are those of the whole system, or of each *)
(* process; a process that ends leaves no lock behind (external).          *)
(***************************************************************************)
EXTENDS Naturals, Sequences

CONSTANTS Procs,
          Addresses,      \* of the Semaphore objects, the same in every process
          Base,           \* 26 in the code
          Buffer,         \* bytes of _stringBuffer, 20 in the code
          SystemWide,     \* are names those of the whole system?
          None

VARIABLES
  handle,     \* of the object at each address of each process
  alive,
  locks       \* kernel: the name of each lock, by the object that created it

vars == <<handle, alive, locks>>

Objects == Procs \X Addresses

\* 'A' + (number % 26), the last digit first, behind an "R".
Digits(number) ==
  LET From[n \in 0..number] == IF n = 0 THEN <<>> ELSE <<n % Base>> \o From[n \div Base]
  IN  From[number]

\* Mutant: the loop ends a digit early.
NameTooShort(address) ==
  <<"R">> \o (IF address = 0 THEN <<>> ELSE SubSeq(Digits(address), 1, Len(Digits(address)) - 1))

MakeStringFromAddress(address) == <<"R">> \o Digits(address)

TypeOK == handle \in [Objects -> Objects \cup {None}] /\ alive \subseteq Procs /\ DOMAIN locks \subseteq Objects

Init == handle = [o \in Objects |-> None] /\ alive = Procs /\ locks = [o \in {} |-> <<>>]

Name(o) == MakeStringFromAddress(o[2])

\* SEMAPHORE_IN_USE.
InUse(o) == \E l \in DOMAIN locks : locks[l] = Name(o) /\ (SystemWide \/ l[1] = o[1])

Construct(o) ==
  /\ o[1] \in alive /\ handle[o] = None /\ ~InUse(o)
  /\ locks' = [l \in DOMAIN locks \cup {o} |-> IF l = o THEN Name(o) ELSE locks[l]]
  /\ handle' = [handle EXCEPT ![o] = o]
  /\ UNCHANGED alive

Without(ls) == [l \in DOMAIN locks \ ls |-> locks[l]]

Destroy(o) ==
  /\ o[1] \in alive /\ handle[o] # None
  /\ locks' = Without({handle[o]}) /\ handle' = [handle EXCEPT ![o] = None]
  /\ UNCHANGED alive

Ends(p) ==
  /\ alive' = alive \ {p} /\ locks' = Without({p} \X Addresses)
  /\ handle' = [o \in Objects |-> IF o[1] = p THEN None ELSE handle[o]]

\* ThreadStateException in the constructor of a static object: the process ends.
ConstructThrows(o) == o[1] \in alive /\ handle[o] = None /\ InUse(o) /\ Ends(o[1])

Next == \/ \E o \in Objects : Construct(o) \/ Destroy(o) \/ ConstructThrows(o)
        \/ \E p \in alive : Ends(p)

Spec == Init /\ [][Next]_vars

-----------------------------------------------------------------------------
(* Properties.                                                             *)

\* Two semaphores of a process never stand in each other's way: their names differ, so
\* a constructor throws only when a process with an object at the same address lives;
\* each object has a lock of its own, and no lock outlives its object.
OwnLock ==
  /\ \A o \in Objects : InUse(o) /\ handle[o] = None => \E q \in alive \ {o[1]} : handle[<<q, o[2]>>] # None
  /\ \A o, q \in Objects : handle[o] # None /\ handle[o] = handle[q] => o = q
  /\ DOMAIN locks = {handle[o] : o \in {q \in Objects : handle[q] # None}}
  /\ \A o \in Objects : Len(Name(o)) < Buffer
=============================================================================
