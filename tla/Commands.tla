------------------------------ MODULE Commands ------------------------------
(***************************************************************************)
(* What three commands of the console compute: ps orders the kernel's list *)
(* of threads, reset collects the methods of a reboot, bench sorts bytes.  *)
(***************************************************************************)
EXTENDS Naturals, SequencesExt

\* ps: PrintProcessInfo prints the rows of the kernel's list, given by their places: each
\* parent thread, followed by the other threads of its process.
\* Mutant: the inner loop goes on where the outer one is.
ChildrenBehind(thread, i) ==
  LET Upto[j \in 0..Len(thread)] ==
        IF j <= i THEN <<>>
        ELSE IF thread[j].pid = thread[i].pid /\ thread[j].threadNum > 0 THEN Append(Upto[j - 1], j) ELSE Upto[j - 1]
  IN  Upto[Len(thread)]

Children(thread, i) ==
  LET Upto[j \in 0..Len(thread)] ==
        IF j = 0 THEN <<>>
        ELSE IF thread[j].pid = thread[i].pid /\ thread[j].threadNum > 0 THEN Append(Upto[j - 1], j) ELSE Upto[j - 1]
  IN  Upto[Len(thread)]

PrintProcessInfo(thread) ==
  LET Upto[i \in 0..Len(thread)] ==
        IF i = 0 THEN <<>>
        ELSE IF thread[i].threadNum = 0 THEN Upto[i - 1] \o <<i>> \o Children(thread, i) ELSE Upto[i - 1]
  IN  Upto[Len(thread)]

\* reset: the bit of each letter; a blank has none.
Method == [i |-> 1, t |-> 2, h |-> 4]
Blank  == "blank"

Refused == 0            \* Reboot returns without a system call

\* Mutant: method += bit.
PlusBit(method, bit) == method + bit

\* method |= bit
WithBit(method, bit) == IF (method \div bit) % 2 = 1 THEN method ELSE method + bit

\* The argument of HardReset.
Reboot(argument) ==
  LET Upto[n \in 0..Len(argument)] ==
        IF n = 0 THEN 0
        ELSE IF argument[n] = Blank THEN Upto[n - 1] ELSE WithBit(Upto[n - 1], Method[argument[n]])
  IN  IF \E n \in DOMAIN argument : argument[n] \notin DOMAIN Method \cup {Blank} THEN Refused
      ELSE IF Upto[Len(argument)] = 0 THEN Method.i ELSE Upto[Len(argument)]

\* bench: one pass over the first n bytes, with the place behind the last exchange.
Exchanged(s, i) ==
  IF s.a[i] > s.a[i + 1]
  THEN [a |-> [s.a EXCEPT ![i] = s.a[i + 1], ![i + 1] = s.a[i]], newn |-> i]
  ELSE s

Pass(a, n) ==
  LET Upto[i \in 0..(n - 1)] == IF i = 0 THEN [a |-> a, newn |-> 0] ELSE Exchanged(Upto[i - 1], i)
  IN  Upto[n - 1]

\* Each pass is shorter than the one before; of at most one byte it does nothing.
BenchmarkBubble(a) ==
  LET After[k \in 0..Len(a)] ==
        IF k = 0 THEN [a |-> a, newn |-> Len(a)]
        ELSE IF After[k - 1].newn > 1 THEN Pass(After[k - 1].a, After[k - 1].newn) ELSE After[k - 1]
  IN  After[Len(a)].a

-----------------------------------------------------------------------------
(* Properties.                                                             *)

\* ps shows every thread of a process that still has its parent thread exactly once,
\* behind the parent and before the next one, wherever the kernel's list has it; the
\* threads of a process without one are counted in the headline and not shown.
ShownOnce(thread) ==
  LET rows   == PrintProcessInfo(thread)
      Parent(i) == {j \in DOMAIN thread : thread[j].pid = thread[i].pid /\ thread[j].threadNum = 0}
  IN  /\ \A i \in DOMAIN thread :
           Cardinality({r \in DOMAIN rows : rows[r] = i}) = IF Parent(i) = {} THEN 0 ELSE 1
      /\ \A r \in DOMAIN rows : \A q \in 1..r :
           thread[rows[q]].threadNum = 0 /\ (\A k \in (q + 1)..r : thread[rows[k]].threadNum > 0)
             => thread[rows[q]].pid = thread[rows[r]].pid

\* reset asks for the methods that were named, in whatever order and however often, for
\* the keyboard controller when none was, and for nothing when a letter is unknown.
AsksForTheNamed(argument) ==
  LET letters == ToSet(argument) \ {Blank}
      Bit(l)  == IF l \in letters THEN Method[l] ELSE 0
  IN  Reboot(argument) =
        IF ~ letters \subseteq DOMAIN Method THEN Refused
        ELSE IF letters = {} THEN 1 ELSE Bit("i") + Bit("t") + Bit("h")

\* The shortened passes leave nothing unsorted and lose no byte.
Sorts(a) ==
  LET sorted == BenchmarkBubble(a)
  IN  /\ \A i \in 1..(Len(a) - 1) : sorted[i] <= sorted[i + 1]
      /\ \A v \in ToSet(a) \cup ToSet(sorted) :
           Cardinality({i \in DOMAIN a : a[i] = v}) = Cardinality({i \in DOMAIN sorted : sorted[i] = v})
=============================================================================
