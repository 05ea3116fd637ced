------------------------------ MODULE Demangle ------------------------------
(***************************************************************************)
(* Debug::Demangle, which Thread::Start uses to name a thread after its    *)
(* class: the names in a mangled type, each preceded by its length, are    *)
(* copied into a buffer of limited size and joined by dots.  Characters    *)
(* are their codes.                                                        *)
(***************************************************************************)
EXTENDS Naturals, Sequences

NUL == 0
DOT == 46
Digits == 48..57
Junk == 122             \* what an unwritten byte of the buffer holds

\* The decimal digits of a length below 100.
Decimal(n) == IF n < 10 THEN <<48 + n>> ELSE <<48 + n \div 10, 48 + (n % 10)>>

\* How the compiler spells a qualified name (external): N, the names, E.
Mangle(names) ==
  LET Upto[k \in 0..Len(names)] ==
        IF k = 0 THEN <<>> ELSE Upto[k - 1] \o Decimal(Len(names[k])) \o names[k]
  IN  IF Len(names) = 1 THEN Upto[1] ELSE <<78>> \o Upto[Len(names)] \o <<69>>

\* The state of the loop: *demangled = 0, and the first maxLength bytes of the buffer.
Begin(maxLength) ==
  [i |-> 0, numberStart |-> FALSE, number |-> 0, length |-> 0, max |-> maxLength, returned |-> FALSE,
   buffer |-> [j \in 0..(maxLength - 1) |-> IF j = 0 THEN NUL ELSE Junk]]

Digit(s, char) == [s EXCEPT !.i = @ + 1, !.numberStart = TRUE, !.number = @ * 10 + (char - 48)]
Skip(s)        == [s EXCEPT !.i = @ + 1]

\* The name goes behind a dot, if there is something before it.
NoSpaceForDot(s) == s.length > 0 /\ s.length + 1 >= s.max
Start(s)  == IF s.length > 0 THEN s.length + 1 ELSE s.length
Dotted(s) == IF s.length > 0 THEN [s.buffer EXCEPT ![s.length] = DOT] ELSE s.buffer

\* Mutant: the place for the terminating zero is forgotten.
FitsWithoutNul(s) == Start(s) + s.number <= s.max

Fits(s) == Start(s) + s.number < s.max

Reset(s) == [s EXCEPT !.numberStart = FALSE, !.number = 0]

\* memcpy, and the new terminating zero.
Copy(mangled, s) ==
  LET last == Start(s) + s.number
  IN  Reset([s EXCEPT !.i = @ + s.number, !.length = last,
        !.buffer = [j \in DOMAIN s.buffer |->
          IF j = last THEN NUL
          ELSE IF j \in Start(s)..(last - 1) THEN mangled[s.i + (j - Start(s)) + 1] ELSE Dotted(s)[j]]])

Return(s, value) == [s EXCEPT !.returned = TRUE, !.length = value]

\* The dot has been written when the name turns out not to fit.
Turn(mangled, s) ==
  IF s.returned \/ s.i = Len(mangled) THEN s
  ELSE IF mangled[s.i + 1] \in Digits THEN Digit(s, mangled[s.i + 1])
  ELSE IF ~s.numberStart THEN Skip(s)
  ELSE IF s.i + s.number > Len(mangled) THEN Return(s, 0)
  ELSE IF NoSpaceForDot(s) THEN Return(s, s.length)
  ELSE IF ~Fits(s) THEN Return([s EXCEPT !.buffer = Dotted(s)], Start(s))
  ELSE Copy(mangled, s)

\* Between two names there is a digit, so two turns for each character are enough.
Debug_Demangle(mangled, maxLength) ==
  LET After[k \in 0..(2 * Len(mangled))] ==
        IF k = 0 THEN Begin(maxLength) ELSE Turn(mangled, After[k - 1])
      s == After[2 * Len(mangled)]
  IN  [value |-> s.length, buffer |-> s.buffer]

-----------------------------------------------------------------------------
(* Properties.                                                             *)

\* The names as a reader writes them.
Joined(names) ==
  LET Upto[k \in 0..Len(names)] ==
        IF k = 0 THEN <<>> ELSE Upto[k - 1] \o (IF k = 1 THEN <<>> ELSE <<DOT>>) \o names[k]
  IN  Upto[Len(names)]

\* A name that fits with its zero is written whole; of a longer one the first names
\* that fit are written, and nothing that does not belong to it, also when the mangled
\* text was cut short.  The terminating zero is missing exactly when the name was cut
\* behind a dot, which has replaced it.
Written(names, maxLength, cut) ==
  LET mangled  == SubSeq(Mangle(names), 1, Len(Mangle(names)) - cut)
      returned == Debug_Demangle(mangled, maxLength)
      buffer   == returned.buffer
      n        == returned.value
  IN  /\ n < maxLength
      /\ cut = 0 =>
           /\ [j \in 1..n |-> buffer[j - 1]] = SubSeq(Joined(names), 1, n) /\ n <= Len(Joined(names))
           /\ Len(Joined(names)) < maxLength => n = Len(Joined(names))
      /\ n > 0 /\ buffer[n - 1] = DOT <=> \A j \in DOMAIN buffer : buffer[j] # NUL
=============================================================================
