------------------------------- MODULE Video -------------------------------
(***************************************************************************)
(* VideoStream: how numbers become text.  UIntToString writes the digits   *)
(* from the last to the first into a buffer and reverses it in place.      *)
(* Digits are 0 to 15.                                                     *)
(***************************************************************************)
EXTENDS Integers, Sequences

CONSTANTS UInts,       \* 2^32 in the code
          Unsigned,     \* bytes of the buffer of WriteDecimalUValue: 11
          Signed        \* bytes of the buffer of WriteDecimalValue: 12

NUL == "NUL"

\* The digits as they are written.
Written(value, radix) ==
  LET From[v \in 0..value] == <<v % radix>> \o (IF v \div radix = 0 THEN <<>> ELSE From[v \div radix])
  IN  From[value]

Exchanged(buffer, i, j) == [buffer EXCEPT ![i] = buffer[j], ![j] = buffer[i]]

\* The loop over front and end, which meet in the middle.
Reversed(buffer, pos) ==
  LET Upto[front \in 0..(pos \div 2)] ==
        IF front = 0 THEN buffer ELSE Exchanged(Upto[front - 1], front, pos + 1 - front)
  IN  Upto[pos \div 2]

UIntToString(value, radix) ==
  LET digits == Written(value, radix)
  IN  Reversed(digits \o <<NUL>>, Len(digits))

WriteDecimalUValue(value) == UIntToString(value, 10)

\* -value as a SINT32 and its conversion to UINT32: the smallest value is its own negative.
WriteDecimalValue(value) ==
  IF value >= 0 THEN UIntToString(value, 10)
  ELSE <<"-">> \o UIntToString((-value) % UInts, 10)

-----------------------------------------------------------------------------
(* Properties.                                                             *)

TenTo(n) ==
  LET Power[i \in 0..n] == IF i = 0 THEN 1 ELSE 10 * Power[i - 1]
  IN  Power[n]

\* The text is the number: its digits without a leading zero, and the zero last.
Read(buffer, n, radix) ==
  LET Upto[i \in 0..n] == IF i = 0 THEN 0 ELSE Upto[i - 1] * radix + buffer[i]
  IN  Upto[n]

Shows(buffer, value, radix) ==
  LET n == Len(buffer) - 1
  IN  /\ buffer[n + 1] = NUL /\ \A i \in 1..n : buffer[i] \in 0..(radix - 1)
      /\ Read(buffer, n, radix) = value
      /\ n > 1 => buffer[1] # 0

\* Every number is shown as it is and fits its buffer, the smallest one too.
ShownAsItIs(value, radix) ==
  /\ Shows(UIntToString(value, radix), value, radix)
  /\ Len(WriteDecimalUValue(value)) <= Unsigned
  /\ LET signed == IF value >= UInts \div 2 THEN value - UInts ELSE value
         text   == WriteDecimalValue(signed)
     IN  /\ Len(text) <= Signed
         /\ IF signed >= 0 THEN Shows(text, signed, 10)
            ELSE text[1] = "-" /\ Shows(Tail(text), -signed, 10)
=============================================================================
