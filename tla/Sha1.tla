-------------------------------- MODULE Sha1 --------------------------------
(***************************************************************************)
(* The message side of SHA-1 (sha1.cpp): how SHA1Input, SHA1PadMessage and *)
(* SHA1Result cut a message into blocks.  The compression of a block is    *)
(* abstract: the digest is the sequence of the blocks it was made of.      *)
(* Octets are the numbers of the octets of the message, or "one" and       *)
(* "zero" of the padding.                                                  *)
(***************************************************************************)
EXTENDS Naturals, Sequences

CONSTANTS Low,          \* 2^32 in the code: where Length_Low wraps
          High          \* 2^32 in the code: where Length_High wraps

Block == 64

SHA1Reset ==
  [Length_Low |-> 0, Length_High |-> 0, Message_Block_Index |-> 0,
   Message_Block |-> [j \in 0..(Block - 1) |-> "undefined"],
   Message_Digest |-> <<>>, Computed |-> FALSE, Corrupted |-> FALSE]

SHA1ProcessMessageBlock(c) ==
  [c EXCEPT !.Message_Digest = Append(@, c.Message_Block), !.Message_Block_Index = 0]

Processed(c) == IF c.Message_Block_Index = Block THEN SHA1ProcessMessageBlock(c) ELSE c

Put(c, octet) ==
  [c EXCEPT !.Message_Block[c.Message_Block_Index] = octet, !.Message_Block_Index = @ + 1]

\* Length_Low += 8, with the carry; a message that is too long is corrupted.
Counted(c) ==
  LET low  == (c.Length_Low + 8) % Low
      high == IF low = 0 THEN (c.Length_High + 1) % High ELSE c.Length_High
  IN  [c EXCEPT !.Length_Low = low, !.Length_High = high, !.Corrupted = @ \/ (low = 0 /\ high = 0)]

\* The loop of SHA1Input takes an octet.
Octet(c, octet) == IF c.Corrupted THEN c ELSE Processed(Counted(Put(c, octet)))

\* The octets first..(first + length - 1) of the message.
SHA1Input(c, first, length) ==
  LET After[k \in 0..length] == IF k = 0 THEN c ELSE Octet(After[k - 1], first + k - 1)
  IN  IF length = 0 THEN c
      ELSE IF c.Computed \/ c.Corrupted THEN [c EXCEPT !.Corrupted = TRUE]
      ELSE After[length]

\* The loops of SHA1PadMessage, which end with the index upto.
Zeros(c, upto) ==
  [c EXCEPT !.Message_Block = [j \in DOMAIN @ |-> IF j \in c.Message_Block_Index..(upto - 1) THEN "zero" ELSE @[j]],
            !.Message_Block_Index = IF @ < upto THEN upto ELSE @]

\* Mutant: a block with exactly 56 octets is taken for one with room.
NoRoomLate(c) == c.Message_Block_Index > 56

\* There is no room for the first padding bit and the length.
NoRoom(c) == c.Message_Block_Index > 55

SHA1PadMessage(c) ==
  LET one    == Put(c, "one")
      padded == IF NoRoom(c) THEN Zeros(SHA1ProcessMessageBlock(Zeros(one, Block)), 56) ELSE Zeros(one, 56)
  IN  SHA1ProcessMessageBlock([padded EXCEPT !.Message_Block =
        [j \in 0..(Block - 1) |-> IF j < 56 THEN @[j]
                                  ELSE IF j < 60 THEN <<"high", c.Length_High>> ELSE <<"low", c.Length_Low>>]])

\* The return value is whether the context is not corrupted.
SHA1Result(c) ==
  IF c.Corrupted \/ c.Computed THEN c ELSE [SHA1PadMessage(c) EXCEPT !.Computed = TRUE]

\* How many octets are in the first k parts of a message.
Octets(lengths, k) ==
  LET Sum[i \in 0..k] == IF i = 0 THEN 0 ELSE Sum[i - 1] + lengths[i]
  IN  Sum[k]

\* A message handed over in parts of these lengths.
Inputs(lengths) ==
  LET After[k \in 0..Len(lengths)] ==
        IF k = 0 THEN SHA1Reset ELSE SHA1Input(After[k - 1], Octets(lengths, k - 1) + 1, lengths[k])
  IN  After[Len(lengths)]

-----------------------------------------------------------------------------
(* Properties.                                                             *)

\* The padded message of the standard: the message, a one, as few zeros as make room,
\* and the number of bits.
Standard(n) ==
  LET blocks == (n + 9 + Block - 1) \div Block
  IN  [b \in 1..blocks |-> [j \in 0..(Block - 1) |->
        LET k == (b - 1) * Block + j + 1
        IN  IF k <= n THEN k
            ELSE IF k = n + 1 THEN "one"
            ELSE IF k <= blocks * Block - 8 THEN "zero"
            ELSE IF j < 60 THEN <<"high", (8 * n) \div Low>> ELSE <<"low", (8 * n) % Low>>]]

\* However a message is handed over, the digest is that of the padded message, nothing
\* of an earlier block is in it, and asking twice changes nothing; a message whose
\* length does not fit, or that goes on after its digest was asked for, is refused.
DigestOf(lengths) ==
  LET n == Octets(lengths, Len(lengths))
      c == SHA1Result(Inputs(lengths))
  IN  /\ c.Corrupted <=> 8 * n >= Low * High
      /\ ~c.Corrupted => /\ c.Message_Digest = Standard(n) /\ SHA1Result(c) = c
                         /\ SHA1Input(c, n + 1, 1).Corrupted
=============================================================================
