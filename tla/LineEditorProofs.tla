-------------------------- MODULE LineEditorProofs --------------------------
(***************************************************************************)
(* Proofs about the console's input loop, for every size of the buffers,   *)
(* every set of characters and every number of lines: the position is the  *)
(* length of the current line, and the loop implements LineHistory.        *)
(* Both rest on one invariant: each buffer holds a line and zeros behind   *)
(* it, and what is shown and strPos are those of the current one.          *)
(***************************************************************************)
EXTENDS LineEditor, SequenceTheorems, TLAPS

\* Buffer b holds a line of n characters and nothing behind it.
LineAt(b, n) ==
  /\ b \in Buffers /\ n \in 0..(Cap - 1)
  /\ \A i \in 0..(n - 1) : b[i] \in Chars
  /\ \A i \in n..(Cap - 1) : b[i] = "NUL"

LineInv ==
  /\ commandBuffer \in Seq(Buffers)
  /\ it \in DOMAIN commandBuffer
  /\ \A l \in DOMAIN commandBuffer : LineAt(commandBuffer[l], strlen(commandBuffer[l]))
  /\ strPos = strlen(commandBuffer[it])
  /\ shown = Text(commandBuffer[it])

-----------------------------------------------------------------------------
(* Buffers and the lines they hold.                                        *)

\* What the assumption says of buffers: there is room, and zero is not a character.
LEMMA BufferSize == Cap \in Nat /\ Cap > 0 /\ "NUL" \notin Chars
  BY LineEditorAssumption DEF LineEditorAssumption

\* strlen of a buffer is the number of characters it holds.
LEMMA LineLength ==
  ASSUME NEW b, NEW n, LineAt(b, n)
  PROVE  strlen(b) = n
<1>1. n \in 0..(Cap - 1) /\ b[n] = "NUL" /\ \A i \in 0..(n - 1) : b[i] # "NUL"
  BY BufferSize DEF LineAt
<1>2. ASSUME NEW m \in 0..(Cap - 1), b[m] = "NUL", \A i \in 0..(m - 1) : b[i] # "NUL"
      PROVE  m = n
  <2>1. ~(m < n)
    BY <1>1, <1>2, BufferSize
  <2>2. ~(n < m)
    BY <1>1, <1>2, BufferSize
  <2> QED BY <2>1, <2>2, <1>1, BufferSize
<1> QED BY <1>1, <1>2 DEF strlen

\* The text of a buffer is the sequence of these characters.
LEMMA TextOfLine ==
  ASSUME NEW b, NEW n, LineAt(b, n)
  PROVE  /\ Text(b) = [i \in 1..n |-> b[i - 1]]
         /\ Text(b) \in Seq(Chars) /\ Len(Text(b)) = n
<1>1. strlen(b) = n
  BY LineLength
<1>2. n \in Nat /\ \A i \in 1..n : i - 1 \in 0..(n - 1)
  BY BufferSize DEF LineAt
<1>3. Text(b) = [i \in 1..n |-> b[i - 1]]
  BY <1>1 DEF Text
<1>4. \A i \in 1..n : b[i - 1] \in Chars
  BY <1>2 DEF LineAt
<1>5. Text(b) \in [1..n -> Chars]
  BY <1>3, <1>4
<1> QED BY <1>2, <1>3, <1>5

\* A buffer is empty when its text is.
LEMMA EmptyText ==
  ASSUME NEW b, NEW n, LineAt(b, n)
  PROVE  Text(b) = <<>> <=> n = 0
<1>1. Text(b) \in Seq(Chars) /\ Len(Text(b)) = n
  BY TextOfLine
<1> QED BY <1>1, EmptySeq

\* A new buffer holds the empty line.
LEMMA ZeroedLine == LineAt(Zeroed, 0) /\ strlen(Zeroed) = 0 /\ Text(Zeroed) = <<>>
<1>1. LineAt(Zeroed, 0)
  BY BufferSize DEF LineAt, Zeroed, Buffers
<1> QED BY <1>1, LineLength, EmptyText

\* Storing a character at the end of the line appends it.
LEMMA StoredCharacter ==
  ASSUME NEW b, NEW n, LineAt(b, n), n + 1 < Cap, NEW c \in Chars
  PROVE  /\ LineAt([b EXCEPT ![n] = c], n + 1)
         /\ Text([b EXCEPT ![n] = c]) = Append(Text(b), c)
<1> DEFINE d == [b EXCEPT ![n] = c]
<1>1. b \in [0..(Cap - 1) -> Chars \cup {"NUL"}] /\ n \in 0..(Cap - 1) /\ Cap \in Nat
  BY BufferSize DEF LineAt, Buffers
<1>2. d \in Buffers
  BY <1>1 DEF Buffers
<1>3. \A i \in 0..(Cap - 1) : d[i] = IF i = n THEN c ELSE b[i]
  BY <1>1
<1>4. ASSUME NEW i \in 0..((n + 1) - 1) PROVE d[i] \in Chars
  <2>1. i \in 0..(Cap - 1) /\ (i = n \/ i \in 0..(n - 1))
    BY <1>1
  <2> QED BY <2>1, <1>3 DEF LineAt
<1>5. ASSUME NEW i \in (n + 1)..(Cap - 1) PROVE d[i] = "NUL"
  <2>1. i \in 0..(Cap - 1) /\ i # n /\ i \in n..(Cap - 1)
    BY <1>1
  <2> QED BY <2>1, <1>3 DEF LineAt
<1>6. LineAt(d, n + 1)
  <2>1. n + 1 \in 0..(Cap - 1)
    BY <1>1
  <2> HIDE DEF d
  <2> QED BY <2>1, <1>2, <1>4, <1>5 DEF LineAt
<1>7. /\ Text(d) = [i \in 1..(n + 1) |-> d[i - 1]]
      /\ Text(d) \in Seq(Chars) /\ Len(Text(d)) = n + 1
  <2> HIDE DEF d
  <2> QED BY <1>6, TextOfLine
<1>8. /\ Text(b) = [i \in 1..n |-> b[i - 1]]
      /\ Text(b) \in Seq(Chars) /\ Len(Text(b)) = n
  BY TextOfLine
<1>9. /\ Append(Text(b), c) \in Seq(Chars) /\ Len(Append(Text(b), c)) = n + 1
      /\ \A i \in 1..n : Append(Text(b), c)[i] = Text(b)[i]
      /\ Append(Text(b), c)[n + 1] = c
  <2> DEFINE t == Text(b)
  <2>1. t \in Seq(Chars) /\ Len(t) = n
    BY <1>8
  <2> HIDE DEF t
  <2>2. /\ Append(t, c) \in Seq(Chars) /\ Len(Append(t, c)) = Len(t) + 1
        /\ \A i \in 1..Len(t) : Append(t, c)[i] = t[i]
        /\ Append(t, c)[Len(t) + 1] = c
    BY <2>1, AppendProperties
  <2> QED BY <2>1, <2>2 DEF t
<1>10. ASSUME NEW i \in 1..(n + 1) PROVE Text(d)[i] = Append(Text(b), c)[i]
  <2>1. Text(d)[i] = d[i - 1] /\ i - 1 \in 0..(Cap - 1)
    BY <1>7, <1>1
  <2>2. CASE i = n + 1
    <3>1. i - 1 = n
      BY <2>2, <1>1
    <3>2. d[i - 1] = c
      BY <3>1, <1>1, <1>3
    <3> QED BY <2>1, <2>2, <3>2, <1>9
  <2>3. CASE i # n + 1
    <3>1. i \in 1..n /\ i - 1 # n
      BY <2>3, <1>1
    <3> QED BY <3>1, <2>1, <1>3, <1>8, <1>9
  <2> QED BY <2>2, <2>3
<1>11. Text(d) = Append(Text(b), c)
  <2> HIDE DEF d
  <2> QED BY <1>7, <1>9, <1>10, SeqEqual
<1> QED BY <1>6, <1>11

\* Clearing the last character takes it off the line.
LEMMA ClearedCharacter ==
  ASSUME NEW b, NEW n, LineAt(b, n), n > 0
  PROVE  /\ LineAt([b EXCEPT ![n - 1] = "NUL"], n - 1)
         /\ Text([b EXCEPT ![n - 1] = "NUL"]) = SubSeq(Text(b), 1, Len(Text(b)) - 1)
<1> DEFINE d == [b EXCEPT ![n - 1] = "NUL"]
<1>1. b \in [0..(Cap - 1) -> Chars \cup {"NUL"}] /\ n \in 0..(Cap - 1) /\ Cap \in Nat /\ n \in Nat
  BY BufferSize DEF LineAt, Buffers
<1>2. d \in Buffers
  BY <1>1 DEF Buffers
<1>3. \A i \in 0..(Cap - 1) : d[i] = IF i = n - 1 THEN "NUL" ELSE b[i]
  BY <1>1
<1>4. ASSUME NEW i \in 0..((n - 1) - 1) PROVE d[i] \in Chars /\ d[i] = b[i]
  <2>1. i \in 0..(Cap - 1) /\ i # n - 1 /\ i \in 0..(n - 1)
    BY <1>1
  <2> QED BY <2>1, <1>3 DEF LineAt
<1>5. ASSUME NEW i \in (n - 1)..(Cap - 1) PROVE d[i] = "NUL"
  <2>1. i \in 0..(Cap - 1) /\ (i = n - 1 \/ i \in n..(Cap - 1))
    BY <1>1
  <2> QED BY <2>1, <1>3 DEF LineAt
<1>6. LineAt(d, n - 1)
  <2>1. n - 1 \in 0..(Cap - 1)
    BY <1>1
  <2> HIDE DEF d
  <2> QED BY <2>1, <1>2, <1>4, <1>5 DEF LineAt
<1>7. /\ Text(d) = [i \in 1..(n - 1) |-> d[i - 1]]
      /\ Text(d) \in Seq(Chars) /\ Len(Text(d)) = n - 1
  <2> HIDE DEF d
  <2> QED BY <1>6, TextOfLine
<1>8. /\ Text(b) = [i \in 1..n |-> b[i - 1]]
      /\ Text(b) \in Seq(Chars) /\ Len(Text(b)) = n
  BY TextOfLine
<1> DEFINE s == SubSeq(Text(b), 1, n - 1)
<1>9. s = [i \in 1..(n - 1) |-> Text(b)[i]]
  BY <1>1, <1>8
<1>10. Text(d) = s
  <2>1. ASSUME NEW i \in 1..(n - 1) PROVE d[i - 1] = Text(b)[i]
    <3>1. i - 1 \in 0..((n - 1) - 1) /\ i \in 1..n
      BY <1>1
    <3>2. d[i - 1] = b[i - 1]
      BY <3>1, <1>4
    <3> QED BY <3>1, <3>2, <1>8
  <2> HIDE DEF d, s
  <2> QED BY <2>1, <1>7, <1>9
<1> QED BY <1>1, <1>6, <1>8, <1>10

-----------------------------------------------------------------------------
(* The invariant.                                                          *)

\* A buffer that holds some line holds the one strlen tells of.
LEMMA ItsLine ==
  ASSUME NEW b, NEW n, LineAt(b, n)
  PROVE  LineAt(b, strlen(b))
BY LineLength

LEMMA InitLine == Init => LineInv
<1> SUFFICES ASSUME Init PROVE LineInv
  OBVIOUS
<1>1. commandBuffer = <<Zeroed>> /\ it = 1 /\ strPos = 0 /\ shown = <<>>
  BY DEF Init
<1>2. Zeroed \in Buffers
  BY ZeroedLine DEF LineAt
<1>3. commandBuffer \in Seq(Buffers) /\ DOMAIN commandBuffer = {1} /\ commandBuffer[1] = Zeroed
  BY <1>1, <1>2
<1> QED BY <1>1, <1>3, ZeroedLine, ItsLine DEF LineInv

\* InsertString: the list ends with an empty line, and the lines before it stay.
LEMMA InsertedLines ==
  ASSUME LineInv
  PROVE  /\ Inserted \in Seq(Buffers) /\ Len(Inserted) \in DOMAIN Inserted
         /\ \A l \in DOMAIN Inserted : LineAt(Inserted[l], strlen(Inserted[l]))
         /\ strlen(Inserted[Len(Inserted)]) = 0 /\ Text(Inserted[Len(Inserted)]) = <<>>
<1> DEFINE last == Len(commandBuffer)
<1>1. /\ commandBuffer \in Seq(Buffers) /\ last \in Nat /\ last > 0
      /\ DOMAIN commandBuffer = 1..last /\ last \in DOMAIN commandBuffer
      /\ \A l \in DOMAIN commandBuffer : LineAt(commandBuffer[l], strlen(commandBuffer[l]))
  BY DEF LineInv
<1>2. strlen(commandBuffer[last]) \in Nat
  BY <1>1, BufferSize DEF LineAt
<1>3. CASE strlen(commandBuffer[last]) > 0
  <2>1. Inserted = Append(commandBuffer, Zeroed)
    BY <1>3 DEF Inserted
  <2>2. Zeroed \in Buffers
    BY ZeroedLine DEF LineAt
  <2>3. /\ Inserted \in Seq(Buffers) /\ Len(Inserted) = last + 1
        /\ \A l \in 1..last : Inserted[l] = commandBuffer[l]
        /\ Inserted[last + 1] = Zeroed
    BY <1>1, <2>1, <2>2, AppendProperties
  <2>4. DOMAIN Inserted = 1..(last + 1)
    BY <2>3
  <2>5. ASSUME NEW l \in DOMAIN Inserted PROVE LineAt(Inserted[l], strlen(Inserted[l]))
    <3>1. l \in 1..last \/ l = last + 1
      BY <2>4, <1>1
    <3> QED BY <3>1, <2>3, <1>1, ZeroedLine, ItsLine
  <2> QED BY <2>3, <2>4, <2>5, <1>1, ZeroedLine
<1>4. CASE ~(strlen(commandBuffer[last]) > 0)
  <2>1. Inserted = commandBuffer
    BY <1>4 DEF Inserted
  <2>2. strlen(commandBuffer[last]) = 0
    BY <1>2, <1>4
  <2>3. LineAt(commandBuffer[last], 0)
    BY <1>1, <2>2
  <2> QED BY <1>1, <2>1, <2>2, <2>3, EmptyText
<1> QED BY <1>3, <1>4

\* Storing another line in the current buffer, with its length as the position.
LEMMA EditedLine ==
  ASSUME LineInv, NEW d, NEW n, LineAt(d, n),
         commandBuffer' = [commandBuffer EXCEPT ![it] = d],
         it' = it, strPos' = n, shown' = Text(d)
  PROVE  LineInv'
<1>1. commandBuffer \in Seq(Buffers) /\ it \in DOMAIN commandBuffer /\ d \in Buffers
  BY DEF LineInv, LineAt
<1>2. commandBuffer' \in Seq(Buffers) /\ DOMAIN commandBuffer' = DOMAIN commandBuffer
  BY <1>1
<1>3. commandBuffer'[it] = d /\ \A l \in DOMAIN commandBuffer \ {it} : commandBuffer'[l] = commandBuffer[l]
  BY <1>1
<1>4. strlen(d) = n /\ LineAt(d, strlen(d))
  BY LineLength
<1>5. ASSUME NEW l \in DOMAIN commandBuffer PROVE LineAt(commandBuffer'[l], strlen(commandBuffer'[l]))
  BY <1>3, <1>4 DEF LineInv
<1>6. it' \in DOMAIN commandBuffer' /\ strPos' = strlen(commandBuffer'[it']) /\ shown' = Text(commandBuffer'[it'])
  BY <1>1, <1>2, <1>3, <1>4
<1> QED BY <1>2, <1>5, <1>6 DEF LineInv, LineAt, strlen, Text

\* What a key that edits the current line does to it: another line in its place.
LEMMA TypedLine ==
  ASSUME LineInv, NEW c \in Chars, Character(c)
  PROVE  \E d, n : /\ LineAt(d, n) /\ d = [commandBuffer[it] EXCEPT ![strPos] = c]
                   /\ n = strPos + 1 /\ Text(d) = Append(Text(commandBuffer[it]), c)
<1>1. LineAt(commandBuffer[it], strPos) /\ strPos + 1 < Cap
  BY DEF LineInv, Character
<1> QED BY <1>1, StoredCharacter

LEMMA ErasedLine ==
  ASSUME LineInv, Backspace
  PROVE  \E d, n : /\ LineAt(d, n) /\ d = [commandBuffer[it] EXCEPT ![strPos - 1] = "NUL"]
                   /\ n = strPos - 1
                   /\ Text(d) = SubSeq(Text(commandBuffer[it]), 1, Len(Text(commandBuffer[it])) - 1)
<1>1. LineAt(commandBuffer[it], strPos) /\ strPos > 0
  BY DEF LineInv, Backspace
<1> QED BY <1>1, ClearedCharacter

\* Going to a line of the list, as the arrow keys and Return do.
LEMMA GoneTo ==
  ASSUME LineInv, commandBuffer' = commandBuffer \/ commandBuffer' = Inserted,
         it' \in DOMAIN commandBuffer', strPos' = strlen(commandBuffer'[it']),
         shown' = Text(commandBuffer'[it'])
  PROVE  LineInv'
<1>1. /\ commandBuffer' \in Seq(Buffers)
      /\ \A l \in DOMAIN commandBuffer' : LineAt(commandBuffer'[l], strlen(commandBuffer'[l]))
  BY InsertedLines DEF LineInv
<1> QED BY <1>1 DEF LineInv, LineAt, strlen, Text

LEMMA Untouched ==
  ASSUME LineInv, UNCHANGED <<commandBuffer, it, strPos, shown>>
  PROVE  LineInv'
<1>1. /\ it' \in DOMAIN commandBuffer' /\ strPos' = strlen(commandBuffer'[it'])
      /\ shown' = Text(commandBuffer'[it'])
  BY DEF LineInv
<1> QED BY <1>1, GoneTo

LEMMA LineNext == LineInv /\ [Next]_vars => LineInv'
<1> SUFFICES ASSUME LineInv, [Next]_vars PROVE LineInv'
  OBVIOUS
<1>0. /\ commandBuffer \in Seq(Buffers) /\ it \in DOMAIN commandBuffer
      /\ it \in Int /\ DOMAIN commandBuffer = 1..Len(commandBuffer) /\ Len(commandBuffer) \in Nat
  BY DEF LineInv
<1>1. CASE UpArrow
  <2>1. (IF it > 1 THEN it - 1 ELSE it) \in DOMAIN commandBuffer
    BY <1>0
  <2> QED BY <1>1, <2>1, GoneTo DEF UpArrow, GoTo, Show
<1>2. CASE DownArrow
  <2>1. (IF it < Len(commandBuffer) THEN it + 1 ELSE it) \in DOMAIN commandBuffer
    BY <1>0
  <2> QED BY <1>2, <2>1, GoneTo DEF DownArrow, GoTo, Show
<1>3. CASE Return
  BY <1>3, InsertedLines, GoneTo DEF Return, Show
<1>4. CASE ReturnEmpty
  <2>1. strPos' = strlen(commandBuffer[it]) /\ commandBuffer' = commandBuffer /\ it' = it
    BY <1>4 DEF ReturnEmpty, LineInv
  <2> QED BY <1>0, <1>4, <2>1, GoneTo DEF ReturnEmpty, Show
<1>5. CASE ReturnExit
  BY <1>5, Untouched DEF ReturnExit
<1>6. CASE Backspace
  <2>1. PICK d, n : LineAt(d, n) /\ d = [commandBuffer[it] EXCEPT ![strPos - 1] = "NUL"] /\ n = strPos - 1
    BY <1>6, ErasedLine
  <2>2. commandBuffer' = [commandBuffer EXCEPT ![it] = d]
    BY <1>0, <1>6, <2>1 DEF Backspace
  <2>3. commandBuffer'[it] = d
    BY <1>0, <2>2
  <2> QED BY <1>6, <2>1, <2>2, <2>3, EditedLine DEF Backspace, Show
<1>7. ASSUME NEW c \in Chars, Character(c) PROVE LineInv'
  <2>1. PICK d, n : LineAt(d, n) /\ d = [commandBuffer[it] EXCEPT ![strPos] = c] /\ n = strPos + 1
    BY <1>7, TypedLine
  <2>2. commandBuffer' = [commandBuffer EXCEPT ![it] = d]
    BY <1>0, <1>7, <2>1 DEF Character
  <2>3. commandBuffer'[it] = d
    BY <1>0, <2>2
  <2> QED BY <1>7, <2>1, <2>2, <2>3, EditedLine DEF Character, Show
<1>8. CASE UNCHANGED vars
  BY <1>8, Untouched DEF vars
<1> QED BY <1>1, <1>2, <1>3, <1>4, <1>5, <1>6, <1>7, <1>8 DEF Next

LEMMA LineIsInvariant == Spec => []LineInv
  BY InitLine, LineNext, PTL DEF Spec

\* GetUserInput: strPos is the length of the line on the screen whatever was typed,
\* erased, run and gone back to, and no buffer holds anything behind its first zero.
THEOREM PositionIsLength == Spec => []CursorAtEnd
<1>1. LineInv => CursorAtEnd
  BY DEF LineInv, LineAt, CursorAtEnd
<1> QED BY <1>1, LineIsInvariant, PTL

-----------------------------------------------------------------------------
(* The refinement.                                                         *)

\* The lines as LineHistory sees them.
Texts == [l \in DOMAIN commandBuffer |-> Text(commandBuffer[l])]

LEMMA TextsAreLines ==
  ASSUME LineInv
  PROVE  /\ Texts \in Seq(Seq(Chars)) /\ Len(Texts) = Len(commandBuffer)
         /\ DOMAIN Texts = DOMAIN commandBuffer
         /\ \A l \in DOMAIN commandBuffer : Texts[l] = Text(commandBuffer[l])
         /\ shown = Texts[it]
<1>1. DOMAIN commandBuffer = 1..Len(commandBuffer) /\ Len(commandBuffer) \in Nat
  BY DEF LineInv
<1>2. \A l \in DOMAIN commandBuffer : Text(commandBuffer[l]) \in Seq(Chars)
  BY TextOfLine DEF LineInv
<1>3. Texts \in [1..Len(commandBuffer) -> Seq(Chars)]
  BY <1>1, <1>2 DEF Texts
<1> QED BY <1>1, <1>3 DEF Texts, LineInv

LEMMA HistoryInit == Init => History!Init
<1> SUFFICES ASSUME Init PROVE History!Init
  OBVIOUS
<1>1. commandBuffer = <<Zeroed>>
  BY DEF Init
<1>2. Texts = <<Text(Zeroed)>>
  BY <1>1 DEF Texts
<1>3. Texts = << <<>> >>
  BY <1>2, ZeroedLine
<1> QED BY <1>3 DEF Init, History!Init, Texts

\* A key that edits the current line changes that line of the list and no other.
LEMMA EditedText ==
  ASSUME LineInv, NEW d, commandBuffer' = [commandBuffer EXCEPT ![it] = d],
         it' = it, shown' = Text(d), UNCHANGED <<ran, running>>
  PROVE  History!Edit(Text(d))
<1>1. it \in DOMAIN commandBuffer /\ commandBuffer \in Seq(Buffers)
  BY DEF LineInv
<1>2. DOMAIN commandBuffer' = DOMAIN commandBuffer
  BY <1>1
<1>3. \A l \in DOMAIN commandBuffer : commandBuffer'[l] = IF l = it THEN d ELSE commandBuffer[l]
  BY <1>1
<1>4. Texts' = [l \in DOMAIN commandBuffer |-> Text(commandBuffer'[l])]
  BY <1>2 DEF Texts, strlen, Text
<1>5. \A l \in DOMAIN commandBuffer : Text(commandBuffer'[l]) = IF l = it THEN Text(d) ELSE Texts[l]
  BY <1>3, TextsAreLines
<1>6. Texts' = [l \in DOMAIN commandBuffer |-> IF l = it THEN Text(d) ELSE Texts[l]]
  BY <1>4, <1>5
<1>7. Texts' = [Texts EXCEPT ![it] = Text(d)]
  BY <1>6 DEF Texts
<1> QED BY <1>7 DEF History!Edit, Texts

\* Return: the list of lines has an empty one at its end, as LineHistory adds it.
LEMMA InsertedTexts ==
  ASSUME LineInv, commandBuffer' = Inserted
  PROVE  /\ Texts' = IF Texts[Len(Texts)] = <<>> THEN Texts ELSE Append(Texts, <<>>)
         /\ Len(Texts') = Len(Inserted)
<1> DEFINE last == Len(commandBuffer)
<1>1. /\ commandBuffer \in Seq(Buffers) /\ last \in Nat /\ last \in DOMAIN commandBuffer
      /\ DOMAIN commandBuffer = 1..last
      /\ LineAt(commandBuffer[last], strlen(commandBuffer[last]))
  BY DEF LineInv
<1>2. Texts[Len(Texts)] = Text(commandBuffer[last])
  BY <1>1, TextsAreLines
<1>3. strlen(commandBuffer[last]) \in Nat
  BY <1>1, BufferSize DEF LineAt
<1>4. Texts[Len(Texts)] = <<>> <=> ~(strlen(commandBuffer[last]) > 0)
  BY <1>1, <1>2, <1>3, EmptyText
<1>5. CASE strlen(commandBuffer[last]) > 0
  <2>1. commandBuffer' = Append(commandBuffer, Zeroed) /\ Zeroed \in Buffers
    BY <1>5, ZeroedLine DEF Inserted, LineAt
  <2>2. /\ commandBuffer' \in Seq(Buffers) /\ Len(commandBuffer') = last + 1
        /\ \A l \in 1..last : commandBuffer'[l] = commandBuffer[l]
        /\ commandBuffer'[last + 1] = Zeroed
    BY <1>1, <2>1, AppendProperties
  <2>3. DOMAIN commandBuffer' = 1..(last + 1)
    BY <2>2
  <2>4. Texts' = [l \in 1..(last + 1) |-> Text(commandBuffer'[l])]
    BY <2>3 DEF Texts, strlen, Text
  <2>5. Texts \in Seq(Seq(Chars)) /\ Len(Texts) = last /\ <<>> \in Seq(Chars)
    BY TextsAreLines
  <2>6. /\ Append(Texts, <<>>) \in Seq(Seq(Chars)) /\ Len(Append(Texts, <<>>)) = last + 1
        /\ \A l \in 1..last : Append(Texts, <<>>)[l] = Texts[l]
        /\ Append(Texts, <<>>)[last + 1] = <<>>
    BY <2>5, AppendProperties
  <2>7. ASSUME NEW l \in 1..(last + 1) PROVE Text(commandBuffer'[l]) = Append(Texts, <<>>)[l]
    <3>1. l \in 1..last \/ l = last + 1
      BY <1>1
    <3> QED BY <3>1, <2>2, <2>6, <1>1, TextsAreLines, ZeroedLine
  <2>8. Append(Texts, <<>>) = [l \in 1..(last + 1) |-> Append(Texts, <<>>)[l]]
    <3> DEFINE a == Append(Texts, <<>>)
    <3>1. a \in Seq(Seq(Chars)) /\ Len(a) = last + 1
      BY <2>6
    <3> HIDE DEF a
    <3>2. a = [l \in 1..(last + 1) |-> a[l]]
      BY <3>1
    <3> QED BY <3>2 DEF a
  <2>9. Texts' = Append(Texts, <<>>)
    BY <2>4, <2>7, <2>8
  <2>10. Len(Texts') = Len(Inserted)
    BY <2>2, <2>6, <2>9
  <2> QED BY <1>4, <1>5, <2>9, <2>10
<1>6. CASE ~(strlen(commandBuffer[last]) > 0)
  <2>1. commandBuffer' = commandBuffer
    BY <1>6 DEF Inserted
  <2>2. Texts' = Texts
    BY <2>1 DEF Texts, strlen, Text
  <2> QED BY <1>4, <1>6, <2>1, <2>2, TextsAreLines
<1> QED BY <1>5, <1>6

\* The arrow keys.
LEMMA MovedText ==
  ASSUME LineInv, running, it' \in {it - 1, it, it + 1} \cap DOMAIN commandBuffer,
         shown' = Text(commandBuffer[it']), UNCHANGED <<commandBuffer, ran, running>>
  PROVE  History!Next
<1>1. Texts' = Texts
  BY DEF Texts, strlen, Text
<1>2. shown' = Texts[it'] /\ it' \in DOMAIN Texts
  BY TextsAreLines
<1>3. History!Move
  BY <1>1, <1>2 DEF History!Move, Texts
<1> QED BY <1>3 DEF History!Next

LEMMA HistoryNext == LineInv /\ [Next]_vars => [History!Next]_(History!vars)
<1> SUFFICES ASSUME LineInv, [Next]_vars PROVE [History!Next]_(History!vars)
  OBVIOUS
<1>0. /\ commandBuffer \in Seq(Buffers) /\ it \in DOMAIN commandBuffer /\ it \in Int
      /\ DOMAIN commandBuffer = 1..Len(commandBuffer) /\ Len(commandBuffer) \in Nat
      /\ LineAt(commandBuffer[it], strPos) /\ strPos = strlen(commandBuffer[it]) /\ strPos \in Nat
      /\ shown = Text(commandBuffer[it])
  BY BufferSize DEF LineInv, LineAt
<1>01. shown = Texts[it] /\ (shown = <<>> <=> strPos = 0)
  BY <1>0, TextsAreLines, EmptyText
<1>1. CASE UpArrow
  <2>1. it' \in {it - 1, it, it + 1} \cap DOMAIN commandBuffer
    BY <1>0, <1>1 DEF UpArrow, GoTo
  <2> QED BY <1>1, <2>1, MovedText DEF UpArrow, GoTo, Show
<1>2. CASE DownArrow
  <2>1. it' \in {it - 1, it, it + 1} \cap DOMAIN commandBuffer
    BY <1>0, <1>2 DEF DownArrow, GoTo
  <2> QED BY <1>2, <2>1, MovedText DEF DownArrow, GoTo, Show
<1>3. CASE Return
  <2>1. /\ running /\ shown # <<>> /\ shown # Exit
        /\ ran' = [count |-> ran.count + 1, line |-> shown] /\ running' = running
    <3>1. running /\ running' = running
      BY <1>3 DEF Return
    <3>2. strPos > 0 /\ shown # Exit /\ ran' = [count |-> ran.count + 1, line |-> shown]
      BY <1>0, <1>3 DEF Return, Run
    <3> QED BY <1>0, <1>01, <3>1, <3>2
  <2>2. /\ Texts' = IF Texts[Len(Texts)] = <<>> THEN Texts ELSE Append(Texts, <<>>)
        /\ it' = Len(Texts') /\ shown' = <<>>
    BY <1>3, InsertedTexts, InsertedLines DEF Return, Show
  <2>3. History!Enter
    BY <2>1, <2>2 DEF History!Enter, History!Runs, Texts
  <2> QED BY <2>1, <2>3 DEF History!Next
<1>4. CASE ReturnEmpty
  <2>1. shown' = shown /\ UNCHANGED <<commandBuffer, it, ran, running>>
    BY <1>0, <1>4 DEF ReturnEmpty, Show
  <2> QED BY <2>1 DEF History!vars, strlen, Text
<1>5. CASE ReturnExit
  <2>1. /\ running /\ shown # <<>> /\ shown = Exit /\ running' = FALSE
        /\ ran' = [count |-> ran.count + 1, line |-> shown]
        /\ UNCHANGED <<commandBuffer, it, shown>>
    <3>1. running /\ running' = FALSE /\ UNCHANGED <<commandBuffer, it, shown>>
      BY <1>5 DEF ReturnExit
    <3>2. strPos > 0 /\ shown = Exit /\ ran' = [count |-> ran.count + 1, line |-> shown]
      BY <1>0, <1>5 DEF ReturnExit, Run
    <3> QED BY <1>0, <1>01, <3>1, <3>2
  <2>2. Texts' = Texts
    BY <2>1 DEF Texts, strlen, Text
  <2>3. History!Leave
    BY <2>1, <2>2 DEF History!Leave, History!Runs, Texts
  <2> QED BY <2>1, <2>3 DEF History!Next
<1>6. CASE Backspace
  <2>1. PICK d, n : /\ LineAt(d, n) /\ d = [commandBuffer[it] EXCEPT ![strPos - 1] = "NUL"]
                    /\ Text(d) = SubSeq(Texts[it], 1, Len(Texts[it]) - 1)
    BY <1>0, <1>01, <1>6, ErasedLine
  <2>2. commandBuffer' = [commandBuffer EXCEPT ![it] = d] /\ it' = it /\ UNCHANGED <<ran, running>>
    BY <1>0, <1>6, <2>1 DEF Backspace
  <2>3. shown' = Text(d)
    <3>1. commandBuffer'[it] = d
      BY <1>0, <2>2
    <3> QED BY <1>6, <3>1 DEF Backspace, Show
  <2>4. History!Edit(Text(d))
    BY <2>2, <2>3, EditedText
  <2>5. Texts[it] # <<>>
    BY <1>01, <1>6 DEF Backspace
  <2>6. History!Erase
    BY <2>1, <2>4, <2>5 DEF History!Erase, Texts
  <2> QED BY <1>6, <2>6 DEF History!Next, Backspace
<1>7. ASSUME NEW c \in Chars, Character(c) PROVE History!Next
  <2>1. PICK d, n : /\ LineAt(d, n) /\ d = [commandBuffer[it] EXCEPT ![strPos] = c]
                    /\ Text(d) = Append(Texts[it], c)
    BY <1>0, <1>01, <1>7, TypedLine
  <2>2. commandBuffer' = [commandBuffer EXCEPT ![it] = d] /\ it' = it /\ UNCHANGED <<ran, running>>
    BY <1>0, <1>7, <2>1 DEF Character
  <2>3. shown' = Text(d)
    <3>1. commandBuffer'[it] = d
      BY <1>0, <2>2
    <3> QED BY <1>7, <3>1 DEF Character, Show
  <2>4. History!Edit(Text(d))
    BY <2>2, <2>3, EditedText
  <2>5. History!Type(c)
    BY <2>1, <2>4 DEF History!Type, Texts
  <2> QED BY <1>7, <2>5 DEF History!Next, Character
<1>8. CASE UNCHANGED vars
  BY <1>8 DEF vars, History!vars, strlen, Text
<1> QED BY <1>1, <1>2, <1>3, <1>4, <1>5, <1>6, <1>7, <1>8 DEF Next

\* GetUserInput keeps the promise of LineHistory: what is shown is the line that is
\* edited and run, a line is run once per Return, and no key changes another line.
THEOREM KeepsHistory == Spec => ImplementsHistory
<1>1. Init => History!Init
  BY HistoryInit
<1> QED BY <1>1, LineIsInvariant, HistoryNext, PTL DEF Spec, ImplementsHistory, History!Spec
=============================================================================
