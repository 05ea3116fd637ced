----------------------------- MODULE LineEditor -----------------------------
(***************************************************************************)
(* The console's input loop: GetUserInput keeps a list of line buffers     *)
(* that are zeroed once and edited in place, goes up and down in it and    *)
(* runs the current line on Return.  The program counts the characters of  *)
(* the current line in strPos, but shows and runs a line up to its first   *)
(* zero.  Which keys arrive is the subject of KeyEvents and KeyDecode.     *)
(***************************************************************************)
EXTENDS Integers, Sequences

CONSTANTS Chars,        \* characters the keyboard can deliver
          Exit,         \* the line that ends the console
          Cap,          \* bound: the size of a buffer, 256 in the code
          MaxLines,     \* bound: buffers
          MaxRuns       \* bound: commands

ASSUME LineEditorAssumption ==
  /\ "NUL" \notin Chars /\ Exit \in Seq(Chars)
  /\ Cap \in Nat \ {0} /\ MaxLines \in Nat \ {0} /\ MaxRuns \in Nat

VARIABLES
  commandBuffer,   \* the list of buffers
  it,              \* the place of the iterator in it
  strPos,
  shown,           \* what DisplayString wrote last
  ran,             \* how many commands were executed, and the last one
  running

vars == <<commandBuffer, it, strPos, shown, ran, running>>

Buffers == [0..(Cap - 1) -> Chars \cup {"NUL"}]
Lines   == UNION {[1..n -> Chars] : n \in 0..Cap}
Zeroed  == [i \in 0..(Cap - 1) |-> "NUL"]

\* strlen and the string a buffer holds: up to the first zero, which the bound keeps
\* inside the buffer.
strlen(b) == CHOOSE n \in 0..(Cap - 1) : b[n] = "NUL" /\ \A i \in 0..(n - 1) : b[i] # "NUL"
Text(b)   == [i \in 1..strlen(b) |-> b[i - 1]]

TypeOK ==
  /\ commandBuffer \in Seq(Buffers) /\ Len(commandBuffer) \in 1..MaxLines
  /\ it \in DOMAIN commandBuffer
  /\ strPos \in 0..(Cap - 1)
  /\ shown \in Lines /\ ran \in [count : 0..MaxRuns, line : Lines] /\ running \in BOOLEAN

\* InsertString into the empty list.
Init ==
  /\ commandBuffer = <<Zeroed>> /\ it = 1 /\ strPos = 0
  /\ shown = <<>> /\ ran = [count |-> 0, line |-> <<>>] /\ running = TRUE

Show(b) == shown' = Text(b)

\* Mutant: the position is that of the line before.
GoToKeeps(i) ==
  /\ it' = i
  /\ strPos' = strPos
  /\ Show(commandBuffer[i])
  /\ UNCHANGED <<commandBuffer, ran, running>>

GoTo(i) ==
  /\ it' = i
  /\ strPos' = strlen(commandBuffer[i])
  /\ Show(commandBuffer[i])
  /\ UNCHANGED <<commandBuffer, ran, running>>

UpArrow   == running /\ GoTo(IF it > 1 THEN it - 1 ELSE it)
DownArrow == running /\ GoTo(IF it < Len(commandBuffer) THEN it + 1 ELSE it)

\* InsertString: a new buffer unless the last line is empty.
Inserted ==
  IF strlen(commandBuffer[Len(commandBuffer)]) > 0 THEN Append(commandBuffer, Zeroed) ELSE commandBuffer

\* Command::ExecuteCommand.
Run(line) == ran.count < MaxRuns /\ ran' = [count |-> ran.count + 1, line |-> line]

\* Mutant: the iterator stays on the line that was run.
ReturnStays ==
  /\ running /\ strlen(commandBuffer[it]) > 0 /\ Text(commandBuffer[it]) # Exit
  /\ Len(Inserted) <= MaxLines
  /\ Run(Text(commandBuffer[it]))
  /\ commandBuffer' = Inserted /\ it' = it /\ strPos' = 0
  /\ Show(commandBuffer'[it'])
  /\ UNCHANGED running

\* Return on a line with text, after Command::ExecuteCommand has come back.
Return ==
  /\ running /\ strlen(commandBuffer[it]) > 0 /\ Text(commandBuffer[it]) # Exit
  /\ Len(Inserted) <= MaxLines
  /\ Run(Text(commandBuffer[it]))
  /\ commandBuffer' = Inserted /\ it' = Len(Inserted) /\ strPos' = 0
  /\ Show(commandBuffer'[it'])
  /\ UNCHANGED running

ReturnEmpty ==
  /\ running /\ strlen(commandBuffer[it]) = 0
  /\ Show(commandBuffer[it])
  /\ UNCHANGED <<commandBuffer, it, strPos, ran, running>>

\* exit(0) does not come back.
ReturnExit ==
  /\ running /\ strlen(commandBuffer[it]) > 0 /\ Text(commandBuffer[it]) = Exit
  /\ Run(Exit) /\ running' = FALSE
  /\ UNCHANGED <<commandBuffer, it, strPos, shown>>

Backspace ==
  /\ running /\ strPos > 0
  /\ strPos' = strPos - 1
  /\ commandBuffer' = [commandBuffer EXCEPT ![it][strPos - 1] = "NUL"]
  /\ Show(commandBuffer'[it])
  /\ UNCHANGED <<it, ran, running>>

\* The code stores at strPos whatever its value; the bound leaves room for the zero.
Character(c) ==
  /\ running /\ strPos + 1 < Cap
  /\ commandBuffer' = [commandBuffer EXCEPT ![it][strPos] = c]
  /\ strPos' = strPos + 1
  /\ Show(commandBuffer'[it])
  /\ UNCHANGED <<it, ran, running>>

Next ==
  \/ UpArrow \/ DownArrow \/ Return \/ ReturnEmpty \/ ReturnExit \/ Backspace
  \/ \E c \in Chars : Character(c)

Spec == Init /\ [][Next]_vars

-----------------------------------------------------------------------------
(* Properties.                                                             *)

\* GetUserInput: strPos is the length of the current line, also after moving between
\* lines edited in place, and no buffer holds anything behind its first zero.
CursorAtEnd ==
  /\ strPos = strlen(commandBuffer[it])
  /\ \A l \in DOMAIN commandBuffer :
       \A i \in strlen(commandBuffer[l])..(Cap - 1) : commandBuffer[l][i] = "NUL"

\* What the user can rely on, told without buffers and positions.
History ==
  INSTANCE LineHistory WITH lines <- [l \in DOMAIN commandBuffer |-> Text(commandBuffer[l])],
                            at <- it, screen <- shown
ImplementsHistory == History!Spec
=============================================================================
