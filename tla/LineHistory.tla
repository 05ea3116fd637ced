---------------------------- MODULE LineHistory ----------------------------
(***************************************************************************)
(* What the console's input loop promises: a list of lines, one of which   *)
(* is on the screen and takes the keys.  Return runs the line on the       *)
(* screen, once, and goes on with an empty line at the end of the list;    *)
(* going up and down loses nothing, and nothing else runs a line.          *)
(***************************************************************************)
EXTENDS Naturals, Sequences

CONSTANTS Chars, Exit

VARIABLES
  lines, at,    \* the lines, and the current one
  screen,       \* the line the user sees
  ran,          \* how many lines were run, and the last one
  running

vars == <<lines, at, screen, ran, running>>

Init ==
  /\ lines = <<<<>>>> /\ at = 1 /\ screen = <<>>
  /\ ran = [count |-> 0, line |-> <<>>] /\ running = TRUE

\* One line up or down, or no further.
Move ==
  /\ at' \in {at - 1, at, at + 1} \cap DOMAIN lines /\ screen' = lines[at']
  /\ UNCHANGED <<lines, ran, running>>

Edit(line) ==
  /\ lines' = [lines EXCEPT ![at] = line] /\ screen' = line
  /\ UNCHANGED <<at, ran, running>>

Type(c) == Edit(Append(lines[at], c))
Erase   == lines[at] # <<>> /\ Edit(SubSeq(lines[at], 1, Len(lines[at]) - 1))

Runs == screen # <<>> /\ ran' = [count |-> ran.count + 1, line |-> screen]

\* The empty line at the end may have been there before.
Enter ==
  /\ Runs /\ screen # Exit
  /\ lines' = IF lines[Len(lines)] = <<>> THEN lines ELSE Append(lines, <<>>)
  /\ at' = Len(lines') /\ screen' = <<>>
  /\ UNCHANGED running

\* The last line a console runs.
Leave == Runs /\ screen = Exit /\ running' = FALSE /\ UNCHANGED <<lines, at, screen>>

Next == running /\ (Move \/ Erase \/ Enter \/ Leave \/ \E c \in Chars : Type(c))

Spec == Init /\ [][Next]_vars
=============================================================================
