---------------------------- MODULE MCAlgorithms ----------------------------
(***************************************************************************)
(* The repository's algorithms for TLC: each behaviour tries one of them   *)
(* on one input.                                                           *)
(***************************************************************************)
EXTENDS Integers, SequencesExt

CONSTANTS Lists,          \* Signature: parameter lists, as places in TypeNames
          Names, Sizes,   \* Demangle: the names in a type, the sizes of the buffer
          Processes,      \* Commands: the kernel's lists of threads
          Arguments,      \* Commands: what follows reset
          Arrays,         \* Commands: what bench sorts
          Parts           \* Sha1: the lengths of the parts of a message
CONSTANTS UInts, Unsigned, Signed      \* Video
CONSTANTS Low, High                     \* Sha1

VARIABLES of, input
vars == <<of, input>>

S == INSTANCE Signature
D == INSTANCE Demangle
C == INSTANCE Commands
V == INSTANCE Video
H == INSTANCE Sha1

\* MSG_PARAM[32]: what RegisterFunction has room for.
ASSUME AlgorithmsAssumption ==
  /\ Lists \subseteq {l \in Seq(DOMAIN S!TypeNames) : Len(l) <= 32}
  /\ \A names \in Names :
       /\ names \in Seq(Seq(1..255)) /\ names # <<>>
       /\ \A k \in 1..Len(names) :
            /\ Len(names[k]) \in 1..99 /\ names[k][1] \notin D!Digits
            /\ \A i \in 1..Len(names[k]) : names[k][i] # D!DOT
  /\ Sizes \subseteq Nat \ {0}
  /\ Processes \subseteq {l \in Seq([pid : Nat, threadNum : Nat]) : \A i, j \in DOMAIN l : l[i] = l[j] => i = j}
  /\ Arguments \subseteq Seq(STRING) /\ Arrays \subseteq Seq(0..255)
  /\ UInts \in Nat \ {0} /\ UInts % 2 = 0
  /\ Unsigned \in Nat \ {0, 1} /\ UInts <= V!TenTo(Unsigned - 1)
  /\ Signed \in Nat \ {0, 1, 2} /\ UInts \div 2 < V!TenTo(Signed - 2)
  /\ Parts \subseteq Seq(Nat)
  /\ Low \in Nat \ {0} /\ Low % 8 = 0 /\ High \in Nat \ {0}

\* Up to three of the nine types.
UpToThreeTypes == SeqOf(1..9, 3)

\* Up to three names of one, two and eleven letters.
UpToThreeNames == SeqOf({<<97>>, <<98, 99>>, [j \in 1..11 |-> 97 + j]}, 3) \ {<<>>}
SmallSizes     == {1, 2, 4, 5, 8, 16, 64}

\* Up to four threads of two processes, in any order.
FourThreads == UNION {SetToSeqs(s) : s \in SUBSET ({1, 2} \X {0, 1}) \cup {{1} \X {0, 1, 2}}}
TwoProcesses == {[i \in DOMAIN l |-> [pid |-> l[i][1], threadNum |-> l[i][2]]] : l \in FourThreads}

FourLetters == SeqOf({"i", "t", "h", "blank", "x"}, 4)
FiveBytes   == SeqOf(0..3, 5)

\* Around the end of a block, of the room for the length, and of the counters.
TwoParts == SeqOf({0, 1, 8, 55, 56, 63, 64, 65}, 2)

-----------------------------------------------------------------------------
Init == of = "none" /\ input = <<>>

Try(algorithm, inputs) ==
  /\ of = "none" /\ of' = algorithm
  /\ input' \in inputs

TryTypes     == Try("types", [list : Lists, comma : {<<",">>, <<",", " ">>}])
TrySpelling  == Try("spelling", [known : DOMAIN S!TypeNames, other : DOMAIN S!Others, comma : {<<",">>, <<",", " ">>}])
TryName      == Try("name", [names : Names, size : Sizes, cut : 0..1])
TryProcesses == Try("processes", Processes)
TryReset     == Try("reset", Arguments)
TrySort      == Try("sort", Arrays)
TryNumber    == Try("number", [value : 0..(UInts - 1), radix : {2, 10, 16}])
TryMessage   == Try("message", Parts)

Next == \/ TryTypes \/ TrySpelling \/ TryName \/ TryProcesses
        \/ TryReset \/ TrySort \/ TryNumber \/ TryMessage

Spec == Init /\ [][Next]_vars

-----------------------------------------------------------------------------
\* Signature: what is registered is what the programmer spelled.
TypesAsSpelled == of = "types" => S!ReadAsSpelled(input.list, input.comma)

\* Signature: operator() fetches the arguments it was called with.
ArgumentsArrive == of = "types" => S!WordsArrive(input.list)

\* Signature: the comment at GetNextType, "Space is either at front or end", leaves no
\* room for a spelling that is taken for another.
MeantOrMemory == of = "spelling" => S!MeantOrMemory(input.other, input.comma, input.known)

\* Demangle: what is in the buffer when it returns.
WritesTheName == of = "name" => D!Written(input.names, input.size, input.cut)

\* Commands: ps shows each thread once, under its process.
EachThreadOnce == of = "processes" => C!ShownOnce(input)

\* Commands and Video: reset, bench and the numbers on the screen give what their plain
\* definitions give, at the edges, too.
AsReference ==
  /\ of = "reset" => C!AsksForTheNamed(input)
  /\ of = "sort" => C!Sorts(input)
  /\ of = "number" => V!ShownAsItIs(input.value, input.radix)

\* Sha1: the digest is that of the padded message, however it is handed over.
DigestsThePadded == of = "message" => H!DigestOf(input)
=============================================================================
