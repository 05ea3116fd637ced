----------------------------- MODULE Signature -----------------------------
(***************************************************************************)
(* Types of remote methods.  Socket::RegisterFunction reads them from the  *)
(* text of a C++ parameter list, as the macros AddLocalCallback and        *)
(* AddRemoteMethod hand it over; RemoteMethod::operator() fetches as many  *)
(* words as it found parameters.  The prototype in sandbox/remotetypeinfo  *)
(* has the same parser with a shorter list.  A string is the sequence of   *)
(* its characters; "" stands for the terminating zero.                     *)
(***************************************************************************)
EXTENDS Naturals, Sequences, FiniteSetsExt

\* The spellings MatchType compares with, in this order, and their MSG_TYPE.
TypeNames ==
  << [name |-> <<"i","n","t">>,                                             type |-> "SINT32"],
     [name |-> <<"u","n","s","i","g","n","e","d"," ","i","n","t">>,         type |-> "UINT32"],
     [name |-> <<"s","h","o","r","t">>,                                     type |-> "SINT16"],
     [name |-> <<"u","n","s","i","g","n","e","d"," ","s","h","o","r","t">>, type |-> "UINT16"],
     [name |-> <<"u","n","s","i","g","n","e","d"," ","c","h","a","r">>,     type |-> "UINT8"],
     [name |-> <<"f","l","o","a","t">>,                                     type |-> "FLOAT"],
     [name |-> <<"c","h","a","r">>,                                         type |-> "CHAR"],
     [name |-> <<"c","h","a","r"," ","*">>,                                 type |-> "STRING"],
     [name |-> <<"v","o","i","d">>,                                         type |-> "VOID"] >>

\* The prototype does not know void, and leaves an unknown type as it is in memory.
Library   == [names |-> TypeNames, unknown |-> "MEM"]
Prototype == [names |-> SubSeq(TypeNames, 1, 8), unknown |-> "undefined"]

\* The text of a parameter list, as #arguments spells it.
Text(names, comma) ==
  LET Upto[i \in 0..Len(names)] ==
        IF i = 0 THEN <<>> ELSE Upto[i - 1] \o (IF i = 1 THEN <<>> ELSE comma) \o names[i]
  IN  Upto[Len(names)]

CharAt(str, i) == IF i < Len(str) THEN str[i + 1] ELSE ""

\* GetNextType: the comma or the zero it stops at, the first character that is not a
\* blank, and the number of such characters, from searchStart on.
Stop(str, searchStart)      == Min({i \in searchStart..Len(str) : CharAt(str, i) \in {",", ""}})
TypeStart(str, searchStart) == Min({i \in searchStart..Len(str) : CharAt(str, i) # " "})
TypeLength(str, searchStart) ==
  Cardinality({i \in searchStart..(Stop(str, searchStart) - 1) : CharAt(str, i) # " "})

\* strncmp(str + start, type, length) == 0
MatchType(str, start, length, name) ==
  \A k \in 0..(length - 1) : CharAt(str, start + k) = CharAt(name, k)

\* Mutant: the last spelling that matches counts.
Last(matching) == CHOOSE i \in matching : \A j \in matching : j <= i

Earliest(matching) == CHOOSE i \in matching : \A j \in matching : i <= j

GetType(parser, str, start, length) ==
  LET matching == {i \in DOMAIN parser.names : MatchType(str, start, length, parser.names[i].name)}
  IN  IF matching = {} THEN parser.unknown ELSE parser.names[Earliest(matching)].type

\* The loop of RegisterFunction: the types in msgCall->parameters.
RegisterFunction(parser, parameters) ==
  LET From[searchStart \in 0..Len(parameters)] ==
        LET type == GetType(parser, parameters, TypeStart(parameters, searchStart), TypeLength(parameters, searchStart))
            stop == Stop(parameters, searchStart)
        IN  IF CharAt(parameters, stop) = "," THEN <<type>> \o From[stop + 1] ELSE <<type>>
  IN  From[0]

PrototypeFunction(parameters) == RegisterFunction(Prototype, parameters)

\* What the caller of a variadic operator() puts on the stack behind its first
\* argument: a float becomes a double, which takes two words.
Pushed(types) ==
  LET Words(k) == IF types[k] = "FLOAT" THEN <<<<k, "low">>, <<k, "high">>>> ELSE <<<<k, "whole">>>>
      Upto[k \in 1..Len(types)] == IF k = 1 THEN <<>> ELSE Upto[k - 1] \o Words(k)
  IN  Upto[Len(types)]

\* Mutant: the list starts at the first argument.
FetchedAgain(types, i) == IF i <= 2 THEN <<1, "whole">> ELSE Pushed(types)[i - 2]

Fetched(types, i) == IF i = 1 THEN <<1, "whole">> ELSE Pushed(types)[i - 1]

\* operator(): args.values, one word for each registered parameter.
Values(types) == [i \in DOMAIN types |-> Fetched(types, i)]

-----------------------------------------------------------------------------
(* Properties, over the texts of parameter lists.                          *)

\* The parameters the programmer spelled, for which a MSG_TYPE exists, are registered
\* with these types, in this order, each once, by the library and by the prototype.
\* Only a function without parameters is registered as if it had one int: the loop runs
\* at least once.
ReadAsSpelled(list, comma) ==
  LET text  == Text([i \in DOMAIN list |-> TypeNames[list[i]].name], comma)
      types == IF list = <<>> THEN <<"SINT32">> ELSE [i \in DOMAIN list |-> TypeNames[list[i]].type]
  IN  /\ RegisterFunction(Library, text) = types
      /\ "VOID" \notin {types[i] : i \in DOMAIN types} => PrototypeFunction(text) = types

\* The words of a call are its arguments, up to the first float behind the first
\* argument; without such a float all of them.  Of a char or short in the first place
\* the low bytes arrive, which are its value: memcpy takes four, and what lies behind it.
WordsArrive(list) ==
  LET types == [i \in DOMAIN list |-> TypeNames[list[i]].type]
  IN  \A i \in DOMAIN list :
        (\A j \in 2..i : types[j] # "FLOAT") => Values(types)[i] = <<i, "whole">>

\* Spellings GetType does not list, and what they mean.
Others ==
  << [name |-> <<"u","n","s","i","g","n","e","d">>,                              means |-> "UINT32"],
     [name |-> <<"c","h","a","r","*">>,                                          means |-> "STRING"],
     [name |-> <<"i","n","t"," ","x">>,                                          means |-> "SINT32"],
     [name |-> <<"v","o","i","d"," ","*">>,                                      means |-> "MEM"],
     [name |-> <<"l","o","n","g">>,                                              means |-> "SINT32"],
     [name |-> <<"u","n","s","i","g","n","e","d"," ","c","h","a","r"," ","*">>, means |-> "MEM"] >>

\* A spelling that is not in the list is registered as what it means or as memory.
MeantOrMemory(o, comma, known) ==
  LET text  == Text(<<TypeNames[known].name, Others[o].name>>, comma)
  IN  RegisterFunction(Library, text)[2] \in {Others[o].means, "MEM"}
=============================================================================
