----------------------------- MODULE MCKeyboard -----------------------------
(***************************************************************************)
(* The keyboard driver's two sequential halves for TLC: the poll loops     *)
(* InitDriver goes through (I8042Poll) and, once there is a keyboard, the  *)
(* way from keys to key codes (KeyDecode).  A behaviour runs one of them.  *)
(***************************************************************************)
EXTENDS I8042Poll, FiniteSets

CONSTANTS Keys, Often, Early, MaxPresses, MaxMixed, Buffer     \* KeyDecode

VARIABLES down, used, line, handling, escaped, addKeys, told, typed
VARIABLE  half

D == INSTANCE KeyDecode

keyVars == <<down, used, line, handling, escaped, addKeys, told, typed>>
allVars == <<vars, keyVars, half>>

ASSUME KeyboardAssumption ==
  /\ Keys \subseteq [code : (1..95) \cup {97}, ext : BOOLEAN] /\ Often \subseteq Keys /\ Early \subseteq Keys
  /\ MaxPresses \in Nat /\ MaxMixed \in 0..MaxPresses /\ Buffer \in Nat

Key(c, e) == [code |-> c, ext |-> e]

\* The grey cursor-up key, the two control keys, the left shift key and what makes up
\* Print Screen, Pause and a shifted cursor key: the shift E0 2A and the mark E1.
Marks   == {Key(42, TRUE), Key(97, FALSE)}
FewKeys == {Key(72, TRUE), Key(29, FALSE), Key(29, TRUE), Key(42, FALSE)} \cup Marks

\* All that the 105 keys of an MF-II keyboard send.  103 keys have a code of their own;
\* Print Screen has 55, escaped, or 84 with Alt, and Pause 70, escaped, with Ctrl; the
\* escaped 42 and 54 and the mark 97 belong to several codes that make one stroke.
AllKeys == {Key(c, FALSE) : c \in (1..84) \cup (86..88) \cup {97}}
           \cup {Key(c, TRUE) : c \in {28, 29, 42, 53, 54, 55, 56, 70, 71, 72, 73, 75, 77, 79,
                                       80, 81, 82, 83, 91, 92, 93}}

-----------------------------------------------------------------------------
AllInit ==
  /\ half \in {"loops", "keys"}
  /\ Init /\ D!Init
  /\ half = "keys" => present

AllNext ==
  /\ UNCHANGED half
  /\ \/ half = "loops" /\ Next /\ UNCHANGED keyVars
     \/ half = "keys" /\ D!Next /\ UNCHANGED vars

\* The fairness of each half, as its module states it.
Served ==
  \/ half = "loops" /\ Next /\ UNCHANGED <<keyVars, half>>
  \/ half = "keys" /\ D!HandleIRQ /\ UNCHANGED <<vars, half>>

AllSpec == AllInit /\ [][AllNext]_allVars /\ WF_allVars(Served)

-----------------------------------------------------------------------------
\* I8042Poll: InitDriver gets to its Go whatever the controller does.
DriverGoesOn == half = "loops" => InitDriverEnds

\* KeyDecode: the codes are those of the presses, whatever the calls of HandleIRQ.
CodesAsTyped == D!CodesAsTyped

\* KeyDecode: no code is forgotten.
EverythingIsTold == D!EverythingIsTold
=============================================================================
