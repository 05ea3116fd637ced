----------------------------- MODULE KeyDecode -----------------------------
(***************************************************************************)
(* From keys to key codes: the bytes a keyboard sends for presses and      *)
(* releases, KeyboardHandler::HandleIRQ that turns them into the codes it  *)
(* hands to NotifyObservers, and the classes Key, KeyModifier and KeyState *)
(* that take a code apart.  What happens to a code between the two is the  *)
(* subject of KeyEvents.  Key codes are records: raw stands for the low 16 *)
(* bits, mods for the bits ADDKEYS_CTRL, ADDKEYS_ALT and ADDKEYS_SHIFT.    *)
(*                                                                         *)
(* A key is here what HandleIRQ takes for one: a scan code, escaped or     *)
(* not, that goes down and up.  Most keys of a keyboard send just one.     *)
(* Print Screen is two (E0 2A, E0 37).  Pause is the marks E1, which       *)
(* HandleIRQ takes for a release, with the codes of the left control key   *)
(* and of Num Lock behind them (E1 1D 45 E1 9D C5).  A cursor key may      *)
(* come with shift keys that no one touched (E0 2A, E0 36, with Num Lock)  *)
(* or let go of held ones meanwhile (E0 AA, E0 B6).  So one stroke of such *)
(* a key is told as several codes, with modifiers that are not held: the   *)
(* keys below go down and up in any order, and the codes are theirs.       *)
(***************************************************************************)
EXTENDS Naturals, Sequences, FiniteSets

CONSTANTS Keys,         \* the keys of the keyboard, in the sense above
          Often,        \* those that are used often
          Early,        \* those that may be released without having been pressed
          MaxPresses,   \* bound: presses, with the repetitions of a held key
          MaxMixed,     \* the same, once a key that is not in Often was used
          Buffer        \* bytes the keyboard keeps while its port is disabled

ESCAPE == 224                \* I8042_CODE_ESCAPE
EVNT_KEYUP == 128
KEY_CTRL == 29
KEY_ALT == 56
KEY_SHIFT == 42
Modifiers == {"ctrl", "alt", "shift"}

\* keyMapUnshifted and keyMapShifted from index 0; the rest of the 128 entries is 0.
Unshifted ==
  << 0,27,49,50,51, 52,53,54,55,56, 57,48,225,239,10, 9,113,119,101,114, 116,122,117,105,111,
     112,129,43,13,0, 97,115,100,102,103, 104,106,107,108,148, 132,35,0,0,121, 120,99,118,98,110,
     109,44,46,45,63, 42,0,32,0,59, 60,61,62,63,64, 65,66,67,68,0, 0,16,72,18,0, 75,0,77,0,17,
     80,19,14,15,0 >>
Shifted ==
  << 0,27,33,34,245, 36,37,38,47,40, 41,61,63,96,10, 9,81,87,69,82, 84,90,85,73,79,
     80,154,42,13,0, 65,83,68,70,71, 72,74,75,76,153, 142,39,0,0,89, 88,67,86,66,78,
     77,59,58,95,0, 42,0,32,0,59, 60,61,62,63,64, 65,66,67,68,0, 0,16,72,18,0, 75,0,77,0,17,
     80,19,14,15,0 >>
Lookup(map, code) == IF code < Len(map) /\ map[code + 1] # 0 THEN map[code + 1] ELSE code

\* The modifier a scan code stands for, as a set of at most one.
ModifierOf(code) ==
  {m \in Modifiers : code = [ctrl |-> KEY_CTRL, alt |-> KEY_ALT, shift |-> KEY_SHIFT][m]}

VARIABLES
  down,       \* the keys that are held
  used,       \* history: the keys that were ever pressed or released
  line,       \* bytes sent and not yet read
  handling,   \* HandleIRQ: not called, called, has read a byte
  escaped, addKeys,     \* its static variables
  told,       \* the codes NotifyObservers was called with
  typed       \* history: the key of every press, and what was held with it

vars == <<down, used, line, handling, escaped, addKeys, told, typed>>

TypeOK ==
  /\ used \subseteq Keys /\ down \subseteq used
  /\ line \in Seq(1..255) /\ Len(line) <= Buffer
  /\ handling \in {"no", "called", "read"} /\ escaped \in BOOLEAN
  /\ addKeys \subseteq Modifiers
  /\ told \in Seq([raw : 0..511, mods : SUBSET Modifiers])
  /\ typed \in Seq([key : Keys, held : SUBSET Keys]) /\ Len(told) <= Len(typed)

Init ==
  /\ down = {} /\ used = {} /\ line = <<>> /\ handling = "no"
  /\ escaped = FALSE /\ addKeys = {}
  /\ told = <<>> /\ typed = <<>>

(***************************************************************************)
(* The keyboard (external).  A held key repeats its press.                 *)
(***************************************************************************)
\* E1, which Pause sends ahead of its codes.
PauseMark == [code |-> 97, ext |-> FALSE]

Bytes(k, up) ==
  (IF k.ext THEN <<ESCAPE>> ELSE <<>>) \o <<IF up THEN k.code + EVNT_KEYUP ELSE k.code>>

Send(k, up) ==
  /\ used' = used \cup {k}
  /\ Len(line) + Len(Bytes(k, up)) <= Buffer
  /\ line' = line \o Bytes(k, up)

\* Bound: all keys, but only one that is not used often.
Usable ==
  CASE Len(typed) < MaxMixed /\ used \subseteq Often -> Keys
    [] Len(typed) < MaxMixed /\ ~(used \subseteq Often) -> Often \cup used
    [] Len(typed) \in MaxMixed..(MaxPresses - 1) /\ used \subseteq Often -> Often
    [] OTHER -> {}

PressKey(k) ==
  /\ k # PauseMark
  /\ Send(k, FALSE)
  /\ down' = down \cup {k}
  /\ typed' = Append(typed, [key |-> k, held |-> down'])
  /\ UNCHANGED <<handling, escaped, addKeys, told>>

\* Bound: a key that was not pressed is released once, ahead of the last presses.
Releasable == down \cup {k \in Early \ used : Len(typed) < MaxMixed}

ReleaseKey(k) ==
  /\ Send(k, TRUE)
  /\ down' = down \ {k}
  /\ UNCHANGED <<handling, escaped, addKeys, told, typed>>

(***************************************************************************)
(* KeyboardHandler::HandleIRQ.  An interrupt means that a byte is there;   *)
(* the next one may be read by the same call or by one of its own.         *)
(***************************************************************************)
Begin ==
  /\ handling = "no" /\ line # <<>>
  /\ handling' = "called"
  /\ UNCHANGED <<down, used, line, escaped, addKeys, told, typed>>

ReadData ==
  /\ handling # "no" /\ line # <<>>
  /\ line' = Tail(line) /\ handling' = "read"
  /\ UNCHANGED <<down, used, typed>>

Escape ==
  /\ ReadData /\ Head(line) = ESCAPE
  /\ escaped' = TRUE
  /\ UNCHANGED <<addKeys, told>>

Translated(code, mods) ==
  IF ModifierOf(code) # {} THEN 0
  ELSE Lookup(IF "shift" \in mods THEN Shifted ELSE Unshifted, code)

KeyCode(code, mods) ==
  [raw |-> (IF escaped THEN 256 ELSE 0) + Translated(code, mods), mods |-> mods]

\* Mutant: a modifier alone is not reported.
PressedAlone ==
  /\ ReadData /\ Head(line) < EVNT_KEYUP
  /\ addKeys' = addKeys \cup ModifierOf(Head(line))
  /\ told' = IF ModifierOf(Head(line)) # {} THEN told ELSE Append(told, KeyCode(Head(line), addKeys'))
  /\ escaped' = FALSE

Pressed ==
  /\ ReadData /\ Head(line) < EVNT_KEYUP
  /\ addKeys' = addKeys \cup ModifierOf(Head(line))
  /\ told' = Append(told, KeyCode(Head(line), addKeys'))
  /\ escaped' = FALSE

Released ==
  /\ ReadData /\ Head(line) >= EVNT_KEYUP /\ Head(line) # ESCAPE
  /\ addKeys' = addKeys \ ModifierOf(Head(line) - EVNT_KEYUP)
  /\ escaped' = FALSE
  /\ UNCHANGED told

\* Mutant: escaped does not outlive the call.
EndForgets ==
  /\ handling = "read"
  /\ handling' = "no" /\ escaped' = FALSE
  /\ UNCHANGED <<down, used, line, addKeys, told, typed>>

\* The port is enabled again: the controller held no further byte.
End ==
  /\ handling = "read"
  /\ handling' = "no"
  /\ UNCHANGED <<down, used, line, escaped, addKeys, told, typed>>

HandleIRQ == Begin \/ Escape \/ Pressed \/ Released \/ End

Next ==
  \/ HandleIRQ
  \/ \E k \in Usable : PressKey(k)
  \/ \E k \in Releasable : ReleaseKey(k)

\* An interrupt is handled, and a byte the controller holds is read.
Spec     == Init /\ [][Next]_vars
FairSpec == Spec /\ WF_vars(HandleIRQ)

(***************************************************************************)
(* The classes of keyboard/keyboard.h.                                     *)
(***************************************************************************)
IsReturn(c)    == c.raw \in {13, 269}

\* The flag of class Key for each of the other keys with a name.
KeyFlags == [backspace |-> 10, up |-> 328, down |-> 336, left |-> 331, right |-> 333, home |-> 272,
             end |-> 273, pgUp |-> 274, pgDn |-> 275, insert |-> 270, delete |-> 271]

\* The keys with these names (external).
KeyCap ==
  LET Plain(c) == [code |-> c, ext |-> FALSE]
      Grey(c)  == [code |-> c, ext |-> TRUE]
  IN  [backspace |-> Plain(14), up |-> Grey(72), down |-> Grey(80), left |-> Grey(75), right |-> Grey(77),
       home |-> Grey(71), end |-> Grey(79), pgUp |-> Grey(73), pgDn |-> Grey(81),
       insert |-> Grey(82), delete |-> Grey(83)]

-----------------------------------------------------------------------------
(* Properties.                                                             *)

ModifiersOf(keys) == UNION {ModifierOf(k.code) : k \in keys}

\* The modifiers of which no two keys were used, and so none is lost by a release.
KeysOf(m) == {k \in used : m \in ModifierOf(k.code)}
Exact     == {m \in Modifiers : \A j, k \in KeysOf(m) : j = k}

\* A flag of class Key is up for its key, with any modifier, and for no other.
NamedKeys(code, key) ==
  /\ IsReturn(code) <=> key.code = 28
  /\ \A f \in DOMAIN KeyFlags : code.raw = KeyFlags[f] <=> key = KeyCap[f]

\* The codes are those of the presses, in order, each once, however the bytes were
\* spread over the calls of HandleIRQ: escaped keys and no others carry 256, the
\* modifiers are those of keys held at the press, late as it may be read, and the
\* constants of keyboard/keyboard.h name the keys they are named after.  Keys are the
\* scan codes of the module's head: Print Screen is told as two, the first a shift key
\* that both carry, and Pause as the left control key and, with it held, Num Lock.
CodesAsTyped ==
  LET exact == Exact IN \A i \in DOMAIN told :
    LET code == told[i]
        held == ModifiersOf(typed[i].held)
    IN  /\ code.raw = (IF typed[i].key.ext THEN 256 ELSE 0) + Translated(typed[i].key.code, code.mods)
        /\ code.mods \subseteq held
        /\ exact \cap held \subseteq code.mods
        /\ NamedKeys(code, typed[i].key)

\* No press is forgotten.
EverythingIsTold == \A n \in 1..MaxPresses : Len(typed) >= n ~> Len(told) >= n
=============================================================================
