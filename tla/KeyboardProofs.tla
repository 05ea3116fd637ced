--------------------------- MODULE KeyboardProofs ---------------------------
(***************************************************************************)
(* Proofs about the two halves of the keyboard driver.  The poll loops are *)
(* those of every number of tries and counter width.  The key codes are    *)
(* those of every keyboard that sends codes of an MF-II one, Print Screen, *)
(* Pause and the shifts around cursor keys included, of every buffer and   *)
(* every number of presses: the invariant reads the bytes on the line back *)
(* as presses and releases of single codes, one by one, with the keys that *)
(* were down before and after each.                                        *)
(***************************************************************************)
EXTENDS MCKeyboard, SequenceTheorems, TLAPS

-----------------------------------------------------------------------------
(* The tables.                                                             *)

PlainCodes == (1..84) \cup (86..88) \cup {97}
GreyCodes  == {28, 29, 42, 53, 54, 55, 56, 70, 71, 72, 73, 75, 77, 79, 80, 81, 82, 83, 91, 92, 93}

\* What the keys give that send no escape code.
LEMMA PlainTable ==
  ASSUME NEW c \in PlainCodes, NEW map \in {D!Unshifted, D!Shifted}
  PROVE  LET x == D!Lookup(map, c)
         IN  x \in 0..255 /\ (x = 13 <=> c = 28) /\ (x = 10 <=> c = 14)
<1>1. CASE map = D!Unshifted
  BY <1>1 DEF D!Lookup, D!Unshifted, PlainCodes
<1>2. CASE map = D!Shifted
  BY <1>2 DEF D!Lookup, D!Shifted, PlainCodes
<1> QED BY <1>1, <1>2

\* What the keys give that send one.
LEMMA GreyTable ==
  ASSUME NEW c \in GreyCodes, NEW map \in {D!Unshifted, D!Shifted}
  PROVE  LET x == D!Lookup(map, c)
         IN  /\ x \in 0..255 /\ (x = 13 <=> c = 28)
             /\ (x = 72 <=> c = 72) /\ (x = 80 <=> c = 80) /\ (x = 75 <=> c = 75) /\ (x = 77 <=> c = 77)
             /\ (x = 16 <=> c = 71) /\ (x = 17 <=> c = 79) /\ (x = 18 <=> c = 73) /\ (x = 19 <=> c = 81)
             /\ (x = 14 <=> c = 82) /\ (x = 15 <=> c = 83)
<1>1. CASE map = D!Unshifted
  BY <1>1 DEF D!Lookup, D!Unshifted, GreyCodes
<1>2. CASE map = D!Shifted
  BY <1>2 DEF D!Lookup, D!Shifted, GreyCodes
<1> QED BY <1>1, <1>2

LEMMA ModifierCodes ==
  ASSUME NEW c \in Nat
  PROVE  D!ModifierOf(c) \subseteq D!Modifiers /\ (D!ModifierOf(c) # {} <=> c \in {29, 56, 42})
BY DEF D!ModifierOf, D!Modifiers, D!KEY_CTRL, D!KEY_ALT, D!KEY_SHIFT

LEMMA PlainKeys ==
  ASSUME NEW c \in PlainCodes, NEW mods
  PROVE  LET x == D!Translated(c, mods)
         IN  x \in 0..255 /\ (x = 13 <=> c = 28) /\ (x = 10 <=> c = 14)
<1>1. CASE D!ModifierOf(c) # {}
  BY <1>1, ModifierCodes DEF D!Translated, PlainCodes
<1>2. CASE D!ModifierOf(c) = {}
  BY <1>2, PlainTable DEF D!Translated
<1> QED BY <1>1, <1>2

LEMMA GreyKeys ==
  ASSUME NEW c \in GreyCodes, NEW mods
  PROVE  LET x == D!Translated(c, mods)
         IN  /\ x \in 0..255 /\ (x = 13 <=> c = 28)
             /\ (x = 72 <=> c = 72) /\ (x = 80 <=> c = 80) /\ (x = 75 <=> c = 75) /\ (x = 77 <=> c = 77)
             /\ (x = 16 <=> c = 71) /\ (x = 17 <=> c = 79) /\ (x = 18 <=> c = 73) /\ (x = 19 <=> c = 81)
             /\ (x = 14 <=> c = 82) /\ (x = 15 <=> c = 83)
<1>1. CASE D!ModifierOf(c) # {}
  BY <1>1, ModifierCodes DEF D!Translated, GreyCodes
<1>2. CASE D!ModifierOf(c) = {}
  BY <1>2, GreyTable DEF D!Translated
<1> QED BY <1>1, <1>2

LEMMA KeysAre ==
  ASSUME NEW k \in AllKeys
  PROVE  \/ k.code \in PlainCodes /\ k.ext = FALSE
         \/ k.code \in GreyCodes /\ k.ext = TRUE
BY DEF AllKeys, Key, PlainCodes, GreyCodes

LEMMA SameKey ==
  ASSUME NEW k \in AllKeys, NEW c, NEW e
  PROVE  k = [code |-> c, ext |-> e] <=> k.code = c /\ k.ext = e
BY DEF AllKeys, Key

\* The tables of the flags and of the names, entry by entry.
LEMMA Flags ==
  /\ DOMAIN D!KeyFlags = {"backspace", "up", "down", "left", "right", "home", "end", "pgUp", "pgDn",
                          "insert", "delete"}
  /\ D!KeyFlags["backspace"] = 10 /\ D!KeyFlags["up"] = 328 /\ D!KeyFlags["down"] = 336
  /\ D!KeyFlags["left"] = 331 /\ D!KeyFlags["right"] = 333 /\ D!KeyFlags["home"] = 272
  /\ D!KeyFlags["end"] = 273 /\ D!KeyFlags["pgUp"] = 274 /\ D!KeyFlags["pgDn"] = 275
  /\ D!KeyFlags["insert"] = 270 /\ D!KeyFlags["delete"] = 271
BY DEF D!KeyFlags

LEMMA Caps ==
  /\ D!KeyCap["backspace"] = [code |-> 14, ext |-> FALSE]
  /\ D!KeyCap["up"] = [code |-> 72, ext |-> TRUE]
  /\ D!KeyCap["down"] = [code |-> 80, ext |-> TRUE]
  /\ D!KeyCap["left"] = [code |-> 75, ext |-> TRUE]
  /\ D!KeyCap["right"] = [code |-> 77, ext |-> TRUE]
  /\ D!KeyCap["home"] = [code |-> 71, ext |-> TRUE]
  /\ D!KeyCap["end"] = [code |-> 79, ext |-> TRUE]
  /\ D!KeyCap["pgUp"] = [code |-> 73, ext |-> TRUE]
  /\ D!KeyCap["pgDn"] = [code |-> 81, ext |-> TRUE]
  /\ D!KeyCap["insert"] = [code |-> 82, ext |-> TRUE]
  /\ D!KeyCap["delete"] = [code |-> 83, ext |-> TRUE]
BY DEF D!KeyCap

LEMMA PlainCap ==
  ASSUME NEW k \in AllKeys, k.ext = FALSE
  PROVE  /\ k = D!KeyCap["backspace"] <=> k.code = 14
         /\ \A f \in DOMAIN D!KeyFlags : k = D!KeyCap[f] => f = "backspace"
BY SameKey, Caps, Flags

IsGrey(r) == r = [code |-> r.code, ext |-> TRUE]

LEMMA GreyCap ==
  ASSUME NEW k \in AllKeys, k.ext = TRUE
  PROVE  /\ k # D!KeyCap["backspace"]
         /\ \A f \in DOMAIN D!KeyFlags \ {"backspace"} : k = D!KeyCap[f] <=> k.code = D!KeyCap[f].code
<1>1. k # D!KeyCap["backspace"]
  BY SameKey, Caps
<1>2. ASSUME NEW f \in DOMAIN D!KeyFlags \ {"backspace"}
      PROVE  IsGrey(D!KeyCap[f])
  <2>1. /\ IsGrey(D!KeyCap["up"]) /\ IsGrey(D!KeyCap["down"]) /\ IsGrey(D!KeyCap["left"])
        /\ IsGrey(D!KeyCap["right"]) /\ IsGrey(D!KeyCap["home"]) /\ IsGrey(D!KeyCap["end"])
        /\ IsGrey(D!KeyCap["pgUp"]) /\ IsGrey(D!KeyCap["pgDn"]) /\ IsGrey(D!KeyCap["insert"])
        /\ IsGrey(D!KeyCap["delete"])
    BY Caps DEF IsGrey
  <2> QED BY <2>1, Flags
<1>3. ASSUME NEW f \in DOMAIN D!KeyFlags \ {"backspace"}
      PROVE  k = D!KeyCap[f] <=> k.code = D!KeyCap[f].code
  <2>1. PICK c : c = D!KeyCap[f].code
    OBVIOUS
  <2>2. D!KeyCap[f] = [code |-> c, ext |-> TRUE]
    BY <1>2, <2>1 DEF IsGrey
  <2>3. k = [code |-> c, ext |-> TRUE] <=> k.code = c
    BY SameKey
  <2> QED BY <2>1, <2>2, <2>3
<1> QED BY <1>1, <1>3

\* The constants of keyboard/keyboard.h name the keys they are named after.
LEMMA NamesFit ==
  ASSUME NEW k \in AllKeys, NEW mods,
         NEW code, code.raw = (IF k.ext THEN 256 ELSE 0) + D!Translated(k.code, mods)
  PROVE  code.raw \in Nat /\ D!NamedKeys(code, k)
<1>2. CASE k.ext = FALSE
  <2>0. k.code \in PlainCodes
    BY <1>2, KeysAre
  <2>1. k.code \in PlainCodes /\ code.raw = D!Translated(k.code, mods)
    BY <1>2, <2>0, PlainKeys
  <2>2. code.raw \in 0..255 /\ (code.raw = 13 <=> k.code = 28) /\ (code.raw = 10 <=> k.code = 14)
    BY <2>1, PlainKeys
  <2>3. ASSUME NEW f \in DOMAIN D!KeyFlags PROVE code.raw = D!KeyFlags[f] <=> k = D!KeyCap[f]
    <3>1. CASE f = "backspace"
      <4>1. D!KeyFlags[f] = 10
        BY <3>1, Flags
      <4>2. k = D!KeyCap[f] <=> k.code = 14
        BY <1>2, <3>1, PlainCap
      <4> QED BY <2>2, <4>1, <4>2
    <3>2. CASE f # "backspace"
      <4>1. D!KeyFlags[f] > 255
        BY <3>2, Flags
      <4>2. k # D!KeyCap[f]
        BY <1>2, <3>2, PlainCap
      <4> QED BY <2>2, <4>1, <4>2
    <3> QED BY <3>1, <3>2
  <2> QED BY <2>2, <2>3 DEF D!NamedKeys, D!IsReturn
<1>3. CASE k.ext = TRUE
  <2>1. k.code \in GreyCodes /\ code.raw = 256 + D!Translated(k.code, mods)
    BY <1>3, KeysAre
  <2>2. PICK x : x = D!Translated(k.code, mods)
    OBVIOUS
  <2>3. /\ x \in 0..255 /\ (x = 13 <=> k.code = 28)
        /\ (x = 72 <=> k.code = 72) /\ (x = 80 <=> k.code = 80) /\ (x = 75 <=> k.code = 75) /\ (x = 77 <=> k.code = 77)
        /\ (x = 16 <=> k.code = 71) /\ (x = 17 <=> k.code = 79) /\ (x = 18 <=> k.code = 73) /\ (x = 19 <=> k.code = 81)
        /\ (x = 14 <=> k.code = 82) /\ (x = 15 <=> k.code = 83)
    BY <2>1, <2>2, GreyKeys
  <2>4. ASSUME NEW f \in DOMAIN D!KeyFlags PROVE code.raw = D!KeyFlags[f] <=> k = D!KeyCap[f]
    <3>1. code.raw = 256 + x
      BY <1>3, <2>1, <2>2
    <3>2. CASE f = "backspace"
      <4>1. D!KeyFlags[f] = 10
        BY <3>2, Flags
      <4>2. k # D!KeyCap[f]
        BY <1>3, <3>2, GreyCap
      <4> QED BY <2>3, <3>1, <4>1, <4>2
    <3>3. CASE f # "backspace"
      <4>1. k = D!KeyCap[f] <=> k.code = D!KeyCap[f].code
        BY <1>3, <3>3, GreyCap
      <4>2. code.raw = D!KeyFlags[f] <=> k.code = D!KeyCap[f].code
        BY <2>3, <3>1, <3>3, Flags, Caps
      <4> QED BY <4>1, <4>2
    <3> QED BY <3>2, <3>3
  <2> QED BY <2>1, <2>2, <2>3, <2>4 DEF D!NamedKeys, D!IsReturn
<1> QED BY <1>2, <1>3, KeysAre

-----------------------------------------------------------------------------
(* The bytes on the line.                                                  *)

\* Is the byte at i behind an escape code?
EscapedAt(ln, esc, i) == IF i = 1 THEN esc ELSE ln[i - 1] = D!ESCAPE

\* What a byte stands for, behind an escape code or not, of a key in U: a and b are the numbers of
\* presses before and after it, D1 and D2 the keys that are down.
Means(byte, esc, ty, U, a, b, D1, D2) ==
  \/ byte = D!ESCAPE /\ ~esc /\ b = a /\ D2 = D1
  \/ \E k \in U :
       /\ k.ext = esc /\ byte = k.code
       /\ b = a + 1 /\ D2 = D1 \cup {k} /\ ty[b] = [key |-> k, held |-> D2]
  \/ \E k \in U :
       /\ k.ext = esc /\ byte = k.code + D!EVNT_KEYUP
       /\ b = a /\ D2 = D1 \ {k}

\* All bytes on the line: g counts the presses, those that were told included.
Chain(ln, esc, ty, U, g, d) ==
  /\ g \in [0..Len(ln) -> 0..Len(ty)] /\ d \in [0..Len(ln) -> SUBSET U]
  /\ \A i \in 1..Len(ln) : Means(ln[i], EscapedAt(ln, esc, i), ty, U, g[i - 1], g[i], d[i - 1], d[i])

Presses == [key : Keys, held : SUBSET Keys]

\* What a further byte may stand for, and a line that is longer by some bytes.
NextMeans(ln, esc, ty, U, g, d, b, x, K) ==
  Means(b, EscapedAt(Append(ln, b), esc, Len(ln) + 1), ty, U, g[Len(ln)], x, d[Len(ln)], K)

Extends(ln, esc, ty, U, g, d, ln2, x, K) ==
  \E g2, d2 : /\ Chain(ln2, esc, ty, U, g2, d2) /\ g2[0] = g[0] /\ d2[0] = d[0]
             /\ g2[Len(ln2)] = x /\ d2[Len(ln2)] = K

LEMMA OneByte ==
  ASSUME NEW ln \in Seq(Nat), NEW esc \in BOOLEAN, NEW ty \in Seq(Presses), NEW U \in SUBSET Keys, NEW g, NEW d,
         Chain(ln, esc, ty, U, g, d), NEW b \in Nat, NEW x \in 0..Len(ty), NEW K \in SUBSET U,
         NextMeans(ln, esc, ty, U, g, d, b, x, K)
  PROVE  Extends(ln, esc, ty, U, g, d, Append(ln, b), x, K)
<1>1. PICK g2 : g2 = [i \in 0..(Len(ln) + 1) |-> IF i <= Len(ln) THEN g[i] ELSE x]
  OBVIOUS
<1>2. PICK d2 : d2 = [i \in 0..(Len(ln) + 1) |-> IF i <= Len(ln) THEN d[i] ELSE K]
  OBVIOUS
<1>3. /\ Append(ln, b) \in Seq(Nat) /\ Len(Append(ln, b)) = Len(ln) + 1 /\ Len(ln) \in Nat
      /\ \A i \in 1..Len(ln) : Append(ln, b)[i] = ln[i]
  BY AppendProperties
<1>4. \A i \in 0..Len(ln) : g2[i] = g[i] /\ d2[i] = d[i]
  BY <1>1, <1>2, <1>3
<1>5. ASSUME NEW i \in 1..Len(ln)
      PROVE  Means(Append(ln, b)[i], EscapedAt(Append(ln, b), esc, i), ty, U, g2[i - 1], g2[i], d2[i - 1], d2[i])
  <2>1. /\ Append(ln, b)[i] = ln[i] /\ g2[i] = g[i] /\ d2[i] = d[i]
        /\ g2[i - 1] = g[i - 1] /\ d2[i - 1] = d[i - 1]
    <3>1. i \in 0..Len(ln) /\ i - 1 \in 0..Len(ln)
      BY <1>3
    <3> QED BY <1>3, <1>4, <3>1
  <2>2. EscapedAt(Append(ln, b), esc, i) = EscapedAt(ln, esc, i)
    BY <1>3 DEF EscapedAt
  <2>3. Means(ln[i], EscapedAt(ln, esc, i), ty, U, g[i - 1], g[i], d[i - 1], d[i])
    BY DEF Chain
  <2> QED BY <2>1, <2>2, <2>3
<1>6. g2 \in [0..(Len(ln) + 1) -> 0..Len(ty)]
  BY <1>1, <1>3 DEF Chain
<1>7. d2 \in [0..(Len(ln) + 1) -> SUBSET U]
  BY <1>2, <1>3 DEF Chain
<1>8. ASSUME NEW i \in 1..(Len(ln) + 1)
      PROVE  Means(Append(ln, b)[i], EscapedAt(Append(ln, b), esc, i), ty, U, g2[i - 1], g2[i], d2[i - 1], d2[i])
  <2>1. CASE i = Len(ln) + 1
    <3>1. Append(ln, b)[i] = b
      BY <2>1, AppendProperties
    <3>2. g2[i - 1] = g[Len(ln)] /\ g2[i] = x /\ d2[i - 1] = d[Len(ln)] /\ d2[i] = K
      BY <1>1, <1>2, <1>3, <2>1
    <3>3. EscapedAt(Append(ln, b), esc, i) = EscapedAt(Append(ln, b), esc, Len(ln) + 1)
      BY <2>1
    <3> QED BY <3>1, <3>2, <3>3 DEF NextMeans
  <2>2. CASE i # Len(ln) + 1
    <3>1. i \in 1..Len(ln)
      BY <1>3, <2>2
    <3> QED BY <3>1, <1>5
  <2> QED BY <2>1, <2>2
<1>9. Chain(Append(ln, b), esc, ty, U, g2, d2)
  BY <1>3, <1>6, <1>7, <1>8 DEF Chain
<1>10. g2[0] = g[0] /\ d2[0] = d[0] /\ g2[Len(ln) + 1] = x /\ d2[Len(ln) + 1] = K
  BY <1>1, <1>2, <1>3
<1> QED BY <1>9, <1>10 DEF Extends

\* A further press, and a further key.
LEMMA ChainTyped ==
  ASSUME NEW ln \in Seq(Nat), NEW esc \in BOOLEAN, NEW ty \in Seq(Presses), NEW U \in SUBSET Keys, NEW g, NEW d,
         Chain(ln, esc, ty, U, g, d), NEW e \in Presses, NEW V \in SUBSET Keys, U \subseteq V
  PROVE  Chain(ln, esc, Append(ty, e), V, g, d) /\ Chain(ln, esc, ty, V, g, d)
<1>1. /\ Len(Append(ty, e)) = Len(ty) + 1 /\ Len(ty) \in Nat
      /\ \A i \in 1..Len(ty) : Append(ty, e)[i] = ty[i]
  BY AppendProperties
<1>2. g \in [0..Len(ln) -> 0..(Len(ty) + 1)] /\ Len(ln) \in Nat
  BY <1>1 DEF Chain
<1>3. ASSUME NEW i \in 1..Len(ln)
      PROVE  /\ Means(ln[i], EscapedAt(ln, esc, i), Append(ty, e), V, g[i - 1], g[i], d[i - 1], d[i])
             /\ Means(ln[i], EscapedAt(ln, esc, i), ty, V, g[i - 1], g[i], d[i - 1], d[i])
  <2>1. i \in 0..Len(ln) /\ i - 1 \in 0..Len(ln)
    BY <1>2
  <2>2. g[i] \in 0..Len(ty) /\ g[i - 1] \in 0..Len(ty)
    BY <2>1 DEF Chain
  <2>3. Means(ln[i], EscapedAt(ln, esc, i), ty, U, g[i - 1], g[i], d[i - 1], d[i])
    BY DEF Chain
  <2>4. g[i] = g[i - 1] + 1 => Append(ty, e)[g[i]] = ty[g[i]]
    BY <1>1, <2>2
  <2> QED BY <2>3, <2>4 DEF Means
<1>4. d \in [0..Len(ln) -> SUBSET V]
  BY DEF Chain
<1>5. g \in [0..Len(ln) -> 0..Len(ty)]
  BY DEF Chain
<1> QED BY <1>1, <1>2, <1>3, <1>4, <1>5 DEF Chain

\* The first byte is read.
LEMMA ChainTail ==
  ASSUME NEW ln \in Seq(Nat), NEW esc \in BOOLEAN, NEW ty \in Seq(Presses), NEW U \in SUBSET Keys, NEW g, NEW d,
         Chain(ln, esc, ty, U, g, d), ln # <<>>, NEW g2, NEW d2,
         g2 = [i \in 0..(Len(ln) - 1) |-> g[i + 1]], d2 = [i \in 0..(Len(ln) - 1) |-> d[i + 1]]
  PROVE  Chain(Tail(ln), ln[1] = D!ESCAPE, ty, U, g2, d2)
<1>1. /\ Tail(ln) \in Seq(Nat) /\ Len(Tail(ln)) = Len(ln) - 1 /\ Len(ln) \in Nat /\ Len(ln) # 0
      /\ \A i \in 1..(Len(ln) - 1) : Tail(ln)[i] = ln[i + 1]
  BY HeadTailProperties
<1>2. g2 \in [0..(Len(ln) - 1) -> 0..Len(ty)]
  BY <1>1 DEF Chain
<1>3. d2 \in [0..(Len(ln) - 1) -> SUBSET U]
  BY <1>1 DEF Chain
<1>4. ASSUME NEW i \in 1..(Len(ln) - 1)
      PROVE  Means(Tail(ln)[i], EscapedAt(Tail(ln), ln[1] = D!ESCAPE, i), ty, U, g2[i - 1], g2[i], d2[i - 1], d2[i])
  <2>1. /\ Tail(ln)[i] = ln[i + 1] /\ g2[i] = g[i + 1] /\ d2[i] = d[i + 1]
        /\ g2[i - 1] = g[(i + 1) - 1] /\ d2[i - 1] = d[(i + 1) - 1] /\ i + 1 \in 1..Len(ln)
    BY <1>1
  <2>2. EscapedAt(Tail(ln), ln[1] = D!ESCAPE, i) = EscapedAt(ln, esc, i + 1)
    <3>1. CASE i = 1
      BY <3>1 DEF EscapedAt
    <3>2. CASE i # 1
      <4>1. Tail(ln)[i - 1] = ln[(i + 1) - 1] /\ i + 1 # 1
        BY <1>1, <3>2
      <4> QED BY <3>2, <4>1 DEF EscapedAt
    <3> QED BY <3>1, <3>2
  <2>3. Means(ln[i + 1], EscapedAt(ln, esc, i + 1), ty, U, g[(i + 1) - 1], g[i + 1], d[(i + 1) - 1], d[i + 1])
    BY <2>1 DEF Chain
  <2> QED BY <2>1, <2>2, <2>3 DEF Means
<1> QED BY <1>1, <1>2, <1>3, <1>4 DEF Chain

Byte(k, up) == IF up THEN k.code + D!EVNT_KEYUP ELSE k.code

LEMMA BytesAre ==
  ASSUME NEW k \in Keys, NEW up \in BOOLEAN, NEW ln \in Seq(Nat)
  PROVE  /\ Byte(k, up) \in Nat /\ Byte(k, up) # D!ESCAPE
         /\ ln \o D!Bytes(k, up) = IF k.ext THEN Append(Append(ln, D!ESCAPE), Byte(k, up)) ELSE Append(ln, Byte(k, up))
<1>1. k.code \in (1..95) \cup {97} /\ k.ext \in BOOLEAN
  BY KeyboardAssumption DEF KeyboardAssumption
<1>2. Byte(k, up) \in Nat /\ Byte(k, up) # D!ESCAPE
  <2>1. k.code \in Nat /\ k.code + 128 \in Nat /\ k.code # 224 /\ k.code + 128 # 224
    <3>1. PICK c \in (1..95) \cup {97} : c = k.code
      BY <1>1
    <3>2. c \in Nat /\ c + 128 \in Nat /\ c # 224 /\ c + 128 # 224
      OBVIOUS
    <3> QED BY <3>1, <3>2
  <2> QED BY <2>1 DEF Byte, D!ESCAPE, D!EVNT_KEYUP
<1>3. PICK b \in Nat : b = Byte(k, up)
  BY <1>2
<1>4. <<b>> \in Seq(Nat) /\ <<D!ESCAPE>> \in Seq(Nat) /\ D!ESCAPE \in Nat
  BY DEF D!ESCAPE
<1>5. D!Bytes(k, up) = (IF k.ext THEN <<D!ESCAPE>> ELSE <<>>) \o <<b>>
  BY <1>3 DEF D!Bytes, Byte
<1>6. CASE k.ext
  <2>1. ln \o (<<D!ESCAPE>> \o <<b>>) = (ln \o <<D!ESCAPE>>) \o <<b>>
    BY <1>4, ConcatAssociative
  <2>2. ln \o <<D!ESCAPE>> = Append(ln, D!ESCAPE) /\ Append(ln, D!ESCAPE) \in Seq(Nat)
    BY <1>4, AppendIsConcat, AppendProperties
  <2>3. Append(ln, D!ESCAPE) \o <<b>> = Append(Append(ln, D!ESCAPE), b)
    BY <2>2, AppendIsConcat
  <2> QED BY <1>2, <1>3, <1>5, <1>6, <2>1, <2>2, <2>3
<1>7. CASE ~k.ext
  <2>1. <<>> \o <<b>> = <<b>>
    BY <1>4, ConcatEmptySeq
  <2>2. ln \o <<b>> = Append(ln, b)
    BY <1>4, AppendIsConcat
  <2> QED BY <1>2, <1>3, <1>5, <1>7, <2>1, <2>2
<1> QED BY <1>1, <1>6, <1>7

\* The line ends with the last byte of a key.
Whole(ln, esc) == (ln = <<>> => ~esc) /\ (ln # <<>> => ln[Len(ln)] # D!ESCAPE)

LEMMA Sent ==
  ASSUME NEW ln \in Seq(Nat), NEW esc \in BOOLEAN, NEW ty \in Seq(Presses), NEW U \in SUBSET Keys, NEW g, NEW d,
         Chain(ln, esc, ty, U, g, d), Whole(ln, esc), NEW k \in U, NEW up \in BOOLEAN,
         NEW x \in 0..Len(ty), NEW K \in SUBSET U,
         Means(Byte(k, up), k.ext, ty, U, g[Len(ln)], x, d[Len(ln)], K), NEW ln2, ln2 = ln \o D!Bytes(k, up)
  PROVE  /\ ln2 \in Seq(Nat) /\ Whole(ln2, esc)
         /\ Extends(ln, esc, ty, U, g, d, ln2, x, K)
<1>1. PICK b \in Nat : b = Byte(k, up) /\ b # D!ESCAPE
  BY BytesAre
<1>2. D!ESCAPE \in Nat /\ Len(ln) \in Nat /\ k.ext \in BOOLEAN
  BY KeyboardAssumption DEF D!ESCAPE, KeyboardAssumption
<1>3. \A c \in Nat : EscapedAt(Append(ln, c), esc, Len(ln) + 1) = FALSE
  <2> TAKE c \in Nat
  <2>1. CASE ln = <<>>
    <3>1. Len(ln) = 0 /\ esc = FALSE
      BY <2>1 DEF Whole
    <3> QED BY <3>1 DEF EscapedAt
  <2>2. CASE ln # <<>>
    <3>1. Len(ln) # 0 /\ Len(ln) \in 1..Len(ln) /\ ln[Len(ln)] # D!ESCAPE
      BY <1>2, <2>2, EmptySeq DEF Whole
    <3>2. Append(ln, c)[Len(ln)] = ln[Len(ln)]
      BY <3>1, AppendProperties
    <3>3. (Len(ln) + 1) - 1 = Len(ln) /\ Len(ln) + 1 # 1
      BY <1>2, <3>1
    <3> QED BY <3>1, <3>2, <3>3 DEF EscapedAt
  <2> QED BY <2>1, <2>2
<1>4. ASSUME NEW s \in Seq(Nat) PROVE Whole(Append(s, b), esc)
  <2>1. /\ Append(s, b) \in Seq(Nat) /\ Len(Append(s, b)) = Len(s) + 1 /\ Len(s) \in Nat
        /\ Append(s, b)[Len(s) + 1] = b
    BY AppendProperties
  <2>2. Append(s, b) # <<>>
    <3>1. Len(Append(s, b)) # 0 /\ Len(<<>>) = 0
      BY <2>1
    <3> QED BY <3>1
  <2> QED BY <1>1, <2>1, <2>2 DEF Whole
<1>5. CASE ~k.ext
  <2>1. ln2 = Append(ln, b) /\ ln2 \in Seq(Nat) /\ Len(ln2) = Len(ln) + 1
    <3>1. ln2 = Append(ln, b)
      BY <1>1, <1>5, BytesAre
    <3> QED BY <3>1, AppendProperties
  <2>2. NextMeans(ln, esc, ty, U, g, d, b, x, K)
    BY <1>1, <1>2, <1>3, <1>5 DEF NextMeans
  <2>3. Extends(ln, esc, ty, U, g, d, Append(ln, b), x, K)
    BY <2>2, OneByte
  <2> QED BY <1>4, <2>1, <2>3
<1>6. CASE k.ext
  <2>1. PICK ln1 : ln1 = Append(ln, D!ESCAPE)
    OBVIOUS
  <2>2. ln1 \in Seq(Nat) /\ Len(ln1) = Len(ln) + 1 /\ ln1[Len(ln) + 1] = D!ESCAPE
    BY <1>2, <2>1, AppendProperties
  <2>3. ln2 = Append(ln1, b) /\ ln2 \in Seq(Nat) /\ Len(ln2) = Len(ln1) + 1
    <3>1. ln2 = Append(ln1, b)
      BY <1>1, <1>6, <2>1, BytesAre
    <3> QED BY <2>2, <3>1, AppendProperties
  <2>4. g[Len(ln)] \in 0..Len(ty) /\ d[Len(ln)] \in SUBSET U
    BY <1>2 DEF Chain
  <2>5. NextMeans(ln, esc, ty, U, g, d, D!ESCAPE, g[Len(ln)], d[Len(ln)])
    BY <1>2, <1>3 DEF Means, NextMeans
  <2>6. PICK g1, d1 :
           /\ Chain(ln1, esc, ty, U, g1, d1) /\ g1[0] = g[0] /\ d1[0] = d[0]
           /\ g1[Len(ln1)] = g[Len(ln)] /\ d1[Len(ln1)] = d[Len(ln)]
    <3>1. Extends(ln, esc, ty, U, g, d, ln1, g[Len(ln)], d[Len(ln)])
      BY <1>2, <2>1, <2>4, <2>5, OneByte
    <3> QED BY <3>1 DEF Extends
  <2>7. EscapedAt(Append(ln1, b), esc, Len(ln1) + 1) = TRUE
    <3>1. Append(ln1, b)[Len(ln1)] = D!ESCAPE
      BY <1>2, <2>2, AppendProperties
    <3>2. (Len(ln1) + 1) - 1 = Len(ln1) /\ Len(ln1) + 1 # 1
      BY <1>2, <2>2
    <3> QED BY <3>1, <3>2 DEF EscapedAt
  <2>8. NextMeans(ln1, esc, ty, U, g1, d1, b, x, K)
    BY <1>1, <1>2, <1>6, <2>2, <2>6, <2>7 DEF NextMeans
  <2>9. Extends(ln1, esc, ty, U, g1, d1, ln2, x, K)
    BY <2>2, <2>3, <2>6, <2>8, OneByte
  <2>10. Extends(ln, esc, ty, U, g, d, ln2, x, K)
    BY <2>6, <2>9 DEF Extends
  <2> QED BY <1>4, <2>2, <2>3, <2>10
<1> QED BY <1>2, <1>5, <1>6

-----------------------------------------------------------------------------
(* Modifiers.                                                              *)

\* The modifiers of at most one key in U.
ExactIn(U) == {m \in D!Modifiers : \A j, k \in {h \in U : m \in D!ModifierOf(h.code)} : j = k}

LEMMA ExactIs == D!Exact = ExactIn(used)
BY DEF D!Exact, D!KeysOf, ExactIn

LEMMA ExactShrinks == ASSUME NEW U, NEW V, U \subseteq V PROVE ExactIn(V) \subseteq ExactIn(U)
BY DEF ExactIn

\* addKeys is right about a modifier of which one key was used, and never invents another.
Knows(mods, keys, U) == mods \subseteq D!ModifiersOf(keys) /\ ExactIn(U) \cap D!ModifiersOf(keys) \subseteq mods

LEMMA KnowsMore ==
  ASSUME NEW U, NEW V, U \subseteq V, NEW mods, NEW keys, Knows(mods, keys, U)
  PROVE  Knows(mods, keys, V)
BY ExactShrinks DEF Knows

LEMMA KnowsPress ==
  ASSUME NEW U, NEW mods, NEW keys \in SUBSET U, Knows(mods, keys, U), NEW k \in U
  PROVE  Knows(mods \cup D!ModifierOf(k.code), keys \cup {k}, U)
<1>1. D!ModifiersOf(keys \cup {k}) = D!ModifiersOf(keys) \cup D!ModifierOf(k.code)
  BY DEF D!ModifiersOf
<1> QED BY <1>1 DEF Knows

LEMMA KnowsRelease ==
  ASSUME NEW U, NEW mods, NEW keys \in SUBSET U, Knows(mods, keys, U), NEW k \in U
  PROVE  Knows(mods \ D!ModifierOf(k.code), keys \ {k}, U)
<1>1. ASSUME NEW m \in mods \ D!ModifierOf(k.code) PROVE m \in D!ModifiersOf(keys \ {k})
  BY <1>1 DEF Knows, D!ModifiersOf
<1>2. ASSUME NEW m \in ExactIn(U), m \in D!ModifiersOf(keys \ {k})
      PROVE  m \in mods \ D!ModifierOf(k.code)
  <2>1. PICK j \in keys \ {k} : m \in D!ModifierOf(j.code)
    BY <1>2 DEF D!ModifiersOf
  <2>2. m \in D!ModifiersOf(keys)
    BY <2>1 DEF D!ModifiersOf
  <2>3. m \notin D!ModifierOf(k.code)
    BY <2>1 DEF ExactIn
  <2> QED BY <1>2, <2>2, <2>3 DEF Knows
<1> QED BY <1>1, <1>2 DEF Knows

-----------------------------------------------------------------------------
(* The steps.                                                              *)

DecodeTypes ==
  /\ used \in SUBSET Keys /\ down \in SUBSET used /\ line \in Seq(Nat) /\ escaped \in BOOLEAN /\ addKeys \in SUBSET D!Modifiers
  /\ told \in Seq([raw : Nat, mods : SUBSET D!Modifiers]) /\ typed \in Seq(Presses)

Pending(g, d) ==
  /\ Chain(line, escaped, typed, used, g, d) /\ Whole(line, escaped)
  /\ g[0] = Len(told) /\ g[Len(line)] = Len(typed)
  /\ Knows(addKeys, d[0], used) /\ d[Len(line)] = down

DecodeInv == DecodeTypes /\ (\E g, d : Pending(g, d)) /\ D!CodesAsTyped

\* A code is that of a press.
IsCodeOf(code, press, U) ==
  /\ code.raw = (IF press.key.ext THEN 256 ELSE 0) + D!Translated(press.key.code, code.mods)
  /\ Knows(code.mods, press.held, U)
  /\ D!NamedKeys(code, press.key)

LEMMA CodesAre == D!CodesAsTyped <=> \A i \in DOMAIN told : IsCodeOf(told[i], typed[i], used)
BY ExactIs DEF D!CodesAsTyped, IsCodeOf, Knows

LEMMA DecodeInit ==
  ASSUME D!Init
  PROVE  DecodeInv
<1>1. /\ down = {} /\ used = {} /\ line = <<>> /\ escaped = FALSE /\ addKeys = {} /\ told = <<>> /\ typed = <<>>
      /\ Len(line) = 0 /\ Len(told) = 0 /\ Len(typed) = 0
  BY DEF D!Init
<1>2. DecodeTypes
  <2>1. {} \in SUBSET Keys /\ FALSE \in BOOLEAN /\ {} \in SUBSET D!Modifiers
    OBVIOUS
  <2>2. /\ <<>> \in Seq(Nat) /\ <<>> \in Seq(Presses) /\ <<>> \in Seq([raw : Nat, mods : SUBSET D!Modifiers])
    BY EmptySeq
  <2> QED BY <1>1, <2>1, <2>2 DEF DecodeTypes
<1>3. PICK g, d : g = [i \in 0..0 |-> 0] /\ d = [i \in 0..0 |-> {}]
  OBVIOUS
<1>4. g \in [0..0 -> 0..0] /\ d \in [0..0 -> SUBSET {}] /\ g[0] = 0 /\ d[0] = {}
  BY <1>3
<1>5. Chain(line, escaped, typed, used, g, d)
  BY <1>1, <1>4 DEF Chain
<1>6. Whole(line, escaped) /\ Knows(addKeys, d[0], used)
  BY <1>1, <1>4 DEF Whole, Knows, D!ModifiersOf
<1>7. Pending(g, d)
  BY <1>1, <1>4, <1>5, <1>6 DEF Pending
<1>8. D!CodesAsTyped
  BY <1>1, CodesAre
<1> QED BY <1>2, <1>7, <1>8 DEF DecodeInv

\* What was told stays right when further keys are used and pressed.
LEMMA StillCodes ==
  ASSUME DecodeInv, NEW g, NEW d, Pending(g, d), told' = told, used \subseteq used',
         \A i \in 1..Len(typed) : typed'[i] = typed[i]
  PROVE  D!CodesAsTyped'
<1>1. Len(told) <= Len(typed) /\ DOMAIN told = 1..Len(told) /\ Len(told) \in Nat /\ Len(typed) \in Nat
  <2>1. Len(told) \in Nat /\ DOMAIN told = 1..Len(told) /\ Len(typed) \in Nat /\ Len(line) \in Nat
    BY LenProperties DEF DecodeInv, DecodeTypes
  <2>2. g[0] = Len(told) /\ g \in [0..Len(line) -> 0..Len(typed)] /\ 0 \in 0..Len(line)
    BY <2>1 DEF Pending, Chain
  <2> QED BY <2>1, <2>2
<1>2. \A i \in DOMAIN told : IsCodeOf(told[i], typed[i], used) /\ typed'[i] = typed[i]
  BY <1>1, CodesAre DEF DecodeInv
<1>3. \A i \in DOMAIN told' : IsCodeOf(told'[i], typed'[i], used')
  BY <1>2, KnowsMore DEF IsCodeOf
<1>4. D!Exact' = ExactIn(used')
  BY DEF D!Exact, D!KeysOf, ExactIn
<1> QED BY <1>3, <1>4 DEF D!CodesAsTyped, IsCodeOf, Knows

\* A key is pressed, or released.
LEMMA PressKeyStep ==
  ASSUME DecodeInv, NEW k \in Keys, D!PressKey(k)
  PROVE  DecodeInv'
<1>1. PICK g, d : Pending(g, d)
  BY DEF DecodeInv
<1>2. /\ DecodeTypes /\ Len(typed) \in Nat /\ Len(line) \in Nat
      /\ line \in Seq(Nat) /\ escaped \in BOOLEAN /\ typed \in Seq(Presses)
  BY DEF DecodeInv, DecodeTypes
<1>3. /\ down' = down \cup {k} /\ used' = used \cup {k} /\ line' = line \o D!Bytes(k, FALSE)
      /\ typed' = Append(typed, [key |-> k, held |-> down']) /\ UNCHANGED <<escaped, addKeys, told>>
  BY DEF D!PressKey, D!Send
<1>4. PICK U \in SUBSET Keys : U = used' /\ used \subseteq U /\ k \in U
  <2>1. used \in SUBSET Keys
    BY <1>2 DEF DecodeTypes
  <2>2. used \cup {k} \in SUBSET Keys
    BY <2>1
  <2> QED BY <1>3, <2>2
<1>5. PICK K \in SUBSET U : K = down'
  BY <1>2, <1>3, <1>4 DEF DecodeTypes
<1>6. PICK e \in Presses : e = [key |-> k, held |-> down']
  BY <1>4, <1>5 DEF Presses
<1>7. PICK ty \in Seq(Presses) : ty = Append(typed, e) /\ ty = typed'
  BY <1>2, <1>3, <1>6, AppendProperties
<1>8. Len(ty) = Len(typed) + 1 /\ ty[Len(ty)] = e /\ \A i \in 1..Len(typed) : ty[i] = typed[i]
  BY <1>2, <1>6, <1>7, AppendProperties
<1>9. Chain(line, escaped, ty, U, g, d)
  <2>1. Chain(line, escaped, typed, used, g, d) /\ used \in SUBSET Keys
    BY <1>1, <1>2 DEF Pending, DecodeTypes
  <2> QED BY <1>2, <1>4, <1>6, <1>7, <2>1, ChainTyped
<1>10. Means(Byte(k, FALSE), k.ext, ty, U, g[Len(line)], Len(ty), d[Len(line)], K)
  BY <1>1, <1>2, <1>3, <1>4, <1>5, <1>6, <1>8 DEF Means, Byte, Pending
<1>11. /\ line' \in Seq(Nat) /\ Whole(line', escaped)
       /\ Extends(line, escaped, ty, U, g, d, line', Len(ty), K)
  <2>1. Whole(line, escaped) /\ Len(ty) \in 0..Len(ty)
    BY <1>1, <1>2, <1>8 DEF Pending
  <2> QED BY <1>2, <1>3, <1>4, <1>9, <1>10, <2>1, Sent
<1>12. PICK g2, d2 : /\ Chain(line', escaped, ty, U, g2, d2) /\ g2[0] = g[0] /\ d2[0] = d[0]
                     /\ g2[Len(line')] = Len(ty) /\ d2[Len(line')] = K
  BY <1>11 DEF Extends
<1>13. DecodeTypes'
  BY <1>2, <1>3, <1>4, <1>5, <1>7, <1>11 DEF DecodeTypes
<1>14. Knows(addKeys, d[0], U)
  BY <1>1, <1>4, KnowsMore DEF Pending
<1>15. Pending(g2, d2)'
  BY <1>1, <1>3, <1>4, <1>5, <1>7, <1>11, <1>12, <1>14 DEF Pending
<1>16. D!CodesAsTyped'
  BY <1>1, <1>3, <1>7, <1>8, StillCodes
<1> QED BY <1>13, <1>15, <1>16 DEF DecodeInv

LEMMA ReleaseKeyStep ==
  ASSUME DecodeInv, NEW k \in Keys, D!ReleaseKey(k)
  PROVE  DecodeInv'
<1>1. PICK g, d : Pending(g, d)
  BY DEF DecodeInv
<1>2. /\ DecodeTypes /\ Len(typed) \in Nat /\ Len(line) \in Nat
      /\ line \in Seq(Nat) /\ escaped \in BOOLEAN /\ typed \in Seq(Presses)
  BY DEF DecodeInv, DecodeTypes
<1>3. /\ down' = down \ {k} /\ used' = used \cup {k} /\ line' = line \o D!Bytes(k, TRUE)
      /\ UNCHANGED <<escaped, addKeys, told, typed>>
  BY DEF D!ReleaseKey, D!Send
<1>4. PICK U \in SUBSET Keys : U = used' /\ used \subseteq U /\ k \in U
  <2>1. used \in SUBSET Keys
    BY <1>2 DEF DecodeTypes
  <2>2. used \cup {k} \in SUBSET Keys
    BY <2>1
  <2> QED BY <1>3, <2>2
<1>5. PICK K \in SUBSET U : K = down'
  BY <1>2, <1>3, <1>4 DEF DecodeTypes
<1>6. Chain(line, escaped, typed, U, g, d)
  <2>1. Chain(line, escaped, typed, used, g, d) /\ used \in SUBSET Keys
    BY <1>1, <1>2 DEF Pending, DecodeTypes
  <2>2. PICK e \in Presses : e = [key |-> k, held |-> {}]
    BY DEF Presses
  <2> QED BY <1>2, <1>4, <2>1, <2>2, ChainTyped
<1>7. Means(Byte(k, TRUE), k.ext, typed, U, g[Len(line)], Len(typed), d[Len(line)], K)
  BY <1>1, <1>3, <1>4, <1>5 DEF Means, Byte, Pending
<1>8. line' \in Seq(Nat) /\ Whole(line', escaped) /\ Extends(line, escaped, typed, U, g, d, line', Len(typed), K)
  <2>1. Whole(line, escaped) /\ Len(typed) \in 0..Len(typed)
    BY <1>1, <1>2 DEF Pending
  <2> QED BY <1>2, <1>3, <1>4, <1>6, <1>7, <2>1, Sent
<1>9. PICK g2, d2 : /\ Chain(line', escaped, typed, U, g2, d2) /\ g2[0] = g[0] /\ d2[0] = d[0]
                    /\ g2[Len(line')] = Len(typed) /\ d2[Len(line')] = K
  BY <1>8 DEF Extends
<1>10. DecodeTypes'
  BY <1>2, <1>3, <1>4, <1>5, <1>8 DEF DecodeTypes
<1>11. Knows(addKeys, d[0], U)
  BY <1>1, <1>4, KnowsMore DEF Pending
<1>12. Pending(g2, d2)'
  BY <1>1, <1>3, <1>4, <1>5, <1>8, <1>9, <1>11 DEF Pending
<1>13. D!CodesAsTyped'
  BY <1>1, <1>3, <1>4, StillCodes
<1> QED BY <1>10, <1>12, <1>13 DEF DecodeInv

\* What holds once the first byte is off the line.
Rest(b, g, d, g2, d2) ==
  /\ b \in Nat /\ line # <<>> /\ Head(line) = b /\ used \in SUBSET Keys
  /\ line' = Tail(line) /\ line' \in Seq(Nat) /\ UNCHANGED <<down, used, typed>>
  /\ Chain(line', b = D!ESCAPE, typed, used, g2, d2) /\ Whole(line', b = D!ESCAPE)
  /\ g2[0] = g[1] /\ d2[0] = d[1] /\ g[1] \in 0..Len(typed) /\ d[1] \in SUBSET used /\ d[0] \in SUBSET used
  /\ g2[Len(line')] = Len(typed) /\ d2[Len(line')] = down
  /\ Means(b, escaped, typed, used, g[0], g[1], d[0], d[1])

LEMMA ReadByte ==
  ASSUME DecodeInv, D!ReadData, NEW g, NEW d, Pending(g, d)
  PROVE  \E b, g2, d2 : Rest(b, g, d, g2, d2)
<1>1. /\ Len(typed) \in Nat /\ line \in Seq(Nat) /\ escaped \in BOOLEAN /\ typed \in Seq(Presses)
      /\ used \in SUBSET Keys
  BY DEF DecodeInv, DecodeTypes
<1>2. line # <<>> /\ line' = Tail(line) /\ UNCHANGED <<down, used, typed>>
  BY DEF D!ReadData
<1>3. /\ Tail(line) \in Seq(Nat) /\ Len(Tail(line)) = Len(line) - 1 /\ Len(line) \in Nat /\ Len(line) # 0
      /\ Head(line) \in Nat /\ Head(line) = line[1]
      /\ \A i \in 1..(Len(line) - 1) : Tail(line)[i] = line[i + 1]
  BY <1>1, <1>2, HeadTailProperties, EmptySeq
<1>4. PICK b \in Nat : b = line[1] /\ b = Head(line)
  BY <1>3
<1>5. Chain(line, escaped, typed, used, g, d) /\ Whole(line, escaped) /\ g[Len(line)] = Len(typed) /\ d[Len(line)] = down
  BY DEF Pending
<1>6. PICK g2 : g2 = [i \in 0..(Len(line) - 1) |-> g[i + 1]]
  OBVIOUS
<1>7. PICK d2 : d2 = [i \in 0..(Len(line) - 1) |-> d[i + 1]]
  OBVIOUS
<1>8. Chain(line', b = D!ESCAPE, typed, used, g2, d2)
  BY <1>1, <1>2, <1>4, <1>5, <1>6, <1>7, ChainTail
<1>9. Whole(line', b = D!ESCAPE)
  <2>1. CASE Len(line) = 1
    <3>1. b # D!ESCAPE
      BY <1>2, <1>4, <1>5, <2>1 DEF Whole
    <3>2. line' = <<>>
      BY <1>2, <1>3, <2>1, EmptySeq
    <3> QED BY <3>1, <3>2 DEF Whole
  <2>2. CASE Len(line) # 1
    <3>1. Len(line') = Len(line) - 1 /\ Len(line') # 0 /\ line'[Len(line')] = line[Len(line)]
      BY <1>2, <1>3, <2>2
    <3>2. line[Len(line)] # D!ESCAPE
      BY <1>2, <1>5 DEF Whole
    <3>3. line' # <<>>
      BY <3>1
    <3> QED BY <3>1, <3>2, <3>3 DEF Whole
  <2> QED BY <2>1, <2>2
<1>10. g2[0] = g[1] /\ d2[0] = d[1] /\ g2[Len(line')] = Len(typed) /\ d2[Len(line')] = down
  <2>1. Len(line') = Len(line) - 1 /\ 0 \in 0..(Len(line) - 1) /\ Len(line) - 1 \in 0..(Len(line) - 1)
        /\ (Len(line) - 1) + 1 = Len(line)
    BY <1>2, <1>3
  <2> QED BY <1>5, <1>6, <1>7, <2>1
<1>11. g[1] \in 0..Len(typed) /\ d[1] \in SUBSET used /\ d[0] \in SUBSET used
  <2>1. 0 \in 0..Len(line) /\ 1 \in 0..Len(line)
    BY <1>3
  <2> QED BY <1>5, <2>1 DEF Chain
<1>12. Means(b, escaped, typed, used, g[0], g[1], d[0], d[1])
  <2>1. 1 \in 1..Len(line) /\ 1 - 1 = 0
    BY <1>3
  <2>2. Means(line[1], EscapedAt(line, escaped, 1), typed, used, g[0], g[1], d[0], d[1])
    BY <1>5, <2>1 DEF Chain
  <2> QED BY <1>4, <2>2 DEF EscapedAt
<1> QED BY <1>1, <1>2, <1>3, <1>4, <1>8, <1>9, <1>10, <1>11, <1>12 DEF Rest

\* The three kinds of bytes exclude each other.
LEMMA KindsDiffer ==
  ASSUME NEW k \in Keys
  PROVE  /\ k.code \in Nat /\ k.code < D!EVNT_KEYUP /\ k.code # D!ESCAPE
         /\ k.code + D!EVNT_KEYUP \in Nat /\ ~(k.code + D!EVNT_KEYUP < D!EVNT_KEYUP)
         /\ k.code + D!EVNT_KEYUP # D!ESCAPE /\ (k.code + D!EVNT_KEYUP) - D!EVNT_KEYUP = k.code
         /\ ~(D!ESCAPE < D!EVNT_KEYUP)
<1>1. PICK c \in (1..95) \cup {97} : c = k.code
  BY KeyboardAssumption DEF KeyboardAssumption
<1>2. /\ c \in Nat /\ c < 128 /\ c # 224 /\ c + 128 \in Nat /\ ~(c + 128 < 128)
      /\ c + 128 # 224 /\ (c + 128) - 128 = c /\ ~(224 < 128)
  OBVIOUS
<1> QED BY <1>1, <1>2 DEF D!ESCAPE, D!EVNT_KEYUP

LEMMA EscapeStep ==
  ASSUME DecodeInv, D!Escape
  PROVE  DecodeInv'
<1>1. PICK g, d : Pending(g, d)
  BY DEF DecodeInv
<1>2. PICK b, g2, d2 : Rest(b, g, d, g2, d2)
  BY <1>1, ReadByte DEF D!Escape
<1>3. b = D!ESCAPE /\ escaped' = TRUE /\ UNCHANGED <<addKeys, told>>
  BY <1>2 DEF D!Escape, Rest
<1>4. g[1] = g[0] /\ d[1] = d[0]
  BY <1>2, <1>3, KindsDiffer DEF Rest, Means
<1>5. escaped' = (b = D!ESCAPE)
  BY <1>3
<1>6. Pending(g2, d2)'
  BY <1>1, <1>2, <1>3, <1>4, <1>5 DEF Pending, Rest
<1>7. DecodeTypes'
  BY <1>2, <1>3 DEF DecodeInv, DecodeTypes, Rest
<1>8. D!CodesAsTyped'
  BY <1>1, <1>2, <1>3, StillCodes DEF Rest
<1> QED BY <1>6, <1>7, <1>8 DEF DecodeInv

LEMMA ReleasedStep ==
  ASSUME DecodeInv, D!Released
  PROVE  DecodeInv'
<1>1. PICK g, d : Pending(g, d)
  BY DEF DecodeInv
<1>2. PICK b, g2, d2 : Rest(b, g, d, g2, d2)
  BY <1>1, ReadByte DEF D!Released
<1>3. /\ b >= D!EVNT_KEYUP /\ b # D!ESCAPE /\ addKeys' = addKeys \ D!ModifierOf(b - D!EVNT_KEYUP)
      /\ escaped' = FALSE /\ UNCHANGED told
  BY <1>2 DEF D!Released, Rest
<1>4. ~(b < D!EVNT_KEYUP)
  BY <1>2, <1>3 DEF Rest, D!EVNT_KEYUP
<1>5. PICK k \in used : b = k.code + D!EVNT_KEYUP /\ g[1] = g[0] /\ d[1] = d[0] \ {k}
  BY <1>2, <1>3, <1>4, KindsDiffer DEF Rest, Means
<1>6. addKeys' = addKeys \ D!ModifierOf(k.code)
  BY <1>2, <1>3, <1>5, KindsDiffer DEF Rest
<1>7. Knows(addKeys', d[1], used)
  <2>1. Knows(addKeys, d[0], used) /\ d[0] \in SUBSET used
    BY <1>1, <1>2 DEF Pending, Rest
  <2>2. PICK mods : mods = addKeys
    OBVIOUS
  <2>3. Knows(mods \ D!ModifierOf(k.code), d[0] \ {k}, used)
    BY <2>1, <2>2, KnowsRelease
  <2> QED BY <1>5, <1>6, <2>2, <2>3
<1>8. escaped' = (b = D!ESCAPE)
  BY <1>3
<1>9. Pending(g2, d2)'
  BY <1>1, <1>2, <1>3, <1>5, <1>7, <1>8 DEF Pending, Rest
<1>10. DecodeTypes'
  BY <1>2, <1>3 DEF DecodeInv, DecodeTypes, Rest
<1>11. D!CodesAsTyped'
  BY <1>1, <1>2, <1>3, StillCodes DEF Rest
<1> QED BY <1>9, <1>10, <1>11 DEF DecodeInv

LEMMA PressedStep ==
  ASSUME DecodeInv, D!Pressed, Keys \subseteq AllKeys
  PROVE  DecodeInv'
<1>1. PICK g, d : Pending(g, d)
  BY DEF DecodeInv
<1>2. PICK b, g2, d2 : Rest(b, g, d, g2, d2)
  BY <1>1, ReadByte DEF D!Pressed
<1>3. /\ b < D!EVNT_KEYUP /\ addKeys' = addKeys \cup D!ModifierOf(b)
      /\ told' = Append(told, D!KeyCode(b, addKeys')) /\ escaped' = FALSE
  BY <1>2 DEF D!Pressed, Rest
<1>4. b # D!ESCAPE
  BY <1>3 DEF D!ESCAPE, D!EVNT_KEYUP
<1>5. PICK k \in used : /\ k.ext = escaped /\ b = k.code /\ g[1] = g[0] + 1 /\ d[1] = d[0] \cup {k}
                        /\ typed[g[1]] = [key |-> k, held |-> d[1]]
  BY <1>2, <1>3, <1>4, KindsDiffer DEF Rest, Means
<1>6. PICK mods : mods = addKeys'
  OBVIOUS
<1>7. Knows(mods, d[1], used) /\ mods \in SUBSET D!Modifiers
  <2>1. Knows(addKeys, d[0], used) /\ d[0] \in SUBSET used /\ addKeys \in SUBSET D!Modifiers
    BY <1>1, <1>2 DEF Pending, Rest, DecodeInv, DecodeTypes
  <2>2. Knows(addKeys \cup D!ModifierOf(k.code), d[0] \cup {k}, used)
    BY <2>1, KnowsPress
  <2>3. D!ModifierOf(k.code) \subseteq D!Modifiers
    BY <1>2, ModifierCodes, KindsDiffer DEF Rest
  <2> QED BY <1>3, <1>5, <1>6, <2>1, <2>2, <2>3
<1>8. PICK code : code = [raw |-> (IF k.ext THEN 256 ELSE 0) + D!Translated(k.code, mods), mods |-> mods]
  OBVIOUS
<1>9. told' = Append(told, code)
  BY <1>3, <1>5, <1>6, <1>8 DEF D!KeyCode
<1>10. code.raw \in Nat /\ D!NamedKeys(code, k)
  BY <1>2, <1>8, NamesFit DEF Rest
<1>11. /\ told \in Seq([raw : Nat, mods : SUBSET D!Modifiers])
       /\ code \in [raw : Nat, mods : SUBSET D!Modifiers]
  BY <1>7, <1>8, <1>10 DEF DecodeInv, DecodeTypes
<1>12. /\ told' \in Seq([raw : Nat, mods : SUBSET D!Modifiers]) /\ Len(told) \in Nat
       /\ Len(told') = Len(told) + 1 /\ told'[Len(told) + 1] = code
       /\ \A i \in 1..Len(told) : told'[i] = told[i]
       /\ DOMAIN told' = 1..(Len(told) + 1) /\ DOMAIN told = 1..Len(told)
  BY <1>9, <1>11, AppendProperties, LenProperties
<1>13. IsCodeOf(code, typed[g[1]], used)
  BY <1>5, <1>7, <1>8, <1>10 DEF IsCodeOf
<1>14. g[0] = Len(told)
  BY <1>1 DEF Pending
<1>15. ASSUME NEW i \in DOMAIN told' PROVE IsCodeOf(told'[i], typed[i], used)
  <2>1. CASE i = Len(told) + 1
    BY <1>5, <1>12, <1>13, <1>14, <2>1
  <2>2. CASE i # Len(told) + 1
    <3>1. i \in DOMAIN told /\ told'[i] = told[i]
      BY <1>12, <2>2
    <3>2. IsCodeOf(told[i], typed[i], used)
      BY <3>1, CodesAre DEF DecodeInv
    <3> QED BY <3>1, <3>2
  <2> QED BY <2>1, <2>2
<1>16. typed' = typed /\ used' = used /\ D!Exact' = ExactIn(used)
  BY <1>2 DEF Rest, D!Exact, D!KeysOf, ExactIn
<1>17. D!CodesAsTyped'
  BY <1>15, <1>16 DEF D!CodesAsTyped, IsCodeOf, Knows
<1>18. escaped' = (b = D!ESCAPE)
  BY <1>3, <1>4
<1>19. Pending(g2, d2)'
  BY <1>2, <1>5, <1>6, <1>7, <1>12, <1>14, <1>18 DEF Pending, Rest
<1>20. DecodeTypes'
  BY <1>2, <1>3, <1>6, <1>7, <1>12 DEF DecodeInv, DecodeTypes, Rest
<1> QED BY <1>17, <1>19, <1>20 DEF DecodeInv

LEMMA KeepsStep ==
  ASSUME DecodeInv, UNCHANGED <<down, used, line, escaped, addKeys, told, typed>>
  PROVE  DecodeInv'
<1>1. PICK g, d : Pending(g, d)
  BY DEF DecodeInv
<1>2. Pending(g, d)'
  BY <1>1 DEF Pending
<1>3. DecodeTypes' /\ D!CodesAsTyped'
  BY <1>1, StillCodes DEF DecodeInv, DecodeTypes
<1> QED BY <1>2, <1>3 DEF DecodeInv

LEMMA DecodeStep ==
  ASSUME DecodeInv, Keys \subseteq AllKeys, [D!Next]_keyVars
  PROVE  DecodeInv'
<1>1. CASE D!HandleIRQ
  <2>1. CASE D!Begin
    BY <2>1, KeepsStep DEF D!Begin
  <2>2. CASE D!End
    BY <2>2, KeepsStep DEF D!End
  <2> QED BY <1>1, <2>1, <2>2, EscapeStep, PressedStep, ReleasedStep DEF D!HandleIRQ
<1>2. CASE \E k \in D!Usable : D!PressKey(k)
  <2>1. D!Usable \subseteq Keys
    BY KeyboardAssumption DEF DecodeInv, DecodeTypes, D!Usable, KeyboardAssumption
  <2> QED BY <1>2, <2>1, PressKeyStep
<1>4. CASE \E k \in D!Releasable : D!ReleaseKey(k)
  <2>1. D!Releasable \subseteq Keys
    BY KeyboardAssumption DEF DecodeInv, DecodeTypes, D!Releasable, KeyboardAssumption
  <2> QED BY <1>4, <2>1, ReleaseKeyStep
<1>3. CASE UNCHANGED keyVars
  BY <1>3, KeepsStep DEF keyVars
<1> QED BY <1>1, <1>2, <1>3, <1>4 DEF D!Next

\* Every code HandleIRQ hands on is that of its press, whatever bytes of later keys were
\* on the line when it read the press, and however the bytes fell to its calls.  A press
\* is that of a scan code, escaped or not: one stroke of Print Screen or Pause is several
\* (see KeyDecode), and is told as several codes.
THEOREM CodesAreThoseTyped ==
  ASSUME Keys \subseteq AllKeys
  PROVE  AllSpec => []CodesAsTyped
<1>1. AllInit => DecodeInv
  BY DecodeInit DEF AllInit
<1>2. DecodeInv /\ [AllNext]_allVars => DecodeInv'
  <2> SUFFICES ASSUME DecodeInv, [AllNext]_allVars PROVE DecodeInv'
    OBVIOUS
  <2>1. [D!Next]_keyVars
    BY DEF AllNext, allVars
  <2> QED BY <2>1, DecodeStep
<1>3. DecodeInv => CodesAsTyped
  BY DEF DecodeInv, CodesAsTyped
<1> QED BY <1>1, <1>2, <1>3, PTL DEF AllSpec

-----------------------------------------------------------------------------
(* The poll loops.                                                         *)

\* How far a loop has come, and with which counter it can have ended.
Counting ==
  /\ ended # "late" => tries <= Timeout /\ (at = 1 => read + tries = Timeout)
  /\ at # 1 => read = 0
  /\ ended = "late" => tries = Size - 1
  /\ error => at = Done /\ ended = "ready" /\ tries = 0

Inv == TypeOK /\ Counting

LEMMA InvInit == Init => Inv
<1> SUFFICES ASSUME Init PROVE Inv
  OBVIOUS
<1>1. at = 1 /\ ended = "polling" /\ tries = Timeout /\ read = 0 /\ check = "none"
  BY DEF Init
<1>2. present \in BOOLEAN /\ error \in BOOLEAN /\ ~error
  BY DEF Init
<1>3. TypeOK
  BY <1>1, <1>2, PollAssumption DEF TypeOK, Done
<1>4. Counting
  BY <1>1, <1>2, PollAssumption DEF Counting
<1>5. QED
  BY <1>3, <1>4 DEF Inv

LEMMA InvStep == Inv /\ [Next]_vars => Inv'
<1> SUFFICES ASSUME Inv, [Next]_vars PROVE Inv'
  OBVIOUS
<1> USE PollAssumption DEF Inv, TypeOK, Counting, Done
<1>1. CASE Poll
  <2>1. tries' = tries - 1 /\ tries > 0 /\ UNCHANGED <<present, at, ended, check, error>>
    BY <1>1 DEF Poll
  <2>2. at = 1 => read' = read + 1 /\ read < Timeout
    BY <1>1 DEF Poll, Loops
  <2>3. at # 1 => read' = 0
    BY <1>1 DEF Poll, Loops
  <2>4. QED
    BY <2>1, <2>2, <2>3, <1>1 DEF Poll
<1>2. CASE GiveUp
  <2>1. tries' = Size - 1 /\ ended' = "late" /\ ended = "polling"
        /\ UNCHANGED <<present, at, read, check, error>>
    BY <1>2 DEF GiveUp
  <2>2. TypeOK'
    BY <2>1
  <2>3. Counting'
    BY <2>1
  <2>4. QED
    BY <2>2, <2>3
<1>3. CASE Ready
  <2>1. ended' = "ready" /\ ended = "polling"
        /\ UNCHANGED <<present, at, tries, read, check, error>>
    BY <1>3 DEF Ready
  <2>2. TypeOK'
    BY <2>1
  <2>3. Counting'
    BY <2>1
  <2>4. QED
    BY <2>2, <2>3
<1>4. CASE ReturnFlush
  <2>1. at = 1 /\ at' = 2 /\ ended' = "polling" /\ tries' = Timeout /\ read' = 0
        /\ UNCHANGED <<present, error>> /\ check' \in {"nodev", "ok"}
    BY <1>4 DEF ReturnFlush
  <2>2. ~error
    BY <1>4 DEF ReturnFlush
  <2>3. TypeOK'
    BY <2>1
  <2>4. Counting'
    BY <2>1, <2>2
  <2>5. QED
    BY <2>3, <2>4
<1>5. CASE ReturnWait
  <2>1. UNCHANGED <<present, read, check>> /\ at # 1 /\ read = 0
    BY <1>5 DEF ReturnWait
  <2>2. CASE tries = 0
    BY <1>5, <2>1, <2>2 DEF ReturnWait
  <2>3. CASE tries # 0
    BY <1>5, <2>1, <2>3 DEF ReturnWait
  <2>4. QED
    BY <2>2, <2>3
<1>6. CASE UNCHANGED vars
  BY <1>6 DEF vars
<1>7. QED
  BY <1>1, <1>2, <1>3, <1>4, <1>5, <1>6 DEF Next

LEMMA Invariant == AllSpec => []Inv
<1>1. AllInit => Inv
  BY InvInit DEF AllInit
<1>2. Inv /\ [AllNext]_allVars => Inv'
  <2>1. [AllNext]_allVars => [Next]_vars
    BY DEF AllNext, allVars
  <2> QED BY <2>1, InvStep
<1> QED BY <1>1, <1>2, PTL DEF AllSpec

\* What I8042Flush counts is what it has read, unless it ran out of tries.
THEOREM FlushCountsRight == AllSpec => []FlushCounts
<1>1. Inv => FlushCounts
  BY DEF Inv, Counting, FlushCounts
<1> QED BY <1>1, Invariant, PTL

\* For every TIMEOUT below 2^w: no timeout is ever reported as an error.
THEOREM NoTimeoutFails == AllSpec => []OnlyLastPollFails
<1>1. Inv => OnlyLastPollFails
  BY DEF Inv, Counting, OnlyLastPollFails
<1> QED BY <1>1, Invariant, PTL
=============================================================================
