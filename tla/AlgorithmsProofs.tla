-------------------------- MODULE AlgorithmsProofs --------------------------
(***************************************************************************)
(* Proofs about the repository's algorithms, for inputs of any length.     *)
(* Induction is by the least number a statement fails for; a recursive     *)
(* function exists because one with its equation can be built step by      *)
(* step.                                                                   *)
(***************************************************************************)
EXTENDS MCAlgorithms, FiniteSetTheorems, SequenceTheorems, WellFoundedInduction, TLAPS

-----------------------------------------------------------------------------
(* Induction and recursion.                                                *)

LEMMA Least ==
  ASSUME NEW N, N \subseteq Nat, N # {}
  PROVE  \E m \in N : \A k \in N : m <= k
<1> DEFINE Less == OpToRel(<, Nat)
<1>1. IsWellFoundedOn(Less, Nat)
  BY NatLessThanWellFounded, Zenon
<1>2. \A k, m \in Nat : k < m => <<k, m>> \in Less
  BY Zenon DEF OpToRel
<1> HIDE DEF Less
<1>3. PICK m \in N : \A k \in N : ~(<<k, m>> \in Less)
  BY <1>1, WFMin
<1>4. m \in Nat /\ \A k \in N : k \in Nat /\ ~(k < m)
  BY <1>2, <1>3
<1>5. \A k \in N : m <= k
  BY <1>4
<1> QED BY <1>5

\* A set of numbers with 0 and every successor up to n.
LEMMA Upwards ==
  ASSUME NEW n \in Nat, NEW P, 0 \in P, \A k \in 1..n : k - 1 \in P => k \in P
  PROVE  \A k \in 0..n : k \in P
<1> DEFINE Bad == {k \in 0..n : k \notin P}
<1> SUFFICES ASSUME Bad # {} PROVE FALSE
  OBVIOUS
<1>1. PICK j \in Bad : \A k \in Bad : j <= k
  <2>1. Bad \subseteq Nat
    OBVIOUS
  <2> HIDE DEF Bad
  <2> QED BY <2>1, Least
<1>2. j \in 1..n /\ j - 1 \in 0..n /\ j \notin P
  BY <1>1
<1>3. j - 1 \in P
  BY <1>1, <1>2
<1> QED BY <1>2, <1>3

\* Two functions with the same first value and the same steps.
LEMMA SameSteps ==
  ASSUME NEW n \in Nat, NEW f, NEW g, f[0] = g[0], \A k \in 1..n : f[k - 1] = g[k - 1] => f[k] = g[k]
  PROVE  \A k \in 0..n : f[k] = g[k]
<1> DEFINE P == {k \in 0..n : f[k] = g[k]}
<1>1. 0 \in P
  OBVIOUS
<1>2. ASSUME NEW k \in 1..n, k - 1 \in P PROVE k \in P
  BY <1>2
<1>3. \A k \in 0..n : k \in P
  <2> HIDE DEF P
  <2> QED BY <1>1, <1>2, Upwards
<1> QED BY <1>3

\* The function g of the numbers up to n has the first value a and takes the step F[k] to k.
Follows(F, a, X, n, g) ==
  g \in [0..n -> X] /\ g[0] = a /\ \A k \in 1..n : g[k] = F[k][g[k - 1]]

LEMMA OneMoreStep ==
  ASSUME NEW n \in Nat, NEW X, NEW a \in X, NEW F \in [1..n -> [X -> X]],
         NEW m \in 1..n, NEW g, Follows(F, a, X, m - 1, g)
  PROVE  \E h : Follows(F, a, X, m, h)
<1>1. /\ g \in [0..(m - 1) -> X] /\ g[0] = a /\ m - 1 \in 0..(m - 1) /\ F[m] \in [X -> X]
      /\ \A k \in 1..(m - 1) : g[k] = F[k][g[k - 1]]
  BY DEF Follows
<1> DEFINE h == [k \in 0..m |-> IF k = m THEN F[m][g[m - 1]] ELSE g[k]]
<1>2. h \in [0..m -> X] /\ h[m] = F[m][g[m - 1]] /\ \A k \in 0..(m - 1) : h[k] = g[k]
  BY <1>1
<1> HIDE DEF h
<1>3. ASSUME NEW k \in 1..m PROVE h[k] = F[k][h[k - 1]]
  <2>1. k - 1 \in 0..(m - 1) /\ h[k - 1] = g[k - 1]
    BY <1>2
  <2>2. CASE k = m
    BY <1>2, <2>1, <2>2
  <2>3. CASE k # m
    <3>1. k \in 1..(m - 1) /\ k \in 0..(m - 1)
      BY <2>3
    <3> QED BY <1>1, <1>2, <2>1, <3>1
  <2> QED BY <2>2, <2>3
<1>4. h[0] = a
  BY <1>1, <1>2
<1>5. Follows(F, a, X, m, h)
  BY <1>2, <1>3, <1>4 DEF Follows
<1> QED BY <1>5

\* There is such a function.
LEMMA Recursion ==
  ASSUME NEW n \in Nat, NEW X, NEW a \in X, NEW F \in [1..n -> [X -> X]]
  PROVE  \E g : Follows(F, a, X, n, g)
<1> DEFINE P == {m \in 0..n : \E g : Follows(F, a, X, m, g)}
<1>1. 0 \in P
  <2>1. Follows(F, a, X, 0, [k \in 0..0 |-> a])
    BY DEF Follows
  <2> QED BY <2>1
<1>2. ASSUME NEW m \in 1..n, m - 1 \in P PROVE m \in P
  <2>1. PICK g : Follows(F, a, X, m - 1, g)
    BY <1>2
  <2> QED BY <2>1, OneMoreStep
<1>3. \A k \in 0..n : k \in P
  <2> HIDE DEF P
  <2> QED BY <1>1, <1>2, Upwards
<1> QED BY <1>3

-----------------------------------------------------------------------------
(* Signature: the words of a call.                                         *)

\* The words of argument k behind the first, and the equation of the words up to k.
WordsOf(types, k) == IF types[k] = "FLOAT" THEN <<<<k, "low">>, <<k, "high">>>> ELSE <<<<k, "whole">>>>
Pushes(types, u) ==
  u = [k \in 1..Len(types) |-> IF k = 1 THEN <<>> ELSE u[k - 1] \o WordsOf(types, k)]

CallWords(n) == (1..n) \X {"low", "high", "whole"}

LEMMA WordsType ==
  ASSUME NEW types, NEW n \in Nat, NEW k \in 1..n
  PROVE  WordsOf(types, k) \in Seq(CallWords(n))
<1>1. <<k, "low">> \in CallWords(n) /\ <<k, "high">> \in CallWords(n) /\ <<k, "whole">> \in CallWords(n)
  BY DEF CallWords
<1>2. \A x, y \in CallWords(n) : <<x>> \in Seq(CallWords(n)) /\ <<x, y>> \in Seq(CallWords(n))
  OBVIOUS
<1> QED BY <1>1, <1>2 DEF WordsOf

LEMMA PushesExists ==
  ASSUME NEW types, NEW n \in Nat, Len(types) = n, n > 0
  PROVE  \E u \in [1..n -> Seq(CallWords(n))] : Pushes(types, u)
<1> DEFINE W == Seq(CallWords(n))
           F == [k \in 1..(n - 1) |-> [s \in W |-> s \o WordsOf(types, k + 1)]]
<1>1. <<>> \in W
  OBVIOUS
<1>2. F \in [1..(n - 1) -> [W -> W]]
  BY WordsType, ConcatProperties
<1>3. PICK g : Follows(F, <<>>, W, n - 1, g)
  <2> HIDE DEF F, W
  <2> QED BY <1>1, <1>2, Recursion
<1>4. /\ g \in [0..(n - 1) -> W] /\ g[0] = <<>>
      /\ \A k \in 1..(n - 1) : g[k] = g[k - 1] \o WordsOf(types, k + 1)
  <2>1. g \in [0..(n - 1) -> W] /\ g[0] = <<>> /\ \A k \in 1..(n - 1) : g[k] = F[k][g[k - 1]]
    <3> HIDE DEF F, W
    <3> QED BY <1>3 DEF Follows
  <2>2. ASSUME NEW k \in 1..(n - 1) PROVE g[k] = g[k - 1] \o WordsOf(types, k + 1)
    <3>1. k - 1 \in 0..(n - 1) /\ g[k - 1] \in W /\ F[k] = [s \in W |-> s \o WordsOf(types, k + 1)]
      BY <2>1
    <3> HIDE DEF W
    <3> QED BY <2>1, <3>1
  <2> QED BY <2>1, <2>2
<1> DEFINE u == [k \in 1..n |-> g[k - 1]]
<1>5. u \in [1..n -> W]
  BY <1>4
<1>6. ASSUME NEW k \in 1..n PROVE u[k] = IF k = 1 THEN <<>> ELSE u[k - 1] \o WordsOf(types, k)
  <2>1. CASE k = 1
    BY <1>4, <2>1
  <2>2. CASE k # 1
    <3>1. k - 1 \in 1..(n - 1) /\ k - 1 \in 1..n /\ (k - 1) + 1 = k
      BY <2>2
    <3> QED BY <1>4, <2>2, <3>1
  <2> QED BY <2>1, <2>2
<1>7. Pushes(types, u)
  <2> HIDE DEF u
  <2> QED BY <1>5, <1>6 DEF Pushes
<1> QED BY <1>5, <1>7

\* Up to the first float behind the first argument each word is an argument.
LEMMA PushedWords ==
  ASSUME NEW types, NEW n \in Nat, Len(types) = n, n > 0,
         NEW i \in 2..n, \A j \in 2..i : types[j] # "FLOAT"
  PROVE  S!Pushed(types)[i - 1] = <<i, "whole">>
<1> DEFINE v == CHOOSE u : Pushes(types, u)
<1>1. Pushes(types, v)
  BY PushesExists
<1>a. S!Pushed(types) = v[n]
  BY DEF S!Pushed, Pushes, WordsOf
<1> HIDE DEF v
<1>b. PICK u : u = v
  OBVIOUS
<1>c. u[1] = <<>> /\ \A k \in 2..n : u[k] = u[k - 1] \o WordsOf(types, k)
  <2>1. u = [k \in 1..n |-> IF k = 1 THEN <<>> ELSE u[k - 1] \o WordsOf(types, k)]
    BY <1>1, <1>b DEF Pushes
  <2>2. 1 \in 1..n /\ \A k \in 2..n : k \in 1..n /\ k # 1
    OBVIOUS
  <2>3. u[1] = <<>>
    BY <2>1, <2>2
  <2>4. \A k \in 2..n : u[k] = u[k - 1] \o WordsOf(types, k)
    BY <2>1, <2>2
  <2> QED BY <2>3, <2>4
<1>2. u \in [1..n -> Seq(CallWords(n))]
  <2> DEFINE P == {k \in 0..n : k = 0 \/ u[k] \in Seq(CallWords(n))}
  <2>1. 0 \in P
    OBVIOUS
  <2>2. ASSUME NEW k \in 1..n, k - 1 \in P PROVE k \in P
    <3>1. CASE k = 1
      <4>1. u[1] \in Seq(CallWords(n))
        BY <1>c, EmptySeq
      <4> QED BY <3>1, <4>1
    <3>2. CASE k # 1
      <4>1. u[k - 1] \in Seq(CallWords(n)) /\ u[k] = u[k - 1] \o WordsOf(types, k)
        <5>1. k \in 2..n /\ k - 1 # 0
          BY <3>2
        <5>2. u[k - 1] \in Seq(CallWords(n))
          BY <2>2, <5>1
        <5> QED BY <1>c, <5>1, <5>2
      <4>2. WordsOf(types, k) \in Seq(CallWords(n))
        BY WordsType
      <4>3. u[k] \in Seq(CallWords(n))
        BY <4>1, <4>2
      <4> QED BY <4>3
    <3> QED BY <3>1, <3>2
  <2>3. \A k \in 0..n : k \in P
    <3> HIDE DEF P
    <3> QED BY <2>1, <2>2, Upwards
  <2>4. u = [k \in 1..n |-> u[k]]
    BY <1>1, <1>b DEF Pushes
  <2>5. \A k \in 1..n : u[k] \in Seq(CallWords(n))
    BY <2>3
  <2> QED BY <2>4, <2>5
<1> DEFINE Q == {k \in 0..n : /\ k \in 1..i => Len(u[k]) = k - 1
                              /\ k \in i..n => Len(u[k]) >= i - 1 /\ u[k][i - 1] = <<i, "whole">>}
<1>3. 0 \in Q
  OBVIOUS
<1>4. ASSUME NEW k \in 1..n, k - 1 \in Q PROVE k \in Q
  <2>1. CASE k = 1
    BY <1>c, <2>1
  <2>2. CASE k # 1
    <3>1. PICK s \in Seq(CallWords(n)) : s = u[k - 1]
      BY <1>2, <2>2
    <3>2. PICK w \in Seq(CallWords(n)) : w = WordsOf(types, k)
      BY WordsType
    <3>3. u[k] = s \o w
      <4>1. k \in 2..n
        BY <2>2
      <4> QED BY <1>c, <3>1, <3>2, <4>1
    <3>6. /\ Len(u[k]) = Len(s) + Len(w)
          /\ \A j \in 1..Len(s) : u[k][j] = s[j]
          /\ \A j \in 1..Len(w) : u[k][Len(s) + j] = w[j]
      BY <3>3
    <3>4. CASE k \in 2..i
      <4>1. w = <<<<k, "whole">>>> /\ Len(s) = k - 2
        BY <1>4, <3>1, <3>2, <3>4 DEF WordsOf
      <4>2. Len(u[k]) = k - 1 /\ u[k][k - 1] = <<k, "whole">>
        BY <3>6, <4>1
      <4> QED BY <3>4, <4>2
    <3>5. CASE k \in (i + 1)..n
      <4>1. Len(s) >= i - 1 /\ s[i - 1] = <<i, "whole">> /\ k \notin 1..i
        BY <1>4, <3>1, <3>5
      <4>2. Len(u[k]) >= i - 1 /\ u[k][i - 1] = <<i, "whole">>
        BY <3>6, <4>1
      <4> QED BY <3>5, <4>1, <4>2
    <3> QED BY <2>2, <3>4, <3>5
  <2> QED BY <2>1, <2>2
<1>5. \A k \in 0..n : k \in Q
  <2> HIDE DEF Q
  <2> QED BY <1>3, <1>4, Upwards
<1> QED BY <1>a, <1>b, <1>5

\* The words of a call are its arguments, for parameter lists of any length.
LEMMA Words ==
  ASSUME NEW list \in Seq(DOMAIN S!TypeNames)
  PROVE  S!WordsArrive(list)
<1> DEFINE types == [i \in DOMAIN list |-> S!TypeNames[list[i]].type]
<1>1. Len(types) = Len(list) /\ DOMAIN list = 1..Len(list) /\ DOMAIN types = DOMAIN list /\ Len(list) \in Nat
  OBVIOUS
<1>2. ASSUME NEW i \in DOMAIN list, \A j \in 2..i : types[j] # "FLOAT"
      PROVE  S!Values(types)[i] = <<i, "whole">>
  <2>1. S!Values(types)[i] = IF i = 1 THEN <<1, "whole">> ELSE S!Pushed(types)[i - 1]
    BY <1>1 DEF S!Values, S!Fetched
  <2>2. CASE i = 1
    BY <2>1, <2>2
  <2>3. CASE i # 1
    <3> HIDE DEF types
    <3> QED BY <1>1, <1>2, <2>1, <2>3, PushedWords
  <2> QED BY <2>2, <2>3
<1> QED BY <1>2 DEF S!WordsArrive

-----------------------------------------------------------------------------
(* Sha1: a context by its fields, and what the operations make of it.      *)

Ctx(low, high, index, block, digest, computed, corrupted) ==
  [Length_Low |-> low, Length_High |-> high, Message_Block_Index |-> index, Message_Block |-> block,
   Message_Digest |-> digest, Computed |-> computed, Corrupted |-> corrupted]

Fields == {"Length_Low", "Length_High", "Message_Block_Index", "Message_Block", "Message_Digest",
           "Computed", "Corrupted"}
Fielded(c) == c = [f \in Fields |-> c[f]]

No  == FALSE
Yes == TRUE

LEMMA FieldsOf ==
  ASSUME NEW a, NEW b, NEW i, NEW m, NEW d, NEW p, NEW q, NEW c, c = Ctx(a, b, i, m, d, p, q)
  PROVE  /\ Fielded(c) /\ c.Length_Low = a /\ c.Length_High = b /\ c.Message_Block_Index = i
         /\ c.Message_Block = m /\ c.Message_Digest = d /\ c.Computed = p /\ c.Corrupted = q
BY DEF Ctx, Fielded, Fields

LEMMA ByFields ==
  ASSUME NEW c, Fielded(c), NEW d, Fielded(d), c.Length_Low = d.Length_Low, c.Length_High = d.Length_High,
         c.Message_Block_Index = d.Message_Block_Index, c.Message_Block = d.Message_Block,
         c.Message_Digest = d.Message_Digest, c.Computed = d.Computed, c.Corrupted = d.Corrupted
  PROVE  c = d
<1>1. \A f \in Fields : c[f] = d[f]
  BY DEF Fields
<1> QED BY <1>1 DEF Fielded

\* The block with an octet at an index.
Stored(m, i, octet) == [m EXCEPT ![i] = octet]

LEMMA PutFields ==
  ASSUME NEW a, NEW b, NEW i, NEW m, NEW d, NEW p, NEW q, NEW octet
  PROVE  H!Put(Ctx(a, b, i, m, d, p, q), octet) = Ctx(a, b, i + 1, Stored(m, i, octet), d, p, q)
<1>2. PICK e : e = [m EXCEPT ![i] = octet]
  OBVIOUS
<1>1. PICK c : c = Ctx(a, b, i, m, d, p, q)
  OBVIOUS
<1>3. PICK r : r = Ctx(a, b, i + 1, e, d, p, q)
  OBVIOUS
<1>6. /\ Fielded(c) /\ c.Length_Low = a /\ c.Length_High = b /\ c.Message_Block = m
      /\ c.Message_Digest = d /\ c.Computed = p /\ c.Corrupted = q /\ c.Message_Block_Index = i
  BY <1>1, FieldsOf
<1>4. H!Put(c, octet) = [c EXCEPT !.Message_Block = e, !.Message_Block_Index = i + 1]
  <2>1. PICK f : f = [c EXCEPT !.Message_Block = e]
    OBVIOUS
  <2>2. f = [c EXCEPT !.Message_Block[c.Message_Block_Index] = octet]
    BY <1>2, <1>6, <2>1
  <2>3. f.Message_Block_Index = i
    BY <1>6, <2>1 DEF Fielded, Fields
  <2>4. H!Put(c, octet) = [f EXCEPT !.Message_Block_Index = i + 1]
    BY <2>2, <2>3 DEF H!Put
  <2> QED BY <2>1, <2>4
<1>5. PICK s : s = [c EXCEPT !.Message_Block = e, !.Message_Block_Index = i + 1]
  OBVIOUS
<1>7. Fielded(s) /\ s.Length_Low = a /\ s.Length_High = b /\ s.Message_Digest = d
      /\ s.Computed = p /\ s.Corrupted = q /\ s.Message_Block = e /\ s.Message_Block_Index = i + 1
  BY <1>5, <1>6 DEF Fielded, Fields
<1>8. s = r
  BY <1>3, <1>7, FieldsOf, ByFields
<1> QED BY <1>1, <1>2, <1>3, <1>4, <1>5, <1>8 DEF Stored

LEMMA CountedFields ==
  ASSUME NEW a, NEW b, NEW i, NEW m, NEW d, NEW p,
         NEW low, low = (a + 8) % Low, NEW high, high = IF low = 0 THEN (b + 1) % High ELSE b,
         NEW q, q = (low = 0 /\ high = 0)
  PROVE  H!Counted(Ctx(a, b, i, m, d, p, No)) = Ctx(low, high, i, m, d, p, q)
<1>1. PICK c : c = Ctx(a, b, i, m, d, p, No)
  OBVIOUS
<1>3. PICK r : r = Ctx(low, high, i, m, d, p, q)
  OBVIOUS
<1>4. PICK s : s = H!Counted(c)
  OBVIOUS
<1>5. /\ Fielded(c) /\ c.Length_Low = a /\ c.Length_High = b /\ c.Message_Block_Index = i
      /\ c.Message_Block = m /\ c.Message_Digest = d /\ c.Computed = p /\ c.Corrupted = No
  BY <1>1, FieldsOf
<1>6. s = [c EXCEPT !.Length_Low = low, !.Length_High = high, !.Corrupted = FALSE \/ (low = 0 /\ high = 0)]
  BY <1>4, <1>5 DEF H!Counted, No
<1>7. s = [c EXCEPT !.Length_Low = low, !.Length_High = high, !.Corrupted = q]
  BY <1>6
<1>8. Fielded(s) /\ s.Length_Low = low /\ s.Length_High = high /\ s.Message_Block_Index = i
      /\ s.Message_Block = m /\ s.Message_Digest = d /\ s.Computed = p /\ s.Corrupted = q
  BY <1>5, <1>7 DEF Fielded, Fields
<1>9. s = r
  BY <1>3, <1>8, FieldsOf, ByFields
<1> QED BY <1>1, <1>3, <1>4, <1>9

LEMMA ProcessedFields ==
  ASSUME NEW a, NEW b, NEW i, NEW m, NEW d, NEW p, NEW q
  PROVE  H!SHA1ProcessMessageBlock(Ctx(a, b, i, m, d, p, q)) = Ctx(a, b, 0, m, Append(d, m), p, q)
<1>1. PICK c : c = Ctx(a, b, i, m, d, p, q)
  OBVIOUS
<1>2. PICK e : e = Append(d, m)
  OBVIOUS
<1>3. PICK r : r = Ctx(a, b, 0, m, e, p, q)
  OBVIOUS
<1>4. /\ Fielded(c) /\ c.Length_Low = a /\ c.Length_High = b
      /\ c.Message_Block = m /\ c.Message_Digest = d /\ c.Computed = p /\ c.Corrupted = q
  BY <1>1, FieldsOf
<1>5. PICK s : s = H!SHA1ProcessMessageBlock(c)
  OBVIOUS
<1>6. s = [c EXCEPT !.Message_Digest = e, !.Message_Block_Index = 0]
  BY <1>2, <1>4, <1>5 DEF H!SHA1ProcessMessageBlock
<1>7. Fielded(s) /\ s.Length_Low = a /\ s.Length_High = b /\ s.Message_Block_Index = 0
      /\ s.Message_Block = m /\ s.Message_Digest = e /\ s.Computed = p /\ s.Corrupted = q
  BY <1>4, <1>6 DEF Fielded, Fields
<1>8. s = r
  BY <1>3, <1>7, FieldsOf, ByFields
<1> QED BY <1>1, <1>2, <1>3, <1>5, <1>8

\* What the padding writes: zeros from an index to another.
Zeroed(m, i, upto) == [j \in 0..63 |-> IF j \in i..(upto - 1) THEN "zero" ELSE m[j]]

LEMMA ZerosFields ==
  ASSUME NEW a, NEW b, NEW i, NEW m, DOMAIN m = 0..63, NEW d, NEW p, NEW q, NEW upto
  PROVE  H!Zeros(Ctx(a, b, i, m, d, p, q), upto)
           = Ctx(a, b, IF i < upto THEN upto ELSE i, Zeroed(m, i, upto), d, p, q)
<1>1. PICK c : c = Ctx(a, b, i, m, d, p, q)
  OBVIOUS
<1>2. PICK e : e = Zeroed(m, i, upto)
  OBVIOUS
<1>a. PICK k : k = IF i < upto THEN upto ELSE i
  OBVIOUS
<1>3. PICK r : r = Ctx(a, b, k, e, d, p, q)
  OBVIOUS
<1>4. /\ Fielded(c) /\ c.Length_Low = a /\ c.Length_High = b /\ c.Message_Block_Index = i
      /\ c.Message_Block = m /\ c.Message_Digest = d /\ c.Computed = p /\ c.Corrupted = q
  BY <1>1, FieldsOf
<1>5. PICK s : s = H!Zeros(c, upto)
  OBVIOUS
<1>6. s = [c EXCEPT !.Message_Block = e, !.Message_Block_Index = k]
  BY <1>2, <1>a, <1>4, <1>5 DEF H!Zeros, Zeroed
<1>7. Fielded(s) /\ s.Length_Low = a /\ s.Length_High = b /\ s.Message_Block_Index = k
      /\ s.Message_Block = e /\ s.Message_Digest = d /\ s.Computed = p /\ s.Corrupted = q
  BY <1>4, <1>6 DEF Fielded, Fields
<1>8. s = r
  BY <1>3, <1>7, FieldsOf, ByFields
<1> QED BY <1>1, <1>2, <1>a, <1>3, <1>5, <1>8

-----------------------------------------------------------------------------
(* Sha1: the context after any number of octets.                           *)

\* What the block holds after m octets: the last ones, and those of the block before.
Held(m) ==
  [j \in 0..63 |-> IF j < m % 64 THEN (m - (m % 64)) + j + 1
                   ELSE IF m < 64 THEN "undefined" ELSE (m - (m % 64)) + j - 63]

\* The blocks that are full after m octets.
Full(m) == [b \in 1..(m \div 64) |-> [j \in 0..63 |-> (b - 1) * 64 + j + 1]]

Context(m) == Ctx((8 * m) % Low, (8 * m) \div Low, m % 64, Held(m), Full(m), No, No)

\* The context when the counters have wrapped, at the octet that made them wrap.
Refused == H!Octet(Context(((Low * High) \div 8) - 1), (Low * High) \div 8)

After(m) == IF 8 * m < Low * High THEN Context(m) ELSE Refused

LEMMA Widths == Low \in Nat /\ Low >= 8 /\ Low % 8 = 0 /\ High \in Nat /\ High >= 1
BY AlgorithmsAssumption DEF AlgorithmsAssumption

\* A number by quotient and remainder, and the next one.
LEMMA NextOfBlock ==
  ASSUME NEW m \in Nat
  PROVE  /\ m % 64 \in 0..63 /\ m \div 64 \in Nat /\ m = 64 * (m \div 64) + (m % 64)
         /\ m % 64 = 63 => (m + 1) % 64 = 0 /\ (m + 1) \div 64 = (m \div 64) + 1
         /\ m % 64 < 63 => (m + 1) % 64 = (m % 64) + 1 /\ (m + 1) \div 64 = m \div 64
<1>1. PICK q \in Nat, r \in 0..63 : q = m \div 64 /\ r = m % 64 /\ m = 64 * q + r
  OBVIOUS
<1>2. CASE r = 63
  <2>1. m + 1 = 64 * (q + 1) + 0
    BY <1>1, <1>2
  <2> QED BY <1>1, <1>2, <2>1
<1>3. CASE r < 63
  <2>1. m + 1 = 64 * q + (r + 1)
    BY <1>1
  <2> QED BY <1>1, <1>3, <2>1
<1> QED BY <1>1, <1>2, <1>3

LEMMA Quotient ==
  ASSUME NEW a \in Nat, NEW b \in Nat, b > 0, NEW q \in Nat, NEW r \in 0..(b - 1), a = b * q + r
  PROVE  a \div b = q /\ a % b = r
OBVIOUS

LEMMA Larger ==
  ASSUME NEW a \in Nat, NEW b \in Nat, NEW c \in Nat, a <= b
  PROVE  c * a <= c * b
OBVIOUS

\* The counters: what the next octet makes of them.
LEMMA NextOfLength ==
  ASSUME NEW m \in Nat, 8 * m < Low * High,
         NEW l, l = (8 * m) % Low, NEW h, h = (8 * m) \div Low
  PROVE  /\ h \in 0..(High - 1) /\ l \in 0..(Low - 8)
         /\ l = Low - 8 => /\ (l + 8) % Low = 0 /\ 8 * (m + 1) = Low * (h + 1)
                           /\ (8 * (m + 1)) % Low = 0 /\ (8 * (m + 1)) \div Low = h + 1
         /\ l # Low - 8 => /\ (l + 8) % Low = l + 8 /\ 8 * (m + 1) < Low * High
                           /\ (8 * (m + 1)) % Low = l + 8 /\ (8 * (m + 1)) \div Low = h
         /\ h + 1 < High <=> Low * (h + 1) < Low * High
<1>1. PICK w : w = Low /\ w \in Nat /\ w >= 8 /\ w % 8 = 0
  BY Widths
<1>2. PICK k \in Nat : w = 8 * k
  BY <1>1
<1>3. h \in Nat /\ l \in 0..(w - 1) /\ 8 * m = w * h + l
  BY <1>1
<1>4. w * h = 8 * (k * h) /\ k * h \in Nat
  BY <1>2, <1>3
<1>5. l \in 0..(w - 8)
  <2>1. PICK p \in Nat : p = k * h
    BY <1>4
  <2>2. l = 8 * (m - p) /\ m - p \in Int
    <3>1. 8 * m = 8 * p + l
      BY <1>3, <1>4, <2>1
    <3> QED BY <1>3, <3>1
  <2> QED BY <1>1, <1>2, <1>3, <2>2
<1>6. h < High
  <2> SUFFICES ASSUME h >= High PROVE FALSE
    BY <1>3, Widths
  <2>1. w * High <= w * h
    BY <1>1, <1>3, Widths, Larger
  <2> QED BY <1>1, <1>3, <2>1, Widths
<1>7. w * (h + 1) = w * h + w
  BY <1>1, <1>3
<1>8. w * (h + 1) <= w * High
  BY <1>1, <1>3, <1>6, Widths, Larger
<1>9. h + 1 < High => w * (h + 1) < w * High
  <2> SUFFICES ASSUME h + 1 < High PROVE w * (h + 1) < w * High
    OBVIOUS
  <2>1. w * (h + 2) <= w * High /\ w * (h + 2) = w * h + w + w
    BY <1>1, <1>3, Widths, Larger
  <2>2. PICK x \in Nat : x = w * h
    BY <1>3, <1>1
  <2>3. PICK y \in Nat : y = w * High
    BY <1>1, Widths
  <2> QED BY <1>1, <1>7, <2>1, <2>2, <2>3
<1>10. w * (h + 1) < w * High => h + 1 < High
  <2> SUFFICES ASSUME h + 1 >= High PROVE ~(w * (h + 1) < w * High)
    BY <1>3, Widths
  <2>1. h + 1 = High
    BY <1>3, <1>6, Widths
  <2> QED BY <1>1, <1>3, <2>1
<1>11. CASE l = w - 8
  <2>1. 8 * (m + 1) = w * (h + 1) + 0 /\ 8 * (m + 1) \in Nat
    <3>1. PICK x \in Nat : x = w * h
      BY <1>3, <1>1
    <3>2. 8 * m = x + l /\ w * (h + 1) = x + w
      BY <1>3, <1>7, <3>1
    <3> QED BY <1>1, <1>11, <3>2
  <2>2. (8 * (m + 1)) % w = 0 /\ (8 * (m + 1)) \div w = h + 1
    BY <1>1, <1>3, <2>1, Quotient
  <2>3. (l + 8) % w = 0
    BY <1>1, <1>11, Quotient
  <2> QED BY <1>1, <1>3, <1>5, <1>6, <1>9, <1>10, <1>11, <2>1, <2>2, <2>3, Widths
<1>12. CASE l # w - 8
  <2>1. 8 * (m + 1) = w * h + (l + 8) /\ l + 8 \in 0..(w - 1) /\ 8 * (m + 1) \in Nat
    BY <1>3, <1>5, <1>12, <1>1
  <2>2. (8 * (m + 1)) % w = l + 8 /\ (8 * (m + 1)) \div w = h
    BY <1>1, <1>3, <2>1, Quotient
  <2>3. (l + 8) % w = l + 8
    BY <1>1, <2>1
  <2>4. 8 * (m + 1) < w * High
    <3>1. PICK x \in Nat : x = w * h
      BY <1>3, <1>1
    <3>2. PICK y \in Nat : y = w * High
      BY <1>1, Widths
    <3> QED BY <1>7, <1>8, <2>1, <3>1, <3>2, <1>1
  <2> QED BY <1>1, <1>3, <1>5, <1>6, <1>9, <1>10, <1>12, <2>2, <2>3, <2>4, Widths
<1> QED BY <1>11, <1>12

\* The block and the full blocks with one more octet.
LEMMA NextOfHeld ==
  ASSUME NEW m \in Nat, NEW r, r = m % 64
  PROVE  /\ Held(m + 1) = [Held(m) EXCEPT ![r] = m + 1]
         /\ r < 63 => Full(m + 1) = Full(m)
         /\ r = 63 => Full(m + 1) = Append(Full(m), Held(m + 1))
<1>1. PICK q \in Nat : q = m \div 64 /\ m = 64 * q + r /\ r \in 0..63
  BY NextOfBlock
<1>2. /\ r = 63 => (m + 1) % 64 = 0 /\ (m + 1) \div 64 = q + 1
      /\ r < 63 => (m + 1) % 64 = r + 1 /\ (m + 1) \div 64 = q
  BY <1>1, NextOfBlock
<1>3. Held(m) = [j \in 0..63 |-> IF j < r THEN 64 * q + j + 1
                                 ELSE IF m < 64 THEN "undefined" ELSE 64 * q + j - 63]
  BY <1>1 DEF Held
<1>4. CASE r = 63
  <2>1. Held(m + 1) = [j \in 0..63 |-> 64 * q + j + 1]
    <3>1. PICK n \in Nat : n = m + 1 /\ n = 64 * q + 64 /\ n % 64 = 0
      BY <1>1, <1>2, <1>4
    <3>2. ASSUME NEW j \in 0..63
          PROVE  ~(j < n % 64) /\ ~(n < 64) /\ (n - (n % 64)) + j - 63 = 64 * q + j + 1
      BY <1>1, <3>1
    <3>3. Held(n) = [j \in 0..63 |-> 64 * q + j + 1]
      BY <3>2 DEF Held
    <3> QED BY <3>1, <3>3
  <2>2. Held(m + 1) = [Held(m) EXCEPT ![r] = m + 1]
    BY <1>1, <1>3, <1>4, <2>1
  <2>3. Full(m + 1) = [b \in 1..(q + 1) |-> [j \in 0..63 |-> (b - 1) * 64 + j + 1]]
    BY <1>2, <1>4 DEF Full
  <2>4. Full(m) = [b \in 1..q |-> [j \in 0..63 |-> (b - 1) * 64 + j + 1]]
    BY <1>1 DEF Full
  <2>5. Held(m + 1) = [j \in 0..63 |-> ((q + 1) - 1) * 64 + j + 1]
    BY <1>1, <2>1
  <2>6. Full(m + 1) = Append(Full(m), Held(m + 1))
    <3> DEFINE X == [0..63 -> Int]
    <3>1. PICK f, g, b : f = Full(m) /\ g = Full(m + 1) /\ b = Held(m + 1)
      OBVIOUS
    <3> DEFINE G(k) == [j \in 0..63 |-> (k - 1) * 64 + j + 1]
    <3>a. \A k \in 1..(q + 1) : G(k) \in X
      OBVIOUS
    <3>b. f = [k \in 1..q |-> G(k)] /\ g = [k \in 1..(q + 1) |-> G(k)] /\ b = G(q + 1)
      BY <2>3, <2>4, <2>5, <3>1
    <3> HIDE DEF X, G
    <3>2. f \in [1..q -> X] /\ g \in [1..(q + 1) -> X] /\ b \in X
      BY <1>1, <3>a, <3>b
    <3>3. (\A k \in 1..q : g[k] = f[k]) /\ g[q + 1] = b
      BY <1>1, <3>b
    <3>4. f \in Seq(X) /\ Len(f) = q /\ g \in Seq(X) /\ Len(g) = q + 1
      BY <1>1, <3>2
    <3>5. Append(f, b) \in Seq(X) /\ Len(Append(f, b)) = q + 1 /\ Append(f, b)[q + 1] = b
          /\ \A k \in 1..q : Append(f, b)[k] = f[k]
      BY <3>2, <3>4
    <3>6. \A k \in 1..(q + 1) : g[k] = Append(f, b)[k]
      BY <1>1, <3>3, <3>5
    <3>7. g = Append(f, b)
      BY <3>4, <3>5, <3>6, SeqEqual
    <3> QED BY <3>1, <3>7
  <2> QED BY <1>4, <2>2, <2>6
<1>5. CASE r < 63
  <2>1. Held(m + 1) = [j \in 0..63 |-> IF j < r + 1 THEN 64 * q + j + 1
                                       ELSE IF m + 1 < 64 THEN "undefined" ELSE 64 * q + j - 63]
    BY <1>1, <1>2, <1>5 DEF Held
  <2>2. m < 64 <=> m + 1 < 64
    BY <1>1, <1>5
  <2>3. Held(m + 1) = [Held(m) EXCEPT ![r] = m + 1]
    BY <1>1, <1>3, <1>5, <2>1, <2>2
  <2>4. Full(m + 1) = Full(m)
    BY <1>1, <1>2, <1>5 DEF Full
  <2> QED BY <1>5, <2>3, <2>4
<1> QED BY <1>1, <1>4, <1>5

\* An octet that is counted, whether or not its block is full.
Taken(m, low, high, corrupted) ==
  Ctx(low, high, (m + 1) % 64, Held(m + 1), Full(m + 1), No, corrupted)

LEMMA TakesOctet ==
  ASSUME NEW m \in Nat, NEW low, low = (((8 * m) % Low) + 8) % Low,
         NEW high, high = IF low = 0 THEN (((8 * m) \div Low) + 1) % High ELSE (8 * m) \div Low,
         NEW q, q = (low = 0 /\ high = 0)
  PROVE  H!Octet(Context(m), m + 1) = Taken(m, low, high, q)
<1>1. PICK r \in 0..63 : r = m % 64
  BY NextOfBlock
<1>2. PICK held : held = Held(m + 1)
  OBVIOUS
<1>3. PICK full : full = Full(m)
  OBVIOUS
<1>5. PICK c : c = Ctx((8 * m) % Low, (8 * m) \div Low, r, Held(m), full, No, No)
  OBVIOUS
<1>a. c = Context(m)
  BY <1>1, <1>3, <1>5 DEF Context
<1>6. PICK d : d = Ctx(low, high, r + 1, held, full, No, q)
  OBVIOUS
<1>7. H!Counted(H!Put(c, m + 1)) = d
  <2>1. H!Put(c, m + 1) = Ctx((8 * m) % Low, (8 * m) \div Low, r + 1, held, full, No, No)
    <3>1. held = [Held(m) EXCEPT ![r] = m + 1]
      BY <1>1, <1>2, NextOfHeld
    <3>2. PICK l, h, b, x : l = (8 * m) % Low /\ h = (8 * m) \div Low /\ b = Held(m) /\ x = m + 1
      OBVIOUS
    <3>3. H!Put(Ctx(l, h, r, b, full, No, No), x) = Ctx(l, h, r + 1, held, full, No, No)
      <4>1. held = Stored(b, r, x)
        BY <3>1, <3>2 DEF Stored
      <4> QED BY <4>1, PutFields
    <3> QED BY <1>5, <3>2, <3>3
  <2> QED BY <1>6, <2>1, CountedFields
<1>8. c.Corrupted = FALSE
  <2>1. c.Corrupted = No
    BY <1>5, FieldsOf
  <2> QED BY <2>1 DEF No
<1>9. H!Octet(c, m + 1) = IF r = 63 THEN H!SHA1ProcessMessageBlock(d) ELSE d
  <2>1. d.Message_Block_Index = r + 1
    BY <1>6, FieldsOf
  <2> QED BY <1>7, <1>8, <2>1 DEF H!Octet, H!Processed, H!Block
<1>10. CASE r = 63
  <2>2. H!SHA1ProcessMessageBlock(d) = Ctx(low, high, 0, held, Append(full, held), No, q)
    <3>1. PICK x : x = q /\ d = Ctx(low, high, r + 1, held, full, No, x)
      BY <1>6
    <3>2. H!SHA1ProcessMessageBlock(d) = Ctx(low, high, 0, held, Append(full, held), No, x)
      BY <3>1, ProcessedFields
    <3> QED BY <3>1, <3>2
  <2>1. (m + 1) % 64 = 0 /\ Full(m + 1) = Append(full, held)
    BY <1>1, <1>2, <1>3, <1>10, NextOfHeld, NextOfBlock
  <2> QED BY <1>2, <1>a, <1>6, <1>9, <1>10, <2>1, <2>2 DEF Taken
<1>11. CASE r < 63
  <2>1. (m + 1) % 64 = r + 1 /\ Full(m + 1) = full
    BY <1>1, <1>3, <1>11, NextOfHeld, NextOfBlock
  <2> QED BY <1>2, <1>a, <1>6, <1>9, <1>11, <2>1 DEF Taken
<1> QED BY <1>10, <1>11

LEMMA OctetFits ==
  ASSUME NEW m \in Nat, 8 * (m + 1) < Low * High
  PROVE  H!Octet(Context(m), m + 1) = Context(m + 1)
<1>1. PICK l, h : l = (8 * m) % Low /\ h = (8 * m) \div Low
  OBVIOUS
<1>2. PICK y \in Nat : y = Low * High
  BY Widths
<1>3. 8 * m < Low * High
  BY <1>2
<1>4. CASE l = Low - 8
  <2>1. /\ (l + 8) % Low = 0 /\ (8 * (m + 1)) % Low = 0 /\ (8 * (m + 1)) \div Low = h + 1
        /\ h \in 0..(High - 1) /\ h + 1 < High
    BY <1>1, <1>3, <1>4, NextOfLength
  <2>2. (h + 1) % High = h + 1 /\ h + 1 # 0
    BY <2>1, Widths
  <2>3. H!Octet(Context(m), m + 1) = Taken(m, 0, h + 1, No)
    BY <1>1, <2>1, <2>2, TakesOctet DEF No
  <2> QED BY <2>1, <2>3 DEF Taken, Context
<1>5. CASE l # Low - 8
  <2>1. /\ (l + 8) % Low = l + 8 /\ (8 * (m + 1)) % Low = l + 8 /\ (8 * (m + 1)) \div Low = h
        /\ l \in 0..(Low - 8)
    BY <1>1, <1>3, <1>5, NextOfLength
  <2>2. l + 8 # 0
    BY <2>1, Widths
  <2>3. H!Octet(Context(m), m + 1) = Taken(m, l + 8, h, No)
    BY <1>1, <2>1, <2>2, TakesOctet DEF No
  <2> QED BY <2>1, <2>3 DEF Taken, Context
<1> QED BY <1>4, <1>5

\* Where the counters wrap.
LEMMA Wraps ==
  \E m \in Nat : 8 * (m + 1) = Low * High /\ Refused = Taken(m, 0, 0, Yes)
<1>1. PICK w \in Nat : w = Low /\ w >= 8 /\ w % 8 = 0
  BY Widths
<1>2. PICK k \in Nat : w = 8 * k /\ k >= 1
  BY <1>1
<1>3. w * High = 8 * (k * High) /\ k * High \in Nat /\ k * High >= 1
  <2>1. k * 1 <= k * High
    BY <1>2, Widths, Larger
  <2> QED BY <1>2, <2>1, Widths
<1>4. PICK n \in Nat : n = k * High /\ n >= 1
  BY <1>3
<1>5. PICK m \in Nat : m = n - 1
  BY <1>4
<1>6. 8 * (m + 1) = Low * High
  BY <1>1, <1>3, <1>4, <1>5
<1>7. (Low * High) \div 8 = m + 1
  BY <1>5, <1>6
<1>8. PICK l, h : l = (8 * m) % Low /\ h = (8 * m) \div Low
  OBVIOUS
<1>9. 8 * m < Low * High /\ ~(8 * (m + 1) < Low * High)
  BY <1>5, <1>6
<1>10. l = Low - 8 /\ (l + 8) % Low = 0 /\ h \in 0..(High - 1) /\ 8 * (m + 1) = Low * (h + 1)
  BY <1>8, <1>9, NextOfLength
<1>11. h + 1 = High
  BY <1>6, <1>8, <1>9, <1>10, NextOfLength, Widths
<1>12. (h + 1) % High = 0
  BY <1>11, Widths
<1>13. H!Octet(Context(m), m + 1) = Taken(m, 0, 0, Yes)
  BY <1>8, <1>10, <1>12, TakesOctet DEF Yes
<1>14. Refused = H!Octet(Context(m), m + 1)
  BY <1>5, <1>7 DEF Refused
<1> QED BY <1>6, <1>13, <1>14

LEMMA RefusedStays ==
  /\ Refused.Corrupted = TRUE
  /\ [Refused EXCEPT !.Corrupted = TRUE] = Refused
  /\ \A octet : H!Octet(Refused, octet) = Refused
<1>1. PICK m \in Nat : Refused = Taken(m, 0, 0, Yes)
  BY Wraps
<1>2. PICK c : c = Refused
  OBVIOUS
<1>3. Fielded(c) /\ c.Corrupted = TRUE
  <2>1. Fielded(c) /\ c.Corrupted = Yes
    BY <1>1, <1>2, FieldsOf DEF Taken
  <2> QED BY <2>1 DEF Yes
<1>4. [c EXCEPT !.Corrupted = TRUE] = c
  BY <1>3 DEF Fielded, Fields
<1>5. \A octet : H!Octet(c, octet) = c
  BY <1>3 DEF H!Octet
<1> QED BY <1>2, <1>3, <1>4, <1>5

\* Each octet of a message is taken, until they are too many.
LEMMA NextOctet ==
  ASSUME NEW m \in Nat
  PROVE  H!Octet(After(m), m + 1) = After(m + 1)
<1>1. PICK y \in Nat : y = Low * High
  BY Widths
<1>2. CASE 8 * (m + 1) < y
  <2>1. 8 * m < y
    BY <1>2
  <2> QED BY <1>1, <1>2, <2>1, OctetFits DEF After
<1>3. CASE 8 * m < y /\ ~(8 * (m + 1) < y)
  <2>1. PICK k \in Nat : 8 * (k + 1) = y
    BY <1>1, Wraps
  <2>2. k = m
    BY <1>3, <2>1
  <2>3. y \div 8 = m + 1 /\ (y \div 8) - 1 = m
    BY <2>1, <2>2
  <2>4. Refused = H!Octet(Context(m), m + 1)
    BY <1>1, <2>3 DEF Refused
  <2> QED BY <1>1, <1>3, <2>4 DEF After
<1>4. CASE ~(8 * m < y)
  <2>1. ~(8 * (m + 1) < y)
    BY <1>4
  <2> QED BY <1>1, <1>4, <2>1, RefusedStays DEF After
<1> QED BY <1>2, <1>3, <1>4

\* A part of a message, of any length.
InputSteps(c, first, n, f) == f = [k \in 0..n |-> IF k = 0 THEN c ELSE H!Octet(f[k - 1], first + k - 1)]

LEMMA InputLoop ==
  ASSUME NEW m \in Nat, NEW n \in Nat, NEW f, InputSteps(After(m), m + 1, n, f)
  PROVE  f[n] = After(m + n)
<1> DEFINE P == {k \in 0..n : f[k] = After(m + k)}
<1>1. 0 \in P
  BY DEF InputSteps
<1>2. ASSUME NEW k \in 1..n, k - 1 \in P PROVE k \in P
  <2>1. f[k - 1] = After(m + (k - 1)) /\ k - 1 \in Nat /\ m + (k - 1) \in Nat
    BY <1>2
  <2>2. f[k] = H!Octet(f[k - 1], m + 1 + k - 1)
    BY DEF InputSteps
  <2>3. m + 1 + k - 1 = (m + (k - 1)) + 1 /\ (m + (k - 1)) + 1 = m + k
    OBVIOUS
  <2>4. f[k] = After(m + k)
    BY <2>1, <2>2, <2>3, NextOctet
  <2> QED BY <2>4
<1>3. \A k \in 0..n : k \in P
  <2> HIDE DEF P
  <2> QED BY <1>1, <1>2, Upwards
<1> QED BY <1>3

LEMMA InputStepsExist ==
  ASSUME NEW m \in Nat, NEW n \in Nat
  PROVE  \E f : InputSteps(After(m), m + 1, n, f)
<1> DEFINE g == [k \in 0..n |-> After(m + k)]
<1>1. ASSUME NEW k \in 0..n PROVE g[k] = IF k = 0 THEN After(m) ELSE H!Octet(g[k - 1], m + 1 + k - 1)
  <2>1. CASE k = 0
    BY <2>1
  <2>2. CASE k # 0
    <3>1. k - 1 \in 0..n /\ m + (k - 1) \in Nat /\ m + 1 + k - 1 = (m + (k - 1)) + 1 /\ (m + (k - 1)) + 1 = m + k
      BY <2>2
    <3>2. g[k - 1] = After(m + (k - 1)) /\ g[k] = After(m + k)
      BY <3>1
    <3> QED BY <2>2, <3>1, <3>2, NextOctet
  <2> QED BY <2>1, <2>2
<1>2. InputSteps(After(m), m + 1, n, g)
  <2>1. g = [k \in 0..n |-> g[k]]
    OBVIOUS
  <2> HIDE DEF g
  <2> QED BY <1>1, <2>1 DEF InputSteps
<1> QED BY <1>2

LEMMA AfterFields ==
  ASSUME NEW m \in Nat
  PROVE  /\ After(m).Computed = FALSE
         /\ After(m).Corrupted = ~(8 * m < Low * High)
<1>1. CASE 8 * m < Low * High
  <2>1. After(m).Computed = No /\ After(m).Corrupted = No
    BY <1>1, FieldsOf DEF After, Context
  <2> QED BY <1>1, <2>1 DEF No
<1>2. CASE ~(8 * m < Low * High)
  <2>1. PICK k : Refused = Taken(k, 0, 0, Yes)
    BY Wraps
  <2>2. After(m).Computed = No /\ After(m).Corrupted = Yes
    BY <1>2, <2>1, FieldsOf DEF After, Taken
  <2> QED BY <1>2, <2>2 DEF No, Yes
<1> QED BY <1>1, <1>2

LEMMA InputPart ==
  ASSUME NEW m \in Nat, NEW n \in Nat
  PROVE  H!SHA1Input(After(m), m + 1, n) = After(m + n)
<1>1. CASE n = 0
  BY <1>1 DEF H!SHA1Input
<1>2. CASE n # 0 /\ 8 * m < Low * High
  <2>1. ~(After(m).Computed \/ After(m).Corrupted)
    BY <1>2, AfterFields
  <2> DEFINE f == CHOOSE g : InputSteps(After(m), m + 1, n, g)
  <2>2. H!SHA1Input(After(m), m + 1, n) = f[n]
    BY <1>2, <2>1 DEF H!SHA1Input, InputSteps
  <2>3. InputSteps(After(m), m + 1, n, f)
    BY InputStepsExist
  <2> HIDE DEF f
  <2> QED BY <2>2, <2>3, InputLoop
<1>3. CASE n # 0 /\ ~(8 * m < Low * High)
  <2>1. After(m).Corrupted = TRUE
    BY <1>3, AfterFields
  <2>2. H!SHA1Input(After(m), m + 1, n) = [After(m) EXCEPT !.Corrupted = TRUE]
    BY <1>3, <2>1 DEF H!SHA1Input
  <2>3. After(m) = Refused
    BY <1>3 DEF After
  <2>4. ~(8 * (m + n) < Low * High)
    <3>1. PICK y \in Nat : y = Low * High
      BY Widths
    <3> QED BY <1>3, <3>1
  <2>5. After(m + n) = Refused
    BY <2>4 DEF After
  <2> QED BY <2>2, <2>3, <2>5, RefusedStays
<1> QED BY <1>1, <1>2, <1>3

\* The octets of the first parts.
OctetSteps(lengths, k, f) == f = [i \in 0..k |-> IF i = 0 THEN 0 ELSE f[i - 1] + lengths[i]]

LEMMA OctetStepsExist ==
  ASSUME NEW lengths \in Seq(Nat), NEW n \in 0..Len(lengths)
  PROVE  \E f \in [0..n -> Nat] : OctetSteps(lengths, n, f)
<1> DEFINE F == [i \in 1..n |-> [x \in Nat |-> x + lengths[i]]]
<1>1. n \in Nat /\ \A i \in 1..n : lengths[i] \in Nat
  OBVIOUS
<1>2. F \in [1..n -> [Nat -> Nat]]
  BY <1>1
<1>3. PICK g : Follows(F, 0, Nat, n, g)
  <2> HIDE DEF F
  <2> QED BY <1>1, <1>2, Recursion
<1>4. g \in [0..n -> Nat] /\ g[0] = 0 /\ \A i \in 1..n : g[i] = F[i][g[i - 1]]
  BY <1>3 DEF Follows
<1>5. ASSUME NEW i \in 0..n PROVE g[i] = IF i = 0 THEN 0 ELSE g[i - 1] + lengths[i]
  <2>1. CASE i = 0
    BY <1>4, <2>1
  <2>2. CASE i # 0
    <3>1. i \in 1..n /\ i - 1 \in 0..n /\ g[i - 1] \in Nat
      BY <1>4, <2>2
    <3> QED BY <1>4, <2>2, <3>1
  <2> QED BY <2>1, <2>2
<1>6. OctetSteps(lengths, n, g)
  <2>1. g = [i \in 0..n |-> g[i]]
    BY <1>4
  <2> HIDE DEF F
  <2> QED BY <1>5, <2>1 DEF OctetSteps
<1> QED BY <1>4, <1>6

LEMMA SameOctets ==
  ASSUME NEW lengths, NEW k \in Nat, NEW f, OctetSteps(lengths, k, f),
         NEW l \in Nat, NEW g, OctetSteps(lengths, l, g), k <= l
  PROVE  f[k] = g[k]
<1>1. f[0] = 0 /\ g[0] = 0
  BY DEF OctetSteps
<1>2. ASSUME NEW i \in 1..k, f[i - 1] = g[i - 1] PROVE f[i] = g[i]
  <2>1. i \in 0..k /\ i \in 0..l /\ i # 0
    OBVIOUS
  <2>2. f[i] = f[i - 1] + lengths[i]
    BY <2>1 DEF OctetSteps
  <2>3. g[i] = g[i - 1] + lengths[i]
    BY <2>1 DEF OctetSteps
  <2> QED BY <1>2, <2>2, <2>3
<1>3. \A i \in 0..k : f[i] = g[i]
  BY <1>1, <1>2, SameSteps
<1> QED BY <1>3

LEMMA OctetsOf ==
  ASSUME NEW lengths \in Seq(Nat), NEW k \in 0..Len(lengths)
  PROVE  /\ H!Octets(lengths, k) \in Nat
         /\ k = 0 => H!Octets(lengths, k) = 0
         /\ k # 0 => H!Octets(lengths, k) = H!Octets(lengths, k - 1) + lengths[k]
<1> DEFINE Of(j) == CHOOSE f : OctetSteps(lengths, j, f)
<1>1. \A j \in 0..Len(lengths) : OctetSteps(lengths, j, Of(j)) /\ H!Octets(lengths, j) = Of(j)[j]
  <2> TAKE j \in 0..Len(lengths)
  <2>1. OctetSteps(lengths, j, Of(j))
    BY OctetStepsExist
  <2>2. H!Octets(lengths, j) = Of(j)[j]
    BY DEF H!Octets, OctetSteps
  <2> QED BY <2>1, <2>2
<1> HIDE DEF Of
<1>2. PICK g \in [0..k -> Nat] : OctetSteps(lengths, k, g)
  BY OctetStepsExist
<1>3. Of(k)[k] = g[k]
  BY <1>1, <1>2, SameOctets
<1>4. g[k] = IF k = 0 THEN 0 ELSE g[k - 1] + lengths[k]
  BY <1>2 DEF OctetSteps
<1>5. ASSUME k # 0 PROVE Of(k - 1)[k - 1] = g[k - 1]
  <2>1. k - 1 \in Nat /\ k - 1 \in 0..Len(lengths) /\ k \in Nat /\ k - 1 <= k
    BY <1>5
  <2>2. PICK l \in Nat : l = k - 1
    BY <2>1
  <2>3. OctetSteps(lengths, l, Of(l)) /\ l <= k /\ k \in Nat
    BY <1>1, <2>1, <2>2
  <2> QED BY <1>2, <2>2, <2>3, SameOctets
<1>6. k # 0 => k - 1 \in 0..Len(lengths)
  OBVIOUS
<1>7. H!Octets(lengths, k) = g[k] /\ g[k] \in Nat
  BY <1>1, <1>2, <1>3
<1>8. ASSUME k # 0 PROVE H!Octets(lengths, k) = H!Octets(lengths, k - 1) + lengths[k]
  <2>1. H!Octets(lengths, k - 1) = g[k - 1]
    BY <1>1, <1>5, <1>6, <1>8
  <2> QED BY <1>4, <1>7, <1>8, <2>1
<1> QED BY <1>4, <1>7, <1>8

\* A message in any parts.
PartSteps(lengths, f) ==
  f = [k \in 0..Len(lengths) |->
         IF k = 0 THEN H!SHA1Reset ELSE H!SHA1Input(f[k - 1], H!Octets(lengths, k - 1) + 1, lengths[k])]

LEMMA ResetContext == H!SHA1Reset = After(0)
<1>1. 0 < Low * High
  <2>1. 8 * 1 <= Low * High
    <3>1. Low * 1 <= Low * High
      BY Widths, Larger
    <3> QED BY <3>1, Widths
  <2> QED BY <2>1, Widths
<1>2. (8 * 0) % Low = 0 /\ (8 * 0) \div Low = 0 /\ 0 % 64 = 0 /\ 0 \div 64 = 0
  BY Widths
<1>3. Held(0) = [j \in 0..63 |-> "undefined"]
  BY <1>2 DEF Held
<1>4. Full(0) = <<>>
  BY <1>2 DEF Full
<1>5. PICK h : h = [j \in 0..63 |-> "undefined"]
  OBVIOUS
<1>6. After(0) = Ctx(0, 0, 0, h, <<>>, No, No)
  <2>1. After(0) = Context(0)
    <3>1. PICK z : z = 0
      OBVIOUS
    <3>2. 8 * z = 0
      BY <3>1
    <3>3. After(z) = Context(z)
      BY <1>1, <3>2 DEF After
    <3> QED BY <3>1, <3>3
  <2>2. Context(0) = Ctx((8 * 0) % Low, (8 * 0) \div Low, 0 % 64, Held(0), Full(0), No, No)
    BY DEF Context
  <2> QED BY <1>2, <1>3, <1>4, <1>5, <2>1, <2>2
<1>7. H!SHA1Reset = [Length_Low |-> 0, Length_High |-> 0, Message_Block_Index |-> 0,
        Message_Block |-> h, Message_Digest |-> <<>>, Computed |-> FALSE, Corrupted |-> FALSE]
  BY <1>5 DEF H!SHA1Reset, H!Block
<1> QED BY <1>6, <1>7 DEF Ctx, No

LEMMA PartStep ==
  ASSUME NEW lengths \in Seq(Nat), NEW k \in 1..Len(lengths)
  PROVE  H!SHA1Input(After(H!Octets(lengths, k - 1)), H!Octets(lengths, k - 1) + 1, lengths[k])
           = After(H!Octets(lengths, k))
<1>1. k - 1 \in 0..Len(lengths) /\ k \in 0..Len(lengths) /\ k # 0 /\ lengths[k] \in Nat
  OBVIOUS
<1>2. H!Octets(lengths, k - 1) \in Nat /\ H!Octets(lengths, k) = H!Octets(lengths, k - 1) + lengths[k]
  BY <1>1, OctetsOf
<1> QED BY <1>1, <1>2, InputPart

LEMMA PartStepsExist ==
  ASSUME NEW lengths \in Seq(Nat)
  PROVE  \E f : PartSteps(lengths, f)
<1> DEFINE g == [k \in 0..Len(lengths) |-> After(H!Octets(lengths, k))]
<1>1. ASSUME NEW k \in 0..Len(lengths)
      PROVE  g[k] = IF k = 0 THEN H!SHA1Reset
                    ELSE H!SHA1Input(g[k - 1], H!Octets(lengths, k - 1) + 1, lengths[k])
  <2>1. CASE k = 0
    BY <2>1, OctetsOf, ResetContext
  <2>2. CASE k # 0
    <3>1. k \in 1..Len(lengths) /\ k - 1 \in 0..Len(lengths)
      BY <2>2
    <3>2. g[k - 1] = After(H!Octets(lengths, k - 1)) /\ g[k] = After(H!Octets(lengths, k))
      BY <3>1
    <3> QED BY <2>2, <3>1, <3>2, PartStep
  <2> QED BY <2>1, <2>2
<1>2. PartSteps(lengths, g)
  <2>1. g = [k \in 0..Len(lengths) |-> g[k]]
    OBVIOUS
  <2> HIDE DEF g
  <2> QED BY <1>1, <2>1 DEF PartSteps
<1> QED BY <1>2

LEMMA InputsOf ==
  ASSUME NEW lengths \in Seq(Nat)
  PROVE  H!Inputs(lengths) = After(H!Octets(lengths, Len(lengths)))
<1> DEFINE f == CHOOSE g : PartSteps(lengths, g)
<1>1. PartSteps(lengths, f)
  BY PartStepsExist
<1>2. H!Inputs(lengths) = f[Len(lengths)]
  BY DEF H!Inputs, PartSteps
<1> HIDE DEF f
<1> DEFINE P == {k \in 0..Len(lengths) : f[k] = After(H!Octets(lengths, k))}
<1>3. 0 \in P
  <2>1. f[0] = H!SHA1Reset
    BY <1>1 DEF PartSteps
  <2> QED BY <2>1, OctetsOf, ResetContext
<1>4. ASSUME NEW k \in 1..Len(lengths), k - 1 \in P PROVE k \in P
  <2>1. f[k] = H!SHA1Input(f[k - 1], H!Octets(lengths, k - 1) + 1, lengths[k])
    BY <1>1 DEF PartSteps
  <2> QED BY <1>4, <2>1, PartStep
<1>5. \A k \in 0..Len(lengths) : k \in P
  <2>1. Len(lengths) \in Nat
    OBVIOUS
  <2> HIDE DEF P
  <2> QED BY <1>3, <1>4, <2>1, Upwards
<1> QED BY <1>2, <1>5

\* The padding.
Longer(q, f, x, g) ==
  /\ q \in Nat /\ f = [k \in 1..q |-> f[k]]
  /\ g = [k \in 1..(q + 1) |-> IF k <= q THEN f[k] ELSE x]

LEMMA AppendAsFunction ==
  ASSUME NEW q, NEW f, NEW x, NEW g, Longer(q, f, x, g)
  PROVE  Append(f, x) = g
<1> USE DEF Longer
<1> DEFINE X == {f[k] : k \in 1..q} \cup {x}
<1>1. x \in X /\ \A k \in 1..q : f[k] \in X
  OBVIOUS
<1> HIDE DEF X
<1>2. f \in Seq(X) /\ Len(f) = q
  <2>1. f \in [1..q -> X]
    BY <1>1
  <2> QED BY <2>1
<1>3. g \in Seq(X) /\ Len(g) = q + 1
  <2>1. g \in [1..(q + 1) -> X]
    BY <1>1
  <2> QED BY <2>1
<1>4. /\ Append(f, x) \in Seq(X) /\ Len(Append(f, x)) = q + 1
      /\ Append(f, x)[q + 1] = x /\ \A k \in 1..q : Append(f, x)[k] = f[k]
  BY <1>1, <1>2
<1>5. \A k \in 1..(q + 1) : Append(f, x)[k] = g[k]
  BY <1>4
<1> QED BY <1>3, <1>4, <1>5, SeqEqual

LEMMA BlockFields ==
  ASSUME NEW a, NEW b, NEW i, NEW m, NEW d, NEW p, NEW q, NEW e
  PROVE  [Ctx(a, b, i, m, d, p, q) EXCEPT !.Message_Block = e] = Ctx(a, b, i, e, d, p, q)
<1>1. PICK c : c = Ctx(a, b, i, m, d, p, q)
  OBVIOUS
<1>2. PICK r : r = Ctx(a, b, i, e, d, p, q)
  OBVIOUS
<1>3. PICK s : s = [c EXCEPT !.Message_Block = e]
  OBVIOUS
<1>4. /\ Fielded(c) /\ c.Length_Low = a /\ c.Length_High = b /\ c.Message_Block_Index = i
      /\ c.Message_Digest = d /\ c.Computed = p /\ c.Corrupted = q
  BY <1>1, FieldsOf
<1>5. Fielded(s) /\ s.Length_Low = a /\ s.Length_High = b /\ s.Message_Block_Index = i
      /\ s.Message_Block = e /\ s.Message_Digest = d /\ s.Computed = p /\ s.Corrupted = q
  BY <1>3, <1>4 DEF Fielded, Fields
<1>6. s = r
  BY <1>2, <1>5, FieldsOf, ByFields
<1> QED BY <1>1, <1>2, <1>3, <1>6

\* The last block of a message: the length behind what is there.
LengthAt(j, high, low) == IF j < 60 THEN <<"high", high>> ELSE <<"low", low>>
Ended(m, high, low) == [j \in 0..63 |-> IF j < 56 THEN m[j] ELSE LengthAt(j, high, low)]

\* The block with the first padding bit, and the zeros up to an index.
Started(m, r, upto) == Zeroed(Stored(m, r, "one"), r + 1, upto)

IsBlock(m) == DOMAIN m = 0..63
InBlock(r) == r \in 0..63

\* The last block of a message of which r octets are in the block m, and the blocks before it.
LengthBlock(m, r, high, low) ==
  IF r > 55 THEN Ended(Zeroed(Started(m, r, 64), 0, 56), high, low) ELSE Ended(Started(m, r, 56), high, low)
BlocksBefore(d, m, r) == IF r > 55 THEN Append(d, Started(m, r, 64)) ELSE d

LEMMA PadFields ==
  ASSUME NEW a, NEW b, NEW r, InBlock(r), NEW m, IsBlock(m), NEW d, NEW p, NEW q
  PROVE  H!SHA1PadMessage(Ctx(a, b, r, m, d, p, q))
           = Ctx(a, b, 0, LengthBlock(m, r, b, a), Append(BlocksBefore(d, m, r), LengthBlock(m, r, b, a)), p, q)
<1>0. PICK l, e : /\ l = IF r > 55 THEN Ended(Zeroed(Started(m, r, 64), 0, 56), b, a) ELSE Ended(Started(m, r, 56), b, a)
                  /\ e = IF r > 55 THEN Append(d, Started(m, r, 64)) ELSE d
  OBVIOUS
<1>1. PICK c : c = Ctx(a, b, r, m, d, p, q)
  OBVIOUS
<1>2. PICK one : one = H!Put(c, "one")
  OBVIOUS
<1>3. PICK i \in 1..64 : i = r + 1
  BY DEF InBlock
<1>4. PICK s : s = Stored(m, r, "one")
  OBVIOUS
<1>5. one = Ctx(a, b, i, s, d, p, q) /\ DOMAIN s = 0..63
  <2>1. one = Ctx(a, b, r + 1, Stored(m, r, "one"), d, p, q)
    BY <1>1, <1>2, PutFields
  <2>2. DOMAIN s = 0..63
    BY <1>4 DEF Stored, IsBlock
  <2> QED BY <1>3, <1>4, <2>1, <2>2
<1>6. c.Message_Block_Index = r /\ c.Length_High = b /\ c.Length_Low = a
  BY <1>1, FieldsOf
<1>7. PICK padded : padded = IF H!NoRoom(c) THEN H!Zeros(H!SHA1ProcessMessageBlock(H!Zeros(one, 64)), 56) ELSE H!Zeros(one, 56)
  OBVIOUS
<1>8. PICK k, z : padded = Ctx(a, b, k, z, e, p, q) /\ l = Ended(z, b, a)
  <2>1. CASE r > 55
    <3>1. PICK y : y = Zeroed(s, i, 64)
      OBVIOUS
    <3>2. H!Zeros(one, 64) = Ctx(a, b, IF i < 64 THEN 64 ELSE i, y, d, p, q)
      BY <1>5, <3>1, ZerosFields
    <3>3. H!SHA1ProcessMessageBlock(H!Zeros(one, 64)) = Ctx(a, b, 0, y, Append(d, y), p, q)
      BY <3>2, ProcessedFields
    <3>4. DOMAIN y = 0..63
      BY <3>1 DEF Zeroed
    <3>5. PICK n : n = IF 0 < 56 THEN 56 ELSE 0
      OBVIOUS
    <3>6. H!Zeros(H!SHA1ProcessMessageBlock(H!Zeros(one, 64)), 56) = Ctx(a, b, n, Zeroed(y, 0, 56), Append(d, y), p, q)
      BY <3>3, <3>4, <3>5, ZerosFields
    <3>7. e = Append(d, y) /\ l = Ended(Zeroed(y, 0, 56), b, a)
      BY <1>0, <1>3, <1>4, <2>1, <3>1 DEF Started
    <3>8. H!NoRoom(c)
      BY <1>6, <2>1 DEF H!NoRoom
    <3> QED BY <1>7, <3>6, <3>7, <3>8
  <2>2. CASE ~(r > 55)
    <3>1. H!Zeros(one, 56) = Ctx(a, b, IF i < 56 THEN 56 ELSE i, Zeroed(s, i, 56), d, p, q)
      BY <1>5, ZerosFields
    <3>2. e = d /\ l = Ended(Zeroed(s, i, 56), b, a)
      BY <1>0, <1>3, <1>4, <2>2 DEF Started
    <3>3. ~H!NoRoom(c)
      BY <1>6, <2>2 DEF H!NoRoom
    <3> QED BY <1>7, <3>1, <3>2, <3>3
  <2> QED BY <2>1, <2>2
<1>9. padded.Message_Block = z
  BY <1>8, FieldsOf
<1>10. H!SHA1PadMessage(c) = H!SHA1ProcessMessageBlock([padded EXCEPT !.Message_Block = l])
  <2>1. l = [j \in 0..63 |-> IF j < 56 THEN padded.Message_Block[j]
                              ELSE IF j < 60 THEN <<"high", c.Length_High>> ELSE <<"low", c.Length_Low>>]
    BY <1>6, <1>8, <1>9 DEF Ended, LengthAt
  <2>2. [padded EXCEPT !.Message_Block = l]
          = [padded EXCEPT !.Message_Block = [j \in 0..63 |-> IF j < 56 THEN @[j]
                             ELSE IF j < 60 THEN <<"high", c.Length_High>> ELSE <<"low", c.Length_Low>>]]
    BY <2>1
  <2>3. H!SHA1PadMessage(c) = H!SHA1ProcessMessageBlock(
          [padded EXCEPT !.Message_Block = [j \in 0..63 |-> IF j < 56 THEN @[j]
                             ELSE IF j < 60 THEN <<"high", c.Length_High>> ELSE <<"low", c.Length_Low>>]])
    <3>1. 64 - 1 = 63
      OBVIOUS
    <3>2. padded = IF H!NoRoom(c) THEN H!Zeros(H!SHA1ProcessMessageBlock(H!Zeros(H!Put(c, "one"), H!Block)), 56)
                   ELSE H!Zeros(H!Put(c, "one"), 56)
      BY <1>2, <1>7, Zenon DEF H!Block
    <3> QED BY <3>1, <3>2, ZenonT(40) DEF H!SHA1PadMessage, H!Block
  <2> QED BY <2>2, <2>3
<1>11. [padded EXCEPT !.Message_Block = l] = Ctx(a, b, k, l, e, p, q)
  BY <1>8, BlockFields
<1>12. l = LengthBlock(m, r, b, a) /\ e = BlocksBefore(d, m, r)
  BY <1>0 DEF LengthBlock, BlocksBefore
<1>13. H!SHA1PadMessage(c) = Ctx(a, b, 0, l, Append(e, l), p, q)
  BY <1>10, <1>11, ProcessedFields
<1> QED BY <1>1, <1>12, <1>13

\* The octets of the standard, block by block.
OctetAt(n, blocks, b, j) ==
  IF (b - 1) * 64 + j + 1 <= n THEN (b - 1) * 64 + j + 1
  ELSE IF (b - 1) * 64 + j + 1 = n + 1 THEN "one"
  ELSE IF (b - 1) * 64 + j + 1 <= blocks * 64 - 8 THEN "zero"
  ELSE LengthAt(j, (8 * n) \div Low, (8 * n) % Low)

BlockAt(n, blocks, b) == [j \in 0..63 |-> OctetAt(n, blocks, b, j)]

LEMMA StandardBlocks ==
  ASSUME NEW n \in Nat, NEW blocks, blocks = (n + 72) \div 64
  PROVE  H!Standard(n) = [b \in 1..blocks |-> BlockAt(n, blocks, b)]
<1>1. n + 9 + 64 - 1 = n + 72 /\ 64 - 1 = 63
  OBVIOUS
<1>2. H!Standard(n) = [b \in 1..((n + 9 + 64 - 1) \div 64) |-> BlockAt(n, (n + 9 + 64 - 1) \div 64, b)]
  BY <1>1, Zenon DEF H!Standard, H!Block, BlockAt, OctetAt, LengthAt
<1> QED BY <1>1, <1>2

\* A number of octets by its full blocks and the rest, its length by the two counters.
Splits(n, q, r)   == n \in Nat /\ q \in Nat /\ r \in 0..63 /\ n = 64 * q + r
Lengths(n, b, a)  == b = (8 * n) \div Low /\ a = (8 * n) % Low
Follower(k, q)    == k \in Nat /\ k = q + 1

LEMMA HeldBlock ==
  ASSUME NEW n, NEW q, NEW r, Splits(n, q, r), NEW k, Follower(k, q), NEW blocks, NEW j \in 0..63, j < r
  PROVE  Held(n)[j] = OctetAt(n, blocks, k, j)
<1>1. n \in Nat /\ n % 64 = r /\ n - r = 64 * q
  BY DEF Splits
<1>2. Held(n)[j] = (n - r) + j + 1
  BY <1>1 DEF Held
<1>3. (k - 1) * 64 + j + 1 = (n - r) + j + 1 /\ (n - r) + j + 1 <= n
  BY <1>1 DEF Follower, Splits
<1> QED BY <1>2, <1>3 DEF OctetAt

LEMMA FullBlocks ==
  ASSUME NEW n, NEW q, NEW r, Splits(n, q, r), NEW blocks
  PROVE  Full(n) = [b \in 1..q |-> BlockAt(n, blocks, b)]
<1> USE DEF Splits
<1>1. n \div 64 = q
  OBVIOUS
<1>2. ASSUME NEW b \in 1..q PROVE [j \in 0..63 |-> (b - 1) * 64 + j + 1] = BlockAt(n, blocks, b)
  <2>1. ASSUME NEW j \in 0..63 PROVE (b - 1) * 64 + j + 1 = OctetAt(n, blocks, b, j)
    <3>1. (b - 1) * 64 + j + 1 <= n
      OBVIOUS
    <3> QED BY <3>1 DEF OctetAt
  <2> QED BY <2>1 DEF BlockAt
<1> QED BY <1>1, <1>2 DEF Full

\* What is in the block behind the message: the one and the zeros.
InFront(j, r) == j \in 0..63 /\ r \in 0..63 /\ j < r

LEMMA StartedBefore ==
  ASSUME NEW m, IsBlock(m), NEW r, NEW j, InFront(j, r), NEW upto
  PROVE  Started(m, r, upto)[j] = m[j]
<1>0. j \in 0..63 /\ r \in 0..63 /\ j < r
  BY DEF InFront
<1>1. Stored(m, r, "one")[j] = m[j]
  BY <1>0 DEF Stored, IsBlock
<1>2. j \notin (r + 1)..(upto - 1)
  BY <1>0
<1> QED BY <1>0, <1>1, <1>2 DEF Started, Zeroed

LEMMA StartedOne ==
  ASSUME NEW m, IsBlock(m), NEW r \in 0..63, NEW upto
  PROVE  Started(m, r, upto)[r] = "one"
<1>1. Stored(m, r, "one")[r] = "one"
  BY DEF Stored, IsBlock
<1>2. r \notin (r + 1)..(upto - 1)
  OBVIOUS
<1> QED BY <1>1, <1>2 DEF Started, Zeroed

\* The block that ends the message.
LEMMA BlockOfOne ==
  ASSUME NEW n, NEW q, NEW r, Splits(n, q, r), NEW blocks \in Nat, NEW k, Follower(k, q),
         NEW upto \in {56, 64}, r < upto, 64 * q + upto <= blocks * 64 - 8,
         NEW s, s = Started(Held(n), r, upto), NEW j \in 0..63, j < upto
  PROVE  s[j] = OctetAt(n, blocks, k, j)
<1>1. (k - 1) * 64 + j + 1 = 64 * q + j + 1 /\ n \in Nat /\ q \in Nat /\ r \in 0..63 /\ n = 64 * q + r
  BY DEF Splits, Follower
<1>2. PICK m : m = Held(n) /\ IsBlock(m)
  BY DEF Held, IsBlock
<1>a. upto \in 0..64 /\ s = Started(m, r, upto)
  BY <1>2
<1>4. CASE j < r
  <2>1. IsBlock(m) /\ InFront(j, r)
    BY <1>1, <1>2, <1>4 DEF InFront
  <2>2. Started(m, r, upto)[j] = m[j]
    BY <1>1, <1>4 , <2>1 DEF Started, Zeroed, Stored, IsBlock
  <2>3. s[j] = Held(n)[j]
    BY <1>2, <1>a, <2>2
  <2> QED BY <1>4, <2>3, HeldBlock
<1>5. CASE j = r
  <2>1. ~(64 * q + j + 1 <= n) /\ 64 * q + j + 1 = n + 1
    BY <1>1, <1>5
  <2>a. Started(m, r, upto)[r] = "one"
    BY <1>1, <1>2, StartedOne
  <2>2. s[j] = "one"
    BY <1>a, <1>5, <2>a
  <2> QED BY <1>1, <2>1, <2>2 DEF OctetAt
<1>6. CASE j > r
  <2>1. ~(64 * q + j + 1 <= n) /\ ~(64 * q + j + 1 = n + 1) /\ 64 * q + j + 1 <= blocks * 64 - 8
    BY <1>1, <1>6
  <2>2. s[j] = "zero"
    <3>1. j \in (r + 1)..(upto - 1) /\ r \in 0..63
      BY <1>1, <1>a, <1>6
    <3>2. Started(m, r, upto)[j] = "zero"
      BY <3>1 DEF Started, Zeroed
    <3> QED BY <1>a, <3>2
  <2> QED BY <1>1, <2>1, <2>2 DEF OctetAt
<1> QED BY <1>1, <1>4, <1>5, <1>6

\* The last block, behind any octets of its own.
\* The length has room in block k.
Beyond(n, k) == n \in Nat /\ k \in Nat /\ n + 8 < k * 64

LEMMA BlockOfLength ==
  ASSUME NEW n, NEW k, Beyond(n, k), NEW b, NEW a, Lengths(n, b, a), NEW m, NEW j \in 56..63
  PROVE  Ended(m, b, a)[j] = OctetAt(n, k, k, j)
<1>1. Ended(m, b, a)[j] = LengthAt(j, b, a)
  BY DEF Ended
<1>2. (k - 1) * 64 + j + 1 > k * 64 - 8 /\ (k - 1) * 64 + j + 1 \in Int /\ k * 64 - 8 >= n + 1 /\ n \in Nat /\ k \in Nat
  BY DEF Beyond
<1>3. ~((k - 1) * 64 + j + 1 <= n) /\ ~((k - 1) * 64 + j + 1 = n + 1) /\ ~((k - 1) * 64 + j + 1 <= k * 64 - 8)
  BY <1>2
<1> QED BY <1>1, <1>3 DEF OctetAt, Lengths

LEMMA EndedBefore ==
  ASSUME NEW b, NEW a, NEW m, NEW j \in 0..55
  PROVE  Ended(m, b, a)[j] = m[j]
BY DEF Ended

LEMMA RoomInTheBlock ==
  ASSUME NEW n, NEW q, NEW r \in 0..55, Splits(n, q, r), NEW b, NEW a, Lengths(n, b, a)
  PROVE  Append(BlocksBefore(Full(n), Held(n), r), LengthBlock(Held(n), r, b, a)) = H!Standard(n)
<1>0. n \in Nat /\ q \in Nat /\ r \in 0..55 /\ n = 64 * q + r
  BY DEF Splits
<1>b. PICK l : l = Ended(Started(Held(n), r, 56), b, a)
  OBVIOUS
<1>1. PICK k \in Nat : k = q + 1 /\ k = (n + 72) \div 64 /\ Follower(k, q) /\ Beyond(n, k)
  BY <1>0 DEF Follower, Beyond
<1>2. H!Standard(n) = [c \in 1..k |-> BlockAt(n, k, c)]
  BY <1>0, <1>1, StandardBlocks
<1>3. PICK s : s = Started(Held(n), r, 56)
  OBVIOUS
<1>4. ASSUME NEW j \in 0..63 PROVE l[j] = OctetAt(n, k, k, j)
  <2>1. CASE j < 56
    <3>0. l = Ended(s, b, a)
      BY <1>3, <1>b
    <3>1. l[j] = s[j]
      <4>1. j \in 0..55
        BY <2>1
      <4> QED BY <3>0, <4>1, EndedBefore
    <3>2. PICK upto \in {56, 64} : upto = 56
      OBVIOUS
    <3>3. s = Started(Held(n), r, upto) /\ r < upto /\ j < upto /\ 64 * q + upto <= k * 64 - 8 /\ r \in 0..63
      BY <1>0, <1>1, <1>3, <2>1, <3>2
    <3>4. s[j] = OctetAt(n, k, k, j)
      BY <1>0, <1>1, <3>3, BlockOfOne
    <3> QED BY <3>1, <3>4
  <2>2. CASE j >= 56
    <3>1. j \in 56..63
      BY <2>2
    <3> QED BY <1>1, <1>b, <3>1, BlockOfLength
  <2> QED BY <2>1, <2>2
<1>5. l = BlockAt(n, k, k)
  <2>1. l = [j \in 0..63 |-> l[j]]
    BY <1>b DEF Ended
  <2> QED BY <1>4, <2>1 DEF BlockAt
<1>6. PICK d, g : d = Full(n) /\ g = H!Standard(n)
  OBVIOUS
<1>7. d = [c \in 1..q |-> BlockAt(n, k, c)]
  BY <1>6, FullBlocks
<1>8. g = [c \in 1..(q + 1) |-> IF c <= q THEN d[c] ELSE l]
  BY <1>0, <1>1, <1>2, <1>5, <1>6, <1>7
<1>9. d = [c \in 1..q |-> d[c]]
  BY <1>7
<1>10. Longer(q, d, l, g)
  BY <1>0, <1>8, <1>9 DEF Longer
<1>11. d = BlocksBefore(Full(n), Held(n), r) /\ l = LengthBlock(Held(n), r, b, a)
  BY <1>0, <1>b, <1>6 DEF BlocksBefore, LengthBlock
<1> QED BY <1>6, <1>10, <1>11, AppendAsFunction, Zenon

LEMMA NoRoomInTheBlock ==
  ASSUME NEW n, NEW q, NEW r \in 56..63, Splits(n, q, r), NEW b, NEW a, Lengths(n, b, a)
  PROVE  Append(BlocksBefore(Full(n), Held(n), r), LengthBlock(Held(n), r, b, a)) = H!Standard(n)
<1>0. n \in Nat /\ q \in Nat /\ r \in 56..63 /\ n = 64 * q + r
  BY DEF Splits
<1>b. PICK s : s = Started(Held(n), r, 64)
  OBVIOUS
<1>c. PICK l : l = Ended(Zeroed(s, 0, 56), b, a)
  OBVIOUS
<1>1. PICK k \in Nat, i \in Nat : i = q + 1 /\ k = i + 1 /\ k = (n + 72) \div 64 /\ Follower(i, q) /\ Beyond(n, k)
  BY <1>0 DEF Follower, Beyond
<1>2. H!Standard(n) = [c \in 1..k |-> BlockAt(n, k, c)]
  BY <1>0, <1>1, StandardBlocks
<1>3. s = BlockAt(n, k, i)
  <2>1. ASSUME NEW j \in 0..63 PROVE s[j] = OctetAt(n, k, i, j)
    <3>1. PICK upto \in {56, 64} : upto = 64
      OBVIOUS
    <3>2. s = Started(Held(n), r, upto) /\ r < upto /\ j < upto /\ 64 * q + upto <= k * 64 - 8 /\ r \in 0..63
      BY <1>0, <1>1, <1>b, <3>1
    <3> QED BY <1>0, <1>1, <3>2, BlockOfOne
  <2>2. s = [j \in 0..63 |-> s[j]]
    BY <1>b DEF Started, Zeroed
  <2> QED BY <2>1, <2>2 DEF BlockAt
<1>4. ASSUME NEW j \in 0..63 PROVE l[j] = OctetAt(n, k, k, j)
  <2>1. PICK z : z = Zeroed(s, 0, 56)
    OBVIOUS
  <2>2. l = Ended(z, b, a)
    BY <1>c, <2>1
  <2>3. CASE j < 56
    <3>1. l[j] = z[j]
      <4>1. j \in 0..55
        BY <2>3
      <4> QED BY <2>2, <4>1, EndedBefore
    <3>2. z[j] = "zero"
      <4>1. j \in 0..(56 - 1)
        BY <2>3
      <4> QED BY <2>1, <4>1 DEF Zeroed
    <3>3. (k - 1) * 64 + j + 1 > n + 1 /\ (k - 1) * 64 + j + 1 <= k * 64 - 8 /\ (k - 1) * 64 + j + 1 \in Int
      BY <1>0, <1>1, <2>3
    <3>4. ~((k - 1) * 64 + j + 1 <= n) /\ ~((k - 1) * 64 + j + 1 = n + 1)
      BY <1>0, <3>3
    <3> QED BY <3>1, <3>2, <3>3, <3>4 DEF OctetAt
  <2>4. CASE j >= 56
    <3>1. j \in 56..63
      BY <2>4
    <3> QED BY <1>1, <2>2, <3>1, BlockOfLength
  <2> QED BY <2>3, <2>4
<1>5. l = BlockAt(n, k, k)
  <2>1. l = [j \in 0..63 |-> l[j]]
    BY <1>c DEF Ended
  <2> QED BY <1>4, <2>1 DEF BlockAt
<1>6. PICK d, f, g : d = Full(n) /\ g = H!Standard(n) /\ f = [c \in 1..i |-> BlockAt(n, k, c)]
  OBVIOUS
<1>7. d = [c \in 1..q |-> BlockAt(n, k, c)]
  BY <1>6, FullBlocks
<1>8. f = [c \in 1..(q + 1) |-> IF c <= q THEN d[c] ELSE s] /\ d = [c \in 1..q |-> d[c]]
  BY <1>0, <1>1, <1>3, <1>6, <1>7
<1>9. g = [c \in 1..(i + 1) |-> IF c <= i THEN f[c] ELSE l] /\ f = [c \in 1..i |-> f[c]]
  BY <1>0, <1>1, <1>2, <1>5, <1>6
<1>10. Append(d, s) = f
  <2>1. Longer(q, d, s, f)
    BY <1>0, <1>8 DEF Longer
  <2> QED BY <2>1, AppendAsFunction
<1>11. Append(f, l) = g
  <2>1. Longer(i, f, l, g)
    BY <1>1, <1>9 DEF Longer
  <2> QED BY <2>1, AppendAsFunction
<1>12. f = BlocksBefore(Full(n), Held(n), r) /\ l = LengthBlock(Held(n), r, b, a)
  <2>1. r > 55
    BY <1>0
  <2>2. f = BlocksBefore(Full(n), Held(n), r)
    BY <1>b, <1>6, <1>10, <2>1 DEF BlocksBefore
  <2>3. l = LengthBlock(Held(n), r, b, a)
    BY <1>b, <1>c, <2>1 DEF LengthBlock
  <2> QED BY <2>2, <2>3
<1> QED BY <1>6, <1>11, <1>12


\* The context whose digest was asked for.
Asked(c) == [c EXCEPT !.Computed = TRUE]

LEMMA AskedFields ==
  ASSUME NEW a, NEW b, NEW i, NEW m, NEW d, NEW p, NEW q
  PROVE  /\ Fielded(Asked(Ctx(a, b, i, m, d, p, q))) /\ Asked(Ctx(a, b, i, m, d, p, q)).Message_Digest = d
         /\ Asked(Ctx(a, b, i, m, d, p, q)).Computed = Yes /\ Asked(Ctx(a, b, i, m, d, p, q)).Corrupted = q
<1>1. PICK c : c = Ctx(a, b, i, m, d, p, q)
  OBVIOUS
<1>2. Fielded(c) /\ c.Message_Digest = d /\ c.Corrupted = q
  BY <1>1, FieldsOf
<1>3. PICK s : s = [c EXCEPT !.Computed = TRUE]
  OBVIOUS
<1>4. Fielded(s) /\ s.Message_Digest = d /\ s.Computed = Yes /\ s.Corrupted = q
  BY <1>2, <1>3 DEF Fielded, Fields, Yes
<1> QED BY <1>1, <1>3, <1>4 DEF Asked

LEMMA ResultOf ==
  ASSUME NEW n \in Nat, 8 * n < Low * High, NEW s, s = H!SHA1Result(After(n))
  PROVE  Fielded(s) /\ s.Message_Digest = H!Standard(n) /\ s.Computed = TRUE /\ s.Corrupted = FALSE
<1>1. PICK q \in Nat, r \in 0..63 : q = n \div 64 /\ r = n % 64 /\ n = 64 * q + r /\ Splits(n, q, r)
  BY NextOfBlock DEF Splits
<1>2. PICK a, b : b = (8 * n) \div Low /\ a = (8 * n) % Low /\ Lengths(n, b, a)
  BY DEF Lengths
<1>3. PICK m, d : m = Held(n) /\ d = Full(n) /\ IsBlock(m)
  <2>1. IsBlock(Held(n))
    BY DEF Held, IsBlock
  <2> QED BY <2>1
<1>4. After(n) = Ctx(a, b, r, m, d, No, No)
  BY <1>1, <1>2, <1>3 DEF After, Context
<1>5. s = Asked(H!SHA1PadMessage(After(n)))
  BY AfterFields DEF H!SHA1Result, Asked
<1>a. Splits(n, q, r) /\ Lengths(n, b, a) /\ r \in 0..63 /\ IsBlock(m)
  BY <1>1, <1>2, <1>3
<1>6. Append(BlocksBefore(d, m, r), LengthBlock(m, r, b, a)) = H!Standard(n)
  <2>1. Append(BlocksBefore(Full(n), Held(n), r), LengthBlock(Held(n), r, b, a)) = H!Standard(n)
    <3>1. CASE r \in 0..55
      BY <1>a, <3>1, RoomInTheBlock, Zenon
    <3>2. CASE r \in 56..63
      BY <1>a, <3>2, NoRoomInTheBlock, Zenon
    <3> QED BY <1>a, <3>1, <3>2
  <2> QED BY <1>3, <2>1
<1>7. s = Asked(Ctx(a, b, 0, LengthBlock(m, r, b, a), H!Standard(n), No, No))
  <2>1. H!SHA1PadMessage(Ctx(a, b, r, m, d, No, No))
          = Ctx(a, b, 0, LengthBlock(m, r, b, a), Append(BlocksBefore(d, m, r), LengthBlock(m, r, b, a)), No, No)
    <3>1. PICK no : no = No
      OBVIOUS
    <3>2. H!SHA1PadMessage(Ctx(a, b, r, m, d, no, no))
            = Ctx(a, b, 0, LengthBlock(m, r, b, a), Append(BlocksBefore(d, m, r), LengthBlock(m, r, b, a)), no, no)
      <4>1. IsBlock(m) /\ InBlock(r)
        BY <1>a DEF InBlock
      <4> QED BY <4>1, PadFields
    <3> QED BY <3>1, <3>2
  <2> QED BY <1>4, <1>5, <1>6, <2>1
<1>8. Fielded(s) /\ s.Message_Digest = H!Standard(n) /\ s.Computed = Yes /\ s.Corrupted = No
  <2>1. PICK l, g : l = LengthBlock(m, r, b, a) /\ g = H!Standard(n)
    OBVIOUS
  <2>2. PICK no, z, c : no = No /\ z = 0 /\ c = Asked(Ctx(a, b, z, l, g, no, no))
    OBVIOUS
  <2>3. s = c
    BY <1>7, <2>1, <2>2
  <2>4. Fielded(c) /\ c.Message_Digest = g /\ c.Computed = Yes /\ c.Corrupted = no
    <3>1. /\ Fielded(Asked(Ctx(a, b, z, l, g, no, no))) /\ Asked(Ctx(a, b, z, l, g, no, no)).Message_Digest = g
          /\ Asked(Ctx(a, b, z, l, g, no, no)).Computed = Yes /\ Asked(Ctx(a, b, z, l, g, no, no)).Corrupted = no
      BY AskedFields
    <3> QED BY <2>2, <3>1
  <2> QED BY <2>1, <2>2, <2>3, <2>4
<1> QED BY <1>8 DEF No, Yes

\* The digest of a message in any parts, of any lengths.
LEMMA Digests ==
  ASSUME NEW lengths \in Seq(Nat)
  PROVE  H!DigestOf(lengths)
<1>1. PICK n \in Nat : n = H!Octets(lengths, Len(lengths))
  <2>1. Len(lengths) \in 0..Len(lengths)
    OBVIOUS
  <2> QED BY <2>1, OctetsOf
<1>2. H!Inputs(lengths) = After(n)
  BY <1>1, InputsOf
<1>3. PICK y \in Nat : y = Low * High
  BY Widths
<1>4. PICK c : c = H!SHA1Result(After(n))
  OBVIOUS
<1>5. CASE 8 * n < y
  <2>1. Fielded(c) /\ c.Message_Digest = H!Standard(n) /\ c.Computed = TRUE /\ c.Corrupted = FALSE
    BY <1>3, <1>4, <1>5, ResultOf
  <2>2. H!SHA1Result(c) = c
    BY <2>1 DEF H!SHA1Result
  <2>3. H!SHA1Input(c, n + 1, 1).Corrupted
    <3>1. H!SHA1Input(c, n + 1, 1) = [c EXCEPT !.Corrupted = TRUE]
      BY <2>1 DEF H!SHA1Input
    <3> QED BY <2>1, <3>1 DEF Fielded, Fields
  <2>4. ~(8 * n >= Low * High)
    BY <1>3, <1>5
  <2> QED BY <1>1, <1>2, <1>4, <2>1, <2>2, <2>3, <2>4 DEF H!DigestOf
<1>6. CASE ~(8 * n < y)
  <2>1. After(n).Corrupted = TRUE
    BY <1>3, <1>6, AfterFields
  <2>2. c = After(n)
    BY <1>4, <2>1 DEF H!SHA1Result
  <2>3. 8 * n >= Low * High
    BY <1>3, <1>6
  <2> QED BY <1>1, <1>2, <1>4, <2>1, <2>2, <2>3 DEF H!DigestOf
<1> QED BY <1>5, <1>6

-----------------------------------------------------------------------------
(* Commands: the rows ps prints.                                           *)

Child(thread, i, j) == thread[j].pid = thread[i].pid /\ thread[j].threadNum > 0
Parent(thread, i)   == thread[i].threadNum = 0

ChildSteps(thread, i, n, u) ==
  u = [j \in 0..n |-> IF j = 0 THEN <<>> ELSE IF Child(thread, i, j) THEN Append(u[j - 1], j) ELSE u[j - 1]]

\* s has each number of the set once, in their order.
EachOnce(s, A, n) ==
  /\ s \in Seq(1..n)
  /\ \A x \in A : \E r \in 1..Len(s) : s[r] = x
  /\ \A r \in 1..Len(s) : s[r] \in A
  /\ \A q, r \in 1..Len(s) : s[q] = s[r] => q = r

LEMMA ChildStepsExist ==
  ASSUME NEW thread, NEW i, NEW n \in Nat
  PROVE  \E u : ChildSteps(thread, i, n, u)
<1> DEFINE W == Seq(1..n)
           F == [j \in 1..n |-> [s \in W |-> IF Child(thread, i, j) THEN Append(s, j) ELSE s]]
<1>1. F \in [1..n -> [W -> W]]
  <2>1. \A s \in W : \A j \in 1..n : Append(s, j) \in W
    OBVIOUS
  <2> HIDE DEF W
  <2> QED BY <2>1
<1>2. <<>> \in W
  BY EmptySeq
<1>3. PICK g : Follows(F, <<>>, W, n, g)
  <2> HIDE DEF F, W
  <2> QED BY <1>1, <1>2, Recursion
<1>4. g \in [0..n -> W] /\ g[0] = <<>> /\ \A j \in 1..n : g[j] = F[j][g[j - 1]]
  BY <1>3 DEF Follows
<1>5. ASSUME NEW j \in 0..n
      PROVE  g[j] = IF j = 0 THEN <<>> ELSE IF Child(thread, i, j) THEN Append(g[j - 1], j) ELSE g[j - 1]
  <2>1. CASE j = 0
    BY <1>4, <2>1
  <2>2. CASE j # 0
    <3>1. j \in 1..n /\ j - 1 \in 0..n /\ g[j - 1] \in W
      BY <1>4, <2>2
    <3> HIDE DEF W
    <3> QED BY <1>4, <2>2, <3>1
  <2> QED BY <2>1, <2>2
<1>6. ChildSteps(thread, i, n, g)
  <2>1. g = [j \in 0..n |-> g[j]]
    BY <1>4
  <2> HIDE DEF F, W
  <2> QED BY <1>5, <2>1 DEF ChildSteps
<1> QED BY <1>6

LEMMA OneMoreOnce ==
  ASSUME NEW n \in Nat, NEW s, NEW A, EachOnce(s, A, n), NEW j \in 1..n, j \notin A
  PROVE  EachOnce(Append(s, j), A \cup {j}, n)
<1>1. PICK t : t = Append(s, j)
  OBVIOUS
<1>2. /\ s \in Seq(1..n) /\ t \in Seq(1..n) /\ Len(t) = Len(s) + 1 /\ t[Len(s) + 1] = j /\ Len(s) \in Nat
      /\ \A r \in 1..Len(s) : t[r] = s[r]
  BY <1>1 DEF EachOnce
<1>3. ASSUME NEW x \in A \cup {j} PROVE \E r \in 1..Len(t) : t[r] = x
  <2>1. CASE x = j
    <3>1. Len(s) + 1 \in 1..Len(t)
      BY <1>2
    <3> QED BY <1>2, <2>1, <3>1
  <2>2. CASE x \in A
    <3>1. PICK r \in 1..Len(s) : s[r] = x
      BY <2>2 DEF EachOnce
    <3> QED BY <1>2, <3>1
  <2> QED BY <2>1, <2>2
<1>4. ASSUME NEW r \in 1..Len(t) PROVE t[r] \in A \cup {j}
  <2>1. CASE r = Len(s) + 1
    BY <1>2, <2>1
  <2>2. CASE r # Len(s) + 1
    <3>1. r \in 1..Len(s)
      BY <1>2, <2>2
    <3> QED BY <1>2, <3>1 DEF EachOnce
  <2> QED BY <2>1, <2>2
<1>5. ASSUME NEW q \in 1..Len(t), NEW r \in 1..Len(t), t[q] = t[r] PROVE q = r
  <2>1. \A k \in 1..Len(s) : t[k] # j
    BY <1>2 DEF EachOnce
  <2>2. CASE q \in 1..Len(s) /\ r \in 1..Len(s)
    BY <1>2, <1>5, <2>2 DEF EachOnce
  <2>3. CASE q = Len(s) + 1 \/ r = Len(s) + 1
    <3>1. \A k \in 1..Len(t) : t[k] = j => k = Len(s) + 1
      BY <1>2, <2>1
    <3> QED BY <1>2, <1>5, <2>3, <3>1
  <2> QED BY <1>2, <2>2, <2>3
<1> QED BY <1>1, <1>2, <1>3, <1>4, <1>5 DEF EachOnce

LEMMA ChildrenListed ==
  ASSUME NEW thread, NEW i, NEW n \in Nat, Len(thread) = n
  PROVE  EachOnce(C!Children(thread, i), {j \in 1..n : Child(thread, i, j)}, n)
<1> DEFINE v == CHOOSE u : ChildSteps(thread, i, n, u)
<1>1. ChildSteps(thread, i, n, v)
  BY ChildStepsExist
<1>2. C!Children(thread, i) = v[n]
  BY DEF C!Children, ChildSteps, Child
<1> HIDE DEF v
<1>3. PICK u : u = v
  OBVIOUS
<1>4. /\ u[0] = <<>>
      /\ \A j \in 1..n : u[j] = IF Child(thread, i, j) THEN Append(u[j - 1], j) ELSE u[j - 1]
  <2>1. u = [j \in 0..n |-> IF j = 0 THEN <<>> ELSE IF Child(thread, i, j) THEN Append(u[j - 1], j) ELSE u[j - 1]]
    BY <1>1, <1>3 DEF ChildSteps
  <2>2. 0 \in 0..n /\ \A j \in 1..n : j \in 0..n /\ j # 0
    OBVIOUS
  <2>3. u[0] = <<>>
    BY <2>1, <2>2
  <2>4. \A j \in 1..n : u[j] = IF Child(thread, i, j) THEN Append(u[j - 1], j) ELSE u[j - 1]
    BY <2>1, <2>2
  <2> QED BY <2>3, <2>4
<1> DEFINE A(k) == {j \in 1..k : Child(thread, i, j)}
           P == {k \in 0..n : EachOnce(u[k], A(k), n)}
<1>5. 0 \in P
  <2>1. A(0) = {} /\ <<>> \in Seq(1..n) /\ Len(<<>>) = 0
    OBVIOUS
  <2>2. EachOnce(<<>>, A(0), n)
    BY <2>1 DEF EachOnce
  <2> QED BY <1>4, <2>2
<1>6. ASSUME NEW k \in 1..n, k - 1 \in P PROVE k \in P
  <2>1. EachOnce(u[k - 1], A(k - 1), n) /\ k \notin A(k - 1)
    BY <1>6
  <2>2. A(k) = IF Child(thread, i, k) THEN A(k - 1) \cup {k} ELSE A(k - 1)
    OBVIOUS
  <2> HIDE DEF A
  <2>3. EachOnce(u[k], A(k), n)
    BY <1>4, <2>1, <2>2, OneMoreOnce
  <2> QED BY <2>3
<1>7. \A k \in 0..n : k \in P
  <2> HIDE DEF P
  <2> QED BY <1>5, <1>6, Upwards
<1> QED BY <1>2, <1>3, <1>7

LEMMA BothOnce ==
  ASSUME NEW n \in Nat, NEW s, NEW A, EachOnce(s, A, n), NEW t, NEW B, EachOnce(t, B, n), A \cap B = {}
  PROVE  EachOnce(s \o t, A \cup B, n)
<1>1. PICK u : u = s \o t
  OBVIOUS
<1>2. PICK l \in Nat, m \in Nat : l = Len(s) /\ m = Len(t)
  BY DEF EachOnce
<1>3. /\ u \in Seq(1..n) /\ Len(u) = l + m
      /\ \A r \in 1..l : u[r] = s[r] /\ s[r] \in A
      /\ \A r \in 1..m : u[l + r] = t[r] /\ t[r] \in B
  BY <1>1, <1>2 DEF EachOnce
<1>4. ASSUME NEW r \in 1..(l + m) PROVE r \in 1..l \/ (r - l \in 1..m /\ l + (r - l) = r)
  OBVIOUS
<1>5. ASSUME NEW x \in A \cup B PROVE \E r \in 1..Len(u) : u[r] = x
  <2>1. CASE x \in A
    <3>1. PICK r \in 1..l : s[r] = x
      BY <1>2, <2>1 DEF EachOnce
    <3>2. r \in 1..Len(u)
      BY <1>3
    <3> QED BY <1>3, <3>1, <3>2
  <2>2. CASE x \in B
    <3>1. PICK r \in 1..m : t[r] = x
      BY <1>2, <2>2 DEF EachOnce
    <3>2. l + r \in 1..Len(u)
      BY <1>3
    <3> QED BY <1>3, <3>1, <3>2
  <2> QED BY <2>1, <2>2
<1>6. ASSUME NEW r \in 1..Len(u) PROVE u[r] \in A \cup B
  <2>1. CASE r \in 1..l
    BY <1>3, <2>1
  <2>2. CASE r - l \in 1..m /\ l + (r - l) = r
    BY <1>3, <2>2
  <2> QED BY <1>3, <1>4, <2>1, <2>2
<1>7. ASSUME NEW q \in 1..Len(u), NEW r \in 1..Len(u), u[q] = u[r] PROVE q = r
  <2>1. CASE q \in 1..l /\ r \in 1..l
    BY <1>2, <1>3, <1>7, <2>1 DEF EachOnce
  <2>2. CASE ~(q \in 1..l) /\ ~(r \in 1..l)
    <3>1. q - l \in 1..m /\ l + (q - l) = q /\ r - l \in 1..m /\ l + (r - l) = r
      BY <1>3, <1>4, <2>2
    <3>2. t[q - l] = t[r - l]
      BY <1>3, <1>7, <3>1
    <3>3. q - l = r - l
      BY <1>2, <3>1, <3>2 DEF EachOnce
    <3> QED BY <3>3
  <2>3. CASE q \in 1..l /\ ~(r \in 1..l)
    <3>1. r - l \in 1..m /\ l + (r - l) = r
      BY <1>3, <1>4, <2>3
    <3>2. u[q] \in A /\ u[r] \in B
      BY <1>3, <2>3, <3>1
    <3> QED BY <1>7, <3>2
  <2>4. CASE ~(q \in 1..l) /\ r \in 1..l
    <3>1. q - l \in 1..m /\ l + (q - l) = q
      BY <1>3, <1>4, <2>4
    <3>2. u[q] \in B /\ u[r] \in A
      BY <1>3, <2>4, <3>1
    <3> QED BY <1>7, <3>2
  <2> QED BY <2>1, <2>2, <2>3, <2>4
<1> QED BY <1>1, <1>3, <1>5, <1>6, <1>7 DEF EachOnce

RowSteps(thread, n, u) ==
  u = [i \in 0..n |-> IF i = 0 THEN <<>>
                      ELSE IF Parent(thread, i) THEN u[i - 1] \o <<i>> \o C!Children(thread, i) ELSE u[i - 1]]

LEMMA RowStepsExist ==
  ASSUME NEW thread, NEW n \in Nat, Len(thread) = n
  PROVE  \E u : RowSteps(thread, n, u)
<1> DEFINE W == Seq(1..n)
           F == [i \in 1..n |-> [s \in W |-> IF Parent(thread, i) THEN s \o <<i>> \o C!Children(thread, i) ELSE s]]
<1>1. F \in [1..n -> [W -> W]]
  <2>1. \A s \in W : \A i \in 1..n : s \o <<i>> \o C!Children(thread, i) \in W
    <3>1. ASSUME NEW s \in W, NEW i \in 1..n PROVE s \o <<i>> \o C!Children(thread, i) \in W
      <4>1. C!Children(thread, i) \in W
        BY ChildrenListed DEF EachOnce
      <4>2. s \o <<i>> \in W
        OBVIOUS
      <4> HIDE DEF W
      <4>3. \A a, b \in W : a \o b \in W
        BY DEF W
      <4> QED BY <4>1, <4>2, <4>3
    <3> QED BY <3>1
  <2> HIDE DEF W
  <2> QED BY <2>1
<1>2. <<>> \in W
  BY EmptySeq
<1>3. PICK g : Follows(F, <<>>, W, n, g)
  <2> HIDE DEF F, W
  <2> QED BY <1>1, <1>2, Recursion
<1>4. g \in [0..n -> W] /\ g[0] = <<>> /\ \A i \in 1..n : g[i] = F[i][g[i - 1]]
  BY <1>3 DEF Follows
<1>5. ASSUME NEW i \in 0..n
      PROVE  g[i] = IF i = 0 THEN <<>>
                    ELSE IF Parent(thread, i) THEN g[i - 1] \o <<i>> \o C!Children(thread, i) ELSE g[i - 1]
  <2>1. CASE i = 0
    BY <1>4, <2>1
  <2>2. CASE i # 0
    <3>1. i \in 1..n /\ i - 1 \in 0..n /\ g[i - 1] \in W
      BY <1>4, <2>2
    <3> HIDE DEF W
    <3> QED BY <1>4, <2>2, <3>1
  <2> QED BY <2>1, <2>2
<1>6. RowSteps(thread, n, g)
  <2>1. g = [i \in 0..n |-> g[i]]
    BY <1>4
  <2> HIDE DEF F, W
  <2> QED BY <1>5, <2>1 DEF RowSteps
<1> QED BY <1>6

\* The rows of the first i parents.
Shown(thread, n, i) ==
  {x \in 1..n : \E p \in 1..i : Parent(thread, p) /\ thread[x].pid = thread[p].pid /\ (x = p \/ thread[x].threadNum > 0)}

\* Behind its parent and before the next one.
Behind(thread, s) ==
  \A r \in 1..Len(s) : \A q \in 1..r :
    thread[s[q]].threadNum = 0 /\ (\A k \in (q + 1)..r : thread[s[k]].threadNum > 0)
      => thread[s[q]].pid = thread[s[r]].pid

Processlist == Seq([pid : Nat, threadNum : Nat])
OneRowEach(thread) == \A i, j \in DOMAIN thread : thread[i] = thread[j] => i = j

LEMMA RowOf ==
  ASSUME NEW thread \in Processlist, NEW i \in 1..Len(thread)
  PROVE  thread[i].pid \in Nat /\ thread[i].threadNum \in Nat /\ thread[i] = [pid |-> thread[i].pid, threadNum |-> thread[i].threadNum]
<1>1. thread[i] \in [pid : Nat, threadNum : Nat]
  BY ElementOfSeq DEF Processlist
<1> QED BY <1>1

LEMMA FamilyBehind ==
  ASSUME NEW thread, NEW n \in Nat, thread \in Processlist, Len(thread) = n, NEW i \in 1..n, Parent(thread, i),
         NEW s \in Seq(1..n), Behind(thread, s), NEW c \in Seq(1..n), \A r \in 1..Len(c) : Child(thread, i, c[r])
  PROVE  Behind(thread, s \o <<i>> \o c)
<1>1. PICK t : t = s \o <<i>> \o c
  OBVIOUS
<1>2. PICK l \in Nat, m \in Nat : l = Len(s) /\ m = Len(c)
  OBVIOUS
<1>3. /\ Len(t) = l + 1 + m /\ t[l + 1] = i
      /\ \A r \in 1..l : t[r] = s[r]
      /\ \A r \in 1..m : t[l + 1 + r] = c[r]
  <2>1. PICK e : e = s \o <<i>>
    OBVIOUS
  <2>2. e \in Seq(1..n) /\ Len(e) = l + 1 /\ e[l + 1] = i /\ \A r \in 1..l : e[r] = s[r]
    BY <1>2, <2>1
  <2> QED BY <1>1, <1>2, <2>1, <2>2
<1>4. ASSUME NEW r \in 1..Len(t), NEW q \in 1..r, thread[t[q]].threadNum = 0,
             \A k \in (q + 1)..r : thread[t[k]].threadNum > 0
      PROVE  thread[t[q]].pid = thread[t[r]].pid
  <2>1. CASE r <= l
    <3>1. r \in 1..l /\ q \in 1..l /\ \A k \in (q + 1)..r : k \in 1..l
      BY <2>1
    <3>2. t[r] = s[r] /\ t[q] = s[q] /\ \A k \in (q + 1)..r : t[k] = s[k]
      BY <1>3, <3>1
    <3> QED BY <1>2, <1>4, <3>1, <3>2 DEF Behind
  <2>2. CASE r > l
    <3>1. thread[t[r]].pid = thread[i].pid
      <4>1. CASE r = l + 1
        BY <1>3, <4>1
      <4>2. CASE r # l + 1
        <5>1. r - l - 1 \in 1..m /\ l + 1 + (r - l - 1) = r
          BY <1>3, <2>2, <4>2
        <5>2. t[l + 1 + (r - l - 1)] = c[r - l - 1]
          BY <1>3, <5>1
        <5>3. Child(thread, i, c[r - l - 1])
          BY <1>2, <5>1
        <5> QED BY <5>1, <5>2, <5>3 DEF Child
      <4> QED BY <4>1, <4>2
    <3>2. ~(q <= l)
      <4> SUFFICES ASSUME q <= l PROVE FALSE
        OBVIOUS
      <4>1. l + 1 \in (q + 1)..r
        BY <2>2
      <4>2. thread[t[l + 1]].threadNum > 0
        BY <1>4, <4>1
      <4>3. thread[i].threadNum = 0
        BY DEF Parent
      <4> QED BY <1>3, <4>2, <4>3
    <3>3. ~(q > l + 1)
      <4> SUFFICES ASSUME q > l + 1 PROVE FALSE
        OBVIOUS
      <4>1. q - l - 1 \in 1..m /\ l + 1 + (q - l - 1) = q
        BY <1>3
      <4>2. thread[t[q]].threadNum > 0
        <5>1. PICK j \in 1..m : j = q - l - 1 /\ l + 1 + j = q
          BY <4>1
        <5> QED BY <1>2, <1>3, <5>1, ZenonT(40) DEF Child
      <4> QED BY <1>4, <4>2
    <3>4. q = l + 1
      BY <3>2, <3>3
    <3> QED BY <1>3, <3>1, <3>4
  <2> QED BY <1>3, <2>1, <2>2
<1>5. Behind(thread, t)
  BY <1>4 DEF Behind
<1> QED BY <1>1, <1>5

\* What ps prints.
LEMMA RowsShown ==
  ASSUME NEW thread \in Processlist, OneRowEach(thread), NEW n \in Nat, Len(thread) = n
  PROVE  /\ EachOnce(C!PrintProcessInfo(thread), Shown(thread, n, n), n)
         /\ Behind(thread, C!PrintProcessInfo(thread))
<1> DEFINE v == CHOOSE u : RowSteps(thread, n, u)
<1>1. RowSteps(thread, n, v)
  BY RowStepsExist
<1>2. C!PrintProcessInfo(thread) = v[n]
  BY DEF C!PrintProcessInfo, RowSteps, Parent
<1> HIDE DEF v
<1>3. PICK u : u = v
  OBVIOUS
<1>4. /\ u[0] = <<>>
      /\ \A i \in 1..n : u[i] = IF Parent(thread, i) THEN u[i - 1] \o <<i>> \o C!Children(thread, i) ELSE u[i - 1]
  <2>1. u = [i \in 0..n |-> IF i = 0 THEN <<>>
                ELSE IF Parent(thread, i) THEN u[i - 1] \o <<i>> \o C!Children(thread, i) ELSE u[i - 1]]
    BY <1>1, <1>3 DEF RowSteps
  <2>2. 0 \in 0..n /\ \A j \in 1..n : j \in 0..n /\ j # 0
    OBVIOUS
  <2>3. u[0] = <<>>
    BY <2>1, <2>2
  <2>4. \A i \in 1..n : u[i] = IF Parent(thread, i) THEN u[i - 1] \o <<i>> \o C!Children(thread, i) ELSE u[i - 1]
    BY <2>1, <2>2
  <2> QED BY <2>3, <2>4
<1> DEFINE P == {k \in 0..n : EachOnce(u[k], Shown(thread, n, k), n) /\ Behind(thread, u[k])}
<1>5. 0 \in P
  <2>1. Shown(thread, n, 0) = {} /\ <<>> \in Seq(1..n) /\ Len(<<>>) = 0
    BY DEF Shown
  <2>2. EachOnce(<<>>, Shown(thread, n, 0), n)
    BY <2>1 DEF EachOnce
  <2>3. Behind(thread, <<>>)
    BY <2>1 DEF Behind
  <2> QED BY <1>4, <2>2, <2>3
<1>6. ASSUME NEW k \in 1..n, k - 1 \in P PROVE k \in P
  <2>1. EachOnce(u[k - 1], Shown(thread, n, k - 1), n) /\ Behind(thread, u[k - 1])
    BY <1>6
  <2> HIDE DEF P
  <2>2. CASE ~Parent(thread, k)
    <3>1. u[k] = u[k - 1]
      BY <1>4, <2>2
    <3>2. Shown(thread, n, k) = Shown(thread, n, k - 1)
      <4>1. \A p \in 1..k : Parent(thread, p) => p \in 1..(k - 1)
        BY <2>2
      <4> QED BY <4>1 DEF Shown
    <3> QED BY <2>1, <3>1, <3>2 DEF P
  <2>3. CASE Parent(thread, k)
    <3>1. PICK s, c, A, B : /\ s = u[k - 1] /\ c = C!Children(thread, k)
                            /\ A = Shown(thread, n, k - 1) /\ B = {j \in 1..n : Child(thread, k, j)}
      OBVIOUS
    <3>2. u[k] = s \o <<k>> \o c
      BY <1>4, <2>3, <3>1
    <3>3. EachOnce(s, A, n) /\ EachOnce(c, B, n)
      BY <2>1, <3>1, ChildrenListed
    <3>4. k \notin A /\ A \cap B = {} /\ k \notin B
      <4>1. ASSUME NEW p \in 1..(k - 1), Parent(thread, p) PROVE thread[p].pid # thread[k].pid
        <5>1. thread[p] # thread[k]
          BY DEF OneRowEach, Processlist
        <5>2. p \in 1..Len(thread) /\ k \in 1..Len(thread)
          OBVIOUS
        <5>3. thread[p].threadNum = thread[k].threadNum
          BY <2>3, <4>1 DEF Parent
        <5> QED BY <5>1, <5>2, <5>3, RowOf
      <4>2. thread[k].threadNum = 0
        BY <2>3 DEF Parent
      <4> QED BY <3>1, <4>1, <4>2 DEF Shown, Child
    <3>5. Shown(thread, n, k) = (A \cup {k}) \cup B
      <4>1. ASSUME NEW x \in 1..n
            PROVE  x \in Shown(thread, n, k) <=> x \in Shown(thread, n, k - 1) \/ x = k \/ Child(thread, k, x)
        <5>1. \A p \in 1..k : p = k \/ p \in 1..(k - 1)
          OBVIOUS
        <5>2. 1..(k - 1) \subseteq 1..k /\ k \in 1..k
          OBVIOUS
        <5> QED BY <2>3, <5>1, <5>2 DEF Shown, Child
      <4> QED BY <3>1, <4>1 DEF Shown
    <3>6. EachOnce(s \o <<k>>, A \cup {k}, n)
      <4>1. s \o <<k>> = Append(s, k)
        BY <3>3 DEF EachOnce
      <4>2. EachOnce(Append(s, k), A \cup {k}, n)
        BY <3>3, <3>4, OneMoreOnce
      <4> QED BY <4>1, <4>2
    <3>7. EachOnce(u[k], Shown(thread, n, k), n)
      <4>1. (A \cup {k}) \cap B = {}
        BY <3>4
      <4>2. EachOnce((s \o <<k>>) \o c, (A \cup {k}) \cup B, n)
        BY <3>3, <3>6, <4>1, BothOnce
      <4> QED BY <3>2, <3>5, <4>2
    <3>8. Behind(thread, u[k])
      <4>1. s \in Seq(1..n) /\ c \in Seq(1..n) /\ (\A r \in 1..Len(c) : Child(thread, k, c[r])) /\ Behind(thread, s)
        BY <2>1, <3>1, <3>3 DEF EachOnce
      <4> QED BY <2>3, <3>2, <4>1, FamilyBehind
    <3> QED BY <3>7, <3>8 DEF P
  <2> QED BY <2>2, <2>3
<1>7. \A k \in 0..n : k \in P
  <2> HIDE DEF P
  <2> QED BY <1>5, <1>6, Upwards
<1> QED BY <1>2, <1>3, <1>7

LEMMA SameCardinality == ASSUME NEW A PROVE C!Cardinality(A) = Cardinality(A)
BY DEF C!Cardinality, Cardinality

LEMMA ShowsThreads ==
  ASSUME NEW thread \in Processlist, OneRowEach(thread)
  PROVE  C!ShownOnce(thread)
<1>1. PICK n \in Nat : n = Len(thread) /\ DOMAIN thread = 1..n
  BY DEF Processlist
<1>2. PICK rows : rows = C!PrintProcessInfo(thread)
  OBVIOUS
<1>3. EachOnce(rows, Shown(thread, n, n), n) /\ Behind(thread, rows)
  BY <1>1, <1>2, RowsShown
<1>4. rows \in Seq(1..n) /\ DOMAIN rows = 1..Len(rows)
  BY <1>3 DEF EachOnce
<1>5. ASSUME NEW i \in 1..n
      PROVE  Cardinality({r \in DOMAIN rows : rows[r] = i})
               = IF {j \in 1..n : thread[j].pid = thread[i].pid /\ thread[j].threadNum = 0} = {} THEN 0 ELSE 1
  <2>1. thread[i].threadNum \in Nat
    BY <1>1, RowOf
  <2>2. i \in Shown(thread, n, n) <=> {j \in 1..n : thread[j].pid = thread[i].pid /\ thread[j].threadNum = 0} # {}
    BY <2>1 DEF Shown, Parent
  <2>3. CASE i \in Shown(thread, n, n)
    <3>1. PICK r \in 1..Len(rows) : rows[r] = i
      BY <1>3, <2>3 DEF EachOnce
    <3>2. {q \in DOMAIN rows : rows[q] = i} = {r}
      BY <1>3, <1>4, <3>1 DEF EachOnce
    <3> QED BY <2>2, <2>3, <3>2, FS_Singleton
  <2>4. CASE i \notin Shown(thread, n, n)
    <3>1. {q \in DOMAIN rows : rows[q] = i} = {}
      BY <1>3, <1>4, <2>4 DEF EachOnce
    <3> QED BY <2>2, <2>4, <3>1, FS_EmptySet
  <2> QED BY <2>3, <2>4
<1>6. \A r \in DOMAIN rows : \A q \in 1..r :
        thread[rows[q]].threadNum = 0 /\ (\A k \in (q + 1)..r : thread[rows[k]].threadNum > 0)
          => thread[rows[q]].pid = thread[rows[r]].pid
  BY <1>3, <1>4 DEF Behind
<1>7. \A i \in DOMAIN thread :
        C!Cardinality({r \in DOMAIN rows : rows[r] = i})
          = IF {j \in DOMAIN thread : thread[j].pid = thread[i].pid /\ thread[j].threadNum = 0} = {} THEN 0 ELSE 1
  BY <1>1, <1>5, SameCardinality
<1> QED BY <1>2, <1>6, <1>7 DEF C!ShownOnce

-----------------------------------------------------------------------------
(* Commands: the argument of HardReset.                                    *)

LEMMA WithBits ==
  ASSUME NEW x \in {0, 1}, NEW y \in {0, 2}, NEW z \in {0, 4}
  PROVE  /\ C!WithBit(x + y + z, 1) = 1 + y + z
         /\ C!WithBit(x + y + z, 2) = x + 2 + z
         /\ C!WithBit(x + y + z, 4) = x + y + 4
BY DEF C!WithBit

\* The bit of a letter, if it is among the first k.
Among(argument, l, k) == \E j \in 1..k : argument[j] = l
BitOf(argument, l, bit, k) == IF Among(argument, l, k) THEN bit ELSE 0
BitsOf(argument, k) == BitOf(argument, "i", 1, k) + BitOf(argument, "t", 2, k) + BitOf(argument, "h", 4, k)

Known(argument, n) == \A k \in 1..n : argument[k] \in {"i", "t", "h", "blank"}

Letter(argument, method, k) ==
  IF argument[k] = C!Blank THEN method ELSE C!WithBit(method, C!Method[argument[k]])

LEMMA NextLetter ==
  ASSUME NEW argument, NEW n \in Nat, Known(argument, n), NEW k \in 1..n
  PROVE  BitsOf(argument, k) = Letter(argument, BitsOf(argument, k - 1), k)
<1>1. ASSUME NEW l PROVE Among(argument, l, k) <=> Among(argument, l, k - 1) \/ argument[k] = l
  <2>1. \A j \in 1..k : j = k \/ j \in 1..(k - 1)
    OBVIOUS
  <2>2. k \in 1..k /\ 1..(k - 1) \subseteq 1..k
    OBVIOUS
  <2> QED BY <2>1, <2>2 DEF Among
<1>2. PICK x \in {0, 1}, y \in {0, 2}, z \in {0, 4} :
        /\ x = BitOf(argument, "i", 1, k - 1) /\ y = BitOf(argument, "t", 2, k - 1) /\ z = BitOf(argument, "h", 4, k - 1)
        /\ BitsOf(argument, k - 1) = x + y + z
  BY DEF BitsOf, BitOf
<1>3. argument[k] \in {"i", "t", "h", "blank"}
  BY DEF Known
<1>4. CASE argument[k] = "blank"
  <2>1. /\ BitOf(argument, "i", 1, k) = x /\ BitOf(argument, "t", 2, k) = y /\ BitOf(argument, "h", 4, k) = z
    BY <1>1, <1>2, <1>4 DEF BitOf
  <2> QED BY <1>2, <1>4, <2>1 DEF Letter, C!Blank, BitsOf
<1>5. CASE argument[k] = "i"
  <2>1. /\ BitOf(argument, "i", 1, k) = 1 /\ BitOf(argument, "t", 2, k) = y /\ BitOf(argument, "h", 4, k) = z
    BY <1>1, <1>2, <1>5 DEF BitOf
  <2>2. Letter(argument, x + y + z, k) = C!WithBit(x + y + z, 1)
    BY <1>5 DEF Letter, C!Blank, C!Method
  <2> QED BY <1>2, <2>1, <2>2, WithBits DEF BitsOf
<1>6. CASE argument[k] = "t"
  <2>1. /\ BitOf(argument, "i", 1, k) = x /\ BitOf(argument, "t", 2, k) = 2 /\ BitOf(argument, "h", 4, k) = z
    BY <1>1, <1>2, <1>6 DEF BitOf
  <2>2. Letter(argument, x + y + z, k) = C!WithBit(x + y + z, 2)
    BY <1>6 DEF Letter, C!Blank, C!Method
  <2> QED BY <1>2, <2>1, <2>2, WithBits DEF BitsOf
<1>7. CASE argument[k] = "h"
  <2>1. /\ BitOf(argument, "i", 1, k) = x /\ BitOf(argument, "t", 2, k) = y /\ BitOf(argument, "h", 4, k) = 4
    BY <1>1, <1>2, <1>7 DEF BitOf
  <2>2. Letter(argument, x + y + z, k) = C!WithBit(x + y + z, 4)
    BY <1>7 DEF Letter, C!Blank, C!Method
  <2> QED BY <1>2, <2>1, <2>2, WithBits DEF BitsOf
<1> QED BY <1>3, <1>4, <1>5, <1>6, <1>7

LetterSteps(argument, n, u) == u = [k \in 0..n |-> IF k = 0 THEN 0 ELSE Letter(argument, u[k - 1], k)]

LEMMA AllLetters ==
  ASSUME NEW argument, NEW n \in Nat, Known(argument, n)
  PROVE  /\ \E u : LetterSteps(argument, n, u)
         /\ \A u : LetterSteps(argument, n, u) => u[n] = BitsOf(argument, n)
<1> DEFINE g == [k \in 0..n |-> BitsOf(argument, k)]
<1>1. g[0] = 0
  <2>1. BitsOf(argument, 0) = 0
    BY DEF BitsOf, BitOf, Among
  <2> QED BY <2>1
<1>2. ASSUME NEW k \in 1..n PROVE g[k] = Letter(argument, g[k - 1], k)
  <2>1. k \in 0..n /\ k - 1 \in 0..n
    OBVIOUS
  <2> QED BY <2>1, NextLetter
<1>3. LetterSteps(argument, n, g)
  <2>1. g = [k \in 0..n |-> g[k]]
    OBVIOUS
  <2> HIDE DEF g
  <2>2. \A k \in 0..n : g[k] = IF k = 0 THEN 0 ELSE Letter(argument, g[k - 1], k)
    <3>1. \A k \in 0..n : k = 0 \/ k \in 1..n
      OBVIOUS
    <3>2. \A k \in 1..n : k # 0
      OBVIOUS
    <3> QED BY <1>1, <1>2, <3>1, <3>2
  <2> QED BY <2>1, <2>2 DEF LetterSteps
<1>4. ASSUME NEW u, LetterSteps(argument, n, u) PROVE u[n] = BitsOf(argument, n)
  <2>1. u[0] = 0 /\ \A k \in 1..n : u[k] = Letter(argument, u[k - 1], k)
    <3>1. u = [k \in 0..n |-> IF k = 0 THEN 0 ELSE Letter(argument, u[k - 1], k)]
      BY <1>4 DEF LetterSteps
    <3>2. 0 \in 0..n /\ \A j \in 1..n : j \in 0..n /\ j # 0
      OBVIOUS
    <3>3. u[0] = 0
      BY <3>1, <3>2
    <3>4. \A k \in 1..n : u[k] = Letter(argument, u[k - 1], k)
      BY <3>1, <3>2
    <3> QED BY <3>3, <3>4
  <2>2. g[n] = BitsOf(argument, n)
    OBVIOUS
  <2> HIDE DEF g
  <2>3. \A k \in 0..n : u[k] = g[k]
    BY <1>1, <1>2, <2>1, SameSteps
  <2> QED BY <2>2, <2>3
<1> QED BY <1>3, <1>4

LEMMA AsksForThem ==
  ASSUME NEW argument \in Seq(STRING)
  PROVE  C!AsksForTheNamed(argument)
<1>1. PICK n \in Nat : n = Len(argument) /\ DOMAIN argument = 1..n
  OBVIOUS
<1>2. DOMAIN C!Method = {"i", "t", "h"} /\ C!Method.i = 1 /\ C!Method["i"] = 1 /\ C!Method["t"] = 2 /\ C!Method["h"] = 4
  BY DEF C!Method
<1>3. C!ToSet(argument) = {argument[k] : k \in 1..n}
  BY <1>1 DEF C!ToSet
<1> DEFINE letters == C!ToSet(argument) \ {C!Blank}
           Bit(l)  == IF l \in letters THEN C!Method[l] ELSE 0
<1>4. CASE ~Known(argument, n)
  <2>1. \E k \in DOMAIN argument : argument[k] \notin DOMAIN C!Method \cup {C!Blank}
    BY <1>1, <1>2, <1>4 DEF Known, C!Blank
  <2>2. ~(letters \subseteq DOMAIN C!Method)
    BY <1>1, <1>3, <2>1
  <2>3. C!Reboot(argument) = C!Refused
    BY <2>1 DEF C!Reboot
  <2> QED BY <2>2, <2>3 DEF C!AsksForTheNamed
<1>5. CASE Known(argument, n)
  <2>1. ~(\E k \in DOMAIN argument : argument[k] \notin DOMAIN C!Method \cup {C!Blank})
    BY <1>1, <1>2, <1>5 DEF Known, C!Blank
  <2>2. letters \subseteq DOMAIN C!Method
    BY <1>1, <1>3, <2>1
  <2> DEFINE v == CHOOSE u : LetterSteps(argument, n, u)
  <2>3. v[n] = BitsOf(argument, n)
    <3>1. LetterSteps(argument, n, v)
      BY <1>5, AllLetters
    <3> HIDE DEF v
    <3> QED BY <1>5, <3>1, AllLetters
  <2>4. C!Reboot(argument) = IF v[n] = 0 THEN 1 ELSE v[n]
    BY <1>1, <1>2, <2>1 DEF C!Reboot, LetterSteps, Letter
  <2> HIDE DEF v
  <2>5. \A l \in {"i", "t", "h"} : l \in letters <=> Among(argument, l, n)
    BY <1>3 DEF Among, C!Blank
  <2>6. Bit("i") = BitOf(argument, "i", 1, n) /\ Bit("t") = BitOf(argument, "t", 2, n) /\ Bit("h") = BitOf(argument, "h", 4, n)
    <3> HIDE DEF letters
    <3> QED BY <1>2, <2>5 DEF BitOf
  <2>7. letters = {} <=> BitsOf(argument, n) = 0
    <3>1. letters = {} <=> ~Among(argument, "i", n) /\ ~Among(argument, "t", n) /\ ~Among(argument, "h", n)
      <4> HIDE DEF letters
      <4> QED BY <1>2, <2>2, <2>5
    <3> QED BY <3>1 DEF BitsOf, BitOf
  <2>8. C!Reboot(argument) = IF letters = {} THEN 1 ELSE Bit("i") + Bit("t") + Bit("h")
    <3> HIDE DEF letters, Bit
    <3> QED BY <2>3, <2>4, <2>6, <2>7 DEF BitsOf
  <2> QED BY <2>2, <2>8 DEF C!AsksForTheNamed
<1> QED BY <1>4, <1>5

-----------------------------------------------------------------------------
(* Commands: the bubble sort of bench.                                     *)

Bytes(n) == [1..n -> 0..255]
Count(a, v) == Cardinality({i \in DOMAIN a : a[i] = v})
SameBytes(a, b) == \A v \in 0..255 : Count(a, v) = Count(b, v)

Exchange(a, i) == [a EXCEPT ![i] = a[i + 1], ![i + 1] = a[i]]

LEMMA ExchangeBytes ==
  ASSUME NEW n \in Nat, NEW a \in Bytes(n), NEW i \in 1..(n - 1)
  PROVE  /\ Exchange(a, i) \in Bytes(n)
         /\ Exchange(a, i)[i] = a[i + 1] /\ Exchange(a, i)[i + 1] = a[i]
         /\ \A j \in 1..n : j # i /\ j # i + 1 => Exchange(a, i)[j] = a[j]
<1>1. i \in 1..n /\ i + 1 \in 1..n /\ i # i + 1
  OBVIOUS
<1>2. a \in [1..n -> 0..255] /\ a[i] \in 0..255 /\ a[i + 1] \in 0..255
  BY <1>1 DEF Bytes
<1>3. PICK x, y, e : x = a[i] /\ y = a[i + 1] /\ e = i + 1
  OBVIOUS
<1>4. PICK b : b = [a EXCEPT ![i] = y, ![e] = x]
  OBVIOUS
<1>5. /\ b \in [1..n -> 0..255] /\ b[i] = y /\ b[e] = x /\ \A j \in 1..n : j # i /\ j # e => b[j] = a[j]
  BY <1>1, <1>2, <1>3, <1>4
<1> QED BY <1>3, <1>4, <1>5 DEF Bytes, Exchange

LEMMA ExchangeCounts ==
  ASSUME NEW n \in Nat, NEW a \in Bytes(n), NEW i \in 1..(n - 1)
  PROVE  SameBytes(a, Exchange(a, i))
<1>1. PICK b : b = Exchange(a, i)
  OBVIOUS
<1>2. /\ b \in Bytes(n) /\ b[i] = a[i + 1] /\ b[i + 1] = a[i]
      /\ \A j \in 1..n : j # i /\ j # i + 1 => b[j] = a[j]
  BY <1>1, ExchangeBytes
<1>3. DOMAIN a = 1..n /\ DOMAIN b = 1..n
  BY <1>2 DEF Bytes
<1>4. ASSUME NEW v \in 0..255 PROVE Count(a, v) = Count(b, v)
  <2>1. PICK A, B : A = {j \in 1..n : a[j] = v} /\ B = {j \in 1..n : b[j] = v}
    OBVIOUS
  <2> DEFINE f == [j \in A |-> IF j = i THEN i + 1 ELSE IF j = i + 1 THEN i ELSE j]
  <2>2. \A j \in A : j \in 1..n /\ f[j] \in 1..n /\ f[j] = (IF j = i THEN i + 1 ELSE IF j = i + 1 THEN i ELSE j)
    BY <2>1
  <2>3. f \in [A -> B]
    BY <1>2, <2>1
  <2>4. \A j, k \in A : f[j] = f[k] => j = k
    BY <2>2
  <2>5. ASSUME NEW k \in B PROVE \E j \in A : f[j] = k
    <3>1. k \in 1..n /\ b[k] = v
      BY <2>1
    <3>2. PICK j \in 1..n : j = (IF k = i THEN i + 1 ELSE IF k = i + 1 THEN i ELSE k)
      BY <3>1
    <3>3. j \in A
      BY <1>2, <2>1, <3>1, <3>2
    <3>4. f[j] = k
      BY <3>2, <3>3
    <3> QED BY <3>3, <3>4
  <2>6. f \in Bijection(A, B)
    <3> HIDE DEF f
    <3>1. f \in Injection(A, B)
      BY <2>3, <2>4 DEF Injection, IsInjective
    <3>2. f \in Surjection(A, B)
      BY <2>3, <2>5 DEF Surjection
    <3> QED BY <3>1, <3>2 DEF Bijection
  <2>7. IsFiniteSet(A)
    BY <2>1, FS_Interval, FS_Subset
  <2>8. Cardinality(A) = Cardinality(B)
    <3> HIDE DEF f
    <3> QED BY <2>6, <2>7, FS_Bijection DEF ExistsBijection
  <2> QED BY <1>3, <2>1, <2>8 DEF Count
<1> QED BY <1>1, <1>4 DEF SameBytes

\* No byte before the place j is greater.
InPlace(a, j) == \A k \in 1..(j - 1) : a[k] <= a[j]

\* After a pass over n of N bytes has compared the place i with the next one.
InPass(a0, N, n, i, s) ==
  /\ s \in [a : Bytes(N), newn : 0..N] /\ s.newn <= i
  /\ \A j \in (s.newn + 1)..(i + 1) : InPlace(s.a, j)
  /\ \A j \in (n + 1)..N : InPlace(s.a, j)
  /\ SameBytes(a0, s.a)

LEMMA NextCompared ==
  ASSUME NEW a0, NEW N \in Nat, NEW n \in 2..N, NEW i \in 1..(n - 1), NEW s, InPass(a0, N, n, i - 1, s)
  PROVE  InPass(a0, N, n, i, C!Exchanged(s, i))
<1>1. PICK a, m : a = s.a /\ m = s.newn
  OBVIOUS
<1>2. /\ a \in Bytes(N) /\ m \in 0..N /\ m <= i - 1 /\ s = [a |-> a, newn |-> m]
      /\ \A j \in (m + 1)..((i - 1) + 1) : InPlace(a, j)
      /\ \A j \in (n + 1)..N : InPlace(a, j)
      /\ SameBytes(a0, a)
  BY <1>1 DEF InPass
<1>3. i \in 1..(N - 1) /\ i + 1 \in 2..n /\ i \in 1..N /\ i + 1 \in 1..N /\ \A k \in 1..N : a[k] \in 0..255
  BY <1>2 DEF Bytes
<1>4. \A k \in 1..(i - 1) : a[k] <= a[i]
  <2>1. i \in (m + 1)..((i - 1) + 1)
    BY <1>2
  <2> QED BY <1>2, <2>1 DEF InPlace
<1>5. CASE a[i] > a[i + 1]
  <2>1. PICK b : b = Exchange(a, i)
    OBVIOUS
  <2>2. C!Exchanged(s, i) = [a |-> b, newn |-> i]
    BY <1>2, <1>5, <2>1 DEF C!Exchanged, Exchange
  <2>3. /\ b \in Bytes(N) /\ b[i] = a[i + 1] /\ b[i + 1] = a[i]
        /\ \A j \in 1..N : j # i /\ j # i + 1 => b[j] = a[j]
    BY <1>2, <1>3, <2>1, ExchangeBytes
  <2>4. SameBytes(a0, b)
    <3>1. SameBytes(a, b)
      BY <1>2, <1>3, <2>1, ExchangeCounts
    <3> QED BY <1>2, <3>1, Zenon DEF SameBytes
  <2>5. InPlace(b, i + 1)
    <3>1. ASSUME NEW k \in 1..i PROVE b[k] <= b[i + 1]
      <4>1. CASE k = i
        <5>1. PICK x \in 0..255, y \in 0..255 : x = a[i] /\ y = a[i + 1]
          BY <1>3, Zenon
        <5>2. b[k] = y /\ b[i + 1] = x
          BY <2>3, <4>1, <5>1
        <5> QED BY <1>5, <5>1, <5>2
      <4>2. CASE k # i
        <5>1. k \in 1..(i - 1) /\ k \in 1..N /\ k # i + 1
          BY <1>3, <4>2
        <5>2. b[k] = a[k] /\ b[i + 1] = a[i] /\ a[k] <= a[i]
          BY <1>4, <2>3, <4>2, <5>1
        <5> QED BY <5>2
      <4> QED BY <4>1, <4>2
    <3>2. (i + 1) - 1 = i
      OBVIOUS
    <3> QED BY <3>1, <3>2 DEF InPlace
  <2>6. ASSUME NEW j \in (n + 1)..N PROVE InPlace(b, j)
    <3>1. j \in 1..N /\ j # i /\ j # i + 1 /\ i \in 1..(j - 1) /\ i + 1 \in 1..(j - 1)
      BY <1>3
    <3>2. \A k \in 1..(j - 1) : a[k] <= a[j] /\ k \in 1..N
      BY <1>2 DEF InPlace
    <3>3. ASSUME NEW k \in 1..(j - 1) PROVE b[k] <= b[j]
      <4>1. CASE k = i
        BY <2>3, <3>1, <3>2, <4>1
      <4>2. CASE k = i + 1
        BY <2>3, <3>1, <3>2, <4>2
      <4>3. CASE k # i /\ k # i + 1
        BY <2>3, <3>1, <3>2, <4>3
      <4> QED BY <4>1, <4>2, <4>3
    <3> QED BY <3>3 DEF InPlace
  <2>7. \A j \in (i + 1)..(i + 1) : InPlace(b, j)
    BY <2>5
  <2>8. PICK t : t = [a |-> b, newn |-> i]
    OBVIOUS
  <2>9. t \in [a : Bytes(N), newn : 0..N] /\ t.a = b /\ t.newn = i /\ i <= i
    BY <1>3, <2>3, <2>8
  <2>10. InPass(a0, N, n, i, t)
    BY <2>4, <2>6, <2>7, <2>9 DEF InPass
  <2> QED BY <2>2, <2>8, <2>10
<1>6. CASE ~(a[i] > a[i + 1])
  <2>1. C!Exchanged(s, i) = s
    BY <1>2, <1>6 DEF C!Exchanged
  <2>2. InPlace(a, i + 1)
    <3>1. ASSUME NEW k \in 1..i PROVE a[k] <= a[i + 1]
      <4>1. k \in 1..N /\ (k = i \/ k \in 1..(i - 1))
        <5>1. i \in 1..(N - 1)
          BY <1>3
        <5> QED BY <5>1
      <4>2. PICK x \in 0..255, y \in 0..255, z \in 0..255 : x = a[k] /\ y = a[i] /\ z = a[i + 1]
        BY <1>3, <4>1, Zenon
      <4>3. x <= y /\ y <= z
        BY <1>4, <1>6, <4>1, <4>2
      <4> QED BY <4>2, <4>3
    <3>2. (i + 1) - 1 = i
      OBVIOUS
    <3> QED BY <3>1, <3>2 DEF InPlace
  <2>3. ASSUME NEW j \in (m + 1)..(i + 1) PROVE InPlace(a, j)
    <3>1. j = i + 1 \/ j \in (m + 1)..((i - 1) + 1)
      BY <1>2
    <3> QED BY <1>2, <2>2, <3>1
  <2>4. m <= i
    BY <1>2
  <2> QED BY <1>1, <1>2, <2>1, <2>3, <2>4 DEF InPass
<1> QED BY <1>5, <1>6

Sortable(N) == [a : Bytes(N), newn : 0..N]

LEMMA ExchangedType ==
  ASSUME NEW N \in Nat, NEW i \in 1..(N - 1), NEW s \in Sortable(N)
  PROVE  C!Exchanged(s, i) \in Sortable(N)
<1>1. PICK a, m : a = s.a /\ m = s.newn /\ a \in Bytes(N) /\ m \in 0..N /\ s = [a |-> a, newn |-> m]
  BY DEF Sortable
<1>2. PICK b : b = Exchange(a, i) /\ b \in Bytes(N)
  BY <1>1, ExchangeBytes
<1>3. C!Exchanged(s, i) \in {s, [a |-> b, newn |-> i]}
  BY <1>1, <1>2 DEF C!Exchanged, Exchange
<1>4. i \in 0..N
  OBVIOUS
<1>5. [a |-> b, newn |-> i] \in Sortable(N)
  BY <1>2, <1>4 DEF Sortable
<1> QED BY <1>3, <1>5

PassSteps(a, n, u) ==
  u = [i \in 0..(n - 1) |-> IF i = 0 THEN [a |-> a, newn |-> 0] ELSE C!Exchanged(u[i - 1], i)]

LEMMA PassStepsExist ==
  ASSUME NEW N \in Nat, NEW a \in Bytes(N), NEW n \in 1..N
  PROVE  \E u : PassSteps(a, n, u)
<1> DEFINE X == Sortable(N)
           F == [i \in 1..(n - 1) |-> [s \in X |-> C!Exchanged(s, i)]]
<1>1. F \in [1..(n - 1) -> [X -> X]]
  <2>1. \A i \in 1..(n - 1) : \A s \in X : C!Exchanged(s, i) \in X
    BY ExchangedType
  <2> HIDE DEF X
  <2> QED BY <2>1
<1>2. PICK e : e = [a |-> a, newn |-> 0] /\ e \in X
  <2>1. [a |-> a, newn |-> 0] \in X
    BY DEF Sortable
  <2> QED BY <2>1
<1>3. n - 1 \in Nat
  OBVIOUS
<1>4. PICK g : Follows(F, e, X, n - 1, g)
  <2> HIDE DEF F, X
  <2> QED BY <1>1, <1>2, <1>3, Recursion
<1>5. g \in [0..(n - 1) -> X] /\ g[0] = e /\ \A i \in 1..(n - 1) : g[i] = F[i][g[i - 1]]
  BY <1>4 DEF Follows
<1>6. ASSUME NEW i \in 0..(n - 1)
      PROVE  g[i] = IF i = 0 THEN [a |-> a, newn |-> 0] ELSE C!Exchanged(g[i - 1], i)
  <2>1. CASE i = 0
    BY <1>2, <1>5, <2>1
  <2>2. CASE i # 0
    <3>1. i \in 1..(n - 1) /\ i - 1 \in 0..(n - 1) /\ g[i - 1] \in X
      BY <1>5, <2>2
    <3> HIDE DEF X
    <3> QED BY <1>5, <2>2, <3>1
  <2> QED BY <2>1, <2>2
<1>7. PassSteps(a, n, g)
  <2>1. g = [i \in 0..(n - 1) |-> g[i]]
    BY <1>5
  <2> HIDE DEF F, X
  <2> QED BY <1>6, <2>1 DEF PassSteps
<1> QED BY <1>7

\* From place n on everything is in place.
Settled(a, n, N) == \A j \in (n + 1)..N : InPlace(a, j)

LEMMA PassSettles ==
  ASSUME NEW N \in Nat, NEW a \in Bytes(N), NEW n \in 2..N, Settled(a, n, N)
  PROVE  LET s == C!Pass(a, n)
         IN  s \in Sortable(N) /\ s.newn < n /\ Settled(s.a, s.newn, N) /\ SameBytes(a, s.a)
<1> DEFINE v == CHOOSE u : PassSteps(a, n, u)
<1>1. PassSteps(a, n, v)
  <2>1. n \in 1..N
    OBVIOUS
  <2> QED BY <2>1, PassStepsExist
<1>2. C!Pass(a, n) = v[n - 1]
  BY DEF C!Pass, PassSteps
<1> HIDE DEF v
<1>3. PICK u : u = v
  OBVIOUS
<1>4. u[0] = [a |-> a, newn |-> 0] /\ \A i \in 1..(n - 1) : u[i] = C!Exchanged(u[i - 1], i)
  <2>1. u = [i \in 0..(n - 1) |-> IF i = 0 THEN [a |-> a, newn |-> 0] ELSE C!Exchanged(u[i - 1], i)]
    BY <1>1, <1>3 DEF PassSteps
  <2>2. 0 \in 0..(n - 1) /\ \A j \in 1..(n - 1) : j \in 0..(n - 1) /\ j # 0
    OBVIOUS
  <2>3. u[0] = [a |-> a, newn |-> 0]
    BY <2>1, <2>2
  <2>4. \A i \in 1..(n - 1) : u[i] = C!Exchanged(u[i - 1], i)
    BY <2>1, <2>2
  <2> QED BY <2>3, <2>4
<1> DEFINE P == {i \in 0..(n - 1) : InPass(a, N, n, i, u[i])}
<1>5. 0 \in P
  <2>1. u[0] \in [a : Bytes(N), newn : 0..N] /\ u[0].a = a /\ u[0].newn = 0
    BY <1>4
  <2>2. \A j \in (0 + 1)..(0 + 1) : InPlace(a, j)
    BY DEF InPlace
  <2>3. SameBytes(a, a)
    BY DEF SameBytes
  <2>4. InPass(a, N, n, 0, u[0])
    BY <2>1, <2>2, <2>3 DEF InPass, Settled
  <2> QED BY <2>4
<1>6. ASSUME NEW i \in 1..(n - 1), i - 1 \in P PROVE i \in P
  <2>1. InPass(a, N, n, i - 1, u[i - 1])
    BY <1>6
  <2>2. InPass(a, N, n, i, u[i])
    BY <1>4, <2>1, NextCompared
  <2> QED BY <2>2
<1>7. n - 1 \in P
  <2>1. n - 1 \in Nat /\ n - 1 \in 0..(n - 1)
    OBVIOUS
  <2>2. \A i \in 0..(n - 1) : i \in P
    <3> HIDE DEF P
    <3> QED BY <1>5, <1>6, <2>1, Upwards
  <2> HIDE DEF P
  <2> QED BY <2>1, <2>2
<1>8. PICK s : s = C!Pass(a, n)
  OBVIOUS
<1>9. InPass(a, N, n, n - 1, s)
  BY <1>2, <1>3, <1>7, <1>8
<1>10. s \in Sortable(N) /\ s.newn \in 0..N /\ s.newn <= n - 1 /\ SameBytes(a, s.a)
  BY <1>9 DEF InPass, Sortable
<1>11. Settled(s.a, s.newn, N)
  <2>1. ASSUME NEW j \in (s.newn + 1)..N PROVE InPlace(s.a, j)
    <3>1. j \in (s.newn + 1)..((n - 1) + 1) \/ j \in (n + 1)..N
      BY <1>10
    <3> QED BY <1>9, <3>1 DEF InPass
  <2> QED BY <2>1 DEF Settled
<1> QED BY <1>8, <1>10, <1>11

Passed(s) == IF s.newn > 1 THEN C!Pass(s.a, s.newn) ELSE s

SortSteps(a, N, u) ==
  u = [k \in 0..N |-> IF k = 0 THEN [a |-> a, newn |-> N]
                      ELSE IF u[k - 1].newn > 1 THEN C!Pass(u[k - 1].a, u[k - 1].newn) ELSE u[k - 1]]

\* Whatever the passes are, the bytes behind newn are in place.
SortedSoFar(a, N, k, s) ==
  s \in Sortable(N) /\ Settled(s.a, s.newn, N) /\ SameBytes(a, s.a) /\ (s.newn <= 1 \/ s.newn <= N - k)

LEMMA NextPassed ==
  ASSUME NEW N \in Nat, NEW a, NEW k \in 1..N, NEW s, SortedSoFar(a, N, k - 1, s)
  PROVE  SortedSoFar(a, N, k, Passed(s))
<1>1. PICK b, m : b = s.a /\ m = s.newn
  OBVIOUS
<1>2. /\ b \in Bytes(N) /\ m \in 0..N /\ s \in Sortable(N) /\ Settled(b, m, N) /\ SameBytes(a, b)
      /\ m <= 1 \/ m <= N - (k - 1)
  BY <1>1 DEF SortedSoFar, Sortable
<1>3. CASE m > 1
  <2>1. m \in 2..N
    BY <1>2, <1>3
  <2>2. PICK t : t = C!Pass(b, m)
    OBVIOUS
  <2>3. t \in Sortable(N) /\ t.newn < m /\ Settled(t.a, t.newn, N) /\ SameBytes(b, t.a)
    BY <1>2, <2>1, <2>2, PassSettles
  <2>4. t.newn \in 0..N /\ (t.newn <= 1 \/ t.newn <= N - k)
    BY <1>2, <1>3, <2>3 DEF Sortable
  <2>5. SameBytes(a, t.a)
    BY <1>2, <2>3 DEF SameBytes
  <2>6. Passed(s) = t
    BY <1>1, <1>3, <2>2 DEF Passed
  <2> QED BY <2>3, <2>4, <2>5, <2>6 DEF SortedSoFar
<1>4. CASE ~(m > 1)
  <2>1. Passed(s) = s /\ m <= 1
    BY <1>1, <1>2, <1>4 DEF Passed
  <2> QED BY <1>1, <1>2, <2>1 DEF SortedSoFar
<1> QED BY <1>3, <1>4

LEMMA SortStepsExist ==
  ASSUME NEW N \in Nat, NEW a \in Bytes(N)
  PROVE  \E u : SortSteps(a, N, u)
<1> DEFINE X == {s \in Sortable(N) : Settled(s.a, s.newn, N)}
           F == [k \in 1..N |-> [s \in X |-> Passed(s)]]
<1>1. ASSUME NEW s \in X PROVE Passed(s) \in X
  <2>1. s.a \in Bytes(N) /\ s.newn \in 0..N /\ Settled(s.a, s.newn, N)
    BY DEF Sortable
  <2>2. CASE s.newn > 1
    <3>1. s.newn \in 2..N
      BY <2>1, <2>2
    <3> QED BY <2>1, <2>2, <3>1, PassSettles DEF Passed
  <2>3. CASE ~(s.newn > 1)
    BY <2>3 DEF Passed
  <2> QED BY <2>2, <2>3
<1>2. F \in [1..N -> [X -> X]]
  <2> HIDE DEF X
  <2> QED BY <1>1
<1>3. PICK e : e = [a |-> a, newn |-> N] /\ e \in X
  <2>1. [a |-> a, newn |-> N] \in X
    BY DEF Sortable, Settled
  <2> QED BY <2>1
<1>4. PICK g : Follows(F, e, X, N, g)
  <2> HIDE DEF F, X
  <2> QED BY <1>2, <1>3, Recursion
<1>5. g \in [0..N -> X] /\ g[0] = e /\ \A i \in 1..N : g[i] = F[i][g[i - 1]]
  BY <1>4 DEF Follows
<1>6. ASSUME NEW k \in 0..N
      PROVE  g[k] = IF k = 0 THEN [a |-> a, newn |-> N]
                    ELSE IF g[k - 1].newn > 1 THEN C!Pass(g[k - 1].a, g[k - 1].newn) ELSE g[k - 1]
  <2>1. CASE k = 0
    BY <1>3, <1>5, <2>1
  <2>2. CASE k # 0
    <3>1. k \in 1..N /\ k - 1 \in 0..N /\ g[k - 1] \in X
      BY <1>5, <2>2
    <3> HIDE DEF X
    <3>2. g[k] = Passed(g[k - 1])
      BY <1>5, <3>1
    <3> QED BY <2>2, <3>2 DEF Passed
  <2> QED BY <2>1, <2>2
<1>7. SortSteps(a, N, g)
  <2>1. g = [k \in 0..N |-> g[k]]
    BY <1>5
  <2> HIDE DEF F, X
  <2> QED BY <1>6, <2>1 DEF SortSteps
<1> QED BY <1>7

LEMMA BubbleSorts ==
  ASSUME NEW a \in Seq(0..255)
  PROVE  C!Sorts(a)
<1>1. PICK N \in Nat : N = Len(a) /\ DOMAIN a = 1..N /\ a \in Bytes(N)
  <2>1. Len(a) \in Nat /\ DOMAIN a = 1..Len(a) /\ a \in [1..Len(a) -> 0..255]
    BY LenProperties
  <2> QED BY <2>1, ZenonT(40) DEF Bytes
<1> DEFINE v == CHOOSE u : SortSteps(a, N, u)
<1>2. SortSteps(a, N, v)
  BY <1>1, SortStepsExist
<1>3. C!BenchmarkBubble(a) = v[N].a
  BY <1>1 DEF C!BenchmarkBubble, SortSteps
<1> HIDE DEF v
<1>4. PICK u : u = v
  OBVIOUS
<1>5. u[0] = [a |-> a, newn |-> N] /\ \A k \in 1..N : u[k] = Passed(u[k - 1])
  <2>1. u = [k \in 0..N |-> IF k = 0 THEN [a |-> a, newn |-> N]
                            ELSE IF u[k - 1].newn > 1 THEN C!Pass(u[k - 1].a, u[k - 1].newn) ELSE u[k - 1]]
    BY <1>2, <1>4 DEF SortSteps
  <2>2. 0 \in 0..N /\ \A j \in 1..N : j \in 0..N /\ j # 0
    OBVIOUS
  <2>3. u[0] = [a |-> a, newn |-> N]
    BY <2>1, <2>2
  <2>4. \A k \in 1..N : u[k] = Passed(u[k - 1])
    BY <2>1, <2>2 DEF Passed
  <2> QED BY <2>3, <2>4
<1> DEFINE P == {k \in 0..N : SortedSoFar(a, N, k, u[k])}
<1>6. 0 \in P
  <2>1. u[0] \in Sortable(N) /\ u[0].a = a /\ u[0].newn = N
    BY <1>1, <1>5 DEF Sortable
  <2>2. Settled(a, N, N) /\ SameBytes(a, a)
    BY DEF Settled, SameBytes
  <2> QED BY <2>1, <2>2 DEF SortedSoFar
<1>7. ASSUME NEW k \in 1..N, k - 1 \in P PROVE k \in P
  <2>1. SortedSoFar(a, N, k - 1, u[k - 1])
    BY <1>7
  <2>2. SortedSoFar(a, N, k, u[k])
    BY <1>5, <2>1, NextPassed
  <2> QED BY <2>2
<1>8. N \in P
  <2>1. \A k \in 0..N : k \in P
    <3> HIDE DEF P
    <3> QED BY <1>6, <1>7, Upwards
  <2> HIDE DEF P
  <2> QED BY <2>1
<1>9. PICK sorted : sorted = C!BenchmarkBubble(a)
  OBVIOUS
<1>10. /\ sorted \in Bytes(N) /\ SameBytes(a, sorted)
       /\ \A j \in 2..N : InPlace(sorted, j)
  <2>1. SortedSoFar(a, N, N, u[N])
    BY <1>8
  <2>2. u[N] \in Sortable(N) /\ Settled(u[N].a, u[N].newn, N) /\ SameBytes(a, u[N].a) /\ u[N].a = sorted
    BY <1>3, <1>4, <1>9, <2>1 DEF SortedSoFar
  <2>3. sorted \in Bytes(N) /\ u[N].newn \in 0..N /\ u[N].newn <= 1
    BY <2>1, <2>2 DEF SortedSoFar, Sortable
  <2>4. \A j \in 2..N : j \in (u[N].newn + 1)..N
    BY <2>3
  <2> QED BY <2>2, <2>3, <2>4 DEF Settled
<1>11. \A i \in 1..(Len(a) - 1) : sorted[i] <= sorted[i + 1]
  <2>1. ASSUME NEW i \in 1..(N - 1) PROVE sorted[i] <= sorted[i + 1]
    <3>1. i + 1 \in 2..N /\ i \in 1..((i + 1) - 1)
      OBVIOUS
    <3> QED BY <1>10, <3>1 DEF InPlace
  <2> QED BY <1>1, <2>1
<1>12. \A w \in C!ToSet(a) \cup C!ToSet(sorted) :
         C!Cardinality({i \in DOMAIN a : a[i] = w}) = C!Cardinality({i \in DOMAIN sorted : sorted[i] = w})
  <2>1. DOMAIN sorted = 1..N /\ C!ToSet(a) \cup C!ToSet(sorted) \subseteq 0..255
    <3>1. a \in [1..N -> 0..255] /\ sorted \in [1..N -> 0..255]
      BY <1>1, <1>10 DEF Bytes
    <3>2. \A f \in [1..N -> 0..255] : C!ToSet(f) \subseteq 0..255
      <4>1. ASSUME NEW f \in [1..N -> 0..255] PROVE {f[i] : i \in DOMAIN f} \subseteq 0..255
        <5>1. DOMAIN f = 1..N /\ \A i \in 1..N : f[i] \in 0..255
          OBVIOUS
        <5>2. PICK X, I : X = 0..255 /\ I = DOMAIN f
          OBVIOUS
        <5>3. \A i \in I : f[i] \in X
          BY <5>1, <5>2
        <5>4. {f[i] : i \in I} \subseteq X
          BY <5>3, ZenonT(40)
        <5> QED BY <5>2, <5>4
      <4> QED BY <4>1 DEF C!ToSet
    <3> QED BY <3>1, <3>2
  <2>2. ASSUME NEW w \in 0..255
        PROVE  Cardinality({i \in DOMAIN a : a[i] = w}) = Cardinality({i \in DOMAIN sorted : sorted[i] = w})
    BY <1>10, Zenon DEF SameBytes, Count
  <2> QED BY <2>1, <2>2, SameCardinality, Zenon
<1> QED BY <1>9, <1>11, <1>12, Zenon DEF C!Sorts

-----------------------------------------------------------------------------
(* Video: the digits of a number.                                          *)

Radixes == {2, 10, 16}

LEMMA Division ==
  ASSUME NEW v \in Nat, NEW r \in Radixes
  PROVE  /\ v \div r \in Nat /\ v % r \in 0..(r - 1) /\ (v \div r) * r + (v % r) = v
         /\ v \div r <= v /\ (v # 0 => v \div r < v) /\ (v \div r = 0 => v % r = v)
<1>1. CASE r = 2
  BY <1>1
<1>2. CASE r = 10
  BY <1>2
<1>3. CASE r = 16
  BY <1>3
<1> QED BY <1>1, <1>2, <1>3 DEF Radixes

Digit(r) == 0..(r - 1)

WrittenSteps(n, r, g) == g = [v \in 0..n |-> <<v % r>> \o (IF v \div r = 0 THEN <<>> ELSE g[v \div r])]

WrittenDigits(v, r, rest) == <<v % r>> \o (IF v \div r = 0 THEN <<>> ELSE rest)

LEMMA WrittenStepsExist ==
  ASSUME NEW n \in Nat, NEW r \in Radixes
  PROVE  \E g : WrittenSteps(n, r, g)
<1> DEFINE P == {m \in 0..n : \E g : WrittenSteps(m, r, g)}
<1>1. 0 \in P
  <2>1. PICK g : g = [v \in 0..0 |-> <<v % r>> \o <<>>]
    OBVIOUS
  <2>2. 0 \div r = 0 /\ \A v \in 0..0 : v = 0
    BY DEF Radixes
  <2>3. [v \in 0..0 |-> <<v % r>> \o <<>>] = [v \in 0..0 |-> <<v % r>> \o (IF v \div r = 0 THEN <<>> ELSE g[v \div r])]
    BY <2>2
  <2>4. WrittenSteps(0, r, g)
    BY <2>1, <2>3 DEF WrittenSteps
  <2> QED BY <2>4
<1>2. ASSUME NEW m \in 1..n, m - 1 \in P PROVE m \in P
  <2>1. PICK g : WrittenSteps(m - 1, r, g)
    BY <1>2
  <2>2. PICK d : d = <<m % r>> \o (IF m \div r = 0 THEN <<>> ELSE g[m \div r])
    OBVIOUS
  <2>3. PICK h : h = [v \in 0..m |-> IF v = m THEN d ELSE g[v]]
    OBVIOUS
  <2>4. \A v \in 0..(m - 1) : g[v] = <<v % r>> \o (IF v \div r = 0 THEN <<>> ELSE g[v \div r])
    <3>1. g = [v \in 0..(m - 1) |-> <<v % r>> \o (IF v \div r = 0 THEN <<>> ELSE g[v \div r])]
      BY <2>1 DEF WrittenSteps
    <3> QED BY <3>1
  <2>5. h[m] = d /\ \A v \in 0..(m - 1) : h[v] = g[v]
    BY <2>3
  <2>6. ASSUME NEW v \in 0..m PROVE h[v] = <<v % r>> \o (IF v \div r = 0 THEN <<>> ELSE h[v \div r])
    <3>1. v \div r \in Nat /\ v \div r <= v /\ (v # 0 => v \div r < v)
      BY Division
    <3>2. CASE v = m
      <4>1. v \div r \in 0..(m - 1)
        BY <3>1, <3>2
      <4>2. h[v \div r] = g[v \div r]
        BY <2>5, <4>1
      <4> QED BY <2>2, <2>5, <3>2, <4>2
    <3>3. CASE v # m
      <4>1. v \in 0..(m - 1) /\ v \div r \in 0..(m - 1)
        BY <3>1, <3>3
      <4>2. h[v \div r] = g[v \div r] /\ h[v] = g[v]
        BY <2>5, <4>1
      <4> QED BY <2>4, <4>1, <4>2
    <3> QED BY <3>2, <3>3
  <2>7. h = [v \in 0..m |-> h[v]]
    BY <2>3
  <2>8. WrittenSteps(m, r, h)
    BY <2>6, <2>7 DEF WrittenSteps
  <2>9. m \in 0..n
    OBVIOUS
  <2> QED BY <2>8, <2>9
<1>3. \A m \in 0..n : m \in P
  <2> HIDE DEF P
  <2> QED BY <1>1, <1>2, Upwards
<1>4. n \in 0..n
  OBVIOUS
<1> QED BY <1>3, <1>4

\* The digits s of v, the last one first, and what is left of v after each of them.
Quotients(v, r, s, q) ==
  /\ s \in Seq(Digit(r)) /\ Len(s) >= 1
  /\ q \in [0..Len(s) -> Nat] /\ q[0] = v /\ q[Len(s)] = 0
  /\ \A j \in 1..Len(s) : q[j] = q[j - 1] \div r /\ s[j] = q[j - 1] % r
  /\ \A j \in 1..(Len(s) - 1) : q[j] # 0

LEMMA OneDigit ==
  ASSUME NEW v \in Nat, NEW r \in Radixes, v \div r = 0
  PROVE  \E q : Quotients(v, r, <<v % r>>, q)
<1>1. PICK d \in Digit(r) : d = v % r
  BY Division DEF Digit
<1>2. PICK s : s = <<d>>
  OBVIOUS
<1>3. s \in Seq(Digit(r)) /\ Len(s) = 1 /\ s[1] = d
  BY <1>2
<1>4. PICK q : q = [j \in 0..1 |-> IF j = 0 THEN v ELSE 0]
  OBVIOUS
<1>5. q \in [0..1 -> Nat] /\ q[0] = v /\ q[1] = 0
  BY <1>4
<1>6. \A j \in 1..1 : j = 1 /\ j - 1 = 0
  OBVIOUS
<1>7. \A j \in 1..(1 - 1) : FALSE
  OBVIOUS
<1>8. Quotients(v, r, s, q)
  BY <1>1, <1>3, <1>5, <1>6, <1>7 DEF Quotients
<1> QED BY <1>1, <1>2, <1>8

LEMMA MoreDigits ==
  ASSUME NEW v \in Nat, NEW r \in Radixes, v \div r # 0, NEW t, NEW p, Quotients(v \div r, r, t, p)
  PROVE  \E q : Quotients(v, r, <<v % r>> \o t, q)
<1>1. PICK d \in Digit(r) : d = v % r
  BY Division DEF Digit
<1>2. PICK w \in Nat : w = v \div r /\ w # 0
  BY Division
<1>3. PICK s : s = <<d>> \o t
  OBVIOUS
<1>4. PICK l \in Nat : l = Len(t) /\ l >= 1 /\ l - 1 \in Nat /\ l + 1 \in Nat
  BY DEF Quotients
<1>5. /\ t \in Seq(Digit(r)) /\ p \in [0..l -> Nat] /\ p[0] = w /\ p[l] = 0
      /\ \A j \in 1..l : p[j] = p[j - 1] \div r /\ t[j] = p[j - 1] % r
      /\ \A j \in 1..(l - 1) : p[j] # 0
  BY <1>2, <1>4 DEF Quotients
<1>6. s \in Seq(Digit(r)) /\ Len(s) = l + 1 /\ s[1] = d /\ \A j \in 1..l : s[j + 1] = t[j]
  BY <1>3, <1>4, <1>5
<1>7. PICK q : q = [j \in 0..(l + 1) |-> IF j = 0 THEN v ELSE p[j - 1]]
  OBVIOUS
<1>8. q[0] = v /\ \A j \in 0..l : q[j + 1] = p[j]
  BY <1>4, <1>7
<1>9. q \in [0..(l + 1) -> Nat]
  <2>1. \A j \in 0..(l + 1) : j # 0 => j - 1 \in 0..l
    BY <1>4
  <2> QED BY <1>5, <1>7, <2>1
<1>10. ASSUME NEW j \in 1..(l + 1) PROVE q[j] = q[j - 1] \div r /\ s[j] = q[j - 1] % r
  <2>1. CASE j = 1
    <3>1. j - 1 = 0 /\ q[j] = p[0]
      BY <1>8, <2>1
    <3> QED BY <1>1, <1>2, <1>5, <1>6, <1>8, <2>1, <3>1
  <2>2. CASE j # 1
    <3>1. PICK i \in 1..l : j = i + 1 /\ j - 1 = i /\ i - 1 \in 0..l /\ i = (i - 1) + 1 /\ i \in 0..l
      BY <1>4, <2>2
    <3>2. q[j] = p[i] /\ q[j - 1] = p[i - 1] /\ s[j] = t[i]
      BY <1>6, <1>8, <3>1
    <3> QED BY <1>5, <3>1, <3>2
  <2> QED BY <2>1, <2>2
<1>11. ASSUME NEW j \in 1..l PROVE q[j] # 0
  <2>1. j - 1 \in 0..l /\ j = (j - 1) + 1 /\ q[j] = p[j - 1]
    BY <1>4, <1>8
  <2>2. CASE j = 1
    BY <1>2, <1>5, <2>1, <2>2
  <2>3. CASE j # 1
    <3>1. j - 1 \in 1..(l - 1)
      BY <1>4, <2>3
    <3> QED BY <1>5, <2>1, <3>1
  <2> QED BY <2>2, <2>3
<1>12. q[l + 1] = 0 /\ (l + 1) - 1 = l
  BY <1>4, <1>5, <1>8
<1>13. Quotients(v, r, s, q)
  BY <1>4, <1>6, <1>8, <1>9, <1>10, <1>11, <1>12 DEF Quotients
<1> QED BY <1>1, <1>3, <1>13

LEMMA DigitsOf ==
  ASSUME NEW v \in Nat, NEW r \in Radixes
  PROVE  \E q : Quotients(v, r, V!Written(v, r), q)
<1> DEFINE w == CHOOSE g : WrittenSteps(v, r, g)
<1>1. WrittenSteps(v, r, w)
  BY WrittenStepsExist
<1>2. V!Written(v, r) = w[v]
  BY DEF V!Written, WrittenSteps
<1> HIDE DEF w
<1>3. PICK g : g = w
  OBVIOUS
<1>4. \A m \in 0..v : g[m] = <<m % r>> \o (IF m \div r = 0 THEN <<>> ELSE g[m \div r])
  <2>1. g = [m \in 0..v |-> <<m % r>> \o (IF m \div r = 0 THEN <<>> ELSE g[m \div r])]
    BY <1>1, <1>3 DEF WrittenSteps
  <2> QED BY <2>1
<1> DEFINE P == {n \in 0..v : \A m \in 0..n : \E q : Quotients(m, r, g[m], q)}
<1>5. ASSUME NEW m \in 0..v, m \div r # 0 => \E q : Quotients(m \div r, r, g[m \div r], q)
      PROVE  \E q : Quotients(m, r, g[m], q)
  <2>1. CASE m \div r = 0
    <3>1. g[m] = <<m % r>> \o <<>>
      BY <1>4, <2>1
    <3>2. \A d : <<d>> \o <<>> = <<d>>
      OBVIOUS
    <3>3. g[m] = <<m % r>>
      BY <3>1, <3>2
    <3> QED BY <2>1, <3>3, OneDigit
  <2>2. CASE m \div r # 0
    <3>1. g[m] = <<m % r>> \o g[m \div r]
      BY <1>4, <2>2
    <3> QED BY <1>5, <2>2, <3>1, MoreDigits
  <2> QED BY <2>1, <2>2
<1>6. 0 \in P
  <2>1. 0 \div r = 0 /\ 0 \in 0..v /\ \A m \in 0..0 : m = 0
    BY DEF Radixes
  <2> QED BY <1>5, <2>1
<1>7. ASSUME NEW n \in 1..v, n - 1 \in P PROVE n \in P
  <2>1. \A m \in 0..(n - 1) : \E q : Quotients(m, r, g[m], q)
    BY <1>7
  <2>2. n \div r \in 0..(n - 1) /\ n \in 0..v
    BY Division
  <2>3. \E q : Quotients(n, r, g[n], q)
    BY <1>5, <2>1, <2>2
  <2>4. \A m \in 0..n : m = n \/ m \in 0..(n - 1)
    OBVIOUS
  <2> QED BY <2>1, <2>2, <2>3, <2>4
<1>8. v \in P
  <2>1. \A n \in 0..v : n \in P
    <3> HIDE DEF P
    <3> QED BY <1>6, <1>7, Upwards
  <2> HIDE DEF P
  <2> QED BY <2>1
<1> QED BY <1>2, <1>3, <1>8

\* The loop over front and end, after f of its turns.
Flipped(b, l, f) == [k \in 1..(l + 1) |-> IF k <= l /\ (k <= f \/ k >= l + 1 - f) THEN b[l + 1 - k] ELSE b[k]]

ReverseSteps(b, l, u) ==
  u = [f \in 0..(l \div 2) |-> IF f = 0 THEN b ELSE V!Exchanged(u[f - 1], f, l + 1 - f)]

LEMMA NextFlipped ==
  ASSUME NEW b, NEW l \in Nat, NEW f \in 1..(l \div 2)
  PROVE  Flipped(b, l, f) = V!Exchanged(Flipped(b, l, f - 1), f, l + 1 - f)
<1>1. PICK e \in 1..l : e = l + 1 - f /\ f < e /\ f \in 1..l /\ l + 1 - e = f
  OBVIOUS
<1>2. PICK a, c : a = Flipped(b, l, f - 1) /\ c = Flipped(b, l, f)
  OBVIOUS
<1>3. DOMAIN a = 1..(l + 1) /\ DOMAIN c = 1..(l + 1)
  BY <1>2 DEF Flipped
<1>4. \A k \in 1..(l + 1) : a[k] = IF k <= l /\ (k <= f - 1 \/ k >= l + 1 - (f - 1)) THEN b[l + 1 - k] ELSE b[k]
  BY <1>2 DEF Flipped
<1>5. \A k \in 1..(l + 1) : c[k] = IF k <= l /\ (k <= f \/ k >= l + 1 - f) THEN b[l + 1 - k] ELSE b[k]
  BY <1>2 DEF Flipped
<1>6. a[f] = b[f] /\ a[e] = b[e]
  <2>1. f \in 1..(l + 1) /\ ~(f <= f - 1) /\ ~(f >= l + 1 - (f - 1))
    BY <1>1
  <2>2. e \in 1..(l + 1) /\ ~(e <= f - 1) /\ ~(e >= l + 1 - (f - 1))
    BY <1>1
  <2> QED BY <1>4, <2>1, <2>2
<1>7. c[f] = b[e] /\ c[e] = b[f]
  <2>1. f \in 1..(l + 1) /\ f <= l /\ f <= f /\ l + 1 - f = e
    BY <1>1
  <2>2. e \in 1..(l + 1) /\ e <= l /\ e >= l + 1 - f /\ l + 1 - e = f
    BY <1>1
  <2> QED BY <1>5, <2>1, <2>2
<1>8. ASSUME NEW k \in 1..(l + 1), k # f, k # e PROVE c[k] = a[k]
  <2>1. (k <= f \/ k >= l + 1 - f) <=> (k <= f - 1 \/ k >= l + 1 - (f - 1))
    BY <1>1, <1>8
  <2> QED BY <1>4, <1>5, <2>1
<1>9. PICK d : d = [a EXCEPT ![f] = a[e], ![e] = a[f]]
  OBVIOUS
<1>10. DOMAIN d = 1..(l + 1) /\ d[f] = a[e] /\ d[e] = a[f] /\ \A k \in 1..(l + 1) : k # f /\ k # e => d[k] = a[k]
  <2>1. f \in 1..(l + 1) /\ e \in 1..(l + 1) /\ f # e
    BY <1>1
  <2> QED BY <1>3, <1>9, <2>1
<1>11. c = d
  <2>1. \A k \in 1..(l + 1) : c[k] = d[k]
    BY <1>6, <1>7, <1>8, <1>10
  <2>2. c = [k \in 1..(l + 1) |-> c[k]]
    BY <1>2 DEF Flipped
  <2>3. d = [k \in 1..(l + 1) |-> d[k]]
    <3>1. a = [k \in 1..(l + 1) |-> a[k]]
      BY <1>2 DEF Flipped
    <3> QED BY <1>9, <3>1
  <2> QED BY <2>1, <2>2, <2>3
<1> QED BY <1>1, <1>2, <1>9, <1>11 DEF V!Exchanged

LEMMA ReversedAll ==
  ASSUME NEW l \in Nat, NEW b, b = [k \in 1..(l + 1) |-> b[k]]
  PROVE  V!Reversed(b, l) = [k \in 1..(l + 1) |-> IF k <= l THEN b[l + 1 - k] ELSE b[k]]
<1> DEFINE n == l \div 2
           g == [f \in 0..n |-> Flipped(b, l, f)]
           v == CHOOSE u : ReverseSteps(b, l, u)
<1>1. n \in Nat
  OBVIOUS
<1>2. V!Reversed(b, l) = v[n]
  BY DEF V!Reversed, ReverseSteps
<1> HIDE DEF v
<1>3. Flipped(b, l, 0) = b
  <2>1. ASSUME NEW k \in 1..(l + 1) PROVE ~(k <= l /\ (k <= 0 \/ k >= l + 1 - 0))
    OBVIOUS
  <2> QED BY <2>1 DEF Flipped
<1>4. g[0] = b /\ \A f \in 1..n : g[f] = V!Exchanged(g[f - 1], f, l + 1 - f)
  <2>1. 0 \in 0..n /\ g[0] = Flipped(b, l, 0)
    BY <1>1
  <2>2. ASSUME NEW f \in 1..n PROVE g[f] = V!Exchanged(g[f - 1], f, l + 1 - f)
    <3>1. f \in 0..n /\ f - 1 \in 0..n
      BY <1>1
    <3>2. g[f] = Flipped(b, l, f) /\ g[f - 1] = Flipped(b, l, f - 1)
      BY <3>1
    <3> QED BY <3>2, NextFlipped
  <2> QED BY <1>3, <2>1, <2>2
<1>5. ReverseSteps(b, l, g)
  <2>1. g = [f \in 0..n |-> g[f]]
    OBVIOUS
  <2> HIDE DEF g
  <2>2. \A f \in 0..n : f = 0 \/ f \in 1..n
    OBVIOUS
  <2>3. \A f \in 0..n : g[f] = IF f = 0 THEN b ELSE V!Exchanged(g[f - 1], f, l + 1 - f)
    <3>1. \A f \in 1..n : f # 0
      OBVIOUS
    <3> HIDE DEF n
    <3> QED BY <1>4, <2>2, <3>1
  <2> QED BY <2>1, <2>3 DEF ReverseSteps
<1>6. ReverseSteps(b, l, v)
  <2> HIDE DEF g
  <2> QED BY <1>5 DEF v
<1>7. PICK u : u = v
  OBVIOUS
<1>8. u[0] = b /\ \A f \in 1..n : u[f] = V!Exchanged(u[f - 1], f, l + 1 - f)
  <2>1. u = [f \in 0..n |-> IF f = 0 THEN b ELSE V!Exchanged(u[f - 1], f, l + 1 - f)]
    BY <1>6, <1>7 DEF ReverseSteps
  <2>2. 0 \in 0..n /\ \A f \in 1..n : f \in 0..n /\ f # 0
    BY <1>1
  <2> HIDE DEF n
  <2>3. u[0] = b
    BY <2>1, <2>2
  <2>4. \A f \in 1..n : u[f] = V!Exchanged(u[f - 1], f, l + 1 - f)
    BY <2>1, <2>2
  <2> QED BY <2>3, <2>4
<1>9. u[n] = g[n]
  <2> HIDE DEF g, n
  <2>1. \A f \in 0..n : u[f] = g[f]
    BY <1>1, <1>4, <1>8, SameSteps
  <2> QED BY <1>1, <2>1
<1>10. g[n] = Flipped(b, l, n)
  BY <1>1
<1>11. Flipped(b, l, n) = [k \in 1..(l + 1) |-> IF k <= l THEN b[l + 1 - k] ELSE b[k]]
  <2>1. ASSUME NEW k \in 1..(l + 1)
        PROVE  (IF k <= l /\ (k <= n \/ k >= l + 1 - n) THEN b[l + 1 - k] ELSE b[k]) = (IF k <= l THEN b[l + 1 - k] ELSE b[k])
    <3>1. k <= n \/ k >= l + 1 - n \/ k = l + 1 - k
      OBVIOUS
    <3> QED BY <3>1
  <2> HIDE DEF n
  <2> QED BY <2>1 DEF Flipped
<1> QED BY <1>2, <1>7, <1>9, <1>10, <1>11

\* The text of a number: its digits from the first to the last, and the zero.
TextOf(s, l) == [k \in 1..(l + 1) |-> IF k <= l THEN s[l + 1 - k] ELSE V!NUL]

LEMMA TextIs ==
  ASSUME NEW v \in Nat, NEW r \in Radixes, NEW s, s = V!Written(v, r), NEW q, Quotients(v, r, s, q)
  PROVE  V!UIntToString(v, r) = TextOf(s, Len(s))
<1>1. PICK l \in Nat : l = Len(s)
  BY DEF Quotients
<1>2. PICK b : b = s \o <<V!NUL>>
  OBVIOUS
<1>3. b = [k \in 1..(l + 1) |-> b[k]] /\ b[l + 1] = V!NUL /\ \A k \in 1..l : b[k] = s[k]
  <2>1. PICK Z : Z = Digit(r) \cup {V!NUL}
    OBVIOUS
  <2>2. s \in Seq(Z) /\ <<V!NUL>> \in Seq(Z)
    BY <2>1 DEF Quotients
  <2>3. b \in Seq(Z) /\ Len(b) = l + 1 /\ b[l + 1] = V!NUL /\ \A k \in 1..l : b[k] = s[k]
    BY <1>1, <1>2, <2>2
  <2>4. b \in [1..(l + 1) -> Z]
    BY <2>3, LenProperties
  <2> QED BY <2>3, <2>4
<1>4. V!Reversed(b, l) = [k \in 1..(l + 1) |-> IF k <= l THEN b[l + 1 - k] ELSE b[k]]
  BY <1>3, ReversedAll
<1>5. ASSUME NEW k \in 1..(l + 1)
      PROVE  (IF k <= l THEN b[l + 1 - k] ELSE b[k]) = (IF k <= l THEN s[l + 1 - k] ELSE V!NUL)
  <2>1. k <= l => l + 1 - k \in 1..l
    OBVIOUS
  <2>2. ~(k <= l) => k = l + 1
    OBVIOUS
  <2> QED BY <1>3, <2>1, <2>2
<1>6. V!Reversed(b, l) = TextOf(s, l)
  BY <1>4, <1>5 DEF TextOf
<1>7. V!UIntToString(v, r) = V!Reversed(b, l)
  BY <1>1, <1>2 DEF V!UIntToString
<1> QED BY <1>1, <1>6, <1>7

ReadSteps(t, n, r, u) == u = [i \in 0..n |-> IF i = 0 THEN 0 ELSE u[i - 1] * r + t[i]]

LEMMA ReadsBack ==
  ASSUME NEW v \in Nat, NEW r \in Radixes, NEW s, NEW q, Quotients(v, r, s, q)
  PROVE  V!Read(TextOf(s, Len(s)), Len(s), r) = v
<1>a. PICK l \in Nat : l = Len(s)
  BY DEF Quotients
<1>1. PICK t : t = TextOf(s, l)
  OBVIOUS
<1>2. /\ q \in [0..l -> Nat] /\ q[0] = v /\ q[l] = 0
      /\ \A j \in 1..l : q[j] = q[j - 1] \div r /\ s[j] = q[j - 1] % r
  BY <1>a DEF Quotients
<1> DEFINE g == [i \in 0..l |-> q[l - i]]
           w == CHOOSE u : ReadSteps(t, l, r, u)
<1>3. V!Read(t, l, r) = w[l]
  BY DEF V!Read, ReadSteps
<1> HIDE DEF w
<1>4. g[0] = 0 /\ \A i \in 1..l : g[i] = g[i - 1] * r + t[i]
  <2>1. 0 \in 0..l /\ l - 0 = l
    OBVIOUS
  <2>2. ASSUME NEW i \in 1..l PROVE g[i] = g[i - 1] * r + t[i]
    <3>1. PICK j \in 1..l : j = l + 1 - i /\ j - 1 = l - i /\ j = l - (i - 1) /\ j - 1 \in 0..l /\ i \in 1..(l + 1) /\ i <= l
      <4>1. l + 1 - i \in 1..l /\ (l + 1 - i) - 1 = l - i /\ l + 1 - i = l - (i - 1) /\ (l + 1 - i) - 1 \in 0..l
        OBVIOUS
      <4>2. i \in 1..(l + 1) /\ i <= l
        OBVIOUS
      <4> QED BY <4>1, <4>2
    <3>2. i \in 0..l /\ i - 1 \in 0..l
      OBVIOUS
    <3>3. g[i] = q[j - 1] /\ g[i - 1] = q[j]
      BY <3>1, <3>2
    <3>4. t[i] = s[j]
      BY <1>1, <3>1 DEF TextOf
    <3>5. PICK x \in Nat : x = q[j - 1]
      BY <1>2, <3>1
    <3>6. q[j] = x \div r /\ s[j] = x % r
      BY <1>2, <3>1, <3>5
    <3>7. (x \div r) * r + (x % r) = x
      BY Division
    <3> QED BY <3>3, <3>4, <3>5, <3>6, <3>7
  <2> QED BY <1>2, <2>1, <2>2
<1>5. ReadSteps(t, l, r, g)
  <2>1. g = [i \in 0..l |-> g[i]]
    OBVIOUS
  <2> HIDE DEF g
  <2>2. \A i \in 0..l : i = 0 \/ i \in 1..l
    OBVIOUS
  <2>3. \A i \in 1..l : i # 0
    OBVIOUS
  <2>4. \A i \in 0..l : g[i] = IF i = 0 THEN 0 ELSE g[i - 1] * r + t[i]
    BY <1>4, <2>2, <2>3
  <2> QED BY <2>1, <2>4 DEF ReadSteps
<1>6. ReadSteps(t, l, r, w)
  <2> HIDE DEF g
  <2> QED BY <1>5 DEF w
<1>7. PICK u : u = w
  OBVIOUS
<1>8. u[0] = 0 /\ \A i \in 1..l : u[i] = u[i - 1] * r + t[i]
  <2>1. u = [i \in 0..l |-> IF i = 0 THEN 0 ELSE u[i - 1] * r + t[i]]
    BY <1>6, <1>7 DEF ReadSteps
  <2>2. 0 \in 0..l /\ \A i \in 1..l : i \in 0..l /\ i # 0
    OBVIOUS
  <2>3. u[0] = 0
    BY <2>1, <2>2
  <2>4. \A i \in 1..l : u[i] = u[i - 1] * r + t[i]
    BY <2>1, <2>2
  <2> QED BY <2>3, <2>4
<1>9. u[l] = g[l]
  <2> HIDE DEF g
  <2>1. \A i \in 1..l : u[i - 1] = g[i - 1] => u[i] = g[i]
    BY <1>4, <1>8
  <2>2. u[0] = g[0]
    BY <1>4, <1>8
  <2>3. \A i \in 0..l : u[i] = g[i]
    BY <2>1, <2>2, SameSteps
  <2> QED BY <2>3
<1>10. g[l] = q[0]
  <2>1. l \in 0..l /\ l - l = 0
    OBVIOUS
  <2> QED BY <2>1
<1> QED BY <1>a, <1>1, <1>2, <1>3, <1>7, <1>9, <1>10

\* The text is the number.
LEMMA ShowsNumber ==
  ASSUME NEW v \in Nat, NEW r \in Radixes
  PROVE  V!Shows(V!UIntToString(v, r), v, r)
<1>1. PICK s, q : s = V!Written(v, r) /\ Quotients(v, r, s, q)
  BY DigitsOf
<1>2. PICK l \in Nat : l = Len(s) /\ l >= 1
  BY <1>1 DEF Quotients
<1>3. PICK t : t = TextOf(s, l)
  OBVIOUS
<1>4. V!UIntToString(v, r) = t
  BY <1>1, <1>2, <1>3, TextIs
<1>5. \A k \in 1..l : t[k] = s[l + 1 - k]
  BY <1>3 DEF TextOf
<1>6. Len(t) = l + 1 /\ t[l + 1] = V!NUL
  <2>1. t[l + 1] = V!NUL /\ DOMAIN t = 1..(l + 1) /\ t = [k \in 1..(l + 1) |-> t[k]]
    BY <1>3 DEF TextOf
  <2>2. t \in Seq({t[k] : k \in 1..(l + 1)})
    <3>1. t \in [1..(l + 1) -> {t[k] : k \in 1..(l + 1)}]
      BY <2>1
    <3> QED BY <3>1
  <2> QED BY <2>1, <2>2
<1>7. \A k \in 1..l : t[k] \in 0..(r - 1)
  <2>1. \A k \in 1..l : s[k] \in 0..(r - 1)
    <3>1. s \in Seq(Digit(r))
      BY <1>1 DEF Quotients
    <3>2. \A k \in 1..l : s[k] \in Digit(r)
      BY <1>2, <3>1, ElementOfSeq
    <3> QED BY <3>2 DEF Digit
  <2>2. \A k \in 1..l : l + 1 - k \in 1..l
    OBVIOUS
  <2> QED BY <1>5, <2>1, <2>2
<1>8. V!Read(t, l, r) = v
  BY <1>1, <1>2, <1>3, ReadsBack
<1>9. l > 1 => t[1] # 0
  <2> SUFFICES ASSUME l > 1 PROVE t[1] # 0
    OBVIOUS
  <2>1. l - 1 \in 1..(l - 1) /\ l \in 1..l /\ l - 1 \in 0..l /\ 1 \in 1..l /\ l + 1 - 1 = l
    OBVIOUS
  <2>2. q[l - 1] \in Nat /\ q[l - 1] # 0 /\ 0 = q[l - 1] \div r /\ s[l] = q[l - 1] % r
    BY <1>1, <1>2, <2>1 DEF Quotients
  <2>3. s[l] = q[l - 1]
    BY <2>2, Division
  <2> QED BY <1>5, <2>1, <2>2, <2>3
<1>10. Len(t) - 1 = l
  BY <1>6
<1> QED BY <1>4, <1>6, <1>7, <1>8, <1>9, <1>10 DEF V!Shows

\* A number below a power of ten has at most as many digits.
PowerSteps(n, p) == p = [i \in 0..n |-> IF i = 0 THEN 1 ELSE 10 * p[i - 1]]

LEMMA PowerStepsExist ==
  ASSUME NEW n \in Nat
  PROVE  \E p : PowerSteps(n, p)
<1> DEFINE F == [i \in 1..n |-> [x \in Nat |-> 10 * x]]
<1>1. F \in [1..n -> [Nat -> Nat]] /\ 1 \in Nat
  OBVIOUS
<1>2. PICK g : Follows(F, 1, Nat, n, g)
  <2> HIDE DEF F
  <2> QED BY <1>1, Recursion
<1>3. g \in [0..n -> Nat] /\ g[0] = 1 /\ \A i \in 1..n : g[i] = F[i][g[i - 1]]
  BY <1>2 DEF Follows
<1>4. ASSUME NEW i \in 0..n PROVE g[i] = IF i = 0 THEN 1 ELSE 10 * g[i - 1]
  <2>1. CASE i = 0
    BY <1>3, <2>1
  <2>2. CASE i # 0
    <3>1. i \in 1..n /\ i - 1 \in 0..n /\ g[i - 1] \in Nat
      BY <1>3, <2>2
    <3> QED BY <1>3, <2>2, <3>1
  <2> QED BY <2>1, <2>2
<1>5. PowerSteps(n, g)
  <2>1. g = [i \in 0..n |-> g[i]]
    BY <1>3
  <2> HIDE DEF F
  <2> QED BY <1>4, <2>1 DEF PowerSteps
<1> QED BY <1>5

LEMMA Powers ==
  ASSUME NEW n \in Nat
  PROVE  \E p \in [0..n -> Nat] : p[0] = 1 /\ p[n] = V!TenTo(n) /\ \A i \in 1..n : p[i] = 10 * p[i - 1]
<1> DEFINE w == CHOOSE p : PowerSteps(n, p)
<1>1. PowerSteps(n, w)
  BY PowerStepsExist
<1>2. V!TenTo(n) = w[n]
  BY DEF V!TenTo, PowerSteps
<1> HIDE DEF w
<1>3. PICK p : p = w
  OBVIOUS
<1>4. p[0] = 1 /\ (\A i \in 1..n : p[i] = 10 * p[i - 1]) /\ p = [i \in 0..n |-> p[i]]
  <2>1. p = [i \in 0..n |-> IF i = 0 THEN 1 ELSE 10 * p[i - 1]]
    BY <1>1, <1>3 DEF PowerSteps
  <2>2. 0 \in 0..n /\ \A i \in 1..n : i \in 0..n /\ i # 0
    OBVIOUS
  <2>3. p[0] = 1
    BY <2>1, <2>2
  <2>4. \A i \in 1..n : p[i] = 10 * p[i - 1]
    BY <2>1, <2>2
  <2>5. p = [i \in 0..n |-> p[i]]
    BY <2>1
  <2> QED BY <2>3, <2>4, <2>5
<1> DEFINE P == {i \in 0..n : p[i] \in Nat}
<1>5. 0 \in P
  BY <1>4
<1>5a. ASSUME NEW i \in 1..n, i - 1 \in P PROVE i \in P
  <2>1. p[i] = 10 * p[i - 1]
    BY <1>4
  <2>2. p[i - 1] \in Nat
    BY <1>5a
  <2>3. i \in 0..n
    OBVIOUS
  <2> QED BY <2>1, <2>2, <2>3
<1>6. \A i \in 0..n : i \in P
  <2> HIDE DEF P
  <2> QED BY <1>5, <1>5a, Upwards
<1>7. p \in [0..n -> Nat]
  BY <1>4, <1>6
<1> QED BY <1>2, <1>3, <1>4, <1>7

LEMMA FewDigits ==
  ASSUME NEW v \in Nat, NEW s, NEW q, Quotients(v, 10, s, q), NEW d \in Nat \ {0}, v < V!TenTo(d)
  PROVE  Len(s) <= d
<1>1. PICK l \in Nat : l = Len(s) /\ l >= 1
  BY DEF Quotients
<1>2. /\ q \in [0..l -> Nat] /\ q[0] = v
      /\ \A j \in 1..l : q[j] = q[j - 1] \div 10
      /\ \A j \in 1..(l - 1) : q[j] # 0
  BY <1>1 DEF Quotients
<1>3. PICK p \in [0..d -> Nat] : p[0] = 1 /\ p[d] = V!TenTo(d) /\ \A i \in 1..d : p[i] = 10 * p[i - 1]
  BY Powers
<1>4. CASE l > d
  <2> DEFINE P == {j \in 0..d : q[l - 1 - j] >= p[j]}
             Q == {j \in 0..l : q[j] <= v}
  <2>1. 0 \in P
    <3>1. l - 1 \in 1..(l - 1) /\ l - 1 - 0 = l - 1 /\ l - 1 \in 0..l
      BY <1>4
    <3>2. q[l - 1] \in Nat /\ q[l - 1] # 0
      BY <1>2, <3>1
    <3> QED BY <1>3, <3>1, <3>2
  <2>2. ASSUME NEW j \in 1..d, j - 1 \in P PROVE j \in P
    <3>1. PICK i \in 1..l : i = l - j /\ i - 1 = l - 1 - j /\ i = l - 1 - (j - 1) /\ i - 1 \in 0..l
      <4>1. l - j \in 1..l /\ (l - j) - 1 = l - 1 - j /\ l - j = l - 1 - (j - 1) /\ (l - j) - 1 \in 0..l
        BY <1>4
      <4> QED BY <4>1
    <3>a. j - 1 \in 0..d
      OBVIOUS
    <3>b. q[i - 1] \in Nat /\ p[j - 1] \in Nat
      BY <1>2, <1>3, <3>1, <3>a
    <3>2. PICK x \in Nat, y \in Nat : x = q[i - 1] /\ y = p[j - 1]
      BY <3>b
    <3>3. q[i] = x \div 10 /\ p[j] = 10 * y /\ q[i] >= y
      BY <1>2, <1>3, <2>2, <3>1, <3>2
    <3>4. x >= 10 * y
      BY <3>3
    <3> QED BY <3>1, <3>2, <3>3, <3>4
  <2>3. d \in P
    <3>1. \A j \in 0..d : j \in P
      <4> HIDE DEF P
      <4> QED BY <2>1, <2>2, Upwards
    <3> HIDE DEF P
    <3> QED BY <3>1
  <2>4. 0 \in Q
    BY <1>2
  <2>5. ASSUME NEW j \in 1..l, j - 1 \in Q PROVE j \in Q
    <3>1. PICK x \in Nat : x = q[j - 1] /\ x <= v
      BY <1>2, <2>5
    <3>2. q[j] = x \div 10 /\ x \div 10 <= x /\ x \div 10 \in Nat
      BY <1>2, <3>1
    <3> QED BY <3>1, <3>2
  <2>6. \A j \in 0..l : j \in Q
    <3> HIDE DEF Q
    <3> QED BY <2>4, <2>5, Upwards
  <2>7. PICK k \in 0..l : k = l - 1 - d
    <3>1. l - 1 - d \in 0..l
      BY <1>1, <1>4
    <3> QED BY <3>1
  <2>8. q[k] \in Nat /\ q[k] <= v /\ q[k] >= p[d]
    BY <1>2, <2>3, <2>6, <2>7
  <2> QED BY <1>3, <2>8
<1> QED BY <1>1, <1>4

LEMMA TextLength ==
  ASSUME NEW v \in Nat, NEW d \in Nat \ {0}, v < V!TenTo(d)
  PROVE  /\ Len(V!UIntToString(v, 10)) <= d + 1
         /\ Len(V!UIntToString(v, 10)) \in Nat
         /\ \E Z : V!UIntToString(v, 10) \in Seq(Z)
<1>0. 10 \in Radixes
  BY DEF Radixes
<1>1. PICK s, q : s = V!Written(v, 10) /\ Quotients(v, 10, s, q)
  BY <1>0, DigitsOf
<1>2. PICK l \in Nat : l = Len(s)
  BY <1>1 DEF Quotients
<1>3. PICK t : t = TextOf(s, l)
  OBVIOUS
<1>4. V!UIntToString(v, 10) = t
  BY <1>0, <1>1, <1>2, <1>3, TextIs
<1>5. Len(t) = l + 1 /\ \E Z : t \in Seq(Z)
  <2>1. t = [k \in 1..(l + 1) |-> t[k]]
    BY <1>3 DEF TextOf
  <2>a. PICK Z : Z = {t[k] : k \in 1..(l + 1)}
    OBVIOUS
  <2>b. t \in [1..(l + 1) -> Z]
    BY <2>1, <2>a
  <2>2. t \in Seq(Z)
    BY <1>2, <2>b
  <2>3. Len(t) = l + 1
    BY <1>2, <2>b
  <2> QED BY <2>2, <2>3
<1>6. l <= d
  BY <1>1, <1>2, FewDigits
<1> QED BY <1>4, <1>5, <1>6

LEMMA ShowsAsItIs ==
  ASSUME NEW value \in 0..(UInts - 1), NEW radix \in Radixes
  PROVE  V!ShownAsItIs(value, radix)
<1>1. /\ UInts \in Nat \ {0} /\ UInts % 2 = 0
      /\ Unsigned \in Nat \ {0, 1} /\ UInts <= V!TenTo(Unsigned - 1)
      /\ Signed \in Nat \ {0, 1, 2} /\ UInts \div 2 < V!TenTo(Signed - 2)
  BY AlgorithmsAssumption DEF AlgorithmsAssumption
<1>a. 10 \in Radixes /\ value \in Nat
  BY <1>1 DEF Radixes
<1>2. V!Shows(V!UIntToString(value, radix), value, radix)
  BY <1>a, ShowsNumber
<1>b. PICK x \in Nat, y \in Nat : x = V!TenTo(Unsigned - 1) /\ y = V!TenTo(Signed - 2)
  <2>1. Unsigned - 1 \in Nat /\ Signed - 2 \in Nat
    BY <1>1
  <2>2. ASSUME NEW n \in Nat PROVE V!TenTo(n) \in Nat
    <3>1. PICK p \in [0..n -> Nat] : p[n] = V!TenTo(n)
      BY Powers
    <3>2. n \in 0..n
      OBVIOUS
    <3> QED BY <3>1, <3>2
  <2> QED BY <2>1, <2>2
<1>3. Len(V!WriteDecimalUValue(value)) <= Unsigned
  <2>1. PICK d \in Nat \ {0} : d = Unsigned - 1
    BY <1>1
  <2>2. value < V!TenTo(d)
    BY <1>1, <1>b, <2>1
  <2>3. Len(V!UIntToString(value, 10)) <= d + 1
    BY <1>a, <2>2, TextLength
  <2> QED BY <1>1, <2>1, <2>3 DEF V!WriteDecimalUValue
<1> DEFINE signed == IF value >= UInts \div 2 THEN value - UInts ELSE value
           text   == V!WriteDecimalValue(signed)
<1>c. PICK d \in Nat \ {0} : d = Signed - 2 /\ d + 2 = Signed
  BY <1>1
<1>4. /\ Len(text) <= Signed
      /\ IF signed >= 0 THEN V!Shows(text, signed, 10)
         ELSE text[1] = "-" /\ V!Shows(Tail(text), -signed, 10)
  <2>1. CASE ~(value >= UInts \div 2)
    <3>1. signed = value /\ signed >= 0 /\ text = V!UIntToString(value, 10)
      BY <1>a, <2>1 DEF V!WriteDecimalValue
    <3>2. value < V!TenTo(d)
      BY <1>1, <1>b, <1>c, <2>1
    <3>3. Len(text) <= d + 1 /\ Len(text) \in Nat
      BY <1>a, <3>1, <3>2, TextLength
    <3>4. V!Shows(text, signed, 10)
      BY <1>a, <3>1, ShowsNumber
    <3>5. Len(text) <= Signed
      BY <1>c, <3>3
    <3> QED BY <3>1, <3>4, <3>5
  <2>2. CASE value >= UInts \div 2
    <3>1. PICK m \in Nat : m = UInts - value /\ m = -signed /\ m % UInts = m /\ ~(signed >= 0) /\ m <= UInts \div 2
      <4>1. UInts - value \in Nat /\ UInts - value \in 1..(UInts \div 2) /\ UInts \div 2 < UInts
        BY <1>1, <2>2
      <4>2. signed = value - UInts
        BY <2>2
      <4>3. (UInts - value) % UInts = UInts - value
        <5>1. PICK k \in Nat, n \in Nat : k = UInts - value /\ n = UInts /\ k < n
          BY <1>1, <4>1
        <5>2. k % n = k
          BY <5>1
        <5> QED BY <5>1, <5>2
      <4>4. -signed = UInts - value /\ ~(signed >= 0)
        BY <1>1, <4>1, <4>2
      <4> QED BY <4>1, <4>3, <4>4
    <3>2. text = <<"-">> \o V!UIntToString(m, 10)
      <4> HIDE DEF signed
      <4> QED BY <3>1 DEF V!WriteDecimalValue
    <3>3. m < V!TenTo(d)
      BY <1>1, <1>b, <1>c, <3>1
    <3>4. PICK t, Z : t = V!UIntToString(m, 10) /\ t \in Seq(Z) /\ Len(t) <= d + 1 /\ Len(t) \in Nat
      BY <3>3, TextLength
    <3> HIDE DEF text, signed
    <3>5. Len(text) = Len(t) + 1 /\ text[1] = "-" /\ Tail(text) = t
      <4>1. PICK Y : Y = Z \cup {"-"}
        OBVIOUS
      <4>2. t \in Seq(Y) /\ <<"-">> \in Seq(Y)
        BY <3>4, <4>1
      <4>3. PICK x1 : x1 = <<"-">> \o t
        OBVIOUS
      <4>4. x1 \in Seq(Y) /\ Len(x1) = Len(t) + 1 /\ x1[1] = "-" /\ \A k \in 1..Len(t) : x1[k + 1] = t[k]
        BY <4>2, <4>3
      <4>5. Tail(x1) \in Seq(Y) /\ Len(Tail(x1)) = Len(t) /\ \A k \in 1..Len(t) : Tail(x1)[k] = x1[k + 1]
        BY <4>4, <3>4
      <4>6. Tail(x1) = t
        <5>1. \A k \in 1..Len(t) : Tail(x1)[k] = t[k]
          BY <4>4, <4>5
        <5> QED BY <4>2, <4>5, <5>1, SeqEqual
      <4> QED BY <3>2, <3>4, <4>3, <4>4, <4>6
    <3>6. V!Shows(t, m, 10)
      BY <1>a, <3>4, ShowsNumber
    <3>7. Len(text) <= Signed
      BY <1>c, <3>4, <3>5
    <3> QED BY <3>1, <3>5, <3>6, <3>7
  <2> QED BY <2>1, <2>2
<1> QED BY <1>2, <1>3, <1>4 DEF V!ShownAsItIs

-----------------------------------------------------------------------------
(* Texts put together from parts.                                          *)

\* u[k] is the first k parts, one behind the other.
Chained(part, n, u) == u[0] = <<>> /\ \A k \in 1..n : u[k] = u[k - 1] \o part[k]

\* In the first m parts, part k is behind those before it.
PartsInPlace(part, m, u) == \A k \in 1..m : \A j \in 1..Len(part[k]) : u[m][Len(u[k - 1]) + j] = part[k][j]

LEMMA ChainExists ==
  ASSUME NEW X, NEW n \in Nat, NEW part \in [1..n -> Seq(X)]
  PROVE  \E u \in [0..n -> Seq(X)] : Chained(part, n, u)
<1> DEFINE W == Seq(X)
           F == [k \in 1..n |-> [s \in W |-> s \o part[k]]]
<1>1. <<>> \in W
  BY EmptySeq
<1>2. F \in [1..n -> [W -> W]]
  BY ConcatProperties
<1>3. PICK g : Follows(F, <<>>, W, n, g)
  <2> HIDE DEF F, W
  <2> QED BY <1>1, <1>2, Recursion
<1>4. g \in [0..n -> W] /\ g[0] = <<>> /\ \A k \in 1..n : g[k] = F[k][g[k - 1]]
  <2> HIDE DEF F, W
  <2> QED BY <1>3 DEF Follows
<1>5. ASSUME NEW k \in 1..n PROVE g[k] = g[k - 1] \o part[k]
  <2>1. k - 1 \in 0..n /\ g[k - 1] \in W /\ F[k] = [s \in W |-> s \o part[k]]
    BY <1>4
  <2> HIDE DEF W
  <2> QED BY <1>4, <2>1
<1> HIDE DEF F
<1> QED BY <1>4, <1>5 DEF Chained

LEMMA ChainType ==
  ASSUME NEW X, NEW n \in Nat, NEW part \in [1..n -> Seq(X)], NEW u, Chained(part, n, u)
  PROVE  \A k \in 0..n : u[k] \in Seq(X)
<1> DEFINE P == {k \in 0..n : u[k] \in Seq(X)}
<1>1. 0 \in P
  <2>1. <<>> \in Seq(X)
    BY EmptySeq
  <2>2. u[0] \in Seq(X)
    BY <2>1, Zenon DEF Chained
  <2>3. 0 \in 0..n
    OBVIOUS
  <2> QED BY <2>2, <2>3, Zenon
<1>2. ASSUME NEW k \in 1..n, k - 1 \in P PROVE k \in P
  <2>1. u[k] = u[k - 1] \o part[k] /\ part[k] \in Seq(X) /\ u[k - 1] \in Seq(X)
    BY <1>2 DEF Chained
  <2>2. u[k - 1] \o part[k] \in Seq(X)
    BY <2>1, ConcatProperties
  <2>3. k \in 0..n
    OBVIOUS
  <2> QED BY <2>1, <2>2, <2>3, Zenon
<1>3. \A k \in 0..n : k \in P
  <2> HIDE DEF P
  <2> QED BY <1>1, <1>2, Upwards
<1> QED BY <1>3

\* The part k behind a is b.
PartBehind(part, u, k, a, b) ==
  /\ a \in Nat /\ b \in Nat /\ a = Len(u[k - 1]) /\ b = Len(part[k]) /\ Len(u[k]) = a + b
  /\ \A j \in 1..a : u[k][j] = u[k - 1][j]
  /\ \A j \in 1..b : u[k][a + j] = part[k][j]

LEMMA ChainStep ==
  ASSUME NEW X, NEW n \in Nat, NEW part \in [1..n -> Seq(X)], NEW u, Chained(part, n, u), NEW k \in 1..n
  PROVE  \E a, b : PartBehind(part, u, k, a, b)
<1>1. k - 1 \in 0..n /\ k \in 0..n
  OBVIOUS
<1>2. PICK s \in Seq(X), t \in Seq(X) : s = u[k - 1] /\ t = part[k]
  BY <1>1, ChainType
<1>3. u[k] = s \o t
  BY <1>2 DEF Chained
<1>4. /\ Len(s) \in Nat /\ Len(t) \in Nat /\ Len(u[k]) = Len(s) + Len(t)
      /\ \A j \in 1..Len(s) : u[k][j] = s[j]
      /\ \A j \in 1..Len(t) : u[k][Len(s) + j] = t[j]
  BY <1>3
<1> QED BY <1>2, <1>4 DEF PartBehind

LEMMA ChainParts ==
  ASSUME NEW X, NEW n \in Nat, NEW part \in [1..n -> Seq(X)], NEW u, Chained(part, n, u)
  PROVE  /\ \A k \in 0..n : Len(u[k]) \in Nat /\ Len(u[k]) <= Len(u[n])
         /\ PartsInPlace(part, n, u)
<1>0. \A k \in 0..n : Len(u[k]) \in Nat
  BY ChainType, LenProperties
<1> DEFINE P == {m \in 0..n : (\A k \in 0..m : Len(u[k]) <= Len(u[m])) /\ PartsInPlace(part, m, u)}
<1>1. 0 \in P
  <2>1. \A k \in 0..0 : Len(u[k]) <= Len(u[0])
    <3>1. 0 \in 0..n /\ Len(u[0]) \in Nat
      BY <1>0
    <3> QED BY <3>1
  <2> QED BY <2>1 DEF PartsInPlace
<1>2. ASSUME NEW m \in 1..n, m - 1 \in P PROVE m \in P
  <2>1. PICK a, b : PartBehind(part, u, m, a, b)
    BY ChainStep
  <2>2. /\ a \in Nat /\ b \in Nat /\ a = Len(u[m - 1]) /\ b = Len(part[m]) /\ Len(u[m]) = a + b
        /\ \A j \in 1..a : u[m][j] = u[m - 1][j]
        /\ \A j \in 1..b : u[m][a + j] = part[m][j]
    BY <2>1 DEF PartBehind
  <2>3. ASSUME NEW k \in 0..m PROVE Len(u[k]) <= Len(u[m])
    <3>1. CASE k = m
      BY <1>0, <3>1
    <3>2. CASE k # m
      <4>1. k \in 0..(m - 1) /\ k \in 0..n
        BY <3>2
      <4>2. Len(u[k]) <= a /\ Len(u[k]) \in Nat
        BY <1>0, <1>2, <2>2, <4>1
      <4> QED BY <2>2, <4>2
    <3> QED BY <3>1, <3>2
  <2>4. ASSUME NEW k \in 1..m, NEW j \in 1..Len(part[k]) PROVE u[m][Len(u[k - 1]) + j] = part[k][j]
    <3>1. CASE k = m
      BY <2>2, <3>1
    <3>2. CASE k # m
      <4>1. k \in 1..(m - 1) /\ k \in 0..(m - 1) /\ k \in 1..n
        BY <3>2
      <4>a. PICK c, d : PartBehind(part, u, k, c, d)
        BY <4>1, ChainStep
      <4>2. c \in Nat /\ d \in Nat /\ c = Len(u[k - 1]) /\ d = Len(part[k]) /\ Len(u[k]) = c + d
        BY <4>a DEF PartBehind
      <4>3. c + d <= a
        BY <1>2, <2>2, <4>1, <4>2
      <4>b. j \in 1..d
        BY <4>2
      <4>4. c + j \in 1..a
        <5>1. c \in Nat /\ d \in Nat /\ a \in Nat
          BY <2>2, <4>2
        <5> QED BY <4>3, <4>b, <5>1
      <4>5. u[m - 1][c + j] = part[k][j]
        <5>1. PartsInPlace(part, m - 1, u)
          BY <1>2
        <5> QED BY <4>1, <4>2, <5>1 DEF PartsInPlace
      <4> QED BY <2>2, <4>2, <4>4, <4>5
    <3> QED BY <3>1, <3>2
  <2>5. PartsInPlace(part, m, u)
    BY <2>4 DEF PartsInPlace
  <2> QED BY <2>3, <2>5
<1>3. \A m \in 0..n : m \in P
  <2> HIDE DEF P
  <2> QED BY <1>1, <1>2, Upwards
<1>4. n \in P
  <2> HIDE DEF P
  <2> QED BY <1>3
<1> QED BY <1>0, <1>4

-----------------------------------------------------------------------------
(* Demangle: the loop over a mangled name.                                 *)

\* The number of digits of a length, and where name k begins in the joined names.
Wide(l) == IF l < 10 THEN 1 ELSE 2
Begins(q, k) == IF k = 1 THEN 0 ELSE q[k - 1] + 1

\* A call of Demangle: n names of len[k] characters in a buffer of max bytes.  The text has
\* the first k names with their lengths up to p[k], with an N and an E around several ones
\* (off = 1) and without its last character when it is cut; the joined names have them up
\* to q[k].
TextLaid(x) ==
  /\ x.p \in [0..x.n -> Nat] /\ x.p[0] = x.off
  /\ \A k \in 1..x.n : x.p[k] = x.p[k - 1] + Wide(x.len[k]) + x.len[k] /\ x.p[k] <= x.p[x.n]
  /\ x.size \in Nat /\ x.size = x.p[x.n] + x.off - x.cut /\ Len(x.text) = x.size
  /\ x.text \in [1..x.size -> 0..255]
  /\ x.off = 1 => x.text[1] = 78
  /\ x.off = 1 /\ x.cut = 0 => x.text[x.size] = 69
  /\ \A k \in 1..x.n : x.len[k] < 10 => x.text[x.p[k - 1] + 1] = 48 + x.len[k]
  /\ \A k \in 1..x.n : x.len[k] >= 10 => /\ x.text[x.p[k - 1] + 1] = 48 + x.len[k] \div 10
                                         /\ x.text[x.p[k - 1] + 2] = 48 + (x.len[k] % 10)
  /\ \A k \in 1..x.n : \A i \in 1..x.len[k] :
       x.p[k - 1] + Wide(x.len[k]) + i <= x.size => x.text[x.p[k - 1] + Wide(x.len[k]) + i] = x.name[k][i]

NamesJoined(x) ==
  /\ x.q \in [0..x.n -> Nat] /\ x.q[0] = 0
  /\ \A k \in 1..x.n : x.q[k] = Begins(x.q, k) + x.len[k] /\ x.q[k] <= x.q[x.n]
  /\ x.joined \in [1..x.q[x.n] -> 1..255]
  /\ \A k \in 2..x.n : x.joined[x.q[k - 1] + 1] = 46
  /\ \A k \in 1..x.n : \A i \in 1..x.len[k] : x.joined[Begins(x.q, k) + i] = x.name[k][i]
  /\ \A k \in 1..x.n : x.joined[x.q[k]] # 46

Called(x) ==
  /\ x.n \in Nat \ {0} /\ x.max \in Nat \ {0} /\ x.cut \in {0, 1}
  /\ x.off = IF x.n = 1 THEN 0 ELSE 1
  /\ x.len \in [1..x.n -> 1..99]
  /\ \A k \in 1..x.n : x.name[k][1] \in 0..255 /\ x.name[k][1] \notin 48..57
  /\ TextLaid(x) /\ NamesJoined(x)

DemangleState(max) ==
  [i : Nat, numberStart : BOOLEAN, number : Nat, length : Nat, max : {max}, returned : BOOLEAN,
   buffer : [0..(max - 1) -> 0..255]]

\* The first l characters of the joined names and their zero are in the buffer.
Filled(x, b, l) ==
  /\ l < x.max /\ b[l] = 0
  /\ \A i \in 0..(l - 1) : b[i] = x.joined[i + 1]
  /\ \A i \in (l + 1)..(x.max - 1) : b[i] = 122

Fresh(x, s, k) == ~s.returned /\ s.length = x.q[k] /\ Filled(x, s.buffer, x.q[k])

\* Behind name k, behind d digits of the length of name k, at either end of the text.
Between(x, s, k) ==
  k \in 0..x.n /\ s.i = x.p[k] /\ s.i <= x.size /\ ~s.numberStart /\ s.number = 0 /\ Fresh(x, s, k)
Reading(x, s, k, d) ==
  /\ k \in 1..x.n /\ d \in 1..Wide(x.len[k]) /\ s.i = x.p[k - 1] + d /\ s.numberStart
  /\ s.number = (IF d = Wide(x.len[k]) THEN x.len[k] ELSE x.len[k] \div 10)
  /\ Fresh(x, s, k - 1)
Before(x, s) == x.off = 1 /\ s.i = 0 /\ ~s.numberStart /\ s.number = 0 /\ Fresh(x, s, 0)
Over(x, s)   == x.off = 1 /\ s.i = x.size /\ x.cut = 0 /\ Fresh(x, s, x.n)

\* What Demangle returns.
Ends(x, l, b) ==
  /\ l \in Nat /\ l < x.max
  /\ x.cut = 0 => /\ l <= x.q[x.n] /\ \A i \in 1..l : b[i - 1] = x.joined[i]
                  /\ x.q[x.n] < x.max => l = x.q[x.n]
  /\ (l > 0 /\ b[l - 1] = 46) <=> \A i \in 0..(x.max - 1) : b[i] # 0

OnTheWay(x, s) ==
  (\E k : Between(x, s, k)) \/ (\E k, d : Reading(x, s, k, d)) \/ Before(x, s) \/ Over(x, s)
Demangling(x, s) ==
  s \in DemangleState(x.max) /\ (OnTheWay(x, s) \/ (s.returned /\ Ends(x, s.length, s.buffer)))

\* The steps of the loop on the record.
LEMMA DigitTurn ==
  ASSUME NEW m, NEW s \in DemangleState(m), NEW c \in 48..57, NEW t, t = D!Digit(s, c)
  PROVE  /\ t \in DemangleState(m) /\ t.i = s.i + 1 /\ t.numberStart /\ t.number = s.number * 10 + (c - 48)
         /\ t.length = s.length /\ t.returned = s.returned /\ t.buffer = s.buffer
<1>1. s.number * 10 + (c - 48) \in Nat /\ s.i + 1 \in Nat
  BY DEF DemangleState
<1> QED BY <1>1 DEF D!Digit, DemangleState

LEMMA SkipTurn ==
  ASSUME NEW m, NEW s \in DemangleState(m), NEW t, t = D!Skip(s)
  PROVE  /\ t \in DemangleState(m) /\ t.i = s.i + 1 /\ t.numberStart = s.numberStart /\ t.number = s.number
         /\ t.length = s.length /\ t.returned = s.returned /\ t.buffer = s.buffer
<1>1. s.i + 1 \in Nat
  BY DEF DemangleState
<1> QED BY <1>1 DEF D!Skip, DemangleState

LEMMA ReturnTurn ==
  ASSUME NEW m, NEW s \in DemangleState(m), NEW l \in Nat, NEW t, t = D!Return(s, l)
  PROVE  t \in DemangleState(m) /\ t.length = l /\ t.returned /\ t.buffer = s.buffer
BY DEF D!Return, DemangleState

\* The values of a call that the steps use.
LEMMA CalledTypes ==
  ASSUME NEW x, Called(x)
  PROVE  /\ x.n \in Nat \ {0} /\ x.max \in Nat \ {0} /\ x.cut \in {0, 1} /\ x.off \in {0, 1}
         /\ x.size \in Nat /\ Len(x.text) = x.size /\ x.size = x.p[x.n] + x.off - x.cut
         /\ \A k \in 0..x.n : x.p[k] \in Nat /\ x.q[k] \in Nat /\ x.p[k] <= x.p[x.n] /\ x.q[k] <= x.q[x.n]
         /\ \A k \in 1..x.n : x.len[k] \in 1..99 /\ Wide(x.len[k]) \in 1..2
<1>1. /\ x.n \in Nat \ {0} /\ x.max \in Nat \ {0} /\ x.cut \in {0, 1} /\ x.off \in {0, 1}
      /\ x.len \in [1..x.n -> 1..99] /\ TextLaid(x) /\ NamesJoined(x)
  BY DEF Called
<1>2. x.size \in Nat /\ Len(x.text) = x.size /\ x.size = x.p[x.n] + x.off - x.cut
  BY <1>1 DEF TextLaid
<1>3. ASSUME NEW k \in 0..x.n PROVE x.p[k] \in Nat /\ x.q[k] \in Nat /\ x.p[k] <= x.p[x.n] /\ x.q[k] <= x.q[x.n]
  <2>1. x.p \in [0..x.n -> Nat] /\ x.q \in [0..x.n -> Nat] /\ x.n \in 0..x.n
    BY <1>1 DEF TextLaid, NamesJoined
  <2>2. \A j \in 1..x.n : x.p[j] <= x.p[x.n] /\ x.q[j] <= x.q[x.n]
    BY <1>1 DEF TextLaid, NamesJoined
  <2>3. x.p[0] = x.off /\ x.q[0] = 0
    BY <1>1 DEF TextLaid, NamesJoined
  <2>4. x.p[0] <= x.p[x.n]
    <3>0. 1 \in 1..x.n /\ 1 \in 0..x.n /\ 1 - 1 = 0
      BY <1>1
    <3>1. x.p[1] = x.p[1 - 1] + Wide(x.len[1]) + x.len[1]
      BY <1>1, <3>0, Zenon DEF TextLaid
    <3>2. x.p[0] \in Nat /\ x.p[1] \in Nat /\ x.p[x.n] \in Nat
      BY <1>1, <2>1
    <3>3. x.p[1] <= x.p[x.n] /\ x.len[1] \in 1..99
      BY <1>1, <2>2, <3>0
    <3>4. PICK w \in 1..2 : w = Wide(x.len[1])
      BY DEF Wide
    <3>5. x.p[1] = x.p[0] + w + x.len[1]
      BY <3>0, <3>1, <3>4
    <3> QED BY <3>2, <3>3, <3>5
  <2>5. x.q[0] <= x.q[x.n]
    BY <2>1, <2>3
  <2>6. CASE k = 0
    BY <2>1, <2>4, <2>5, <2>6
  <2>7. CASE k # 0
    <3>1. k \in 1..x.n
      BY <2>7
    <3> QED BY <2>1, <2>2, <3>1
  <2> QED BY <2>6, <2>7
<1>4. ASSUME NEW k \in 1..x.n PROVE x.len[k] \in 1..99 /\ Wide(x.len[k]) \in 1..2
  <2>1. x.len[k] \in 1..99
    BY <1>1
  <2>2. Wide(x.len[k]) \in 1..2
    BY DEF Wide
  <2> QED BY <2>1, <2>2
<1> QED BY <1>1, <1>2, <1>3, <1>4

\* Name k in the text and in the joined names.
LEMMA CalledName ==
  ASSUME NEW x, Called(x), NEW k \in 1..x.n
  PROVE  /\ x.p[k] = x.p[k - 1] + Wide(x.len[k]) + x.len[k]
         /\ x.q[k] = Begins(x.q, k) + x.len[k]
         /\ x.len[k] < 10 => x.text[x.p[k - 1] + 1] = 48 + x.len[k]
         /\ x.len[k] >= 10 => /\ x.text[x.p[k - 1] + 1] = 48 + x.len[k] \div 10
                              /\ x.text[x.p[k - 1] + 2] = 48 + (x.len[k] % 10)
         /\ \A i \in 1..x.len[k] :
              x.p[k - 1] + Wide(x.len[k]) + i <= x.size => x.text[x.p[k - 1] + Wide(x.len[k]) + i] = x.name[k][i]
         /\ \A i \in 1..x.len[k] : x.joined[Begins(x.q, k) + i] = x.name[k][i]
         /\ x.joined[x.q[k]] # 46
         /\ x.name[k][1] \in 0..255 /\ x.name[k][1] \notin 48..57
         /\ k - 1 \in 0..x.n /\ k \in 0..x.n
<1>1. TextLaid(x) /\ NamesJoined(x) /\ x.n \in Nat /\ x.name[k][1] \in 0..255 /\ x.name[k][1] \notin 48..57
  <2>1. TextLaid(x) /\ NamesJoined(x) /\ x.n \in Nat \ {0}
    BY DEF Called
  <2>2. x.name[k][1] \in 0..255 /\ x.name[k][1] \notin 48..57
    BY ZenonT(40) DEF Called
  <2> QED BY <2>1, <2>2
<1>2. /\ x.p[k] = x.p[k - 1] + Wide(x.len[k]) + x.len[k]
      /\ x.len[k] < 10 => x.text[x.p[k - 1] + 1] = 48 + x.len[k]
      /\ x.len[k] >= 10 => /\ x.text[x.p[k - 1] + 1] = 48 + x.len[k] \div 10
                           /\ x.text[x.p[k - 1] + 2] = 48 + (x.len[k] % 10)
  BY <1>1 DEF TextLaid
<1>3. \A i \in 1..x.len[k] :
        x.p[k - 1] + Wide(x.len[k]) + i <= x.size => x.text[x.p[k - 1] + Wide(x.len[k]) + i] = x.name[k][i]
  BY <1>1, ZenonT(40) DEF TextLaid
<1>4. x.q[k] = Begins(x.q, k) + x.len[k] /\ x.joined[x.q[k]] # 46
  BY <1>1 DEF NamesJoined
<1>5. \A i \in 1..x.len[k] : x.joined[Begins(x.q, k) + i] = x.name[k][i]
  BY <1>1 DEF NamesJoined
<1>6. k - 1 \in 0..x.n /\ k \in 0..x.n
  BY <1>1
<1> QED BY <1>1, <1>2, <1>3, <1>4, <1>5, <1>6

\* One more digit of a length.
LEMMA TakesDigit ==
  ASSUME NEW x, NEW s \in DemangleState(x.max), NEW t, t = D!Turn(x.text, s), ~s.returned, s.i # Len(x.text),
         x.text[s.i + 1] \in 48..57
  PROVE  t = D!Digit(s, x.text[s.i + 1])
BY DEF D!Turn, D!Digits

LEMMA SkipsCharacter ==
  ASSUME NEW x, NEW s \in DemangleState(x.max), NEW t, t = D!Turn(x.text, s), ~s.returned, s.i # Len(x.text),
         x.text[s.i + 1] \notin 48..57, ~s.numberStart
  PROVE  t = D!Skip(s)
BY DEF D!Turn, D!Digits

LEMMA BetweenTurn ==
  ASSUME NEW x, Called(x), NEW s \in DemangleState(x.max), NEW k, Between(x, s, k), s.i # x.size,
         NEW t, t = D!Turn(x.text, s)
  PROVE  t \in DemangleState(x.max) /\ OnTheWay(x, t) /\ t.i > s.i
<1>1. k \in 0..x.n /\ s.i = x.p[k] /\ s.i <= x.size /\ ~s.numberStart /\ s.number = 0 /\ Fresh(x, s, k)
  BY DEF Between
<1>2. s.i \in Nat /\ ~s.returned /\ s.i # Len(x.text) /\ s.i + 1 > s.i /\ s.i + 1 <= x.size
  <2>1. s.i \in Nat /\ ~s.returned
    BY <1>1 DEF DemangleState, Fresh
  <2>2. x.size \in Nat /\ Len(x.text) = x.size
    BY CalledTypes
  <2> QED BY <1>1, <2>1, <2>2
<1>3. CASE k # x.n
  <2>1. PICK j \in 1..x.n : j = k + 1 /\ j - 1 = k
    <3>1. x.n \in Nat
      BY CalledTypes
    <3>2. k + 1 \in 1..x.n /\ (k + 1) - 1 = k
      BY <1>1, <1>3, <3>1
    <3> QED BY <3>2
  <2>2. PICK l \in 1..99 : l = x.len[j]
    BY CalledTypes
  <2>3. PICK c \in 48..57 : c = x.text[s.i + 1] /\ c - 48 = (IF 1 = Wide(l) THEN l ELSE l \div 10)
    <3>1. l < 10 => x.text[s.i + 1] = 48 + l
      BY <1>1, <2>1, <2>2, CalledName
    <3>2. l >= 10 => x.text[s.i + 1] = 48 + l \div 10
      BY <1>1, <2>1, <2>2, CalledName
    <3>3. CASE l < 10
      <4>1. 48 + l \in 48..57 /\ (48 + l) - 48 = l /\ Wide(l) = 1
        BY <3>3 DEF Wide
      <4> QED BY <3>1, <3>3, <4>1
    <3>4. CASE l >= 10
      <4>1. 48 + l \div 10 \in 48..57 /\ (48 + l \div 10) - 48 = l \div 10 /\ Wide(l) = 2
        BY <3>4 DEF Wide
      <4> QED BY <3>2, <3>4, <4>1
    <3> QED BY <3>3, <3>4
  <2>4. t = D!Digit(s, c)
    BY <1>1, <1>2, <2>3, TakesDigit
  <2>5. /\ t \in DemangleState(x.max) /\ t.i = s.i + 1 /\ t.numberStart /\ t.number = s.number * 10 + (c - 48)
        /\ t.length = s.length /\ t.returned = s.returned /\ t.buffer = s.buffer
    BY <2>4, DigitTurn
  <2>6. Fresh(x, t, j - 1)
    BY <1>1, <2>1, <2>5 DEF Fresh
  <2>7. t.number = (IF 1 = Wide(x.len[j]) THEN x.len[j] ELSE x.len[j] \div 10)
    <3>1. s.number * 10 + (c - 48) = c - 48
      BY <1>1
    <3> QED BY <2>2, <2>3, <2>5, <3>1
  <2>8. Reading(x, t, j, 1)
    <3>1. 1 \in 1..Wide(x.len[j])
      BY DEF Wide
    <3> QED BY <1>1, <2>1, <2>5, <2>6, <2>7, <3>1 DEF Reading
  <2> QED BY <1>2, <2>5, <2>8 DEF OnTheWay
<1>4. CASE k = x.n
  <2>1. x.off = 1 /\ x.cut = 0 /\ s.i + 1 = x.size /\ x.text[x.size] = 69
    <3>1. /\ x.cut \in {0, 1} /\ x.off \in {0, 1} /\ x.size \in Nat /\ x.size = x.p[x.n] + x.off - x.cut
      BY CalledTypes
    <3>2. x.off = 1 /\ x.cut = 0 /\ s.i + 1 = x.size
      BY <1>1, <1>2, <1>4, <3>1
    <3> QED BY <3>2 DEF Called, TextLaid
  <2>2. t = D!Skip(s)
    <3>1. x.text[s.i + 1] \notin 48..57
      BY <2>1
    <3> QED BY <1>1, <1>2, <3>1, SkipsCharacter
  <2>3. /\ t \in DemangleState(x.max) /\ t.i = s.i + 1
        /\ t.length = s.length /\ t.returned = s.returned /\ t.buffer = s.buffer
    BY <2>2, SkipTurn
  <2>4. Fresh(x, t, x.n)
    BY <1>1, <1>4, <2>3 DEF Fresh
  <2>5. Over(x, t)
    BY <2>1, <2>3, <2>4 DEF Over
  <2> QED BY <1>2, <2>3, <2>5 DEF OnTheWay
<1> QED BY <1>3, <1>4

LEMMA BeforeTurn ==
  ASSUME NEW x, Called(x), NEW s \in DemangleState(x.max), Before(x, s), s.i # x.size,
         NEW t, t = D!Turn(x.text, s)
  PROVE  t \in DemangleState(x.max) /\ OnTheWay(x, t) /\ t.i > s.i
<1>1. x.off = 1 /\ s.i = 0 /\ ~s.numberStart /\ s.number = 0 /\ Fresh(x, s, 0) /\ ~s.returned
  BY DEF Before, Fresh
<1>2. x.text[s.i + 1] = 78 /\ x.p[0] = 1 /\ s.i + 1 = 1
  BY <1>1 DEF Called, TextLaid
<1>3. t = D!Skip(s)
  <2>1. x.text[s.i + 1] \notin 48..57
    BY <1>2
  <2>2. Len(x.text) = x.size
    BY CalledTypes
  <2> QED BY <1>1, <2>1, <2>2, SkipsCharacter
<1>4. /\ t \in DemangleState(x.max) /\ t.i = s.i + 1 /\ t.numberStart = s.numberStart /\ t.number = s.number
      /\ t.length = s.length /\ t.returned = s.returned /\ t.buffer = s.buffer
  BY <1>3, SkipTurn
<1>5. Fresh(x, t, 0)
  BY <1>1, <1>4 DEF Fresh
<1>6. 0 \in 0..x.n /\ 1 <= x.size
  <2>1. x.n \in Nat /\ x.size \in Nat /\ x.size # 0
    BY <1>1, CalledTypes
  <2> QED BY <2>1
<1>7. Between(x, t, 0)
  BY <1>1, <1>2, <1>4, <1>5, <1>6 DEF Between
<1> QED BY <1>1, <1>2, <1>4, <1>7 DEF OnTheWay

LEMMA BehindAName ==
  ASSUME NEW x, Called(x), NEW k \in 1..x.n
  PROVE  /\ k = 1 => x.q[k - 1] = 0
         /\ k # 1 => x.q[k - 1] > 0 /\ x.joined[x.q[k - 1] + 1] = 46 /\ x.joined[x.q[k - 1]] # 46
<1>0. x.n \in Nat /\ NamesJoined(x)
  BY DEF Called
<1>1. CASE k = 1
  <2>1. k - 1 = 0 /\ x.q[0] = 0
    BY <1>0, <1>1 DEF NamesJoined
  <2> QED BY <1>1, <2>1
<1>2. CASE k # 1
  <2>1. PICK j \in 1..x.n : j = k - 1
    <3>1. k - 1 \in 1..x.n
      BY <1>0, <1>2
    <3> QED BY <3>1
  <2>2. x.q[j] = Begins(x.q, j) + x.len[j] /\ x.joined[x.q[j]] # 46 /\ j - 1 \in 0..x.n
    BY CalledName
  <2>3. x.q[j] > 0
    <3>1. x.q[j - 1] \in Nat /\ x.len[j] \in 1..99
      BY <2>2, CalledTypes
    <3>2. PICK g \in Nat : g = Begins(x.q, j)
      BY <3>1 DEF Begins
    <3> QED BY <2>2, <3>1, <3>2
  <2>4. x.joined[x.q[k - 1] + 1] = 46
    <3>1. k \in 2..x.n
      BY <1>2
    <3> QED BY <1>0, <3>1 DEF NamesJoined
  <2> QED BY <1>2, <2>1, <2>2, <2>3, <2>4
<1> QED BY <1>1, <1>2

\* The characters of the joined names.
LEMMA JoinedCharacter ==
  ASSUME NEW x, Called(x), NEW i \in 1..x.q[x.n]
  PROVE  x.joined[i] # 0
<1>1. x.joined \in [1..x.q[x.n] -> 1..255]
  BY DEF Called, NamesJoined
<1>2. x.joined[i] \in 1..255
  BY <1>1
<1>3. 0 \notin 1..255
  OBVIOUS
<1> QED BY <1>2, <1>3, Zenon

\* Nothing is returned of a text whose end is missing.
LEMMA EndsWithNothing ==
  ASSUME NEW x, Called(x), x.cut = 1, NEW k \in 0..x.n, NEW b, Filled(x, b, x.q[k])
  PROVE  Ends(x, 0, b)
<1>1. x.max \in Nat \ {0} /\ x.q[k] \in Nat
  BY CalledTypes
<1>2. x.q[k] \in 0..(x.max - 1) /\ b[x.q[k]] = 0
  BY <1>1 DEF Filled
<1> QED BY <1>1, <1>2 DEF Ends

\* The first k names are returned.
LEMMA EndsBehindName ==
  ASSUME NEW x, Called(x), NEW k \in 0..x.n, NEW b, Filled(x, b, x.q[k]),
         x.cut = 0 /\ x.q[x.n] < x.max => k = x.n
  PROVE  Ends(x, x.q[k], b)
<1>1. PICK l \in Nat : l = x.q[k] /\ l <= x.q[x.n] /\ x.q[x.n] \in Nat /\ x.max \in Nat
  <2>1. x.n \in 0..x.n
    BY CalledTypes
  <2> QED BY <2>1, CalledTypes
<1>2. l < x.max /\ b[l] = 0 /\ \A i \in 0..(l - 1) : b[i] = x.joined[i + 1]
  BY <1>1 DEF Filled
<1>3. \A i \in 1..l : b[i - 1] = x.joined[i]
  <2>1. \A i \in 1..l : i - 1 \in 0..(l - 1) /\ (i - 1) + 1 = i
    BY <1>1
  <2> QED BY <1>2, <2>1
<1>4. l > 0 => b[l - 1] # 46
  <2>1. CASE k = 0
    <3>1. x.q[0] = 0
      BY DEF Called, NamesJoined
    <3> QED BY <1>1, <2>1, <3>1
  <2>2. CASE k # 0
    <3>1. k \in 1..x.n
      BY <2>2
    <3>2. x.joined[l] # 46
      BY <1>1, <3>1, CalledName
    <3>3. l > 0 => l \in 1..l
      BY <1>1
    <3> QED BY <1>3, <3>2, <3>3
  <2> QED BY <2>1, <2>2
<1>5. ~\A i \in 0..(x.max - 1) : b[i] # 0
  <2>1. l \in 0..(x.max - 1)
    BY <1>1, <1>2
  <2> QED BY <1>2, <2>1
<1>6. x.cut = 0 => l <= x.q[x.n] /\ (x.q[x.n] < x.max => l = x.q[x.n])
  BY <1>1
<1>7. Ends(x, l, b)
  BY <1>1, <1>2, <1>3, <1>4, <1>5, <1>6 DEF Ends
<1> QED BY <1>1, <1>7

\* A dot is returned behind the names that fit: it has replaced the zero.
LEMMA EndsWithDot ==
  ASSUME NEW x, Called(x), NEW k \in 1..x.n, k # 1, NEW b \in [0..(x.max - 1) -> 0..255],
         Filled(x, b, x.q[k - 1]), x.q[k - 1] + 1 < x.max, x.q[k] >= x.max
  PROVE  Ends(x, x.q[k - 1] + 1, [b EXCEPT ![x.q[k - 1]] = 46])
<1>1. PICK a \in Nat : a = x.q[k - 1]
  <2>1. k - 1 \in 0..x.n
    BY CalledName
  <2> QED BY <2>1, CalledTypes
<1>2. a > 0 /\ x.joined[a + 1] = 46 /\ x.max \in Nat
  BY <1>1, BehindAName, CalledTypes
<1>3. PICK c : c = [b EXCEPT ![a] = 46]
  OBVIOUS
<1>4. /\ a < x.max
      /\ \A i \in 0..(a - 1) : b[i] = x.joined[i + 1]
      /\ \A i \in (a + 1)..(x.max - 1) : b[i] = 122
  BY <1>1 DEF Filled
<1>5. a \in 0..(x.max - 1)
  BY <1>2, <1>4
<1>6. c[a] = 46 /\ \A i \in 0..(x.max - 1) : i # a => c[i] = b[i]
  BY <1>3, <1>5
<1>7. a + 1 <= x.q[x.n] /\ x.q[x.n] >= x.max /\ x.q[x.n] \in Nat
  <2>1. k \in 0..x.n /\ x.n \in 0..x.n
    BY CalledName, CalledTypes
  <2>2. x.q[k] \in Nat /\ x.q[x.n] \in Nat /\ x.q[k] <= x.q[x.n]
    BY <2>1, CalledTypes
  <2>3. a + 1 < x.max /\ x.q[k] >= x.max
    BY <1>1
  <2> QED BY <1>2, <2>2, <2>3
<1>8. \A i \in 1..(a + 1) : c[i - 1] = x.joined[i]
  <2>1. ASSUME NEW i \in 1..(a + 1) PROVE c[i - 1] = x.joined[i]
    <3>1. CASE i = a + 1
      BY <1>2, <1>6, <3>1
    <3>2. CASE i # a + 1
      <4>1. i - 1 \in 0..(a - 1) /\ i - 1 \in 0..(x.max - 1) /\ i - 1 # a /\ (i - 1) + 1 = i
        BY <1>2, <1>4, <3>2
      <4>2. c[i - 1] = b[i - 1] /\ b[i - 1] = x.joined[(i - 1) + 1]
        BY <1>4, <1>6, <4>1
      <4> QED BY <4>1, <4>2
    <3> QED BY <3>1, <3>2
  <2> QED BY <2>1
<1>9. \A i \in 0..(x.max - 1) : c[i] # 0
  <2>1. ASSUME NEW i \in 0..(x.max - 1) PROVE c[i] # 0
    <3>1. CASE i < a
      <4>1. i + 1 \in 1..(a + 1) /\ (i + 1) - 1 = i /\ i + 1 \in 1..x.q[x.n]
        BY <1>7, <3>1
      <4>2. x.joined[i + 1] # 0
        BY <4>1, JoinedCharacter
      <4>3. c[i] = x.joined[i + 1]
        BY <1>8, <4>1
      <4> QED BY <4>2, <4>3
    <3>2. CASE i = a
      BY <1>6, <3>2
    <3>3. CASE i > a
      <4>1. i \in (a + 1)..(x.max - 1) /\ i # a
        BY <3>3
      <4>2. b[i] = 122
        BY <1>4, <4>1
      <4>3. c[i] = b[i]
        BY <1>6, <4>1
      <4> QED BY <4>2, <4>3
    <3> QED BY <3>1, <3>2, <3>3
  <2> QED BY <2>1
<1>10. a + 1 > 0 /\ c[(a + 1) - 1] = 46 /\ a + 1 \in Nat /\ a + 1 < x.max /\ ~(x.q[x.n] < x.max)
  BY <1>1, <1>2, <1>6, <1>7, SMTT(30)
<1>11. Ends(x, a + 1, c)
  BY <1>7, <1>8, <1>9, <1>10 DEF Ends
<1> QED BY <1>1, <1>3, <1>11

LEMMA ResetTurn ==
  ASSUME NEW m, NEW s \in DemangleState(m), NEW t, t = D!Reset(s)
  PROVE  /\ t \in DemangleState(m) /\ ~t.numberStart /\ t.number = 0
         /\ t.i = s.i /\ t.length = s.length /\ t.returned = s.returned /\ t.buffer = s.buffer
BY DEF D!Reset, DemangleState

LEMMA OneByte ==
  ASSUME NEW m \in Nat, NEW b \in [0..(m - 1) -> 0..255], NEW i, NEW c \in 0..255
  PROVE  [b EXCEPT ![i] = c] \in [0..(m - 1) -> 0..255]
OBVIOUS

Lengthened(s, i, l, b) == [s EXCEPT !.i = i, !.length = l, !.buffer = b]

LongerBy(m, s, i, l, b, t) ==
  t \in DemangleState(m) /\ t.i = i /\ t.length = l /\ t.returned = s.returned /\ t.buffer = b

LEMMA LongerTurn ==
  ASSUME NEW m, NEW s \in DemangleState(m), NEW i \in Nat, NEW l \in Nat, NEW b \in [0..(m - 1) -> 0..255],
         NEW t, t = Lengthened(s, i, l, b)
  PROVE  LongerBy(m, s, i, l, b, t)
BY DEF Lengthened, LongerBy, DemangleState

\* The name in the text behind s.i is in the buffer from a to e, with a zero behind it.
CopyDone(m, s, text, a, e, t) ==
  /\ t \in DemangleState(m) /\ t.i = s.i + s.number /\ ~t.numberStart /\ t.number = 0
  /\ t.length = e /\ t.returned = s.returned
  /\ \A j \in 0..(m - 1) :
       t.buffer[j] = IF j = e THEN 0
                     ELSE IF j \in a..(e - 1) THEN text[s.i + (j - a) + 1] ELSE D!Dotted(s)[j]

LEMMA CopyTurn ==
  ASSUME NEW m, m \in Nat, NEW s \in DemangleState(m), NEW text, NEW a \in Nat, a = D!Start(s),
         NEW e \in Nat, e = a + s.number, e < m,
         \A j \in a..(e - 1) : text[s.i + (j - a) + 1] \in 0..255,
         NEW t, t = D!Copy(text, s)
  PROVE  CopyDone(m, s, text, a, e, t)
<1> DEFINE B == [j \in 0..(m - 1) |-> IF j = e THEN 0
                            ELSE IF j \in a..(e - 1) THEN text[s.i + (j - a) + 1] ELSE D!Dotted(s)[j]]
<1>1. s.buffer \in [0..(m - 1) -> 0..255] /\ s.i \in Nat /\ s.number \in Nat /\ s.i + s.number \in Nat
  BY SMTT(30) DEF DemangleState
<1>2. D!Dotted(s) \in [0..(m - 1) -> 0..255]
  <2>1. [s.buffer EXCEPT ![s.length] = 46] \in [0..(m - 1) -> 0..255]
    <3>1. 46 \in 0..255
      OBVIOUS
    <3>2. PICK c \in 0..255 : c = 46
      BY <3>1
    <3>3. [s.buffer EXCEPT ![s.length] = c] \in [0..(m - 1) -> 0..255]
      BY <1>1, OneByte, Zenon
    <3> QED BY <3>2, <3>3
  <2>2. D!Dotted(s) = [s.buffer EXCEPT ![s.length] = 46] \/ D!Dotted(s) = s.buffer
    BY DEF D!Dotted, D!DOT
  <2> QED BY <1>1, <2>1, <2>2, Zenon
<1>3. B \in [0..(m - 1) -> 0..255]
  <2>1. ASSUME NEW j \in 0..(m - 1)
        PROVE  (IF j = e THEN 0 ELSE IF j \in a..(e - 1) THEN text[s.i + (j - a) + 1] ELSE D!Dotted(s)[j]) \in 0..255
    <3>1. D!Dotted(s)[j] \in 0..255
      BY <1>2
    <3> QED BY <3>1
  <2> QED BY <2>1
<1>4. PICK b : b = B
  OBVIOUS
<1>5. t = D!Reset([s EXCEPT !.i = @ + s.number, !.length = e, !.buffer = b])
  <2>1. DOMAIN s.buffer = 0..(m - 1)
    BY <1>1
  <2> QED BY <1>4, <2>1 DEF D!Copy, D!NUL
<1>6. b \in [0..(m - 1) -> 0..255]
  BY <1>3, <1>4
<1>7. /\ t \in DemangleState(m) /\ t.i = s.i + s.number /\ ~t.numberStart /\ t.number = 0
      /\ t.length = e /\ t.returned = s.returned /\ t.buffer = b
  <2> HIDE DEF B
  <2>1. PICK r : r = [s EXCEPT !.i = @ + s.number, !.length = e, !.buffer = b]
    OBVIOUS
  <2>2. r \in DemangleState(m) /\ r.i = s.i + s.number /\ r.length = e /\ r.returned = s.returned /\ r.buffer = b
    <3>1. PICK i \in Nat : i = s.i + s.number
      BY <1>1
    <3>2. r = Lengthened(s, i, e, b)
      BY <2>1, <3>1 DEF Lengthened
    <3>3. LongerBy(m, s, i, e, b, r)
      BY <1>6, <3>2, LongerTurn
    <3> QED BY <3>1, <3>3 DEF LongerBy
  <2>3. t = D!Reset(r)
    BY <1>5, <2>1
  <2>4. /\ t \in DemangleState(m) /\ ~t.numberStart /\ t.number = 0
        /\ t.i = r.i /\ t.length = r.length /\ t.returned = r.returned /\ t.buffer = r.buffer
    BY <2>2, <2>3, ResetTurn
  <2> QED BY <2>2, <2>4
<1>8. \A j \in 0..(m - 1) : b[j] = IF j = e THEN 0
        ELSE IF j \in a..(e - 1) THEN text[s.i + (j - a) + 1] ELSE D!Dotted(s)[j]
  BY <1>4
<1> HIDE DEF B
<1> QED BY <1>7, <1>8, ZenonT(40) DEF CopyDone

\* The second digit of a length.
LEMMA DigitAfterDigit ==
  ASSUME NEW x, Called(x), NEW s \in DemangleState(x.max), NEW k, NEW d, Reading(x, s, k, d), d # Wide(x.len[k]),
         NEW t, t = D!Turn(x.text, s)
  PROVE  t \in DemangleState(x.max) /\ OnTheWay(x, t) /\ t.i > s.i
<1>1. /\ k \in 1..x.n /\ d \in 1..Wide(x.len[k]) /\ s.i = x.p[k - 1] + d /\ s.numberStart
      /\ s.number = x.len[k] \div 10 /\ Fresh(x, s, k - 1) /\ ~s.returned
  BY DEF Reading, Fresh
<1>2. PICK l \in 1..99 : l = x.len[k]
  BY <1>1, CalledTypes
<1>3. d = 1 /\ Wide(l) = 2 /\ l >= 10
  BY <1>1, <1>2 DEF Wide
<1>4. PICK c \in 48..57 : c = x.text[s.i + 1] /\ (l \div 10) * 10 + (c - 48) = l
  <2>1. x.p[k - 1] \in Nat
    BY <1>1, CalledName, CalledTypes
  <2>2. x.text[x.p[k - 1] + 2] = 48 + (l % 10) /\ s.i + 1 = x.p[k - 1] + 2
    <3>1. x.text[x.p[k - 1] + 2] = 48 + (l % 10)
      BY <1>1, <1>2, <1>3, CalledName
    <3> QED BY <1>1, <1>3, <2>1, <3>1
  <2>3. 48 + (l % 10) \in 48..57 /\ (l \div 10) * 10 + ((48 + (l % 10)) - 48) = l
    OBVIOUS
  <2> QED BY <2>2, <2>3
<1>5. s.i # Len(x.text) /\ s.i + 1 > s.i
  <2>1. k - 1 \in 0..x.n /\ k \in 0..x.n /\ x.p[k] = x.p[k - 1] + Wide(x.len[k]) + x.len[k]
    BY <1>1, CalledName
  <2>2. x.n \in 0..x.n
    BY CalledTypes
  <2>3. x.p[k - 1] \in Nat /\ x.p[k] \in Nat /\ x.p[k] <= x.p[x.n] /\ x.p[x.n] \in Nat
    BY <2>1, <2>2, CalledTypes
  <2>4. x.cut \in {0, 1} /\ x.off \in {0, 1} /\ x.size = x.p[x.n] + x.off - x.cut /\ Len(x.text) = x.size
    BY CalledTypes
  <2>5. x.p[k] = x.p[k - 1] + 2 + l
    BY <1>2, <1>3, <2>1
  <2>6. x.size >= x.p[x.n] - 1
    BY <2>3, <2>4
  <2>7. s.i = x.p[k - 1] + 1
    BY <1>1, <1>3
  <2>8. PICK u \in Nat : u = x.p[k - 1]
    BY <2>3
  <2>9. s.i = u + 1 /\ x.p[x.n] >= u + 2 + l
    BY <2>3, <2>5, <2>7, <2>8
  <2>10. x.size >= u + 1 + l /\ x.size \in Int
    BY <2>3, <2>4, <2>6, <2>9
  <2> QED BY <2>4, <2>9, <2>10
<1>6. t = D!Digit(s, c)
  BY <1>1, <1>4, <1>5, TakesDigit
<1>7. /\ t \in DemangleState(x.max) /\ t.i = s.i + 1 /\ t.numberStart /\ t.number = s.number * 10 + (c - 48)
      /\ t.length = s.length /\ t.returned = s.returned /\ t.buffer = s.buffer
  BY <1>6, DigitTurn
<1>8. t.number = x.len[k]
  BY <1>1, <1>2, <1>4, <1>7
<1>9. Fresh(x, t, k - 1)
  BY <1>1, <1>7 DEF Fresh
<1>10. Reading(x, t, k, 2)
  <2>1. 2 \in 1..Wide(x.len[k]) /\ 2 = Wide(x.len[k])
    BY <1>2, <1>3
  <2>2. t.i = x.p[k - 1] + 2
    <3>1. x.p[k - 1] \in Nat
      BY <1>1, CalledName, CalledTypes
    <3> QED BY <1>1, <1>3, <1>7, <3>1
  <2> QED BY <1>1, <1>7, <1>8, <1>9, <2>1, <2>2 DEF Reading
<1> QED BY <1>5, <1>7, <1>10 DEF OnTheWay

LEMMA DotTurn ==
  ASSUME NEW m \in Nat, NEW s \in DemangleState(m), NEW l \in Nat,
         NEW t, t = D!Return([s EXCEPT !.buffer = D!Dotted(s)], l)
  PROVE  t \in DemangleState(m) /\ t.length = l /\ t.returned /\ t.buffer = D!Dotted(s)
<1>1. D!Dotted(s) \in [0..(m - 1) -> 0..255]
  <2>1. s.buffer \in [0..(m - 1) -> 0..255] /\ 46 \in 0..255
    BY DEF DemangleState
  <2>2. [s.buffer EXCEPT ![s.length] = 46] \in [0..(m - 1) -> 0..255]
    BY <2>1, OneByte, Zenon
  <2> QED BY <2>1, <2>2 DEF D!Dotted, D!DOT
<1>2. PICK r : r = [s EXCEPT !.buffer = D!Dotted(s)]
  OBVIOUS
<1>3. r \in DemangleState(m) /\ r.buffer = D!Dotted(s)
  BY <1>1, <1>2 DEF DemangleState
<1>4. t = D!Return(r, l)
  BY <1>2
<1>5. t \in DemangleState(m) /\ t.length = l /\ t.returned /\ t.buffer = r.buffer
  BY <1>3, <1>4, ReturnTurn
<1> QED BY <1>3, <1>5

\* Behind the whole length of name k, with l characters, at u + w in the text and a in the buffer.
Here(x, s, k, l, w, u, a) ==
  /\ k \in 1..x.n /\ k - 1 \in 0..x.n /\ k \in 0..x.n
  /\ l \in 1..99 /\ l = x.len[k] /\ w \in 1..2 /\ w = Wide(x.len[k])
  /\ u \in Nat /\ u = x.p[k - 1] /\ x.p[k] = u + w + l
  /\ a \in Nat /\ a = x.q[k - 1] /\ x.q[k] = (IF k = 1 THEN a ELSE a + 1) + l /\ (k = 1 <=> a = 0)
  /\ s.i = u + w /\ s.number = l /\ s.length = a /\ s.numberStart /\ ~s.returned
  /\ Filled(x, s.buffer, a) /\ s.i < x.size /\ u + w + l <= x.size + x.cut /\ x.size \in Nat
  /\ x.q[k] \in Nat /\ x.q[x.n] \in Nat /\ x.q[k] <= x.q[x.n] /\ x.max \in Nat /\ x.cut \in {0, 1}

LEMMA HereIs ==
  ASSUME NEW x, Called(x), NEW s \in DemangleState(x.max), NEW k, Reading(x, s, k, Wide(x.len[k])), s.i # x.size
  PROVE  \E l, w, u, a : Here(x, s, k, l, w, u, a)
<1>1. /\ k \in 1..x.n /\ s.i = x.p[k - 1] + Wide(x.len[k]) /\ s.number = x.len[k] /\ s.numberStart
      /\ ~s.returned /\ s.length = x.q[k - 1] /\ Filled(x, s.buffer, x.q[k - 1])
  BY DEF Reading, Fresh
<1>2. k - 1 \in 0..x.n /\ k \in 0..x.n /\ x.n \in 0..x.n
  BY <1>1, CalledName, CalledTypes
<1>3. PICK l \in 1..99, w \in 1..2 : l = x.len[k] /\ w = Wide(x.len[k])
  BY <1>1, CalledTypes
<1>4. PICK u \in Nat, a \in Nat : u = x.p[k - 1] /\ a = x.q[k - 1]
  <2>1. x.p[k - 1] \in Nat /\ x.q[k - 1] \in Nat
    BY <1>2, CalledTypes
  <2> QED BY <2>1
<1>5. x.p[k] = u + w + l
  BY <1>1, <1>3, <1>4, CalledName
<1>6. k = 1 <=> a = 0
  BY <1>1, <1>4, BehindAName
<1>7. x.q[k] = (IF k = 1 THEN a ELSE a + 1) + l
  <2>1. x.q[k] = Begins(x.q, k) + x.len[k]
    BY <1>1, CalledName
  <2>2. Begins(x.q, k) = IF k = 1 THEN a ELSE a + 1
    BY <1>4, <1>6 DEF Begins
  <2> QED BY <1>3, <2>1, <2>2
<1>8. /\ x.q[k] \in Nat /\ x.q[x.n] \in Nat /\ x.q[k] <= x.q[x.n]
      /\ x.p[k] <= x.p[x.n] /\ x.p[x.n] \in Nat
  BY <1>2, CalledTypes
<1>9. x.max \in Nat /\ x.cut \in {0, 1} /\ x.size \in Nat /\ x.off \in {0, 1} /\ x.size = x.p[x.n] + x.off - x.cut
  BY CalledTypes
<1>10. x.size + x.cut >= x.p[x.n]
  BY <1>8, <1>9
<1>11. u + w + l <= x.size + x.cut
  BY <1>5, <1>8, <1>9, <1>10
<1>12. s.i = u + w /\ s.i < x.size
  <2>1. s.i = u + w
    BY <1>1, <1>3, <1>4
  <2> QED BY <1>9, <1>11, <2>1
<1>13. Here(x, s, k, l, w, u, a)
  BY <1>1, <1>2, <1>3, <1>4, <1>5, <1>6, <1>7, <1>8, <1>9, <1>11, <1>12 DEF Here
<1> QED BY <1>13

LEMMA TooShort ==
  ASSUME NEW x, Called(x), NEW s \in DemangleState(x.max), NEW k, NEW l, NEW w, NEW u, NEW a,
         Here(x, s, k, l, w, u, a), s.i + s.number > x.size, NEW t, t = D!Return(s, 0)
  PROVE  t \in DemangleState(x.max) /\ t.returned /\ Ends(x, t.length, t.buffer)
<1>1. t \in DemangleState(x.max) /\ t.length = 0 /\ t.returned /\ t.buffer = s.buffer
  BY ReturnTurn
<1>2. x.cut = 1
  <2>1. s.i = u + w /\ s.number = l /\ u + w + l <= x.size + x.cut /\ x.cut \in {0, 1} /\ x.size \in Nat
        /\ u \in Nat /\ w \in 1..2 /\ l \in 1..99
    BY DEF Here
  <2> QED BY <2>1
<1>3. k - 1 \in 0..x.n /\ Filled(x, s.buffer, x.q[k - 1])
  BY DEF Here
<1> QED BY <1>1, <1>2, <1>3, EndsWithNothing

LEMMA NoRoomForDot ==
  ASSUME NEW x, Called(x), NEW s \in DemangleState(x.max), NEW k, NEW l, NEW w, NEW u, NEW a,
         Here(x, s, k, l, w, u, a), D!NoSpaceForDot(s), NEW t, t = D!Return(s, s.length)
  PROVE  t \in DemangleState(x.max) /\ t.returned /\ Ends(x, t.length, t.buffer)
<1>1. s.length \in Nat /\ s.max = x.max
  BY DEF DemangleState
<1>2. t \in DemangleState(x.max) /\ t.length = s.length /\ t.returned /\ t.buffer = s.buffer
  BY <1>1, ReturnTurn
<1>3. k - 1 \in 0..x.n /\ Filled(x, s.buffer, x.q[k - 1]) /\ s.length = x.q[k - 1]
  BY DEF Here
<1>4. ~(x.q[x.n] < x.max)
  <2>1. /\ a > 0 /\ a + 1 >= x.max /\ a \in Nat /\ x.q[k] = (IF k = 1 THEN a ELSE a + 1) + l /\ (k = 1 <=> a = 0)
        /\ x.q[k] \in Nat /\ x.q[x.n] \in Nat /\ x.q[k] <= x.q[x.n] /\ x.max \in Nat /\ l \in 1..99
    BY <1>1 DEF Here, D!NoSpaceForDot
  <2>2. x.q[k] = a + 1 + l
    BY <2>1
  <2> QED BY <2>1, <2>2
<1>5. Ends(x, x.q[k - 1], s.buffer)
  BY <1>3, <1>4, EndsBehindName
<1> QED BY <1>2, <1>3, <1>5

LEMMA NoRoomForName ==
  ASSUME NEW x, Called(x), NEW s \in DemangleState(x.max), NEW k, NEW l, NEW w, NEW u, NEW a,
         Here(x, s, k, l, w, u, a), ~D!NoSpaceForDot(s), ~D!Fits(s),
         NEW t, t = D!Return([s EXCEPT !.buffer = D!Dotted(s)], D!Start(s))
  PROVE  t \in DemangleState(x.max) /\ t.returned /\ Ends(x, t.length, t.buffer)
<1>1. s.length \in Nat /\ s.max = x.max /\ s.buffer \in [0..(x.max - 1) -> 0..255]
  BY DEF DemangleState
<1>2. /\ k \in 1..x.n /\ k - 1 \in 0..x.n /\ Filled(x, s.buffer, a) /\ s.length = a /\ a = x.q[k - 1] /\ a \in Nat
      /\ x.q[k] = (IF k = 1 THEN a ELSE a + 1) + l /\ (k = 1 <=> a = 0) /\ l \in 1..99 /\ s.number = l
      /\ x.q[k] \in Nat /\ x.q[x.n] \in Nat /\ x.q[k] <= x.q[x.n] /\ x.max \in Nat
  BY DEF Here
<1>3. PICK e \in Nat : e = D!Start(s)
  BY <1>1 DEF D!Start
<1>4. t \in DemangleState(x.max) /\ t.length = e /\ t.returned /\ t.buffer = D!Dotted(s)
  BY <1>2, <1>3, DotTurn
<1>5. ~(e + l < x.max)
  BY <1>1, <1>2, <1>3 DEF D!Fits
<1>6. CASE k = 1
  <2>1. a = 0 /\ e = 0 /\ D!Dotted(s) = s.buffer
    BY <1>2, <1>3, <1>6 DEF D!Start, D!Dotted
  <2>2. ~(x.q[x.n] < x.max)
    <3>1. x.q[k] = l
      BY <1>2, <1>6, <2>1
    <3> QED BY <1>2, <1>5, <2>1, <3>1
  <2>3. Ends(x, x.q[k - 1], s.buffer)
    BY <1>2, <2>2, EndsBehindName
  <2> QED BY <1>2, <1>4, <2>1, <2>3
<1>7. CASE k # 1
  <2>1. a > 0 /\ e = a + 1 /\ D!Dotted(s) = [s.buffer EXCEPT ![a] = 46]
    BY <1>2, <1>3, <1>7 DEF D!Start, D!Dotted, D!DOT
  <2>2. a + 1 < x.max
    BY <1>1, <1>2, <2>1 DEF D!NoSpaceForDot
  <2>3. x.q[k] >= x.max
    BY <1>2, <1>5, <1>7, <2>1
  <2>4. Ends(x, x.q[k - 1] + 1, [s.buffer EXCEPT ![x.q[k - 1]] = 46])
    BY <1>1, <1>2, <1>7, <2>2, <2>3, EndsWithDot
  <2> QED BY <1>2, <1>4, <2>1, <2>4
<1> QED BY <1>6, <1>7

LEMMA CopiesName ==
  ASSUME NEW x, Called(x), NEW s \in DemangleState(x.max), NEW k, NEW l, NEW w, NEW u, NEW a,
         Here(x, s, k, l, w, u, a), ~(s.i + s.number > x.size), D!Fits(s), NEW t, t = D!Copy(x.text, s)
  PROVE  t \in DemangleState(x.max) /\ Between(x, t, k) /\ t.i > s.i
<1>1. s.length \in Nat /\ s.max = x.max /\ s.buffer \in [0..(x.max - 1) -> 0..255]
  BY DEF DemangleState
<1>2. /\ k \in 1..x.n /\ k \in 0..x.n /\ Filled(x, s.buffer, a) /\ s.length = a /\ a = x.q[k - 1] /\ a \in Nat
      /\ x.q[k] = (IF k = 1 THEN a ELSE a + 1) + l /\ (k = 1 <=> a = 0) /\ l \in 1..99 /\ s.number = l
      /\ x.q[k] \in Nat /\ x.q[x.n] \in Nat /\ x.q[k] <= x.q[x.n] /\ x.max \in Nat
      /\ l = x.len[k] /\ w = Wide(x.len[k]) /\ u = x.p[k - 1] /\ u \in Nat /\ w \in 1..2
      /\ x.p[k] = u + w + l /\ s.i = u + w /\ ~s.returned /\ x.size \in Nat
  BY DEF Here
<1>3. PICK b \in Nat : b = D!Start(s)
  BY <1>1 DEF D!Start
<1>4. b = IF k = 1 THEN a ELSE a + 1
  BY <1>2, <1>3 DEF D!Start
<1>5. PICK e \in Nat : e = b + l /\ e = x.q[k] /\ e = b + s.number /\ e < x.max
  <2>1. b + l \in Nat /\ b + l = x.q[k] /\ b + l = b + s.number
    BY <1>2, <1>4
  <2>2. b + l < x.max
    BY <1>1, <1>2, <1>3 DEF D!Fits
  <2> QED BY <2>1, <2>2
<1>6. u + w + l <= x.size
  <2>1. PICK c \in Nat : c = x.size
    BY <1>2
  <2>2. s.i = u + w /\ s.number = l /\ u \in Nat /\ w \in 1..2 /\ l \in 1..99
    BY <1>2
  <2>3. ~(u + w + l > c)
    BY <2>1, <2>2, SMTT(30)
  <2> QED BY <2>1, <2>2, <2>3
\* The name is copied to where the joined names have it.
<1>7. ASSUME NEW j \in b..(e - 1)
      PROVE  x.text[s.i + (j - b) + 1] = x.joined[j + 1] /\ x.text[s.i + (j - b) + 1] \in 0..255
  <2>1. PICK i \in 1..l : i = j - b + 1 /\ u + w + i = s.i + (j - b) + 1 /\ b + i = j + 1 /\ u + w + i <= x.size
        /\ u + w + i >= 1
    <3>1. j - b + 1 \in 1..l
      <4>1. l \in 1..99 /\ e = b + l /\ b \in Nat
        BY <1>2, <1>3, <1>5
      <4> QED BY <4>1
    <3>2. u + w + (j - b + 1) = s.i + (j - b) + 1 /\ b + (j - b + 1) = j + 1
      BY <1>2
    <3>3. u + w + (j - b + 1) <= x.size /\ u + w + (j - b + 1) >= 1
      BY <1>2, <1>6, <3>1
    <3> QED BY <3>1, <3>2, <3>3
  <2>2. x.text[u + w + i] = x.name[k][i]
    BY <1>2, <2>1, CalledName
  <2>3. x.joined[Begins(x.q, k) + i] = x.name[k][i]
    BY <1>2, CalledName
  <2>4. Begins(x.q, k) = b
    BY <1>2, <1>4 DEF Begins
  <2>5. x.text[u + w + i] \in 0..255
    <3>1. x.text \in [1..x.size -> 0..255]
      BY DEF Called, TextLaid
    <3>2. u + w + i \in 1..x.size
      BY <1>2, <2>1
    <3> QED BY <3>1, <3>2
  <2> QED BY <2>1, <2>2, <2>3, <2>4, <2>5
<1>a. PICK m \in Nat : m = x.max
  BY <1>2
<1>b. e < m /\ (\A j \in b..(e - 1) : x.text[s.i + (j - b) + 1] \in 0..255) /\ s \in DemangleState(m)
  BY <1>5, <1>7, <1>a
<1>c. CopyDone(m, s, x.text, b, e, t)
  BY <1>3, <1>5, <1>b, CopyTurn
<1>8. /\ t \in DemangleState(x.max) /\ t.i = s.i + s.number /\ ~t.numberStart /\ t.number = 0
      /\ t.length = e /\ t.returned = s.returned
      /\ \A j \in 0..(x.max - 1) :
           t.buffer[j] = IF j = e THEN 0
                         ELSE IF j \in b..(e - 1) THEN x.text[s.i + (j - b) + 1] ELSE D!Dotted(s)[j]
  BY <1>a, <1>c, Zenon DEF CopyDone
<1>9. /\ \A i \in 0..(a - 1) : s.buffer[i] = x.joined[i + 1]
      /\ \A i \in (a + 1)..(x.max - 1) : s.buffer[i] = 122
  BY <1>2 DEF Filled
<1>10. ASSUME NEW i \in 0..(e - 1) PROVE t.buffer[i] = x.joined[i + 1]
  <2>1. i \in 0..(x.max - 1) /\ i # e
    <3>1. i \in 0..(m - 1) /\ i # e
      BY <1>b
    <3> QED BY <1>a, <3>1
  <2>2. CASE i >= b
    <3>1. i \in b..(e - 1)
      BY <2>2
    <3>2. t.buffer[i] = x.text[s.i + (i - b) + 1]
      BY <1>8, <2>1, <3>1
    <3>3. x.text[s.i + (i - b) + 1] = x.joined[i + 1]
      BY <1>7, <3>1
    <3> QED BY <3>2, <3>3
  <2>3. CASE i < b
    <3>1. i \notin b..(e - 1)
      BY <2>3
    <3>2. t.buffer[i] = D!Dotted(s)[i]
      BY <1>8, <2>1, <3>1
    <3>3. CASE k = 1
      BY <1>2, <1>4, <2>3, <3>3
    <3>4. CASE k # 1
      <4>1. a > 0 /\ D!Dotted(s) = [s.buffer EXCEPT ![a] = 46] /\ b = a + 1
        BY <1>2, <1>4, <3>4 DEF D!Dotted, D!DOT
      <4>2. a \in 0..(x.max - 1)
        BY <1>2, <1>5, <4>1
      <4>3. CASE i = a
        <5>1. x.joined[a + 1] = 46
          BY <1>2, <3>4, BehindAName
        <5>2. D!Dotted(s)[a] = 46
          BY <1>1, <4>1, <4>2
        <5> QED BY <3>2, <4>3, <5>1, <5>2
      <4>4. CASE i # a
        <5>1. i \in 0..(a - 1)
          <6>1. i \in Nat /\ a \in Nat /\ i < a + 1 /\ i # a
            BY <1>2, <1>5, <2>3, <4>1, <4>4
          <6> QED BY <6>1
        <5>2. D!Dotted(s)[i] = s.buffer[i]
          BY <1>1, <2>1, <4>1, <4>4
        <5> QED BY <1>9, <3>2, <5>1, <5>2
      <4> QED BY <4>3, <4>4
    <3> QED BY <3>3, <3>4
  <2> QED BY <2>2, <2>3
<1>11. ASSUME NEW i \in (e + 1)..(x.max - 1) PROVE t.buffer[i] = 122
  <2>0. a < e /\ a \in Nat /\ i \in (e + 1)..(m - 1)
    <3>1. a \in Nat /\ l \in 1..99
      BY <1>2
    <3> QED BY <1>4, <1>5, <1>a, <3>1
  <2>a. i \in 0..(m - 1) /\ i # e /\ i \notin b..(e - 1) /\ i \in (a + 1)..(m - 1) /\ i # a
    BY <2>0
  <2>1. i \in 0..(x.max - 1) /\ i # e /\ i \notin b..(e - 1) /\ i \in (a + 1)..(x.max - 1) /\ i # a
    BY <1>a, <2>a
  <2>2. D!Dotted(s)[i] = s.buffer[i]
    BY <1>1, <1>2, <2>1 DEF D!Dotted
  <2> QED BY <1>8, <1>9, <2>1, <2>2
<1>12. Filled(x, t.buffer, e)
  <2>1. e \in 0..(x.max - 1)
    BY <1>2, <1>5
  <2>2. t.buffer[e] = 0
    BY <1>8, <2>1
  <2> QED BY <1>5, <1>10, <1>11, <2>2 DEF Filled
<1>13. t.i = x.p[k] /\ t.i <= x.size /\ t.i > s.i
  <2>1. t.i = u + w + l
    BY <1>2, <1>8
  <2> QED BY <1>2, <1>6, <2>1
<1>14. Fresh(x, t, k)
  BY <1>2, <1>5, <1>8, <1>12 DEF Fresh
<1> QED BY <1>2, <1>8, <1>13, <1>14 DEF Between

LEMMA NameAfterLength ==
  ASSUME NEW x, Called(x), NEW s \in DemangleState(x.max), NEW k, Reading(x, s, k, Wide(x.len[k])), s.i # x.size,
         NEW t, t = D!Turn(x.text, s)
  PROVE  t \in DemangleState(x.max) /\ ((OnTheWay(x, t) /\ t.i > s.i) \/ (t.returned /\ Ends(x, t.length, t.buffer)))
<1>1. PICK l, w, u, a : Here(x, s, k, l, w, u, a)
  BY HereIs
<1>2. /\ ~s.returned /\ s.numberStart /\ k \in 1..x.n /\ s.i = u + w /\ l = x.len[k] /\ l \in 1..99
      /\ w = Wide(x.len[k]) /\ u = x.p[k - 1] /\ u + w + 1 <= x.size
  <2>1. u \in Nat /\ w \in 1..2 /\ s.i = u + w /\ s.i < x.size /\ x.size \in Nat
    BY <1>1 DEF Here
  <2> QED BY <1>1, <2>1 DEF Here
<1>3. x.text[s.i + 1] \notin 48..57
  <2>1. 1 \in 1..x.len[k]
    BY <1>2
  <2>2. x.text[x.p[k - 1] + Wide(x.len[k]) + 1] = x.name[k][1]
    BY <1>2, <2>1, CalledName
  <2>3. x.name[k][1] \notin 48..57
    BY <1>2, CalledName
  <2> QED BY <1>2, <2>2, <2>3
<1>4. Len(x.text) = x.size
  BY CalledTypes
<1>5. t = IF s.i + s.number > x.size THEN D!Return(s, 0)
          ELSE IF D!NoSpaceForDot(s) THEN D!Return(s, s.length)
          ELSE IF ~D!Fits(s) THEN D!Return([s EXCEPT !.buffer = D!Dotted(s)], D!Start(s))
          ELSE D!Copy(x.text, s)
  <2>1. ~s.returned /\ s.i # Len(x.text) /\ s.numberStart
    BY <1>2, <1>4
  <2>2. t = IF s.i + s.number > Len(x.text) THEN D!Return(s, 0)
            ELSE IF D!NoSpaceForDot(s) THEN D!Return(s, s.length)
            ELSE IF ~D!Fits(s) THEN D!Return([s EXCEPT !.buffer = D!Dotted(s)], D!Start(s))
            ELSE D!Copy(x.text, s)
    BY <1>3, <2>1, Zenon DEF D!Turn, D!Digits
  <2> QED BY <1>4, <2>2, Zenon
<1>6. CASE s.i + s.number > x.size
  <2>1. t = D!Return(s, 0)
    BY <1>5, <1>6
  <2> QED BY <1>1, <1>6, <2>1, TooShort
<1>7. CASE ~(s.i + s.number > x.size) /\ D!NoSpaceForDot(s)
  <2>1. t = D!Return(s, s.length)
    BY <1>5, <1>7
  <2> QED BY <1>1, <1>7, <2>1, NoRoomForDot
<1>8. CASE ~(s.i + s.number > x.size) /\ ~D!NoSpaceForDot(s) /\ ~D!Fits(s)
  <2>1. t = D!Return([s EXCEPT !.buffer = D!Dotted(s)], D!Start(s))
    BY <1>5, <1>8
  <2> QED BY <1>1, <1>8, <2>1, NoRoomForName
<1>9. CASE ~(s.i + s.number > x.size) /\ ~D!NoSpaceForDot(s) /\ D!Fits(s)
  <2>1. t = D!Copy(x.text, s)
    BY <1>5, <1>9
  <2>2. t \in DemangleState(x.max) /\ Between(x, t, k) /\ t.i > s.i
    BY <1>1, <1>9, <2>1, CopiesName
  <2> QED BY <2>2 DEF OnTheWay
<1> QED BY <1>6, <1>7, <1>8, <1>9

\* Every turn keeps the loop on its way or ends it, and gets on in the text.
LEMMA EveryTurn ==
  ASSUME NEW x, Called(x), NEW s, Demangling(x, s), NEW t, t = D!Turn(x.text, s)
  PROVE  Demangling(x, t) /\ (s.returned \/ s.i = x.size => t = s) /\ (~s.returned /\ s.i # x.size => t.returned \/ t.i > s.i)
<1>1. s \in DemangleState(x.max) /\ Len(x.text) = x.size
  BY CalledTypes DEF Demangling
<1>2. CASE s.returned \/ s.i = x.size
  <2>1. t = s
    BY <1>1, <1>2 DEF D!Turn
  <2> QED BY <1>2, <2>1
<1>3. CASE ~s.returned /\ s.i # x.size
  <2>1. CASE \E k : Between(x, s, k)
    BY <1>1, <1>3, <2>1, BetweenTurn DEF Demangling
  <2>2. CASE \E k, d : Reading(x, s, k, d)
    <3>1. PICK k, d : Reading(x, s, k, d)
      BY <2>2
    <3>2. CASE d = Wide(x.len[k])
      BY <1>1, <1>3, <3>1, <3>2, NameAfterLength DEF Demangling
    <3>3. CASE d # Wide(x.len[k])
      BY <1>1, <1>3, <3>1, <3>3, DigitAfterDigit DEF Demangling
    <3> QED BY <3>2, <3>3
  <2>3. CASE Before(x, s)
    BY <1>1, <1>3, <2>3, BeforeTurn DEF Demangling
  <2>4. ~Over(x, s)
    BY <1>3, Zenon DEF Over
  <2> QED BY <1>3, <2>1, <2>2, <2>3, <2>4 DEF Demangling, OnTheWay
<1> QED BY <1>2, <1>3

\* Name k ends in front of e.
NameWithin(x, k, e) ==
  \E u \in Nat, w \in 1..2, l \in 1..99 : u = x.p[k - 1] /\ w = Wide(x.len[k]) /\ u + w + l <= e

LEMMA InText ==
  ASSUME NEW x, Called(x), NEW k \in 1..x.n
  PROVE  NameWithin(x, k, x.p[x.n])
<1>1. x.n \in 0..x.n /\ k - 1 \in 0..x.n /\ k \in 0..x.n
  BY CalledTypes
<1>2. PICK u \in Nat, v \in Nat, w \in 1..2, l \in 1..99, e \in Nat :
        u = x.p[k - 1] /\ v = x.p[k] /\ w = Wide(x.len[k]) /\ l = x.len[k] /\ e = x.p[x.n] /\ v <= e
  BY <1>1, CalledTypes
<1>3. v = u + w + l
  BY <1>2, CalledName
<1>4. u + w + l <= e
  BY <1>2, <1>3
<1> QED BY <1>2, <1>4, Zenon DEF NameWithin

LEMMA StaysInText ==
  ASSUME NEW x, Called(x), NEW s, Demangling(x, s), ~s.returned
  PROVE  s.i <= x.size
<1>1. OnTheWay(x, s) /\ x.size \in Nat
  BY CalledTypes DEF Demangling
<1>2. CASE \E k, d : Reading(x, s, k, d)
  <2>1. PICK k, d : k \in 1..x.n /\ d \in 1..Wide(x.len[k]) /\ s.i = x.p[k - 1] + d
    BY <1>2 DEF Reading
  <2>2. PICK e \in Nat, o \in {0, 1}, c \in {0, 1} : e = x.p[x.n] /\ o = x.off /\ c = x.cut /\ x.size = e + o - c
    <3>1. x.n \in 0..x.n
      BY CalledTypes
    <3> QED BY <3>1, CalledTypes
  <2>3. PICK u \in Nat, w \in 1..2, l \in 1..99 : u = x.p[k - 1] /\ w = Wide(x.len[k]) /\ u + w + l <= e
    BY <2>1, <2>2, InText, ZenonT(40) DEF NameWithin
  <2>4. d \in 1..w /\ s.i = u + d
    BY <2>1, <2>3
  <2> QED BY <2>2, <2>3, <2>4
<1>3. CASE (\E k : Between(x, s, k)) \/ Before(x, s) \/ Over(x, s)
  BY <1>1, <1>3 DEF Between, Before, Over
<1> QED BY <1>1, <1>2, <1>3 DEF OnTheWay


\* Behind the text there is nothing to read: all names are written, or the only one is cut.
LEMMA EndOfText ==
  ASSUME NEW x, Called(x), NEW s, Demangling(x, s), s.returned \/ s.i = x.size
  PROVE  Ends(x, s.length, s.buffer)
<1>1. PICK n \in Nat : n = x.n /\ n # 0
  BY CalledTypes
<1>2. PICK e \in Nat : e = x.p[n] /\ x.size = e + x.off - x.cut /\ x.cut \in {0, 1} /\ x.off \in {0, 1} /\ x.size \in Nat
  <2>1. n \in 0..n
    OBVIOUS
  <2> QED BY <1>1, <2>1, CalledTypes
<1>3. \A k \in 1..n : NameWithin(x, k, e)
  BY <1>1, <1>2, InText
<1>4. CASE s.returned
  <2>1. ~OnTheWay(x, s)
    BY <1>4 DEF OnTheWay, Between, Reading, Before, Over, Fresh
  <2> QED BY <2>1 DEF Demangling
<1>5. CASE ~s.returned /\ s.i = x.size
  <2>1. CASE \E k : Between(x, s, k)
    <3>1. PICK k \in 0..n : Between(x, s, k)
      BY <1>1, <2>1 DEF Between
    <3>2. x.p[k] = x.size /\ s.length = x.q[k] /\ Filled(x, s.buffer, x.q[k])
      BY <1>5, <3>1 DEF Between, Fresh
    <3>3. k = n
      <4> SUFFICES ASSUME k # n PROVE FALSE
        OBVIOUS
      <4>1. PICK j \in 1..n : j = k + 1 /\ j - 1 = k
        <5>1. k + 1 \in 1..n /\ (k + 1) - 1 = k
          BY <1>1
        <5> QED BY <5>1
      <4>2. PICK u \in Nat, w \in 1..2, l \in 1..99 : u = x.p[k] /\ u + w + l <= e
        BY <1>3, <4>1 DEF NameWithin
      <4>3. e + x.off - x.cut < e
        BY <1>2, <3>2, <4>2
      <4>4. x.off = 0 /\ x.cut = 1 /\ u = e - 1
        BY <1>2, <3>2, <4>2, <4>3
      <4> QED BY <4>2, <4>4
    <3> QED BY <1>1, <3>2, <3>3, EndsBehindName
  <2>2. CASE \E k, d : Reading(x, s, k, d)
    <3>1. PICK k, d : Reading(x, s, k, d)
      BY <2>2
    <3>2. /\ k \in 1..n /\ d \in 1..Wide(x.len[k]) /\ s.i = x.p[k - 1] + d
          /\ s.length = x.q[k - 1] /\ Filled(x, s.buffer, x.q[k - 1])
      BY <1>1, <3>1, SMTT(30) DEF Reading, Fresh
    <3>3. PICK u \in Nat, w \in 1..2, l \in 1..99 : u = x.p[k - 1] /\ w = Wide(x.len[k]) /\ u + w + l <= e
      BY <1>3, <3>2 DEF NameWithin
    <3>4. d \in 1..w /\ x.size = u + d
      BY <1>5, <3>2, <3>3
    <3>5. x.cut = 1
      BY <1>2, <3>3, <3>4
    <3>6. k - 1 \in 0..x.n
      BY <1>1, <3>2
    <3>7. Ends(x, x.q[k - 1], s.buffer)
      BY <3>2, <3>5, <3>6, EndsBehindName
    <3> QED BY <3>2, <3>7
  <2>3. ~Before(x, s)
    <3> SUFFICES ASSUME Before(x, s) PROVE FALSE
      OBVIOUS
    <3>1. x.size = 0
      BY <1>5 DEF Before
    <3>2. 1 \in 1..n
      BY <1>1
    <3>3. PICK u \in Nat, w \in 1..2, l \in 1..99 : u + w + l <= e
      BY <1>3, <3>2 DEF NameWithin
    <3> QED BY <1>2, <3>1, <3>3
  <2>4. CASE Over(x, s)
    <3>1. s.length = x.q[n] /\ Filled(x, s.buffer, x.q[n]) /\ n \in 0..n
      BY <1>1, <2>4 DEF Over, Fresh
    <3> QED BY <1>1, <3>1, EndsBehindName
  <2> QED BY <1>5, <2>1, <2>2, <2>3, <2>4 DEF Demangling, OnTheWay
<1> QED BY <1>4, <1>5

LEMMA FirstTurn ==
  ASSUME NEW x, Called(x), NEW s, s = D!Begin(x.max)
  PROVE  Demangling(x, s)
<1>1. PICK m \in Nat \ {0} : m = x.max
  BY CalledTypes
<1>2. /\ s.i = 0 /\ ~s.numberStart /\ s.number = 0 /\ s.length = 0 /\ ~s.returned
      /\ s.buffer = [j \in 0..(m - 1) |-> IF j = 0 THEN 0 ELSE 122] /\ s \in DemangleState(m)
  BY <1>1, SMTT(30) DEF D!Begin, D!NUL, D!Junk, DemangleState
<1>3. x.q[0] = 0 /\ x.p[0] = x.off /\ x.off \in {0, 1} /\ 0 \in 0..x.n /\ x.size \in Nat
  <2>1. 0 \in 0..x.n
    BY CalledTypes
  <2> QED BY <2>1, CalledTypes DEF Called, TextLaid, NamesJoined
<1>4. Filled(x, s.buffer, 0)
  <2>1. 0 \in 0..(m - 1) /\ 0 < m /\ \A i \in (0 + 1)..(m - 1) : i \in 0..(m - 1) /\ i # 0
    OBVIOUS
  <2>2. s.buffer[0] = 0 /\ \A i \in (0 + 1)..(m - 1) : s.buffer[i] = 122
    BY <1>2, <2>1
  <2>3. \A i \in 0..(0 - 1) : FALSE
    OBVIOUS
  <2> QED BY <1>1, <2>1, <2>2, <2>3 DEF Filled
<1>5. Fresh(x, s, 0)
  BY <1>2, <1>3, <1>4 DEF Fresh
<1>6. CASE x.off = 1
  BY <1>1, <1>2, <1>5, <1>6 DEF Before, OnTheWay, Demangling
<1>7. CASE x.off = 0
  <2>1. Between(x, s, 0)
    BY <1>2, <1>3, <1>5, <1>7 DEF Between
  <2> QED BY <1>1, <1>2, <2>1 DEF OnTheWay, Demangling
<1> QED BY <1>3, <1>6, <1>7

\* The states after each turn.
Turns(text, max, n, u) == u = [k \in 0..n |-> IF k = 0 THEN D!Begin(max) ELSE D!Turn(text, u[k - 1])]

LEMMA TurnsExist ==
  ASSUME NEW x, Called(x), NEW n \in Nat
  PROVE  \E u : Turns(x.text, x.max, n, u)
<1> DEFINE X == {s \in DemangleState(x.max) : Demangling(x, s)}
           F == [k \in 1..n |-> [s \in X |-> D!Turn(x.text, s)]]
<1>1. D!Begin(x.max) \in X
  BY FirstTurn DEF Demangling
<1>2. \A s \in X : D!Turn(x.text, s) \in X
  BY EveryTurn DEF Demangling
<1>3. PICK g : Follows(F, D!Begin(x.max), X, n, g)
  <2>1. F \in [1..n -> [X -> X]]
    <3> HIDE DEF X
    <3> QED BY <1>2
  <2> HIDE DEF F, X
  <2> QED BY <1>1, <2>1, Recursion
<1>4. g \in [0..n -> X] /\ g[0] = D!Begin(x.max) /\ \A k \in 1..n : g[k] = F[k][g[k - 1]]
  <2> HIDE DEF F, X
  <2> QED BY <1>3 DEF Follows
<1>5. ASSUME NEW k \in 1..n PROVE g[k] = D!Turn(x.text, g[k - 1])
  <2>1. k - 1 \in 0..n /\ g[k - 1] \in X
    <3> HIDE DEF F, X
    <3> QED BY <1>4
  <2> HIDE DEF X
  <2> QED BY <1>4, <2>1
<1>6. g = [k \in 0..n |-> IF k = 0 THEN D!Begin(x.max) ELSE D!Turn(x.text, g[k - 1])]
  <2>1. \A k \in 0..n : g[k] = IF k = 0 THEN D!Begin(x.max) ELSE D!Turn(x.text, g[k - 1])
    <3> HIDE DEF F, X
    <3> QED BY <1>4, <1>5
  <2>2. g = [k \in 0..n |-> g[k]]
    <3> HIDE DEF F, X
    <3> QED BY <1>4
  <2> HIDE DEF F, X
  <2> QED BY <2>1, <2>2
<1> QED BY <1>6 DEF Turns

LEMMA TurnsGoOn ==
  ASSUME NEW x, Called(x), NEW n \in Nat, NEW u, Turns(x.text, x.max, n, u)
  PROVE  \A k \in 0..n : Demangling(x, u[k]) /\ (u[k].returned \/ u[k].i = x.size \/ u[k].i >= k)
<1> DEFINE P == {k \in 0..n : Demangling(x, u[k]) /\ (u[k].returned \/ u[k].i = x.size \/ u[k].i >= k)}
<1>1. 0 \in P
  <2>1. u[0] = D!Begin(x.max)
    BY DEF Turns
  <2>2. Demangling(x, u[0]) /\ u[0].i = 0
    BY <2>1, FirstTurn DEF D!Begin
  <2> QED BY <2>2
<1>2. ASSUME NEW k \in 1..n, k - 1 \in P PROVE k \in P
  <2>1. u[k] = D!Turn(x.text, u[k - 1])
    BY DEF Turns
  <2>2. PICK s, t : s = u[k - 1] /\ t = u[k]
    OBVIOUS
  <2>3. Demangling(x, s) /\ (s.returned \/ s.i = x.size \/ s.i >= k - 1) /\ t = D!Turn(x.text, s)
    BY <1>2, <2>1, <2>2
  <2>4. /\ Demangling(x, t) /\ (s.returned \/ s.i = x.size => t = s)
        /\ (~s.returned /\ s.i # x.size => t.returned \/ t.i > s.i)
    BY <2>3, EveryTurn
  <2>5. t.returned \/ t.i = x.size \/ t.i >= k
    <3>1. s.i \in Nat /\ t.i \in Nat
      BY <2>3, <2>4 DEF Demangling, DemangleState
    <3> QED BY <2>3, <2>4, <3>1
  <2> QED BY <2>2, <2>4, <2>5
<1>3. \A k \in 0..n : k \in P
  <2> HIDE DEF P
  <2> QED BY <1>1, <1>2, Upwards
<1> QED BY <1>3

\* Two turns for each character are enough.
LEMMA DemangleEnds ==
  ASSUME NEW x, Called(x), NEW r, r = D!Debug_Demangle(x.text, x.max)
  PROVE  Ends(x, r.value, r.buffer) /\ DOMAIN r.buffer = 0..(x.max - 1)
<1>1. PICK n \in Nat : n = 2 * Len(x.text) /\ n = 2 * x.size /\ x.size \in Nat
  BY CalledTypes
<1> DEFINE v == CHOOSE u : Turns(x.text, x.max, n, u)
<1>2. Turns(x.text, x.max, n, v)
  BY TurnsExist
<1>3. r = [value |-> v[n].length, buffer |-> v[n].buffer]
  BY <1>1 DEF D!Debug_Demangle, Turns
<1> HIDE DEF v
<1>4. PICK s : s = v[n]
  OBVIOUS
<1>5. Demangling(x, s) /\ (s.returned \/ s.i = x.size \/ s.i >= n)
  <2>1. n \in 0..n
    OBVIOUS
  <2> QED BY <1>2, <1>4, <2>1, TurnsGoOn
<1>6. s.returned \/ s.i = x.size
  <2>1. s.i \in Nat
    BY <1>5 DEF Demangling, DemangleState
  <2>2. ~s.returned => s.i <= x.size
    BY <1>5, StaysInText
  <2> QED BY <1>1, <1>5, <2>1, <2>2
<1>7. Ends(x, s.length, s.buffer) /\ s.buffer \in [0..(x.max - 1) -> 0..255]
  BY <1>5, <1>6, EndOfText DEF Demangling, DemangleState
<1> QED BY <1>3, <1>4, <1>7

-----------------------------------------------------------------------------
(* Demangle: the mangled and the joined names.                             *)

IsWord(w) == w \in Seq(1..255) /\ Len(w) \in 1..99 /\ w[1] \notin 48..57 /\ \A i \in 1..Len(w) : w[i] # 46
AreWords(names) == names \in Seq(Seq(1..255)) /\ names # <<>> /\ \A k \in 1..Len(names) : IsWord(names[k])

\* Each step appends two texts.
Doubly(a, b, n, u) == u = [k \in 0..n |-> IF k = 0 THEN <<>> ELSE u[k - 1] \o a[k] \o b[k]]
Pairs(a, b, n) == [k \in 1..n |-> a[k] \o b[k]]

StepOf(X, a, b, u, j, k) ==
  /\ u[j] \in Seq(X) /\ a[k] \in Seq(X) /\ b[k] \in Seq(X)
  /\ u[k] = u[j] \o (a[k] \o b[k])

OneAfterOther(a, b, u, j, k) == u[k] = u[j] \o a[k] \o b[k]

LEMMA OneByOne ==
  ASSUME NEW X, NEW a, NEW b, NEW u, NEW j, NEW k, StepOf(X, a, b, u, j, k)
  PROVE  OneAfterOther(a, b, u, j, k)
<1>1. PICK c, d, e : c = u[j] /\ d = a[k] /\ e = b[k]
  OBVIOUS
<1>2. c \in Seq(X) /\ d \in Seq(X) /\ e \in Seq(X) /\ u[k] = c \o (d \o e)
  BY <1>1 DEF StepOf
<1>3. (c \o d) \o e = c \o (d \o e)
  BY <1>2, ConcatAssociative
<1> QED BY <1>1, <1>2, <1>3 DEF OneAfterOther

LEMMA DoublyChained ==
  ASSUME NEW X, NEW n \in Nat, NEW a \in [1..n -> Seq(X)], NEW b \in [1..n -> Seq(X)]
  PROVE  \E u : Chained(Pairs(a, b, n), n, u) /\ Doubly(a, b, n, u)
<1>1. Pairs(a, b, n) \in [1..n -> Seq(X)] /\ \A k \in 1..n : Pairs(a, b, n)[k] = a[k] \o b[k]
  BY ConcatProperties DEF Pairs
<1>2. PICK u \in [0..n -> Seq(X)] : Chained(Pairs(a, b, n), n, u)
  BY <1>1, ChainExists
<1>3. ASSUME NEW k \in 1..n PROVE u[k] = u[k - 1] \o a[k] \o b[k]
  <2>1. k - 1 \in 0..n
    OBVIOUS
  <2>2. u[k - 1] \in Seq(X) /\ a[k] \in Seq(X) /\ b[k] \in Seq(X)
    BY <2>1
  <2>3. u[k] = u[k - 1] \o (a[k] \o b[k])
    BY <1>1, <1>2 DEF Chained
  <2>4. StepOf(X, a, b, u, k - 1, k)
    BY <2>2, <2>3 DEF StepOf
  <2>5. OneAfterOther(a, b, u, k - 1, k)
    BY <2>4, OneByOne
  <2> QED BY <2>5 DEF OneAfterOther
<1>4. u = [k \in 0..n |-> IF k = 0 THEN <<>> ELSE u[k - 1] \o a[k] \o b[k]]
  <2>1. \A k \in 0..n : u[k] = IF k = 0 THEN <<>> ELSE u[k - 1] \o a[k] \o b[k]
    <3>1. u[0] = <<>>
      BY <1>2 DEF Chained
    <3>2. ASSUME NEW k \in 0..n, k # 0 PROVE k \in 1..n
      BY <3>2
    <3> QED BY <1>3, <3>1, <3>2, Zenon
  <2>2. u = [k \in 0..n |-> u[k]]
    OBVIOUS
  <2> QED BY <2>1, <2>2
<1> QED BY <1>2, <1>4 DEF Doubly

\* There is one such text.
LEMMA OneDoubly ==
  ASSUME NEW n \in Nat, NEW a, NEW b, NEW u, Doubly(a, b, n, u), NEW v, Doubly(a, b, n, v)
  PROVE  u[n] = v[n]
<1>1. u[0] = v[0]
  <2>1. 0 \in 0..n
    OBVIOUS
  <2> QED BY <2>1, Zenon DEF Doubly
<1>2. ASSUME NEW k \in 1..n, u[k - 1] = v[k - 1] PROVE u[k] = v[k]
  <2>1. k \in 0..n /\ k # 0
    OBVIOUS
  <2>2. u[k] = u[k - 1] \o a[k] \o b[k] /\ v[k] = v[k - 1] \o a[k] \o b[k]
    BY <2>1, Zenon DEF Doubly
  <2> QED BY <1>2, <2>2
<1> QED BY <1>1, <1>2, SameSteps

LengthTexts(names) == [k \in 1..Len(names) |-> D!Decimal(Len(names[k]))]
Dots(names)    == [k \in 1..Len(names) |-> IF k = 1 THEN <<>> ELSE <<46>>]

\* A length is spelled with one or two digits.
LEMMA Digited ==
  ASSUME NEW l \in 1..99
  PROVE  /\ D!Decimal(l) \in Seq(0..255) /\ Len(D!Decimal(l)) = Wide(l)
         /\ l < 10 => D!Decimal(l)[1] = 48 + l
         /\ l >= 10 => D!Decimal(l)[1] = 48 + l \div 10 /\ D!Decimal(l)[2] = 48 + (l % 10)
<1>1. l \div 10 \in 0..9 /\ l % 10 \in 0..9
  OBVIOUS
<1>2. CASE l < 10
  BY <1>2 DEF D!Decimal, Wide
<1>3. CASE l >= 10
  <2>1. D!Decimal(l) = <<48 + l \div 10, 48 + (l % 10)>> /\ Wide(l) = 2
    BY <1>3 DEF D!Decimal, Wide
  <2>2. 48 + l \div 10 \in 0..255 /\ 48 + (l % 10) \in 0..255
    BY <1>1
  <2> QED BY <1>3, <2>1, <2>2
<1> QED BY <1>2, <1>3

LEMMA AsWords ==
  ASSUME NEW names, AreWords(names)
  PROVE  /\ Len(names) \in Nat \ {0}
         /\ LengthTexts(names) \in [1..Len(names) -> Seq(0..255)]
         /\ Dots(names) \in [1..Len(names) -> Seq(1..255)]
         /\ names \in [1..Len(names) -> Seq(1..255)] /\ names \in [1..Len(names) -> Seq(0..255)]
<1>1. names \in Seq(Seq(1..255)) /\ names # <<>>
  BY DEF AreWords
<1>2. Len(names) \in Nat /\ names \in [1..Len(names) -> Seq(1..255)]
  BY <1>1, LenProperties
<1>3. Len(names) # 0
  BY <1>1, EmptySeq
<1>4. Seq(1..255) \subseteq Seq(0..255)
  <2>1. ASSUME NEW s \in Seq(1..255) PROVE s \in Seq(0..255)
    OBVIOUS
  <2> QED BY <2>1
<1>5. ASSUME NEW k \in 1..Len(names) PROVE LengthTexts(names)[k] \in Seq(0..255)
  <2>1. Len(names[k]) \in 1..99
    BY DEF AreWords, IsWord
  <2> QED BY <2>1, Digited DEF LengthTexts
<1>6. ASSUME NEW k \in 1..Len(names) PROVE Dots(names)[k] \in Seq(1..255)
  <2>1. <<>> \in Seq(1..255) /\ <<46>> \in Seq(1..255)
    BY EmptySeq
  <2> QED BY <2>1, Zenon DEF Dots
<1>7. LengthTexts(names) \in [1..Len(names) -> Seq(0..255)]
  BY <1>5 DEF LengthTexts
<1>8. Dots(names) \in [1..Len(names) -> Seq(1..255)]
  BY <1>6 DEF Dots
<1>9. names \in [1..Len(names) -> Seq(0..255)]
  BY <1>2, <1>4
<1> QED BY <1>2, <1>3, <1>7, <1>8, <1>9

MangleSteps(names, u) ==
  u = [k \in 0..Len(names) |-> IF k = 0 THEN <<>> ELSE u[k - 1] \o D!Decimal(Len(names[k])) \o names[k]]
JoinSteps(names, u) ==
  u = [k \in 0..Len(names) |-> IF k = 0 THEN <<>> ELSE u[k - 1] \o (IF k = 1 THEN <<>> ELSE <<46>>) \o names[k]]

LEMMA StepsAsPairs ==
  ASSUME NEW names, AreWords(names), NEW u
  PROVE  /\ MangleSteps(names, u) <=> Doubly(LengthTexts(names), names, Len(names), u)
         /\ JoinSteps(names, u) <=> Doubly(Dots(names), names, Len(names), u)
<1>0. Len(names) \in Nat
  BY AsWords
<1>1. \A k \in 0..Len(names) :
        (IF k = 0 THEN <<>> ELSE u[k - 1] \o D!Decimal(Len(names[k])) \o names[k])
        = (IF k = 0 THEN <<>> ELSE u[k - 1] \o LengthTexts(names)[k] \o names[k])
  <2>1. ASSUME NEW k \in 0..Len(names), k # 0 PROVE LengthTexts(names)[k] = D!Decimal(Len(names[k]))
    <3>1. k \in 1..Len(names)
      BY <1>0, <2>1
    <3> QED BY <3>1 DEF LengthTexts
  <2> QED BY <2>1
<1>2. \A k \in 0..Len(names) :
        (IF k = 0 THEN <<>> ELSE u[k - 1] \o (IF k = 1 THEN <<>> ELSE <<46>>) \o names[k])
        = (IF k = 0 THEN <<>> ELSE u[k - 1] \o Dots(names)[k] \o names[k])
  <2>1. ASSUME NEW k \in 0..Len(names), k # 0 PROVE Dots(names)[k] = IF k = 1 THEN <<>> ELSE <<46>>
    <3>1. k \in 1..Len(names)
      BY <1>0, <2>1
    <3> QED BY <3>1 DEF Dots
  <2> QED BY <2>1
<1>3. MangleSteps(names, u) <=> Doubly(LengthTexts(names), names, Len(names), u)
  BY <1>1, Zenon DEF MangleSteps, Doubly
<1>4. JoinSteps(names, u) <=> Doubly(Dots(names), names, Len(names), u)
  BY <1>2, Zenon DEF JoinSteps, Doubly
<1> QED BY <1>3, <1>4

LEMMA MangledAs ==
  ASSUME NEW names, AreWords(names)
  PROVE  \E u : /\ Chained(Pairs(LengthTexts(names), names, Len(names)), Len(names), u)
                /\ D!Mangle(names) = IF Len(names) = 1 THEN u[Len(names)] ELSE <<78>> \o u[Len(names)] \o <<69>>
<1>1. PICK n \in Nat \ {0} : n = Len(names)
  BY AsWords
<1>a. LengthTexts(names) \in [1..n -> Seq(0..255)] /\ names \in [1..n -> Seq(0..255)]
  BY <1>1, AsWords, ZenonT(40)
<1>2. PICK u : Chained(Pairs(LengthTexts(names), names, n), n, u) /\ Doubly(LengthTexts(names), names, n, u)
  BY <1>a, DoublyChained, Zenon
<1> DEFINE v == CHOOSE w : MangleSteps(names, w)
<1>3. MangleSteps(names, v)
  BY <1>1, <1>2, StepsAsPairs
<1>4. D!Mangle(names) = IF n = 1 THEN v[1] ELSE <<78>> \o v[n] \o <<69>>
  BY <1>1 DEF D!Mangle, MangleSteps
<1> HIDE DEF v
<1>5. v[n] = u[n]
  BY <1>1, <1>2, <1>3, StepsAsPairs, OneDoubly
<1>6. D!Mangle(names) = IF n = 1 THEN u[n] ELSE <<78>> \o u[n] \o <<69>>
  BY <1>4, <1>5, Zenon
<1> QED BY <1>1, <1>2, <1>6

LEMMA JoinedAs ==
  ASSUME NEW names, AreWords(names)
  PROVE  \E u : Chained(Pairs(Dots(names), names, Len(names)), Len(names), u) /\ D!Joined(names) = u[Len(names)]
<1>1. PICK n \in Nat \ {0} : n = Len(names)
  BY AsWords
<1>a. Dots(names) \in [1..n -> Seq(1..255)] /\ names \in [1..n -> Seq(1..255)]
  BY <1>1, AsWords, ZenonT(40)
<1>2. PICK u : Chained(Pairs(Dots(names), names, n), n, u) /\ Doubly(Dots(names), names, n, u)
  BY <1>a, DoublyChained, Zenon
<1> DEFINE v == CHOOSE w : JoinSteps(names, w)
<1>3. JoinSteps(names, v)
  BY <1>1, <1>2, StepsAsPairs
<1>4. D!Joined(names) = v[n]
  BY <1>1 DEF D!Joined, JoinSteps, D!DOT
<1> HIDE DEF v
<1>5. v[n] = u[n]
  BY <1>1, <1>2, <1>3, StepsAsPairs, OneDoubly
<1> QED BY <1>1, <1>2, <1>4, <1>5


LEMMA BytesToo ==
  ASSUME NEW w, w \in Seq(1..255)
  PROVE  w \in Seq(0..255)
OBVIOUS

\* A name behind its length.
LengthAndName(l, w, s) ==
  /\ s \in Seq(0..255) /\ Len(s) = Wide(l) + l
  /\ l < 10 => s[1] = 48 + l
  /\ l >= 10 => s[1] = 48 + l \div 10 /\ s[2] = 48 + (l % 10)
  /\ \A i \in 1..l : s[Wide(l) + i] = w[i]

LEMMA PartOfMangled ==
  ASSUME NEW l, NEW w, IsWord(w), l = Len(w), NEW s, s = D!Decimal(l) \o w
  PROVE  LengthAndName(l, w, s)
<1>1. l \in 1..99 /\ w \in Seq(0..255)
  <2>1. w \in Seq(1..255) /\ Len(w) \in 1..99
    BY DEF IsWord
  <2> QED BY <2>1, BytesToo
<1>2. PICK d \in Seq(0..255) : d = D!Decimal(l) /\ Len(d) = Wide(l)
  BY <1>1, Digited
<1>3. (l < 10 => d[1] = 48 + l) /\ (l >= 10 => d[1] = 48 + l \div 10 /\ d[2] = 48 + (l % 10))
  BY <1>1, <1>2, Digited
<1>4. (l < 10 => Wide(l) = 1) /\ (l >= 10 => Wide(l) = 2) /\ Wide(l) \in 1..2
  BY <1>1 DEF Wide
<1>5. s \in Seq(0..255) /\ Len(s) = Len(d) + Len(w)
  BY <1>1, <1>2, ConcatProperties
<1>6. \A j \in 1..Len(d) : s[j] = d[j]
  BY <1>1, <1>2, ConcatProperties
<1>7. \A j \in 1..Len(w) : s[Len(d) + j] = w[j]
  BY <1>1, <1>2
<1>8. (l < 10 => s[1] = d[1]) /\ (l >= 10 => s[1] = d[1] /\ s[2] = d[2])
  BY <1>2, <1>4, <1>6
<1>9. \A i \in 1..l : s[Wide(l) + i] = w[i]
  BY <1>2, <1>7
<1> QED BY <1>2, <1>3, <1>5, <1>8, <1>9 DEF LengthAndName

\* A name behind its dot.
DotAndName(k, w, s) ==
  LET d == IF k = 1 THEN 0 ELSE 1
  IN  /\ s \in Seq(1..255) /\ Len(s) = d + Len(w)
      /\ k # 1 => s[1] = 46
      /\ \A i \in 1..Len(w) : s[d + i] = w[i]

LEMMA PartOfJoined ==
  ASSUME NEW k \in Nat \ {0}, NEW w, IsWord(w), NEW s, s = (IF k = 1 THEN <<>> ELSE << 46 >>) \o w
  PROVE  DotAndName(k, w, s)
<1>1. w \in Seq(1..255) /\ Len(w) \in Nat
  BY LenProperties DEF IsWord
<1>2. CASE k = 1
  <2>1. s = w
    BY <1>1, <1>2, ConcatSimplifications
  <2>2. Len(s) = 0 + Len(w) /\ \A i \in 1..Len(w) : s[0 + i] = w[i]
    BY <1>1, <2>1
  <2> QED BY <1>1, <1>2, <2>1, <2>2 DEF DotAndName
<1>3. CASE k # 1
  <2>1. s = <<46>> \o w /\ <<46>> \in Seq(1..255) /\ Len(<<46>>) = 1
    BY <1>3
  <2>a. s \in Seq(1..255)
    <3>1. PICK a \in Seq(1..255) : a = <<46>>
      BY <2>1
    <3>2. s = a \o w
      BY <2>1, <3>1
    <3>3. PICK b \in Seq(1..255) : b = w
      BY <1>1
    <3>4. a \o b \in Seq(1..255)
      OBVIOUS
    <3> QED BY <3>2, <3>3, <3>4
  <2>b. Len(s) = Len(<<46>>) + Len(w) /\ \A j \in 1..Len(<<46>>) : s[j] = <<46>>[j]
    BY <1>1, <2>1, ConcatProperties
  <2>2. s \in Seq(1..255) /\ Len(s) = 1 + Len(w) /\ s[1] = 46
    <3>1. <<46>>[1] = 46 /\ 1 \in 1..1
      OBVIOUS
    <3> QED BY <2>1, <2>a, <2>b, <3>1
  <2>3. \A i \in 1..Len(w) : s[1 + i] = w[i]
    BY <1>1, <2>1
  <2> QED BY <1>3, <2>2, <2>3 DEF DotAndName
<1> QED BY <1>2, <1>3

\* Name k of n in the mangled text m ends behind p[k] of it.
NameLaid(name, m, p, k, n) ==
  LET l == Len(name)
  IN  /\ p[k] = p[k - 1] + Wide(l) + l /\ p[k] <= p[n]
      /\ l < 10 => m[p[k - 1] + 1] = 48 + l
      /\ l >= 10 => m[p[k - 1] + 1] = 48 + l \div 10 /\ m[p[k - 1] + 2] = 48 + (l % 10)
      /\ \A i \in 1..l : m[p[k - 1] + Wide(l) + i] = name[i]

MangledLayout(names, m, p, o) ==
  LET n == Len(names)
  IN  /\ o = (IF n = 1 THEN 0 ELSE 1) /\ m \in Seq(0..255)
      /\ p \in [0..n -> Nat] /\ p[0] = o /\ Len(m) = p[n] + o
      /\ o = 1 => m[1] = 78 /\ m[Len(m)] = 69
      /\ \A k \in 1..n : NameLaid(names[k], m, p, k, n)

LEMMA MangledLaidOut ==
  ASSUME NEW names, AreWords(names), NEW m, m = D!Mangle(names)
  PROVE  \E p, o : MangledLayout(names, m, p, o)
<1>1. PICK n \in Nat \ {0} : n = Len(names)
  BY AsWords
<1>2. PICK part : part = Pairs(LengthTexts(names), names, n)
  OBVIOUS
<1>3. PICK u : Chained(part, n, u) /\ m = IF n = 1 THEN u[n] ELSE <<78>> \o u[n] \o <<69>>
  BY <1>1, <1>2, MangledAs
<1>4. ASSUME NEW k \in 1..n
      PROVE  /\ IsWord(names[k]) /\ part[k] = D!Decimal(Len(names[k])) \o names[k] /\ part[k] \in Seq(0..255)
             /\ Len(names[k]) \in 1..99
  <2>1. IsWord(names[k])
    BY <1>1 DEF AreWords
  <2>2. part[k] = D!Decimal(Len(names[k])) \o names[k]
    BY <1>1, <1>2 DEF Pairs, LengthTexts
  <2>3. part[k] \in Seq(0..255)
    <3>1. PICK w, l, s : w = names[k] /\ l = Len(names[k]) /\ s = part[k]
      OBVIOUS
    <3>2. IsWord(w) /\ l = Len(w) /\ s = D!Decimal(l) \o w
      BY <2>1, <2>2, <3>1
    <3>3. s \in Seq(0..255)
      BY <3>2, PartOfMangled DEF LengthAndName
    <3> QED BY <3>1, <3>3
  <2> QED BY <2>1, <2>2, <2>3 DEF IsWord
<1>5. part \in [1..n -> Seq(0..255)]
  BY <1>2, <1>4 DEF Pairs
<1>6. /\ \A k \in 0..n : u[k] \in Seq(0..255) /\ Len(u[k]) \in Nat /\ Len(u[k]) <= Len(u[n])
      /\ PartsInPlace(part, n, u)
  BY <1>3, <1>5, ChainType, ChainParts, ZenonT(40)
<1>7. PICK t \in Seq(0..255) : t = u[n] /\ Len(t) \in Nat
  <2>1. n \in 0..n
    OBVIOUS
  <2> QED BY <1>6, <2>1
<1>8. PICK o \in {0, 1} : o = IF n = 1 THEN 0 ELSE 1
  OBVIOUS
<1>9. /\ m \in Seq(0..255) /\ Len(m) = Len(t) + o + o
      /\ o = 1 => m[1] = 78 /\ m[Len(m)] = 69
      /\ \A j \in 1..Len(t) : m[o + j] = t[j]
  <2>1. CASE n = 1
    BY <1>3, <1>7, <1>8, <2>1
  <2>2. CASE n # 1
    <3>1. PICK a \in Seq(0..255) : a = <<78>> \o t /\ Len(a) = 1 + Len(t) /\ a[1] = 78 /\ \A j \in 1..Len(t) : a[1 + j] = t[j]
      <4>1. <<78>> \in Seq(0..255) /\ Len(<<78>>) = 1
        OBVIOUS
      <4>2. PICK b \in Seq(0..255) : b = <<78>>
        BY <4>1
      <4>3. PICK a : a = b \o t
        OBVIOUS
      <4>4. a \in Seq(0..255) /\ Len(a) = Len(b) + Len(t)
        BY <1>7, <4>3, ConcatProperties
      <4>5. a[1] = b[1] /\ \A j \in 1..Len(t) : a[Len(b) + j] = t[j]
        BY <1>7, <4>1, <4>2, <4>3
      <4>6. b[1] = 78 /\ Len(b) = 1
        BY <4>1, <4>2
      <4> QED BY <4>2, <4>3, <4>4, <4>5, <4>6
    <3>2. m = a \o <<69>>
      BY <1>3, <1>7, <2>2, <3>1
    <3>3. m \in Seq(0..255) /\ Len(m) = Len(a) + 1 /\ m[Len(a) + 1] = 69 /\ \A j \in 1..Len(a) : m[j] = a[j]
      <4>1. <<69>> \in Seq(0..255) /\ Len(<<69>>) = 1 /\ <<69>>[1] = 69
        OBVIOUS
      <4>2. m \in Seq(0..255)
        BY <3>2, <4>1, ConcatProperties
      <4> QED BY <3>1, <3>2, <4>1, <4>2
    <3>4. o = 1 /\ 1 \in 1..Len(a) /\ \A j \in 1..Len(t) : 1 + j \in 1..Len(a)
      BY <1>7, <1>8, <2>2, <3>1
    <3>a. m[1] = 78
      BY <3>1, <3>3, <3>4, Zenon
    <3>b. \A j \in 1..Len(t) : m[1 + j] = t[j]
      BY <3>1, <3>3, <3>4, ZenonT(40)
    <3>5. m[1] = 78 /\ \A j \in 1..Len(t) : m[1 + j] = t[j]
      BY <3>a, <3>b
    <3>6. Len(m) = Len(t) + 1 + 1 /\ m[Len(m)] = 69
      BY <1>7, <3>1, <3>3
    <3> QED BY <3>3, <3>4, <3>5, <3>6
  <2> QED BY <2>1, <2>2
<1>10. PICK p \in [0..n -> Nat] : \A k \in 0..n : p[k] = o + Len(u[k])
  <2> DEFINE f == [k \in 0..n |-> o + Len(u[k])]
  <2>1. f \in [0..n -> Nat] /\ \A k \in 0..n : f[k] = o + Len(u[k])
    BY <1>6
  <2> QED BY <2>1
<1>11. p[0] = o /\ Len(m) = p[n] + o
  <2>1. 0 \in 0..n /\ n \in 0..n
    OBVIOUS
  <2>2. u[0] = <<>> /\ Len(<<>>) = 0
    BY <1>3, EmptySeq DEF Chained
  <2>3. p[0] = o + Len(u[0]) /\ p[n] = o + Len(t)
    BY <1>7, <1>10, <2>1
  <2>4. p[0] = o
    BY <2>2, <2>3
  <2>5. Len(m) = p[n] + o
    <3>1. PICK c, d : c \in Nat /\ c = Len(t) /\ d = p[n]
      BY <1>7
    <3>2. Len(m) = c + o + o /\ d = o + c
      BY <1>9, <2>3, <3>1
    <3>3. c + o + o = (o + c) + o
      BY <3>1
    <3>4. Len(m) = d + o
      BY <3>2, <3>3
    <3> QED BY <3>1, <3>4
  <2> QED BY <2>4, <2>5
<1>12. ASSUME NEW k \in 1..n PROVE NameLaid(names[k], m, p, k, n)
  <2>0. PICK l : l = Len(names[k])
    OBVIOUS
  <2>1. k - 1 \in 0..n /\ k \in 0..n /\ n \in 0..n
    OBVIOUS
  <2>2. PICK a, b : PartBehind(part, u, k, a, b)
    BY <1>3, <1>5, ChainStep, ZenonT(40)
  <2>3. a \in Nat /\ b \in Nat /\ a = Len(u[k - 1]) /\ b = Len(part[k]) /\ Len(u[k]) = a + b
    BY <2>2 DEF PartBehind
  <2>4. p[k - 1] = o + a /\ p[k] = o + (a + b) /\ a + b <= Len(t) /\ p[k] <= p[n]
    <3>1. p[k - 1] = o + Len(u[k - 1]) /\ p[k] = o + Len(u[k]) /\ p[n] = o + Len(t)
      BY <1>7, <1>10, <2>1
    <3>a. a \in Nat /\ b \in Nat
      BY <2>3
    <3>b. a + b \in Nat
      BY <3>a
    <3>0. Len(t) \in Nat /\ a + b \in Nat
      BY <1>7, <3>b
    <3>2. PICK c \in Nat, d \in Nat : c = Len(t) /\ d = a + b
      BY <3>0
    <3>3. Len(u[k]) <= Len(u[n])
      BY <1>6, <2>1
    <3>4. d <= c /\ p[k - 1] = o + a /\ p[k] = o + d /\ p[n] = o + c
      BY <1>7, <2>3, <3>1, <3>2, <3>3
    <3>5. o + d <= o + c
      BY <3>4
    <3> QED BY <3>2, <3>4, <3>5
  <2>5. PICK s : s = part[k]
    OBVIOUS
  <2>6. /\ b = Wide(l) + l /\ l \in 1..99 /\ (l < 10 => s[1] = 48 + l)
        /\ l >= 10 => s[1] = 48 + l \div 10 /\ s[2] = 48 + (l % 10)
        /\ \A i \in 1..l : s[Wide(l) + i] = names[k][i]
    <3>1. s = D!Decimal(l) \o names[k] /\ IsWord(names[k]) /\ l \in 1..99 /\ b = Len(s)
      BY <1>4, <2>0, <2>3, <2>5
    <3>2. PICK w : w = names[k]
      OBVIOUS
    <3>3. IsWord(w) /\ l = Len(w) /\ s = D!Decimal(l) \o w
      BY <2>0, <3>1, <3>2
    <3>4. LengthAndName(l, w, s)
      BY <3>3, PartOfMangled
    <3> QED BY <3>1, <3>2, <3>4 DEF LengthAndName
  <2>7. PICK w \in 1..2 : w = Wide(l) /\ (l >= 10 => w = 2)
    BY <2>6 DEF Wide
  <2>8. \A j \in 1..b : m[p[k - 1] + j] = s[j]
    <3>1. ASSUME NEW j \in 1..b PROVE m[p[k - 1] + j] = s[j]
      <4>1. t[a + j] = s[j]
        BY <1>6, <1>7, <2>3, <2>5 DEF PartsInPlace
      <4>a. PICK c, d : c \in Nat /\ c = Len(t) /\ d = p[k - 1]
        BY <1>7
      <4>b. a \in Nat /\ b \in Nat /\ a + b <= c /\ d = o + a
        BY <2>3, <2>4, <4>a
      <4>c. a + j \in 1..c /\ o + (a + j) = d + j
        <5>1. j \in Nat /\ 1 <= j /\ j <= b
          BY <4>b
        <5>2. o \in Nat
          OBVIOUS
        <5> QED BY <4>a, <4>b, <5>1, <5>2
      <4>2. a + j \in 1..Len(t) /\ o + (a + j) = p[k - 1] + j
        BY <4>a, <4>c
      <4> QED BY <1>9, <4>1, <4>2
    <3> QED BY <3>1
  <2>9. /\ 1 \in 1..b /\ (l >= 10 => 2 \in 1..b)
        /\ \A i \in 1..l : w + i \in 1..b /\ p[k - 1] + (w + i) = p[k - 1] + w + i
    <3>1. PICK d \in Nat : d = p[k - 1]
      BY <2>1
    <3>2. b = w + l /\ l \in 1..99
      BY <2>6, <2>7
    <3>3. 1 \in 1..b /\ (l >= 10 => 2 \in 1..b) /\ \A i \in 1..l : w + i \in 1..b /\ d + (w + i) = d + w + i
      BY <3>2
    <3> QED BY <3>1, <3>3
  <2>a. \A i \in 1..l : m[p[k - 1] + w + i] = names[k][i]
    <3>1. ASSUME NEW i \in 1..l PROVE m[p[k - 1] + w + i] = names[k][i]
      <4>1. m[p[k - 1] + (w + i)] = s[w + i]
        BY <2>8, <2>9
      <4> QED BY <2>6, <2>7, <2>9, <4>1
    <3> QED BY <3>1
  <2>b. p[k] = p[k - 1] + w + l
    <3>1. b = w + l /\ l \in 1..99 /\ a \in Nat
      BY <2>3, <2>6, <2>7
    <3>2. o + (a + b) = (o + a) + w + l
      BY <3>1
    <3> QED BY <2>4, <3>2
  <2>c. m[p[k - 1] + 1] = s[1] /\ (l >= 10 => m[p[k - 1] + 2] = s[2])
    BY <2>8, <2>9
  <2>d. /\ l < 10 => m[p[k - 1] + 1] = 48 + l
        /\ l >= 10 => m[p[k - 1] + 1] = 48 + l \div 10 /\ m[p[k - 1] + 2] = 48 + (l % 10)
    BY <2>6, <2>c
  <2> QED BY <2>0, <2>4, <2>7, <2>a, <2>b, <2>d DEF NameLaid
<1>13. /\ o = (IF n = 1 THEN 0 ELSE 1) /\ m \in Seq(0..255)
       /\ p \in [0..n -> Nat] /\ p[0] = o /\ Len(m) = p[n] + o
       /\ o = 1 => m[1] = 78 /\ m[Len(m)] = 69
  BY <1>8, <1>9, <1>10, <1>11
<1> QED BY <1>1, <1>13, <1>12, ZenonT(40) DEF MangledLayout

\* Name k of n in the joined names w ends with character q[k] of them.
NameJoined(name, w, q, k, n) ==
  /\ q[k] = Begins(q, k) + Len(name) /\ q[k] <= q[n]
  /\ k # 1 => w[q[k - 1] + 1] = 46
  /\ \A i \in 1..Len(name) : w[Begins(q, k) + i] = name[i]
  /\ w[q[k]] # 46

JoinedLayout(names, w, q) ==
  LET n == Len(names)
  IN  /\ w \in Seq(1..255) /\ Len(w) = q[n]
      /\ q \in [0..n -> Nat] /\ q[0] = 0
      /\ \A k \in 1..n : NameJoined(names[k], w, q, k, n)

LEMMA JoinedLaidOut ==
  ASSUME NEW names, AreWords(names), NEW w, w = D!Joined(names)
  PROVE  \E q : JoinedLayout(names, w, q)
<1>1. PICK n \in Nat \ {0} : n = Len(names)
  BY AsWords
<1>2. PICK part : part = Pairs(Dots(names), names, n)
  OBVIOUS
<1>3. PICK u : Chained(part, n, u) /\ w = u[n]
  BY <1>1, <1>2, JoinedAs
<1>4. ASSUME NEW k \in 1..n PROVE DotAndName(k, names[k], part[k]) /\ IsWord(names[k]) /\ part[k] \in Seq(1..255)
  <2>1. IsWord(names[k])
    BY <1>1 DEF AreWords
  <2>2. PICK a, s : a = names[k] /\ s = part[k]
    OBVIOUS
  <2>k. k \in Nat \ {0}
    OBVIOUS
  <2>3. s = (IF k = 1 THEN <<>> ELSE <<46>>) \o a
    BY <1>1, <1>2, <2>2 DEF Pairs, Dots
  <2>4. DotAndName(k, a, s)
    BY <2>1, <2>2, <2>3, <2>k, PartOfJoined
  <2>5. part[k] \in Seq(1..255)
    BY <2>2, <2>4 DEF DotAndName
  <2> QED BY <2>1, <2>2, <2>4, <2>5
<1>5. part \in [1..n -> Seq(1..255)]
  BY <1>2, <1>4 DEF Pairs
<1>6. /\ \A k \in 0..n : u[k] \in Seq(1..255) /\ Len(u[k]) \in Nat /\ Len(u[k]) <= Len(u[n])
      /\ PartsInPlace(part, n, u)
  <2>1. n \in Nat /\ Chained(part, n, u)
    BY <1>3
  <2>2. \A k \in 0..n : u[k] \in Seq(1..255)
    BY <1>5, <2>1, ChainType, ZenonT(40)
  <2>3. (\A k \in 0..n : Len(u[k]) \in Nat /\ Len(u[k]) <= Len(u[n])) /\ PartsInPlace(part, n, u)
    BY <1>5, <2>1, ChainParts, ZenonT(40)
  <2> QED BY <2>2, <2>3, Zenon
<1>7. PICK q \in [0..n -> Nat] : \A k \in 0..n : q[k] = Len(u[k])
  <2> DEFINE f == [k \in 0..n |-> Len(u[k])]
  <2>1. f \in [0..n -> Nat] /\ \A k \in 0..n : f[k] = Len(u[k])
    BY <1>6
  <2> QED BY <2>1
<1>8. q[0] = 0 /\ Len(w) = q[n] /\ w \in Seq(1..255)
  <2>1. 0 \in 0..n /\ n \in 0..n /\ u[0] = <<>> /\ Len(<<>>) = 0
    BY <1>3, EmptySeq DEF Chained
  <2>2. q[0] = Len(u[0]) /\ q[n] = Len(u[n]) /\ u[n] \in Seq(1..255)
    BY <1>6, <1>7, <2>1
  <2> QED BY <1>3, <2>1, <2>2
<1>9. ASSUME NEW k \in 1..n PROVE NameJoined(names[k], w, q, k, n)
  <2>1. k - 1 \in 0..n /\ k \in 0..n /\ n \in 0..n
    OBVIOUS
  <2>2. PICK a, b : PartBehind(part, u, k, a, b)
    BY <1>3, <1>5, ChainStep, ZenonT(40)
  <2>3. a \in Nat /\ b \in Nat /\ a = Len(u[k - 1]) /\ b = Len(part[k]) /\ Len(u[k]) = a + b
    BY <2>2 DEF PartBehind
  <2>4. q[k - 1] = a /\ q[k] = a + b /\ q[k] <= q[n]
    BY <1>6, <1>7, <2>1, <2>3
  <2>5. PICK s, v, l, d : s = part[k] /\ v = names[k] /\ l = Len(v) /\ d = IF k = 1 THEN 0 ELSE 1
    OBVIOUS
  <2>6. /\ b = d + l /\ l \in 1..99 /\ (k # 1 => s[1] = 46)
        /\ \A i \in 1..l : s[d + i] = v[i]
        /\ \A i \in 1..l : v[i] # 46
    <3>1. DotAndName(k, v, s) /\ IsWord(v) /\ b = Len(s)
      BY <1>4, <2>3, <2>5
    <3> QED BY <2>5, <3>1 DEF DotAndName, IsWord
  <2>7. \A j \in 1..b : w[a + j] = s[j]
    BY <1>3, <1>6, <2>3, <2>5 DEF PartsInPlace
  <2>8. Begins(q, k) = a + d
    <3>1. CASE k = 1
      <4>1. a = 0 /\ d = 0
        BY <1>8, <2>4, <2>5, <3>1
      <4> QED BY <3>1, <4>1 DEF Begins
    <3>2. CASE k # 1
      BY <2>4, <2>5, <3>2 DEF Begins
    <3> QED BY <3>1, <3>2
  <2>e. d \in {0, 1}
    BY <2>5
  <2>9. a + b = (a + d) + l /\ \A i \in 1..l : d + i \in 1..b /\ (a + d) + i = a + (d + i)
    <3>1. a \in Nat /\ b \in Nat /\ l \in 1..99 /\ b = d + l
      BY <2>3, <2>6
    <3>2. a + b = (a + d) + l
      BY <2>e, <3>1
    <3>3. ASSUME NEW i \in 1..l PROVE d + i \in 1..b /\ (a + d) + i = a + (d + i)
      BY <2>e, <3>1
    <3> QED BY <3>2, <3>3
  <2>10. \A i \in 1..l : w[(a + d) + i] = v[i]
    BY <2>6, <2>7, <2>9
  <2>11. w[a + b] # 46
    <3>1. l \in 1..l
      BY <2>6
    <3> QED BY <2>6, <2>9, <2>10, <3>1
  <2>12. k # 1 => w[a + 1] = 46
    <3> SUFFICES ASSUME k # 1 PROVE w[a + 1] = 46
      OBVIOUS
    <3>1. 1 \in 1..b
      <4>1. b = d + l /\ l \in 1..99 /\ d = 1
        BY <2>5, <2>6
      <4> QED BY <4>1
    <3> QED BY <2>6, <2>7, <3>1
  <2>13. /\ q[k] = Begins(q, k) + l /\ q[k] <= q[n]
         /\ k # 1 => w[q[k - 1] + 1] = 46
         /\ \A i \in 1..l : w[Begins(q, k) + i] = v[i]
         /\ w[q[k]] # 46
    BY <2>4, <2>8, <2>9, <2>10, <2>11, <2>12, SMTT(30)
  <2> QED BY <2>5, <2>13 DEF NameJoined
<1> QED BY <1>1, <1>7, <1>8, <1>9 DEF JoinedLayout

\* A call of Demangle as the loop needs it.
CallOf(names, max, cut, m, p, o, w, q) ==
  [n |-> Len(names), max |-> max, cut |-> cut, off |-> o,
   len |-> [k \in 1..Len(names) |-> Len(names[k])], name |-> names, p |-> p, size |-> Len(m) - cut,
   text |-> SubSeq(m, 1, Len(m) - cut), q |-> q, joined |-> w]

LEMMA NamesAreCalled ==
  ASSUME NEW names, AreWords(names), NEW max \in Nat \ {0}, NEW cut \in {0, 1},
         NEW m, NEW p, NEW o, MangledLayout(names, m, p, o), NEW w, NEW q, JoinedLayout(names, w, q),
         NEW x, x = CallOf(names, max, cut, m, p, o, w, q)
  PROVE  Called(x)
<1>1. PICK n \in Nat \ {0} : n = Len(names)
  BY AsWords
<1>2. /\ x.n = n /\ x.max = max /\ x.cut = cut /\ x.off = o /\ x.name = names /\ x.p = p /\ x.q = q /\ x.joined = w
      /\ x.size = Len(m) - cut /\ x.text = SubSeq(m, 1, Len(m) - cut)
      /\ x.len = [k \in 1..n |-> Len(names[k])]
  BY <1>1 DEF CallOf
<1>3. ASSUME NEW k \in 1..n
      PROVE  /\ Len(names[k]) \in 1..99 /\ names[k][1] \in 0..255 /\ names[k][1] \notin 48..57
             /\ x.len[k] = Len(names[k]) /\ NameLaid(names[k], m, p, k, n) /\ NameJoined(names[k], w, q, k, n)
  <2>1. IsWord(names[k]) /\ NameLaid(names[k], m, p, k, n) /\ NameJoined(names[k], w, q, k, n)
    BY <1>1 DEF AreWords, MangledLayout, JoinedLayout
  <2>2. PICK v : v = names[k]
    OBVIOUS
  <2>3. v \in Seq(1..255) /\ Len(v) \in 1..99 /\ v[1] \notin 48..57
    BY <2>1, <2>2 DEF IsWord
  <2>4. v[1] \in 1..255
    <3>1. PICK l \in 1..99 : l = Len(v) /\ 1 \in 1..l
      BY <2>3
    <3>2. v \in [1..l -> 1..255]
      BY <2>3, <3>1, LenProperties
    <3> QED BY <3>1, <3>2
  <2>5. v[1] \in 0..255
    BY <2>4
  <2> QED BY <1>2, <2>1, <2>2, <2>3, <2>5
<1>4. /\ o = (IF n = 1 THEN 0 ELSE 1) /\ m \in Seq(0..255) /\ p \in [0..n -> Nat] /\ p[0] = o /\ Len(m) = p[n] + o
      /\ o = 1 => m[1] = 78 /\ m[Len(m)] = 69
  BY <1>1 DEF MangledLayout
<1>5. w \in Seq(1..255) /\ Len(w) = q[n] /\ q \in [0..n -> Nat] /\ q[0] = 0
  BY <1>1 DEF JoinedLayout
<1>6. x.len \in [1..n -> 1..99]
  <2>1. \A k \in 1..n : Len(names[k]) \in 1..99
    BY <1>3
  <2> QED BY <1>2, <2>1
\* The text, without its last character if it is cut.
<1>7. PICK e \in Nat, z \in Nat : e = p[n] /\ e >= 2 /\ z = e + o - cut /\ z = Len(m) - cut /\ z >= 1
        /\ \A k \in 1..n : p[k - 1] + Wide(Len(names[k])) + Len(names[k]) <= e
  <2>1. p[n] \in Nat /\ o \in {0, 1} /\ n \in 1..n
    BY <1>4
  <2>2. ASSUME NEW k \in 1..n PROVE p[k - 1] + Wide(Len(names[k])) + Len(names[k]) <= p[n] /\ p[n] >= 2
    <3>1. PICK l \in 1..99 : l = Len(names[k])
      BY <1>3
    <3>2. PICK a \in 1..2 : a = Wide(l)
      BY DEF Wide
    <3>3. PICK b \in Nat, c \in Nat : b = p[k - 1] /\ c = p[n]
      <4>1. k - 1 \in 0..n /\ n \in 0..n
        OBVIOUS
      <4> QED BY <1>4, <4>1
    <3>4. p[k] = b + a + l /\ p[k] <= c
      <4>1. p[k] = p[k - 1] + Wide(l) + l /\ p[k] <= p[n]
        <5>1. NameLaid(names[k], m, p, k, n)
          BY <1>3
        <5>2. p[k] = p[k - 1] + Wide(Len(names[k])) + Len(names[k]) /\ p[k] <= p[n]
          BY <5>1 DEF NameLaid
        <5> QED BY <3>1, <5>2, Zenon
      <4> QED BY <3>2, <3>3, <4>1
    <3>5. b + a + l <= c /\ c >= 2
      BY <3>4
    <3> QED BY <3>1, <3>2, <3>3, <3>5
  <2>3. PICK e \in Nat : e = p[n] /\ e >= 2 /\ Len(m) = e + o
    <3>1. n \in 1..n
      OBVIOUS
    <3> QED BY <1>4, <2>1, <2>2, <3>1
  <2>4. e + o - cut \in Nat /\ e + o - cut >= 1
    BY <2>1, <2>3
  <2>5. PICK z \in Nat : z = e + o - cut /\ z >= 1
    BY <2>4
  <2>6. z = Len(m) - cut
    <3>1. PICK c : c = Len(m)
      OBVIOUS
    <3>2. c = e + o /\ z = e + o - cut
      BY <2>3, <2>5, <3>1
    <3>3. z = c - cut
      BY <2>1, <3>2
    <3> QED BY <3>1, <3>3
  <2>7. \A k \in 1..n : p[k - 1] + Wide(Len(names[k])) + Len(names[k]) <= e
    BY <2>2, <2>3
  <2> QED BY <2>3, <2>5, <2>6, <2>7
<1>8. /\ x.text \in [1..z -> 0..255] /\ Len(x.text) = z /\ z <= Len(m) /\ x.size = z
      /\ \A i \in 1..z : x.text[i] = m[i]
  <2>0. Len(m) \in Nat /\ z <= Len(m)
    BY <1>4, <1>7
  <2>1. SubSeq(m, 1, z) \in Seq(0..255) /\ Len(SubSeq(m, 1, z)) = z /\ \A i \in 1..z : SubSeq(m, 1, z)[i] = m[i]
    <3>1. PICK a : a = SubSeq(m, 1, z)
      OBVIOUS
    <3>2. Len(a) = z /\ \A i \in 1..z : a[i] = m[i]
      BY <1>4, <2>0, <3>1
    <3>3. a \in Seq(0..255)
      <4>1. \A i \in 1..z : m[i] \in 0..255
        <5>1. PICK c \in Nat : c = Len(m) /\ m \in [1..c -> 0..255] /\ z <= c
          <6>0. m \in Seq(0..255)
            BY <1>4
          <6>1. m \in [1..Len(m) -> 0..255] /\ Len(m) \in Nat
            BY <6>0, LenProperties, ZenonT(40)
          <6> QED BY <2>0, <6>1, Zenon
        <5>2. \A i \in 1..z : i \in 1..c
          BY <1>7, <5>1
        <5> QED BY <5>1, <5>2, ZenonT(40)
      <4>2. 1 \in Int /\ z \in Int
        OBVIOUS
      <4> QED BY <3>1, <4>1, <4>2, SubSeqProperties
    <3> QED BY <3>1, <3>2, <3>3
  <2>2. x.text = SubSeq(m, 1, z)
    BY <1>2, <1>7
  <2>3. x.text \in Seq(0..255) /\ Len(x.text) = z /\ \A i \in 1..z : x.text[i] = m[i]
    BY <2>1, <2>2, Zenon
  <2>4. x.text \in [1..z -> 0..255]
    <3>1. x.text \in [1..Len(x.text) -> 0..255]
      BY <2>3, LenProperties, ZenonT(40)
    <3> QED BY <2>3, <3>1, Zenon
  <2>5. x.size = z
    BY <1>2, <1>7
  <2> QED BY <2>0, <2>3, <2>4, <2>5
<1>9. ASSUME NEW k \in 1..n
      PROVE  /\ x.p[k] = x.p[k - 1] + Wide(x.len[k]) + x.len[k] /\ x.p[k] <= x.p[n]
             /\ x.len[k] < 10 => x.text[x.p[k - 1] + 1] = 48 + x.len[k]
             /\ x.len[k] >= 10 => /\ x.text[x.p[k - 1] + 1] = 48 + x.len[k] \div 10
                                  /\ x.text[x.p[k - 1] + 2] = 48 + (x.len[k] % 10)
             /\ \A i \in 1..x.len[k] : x.p[k - 1] + Wide(x.len[k]) + i <= x.size
                  => x.text[x.p[k - 1] + Wide(x.len[k]) + i] = x.name[k][i]
  <2>a. PICK b \in Nat : b = p[k - 1] /\ b = x.p[k - 1]
    <3>1. k - 1 \in 0..n
      OBVIOUS
    <3> QED BY <1>2, <1>4, <3>1
  <2>b. PICK l \in 1..99 : l = Len(names[k]) /\ l = x.len[k]
    <3>1. Len(names[k]) \in 1..99
      BY <1>3
    <3>2. x.len[k] = Len(names[k])
      BY <1>3
    <3> QED BY <3>1, <3>2
  <2>1. l = Len(names[k]) /\ l = x.len[k] /\ b = p[k - 1] /\ b = x.p[k - 1]
    BY <2>a, <2>b
  <2>2. PICK a \in 1..2 : a = Wide(l) /\ (l >= 10 => a = 2)
    BY DEF Wide
  <2>3. /\ p[k] = b + a + l /\ p[k] <= p[n]
        /\ l < 10 => m[b + 1] = 48 + l
        /\ l >= 10 => m[b + 1] = 48 + l \div 10 /\ m[b + 2] = 48 + (l % 10)
        /\ \A i \in 1..l : m[b + a + i] = names[k][i]
    <3>1. NameLaid(names[k], m, p, k, n)
      BY <1>3
    <3> QED BY <2>1, <2>2, <3>1, Zenon DEF NameLaid
  <2>4. b + a + l <= e /\ e <= z + 1
    <3>1. b + a + l <= e
      BY <1>7, <2>1, <2>2
    <3>2. o \in {0, 1} /\ z = e + o - cut
      BY <1>4, <1>7
    <3> QED BY <3>1, <3>2
  <2>5. 1 <= b + 1 /\ b + 1 <= z /\ (l >= 10 => b + 2 <= z) /\ b + 1 \in 1..z /\ (l >= 10 => b + 2 \in 1..z)
    BY <2>2, <2>4
  <2>6. x.text[b + 1] = m[b + 1] /\ (l >= 10 => x.text[b + 2] = m[b + 2])
    BY <1>8, <2>5
  <2>7. ASSUME NEW i \in 1..l, b + a + i <= z PROVE x.text[b + a + i] = names[k][i]
    <3>1. b + a + i \in 1..z
      BY <2>7
    <3> QED BY <1>8, <2>3, <3>1
  <2>8. \A i \in 1..x.len[k] : x.p[k - 1] + Wide(x.len[k]) + i <= x.size
           => x.text[x.p[k - 1] + Wide(x.len[k]) + i] = x.name[k][i]
    <3>1. x.len[k] = l /\ x.p[k - 1] = b /\ Wide(x.len[k]) = a /\ x.size = z /\ x.name[k] = names[k]
      BY <1>2, <1>8, <2>1, <2>2
    <3> QED BY <2>7, <3>1, Zenon
  <2>9. x.p[k] = x.p[k - 1] + Wide(x.len[k]) + x.len[k] /\ x.p[k] <= x.p[n]
    BY <1>2, <2>1, <2>2, <2>3
  <2>10. /\ x.len[k] < 10 => x.text[x.p[k - 1] + 1] = 48 + x.len[k]
         /\ x.len[k] >= 10 => /\ x.text[x.p[k - 1] + 1] = 48 + x.len[k] \div 10
                              /\ x.text[x.p[k - 1] + 2] = 48 + (x.len[k] % 10)
    BY <2>1, <2>3, <2>6
  <2> QED BY <2>8, <2>9, <2>10
<1>10. TextLaid(x)
  <2>1. /\ x.p \in [0..x.n -> Nat] /\ x.p[0] = x.off
        /\ x.size \in Nat /\ x.size = x.p[x.n] + x.off - x.cut /\ Len(x.text) = x.size
        /\ x.text \in [1..x.size -> 0..255]
    BY <1>2, <1>4, <1>7, <1>8, ZenonT(40)
  <2>2. x.off = 1 => x.text[1] = 78
    <3>1. 1 \in 1..z
      BY <1>7
    <3> QED BY <1>2, <1>4, <1>8, <3>1
  <2>3. x.off = 1 /\ x.cut = 0 => x.text[x.size] = 69
    <3> SUFFICES ASSUME o = 1, cut = 0 PROVE x.text[z] = 69
      BY <1>2, <1>8
    <3>1. z \in 1..z /\ Len(m) = z
      <4>1. z = e + o - cut /\ z >= 1 /\ Len(m) = e + o
        BY <1>4, <1>7
      <4>2. e + o - cut = e + o
        OBVIOUS
      <4> QED BY <4>1, <4>2
    <3> QED BY <1>4, <1>8, <3>1
  <2>4. x.n = n
    BY <1>2
  <2>5. \A k \in 1..x.n : x.p[k] = x.p[k - 1] + Wide(x.len[k]) + x.len[k] /\ x.p[k] <= x.p[x.n]
    BY <1>9, <2>4, Zenon
  <2>6. \A k \in 1..x.n : x.len[k] < 10 => x.text[x.p[k - 1] + 1] = 48 + x.len[k]
    BY <1>9, <2>4, Zenon
  <2>7. \A k \in 1..x.n : x.len[k] >= 10 => /\ x.text[x.p[k - 1] + 1] = 48 + x.len[k] \div 10
                                             /\ x.text[x.p[k - 1] + 2] = 48 + (x.len[k] % 10)
    BY <1>9, <2>4, Zenon
  <2>8. \A k \in 1..x.n : \A i \in 1..x.len[k] :
           x.p[k - 1] + Wide(x.len[k]) + i <= x.size => x.text[x.p[k - 1] + Wide(x.len[k]) + i] = x.name[k][i]
    BY <1>9, <2>4, Zenon
  <2> QED BY <2>1, <2>2, <2>3, <2>5, <2>6, <2>7, <2>8, Zenon DEF TextLaid
<1>11. NamesJoined(x)
  <2>1. x.q \in [0..x.n -> Nat] /\ x.q[0] = 0 /\ x.joined \in [1..x.q[x.n] -> 1..255]
    <3>0. w \in Seq(1..255)
      BY <1>5
    <3>1. w \in [1..Len(w) -> 1..255]
      BY <3>0, LenProperties, ZenonT(40)
    <3>2. w \in [1..q[n] -> 1..255]
      BY <1>5, <3>1, Zenon
    <3> QED BY <1>2, <1>5, <3>2, ZenonT(40)
  <2>2. ASSUME NEW k \in 1..x.n
        PROVE  /\ x.q[k] = Begins(x.q, k) + x.len[k] /\ x.q[k] <= x.q[x.n]
               /\ k # 1 => x.joined[x.q[k - 1] + 1] = 46
               /\ \A i \in 1..x.len[k] : x.joined[Begins(x.q, k) + i] = x.name[k][i]
               /\ x.joined[x.q[k]] # 46
    <3>1. x.len[k] = Len(names[k]) /\ NameJoined(names[k], w, q, k, n)
      BY <1>2, <1>3
    <3> QED BY <1>2, <3>1, ZenonT(40) DEF NameJoined
  <2>3. \A k \in 2..x.n : x.joined[x.q[k - 1] + 1] = 46
    <3>1. \A k \in 2..x.n : k \in 1..x.n /\ k # 1
      OBVIOUS
    <3> QED BY <2>2, <3>1
  <2> QED BY <2>1, <2>2, <2>3 DEF NamesJoined
<1>12. \A k \in 1..x.n : x.name[k][1] \in 0..255 /\ x.name[k][1] \notin 48..57
  BY <1>2, <1>3
<1>13. x.n \in Nat \ {0} /\ x.max \in Nat \ {0} /\ x.cut \in {0, 1} /\ x.off = (IF x.n = 1 THEN 0 ELSE 1)
       /\ x.len \in [1..x.n -> 1..99]
  BY <1>2, <1>4, <1>6
<1> QED BY <1>10, <1>11, <1>12, <1>13 DEF Called

\* What is in the buffer is what the joined names begin with.
LEMMA WrittenAsCalled ==
  ASSUME NEW names, AreWords(names), NEW max \in Nat \ {0}, NEW cut \in {0, 1}
  PROVE  D!Written(names, max, cut)
<1>1. PICK m, w : m = D!Mangle(names) /\ w = D!Joined(names)
  OBVIOUS
<1>2. PICK p, o : MangledLayout(names, m, p, o)
  BY <1>1, MangledLaidOut
<1>3. PICK q : JoinedLayout(names, w, q)
  BY <1>1, JoinedLaidOut
<1>4. PICK x : x = CallOf(names, max, cut, m, p, o, w, q)
  OBVIOUS
<1>5. Called(x)
  BY <1>2, <1>3, <1>4, NamesAreCalled
<1>6. x.max = max /\ x.cut = cut /\ x.joined = w /\ x.text = SubSeq(m, 1, Len(m) - cut) /\ x.q = q /\ x.n = Len(names)
  BY <1>4 DEF CallOf
<1>7. PICK r : r = D!Debug_Demangle(x.text, x.max)
  OBVIOUS
<1>8. PICK l, b : l = r.value /\ b = r.buffer
  OBVIOUS
<1>9. Ends(x, l, b) /\ DOMAIN b = 0..(max - 1)
  BY <1>5, <1>6, <1>7, <1>8, DemangleEnds
<1>10. w \in Seq(1..255) /\ Len(w) = q[Len(names)] /\ Len(w) \in Nat
  <2>1. w \in Seq(1..255) /\ Len(w) = q[Len(names)]
    BY <1>3 DEF JoinedLayout
  <2> QED BY <2>1, LenProperties
<1>11. /\ l \in Nat /\ l < max
       /\ cut = 0 => /\ l <= Len(w) /\ \A i \in 1..l : b[i - 1] = w[i]
                     /\ Len(w) < max => l = Len(w)
       /\ (l > 0 /\ b[l - 1] = 46) <=> \A i \in 0..(max - 1) : b[i] # 0
  BY <1>6, <1>9, <1>10 DEF Ends
<1>12. ASSUME cut = 0 PROVE [j \in 1..l |-> b[j - 1]] = SubSeq(w, 1, l)
  <2>1. l <= Len(w) /\ \A i \in 1..l : b[i - 1] = w[i]
    BY <1>11, <1>12
  <2>2. SubSeq(w, 1, l) = [j \in 1..l |-> w[j]]
    BY <1>10, <1>11, <2>1
  <2> QED BY <2>1, <2>2
<1>13. (l > 0 /\ b[l - 1] = 46) <=> \A j \in DOMAIN b : b[j] # 0
  BY <1>9, <1>11
<1>14. cut = 0 => /\ [j \in 1..l |-> b[j - 1]] = SubSeq(w, 1, l) /\ l <= Len(w)
                  /\ Len(w) < max => l = Len(w)
  BY <1>11, <1>12
<1>15. r = D!Debug_Demangle(SubSeq(D!Mangle(names), 1, Len(D!Mangle(names)) - cut), max)
  BY <1>1, <1>6, <1>7, Zenon
<1>16. r.value < max
  BY <1>8, <1>11
<1> QED BY <1>1, <1>8, <1>13, <1>14, <1>15, <1>16, Zenon DEF D!Written, D!DOT, D!NUL

-----------------------------------------------------------------------------
(* Signature: the spellings.                                               *)

Spelled(t) == S!TypeNames[t].name
Blank      == " "

\* The name w has l characters, the first of them c, the tenth d if there is one, and a
\* blank at place z, if that is not 0.
Spelling(w, l, z, c, d) ==
  /\ l \in Nat \ {0, 1} /\ z \in 0..l /\ z # 1
  /\ DOMAIN w = 1..l /\ w = [k \in 1..l |-> w[k]]
  /\ w[1] = c /\ (l >= 10 => w[10] = d)
  /\ \A k \in 1..l : w[k] # "," /\ w[k] # ""
  /\ \A k \in 1..l : k # z => w[k] # Blank
  /\ z # 0 => w[z] = Blank

LEMMA Spelling1 == Spelling(Spelled(1), 3, 0, "i", "")
<1>1. PICK w : w = Spelled(1) /\ w = <<"i", "n", "t">>
  BY Zenon DEF Spelled, S!TypeNames, Blank
<1>2. DOMAIN w = 1..3 /\ w = [k \in 1..3 |-> w[k]]
  BY <1>1
<1>3. w[1] = "i" /\ w[2] = "n" /\ w[3] = "t"
  BY <1>1
<1>4. \A k \in 1..3 : k = 1 \/ k = 2 \/ k = 3
  OBVIOUS
<1>5. \A k \in 1..3 : w[k] # "," /\ w[k] # ""
  BY <1>3, <1>4, Zenon DEF Blank
<1>6. \A k \in 1..3 : w[k] # Blank
  BY <1>3, <1>4, Zenon DEF Blank
<1>7. w[1] = "i"
  BY <1>3, Zenon
<1>8. w = Spelled(1)
  BY <1>1, Zenon
<1>9. 3 \in Nat \ {0, 1} /\ 0 \in 0..3 /\ ~(3 >= 10)
  OBVIOUS
<1>10. Spelling(w, 3, 0, "i", "")
  BY <1>2, <1>5, <1>6, <1>7, <1>9, Zenon DEF Spelling
<1> QED BY <1>8, <1>10, Zenon

LEMMA Spelling2 == Spelling(Spelled(2), 12, 9, "u", "i")
<1>1. PICK w : w = Spelled(2) /\ w = <<"u", "n", "s", "i", "g", "n", "e", "d", Blank, "i", "n", "t">>
  BY Zenon DEF Spelled, S!TypeNames, Blank
<1>2. DOMAIN w = 1..12 /\ w = [k \in 1..12 |-> w[k]]
  BY <1>1
<1>3. w[1] = "u" /\ w[2] = "n" /\ w[3] = "s" /\ w[4] = "i" /\ w[5] = "g" /\ w[6] = "n" /\ w[7] = "e"
      /\ w[8] = "d" /\ w[9] = Blank /\ w[10] = "i" /\ w[11] = "n" /\ w[12] = "t"
  BY <1>1
<1>4. \A k \in 1..12 : k = 1 \/ k = 2 \/ k = 3 \/ k = 4 \/ k = 5 \/ k = 6 \/ k = 7 \/ k = 8 \/ k = 9
        \/ k = 10 \/ k = 11 \/ k = 12
  OBVIOUS
<1>5. \A k \in 1..12 : w[k] # "," /\ w[k] # ""
  BY <1>3, <1>4, Zenon DEF Blank
<1>6. \A k \in 1..12 : k # 9 => w[k] # Blank
  BY <1>3, <1>4, Zenon DEF Blank
<1>7. w[1] = "u" /\ w[10] = "i" /\ w[9] = Blank
  BY <1>3, Zenon
<1>8. w = Spelled(2)
  BY <1>1, Zenon
<1>9. 12 \in Nat \ {0, 1} /\ 9 \in 0..12 /\ 9 # 1
  OBVIOUS
<1>10. Spelling(w, 12, 9, "u", "i")
  BY <1>2, <1>5, <1>6, <1>7, <1>9, Zenon DEF Spelling
<1> QED BY <1>8, <1>10, Zenon

LEMMA Spelling3 == Spelling(Spelled(3), 5, 0, "s", "")
<1>1. PICK w : w = Spelled(3) /\ w = <<"s", "h", "o", "r", "t">>
  BY Zenon DEF Spelled, S!TypeNames, Blank
<1>2. DOMAIN w = 1..5 /\ w = [k \in 1..5 |-> w[k]]
  BY <1>1
<1>3. w[1] = "s" /\ w[2] = "h" /\ w[3] = "o" /\ w[4] = "r" /\ w[5] = "t"
  BY <1>1
<1>4. \A k \in 1..5 : k = 1 \/ k = 2 \/ k = 3 \/ k = 4 \/ k = 5
  OBVIOUS
<1>5. \A k \in 1..5 : w[k] # "," /\ w[k] # ""
  BY <1>3, <1>4, Zenon DEF Blank
<1>6. \A k \in 1..5 : w[k] # Blank
  BY <1>3, <1>4, Zenon DEF Blank
<1>7. w[1] = "s"
  BY <1>3, Zenon
<1>8. w = Spelled(3)
  BY <1>1, Zenon
<1>9. 5 \in Nat \ {0, 1} /\ 0 \in 0..5 /\ ~(5 >= 10)
  OBVIOUS
<1>10. Spelling(w, 5, 0, "s", "")
  BY <1>2, <1>5, <1>6, <1>7, <1>9, Zenon DEF Spelling
<1> QED BY <1>8, <1>10, Zenon

LEMMA Spelling4 == Spelling(Spelled(4), 14, 9, "u", "s")
<1>1. PICK w : w = Spelled(4) /\ w = <<"u", "n", "s", "i", "g", "n", "e", "d", Blank, "s", "h", "o", "r", "t">>
  BY Zenon DEF Spelled, S!TypeNames, Blank
<1>2. DOMAIN w = 1..14 /\ w = [k \in 1..14 |-> w[k]]
  BY <1>1
<1>3. w[1] = "u" /\ w[2] = "n" /\ w[3] = "s" /\ w[4] = "i" /\ w[5] = "g" /\ w[6] = "n" /\ w[7] = "e"
      /\ w[8] = "d" /\ w[9] = Blank /\ w[10] = "s" /\ w[11] = "h" /\ w[12] = "o" /\ w[13] = "r"
      /\ w[14] = "t"
  BY <1>1
<1>4. \A k \in 1..14 : k = 1 \/ k = 2 \/ k = 3 \/ k = 4 \/ k = 5 \/ k = 6 \/ k = 7 \/ k = 8 \/ k = 9
        \/ k = 10 \/ k = 11 \/ k = 12 \/ k = 13 \/ k = 14
  OBVIOUS
<1>5. \A k \in 1..14 : w[k] # "," /\ w[k] # ""
  BY <1>3, <1>4, Zenon DEF Blank
<1>6. \A k \in 1..14 : k # 9 => w[k] # Blank
  BY <1>3, <1>4, Zenon DEF Blank
<1>7. w[1] = "u" /\ w[10] = "s" /\ w[9] = Blank
  BY <1>3, Zenon
<1>8. w = Spelled(4)
  BY <1>1, Zenon
<1>9. 14 \in Nat \ {0, 1} /\ 9 \in 0..14 /\ 9 # 1
  OBVIOUS
<1>10. Spelling(w, 14, 9, "u", "s")
  BY <1>2, <1>5, <1>6, <1>7, <1>9, Zenon DEF Spelling
<1> QED BY <1>8, <1>10, Zenon

LEMMA Spelling5 == Spelling(Spelled(5), 13, 9, "u", "c")
<1>1. PICK w : w = Spelled(5) /\ w = <<"u", "n", "s", "i", "g", "n", "e", "d", Blank, "c", "h", "a", "r">>
  BY Zenon DEF Spelled, S!TypeNames, Blank
<1>2. DOMAIN w = 1..13 /\ w = [k \in 1..13 |-> w[k]]
  BY <1>1
<1>3. w[1] = "u" /\ w[2] = "n" /\ w[3] = "s" /\ w[4] = "i" /\ w[5] = "g" /\ w[6] = "n" /\ w[7] = "e"
      /\ w[8] = "d" /\ w[9] = Blank /\ w[10] = "c" /\ w[11] = "h" /\ w[12] = "a" /\ w[13] = "r"
  BY <1>1
<1>4. \A k \in 1..13 : k = 1 \/ k = 2 \/ k = 3 \/ k = 4 \/ k = 5 \/ k = 6 \/ k = 7 \/ k = 8 \/ k = 9
        \/ k = 10 \/ k = 11 \/ k = 12 \/ k = 13
  OBVIOUS
<1>5. \A k \in 1..13 : w[k] # "," /\ w[k] # ""
  BY <1>3, <1>4, Zenon DEF Blank
<1>6. \A k \in 1..13 : k # 9 => w[k] # Blank
  BY <1>3, <1>4, Zenon DEF Blank
<1>7. w[1] = "u" /\ w[10] = "c" /\ w[9] = Blank
  BY <1>3, Zenon
<1>8. w = Spelled(5)
  BY <1>1, Zenon
<1>9. 13 \in Nat \ {0, 1} /\ 9 \in 0..13 /\ 9 # 1
  OBVIOUS
<1>10. Spelling(w, 13, 9, "u", "c")
  BY <1>2, <1>5, <1>6, <1>7, <1>9, Zenon DEF Spelling
<1> QED BY <1>8, <1>10, Zenon

LEMMA Spelling6 == Spelling(Spelled(6), 5, 0, "f", "")
<1>1. PICK w : w = Spelled(6) /\ w = <<"f", "l", "o", "a", "t">>
  BY Zenon DEF Spelled, S!TypeNames, Blank
<1>2. DOMAIN w = 1..5 /\ w = [k \in 1..5 |-> w[k]]
  BY <1>1
<1>3. w[1] = "f" /\ w[2] = "l" /\ w[3] = "o" /\ w[4] = "a" /\ w[5] = "t"
  BY <1>1
<1>4. \A k \in 1..5 : k = 1 \/ k = 2 \/ k = 3 \/ k = 4 \/ k = 5
  OBVIOUS
<1>5. \A k \in 1..5 : w[k] # "," /\ w[k] # ""
  BY <1>3, <1>4, Zenon DEF Blank
<1>6. \A k \in 1..5 : w[k] # Blank
  BY <1>3, <1>4, Zenon DEF Blank
<1>7. w[1] = "f"
  BY <1>3, Zenon
<1>8. w = Spelled(6)
  BY <1>1, Zenon
<1>9. 5 \in Nat \ {0, 1} /\ 0 \in 0..5 /\ ~(5 >= 10)
  OBVIOUS
<1>10. Spelling(w, 5, 0, "f", "")
  BY <1>2, <1>5, <1>6, <1>7, <1>9, Zenon DEF Spelling
<1> QED BY <1>8, <1>10, Zenon

LEMMA Spelling7 == Spelling(Spelled(7), 4, 0, "c", "")
<1>1. PICK w : w = Spelled(7) /\ w = <<"c", "h", "a", "r">>
  BY Zenon DEF Spelled, S!TypeNames, Blank
<1>2. DOMAIN w = 1..4 /\ w = [k \in 1..4 |-> w[k]]
  BY <1>1
<1>3. w[1] = "c" /\ w[2] = "h" /\ w[3] = "a" /\ w[4] = "r"
  BY <1>1
<1>4. \A k \in 1..4 : k = 1 \/ k = 2 \/ k = 3 \/ k = 4
  OBVIOUS
<1>5. \A k \in 1..4 : w[k] # "," /\ w[k] # ""
  BY <1>3, <1>4, Zenon DEF Blank
<1>6. \A k \in 1..4 : w[k] # Blank
  BY <1>3, <1>4, Zenon DEF Blank
<1>7. w[1] = "c"
  BY <1>3, Zenon
<1>8. w = Spelled(7)
  BY <1>1, Zenon
<1>9. 4 \in Nat \ {0, 1} /\ 0 \in 0..4 /\ ~(4 >= 10)
  OBVIOUS
<1>10. Spelling(w, 4, 0, "c", "")
  BY <1>2, <1>5, <1>6, <1>7, <1>9, Zenon DEF Spelling
<1> QED BY <1>8, <1>10, Zenon

LEMMA Spelling8 == Spelling(Spelled(8), 6, 5, "c", "")
<1>1. PICK w : w = Spelled(8) /\ w = <<"c", "h", "a", "r", Blank, "*">>
  BY Zenon DEF Spelled, S!TypeNames, Blank
<1>2. DOMAIN w = 1..6 /\ w = [k \in 1..6 |-> w[k]]
  BY <1>1
<1>3. w[1] = "c" /\ w[2] = "h" /\ w[3] = "a" /\ w[4] = "r" /\ w[5] = Blank /\ w[6] = "*"
  BY <1>1
<1>4. \A k \in 1..6 : k = 1 \/ k = 2 \/ k = 3 \/ k = 4 \/ k = 5 \/ k = 6
  OBVIOUS
<1>5. \A k \in 1..6 : w[k] # "," /\ w[k] # ""
  BY <1>3, <1>4, Zenon DEF Blank
<1>6. \A k \in 1..6 : k # 5 => w[k] # Blank
  BY <1>3, <1>4, Zenon DEF Blank
<1>7. w[1] = "c" /\ w[5] = Blank
  BY <1>3, Zenon
<1>8. w = Spelled(8)
  BY <1>1, Zenon
<1>9. 6 \in Nat \ {0, 1} /\ 5 \in 0..6 /\ 5 # 1 /\ ~(6 >= 10)
  OBVIOUS
<1>10. Spelling(w, 6, 5, "c", "")
  BY <1>2, <1>5, <1>6, <1>7, <1>9, Zenon DEF Spelling
<1> QED BY <1>8, <1>10, Zenon

LEMMA Spelling9 == Spelling(Spelled(9), 4, 0, "v", "")
<1>1. PICK w : w = Spelled(9) /\ w = <<"v", "o", "i", "d">>
  BY Zenon DEF Spelled, S!TypeNames, Blank
<1>2. DOMAIN w = 1..4 /\ w = [k \in 1..4 |-> w[k]]
  BY <1>1
<1>3. w[1] = "v" /\ w[2] = "o" /\ w[3] = "i" /\ w[4] = "d"
  BY <1>1
<1>4. \A k \in 1..4 : k = 1 \/ k = 2 \/ k = 3 \/ k = 4
  OBVIOUS
<1>5. \A k \in 1..4 : w[k] # "," /\ w[k] # ""
  BY <1>3, <1>4, Zenon DEF Blank
<1>6. \A k \in 1..4 : w[k] # Blank
  BY <1>3, <1>4, Zenon DEF Blank
<1>7. w[1] = "v"
  BY <1>3, Zenon
<1>8. w = Spelled(9)
  BY <1>1, Zenon
<1>9. 4 \in Nat \ {0, 1} /\ 0 \in 0..4 /\ ~(4 >= 10)
  OBVIOUS
<1>10. Spelling(w, 4, 0, "v", "")
  BY <1>2, <1>5, <1>6, <1>7, <1>9, Zenon DEF Spelling
<1> QED BY <1>8, <1>10, Zenon

\* The lengths of the names, the places of their blanks, their first and tenth letters.
TypeWidths  == <<3, 12, 5, 14, 13, 5, 4, 6, 4>>
Blanks  == <<0, 9, 0, 9, 9, 0, 0, 5, 0>>
Initial == <<"i", "u", "s", "u", "u", "f", "c", "c", "v">>
Tenth   == <<"", "i", "", "s", "c", "", "", "", "">>

LEMMA Spellings == \A t \in 1..9 : Spelling(Spelled(t), TypeWidths[t], Blanks[t], Initial[t], Tenth[t])
<1>1. /\ TypeWidths[1] = 3 /\ TypeWidths[2] = 12 /\ TypeWidths[3] = 5 /\ TypeWidths[4] = 14 /\ TypeWidths[5] = 13
      /\ TypeWidths[6] = 5 /\ TypeWidths[7] = 4 /\ TypeWidths[8] = 6 /\ TypeWidths[9] = 4
  BY DEF TypeWidths
<1>2. /\ Blanks[1] = 0 /\ Blanks[2] = 9 /\ Blanks[3] = 0 /\ Blanks[4] = 9 /\ Blanks[5] = 9
      /\ Blanks[6] = 0 /\ Blanks[7] = 0 /\ Blanks[8] = 5 /\ Blanks[9] = 0
  BY DEF Blanks
<1>3. /\ Initial[1] = "i" /\ Initial[2] = "u" /\ Initial[3] = "s" /\ Initial[4] = "u" /\ Initial[5] = "u"
      /\ Initial[6] = "f" /\ Initial[7] = "c" /\ Initial[8] = "c" /\ Initial[9] = "v"
  BY DEF Initial
<1>4. /\ Tenth[1] = "" /\ Tenth[2] = "i" /\ Tenth[3] = "" /\ Tenth[4] = "s" /\ Tenth[5] = "c"
      /\ Tenth[6] = "" /\ Tenth[7] = "" /\ Tenth[8] = "" /\ Tenth[9] = ""
  BY DEF Tenth
<1> DEFINE Fits(t) == Spelling(Spelled(t), TypeWidths[t], Blanks[t], Initial[t], Tenth[t])
<1>5. Fits(1)
  BY <1>1, <1>2, <1>3, <1>4, Spelling1
<1>6. Fits(2)
  BY <1>1, <1>2, <1>3, <1>4, Spelling2
<1>7. Fits(3)
  BY <1>1, <1>2, <1>3, <1>4, Spelling3
<1>8. Fits(4)
  BY <1>1, <1>2, <1>3, <1>4, Spelling4
<1>9. Fits(5)
  BY <1>1, <1>2, <1>3, <1>4, Spelling5
<1>10. Fits(6)
  BY <1>1, <1>2, <1>3, <1>4, Spelling6
<1>11. Fits(7)
  BY <1>1, <1>2, <1>3, <1>4, Spelling7
<1>12. Fits(8)
  BY <1>1, <1>2, <1>3, <1>4, Spelling8
<1>13. Fits(9)
  BY <1>1, <1>2, <1>3, <1>4, Spelling9
<1>14. \A t \in 1..9 : t = 1 \/ t = 2 \/ t = 3 \/ t = 4 \/ t = 5 \/ t = 6 \/ t = 7 \/ t = 8 \/ t = 9
  OBVIOUS
<1> HIDE DEF Fits
<1>15. \A t \in 1..9 : Fits(t)
  BY <1>5, <1>6, <1>7, <1>8, <1>9, <1>10, <1>11, <1>12, <1>13, <1>14, Zenon
<1> QED BY <1>15 DEF Fits

\* The characters that GetNextType counts.
Counted(t) == IF Blanks[t] = 0 THEN TypeWidths[t] ELSE TypeWidths[t] - 1

LEMMA Counts == \A t \in 1..9 : Counted(t) \in 1..TypeWidths[t] /\ TypeWidths[t] \in Nat \ {0}
BY DEF Counted, TypeWidths, Blanks

LEMMA CharIn ==
  ASSUME NEW w, NEW l \in Nat, Len(w) = l, NEW k \in Nat
  PROVE  S!CharAt(w, k) = IF k < l THEN w[k + 1] ELSE ""
BY DEF S!CharAt

LEMMA AsLong ==
  ASSUME NEW X, NEW l \in Nat, NEW w \in [1..l -> X]
  PROVE  Len(w) = l
<1>1. w \in Seq(X)
  OBVIOUS
<1> QED BY <1>1, LenProperties

LEMMA SpelledLength == \A t \in 1..9 : Len(Spelled(t)) = TypeWidths[t]
<1> SUFFICES ASSUME NEW t \in 1..9 PROVE Len(Spelled(t)) = TypeWidths[t]
  OBVIOUS
<1>1. PICK w, l : w = Spelled(t) /\ l = TypeWidths[t]
  OBVIOUS
<1>2. l \in Nat
  BY <1>1, Counts
<1>3. DOMAIN w = 1..l /\ w = [k \in 1..l |-> w[k]]
  BY <1>1, Spellings, Zenon DEF Spelling
<1>4. PICK X : X = {w[k] : k \in 1..l}
  OBVIOUS
<1>5. w \in [1..l -> X]
  BY <1>3, <1>4
<1> QED BY <1>1, <1>2, <1>5, AsLong

LEMMA SpelledChars ==
  ASSUME NEW t \in 1..9, NEW k \in 0..(TypeWidths[t] - 1)
  PROVE  S!CharAt(Spelled(t), k) = Spelled(t)[k + 1]
<1>1. PICK w, l : w = Spelled(t) /\ l = TypeWidths[t]
  OBVIOUS
<1>2. l \in Nat /\ Len(w) = l /\ k \in Nat /\ k < l
  <2>1. l \in Nat /\ k \in 0..(l - 1)
    BY <1>1, Counts
  <2>2. Len(w) = l
    BY <1>1, SpelledLength, Zenon
  <2> QED BY <2>1, <2>2
<1>3. S!CharAt(w, k) = w[k + 1]
  BY <1>2, CharIn
<1> QED BY <1>1, <1>3

\* The two names differ in a character that counts for the second.
Differs(i, t) == \E k \in 0..(Counted(t) - 1) : S!CharAt(Spelled(i), k) # S!CharAt(Spelled(t), k)

LEMMA Firsts == \A t \in 1..9 : S!CharAt(Spelled(t), 0) = Initial[t]
<1> SUFFICES ASSUME NEW t \in 1..9 PROVE S!CharAt(Spelled(t), 0) = Initial[t]
  OBVIOUS
<1>1. 0 \in 0..(TypeWidths[t] - 1) /\ 0 + 1 = 1
  BY Counts
<1>2. Spelled(t)[1] = Initial[t]
  BY Spellings, Zenon DEF Spelling
<1> QED BY <1>1, <1>2, SpelledChars

LEMMA Tenths == \A t \in {2, 4, 5} : S!CharAt(Spelled(t), 9) = Tenth[t] /\ 9 \in 0..(Counted(t) - 1)
<1> SUFFICES ASSUME NEW t \in {2, 4, 5} PROVE S!CharAt(Spelled(t), 9) = Tenth[t] /\ 9 \in 0..(Counted(t) - 1)
  OBVIOUS
<1>1. t \in 1..9 /\ 9 \in 0..(TypeWidths[t] - 1) /\ 9 + 1 = 10 /\ TypeWidths[t] >= 10 /\ 9 \in 0..(Counted(t) - 1)
  BY DEF Counted, TypeWidths, Blanks
<1>2. Spelled(t)[10] = Tenth[t]
  BY <1>1, Spellings, Zenon DEF Spelling
<1> QED BY <1>1, <1>2, SpelledChars

\* What ends one name is within the other.
LEMMA CharBeforeString == Differs(7, 8)
<1>1. TypeWidths[7] = 4 /\ TypeWidths[8] = 6 /\ Blanks[8] = 5 /\ Counted(8) = 5
  BY DEF Counted, TypeWidths, Blanks
<1>2. S!CharAt(Spelled(7), 4) = ""
  <2>1. PICK w : w = Spelled(7)
    OBVIOUS
  <2>2. Len(w) = 4
    <3>1. 7 \in 1..9
      OBVIOUS
    <3> QED BY <1>1, <2>1, <3>1, SpelledLength, Zenon
  <2>3. S!CharAt(w, 4) = ""
    BY <2>2 DEF S!CharAt
  <2> QED BY <2>1, <2>3
<1>3. S!CharAt(Spelled(8), 4) = Spelled(8)[5]
  BY <1>1, SpelledChars
<1>4. Spelled(8)[5] # ""
  <2>1. 5 \in 1..6
    OBVIOUS
  <2> QED BY <2>1, Spelling8, Zenon DEF Spelling
<1>5. 4 \in 0..(Counted(8) - 1)
  BY <1>1
<1> QED BY <1>2, <1>3, <1>4, <1>5 DEF Differs

LEMMA EarlierDiffer == \A t \in 1..9 : \A i \in 1..(t - 1) : Differs(i, t)
<1> SUFFICES ASSUME NEW t \in 1..9, NEW i \in 1..(t - 1) PROVE Differs(i, t)
  OBVIOUS
<1>1. CASE Initial[i] # Initial[t]
  <2>1. 0 \in 0..(Counted(t) - 1) /\ i \in 1..9
    BY Counts
  <2> QED BY <1>1, <2>1, Firsts, Zenon DEF Differs
<1>2. CASE Initial[i] = Initial[t]
  <2>1. (i \in {2, 4} /\ t \in {4, 5} /\ i # t) \/ (i = 7 /\ t = 8)
    BY <1>2 DEF Initial
  <2>2. CASE i \in {2, 4} /\ t \in {4, 5} /\ i # t
    <3>1. (i = 2 /\ t = 4) \/ (i = 2 /\ t = 5) \/ (i = 4 /\ t = 5)
      BY <2>2
    <3>2. Tenth[2] = "i" /\ Tenth[4] = "s" /\ Tenth[5] = "c"
      BY DEF Tenth
    <3>3. Tenth[i] # Tenth[t]
      BY <3>1, <3>2, Zenon
    <3>4. i \in {2, 4, 5} /\ t \in {2, 4, 5}
      BY <3>1
    <3>5. /\ S!CharAt(Spelled(i), 9) = Tenth[i] /\ S!CharAt(Spelled(t), 9) = Tenth[t]
          /\ 9 \in 0..(Counted(t) - 1)
      BY <3>4, Tenths, Zenon
    <3>6. S!CharAt(Spelled(i), 9) # S!CharAt(Spelled(t), 9)
      BY <3>3, <3>5, Zenon
    <3> QED BY <3>5, <3>6, Zenon DEF Differs
  <2> QED BY <2>1, <2>2, CharBeforeString
<1> QED BY <1>1, <1>2

-----------------------------------------------------------------------------
(* Signature: one parameter of a list.                                     *)

\* From b on the text s has blanks up to a, then the name t up to e, and there c.
Field(s, b, a, e, t, c) ==
  /\ Len(s) \in Nat /\ b \in Nat /\ a \in Nat /\ e \in Nat
  /\ b <= a /\ e = a + TypeWidths[t] /\ e <= Len(s)
  /\ \A i \in b..(a - 1) : S!CharAt(s, i) = Blank
  /\ \A i \in 0..(TypeWidths[t] - 1) : S!CharAt(s, a + i) = Spelled(t)[i + 1]
  /\ S!CharAt(s, e) = c /\ c \in {",", ""}

LEMMA CharFacts == Blank # "," /\ Blank # ""
BY Zenon DEF Blank

LEMMA TheLeast ==
  ASSUME NEW A, A \subseteq Nat, NEW x \in A, \A y \in A : x <= y
  PROVE  S!Min(A) = x
<1>1. \E z \in A : \A y \in A : z <= y
  OBVIOUS
<1>2. S!Min(A) = CHOOSE z \in A : \A y \in A : z <= y
  BY DEF S!Min
<1>3. PICK z : z = S!Min(A)
  OBVIOUS
<1>4. z \in A /\ \A y \in A : z <= y
  BY <1>1, <1>2, <1>3
<1> QED BY <1>3, <1>4

LEMMA FieldNumbers ==
  ASSUME NEW s, NEW b, NEW a, NEW e, NEW t \in 1..9, NEW c, Field(s, b, a, e, t, c)
  PROVE  /\ TypeWidths[t] \in Nat \ {0} /\ Len(s) \in Nat /\ b \in Nat /\ a \in Nat /\ e \in Nat
         /\ b <= a /\ e = a + TypeWidths[t] /\ e <= Len(s)
BY Counts DEF Field

\* The characters of a field before its end.
BlankOrLetter(s, a, t, i) ==
  \/ i < a /\ S!CharAt(s, i) = Blank
  \/ i - a \in 0..(TypeWidths[t] - 1) /\ S!CharAt(s, i) = Spelled(t)[(i - a) + 1]

LEMMA InField ==
  ASSUME NEW s, NEW b, NEW a, NEW e, NEW t \in 1..9, NEW c, Field(s, b, a, e, t, c), NEW i \in b..(e - 1)
  PROVE  BlankOrLetter(s, a, t, i)
<1>1. PICK l \in Nat \ {0} : l = TypeWidths[t]
  BY Counts
<1>2. b \in Nat /\ a \in Nat /\ e \in Nat /\ b <= a /\ e = a + l
  BY <1>1 DEF Field
<1>3. CASE i < a
  <2>1. i \in b..(a - 1)
    BY <1>2, <1>3
  <2> QED BY <1>3, <2>1 DEF Field, BlankOrLetter
<1>4. CASE ~(i < a)
  <2>1. PICK k : k = i - a
    OBVIOUS
  <2>2. k \in 0..(l - 1) /\ a + k = i
    BY <1>2, <1>4, <2>1
  <2>3. S!CharAt(s, a + k) = Spelled(t)[k + 1]
    BY <1>1, <2>2 DEF Field
  <2> QED BY <1>1, <2>1, <2>2, <2>3 DEF BlankOrLetter
<1> QED BY <1>3, <1>4

\* The characters of a name.
LEMMA InName ==
  ASSUME NEW t \in 1..9, NEW k \in 0..(TypeWidths[t] - 1)
  PROVE  /\ Spelled(t)[k + 1] # "," /\ Spelled(t)[k + 1] # ""
         /\ Spelled(t)[k + 1] = Blank <=> k + 1 = Blanks[t]
<1>1. PICK w, l, z : w = Spelled(t) /\ l = TypeWidths[t] /\ z = Blanks[t]
  OBVIOUS
<1>2. PICK j : j = k + 1
  OBVIOUS
<1>3. j \in 1..l
  <2>1. l \in Nat \ {0} /\ k \in 0..(l - 1)
    BY <1>1, Counts
  <2> QED BY <1>2, <2>1
<1>4. /\ \A i \in 1..l : w[i] # "," /\ w[i] # ""
      /\ \A i \in 1..l : i # z => w[i] # Blank
      /\ z # 0 => w[z] = Blank
  BY <1>1, Spellings, Zenon DEF Spelling
<1>5. j # 0
  BY <1>1, <1>3, Counts
<1>6. w[j] # "," /\ w[j] # "" /\ (w[j] = Blank <=> j = z)
  BY <1>3, <1>4, <1>5, Zenon
<1> QED BY <1>1, <1>2, <1>6, Zenon

LEMMA FieldStop ==
  ASSUME NEW s, NEW b, NEW a, NEW e, NEW t \in 1..9, NEW c, Field(s, b, a, e, t, c)
  PROVE  S!Stop(s, b) = e
<1> DEFINE A == {i \in b..Len(s) : S!CharAt(s, i) \in {",", ""}}
<1>n. /\ TypeWidths[t] \in Nat \ {0} /\ Len(s) \in Nat /\ b \in Nat /\ a \in Nat /\ e \in Nat
      /\ b <= a /\ e = a + TypeWidths[t] /\ e <= Len(s)
  BY FieldNumbers, Zenon
<1>1. b \in Nat /\ e \in Nat /\ Len(s) \in Nat /\ b <= e /\ e <= Len(s)
  BY <1>n
<1>2. S!CharAt(s, e) \in {",", ""}
  BY Zenon DEF Field
<1>3. e \in A /\ A \subseteq Nat
  <2>1. e \in b..Len(s) /\ b..Len(s) \subseteq Nat
    BY <1>1
  <2> QED BY <1>2, <2>1, Zenon
<1>4. ASSUME NEW i \in b..(e - 1), S!CharAt(s, i) \in {",", ""} PROVE FALSE
  <2>1. CASE S!CharAt(s, i) = Blank
    BY <1>4, <2>1, CharFacts, Zenon
  <2>2. CASE i - a \in 0..(TypeWidths[t] - 1) /\ S!CharAt(s, i) = Spelled(t)[(i - a) + 1]
    BY <1>4, <2>2, InName, Zenon
  <2>3. BlankOrLetter(s, a, t, i)
    BY InField
  <2> QED BY <2>1, <2>2, <2>3, Zenon DEF BlankOrLetter
<1>5. \A i \in A : i \in b..Len(s) /\ i \notin b..(e - 1)
  BY <1>4, Zenon
<1>6. S!Stop(s, b) = S!Min(A)
  BY DEF S!Stop
<1> HIDE DEF A
<1>7. \A i \in A : e <= i
  BY <1>1, <1>5
<1> QED BY <1>3, <1>6, <1>7, TheLeast, Zenon

LEMMA FieldStart ==
  ASSUME NEW s, NEW b, NEW a, NEW e, NEW t \in 1..9, NEW c, Field(s, b, a, e, t, c)
  PROVE  S!TypeStart(s, b) = a
<1> DEFINE A == {i \in b..Len(s) : S!CharAt(s, i) # Blank}
<1>n. /\ TypeWidths[t] \in Nat \ {0} /\ Len(s) \in Nat /\ b \in Nat /\ a \in Nat /\ e \in Nat
      /\ b <= a /\ e = a + TypeWidths[t] /\ e <= Len(s)
  BY FieldNumbers, Zenon
<1>1. /\ b \in Nat /\ a \in Nat /\ Len(s) \in Nat /\ b <= a /\ a <= Len(s)
      /\ \A i \in b..(a - 1) : S!CharAt(s, i) = Blank
  <2>1. b \in Nat /\ a \in Nat /\ Len(s) \in Nat /\ b <= a /\ a <= Len(s)
    BY <1>n
  <2> QED BY <2>1, Zenon DEF Field
<1>2. S!CharAt(s, a) # Blank
  <2>1. 0 \in 0..(TypeWidths[t] - 1) /\ a + 0 = a /\ 0 + 1 # Blanks[t]
    <3>1. 0 + 1 # Blanks[t]
      BY DEF Blanks
    <3>2. 0 \in 0..(TypeWidths[t] - 1) /\ a + 0 = a
      BY <1>n
    <3> QED BY <1>n, <3>1, <3>2, Zenon
  <2>2. S!CharAt(s, a + 0) = Spelled(t)[0 + 1]
    BY <2>1, Zenon DEF Field
  <2>3. Spelled(t)[0 + 1] # Blank
    BY <2>1, InName, Zenon
  <2> QED BY <2>1, <2>2, <2>3, Zenon
<1>3. a \in A /\ A \subseteq Nat
  BY <1>1, <1>2
<1>4. ASSUME NEW i \in A PROVE a <= i
  BY <1>1
<1>5. S!TypeStart(s, b) = S!Min(A)
  BY Zenon DEF S!TypeStart, Blank
<1> HIDE DEF A
<1> QED BY <1>3, <1>4, <1>5, TheLeast, Zenon

LEMMA FieldLength ==
  ASSUME NEW s, NEW b, NEW a, NEW e, NEW t \in 1..9, NEW c, Field(s, b, a, e, t, c)
  PROVE  S!TypeLength(s, b) = Counted(t)
<1> DEFINE A == {i \in b..(e - 1) : S!CharAt(s, i) # Blank}
<1>1. S!TypeLength(s, b) = Cardinality(A)
  <2>1. S!Stop(s, b) = e
    BY FieldStop
  <2>2. S!TypeLength(s, b) = S!Cardinality(A)
    BY <2>1, Zenon DEF S!TypeLength, Blank
  <2> HIDE DEF A
  <2>3. S!Cardinality(A) = Cardinality(A)
    BY DEF S!Cardinality, Cardinality
  <2> QED BY <2>2, <2>3
<1>2. PICK l, z : l = TypeWidths[t] /\ z = Blanks[t] /\ l \in Nat \ {0} /\ z \in 0..l /\ z # 1
  BY Counts DEF TypeWidths, Blanks
<1>3. b \in Nat /\ a \in Nat /\ e = a + l /\ b <= a
  BY <1>2 DEF Field
<1>4. \A i \in b..(e - 1) : S!CharAt(s, i) = Blank <=> i < a \/ (i - a) + 1 = z
  <2> SUFFICES ASSUME NEW i \in b..(e - 1) PROVE S!CharAt(s, i) = Blank <=> i < a \/ (i - a) + 1 = z
    OBVIOUS
  <2>1. CASE i < a /\ S!CharAt(s, i) = Blank
    BY <2>1
  <2>2. CASE i - a \in 0..(TypeWidths[t] - 1) /\ S!CharAt(s, i) = Spelled(t)[(i - a) + 1]
    <3>1. ~(i < a)
      BY <1>2, <1>3, <2>2
    <3>2. Spelled(t)[(i - a) + 1] = Blank <=> (i - a) + 1 = Blanks[t]
      BY <2>2, InName, Zenon
    <3>3. z = Blanks[t]
      BY <1>2
    <3> QED BY <2>2, <3>1, <3>2, <3>3, Zenon
  <2>3. BlankOrLetter(s, a, t, i)
    BY InField
  <2> QED BY <2>1, <2>2, <2>3, Zenon DEF BlankOrLetter
<1>5. A = {i \in b..(e - 1) : ~(i < a) /\ (i - a) + 1 # z}
  BY <1>4, Zenon
<1>6. a..(e - 1) = {i \in b..(e - 1) : ~(i < a)}
  BY <1>2, <1>3
<1>7. Cardinality(a..(e - 1)) = l /\ IsFiniteSet(a..(e - 1))
  <2>1. a \in Int /\ e - 1 \in Int /\ ~(a > e - 1) /\ ((e - 1) - a) + 1 = l
    BY <1>2, <1>3
  <2> QED BY <2>1, FS_Interval
<1>8. CASE z = 0
  <2>1. A = a..(e - 1)
    BY <1>2, <1>3, <1>5, <1>8
  <2> HIDE DEF A
  <2>2. Counted(t) = l
    BY <1>2, <1>8 DEF Counted
  <2> QED BY <1>1, <1>7, <2>1, <2>2
<1>9. CASE z # 0
  <2>1. PICK x : x = a + z - 1
    OBVIOUS
  <2>2. x \in a..(e - 1)
    BY <1>2, <1>3, <1>9, <2>1
  <2>3. \A i \in Int : (i - a) + 1 = z <=> i = x
    BY <1>2, <1>3, <2>1
  <2>4. A = (a..(e - 1)) \ {x}
    BY <1>3, <1>5, <1>6, <2>3
  <2> HIDE DEF A
  <2>5. Cardinality(A) = l - 1
    BY <1>7, <2>2, <2>4, FS_RemoveElement
  <2>6. Counted(t) = l - 1
    BY <1>2, <1>9 DEF Counted
  <2> QED BY <1>1, <2>5, <2>6
<1> QED BY <1>8, <1>9

-----------------------------------------------------------------------------
(* Signature: the type a parameter gets.                                   *)

TypeOf(t) == S!TypeNames[t].type

\* The parser knows the first m names.
Knows(parser, m) == /\ m \in 8..9 /\ DOMAIN parser.names = 1..m
                    /\ \A i \in 1..m : parser.names[i] = S!TypeNames[i]

Nine(w) == \E a1, a2, a3, a4, a5, a6, a7, a8, a9 : w = <<a1, a2, a3, a4, a5, a6, a7, a8, a9>>

LEMMA NineOf ==
  ASSUME NEW a1, NEW a2, NEW a3, NEW a4, NEW a5, NEW a6, NEW a7, NEW a8, NEW a9
  PROVE  Nine(<<a1, a2, a3, a4, a5, a6, a7, a8, a9>>)
BY Zenon DEF Nine

LEMMA NineNames == S!TypeNames \in Seq(Range(S!TypeNames)) /\ Len(S!TypeNames) = 9 /\ DOMAIN S!TypeNames = 1..9
<1>n. Nine(S!TypeNames)
  BY NineOf, Zenon DEF S!TypeNames
<1>w. PICK w : w = S!TypeNames
  OBVIOUS
<1>1. PICK a1, a2, a3, a4, a5, a6, a7, a8, a9 : w = <<a1, a2, a3, a4, a5, a6, a7, a8, a9>>
  BY <1>n, <1>w, Zenon DEF Nine
<1>2. DOMAIN w = 1..9 /\ w = [k \in 1..9 |-> w[k]]
  BY <1>1
<1>3. PICK X : X = Range(w)
  OBVIOUS
<1>4. \A k \in 1..9 : w[k] \in X
  BY <1>2, <1>3 DEF Range
<1>5. w \in [1..9 -> X]
  BY <1>2, <1>4
<1>6. w \in Seq(X)
  BY <1>5
<1>7. Len(w) = 9
  BY <1>2, <1>6, LenProperties
<1> QED BY <1>w, <1>2, <1>3, <1>6, <1>7

LEMMA LibraryKnows == Knows(S!Library, 9)
BY NineNames DEF Knows, S!Library

LEMMA PrototypeKnows == Knows(S!Prototype, 8)
<1>1. PICK w, X : w = S!TypeNames /\ w \in Seq(X) /\ Len(w) = 9
  BY NineNames
<1>2. DOMAIN SubSeq(w, 1, 8) = 1..8 /\ \A i \in 1..8 : SubSeq(w, 1, 8)[i] = w[i]
  BY <1>1
<1> QED BY <1>1, <1>2 DEF Knows, S!Prototype

LEMMA OneIsInt == TypeOf(1) = "SINT32"
BY Zenon DEF TypeOf, S!TypeNames

LEMMA NineIsVoid == TypeOf(9) = "VOID"
BY Zenon DEF TypeOf, S!TypeNames

LEMMA TheEarliest ==
  ASSUME NEW A, A \subseteq Nat, NEW x \in A, \A y \in A : x <= y
  PROVE  S!Earliest(A) = x
<1>1. PICK z : z = S!Earliest(A)
  OBVIOUS
<1>2. z \in A /\ \A y \in A : z <= y
  BY <1>1 DEF S!Earliest
<1> QED BY <1>1, <1>2

\* The characters that count are those of the name.
NameAt(s, a, t) == \A k \in 0..(Counted(t) - 1) : S!CharAt(s, a + k) = S!CharAt(Spelled(t), k)

LEMMA FieldName ==
  ASSUME NEW s, NEW b, NEW a, NEW e, NEW t \in 1..9, NEW c, Field(s, b, a, e, t, c)
  PROVE  NameAt(s, a, t)
<1> SUFFICES ASSUME NEW k \in 0..(Counted(t) - 1) PROVE S!CharAt(s, a + k) = S!CharAt(Spelled(t), k)
  BY DEF NameAt
<1>1. k \in 0..(TypeWidths[t] - 1)
  BY Counts
<1>2. S!CharAt(s, a + k) = Spelled(t)[k + 1]
  BY <1>1, Zenon DEF Field
<1>3. S!CharAt(Spelled(t), k) = Spelled(t)[k + 1]
  BY <1>1, SpelledChars, Zenon
<1> QED BY <1>2, <1>3, Zenon

LEMMA GetsItsType ==
  ASSUME NEW parser, NEW m, Knows(parser, m), NEW t \in 1..m, NEW s, NEW a, NameAt(s, a, t)
  PROVE  S!GetType(parser, s, a, Counted(t)) = TypeOf(t)
<1>1. PICK names : names = parser.names /\ DOMAIN names = 1..m /\ \A i \in 1..m : names[i] = S!TypeNames[i]
  BY DEF Knows
<1>m. m \in 8..9 /\ t \in 1..9 /\ \A i \in 1..(t - 1) : i \in 1..9
  BY DEF Knows
<1> DEFINE A == {i \in 1..m : S!MatchType(s, a, Counted(t), names[i].name)}
<1>2. A \subseteq Nat
  BY <1>m
<1>3. t \in A
  <2>1. S!MatchType(s, a, Counted(t), Spelled(t))
    BY Zenon DEF S!MatchType, NameAt
  <2> QED BY <1>1, <2>1, Zenon DEF Spelled
<1>4. ASSUME NEW i \in 1..m, S!MatchType(s, a, Counted(t), names[i].name), i < t PROVE FALSE
  <2>1. i \in 1..(t - 1)
    BY <1>m, <1>4
  <2>2. PICK k \in 0..(Counted(t) - 1) : S!CharAt(Spelled(i), k) # S!CharAt(Spelled(t), k)
    BY <1>m, <2>1, EarlierDiffer, Zenon DEF Differs
  <2>3. names[i].name = Spelled(i)
    BY <1>1, Zenon DEF Spelled
  <2>4. S!CharAt(s, a + k) = S!CharAt(Spelled(i), k)
    BY <1>4, <2>2, <2>3, Zenon DEF S!MatchType
  <2>5. S!CharAt(s, a + k) = S!CharAt(Spelled(t), k)
    BY <2>2, Zenon DEF NameAt
  <2> QED BY <2>2, <2>4, <2>5, Zenon
<1>5. \A i \in A : t <= i
  <2>1. \A i \in A : i \in 1..m /\ ~(i < t)
    BY <1>4, Zenon
  <2> HIDE DEF A
  <2> QED BY <1>m, <2>1
<1>6. S!GetType(parser, s, a, Counted(t)) = IF A = {} THEN parser.unknown ELSE names[S!Earliest(A)].type
  BY <1>1, Zenon DEF S!GetType
<1> HIDE DEF A
<1>7. S!Earliest(A) = t
  BY <1>2, <1>3, <1>5, TheEarliest, Zenon
<1>8. S!GetType(parser, s, a, Counted(t)) = names[t].type
  BY <1>3, <1>6, <1>7, Zenon
<1> QED BY <1>1, <1>8, Zenon DEF TypeOf

LEMMA FieldType ==
  ASSUME NEW parser, NEW m, Knows(parser, m), NEW t \in 1..m, NEW s, NEW b, NEW a, NEW e, NEW c,
         Field(s, b, a, e, t, c)
  PROVE  S!GetType(parser, s, S!TypeStart(s, b), S!TypeLength(s, b)) = TypeOf(t)
<1>1. t \in 1..9
  BY DEF Knows
<1>2. S!TypeStart(s, b) = a /\ S!TypeLength(s, b) = Counted(t) /\ NameAt(s, a, t)
  BY <1>1, FieldStart, FieldLength, FieldName, Zenon
<1> QED BY <1>2, GetsItsType, Zenon

-----------------------------------------------------------------------------
(* Signature: the parameters in the text of a list.                        *)

LettersOf(t)     == {Spelled(t)[i] : i \in 1..TypeWidths[t]}
Marks            == {",", Blank}
Letters          == UNION {LettersOf(t) : t \in 1..9}
Characters       == Letters \cup Marks
Commas           == {<<",">>, <<",", Blank>>}
IsList(list)     == list \in Seq(1..9) /\ Len(list) \in Nat \ {0}
NamesOf(list)    == [i \in 1..Len(list) |-> Spelled(list[i])]
Gap(comma, k)    == IF k = 1 THEN <<>> ELSE comma
Gaps(comma, n)   == [k \in 1..n |-> Gap(comma, k)]

LEMMA NameText == \A t \in 1..9 : Spelled(t) \in Seq(Characters) /\ Spelled(t) \in [1..TypeWidths[t] -> Characters]
<1> SUFFICES ASSUME NEW t \in 1..9
             PROVE  Spelled(t) \in Seq(Characters) /\ Spelled(t) \in [1..TypeWidths[t] -> Characters]
  OBVIOUS
<1>1. PICK w, l : w = Spelled(t) /\ l = TypeWidths[t]
  OBVIOUS
<1>2. l \in Nat
  BY <1>1, Counts
<1>3. DOMAIN w = 1..l /\ w = [k \in 1..l |-> w[k]]
  BY <1>1, Spellings, Zenon DEF Spelling
<1>4. \A k \in 1..l : w[k] \in Characters
  <2>1. \A k \in 1..l : w[k] \in LettersOf(t)
    BY <1>1 DEF LettersOf
  <2>2. LettersOf(t) \subseteq Characters
    BY DEF Characters, Letters
  <2> QED BY <2>1, <2>2, Zenon
<1>5. w \in [1..l -> Characters]
  BY <1>3, <1>4
<1>6. w \in Seq(Characters)
  BY <1>2, <1>5
<1> QED BY <1>1, <1>5, <1>6

LEMMA OneOrTwo ==
  ASSUME NEW X, NEW a \in X, NEW b \in X, NEW s
  PROVE  /\ s = <<a>> => s \in Seq(X) /\ Len(s) = 1 /\ s[1] = a
         /\ s = <<a, b>> => s \in Seq(X) /\ Len(s) = 2 /\ s[1] = a /\ s[2] = b
<1>1. ASSUME s = <<a>> PROVE s \in Seq(X) /\ Len(s) = 1 /\ s[1] = a
  BY <1>1
<1>2. ASSUME s = <<a, b>> PROVE s \in Seq(X) /\ Len(s) = 2 /\ s[1] = a /\ s[2] = b
  BY <1>2
<1> QED BY <1>1, <1>2

LEMMA CommaText ==
  ASSUME NEW comma \in Commas
  PROVE  /\ comma \in Seq(Characters) /\ Len(comma) \in 1..2 /\ comma[1] = ","
         /\ Len(comma) = 2 => comma[2] = Blank
<1>1. PICK a, b : a = "," /\ b = Blank
  OBVIOUS
<1>2. a \in Characters /\ b \in Characters
  <2>1. a \in Marks /\ b \in Marks
    BY <1>1 DEF Marks
  <2> QED BY <2>1 DEF Characters
<1>3. comma = <<a>> \/ comma = <<a, b>>
  BY <1>1, Zenon DEF Commas
<1>4. comma \in Seq(Characters) /\ comma[1] = a /\ (Len(comma) = 1 \/ (Len(comma) = 2 /\ comma[2] = b))
  <2>1. CASE comma = <<a>>
    BY <1>2, <2>1, OneOrTwo
  <2>2. CASE comma = <<a, b>>
    BY <1>2, <2>2, OneOrTwo
  <2> QED BY <1>3, <2>1, <2>2
<1>5. Len(comma) \in 1..2 /\ (Len(comma) = 2 => comma[2] = b)
  BY <1>4
<1> QED BY <1>1, <1>4, <1>5, Zenon

\* What the text has for parameter k, with type t: the comma, if there is one, and the name.
CommaAndName(k, comma, t, s) ==
  /\ s \in Seq(Characters) /\ Len(s) = Len(Gap(comma, k)) + TypeWidths[t] /\ Len(Gap(comma, k)) \in 0..2
  /\ \A i \in 1..TypeWidths[t] : s[Len(Gap(comma, k)) + i] = Spelled(t)[i]
  /\ k # 1 => s[1] = "," /\ (Len(comma) = 2 => s[2] = Blank)

LEMMA PartOfText ==
  ASSUME NEW k \in Nat, NEW comma \in Commas, NEW t \in 1..9, NEW s, s = Gap(comma, k) \o Spelled(t)
  PROVE  CommaAndName(k, comma, t, s)
<1>1. PICK g, w, l : g = Gap(comma, k) /\ w = Spelled(t) /\ l = TypeWidths[t]
  OBVIOUS
<1>2. g \in Seq(Characters) /\ Len(g) \in 0..2 /\ (k # 1 => g = comma)
  <2>1. CASE k = 1
    <3>1. g = <<>>
      BY <1>1, <2>1 DEF Gap
    <3> QED BY <2>1, <3>1, EmptySeq
  <2>2. CASE k # 1
    <3>1. g = comma
      BY <1>1, <2>2 DEF Gap
    <3>2. g \in Seq(Characters) /\ Len(g) \in 1..2
      BY <3>1, CommaText, Zenon
    <3> QED BY <3>1, <3>2
  <2> QED BY <2>1, <2>2
<1>3. w \in Seq(Characters) /\ Len(w) = l /\ l \in Nat \ {0}
  BY <1>1, NameText, SpelledLength, Counts
<1>4. /\ s \in Seq(Characters) /\ Len(s) = Len(g) + l
      /\ \A i \in 1..Len(g) : s[i] = g[i]
      /\ \A i \in 1..l : s[Len(g) + i] = w[i]
  BY <1>1, <1>2, <1>3
<1>5. k # 1 => s[1] = "," /\ (Len(comma) = 2 => s[2] = Blank)
  <2> SUFFICES ASSUME k # 1 PROVE s[1] = "," /\ (Len(comma) = 2 => s[2] = Blank)
    OBVIOUS
  <2>1. g = comma /\ Len(comma) \in 1..2 /\ comma[1] = "," /\ (Len(comma) = 2 => comma[2] = Blank)
    BY <1>2, CommaText, Zenon
  <2>2. 1 \in 1..Len(g) /\ (Len(g) = 2 => 2 \in 1..Len(g))
    <3>1. Len(g) \in 1..2
      BY <2>1, Zenon
    <3>2. \A x \in 1..2 : 1 \in 1..x /\ (x = 2 => 2 \in 1..x)
      OBVIOUS
    <3> QED BY <3>1, <3>2, Zenon
  <2> QED BY <1>4, <2>1, <2>2, Zenon
<1> QED BY <1>1, <1>2, <1>4, <1>5, Zenon DEF CommaAndName

TextSteps(names, comma, n, u) ==
  u = [i \in 0..n |-> IF i = 0 THEN <<>> ELSE u[i - 1] \o (IF i = 1 THEN <<>> ELSE comma) \o names[i]]

LEMMA TextStepsAsPairs ==
  ASSUME NEW n \in Nat, NEW names, NEW comma, NEW u
  PROVE  TextSteps(names, comma, n, u) <=> Doubly(Gaps(comma, n), names, n, u)
<1>1. \A k \in 0..n :
        (IF k = 0 THEN <<>> ELSE u[k - 1] \o (IF k = 1 THEN <<>> ELSE comma) \o names[k])
        = (IF k = 0 THEN <<>> ELSE u[k - 1] \o Gaps(comma, n)[k] \o names[k])
  <2>1. ASSUME NEW k \in 0..n, k # 0 PROVE Gaps(comma, n)[k] = IF k = 1 THEN <<>> ELSE comma
    <3>1. k \in 1..n
      BY <2>1
    <3> QED BY <3>1 DEF Gaps, Gap
  <2> QED BY <2>1
<1> QED BY <1>1, Zenon DEF TextSteps, Doubly

LEMMA ListNames ==
  ASSUME NEW list, IsList(list), NEW comma \in Commas
  PROVE  /\ NamesOf(list) \in [1..Len(list) -> Seq(Characters)]
         /\ Gaps(comma, Len(list)) \in [1..Len(list) -> Seq(Characters)]
         /\ Len(NamesOf(list)) = Len(list)
<1>1. PICK n : n = Len(list) /\ n \in Nat \ {0} /\ \A i \in 1..n : list[i] \in 1..9
  BY DEF IsList
<1>2. NamesOf(list) \in [1..n -> Seq(Characters)]
  BY <1>1, NameText DEF NamesOf
<1>3. Gaps(comma, n) \in [1..n -> Seq(Characters)]
  <2>1. \A k \in 1..n : Gap(comma, k) \in Seq(Characters)
    BY CommaText, EmptySeq DEF Gap
  <2> QED BY <2>1 DEF Gaps
<1>4. Len(NamesOf(list)) = n
  BY <1>1, <1>2, AsLong
<1> QED BY <1>1, <1>2, <1>3, <1>4

LEMMA TextAs ==
  ASSUME NEW list, IsList(list), NEW comma \in Commas
  PROVE  \E u : /\ Chained(Pairs(Gaps(comma, Len(list)), NamesOf(list), Len(list)), Len(list), u)
                /\ S!Text(NamesOf(list), comma) = u[Len(list)]
<1>1. PICK n \in Nat \ {0} : n = Len(list)
  BY DEF IsList
<1>2. PICK names : names = NamesOf(list)
  OBVIOUS
<1>3. names \in [1..n -> Seq(Characters)] /\ Gaps(comma, n) \in [1..n -> Seq(Characters)] /\ Len(names) = n
  BY <1>1, <1>2, ListNames, ZenonT(40)
<1>4. PICK u : Chained(Pairs(Gaps(comma, n), names, n), n, u) /\ Doubly(Gaps(comma, n), names, n, u)
  BY <1>3, DoublyChained, Zenon
<1> DEFINE v == CHOOSE w : TextSteps(names, comma, n, w)
<1>5. TextSteps(names, comma, n, v)
  BY <1>4, TextStepsAsPairs
<1>6. S!Text(names, comma) = v[n]
  BY <1>3 DEF S!Text, TextSteps
<1> HIDE DEF v
<1>7. v[n] = u[n]
  BY <1>4, <1>5, TextStepsAsPairs, OneDoubly
<1> QED BY <1>1, <1>2, <1>4, <1>6, <1>7

From(p, k)     == IF k = 1 THEN 0 ELSE p[k - 1] + 1
Begin(p, k, g) == IF k = 1 THEN 0 ELSE p[k - 1] + g
Ending(k, n)   == IF k = n THEN "" ELSE ","

\* In the text s, parameter k of the list ends with character p[k].
TextLayout(list, s, g, p) ==
  LET n == Len(list)
  IN  /\ p \in [0..n -> Nat] /\ Len(s) \in Nat
      /\ \A k \in 1..n : Field(s, From(p, k), Begin(p, k, g), p[k], list[k], Ending(k, n))

\* The texts u of the first parameters.
Grown(list, comma, n, u) ==
  /\ n = Len(list) /\ n \in Nat \ {0} /\ \A k \in 1..n : list[k] \in 1..9
  /\ \A k \in 0..n : Len(u[k]) \in Nat /\ Len(u[k]) <= Len(u[n])
  /\ Len(u[0]) = 0
  /\ \A k \in 1..n : \E s : /\ CommaAndName(k, comma, list[k], s) /\ Len(u[k]) = Len(u[k - 1]) + Len(s)
                            /\ \A j \in 1..Len(s) : u[n][Len(u[k - 1]) + j] = s[j]

LEMMA TextGrows ==
  ASSUME NEW list, IsList(list), NEW comma \in Commas
  PROVE  \E u : Grown(list, comma, Len(list), u) /\ S!Text(NamesOf(list), comma) = u[Len(list)]
<1>1. PICK n \in Nat \ {0} : n = Len(list) /\ \A k \in 1..n : list[k] \in 1..9
  BY DEF IsList
<1>2. PICK part : part = Pairs(Gaps(comma, n), NamesOf(list), n)
  OBVIOUS
<1>3. PICK u : Chained(part, n, u) /\ S!Text(NamesOf(list), comma) = u[n]
  BY <1>1, <1>2, TextAs
<1>4. ASSUME NEW k \in 1..n PROVE part[k] = Gap(comma, k) \o Spelled(list[k])
  BY <1>1, <1>2 DEF Pairs, Gaps, NamesOf
<1>5. \A k \in 1..n : CommaAndName(k, comma, list[k], part[k])
  <2> SUFFICES ASSUME NEW k \in 1..n PROVE CommaAndName(k, comma, list[k], part[k])
    OBVIOUS
  <2>1. PICK s, t : s = part[k] /\ t = list[k]
    OBVIOUS
  <2>2. t \in 1..9 /\ s = Gap(comma, k) \o Spelled(t) /\ k \in Nat
    BY <1>1, <1>4, <2>1
  <2> QED BY <2>1, <2>2, PartOfText
<1>6. part \in [1..n -> Seq(Characters)]
  <2>1. \A k \in 1..n : part[k] \in Seq(Characters)
    BY <1>5 DEF CommaAndName
  <2> QED BY <1>2, <2>1 DEF Pairs
<1>7. /\ \A k \in 0..n : u[k] \in Seq(Characters) /\ Len(u[k]) \in Nat /\ Len(u[k]) <= Len(u[n])
      /\ PartsInPlace(part, n, u)
  BY <1>3, <1>6, ChainType, ChainParts, ZenonT(40)
<1>8. Len(u[0]) = 0
  BY <1>3, EmptySeq DEF Chained
<1>9. ASSUME NEW k \in 1..n
      PROVE  \E s : /\ CommaAndName(k, comma, list[k], s) /\ Len(u[k]) = Len(u[k - 1]) + Len(s)
                    /\ \A j \in 1..Len(s) : u[n][Len(u[k - 1]) + j] = s[j]
  <2>1. PICK a, b : PartBehind(part, u, k, a, b)
    BY <1>3, <1>6, ChainStep, ZenonT(40)
  <2>2. Len(u[k]) = Len(u[k - 1]) + Len(part[k])
    BY <2>1 DEF PartBehind
  <2>3. \A j \in 1..Len(part[k]) : u[n][Len(u[k - 1]) + j] = part[k][j]
    BY <1>7, Zenon DEF PartsInPlace
  <2> QED BY <1>5, <2>2, <2>3, Zenon
<1>10. Grown(list, comma, n, u)
  BY <1>1, <1>7, <1>8, <1>9, Zenon DEF Grown
<1> QED BY <1>1, <1>3, <1>10

\* One parameter in a text w that ends with it or goes on with a comma: the text before it
\* has a characters, the comma d.
LEMMA CharBelow ==
  ASSUME NEW w, NEW k, k < Len(w)
  PROVE  S!CharAt(w, k) = w[k + 1]
BY Zenon DEF S!CharAt

FieldText(w, k, comma, t, s, a, c) ==
  /\ Len(w) \in Nat /\ a \in Nat /\ (k = 1 => a = 0)
  /\ CommaAndName(k, comma, t, s) /\ a + Len(s) <= Len(w)
  /\ \A j \in 1..Len(s) : w[a + j] = s[j]
  /\ c \in {",", ""} /\ S!CharAt(w, a + Len(s)) = c

LEMMA ParameterField ==
  ASSUME NEW w, NEW k \in Nat \ {0}, NEW comma \in Commas, NEW t \in 1..9, NEW s, NEW a, NEW c,
         FieldText(w, k, comma, t, s, a, c)
  PROVE  Field(w, IF k = 1 THEN 0 ELSE a + 1, IF k = 1 THEN 0 ELSE a + Len(comma), a + Len(s), t, c)
<1>1. PICK d, l, N, z, v, g :
        d = Len(Gap(comma, k)) /\ l = TypeWidths[t] /\ N = Len(w) /\ z = Len(s) /\ v = Spelled(t) /\ g = Len(comma)
  OBVIOUS
<1>2. l \in Nat \ {0} /\ N \in Nat /\ d \in 0..2 /\ z = d + l /\ a \in Nat /\ (k = 1 => a = 0) /\ a + z <= N
  <2>1. l \in Nat \ {0}
    BY <1>1, Counts
  <2>2. Len(w) \in Nat /\ a \in Nat /\ (k = 1 => a = 0) /\ a + Len(s) <= Len(w)
    BY Zenon DEF FieldText
  <2>3. Len(s) = Len(Gap(comma, k)) + TypeWidths[t] /\ Len(Gap(comma, k)) \in 0..2
    BY Zenon DEF FieldText, CommaAndName
  <2> QED BY <1>1, <2>1, <2>2, <2>3, Zenon
<1>w. \A j \in 1..z : w[a + j] = s[j]
  BY <1>1, Zenon DEF FieldText
<1>3. \A i \in 1..l : s[d + i] = v[i]
  BY <1>1, Zenon DEF FieldText, CommaAndName
<1>4. g \in 1..2 /\ d = IF k = 1 THEN 0 ELSE g
  <2>1. g \in 1..2
    BY <1>1, CommaText
  <2> QED BY <1>1, <2>1, EmptySeq DEF Gap
<1>5. PICK b, e, f : b = (IF k = 1 THEN 0 ELSE a + 1) /\ e = a + d /\ f = a + z
  OBVIOUS
<1>6. e = IF k = 1 THEN 0 ELSE a + g
  BY <1>2, <1>4, <1>5
<1>7. b \in Nat /\ e \in Nat /\ f \in Nat /\ b <= e /\ f = e + l /\ f <= N
  <2>2. f = e + l /\ f <= N /\ e \in Nat /\ f \in Nat
    BY <1>2, <1>5
  <2>3. CASE k = 1
    BY <1>5, <2>2, <2>3
  <2>4. CASE k # 1
    BY <1>2, <1>4, <1>5, <2>2, <2>4
  <2> QED BY <2>3, <2>4
<1>8. \A i \in 0..(l - 1) : S!CharAt(w, e + i) = v[i + 1]
  <2> SUFFICES ASSUME NEW i \in 0..(l - 1) PROVE S!CharAt(w, e + i) = v[i + 1]
    OBVIOUS
  <2>1. PICK j : j = d + (i + 1)
    OBVIOUS
  <2>2. j \in 1..z /\ (e + i) + 1 = a + j /\ e + i \in Nat /\ e + i < N /\ i + 1 \in 1..l
    BY <1>2, <1>5, <1>7, <2>1
  <2>3. S!CharAt(w, e + i) = w[(e + i) + 1]
    BY <1>1, <2>2, CharBelow, Zenon
  <2>4. w[a + j] = s[j]
    BY <1>w, <2>2
  <2>5. s[j] = v[i + 1]
    BY <1>3, <2>1, <2>2
  <2> QED BY <2>2, <2>3, <2>4, <2>5
<1>9. \A i \in b..(e - 1) : S!CharAt(w, i) = Blank
  <2> SUFFICES ASSUME NEW i \in b..(e - 1) PROVE S!CharAt(w, i) = Blank
    OBVIOUS
  <2>1. k # 1
    BY <1>5, <1>6, <1>7
  <2>2. b = a + 1 /\ e = a + g /\ d = g
    BY <1>4, <1>5, <2>1
  <2>3. g = 2 /\ i = a + 1
    BY <1>2, <1>4, <2>2
  <2>4. s[2] = Blank
    BY <1>1, <2>1, <2>3, Zenon DEF FieldText, CommaAndName
  <2>5. 2 \in 1..z /\ i + 1 = a + 2 /\ i \in Nat /\ i < N
    BY <1>2, <2>2, <2>3
  <2>6. S!CharAt(w, i) = w[i + 1]
    BY <1>1, <2>5, CharBelow, Zenon
  <2>7. w[a + 2] = s[2]
    BY <1>w, <2>5
  <2> QED BY <2>4, <2>5, <2>6, <2>7
<1>10. S!CharAt(w, f) = c /\ c \in {",", ""}
  BY <1>1, <1>5, Zenon DEF FieldText
<1>11. Field(w, b, e, f, t, c)
  <2>1. Len(w) \in Nat /\ f = e + TypeWidths[t] /\ f <= Len(w)
    BY <1>1, <1>7
  <2>2. \A i \in 0..(TypeWidths[t] - 1) : S!CharAt(w, e + i) = Spelled(t)[i + 1]
    BY <1>1, <1>8, Zenon
  <2> QED BY <1>7, <1>9, <1>10, <2>1, <2>2, Zenon DEF Field
<1> QED BY <1>1, <1>5, <1>6, <1>11, Zenon

LEMMA TextLaidOut ==
  ASSUME NEW list, IsList(list), NEW comma \in Commas, NEW w, w = S!Text(NamesOf(list), comma)
  PROVE  \E p : TextLayout(list, w, Len(comma), p)
<1>1. PICK n, u : Grown(list, comma, n, u) /\ w = u[n] /\ n = Len(list)
  BY TextGrows
<1>2. n \in Nat \ {0} /\ \A k \in 1..n : list[k] \in 1..9
  BY <1>1, Zenon DEF Grown
<1>3. (\A k \in 0..n : Len(u[k]) \in Nat /\ Len(u[k]) <= Len(w)) /\ Len(u[0]) = 0
  BY <1>1, Zenon DEF Grown
<1>4. PICK p : p = [k \in 0..n |-> Len(u[k])]
  OBVIOUS
<1>5. p \in [0..n -> Nat] /\ (\A k \in 0..n : p[k] = Len(u[k]) /\ p[k] <= Len(w)) /\ p[0] = 0
  <2>1. p \in [0..n -> Nat] /\ \A k \in 0..n : p[k] = Len(u[k]) /\ p[k] <= Len(w)
    BY <1>3, <1>4
  <2>2. 0 \in 0..n
    BY <1>2
  <2> QED BY <1>3, <2>1, <2>2
<1>6. p[n] = Len(w) /\ Len(w) \in Nat
  BY <1>1, <1>2, <1>3, <1>5
<1>7. ASSUME NEW k \in 1..n
      PROVE  \E s : /\ CommaAndName(k, comma, list[k], s) /\ p[k] = p[k - 1] + Len(s)
                    /\ \A j \in 1..Len(s) : w[p[k - 1] + j] = s[j]
  <2>1. k \in 0..n /\ k - 1 \in 0..n
    BY <1>2
  <2>2. p[k] = Len(u[k]) /\ p[k - 1] = Len(u[k - 1])
    BY <1>5, <2>1, Zenon
  <2>3. PICK s : /\ CommaAndName(k, comma, list[k], s) /\ Len(u[k]) = Len(u[k - 1]) + Len(s)
                 /\ \A j \in 1..Len(s) : u[n][Len(u[k - 1]) + j] = s[j]
    BY <1>1, Zenon DEF Grown
  <2>4. p[k] = p[k - 1] + Len(s) /\ \A j \in 1..Len(s) : w[p[k - 1] + j] = s[j]
    BY <1>1, <2>2, <2>3, Zenon
  <2> QED BY <2>3, <2>4, Zenon
<1>8. ASSUME NEW k \in 1..n PROVE S!CharAt(w, p[k]) = Ending(k, n)
  <2>1. CASE k = n
    <3>1. ~(Len(w) < Len(w))
      BY <1>6
    <3> QED BY <1>6, <2>1, <3>1, Zenon DEF S!CharAt, Ending
  <2>2. CASE k # n
    <3>1. PICK m : m = k + 1
      OBVIOUS
    <3>2. m \in 1..n /\ m - 1 = k /\ m # 1 /\ m \in 0..n
      BY <1>2, <2>2, <3>1
    <3>3. PICK s : /\ CommaAndName(m, comma, list[m], s) /\ p[m] = p[m - 1] + Len(s)
                   /\ \A j \in 1..Len(s) : w[p[m - 1] + j] = s[j]
      BY <1>7, <3>2, Zenon
    <3>4. s[1] = ","
      BY <3>2, <3>3, Zenon DEF CommaAndName
    <3>5. Len(s) \in Nat \ {0}
      <4>1. list[m] \in 1..9 /\ Len(s) = Len(Gap(comma, m)) + TypeWidths[list[m]] /\ Len(Gap(comma, m)) \in 0..2
        BY <1>2, <3>2, <3>3 DEF CommaAndName
      <4>2. TypeWidths[list[m]] \in Nat \ {0}
        BY <4>1, Counts
      <4> QED BY <4>1, <4>2
    <3>6. w[p[k] + 1] = ","
      <4>1. 1 \in 1..Len(s)
        BY <3>5
      <4> QED BY <3>2, <3>3, <3>4, <4>1
    <3>7. p[k] < Len(w)
      <4>1. p[m] <= Len(w) /\ p[m] = p[k] + Len(s) /\ p[k] \in Nat
        BY <1>5, <3>2, <3>3
      <4> QED BY <1>6, <3>5, <4>1
    <3> QED BY <2>2, <3>6, <3>7, CharBelow, Zenon DEF Ending
  <2> QED BY <2>1, <2>2
<1>9. ASSUME NEW k \in 1..n
      PROVE  Field(w, From(p, k), Begin(p, k, Len(comma)), p[k], list[k], Ending(k, n))
  <2>1. PICK s : /\ CommaAndName(k, comma, list[k], s) /\ p[k] = p[k - 1] + Len(s)
                 /\ \A j \in 1..Len(s) : w[p[k - 1] + j] = s[j]
    BY <1>7, Zenon
  <2>2. PICK a, c, t : a = p[k - 1] /\ c = Ending(k, n) /\ t = list[k]
    OBVIOUS
  <2>3. k - 1 \in 0..n /\ k \in 0..n /\ k \in Nat \ {0}
    BY <1>2
  <2>4. a \in Nat /\ (k = 1 => a = 0) /\ a + Len(s) <= Len(w)
    BY <1>5, <2>1, <2>2, <2>3
  <2>5. c \in {",", ""} /\ S!CharAt(w, a + Len(s)) = c
    <3>1. c \in {",", ""}
      BY <2>2, Zenon DEF Ending
    <3> QED BY <1>8, <2>1, <2>2, <3>1, Zenon
  <2>6. FieldText(w, k, comma, t, s, a, c)
    BY <1>6, <2>1, <2>2, <2>4, <2>5, Zenon DEF FieldText
  <2>7. t \in 1..9
    BY <1>2, <2>2, Zenon
  <2>8. Field(w, IF k = 1 THEN 0 ELSE a + 1, IF k = 1 THEN 0 ELSE a + Len(comma), a + Len(s), t, c)
    BY <2>3, <2>6, <2>7, ParameterField, Zenon
  <2> QED BY <2>1, <2>2, <2>8, Zenon DEF From, Begin
<1> QED BY <1>1, <1>5, <1>6, <1>9, Zenon DEF TextLayout

-----------------------------------------------------------------------------
(* Signature: the loop of RegisterFunction.                                *)

\* A loop over 0..N that goes on from the places in A, each time further behind.
Loop(N, A, T, E, f, b) == IF b \in A THEN <<E[b]>> \o f[T[b]] ELSE <<E[b]>>
Loops(N, A, T, E, f)   == f = [b \in 0..N |-> Loop(N, A, T, E, f, b)]
LoopsFrom(N, A, T, E, m, f) == f = [b \in 0..N |-> f[b]] /\ \A b \in m..N : f[b] = Loop(N, A, T, E, f, b)

LEMMA OneLoopMore ==
  ASSUME NEW N \in Nat, NEW A, NEW T, NEW E, \A b \in A : T[b] \in (b + 1)..N,
         NEW m \in 1..(N + 1), NEW f, LoopsFrom(N, A, T, E, m, f)
  PROVE  \E h : LoopsFrom(N, A, T, E, m - 1, h)
<1>1. PICK h : h = [b \in 0..N |-> IF b = m - 1 THEN Loop(N, A, T, E, f, b) ELSE f[b]]
  OBVIOUS
<1>2. h = [b \in 0..N |-> h[b]]
  BY <1>1
<1>3. \A b \in m..N : b \in 0..N /\ b # m - 1
  OBVIOUS
<1>4. \A b \in m..N : h[b] = f[b]
  BY <1>1, <1>3
<1>5. \A b \in (m - 1)..N : b \in A => T[b] \in m..N
  <2> SUFFICES ASSUME NEW b \in (m - 1)..N, b \in A PROVE T[b] \in m..N
    OBVIOUS
  <2>1. T[b] \in (b + 1)..N
    OBVIOUS
  <2>2. \A x \in (b + 1)..N : x \in m..N
    OBVIOUS
  <2> QED BY <2>1, <2>2, Zenon
<1>6. \A b \in (m - 1)..N : Loop(N, A, T, E, h, b) = Loop(N, A, T, E, f, b)
  BY <1>4, <1>5, Zenon DEF Loop
<1>7. ASSUME NEW b \in (m - 1)..N PROVE h[b] = Loop(N, A, T, E, f, b)
  <2>1. CASE b = m - 1
    <3>1. b \in 0..N
      OBVIOUS
    <3> QED BY <1>1, <2>1, <3>1
  <2>2. CASE b # m - 1
    <3>1. b \in m..N
      BY <2>2
    <3> QED BY <1>4, <3>1, Zenon DEF LoopsFrom
  <2> QED BY <2>1, <2>2
<1> QED BY <1>2, <1>6, <1>7, Zenon DEF LoopsFrom

LEMMA LoopExists ==
  ASSUME NEW N \in Nat, NEW A, NEW T, NEW E, \A b \in A : T[b] \in (b + 1)..N
  PROVE  \E f : Loops(N, A, T, E, f)
<1> DEFINE P == {j \in 0..(N + 1) : \E f : LoopsFrom(N, A, T, E, (N + 1) - j, f)}
<1>1. 0 \in P
  <2>1. PICK f : f = [b \in 0..N |-> 0]
    OBVIOUS
  <2>2. f = [b \in 0..N |-> f[b]]
    BY <2>1
  <2>3. \A b : b \notin ((N + 1) - 0)..N
    OBVIOUS
  <2>4. LoopsFrom(N, A, T, E, (N + 1) - 0, f)
    BY <2>2, <2>3, Zenon DEF LoopsFrom
  <2>5. 0 \in 0..(N + 1)
    OBVIOUS
  <2> QED BY <2>4, <2>5, Zenon
<1>2. ASSUME NEW j \in 1..(N + 1), j - 1 \in P PROVE j \in P
  <2>1. PICK m, k : m = (N + 1) - (j - 1) /\ k = (N + 1) - j
    OBVIOUS
  <2>2. PICK f : LoopsFrom(N, A, T, E, m, f)
    BY <1>2, <2>1, Zenon
  <2>3. m \in 1..(N + 1) /\ m - 1 = k
    BY <2>1
  <2>4. \E h : LoopsFrom(N, A, T, E, m - 1, h)
    BY <2>2, <2>3, OneLoopMore
  <2>5. j \in 0..(N + 1)
    OBVIOUS
  <2> QED BY <2>1, <2>3, <2>4, <2>5, Zenon
<1>3. \A j \in 0..(N + 1) : j \in P
  <2> HIDE DEF P
  <2>1. N + 1 \in Nat
    OBVIOUS
  <2> QED BY <1>1, <1>2, <2>1, Upwards
<1>4. PICK f : LoopsFrom(N, A, T, E, 0, f)
  <2>1. N + 1 \in 0..(N + 1) /\ (N + 1) - (N + 1) = 0
    OBVIOUS
  <2> QED BY <1>3, <2>1, Zenon
<1> QED BY <1>4, Zenon DEF LoopsFrom, Loops

\* What it reads from b on.
TypeAt(parser, s, b) == S!GetType(parser, s, S!TypeStart(s, b), S!TypeLength(s, b))
GoesOn(s, b)         == S!CharAt(s, S!Stop(s, b)) = ","
ReadsAt(parser, s, f, b) ==
  IF GoesOn(s, b) THEN <<TypeAt(parser, s, b)>> \o f[S!Stop(s, b) + 1] ELSE <<TypeAt(parser, s, b)>>
Reads(parser, s, f) == f = [b \in 0..Len(s) |-> ReadsAt(parser, s, f, b)]

LEMMA StopsBehind ==
  ASSUME NEW s, NEW N \in Nat, Len(s) = N, NEW b \in 0..N, GoesOn(s, b)
  PROVE  S!Stop(s, b) + 1 \in (b + 1)..N
<1> DEFINE A == {i \in b..Len(s) : S!CharAt(s, i) \in {",", ""}}
<1>1. N \in A
  <2>1. S!CharAt(s, N) = ""
    <3>1. ~(N < Len(s))
      OBVIOUS
    <3> QED BY <3>1, Zenon DEF S!CharAt
  <2>2. N \in b..Len(s)
    OBVIOUS
  <2> QED BY <2>1, <2>2, Zenon
<1>2. A \subseteq Nat /\ \A x \in A : x \in b..N
  <2>1. \A x \in A : x \in b..Len(s)
    BY Zenon
  <2> HIDE DEF A
  <2> QED BY <2>1
<1>3. PICK x \in A : \A y \in A : x <= y
  <2> HIDE DEF A
  <2> QED BY <1>1, <1>2, Least
<1>4. S!Stop(s, b) = x
  <2>1. S!Stop(s, b) = S!Min(A)
    BY DEF S!Stop
  <2> HIDE DEF A
  <2> QED BY <1>2, <1>3, <2>1, TheLeast, Zenon
<1> HIDE DEF A
<1>5. x < N
  <2>1. S!CharAt(s, x) = ","
    BY <1>4, Zenon DEF GoesOn
  <2>2. "," # ""
    OBVIOUS
  <2>3. x < Len(s)
    BY <2>1, <2>2, Zenon DEF S!CharAt
  <2> QED BY <2>3
<1> QED BY <1>2, <1>3, <1>4, <1>5

LEMMA ReadsExists ==
  ASSUME NEW parser, NEW s, NEW N \in Nat, Len(s) = N
  PROVE  \E f : Reads(parser, s, f)
<1>1. PICK A, T, E : /\ A = {b \in 0..N : GoesOn(s, b)} /\ T = [b \in 0..N |-> S!Stop(s, b) + 1]
                     /\ E = [b \in 0..N |-> TypeAt(parser, s, b)]
  OBVIOUS
<1>2. ASSUME NEW b \in A PROVE T[b] \in (b + 1)..N
  <2>1. b \in 0..N /\ GoesOn(s, b) /\ T[b] = S!Stop(s, b) + 1
    BY <1>1, <1>2
  <2>2. S!Stop(s, b) + 1 \in (b + 1)..N
    BY <2>1, StopsBehind, Zenon
  <2> QED BY <2>1, <2>2, Zenon
<1>3. PICK f : Loops(N, A, T, E, f)
  BY <1>2, LoopExists, Zenon
<1>4. \A b \in 0..N : Loop(N, A, T, E, f, b) = ReadsAt(parser, s, f, b)
  <2>1. \A b \in 0..N : (b \in A <=> GoesOn(s, b)) /\ T[b] = S!Stop(s, b) + 1 /\ E[b] = TypeAt(parser, s, b)
    BY <1>1
  <2> QED BY <2>1, Zenon DEF Loop, ReadsAt
<1>5. f = [b \in 0..N |-> ReadsAt(parser, s, f, b)]
  BY <1>3, <1>4, Zenon DEF Loops
<1> QED BY <1>5, Zenon DEF Reads

LEMMA RegistersAsRead ==
  ASSUME NEW parser, NEW s, NEW N \in Nat, Len(s) = N
  PROVE  \E f : Reads(parser, s, f) /\ S!RegisterFunction(parser, s) = f[0]
<1> DEFINE v == CHOOSE f : Reads(parser, s, f)
<1>1. Reads(parser, s, v)
  BY ReadsExists
<1>2. S!RegisterFunction(parser, s) = v[0]
  BY Zenon DEF S!RegisterFunction, Reads, ReadsAt, GoesOn, TypeAt
<1> QED BY <1>1, <1>2

\* The types from parameter k on.
TypesFrom(list, k) == [i \in 1..((Len(list) - k) + 1) |-> TypeOf(list[(k + i) - 1])]

LEMMA Prepended ==
  ASSUME NEW X, NEW x \in X, NEW m \in Nat, NEW h \in [1..m -> X]
  PROVE  <<x>> \o h = [i \in 1..(m + 1) |-> IF i = 1 THEN x ELSE h[i - 1]]
<1>1. h \in Seq(X) /\ Len(h) = m
  <2>1. h \in Seq(X)
    OBVIOUS
  <2> QED BY <2>1, LenProperties
<1>2. PICK a : a = <<x>>
  OBVIOUS
<1>3. a \in Seq(X) /\ Len(a) = 1 /\ a[1] = x
  BY <1>2
<1>4. PICK c : c = a \o h
  OBVIOUS
<1>5. /\ c \in Seq(X) /\ Len(c) = Len(a) + Len(h)
      /\ \A i \in 1..(Len(a) + Len(h)) : c[i] = IF i <= Len(a) THEN a[i] ELSE h[i - Len(a)]
  BY <1>1, <1>3, <1>4, ConcatProperties, Zenon
<1>6. Len(c) = m + 1 /\ \A i \in 1..(m + 1) : c[i] = IF i <= 1 THEN a[i] ELSE h[i - 1]
  <2>1. Len(a) + Len(h) = m + 1
    BY <1>1, <1>3
  <2> QED BY <1>3, <1>5, <2>1, Zenon
<1>7. c \in [1..(m + 1) -> X] /\ \A i \in 1..(m + 1) : c[i] = IF i = 1 THEN x ELSE h[i - 1]
  <2>1. c \in [1..(m + 1) -> X]
    BY <1>5, <1>6, LenProperties
  <2>2. \A i \in 1..(m + 1) : i <= 1 <=> i = 1
    OBVIOUS
  <2> QED BY <1>3, <1>6, <2>1, <2>2, Zenon
<1>8. c = [i \in 1..(m + 1) |-> IF i = 1 THEN x ELSE h[i - 1]]
  BY <1>7
<1> QED BY <1>2, <1>4, <1>8

LEMMA LastType ==
  ASSUME NEW list, NEW n \in Nat \ {0}, Len(list) = n
  PROVE  TypesFrom(list, n) = <<TypeOf(list[n])>>
<1>1. (n - n) + 1 = 1 /\ \A i \in 1..1 : (n + i) - 1 = n
  OBVIOUS
<1>2. TypesFrom(list, n) = [i \in 1..1 |-> TypeOf(list[n])]
  BY <1>1 DEF TypesFrom
<1> QED BY <1>2

LEMMA OneTypeMore ==
  ASSUME NEW list, NEW n \in Nat, Len(list) = n, NEW k \in 1..(n - 1)
  PROVE  TypesFrom(list, k) = <<TypeOf(list[k])>> \o TypesFrom(list, k + 1)
<1>1. PICK T, m, x : /\ T = [i \in 1..n |-> TypeOf(list[i])] /\ m = n - k /\ x = TypeOf(list[k])
  OBVIOUS
<1>2. m \in Nat /\ k \in 1..n /\ (n - (k + 1)) + 1 = m /\ (n - k) + 1 = m + 1
  BY <1>1
<1>3. PICK X : X = {T[i] : i \in 1..n}
  OBVIOUS
<1>4. PICK h : h = [i \in 1..m |-> T[k + i]]
  OBVIOUS
<1>5. \A i \in 1..m : k + i \in 1..n /\ ((k + 1) + i) - 1 = k + i
  BY <1>1
<1>6. TypesFrom(list, k + 1) = h
  <2>1. \A i \in 1..m : TypeOf(list[((k + 1) + i) - 1]) = T[k + i]
    BY <1>1, <1>5
  <2> QED BY <1>2, <1>4, <2>1 DEF TypesFrom
<1>7. x = T[k] /\ x \in X
  BY <1>1, <1>2, <1>3
<1>8. h \in [1..m -> X]
  BY <1>3, <1>4, <1>5
<1>9. <<x>> \o h = [i \in 1..(m + 1) |-> IF i = 1 THEN x ELSE h[i - 1]]
  BY <1>2, <1>7, <1>8, Prepended
<1>10. TypesFrom(list, k) = [i \in 1..(m + 1) |-> IF i = 1 THEN x ELSE h[i - 1]]
  <2>1. ASSUME NEW i \in 1..(m + 1) PROVE TypeOf(list[(k + i) - 1]) = IF i = 1 THEN x ELSE h[i - 1]
    <3>1. CASE i = 1
      <4>1. (k + 1) - 1 = k
        OBVIOUS
      <4> QED BY <1>1, <3>1, <4>1
    <3>2. CASE i # 1
      <4>1. i - 1 \in 1..m /\ k + (i - 1) = (k + i) - 1 /\ (k + i) - 1 \in 1..n
        BY <1>1, <1>2, <3>2
      <4>2. h[i - 1] = T[k + (i - 1)]
        BY <1>4, <4>1
      <4>3. T[(k + i) - 1] = TypeOf(list[(k + i) - 1])
        BY <1>1, <4>1
      <4> QED BY <3>2, <4>1, <4>2, <4>3
    <3> QED BY <3>1, <3>2
  <2> QED BY <1>2, <2>1 DEF TypesFrom
<1> QED BY <1>1, <1>6, <1>9, <1>10

OfTypes(list, m) == \A i \in 1..Len(list) : list[i] \in 1..m

\* Where the loop f reads parameter k of the list in s it gets the type of k.
ReadingTypes(parser, m, list, s, g, p, f) ==
  /\ Knows(parser, m) /\ IsList(list) /\ OfTypes(list, m)
  /\ TextLayout(list, s, g, p) /\ Reads(parser, s, f)

GetsType(list, p, f, k) ==
  f[From(p, k)] = IF k = Len(list) THEN <<TypeOf(list[k])>> ELSE <<TypeOf(list[k])>> \o f[From(p, k + 1)]

LEMMA ReadsParameter ==
  ASSUME NEW parser, NEW m, NEW list, NEW s, NEW g, NEW p, NEW f, ReadingTypes(parser, m, list, s, g, p, f),
         NEW k \in 1..Len(list)
  PROVE  GetsType(list, p, f, k)
<1>r. /\ Knows(parser, m) /\ IsList(list) /\ \A i \in 1..Len(list) : list[i] \in 1..m
      /\ TextLayout(list, s, g, p) /\ Reads(parser, s, f)
  BY Zenon DEF ReadingTypes, OfTypes
<1>1. PICK n, b, a, e, t, c :
        n = Len(list) /\ b = From(p, k) /\ a = Begin(p, k, g) /\ e = p[k] /\ t = list[k] /\ c = Ending(k, n)
  OBVIOUS
<1>2. Field(s, b, a, e, t, c)
  BY <1>1, <1>r, Zenon DEF TextLayout
<1>3. n \in Nat \ {0} /\ k \in 1..n /\ t \in 1..m
  BY <1>1, <1>r DEF IsList
<1>4. t \in 1..9
  BY <1>3, <1>r DEF Knows
<1>5. S!Stop(s, b) = e
  BY <1>2, <1>4, FieldStop, Zenon
<1>6. TypeAt(parser, s, b) = TypeOf(t)
  BY <1>2, <1>3, <1>r, FieldType, Zenon DEF TypeAt
<1>7. GoesOn(s, b) <=> k # n
  <2>1. S!CharAt(s, e) = c
    BY <1>2, Zenon DEF Field
  <2>2. "," # ""
    OBVIOUS
  <2> QED BY <1>1, <1>5, <2>1, <2>2, Zenon DEF GoesOn, Ending
<1>8. f[b] = ReadsAt(parser, s, f, b)
  <2>1. /\ TypeWidths[t] \in Nat \ {0} /\ Len(s) \in Nat /\ b \in Nat /\ a \in Nat /\ e \in Nat
        /\ b <= a /\ e = a + TypeWidths[t] /\ e <= Len(s)
    BY <1>2, <1>4, FieldNumbers, Zenon
  <2>2. b \in 0..Len(s)
    BY <2>1
  <2> QED BY <1>r, <2>2, Zenon DEF Reads
<1>9. From(p, k + 1) = e + 1
  <2>1. k + 1 # 1 /\ (k + 1) - 1 = k
    BY <1>3
  <2> QED BY <1>1, <2>1 DEF From
<1> QED BY <1>1, <1>5, <1>6, <1>7, <1>8, <1>9, Zenon DEF ReadsAt, GetsType

LEMMA ReadsTypes ==
  ASSUME NEW parser, NEW m, NEW list, NEW s, NEW g, NEW p, NEW f, ReadingTypes(parser, m, list, s, g, p, f)
  PROVE  f[0] = TypesFrom(list, 1)
<1>1. PICK n : n = Len(list) /\ n \in Nat \ {0}
  BY DEF ReadingTypes, IsList
<1>a. \A k \in 1..Len(list) : GetsType(list, p, f, k)
  BY ReadsParameter, Zenon
<1>2. \A k \in 1..n : f[From(p, k)] = IF k = n THEN <<TypeOf(list[k])>>
                                      ELSE <<TypeOf(list[k])>> \o f[From(p, k + 1)]
  BY <1>1, <1>a, Zenon DEF GetsType
<1> DEFINE P == {j \in 0..(n - 1) : f[From(p, n - j)] = TypesFrom(list, n - j)}
<1>3. 0 \in P
  <2>1. 0 \in 0..(n - 1) /\ n - 0 = n /\ n \in 1..n
    BY <1>1
  <2>2. f[From(p, n)] = TypesFrom(list, n)
    BY <1>1, <1>2, <2>1, LastType, Zenon
  <2> QED BY <2>1, <2>2, Zenon
<1>4. ASSUME NEW j \in 1..(n - 1), j - 1 \in P PROVE j \in P
  <2>1. PICK k : k = n - j
    OBVIOUS
  <2>2. k \in 1..(n - 1) /\ k \in 1..n /\ k # n /\ n - (j - 1) = k + 1 /\ j \in 0..(n - 1)
    BY <1>1, <2>1
  <2>3. f[From(p, k + 1)] = TypesFrom(list, k + 1)
    BY <1>4, <2>2, Zenon
  <2>4. f[From(p, k)] = <<TypeOf(list[k])>> \o TypesFrom(list, k + 1)
    BY <1>2, <2>2, <2>3, Zenon
  <2>5. TypesFrom(list, k) = <<TypeOf(list[k])>> \o TypesFrom(list, k + 1)
    BY <1>1, <2>2, OneTypeMore
  <2> QED BY <2>1, <2>2, <2>4, <2>5, Zenon
<1>5. \A j \in 0..(n - 1) : j \in P
  <2> HIDE DEF P
  <2>1. n - 1 \in Nat
    BY <1>1
  <2> QED BY <1>3, <1>4, <2>1, Upwards
<1>6. n - 1 \in P /\ n - (n - 1) = 1
  <2>1. n - 1 \in 0..(n - 1) /\ n - (n - 1) = 1
    BY <1>1
  <2> HIDE DEF P
  <2> QED BY <1>5, <2>1
<1>7. f[From(p, 1)] = TypesFrom(list, 1)
  BY <1>6, Zenon
<1> QED BY <1>7, Zenon DEF From

\* A list that is not empty is registered as it is spelled.
RegisteredAs(parser, list, comma) ==
  S!RegisterFunction(parser, S!Text(NamesOf(list), comma)) = [i \in 1..Len(list) |-> TypeOf(list[i])]

LEMMA RegistersTypes ==
  ASSUME NEW parser, NEW m, Knows(parser, m), NEW list, IsList(list), OfTypes(list, m), NEW comma \in Commas
  PROVE  RegisteredAs(parser, list, comma)
<1>1. PICK s : s = S!Text(NamesOf(list), comma)
  OBVIOUS
<1>2. PICK p : TextLayout(list, s, Len(comma), p)
  BY <1>1, TextLaidOut
<1>3. Len(s) \in Nat
  BY <1>2 DEF TextLayout
<1>4. PICK f : Reads(parser, s, f) /\ S!RegisterFunction(parser, s) = f[0]
  BY <1>3, RegistersAsRead
<1>5. f[0] = TypesFrom(list, 1)
  <2>1. ReadingTypes(parser, m, list, s, Len(comma), p, f)
    BY <1>2, <1>4, Zenon DEF ReadingTypes
  <2> QED BY <2>1, ReadsTypes, Zenon
<1>6. TypesFrom(list, 1) = [i \in 1..Len(list) |-> TypeOf(list[i])]
  <2>1. PICK n \in Nat : n = Len(list)
    BY DEF IsList
  <2>2. (n - 1) + 1 = n /\ \A i \in 1..n : (1 + i) - 1 = i
    OBVIOUS
  <2> QED BY <2>1, <2>2 DEF TypesFrom
<1> QED BY <1>1, <1>4, <1>5, <1>6, Zenon DEF RegisteredAs

\* An empty list is registered as one int.
LEMMA RegistersInt ==
  ASSUME NEW parser, NEW m, Knows(parser, m), NEW comma
  PROVE  S!RegisterFunction(parser, S!Text(<<>>, comma)) = <<"SINT32">>
<1>1. PICK s : s = S!Text(<<>>, comma)
  OBVIOUS
<1>2. s = <<>>
  <2> DEFINE v == CHOOSE u : TextSteps(<<>>, comma, 0, u)
  <2>1. PICK w : w = [i \in 0..0 |-> <<>>]
    OBVIOUS
  <2>2. TextSteps(<<>>, comma, 0, w)
    <3>1. \A i \in 0..0 : i = 0
      OBVIOUS
    <3> QED BY <2>1, <3>1, Zenon DEF TextSteps
  <2>3. TextSteps(<<>>, comma, 0, v)
    BY <2>2, Zenon
  <2>4. s = v[0]
    <3>1. Len(<<>>) = 0
      BY EmptySeq
    <3> QED BY <1>1, <3>1, Zenon DEF S!Text, TextSteps
  <2> HIDE DEF v
  <2>5. v[0] = <<>>
    <3>1. 0 \in 0..0
      OBVIOUS
    <3> QED BY <2>3, <3>1, Zenon DEF TextSteps
  <2> QED BY <2>4, <2>5
<1>3. Len(s) = 0 /\ Len(s) \in Nat
  BY <1>2, EmptySeq
<1>4. PICK f : Reads(parser, s, f) /\ S!RegisterFunction(parser, s) = f[0]
  BY <1>3, RegistersAsRead
<1>5. S!CharAt(s, 0) = ""
  BY <1>3 DEF S!CharAt
<1>6. S!Stop(s, 0) = 0
  <2> DEFINE A == {i \in 0..Len(s) : S!CharAt(s, i) \in {",", ""}}
  <2>0. 0 \in 0..Len(s) /\ \A i \in 0..Len(s) : i \in Nat
    BY <1>3
  <2>1. 0 \in A
    BY <1>5, <2>0, Zenon
  <2>2. A \subseteq Nat
    BY <2>0, Zenon
  <2>3. S!Stop(s, 0) = S!Min(A)
    BY DEF S!Stop
  <2> HIDE DEF A
  <2>4. \A i \in A : 0 <= i
    BY <2>2
  <2> QED BY <2>1, <2>2, <2>3, <2>4, TheLeast, Zenon
<1>7. S!TypeLength(s, 0) = 0
  <2> DEFINE A == {i \in 0..(S!Stop(s, 0) - 1) : S!CharAt(s, i) # Blank}
  <2>1. A = {}
    BY <1>6
  <2>2. S!TypeLength(s, 0) = S!Cardinality(A)
    BY Zenon DEF S!TypeLength, Blank
  <2> HIDE DEF A
  <2>3. S!Cardinality(A) = Cardinality(A)
    BY DEF S!Cardinality, Cardinality
  <2> QED BY <2>1, <2>2, <2>3, FS_EmptySet
<1>8. ~GoesOn(s, 0)
  <2>1. "," # ""
    OBVIOUS
  <2> QED BY <1>5, <1>6, <2>1, Zenon DEF GoesOn
<1>9. f[0] = <<TypeAt(parser, s, 0)>>
  <2>1. 0 \in 0..Len(s)
    BY <1>3
  <2> QED BY <1>4, <1>8, <2>1, Zenon DEF Reads, ReadsAt
<1>10. TypeAt(parser, s, 0) = "SINT32"
  <2>1. PICK names, a : names = parser.names /\ a = S!TypeStart(s, 0)
    OBVIOUS
  <2>2. m \in 8..9 /\ DOMAIN names = 1..m /\ \A i \in 1..m : names[i] = S!TypeNames[i]
    BY <2>1 DEF Knows
  <2>3. \A i \in 1..m : S!MatchType(s, a, 0, names[i].name)
    <3>1. \A k : k \notin 0..(0 - 1)
      OBVIOUS
    <3> QED BY <3>1, Zenon DEF S!MatchType
  <2>4. {i \in 1..m : S!MatchType(s, a, 0, names[i].name)} = 1..m
    BY <2>3, Zenon
  <2>5. S!Earliest(1..m) = 1 /\ 1 \in 1..m
    <3>1. 1..m \subseteq Nat /\ 1 \in 1..m /\ \A i \in 1..m : 1 <= i
      BY <2>2
    <3> QED BY <3>1, TheEarliest, Zenon
  <2>6. S!GetType(parser, s, a, 0) = names[1].type
    BY <2>1, <2>2, <2>4, <2>5, Zenon DEF S!GetType
  <2> QED BY <1>7, <2>1, <2>2, <2>5, <2>6, OneIsInt, Zenon DEF TypeAt, TypeOf
<1> QED BY <1>1, <1>4, <1>9, <1>10, Zenon

LEMMA ReadsAsSpelled ==
  ASSUME NEW list \in Seq(1..9), NEW comma \in Commas
  PROVE  S!ReadAsSpelled(list, comma)
<1>1. PICK text : text = S!Text([i \in DOMAIN list |-> S!TypeNames[list[i]].name], comma)
  OBVIOUS
<1>2. PICK types : types = IF list = <<>> THEN <<"SINT32">> ELSE [i \in DOMAIN list |-> S!TypeNames[list[i]].type]
  OBVIOUS
<1> SUFFICES /\ S!RegisterFunction(S!Library, text) = types
             /\ "VOID" \notin {types[i] : i \in DOMAIN types} => S!RegisterFunction(S!Prototype, text) = types
  BY <1>1, <1>2, Zenon DEF S!ReadAsSpelled, S!PrototypeFunction
<1>3. CASE list = <<>>
  <2>1. [i \in DOMAIN list |-> S!TypeNames[list[i]].name] = <<>>
    <3>1. \A f : [i \in DOMAIN <<>> |-> f[i]] = <<>>
      OBVIOUS
    <3>2. PICK f : f = [i \in DOMAIN list |-> S!TypeNames[list[i]].name]
      OBVIOUS
    <3> QED BY <1>3, <3>1, <3>2
  <2>2. text = S!Text(<<>>, comma) /\ types = <<"SINT32">>
    BY <1>1, <1>2, <1>3, <2>1, Zenon
  <2> QED BY <2>2, LibraryKnows, PrototypeKnows, RegistersInt, Zenon
<1>4. CASE list # <<>>
  <2>1. PICK n : n = Len(list) /\ n \in Nat \ {0} /\ DOMAIN list = 1..n /\ \A i \in 1..n : list[i] \in 1..9
    <3>1. Len(list) \in Nat /\ Len(list) # 0 /\ DOMAIN list = 1..Len(list) /\ \A i \in 1..Len(list) : list[i] \in 1..9
      BY <1>4, EmptySeq, LenProperties
    <3> QED BY <3>1
  <2>2. IsList(list)
    BY <2>1 DEF IsList
  <2>3. text = S!Text(NamesOf(list), comma)
    BY <1>1, <2>1, Zenon DEF NamesOf, Spelled
  <2>4. types = [i \in 1..n |-> TypeOf(list[i])]
    BY <1>2, <1>4, <2>1, Zenon DEF TypeOf
  <2>5. S!RegisterFunction(S!Library, text) = types
    <3>1. OfTypes(list, 9)
      BY <2>1, Zenon DEF OfTypes
    <3>2. RegisteredAs(S!Library, list, comma)
      BY <2>2, <3>1, LibraryKnows, RegistersTypes, ZenonT(40)
    <3> QED BY <2>1, <2>3, <2>4, <3>2, Zenon DEF RegisteredAs
  <2>6. ASSUME "VOID" \notin {types[i] : i \in DOMAIN types}
        PROVE  S!RegisterFunction(S!Prototype, text) = types
    <3>1. DOMAIN types = 1..n /\ \A i \in 1..n : types[i] = TypeOf(list[i])
      BY <2>4
    <3>2. \A i \in 1..n : types[i] # "VOID"
      BY <2>6, <3>1, Zenon
    <3>3. \A i \in 1..n : list[i] # 9
      BY <3>1, <3>2, NineIsVoid, Zenon
    <3>4. \A i \in 1..n : list[i] \in 1..8
      <4>1. \A x \in 1..9 : x # 9 => x \in 1..8
        OBVIOUS
      <4> QED BY <2>1, <3>3, <4>1, Zenon
    <3>5. OfTypes(list, 8)
      BY <2>1, <3>4, Zenon DEF OfTypes
    <3>6. RegisteredAs(S!Prototype, list, comma)
      BY <2>2, <3>5, PrototypeKnows, RegistersTypes, ZenonT(40)
    <3> QED BY <2>1, <2>3, <2>4, <3>6, Zenon DEF RegisteredAs
  <2> QED BY <2>5, <2>6
<1> QED BY <1>3, <1>4
-----------------------------------------------------------------------------
(* What the behaviours try.                                                *)

Tried ==
  /\ of = "types" => input.list \in Lists /\ input.comma \in Commas
  /\ of = "name" => input.names \in Names /\ input.size \in Sizes /\ input.cut \in 0..1
  /\ of = "processes" => input \in Processes
  /\ of = "reset" => input \in Arguments
  /\ of = "sort" => input \in Arrays
  /\ of = "number" => input.value \in 0..(UInts - 1) /\ input.radix \in {2, 10, 16}
  /\ of = "message" => input \in Parts

LEMMA AlwaysTried == Spec => []Tried
<1>1. Init => Tried
  BY DEF Init, Tried
<1>2. Tried /\ [Next]_vars => Tried'
  <2> SUFFICES ASSUME Tried, [Next]_vars PROVE Tried'
    OBVIOUS
  <2>1. CASE TryTypes
    <3>1. PICK K : K = Commas
      OBVIOUS
    <3>2. TryTypes <=> Try("types", [list : Lists, comma : K])
      BY <3>1, Zenon DEF TryTypes, Commas, Blank
    <3> QED BY <2>1, <3>1, <3>2 DEF Tried, Try
  <2>2. CASE TrySpelling
    <3>1. of' = "spelling"
      BY <2>2, Zenon DEF TrySpelling, Try
    <3> QED BY <3>1 DEF Tried
  <2>3. CASE TryName \/ TryProcesses \/ TryReset \/ TrySort \/ TryNumber \/ TryMessage \/ UNCHANGED vars
    BY <2>3 DEF Tried, vars, Try, TryName, TryProcesses, TryReset, TrySort, TryNumber, TryMessage
  <2> QED BY <2>1, <2>2, <2>3 DEF Next
<1> QED BY <1>1, <1>2, PTL DEF Spec

\* Signature: any list of the registered types is registered by the library as it is
\* spelled, whatever the types and with or without blanks behind the commas, and by the
\* prototype, too, if it has no void; an empty one as one int.
THEOREM TypesAreRead == Spec => []TypesAsSpelled
<1>1. Tried => TypesAsSpelled
  <2> SUFFICES ASSUME Tried, of = "types" PROVE S!ReadAsSpelled(input.list, input.comma)
    BY DEF TypesAsSpelled
  <2>1. PICK list, comma : list = input.list /\ comma = input.comma
    OBVIOUS
  <2>2. list \in Lists /\ comma \in Commas
    BY <2>1 DEF Tried
  <2>3. list \in Seq(1..9)
    BY <2>2, NineNames, AlgorithmsAssumption DEF AlgorithmsAssumption
  <2> QED BY <2>1, <2>2, <2>3, ReadsAsSpelled
<1> QED BY <1>1, AlwaysTried, PTL

\* Signature: the words operator() fetches are the arguments of the call, up to the first
\* float behind the first argument, for any list of the registered types.  Of a char or
\* short in the first place these are the low bytes of its word.
THEOREM EveryArgumentArrives == Spec => []ArgumentsArrive
<1>1. Tried => ArgumentsArrive
  BY Words, AlgorithmsAssumption DEF Tried, ArgumentsArrive, AlgorithmsAssumption
<1> QED BY <1>1, AlwaysTried, PTL

\* Demangle: of any names joined in a type, the buffer of whatever size has the ones that
\* fit and nothing else, and it ends with a zero unless it ends with a dot.
THEOREM NamesAreWritten == Spec => []WritesTheName
<1>1. Tried => WritesTheName
  <2> SUFFICES ASSUME Tried, of = "name" PROVE D!Written(input.names, input.size, input.cut)
    BY DEF WritesTheName
  <2>1. PICK names, max, cut : names = input.names /\ max = input.size /\ cut = input.cut
    OBVIOUS
  <2>2. names \in Names /\ max \in Sizes /\ cut \in 0..1
    BY <2>1 DEF Tried
  <2>3. AreWords(names) /\ max \in Nat \ {0}
    BY <2>2, AlgorithmsAssumption DEF AlgorithmsAssumption, AreWords, IsWord, D!Digits, D!DOT
  <2>4. cut \in {0, 1}
    BY <2>2
  <2> QED BY <2>1, <2>3, <2>4, WrittenAsCalled
<1> QED BY <1>1, AlwaysTried, PTL

\* Commands: ps prints every thread once, a thread of its process under its process,
\* for any list with one row for each thread.
THEOREM EachRowOnce == Spec => []EachThreadOnce
<1>1. Tried => EachThreadOnce
  <2> SUFFICES ASSUME Tried, of = "processes" PROVE C!ShownOnce(input)
    BY DEF EachThreadOnce
  <2>1. input \in Processlist /\ OneRowEach(input)
    BY AlgorithmsAssumption DEF Tried, AlgorithmsAssumption, Processlist, OneRowEach
  <2> QED BY <2>1, ShowsThreads
<1> QED BY <1>1, AlwaysTried, PTL

\* Commands and Video: reset asks for what its letters name, bench leaves the bytes it got
\* in order, and a number is shown as it is and fits its buffer, whatever they are given.
THEOREM AgreesWithReference == Spec => []AsReference
<1>1. Tried => AsReference
  <2> SUFFICES ASSUME Tried PROVE AsReference
    OBVIOUS
  <2>1. ASSUME of = "reset" PROVE C!AsksForTheNamed(input)
    <3>1. input \in Seq(STRING)
      BY <2>1, AlgorithmsAssumption DEF Tried, AlgorithmsAssumption
    <3> QED BY <3>1, AsksForThem
  <2>2. ASSUME of = "sort" PROVE C!Sorts(input)
    <3>1. input \in Seq(0..255)
      BY <2>2, AlgorithmsAssumption DEF Tried, AlgorithmsAssumption
    <3> QED BY <3>1, BubbleSorts
  <2>3. ASSUME of = "number" PROVE V!ShownAsItIs(input.value, input.radix)
    <3>1. PICK v, r : v = input.value /\ r = input.radix /\ v \in 0..(UInts - 1) /\ r \in Radixes
      BY <2>3 DEF Tried, Radixes
    <3> QED BY <3>1, ShowsAsItIs
  <2> QED BY <2>1, <2>2, <2>3 DEF AsReference
<1> QED BY <1>1, AlwaysTried, PTL

\* Sha1: the digest is that of the padded message of the standard, for a message of any
\* length, handed over in any parts, and one that is too long is refused.
THEOREM DigestsAreStandard == Spec => []DigestsThePadded
<1>1. Tried => DigestsThePadded
  BY Digests, AlgorithmsAssumption DEF Tried, DigestsThePadded, AlgorithmsAssumption
<1> QED BY <1>1, AlwaysTried, PTL
=============================================================================
