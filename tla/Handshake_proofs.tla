-------------------------- MODULE Handshake_proofs --------------------------
(***************************************************************************)
(* Proofs about Handshake, for any lines and any number of them: what the  *)
(* searches find in every text, and that the handler's ways out are the    *)
(* ones the lines call for.                                                *)
(*                                                                         *)
(* The text is a flattened sequence, so the proofs start with induction:   *)
(* the least element of a set of numbers, which WellFoundedInduction       *)
(* gives, for a set instead of a predicate.                                *)
(***************************************************************************)
EXTENDS Handshake, WellFoundedInduction, FiniteSetTheorems, TLAPS

-----------------------------------------------------------------------------
(* Induction. *)

\* Every set of numbers has a least one.
LEMMA Least ==
  ASSUME NEW S, S \subseteq Nat, S # {}
  PROVE  \E m \in S : \A n \in S : m <= n
<1> DEFINE R == OpToRel(<, Nat)
<1>1. IsWellFoundedOn(R, Nat)
  BY NatLessThanWellFounded
<1>2. \A x, y \in Nat : <<x, y>> \in R <=> x < y
  BY DEF OpToRel
<1> HIDE DEF R
<1>3. PICK m \in S : \A n \in S : ~ (<<n, m>> \in R)
  BY <1>1, WFMin
<1>4. ASSUME NEW n \in S PROVE m <= n
  <2>1. ~(n < m) /\ n \in Nat /\ m \in Nat
    BY <1>2, <1>3
  <2> QED
    BY <2>1
<1> QED
  BY <1>4

\* A set with 0, and with the successor of each of its members, has every number.
LEMMA Induction ==
  ASSUME NEW S, 0 \in S, \A n \in Nat : n \in S => n + 1 \in S
  PROVE  \A n \in Nat : n \in S
<1> DEFINE T == Nat \ S
<1>1. CASE T # {}
  <2>1. PICK m \in T : \A n \in T : m <= n
    BY <1>1, Least
  <2>2. m - 1 \in Nat /\ m - 1 \in S
    BY <2>1
  <2> QED
    BY <2>1, <2>2
<1> QED
  BY <1>1

-----------------------------------------------------------------------------
(* Flattening. *)

\* g is the function by which FlattenSeq is defined, for the first n of s.
Unfolds(g, n, s) == g = [i \in 1 .. n |-> IF i = 1 THEN s[i] ELSE g[i - 1] \o s[i]]

\* The function that the definition of FlattenSeq chooses.
Unfolding(s) == CHOOSE g : Unfolds(g, Len(s), s)

\* FlattenSeq by that function.
LEMMA FlattenIs ==
  ASSUME NEW s, Len(s) # 0
  PROVE  FlattenSeq(s) = Unfolding(s)[Len(s)]
BY DEF FlattenSeq, Unfolding, Unfolds

\* There is such a function for one more sequence ...
LEMMA UnfoldExtends ==
  ASSUME NEW s, NEW n \in Nat, NEW g, Unfolds(g, n, s)
  PROVE  LET h == [i \in 1 .. n + 1 |-> IF i = n + 1
                     THEN IF n = 0 THEN s[1] ELSE g[n] \o s[n + 1] ELSE g[i]]
         IN  Unfolds(h, n + 1, s)
<1> DEFINE h == [i \in 1 .. n + 1 |-> IF i = n + 1
                     THEN IF n = 0 THEN s[1] ELSE g[n] \o s[n + 1] ELSE g[i]]
<1>1. \A i \in 1 .. n + 1 : h[i] = IF i = 1 THEN s[i] ELSE h[i - 1] \o s[i]
  <2> TAKE i \in 1 .. n + 1
  <2>0. g = [k \in 1 .. n |-> IF k = 1 THEN s[k] ELSE g[k - 1] \o s[k]]
    BY DEF Unfolds
  <2>1. CASE i = n + 1
    BY <2>1
  <2>2. CASE i \in 1 .. n
    <3>1. h[i] = g[i] /\ (i # 1 => h[i - 1] = g[i - 1])
      BY <2>2
    <3>2. g[i] = IF i = 1 THEN s[i] ELSE g[i - 1] \o s[i]
      BY <2>0, <2>2
    <3> QED
      BY <3>1, <3>2
  <2> QED
    BY <2>1, <2>2
<1> QED
  BY <1>1 DEF Unfolds

\* ... and so for any number of them.
LEMMA UnfoldExists ==
  ASSUME NEW s
  PROVE  \A n \in Nat : \E g : Unfolds(g, n, s)
<1> DEFINE T == {n \in Nat : \E g : Unfolds(g, n, s)}
<1>1. 0 \in T
  <2>1. \E g : Unfolds(g, 0, s)
    <3>1. Unfolds([i \in 1 .. 0 |-> 0], 0, s)
      BY DEF Unfolds
    <3> QED
      BY <3>1
  <2> QED
    BY <2>1
<1>2. ASSUME NEW n \in Nat, n \in T PROVE n + 1 \in T
  <2>1. PICK g : Unfolds(g, n, s)
    BY <1>2
  <2>2. \E h : Unfolds(h, n + 1, s)
    BY <2>1, UnfoldExtends
  <2> QED
    BY <2>2
<1> HIDE DEF T
<1>3. \A n \in Nat : n \in T
  BY <1>1, <1>2, Induction
<1> QED
  BY <1>3 DEF T

\* The one that is chosen is one.
LEMMA UnfoldingIs ==
  ASSUME NEW s, Len(s) \in Nat
  PROVE  Unfolds(Unfolding(s), Len(s), s)
BY UnfoldExists DEF Unfolding

\* Its values.
LEMMA UnfoldAt ==
  ASSUME NEW s, NEW n \in Nat, NEW g, Unfolds(g, n, s), NEW i \in 1 .. n
  PROVE  g[i] = IF i = 1 THEN s[i] ELSE g[i - 1] \o s[i]
<1>1. g = [k \in 1 .. n |-> IF k = 1 THEN s[k] ELSE g[k - 1] \o s[k]]
  BY DEF Unfolds
<1> QED
  BY <1>1

Alike(q, r, n) == \A i \in 1 .. n : q[i] = r[i]

\* Sequences that begin alike are flattened alike.
LEMMA UnfoldSame ==
  ASSUME NEW s, NEW r, NEW n \in Nat, NEW m \in Nat, n <= m,
         Alike(s, r, n),
         NEW g, Unfolds(g, n, s), NEW h, Unfolds(h, m, r)
  PROVE  Alike(g, h, n)
<1> USE DEF Alike
<1> DEFINE T == {i \in Nat : i \in 1 .. n => g[i] = h[i]}
<1>1. 0 \in T
  OBVIOUS
<1>2. ASSUME NEW i \in Nat, i \in T PROVE i + 1 \in T
  <2> SUFFICES ASSUME i + 1 \in 1 .. n PROVE g[i + 1] = h[i + 1]
    OBVIOUS
  <2>1. /\ g[i + 1] = IF i + 1 = 1 THEN s[i + 1] ELSE g[i] \o s[i + 1]
        /\ h[i + 1] = IF i + 1 = 1 THEN r[i + 1] ELSE h[i] \o r[i + 1]
    <3>1. i + 1 \in 1 .. n /\ i + 1 \in 1 .. m /\ (i + 1) - 1 = i
      OBVIOUS
    <3>2. g[i + 1] = IF i + 1 = 1 THEN s[i + 1] ELSE g[(i + 1) - 1] \o s[i + 1]
      BY <3>1, UnfoldAt
    <3>3. h[i + 1] = IF i + 1 = 1 THEN r[i + 1] ELSE h[(i + 1) - 1] \o r[i + 1]
      BY <3>1, UnfoldAt
    <3> QED
      BY <3>1, <3>2, <3>3
  <2>2. i # 0 => g[i] = h[i]
    BY <1>2
  <2> QED
    BY <2>1, <2>2
<1> HIDE DEF T
<1>3. \A i \in Nat : i \in T
  BY <1>1, <1>2, Induction
<1> QED
  BY <1>3 DEF T

\* Flattening one more.
LEMMA FlattenAppend ==
  ASSUME NEW S, NEW s \in Seq(S), NEW x \in S
  PROVE  FlattenSeq(Append(s, x)) = IF Len(s) = 0 THEN x ELSE FlattenSeq(s) \o x
<1> DEFINE n == Len(s)
           t == Append(s, x)
           g == Unfolding(s)
           h == Unfolding(t)
<1>1. n \in Nat /\ Len(t) = n + 1 /\ t[n + 1] = x /\ \A i \in 1 .. n : s[i] = t[i]
  OBVIOUS
<1>2. n = Len(s)
  OBVIOUS
<1> HIDE DEF n, t
<1>3. FlattenSeq(t) = h[n + 1] /\ (n # 0 => FlattenSeq(s) = g[n])
  BY <1>1, <1>2, FlattenIs
<1>4. Unfolds(g, n, s) /\ Unfolds(h, n + 1, t)
  BY <1>1, <1>2, UnfoldingIs
<1> HIDE DEF g, h
<1>5. n # 0 => g[n] = h[n]
  <2>1. n + 1 \in Nat /\ n <= n + 1
    BY <1>1
  <2>2. Alike(s, t, n)
    BY <1>1 DEF Alike
  <2>3. Alike(g, h, n)
    BY <1>1, <1>4, <2>1, <2>2, UnfoldSame
  <2> QED
    BY <1>1, <2>3 DEF Alike
<1>6. h[n + 1] = IF n + 1 = 1 THEN t[n + 1] ELSE h[(n + 1) - 1] \o t[n + 1]
  <2>1. n + 1 \in Nat /\ n + 1 \in 1 .. n + 1
    BY <1>1
  <2> QED
    BY <1>4, <2>1, UnfoldAt
<1>7. h[n + 1] = IF n = 0 THEN x ELSE g[n] \o x
  BY <1>1, <1>5, <1>6
<1> QED
  BY <1>2, <1>3, <1>7 DEF t

-----------------------------------------------------------------------------
\* The operators Min and Max of a set of numbers.
LEMMA MinIs ==
  ASSUME NEW S, S \subseteq Nat, S # {}
  PROVE  Min(S) \in S /\ \A n \in S : Min(S) <= n
BY Least DEF Min

LEMMA MaxIs ==
  ASSUME NEW b \in Nat, NEW S, S \subseteq 0 .. b, S # {}
  PROVE  Max(S) \in S /\ \A n \in S : n <= Max(S)
<1> DEFINE R == {b - n : n \in S}
<1>1. R \subseteq Nat /\ R # {}
  <2>1. \A n \in S : b - n \in Nat
    OBVIOUS
  <2> QED
    BY <2>1
<1>2. PICK m \in R : \A n \in R : m <= n
  BY <1>1, Least
<1>3. PICK k \in S : m = b - k
  BY <1>2
<1>4. \A n \in S : k >= n
  <2> TAKE n \in S
  <2>1. b - n \in R
    OBVIOUS
  <2>2. m <= b - n
    BY <1>2, <2>1
  <2> QED
    BY <1>3, <2>2
<1>5. \E x \in S : \A y \in S : x >= y
  BY <1>4
<1>6. Max(S) \in S /\ \A y \in S : Max(S) >= y
  BY <1>5 DEF Max
<1> QED
  BY <1>6

\* Position pos of a text is the first, or the last, with token t; 0 if there is none.
FirstAt(text, t, pos) ==
  \/ pos = 0 /\ \A i \in 1 .. Len(text) : text[i] # t
  \/ /\ pos \in 1 .. Len(text) /\ text[pos] = t
     /\ \A i \in 1 .. Len(text) : text[i] = t => pos <= i

LastAt(text, t, pos) ==
  \/ pos = 0 /\ \A i \in 1 .. Len(text) : text[i] # t
  \/ /\ pos \in 1 .. Len(text) /\ text[pos] = t
     /\ \A i \in 1 .. Len(text) : text[i] = t => i <= pos

\* SelectInSeq finds the first ...
LEMMA FindFirst ==
  ASSUME NEW text, Len(text) \in Nat, NEW key
  PROVE  FirstAt(text, key, SelectInSeq(text, LAMBDA t : t = key))
<1> DEFINE I == {i \in 1 .. Len(text) : text[i] = key}
<1>1. SelectInSeq(text, LAMBDA t : t = key) = IF I # {} THEN Min(I) ELSE 0
  BY DEF SelectInSeq
<1>2. CASE I = {}
  BY <1>1, <1>2 DEF FirstAt
<1>3. CASE I # {}
  <2>1. I \subseteq Nat
    OBVIOUS
  <2>2. Min(I) \in I /\ \A n \in I : Min(I) <= n
    BY <1>3, <2>1, MinIs
  <2> QED
    BY <1>1, <1>3, <2>2 DEF FirstAt
<1> QED
  BY <1>2, <1>3

\* ... and SelectLastInSeq the last.
LEMMA FindLast ==
  ASSUME NEW text, Len(text) \in Nat, NEW key
  PROVE  LastAt(text, key, SelectLastInSeq(text, LAMBDA t : t = key))
<1> DEFINE I == {i \in 1 .. Len(text) : text[i] = key}
<1>1. SelectLastInSeq(text, LAMBDA t : t = key) = IF I # {} THEN Max(I) ELSE 0
  BY DEF SelectLastInSeq
<1>2. CASE I = {}
  BY <1>1, <1>2 DEF LastAt
<1>3. CASE I # {}
  <2>1. I \subseteq 0 .. Len(text)
    OBVIOUS
  <2>2. Max(I) \in I /\ \A n \in I : n <= Max(I)
    BY <1>3, <2>1, MaxIs
  <2> QED
    BY <1>1, <1>3, <2>2 DEF LastAt
<1> QED
  BY <1>2, <1>3

\* A value of a line goes up to the line's end.
LEMMA ValueIs ==
  ASSUME NEW text, Len(text) \in Nat, NEW pos \in Nat, NEW end \in Nat,
         pos < end, end <= Len(text), text[end] = NL,
         \A i \in pos + 1 .. end - 1 : text[i] # NL
  PROVE  ValueAt(text, pos) = SubSeq(text, pos + 1, end - 1)
<1> DEFINE I == {i \in pos + 1 .. Len(text) : text[i] = NL}
<1>1. SelectInSubSeq(text, pos + 1, Len(text), LAMBDA t : t = NL) = IF I # {} THEN Min(I) ELSE 0
  BY DEF SelectInSubSeq
<1>2. I \subseteq Nat /\ end \in I
  OBVIOUS
<1>3. Min(I) \in I /\ \A n \in I : Min(I) <= n
  BY <1>2, MinIs
<1>4. Min(I) = end
  BY <1>2, <1>3
<1> QED
  BY <1>1, <1>2, <1>4 DEF ValueAt

\* The blanks at the end of a value are left out.
LEMMA TrimIs ==
  ASSUME NEW value, Len(value) \in Nat
  PROVE  \E n \in 0 .. Len(value) :
           /\ Trim(value) = SubSeq(value, 1, n)
           /\ n # 0 => value[n] # SP
           /\ \A i \in n + 1 .. Len(value) : value[i] = SP
<1> DEFINE I == {i \in 1 .. Len(value) : value[i] # SP}
           n == IF I # {} THEN Max(I) ELSE 0
<1>1. SelectLastInSeq(value, LAMBDA t : t # SP) = n
  BY DEF SelectLastInSeq
<1>2. I \subseteq 0 .. Len(value)
  OBVIOUS
<1>3. I # {} => Max(I) \in I /\ \A k \in I : k <= Max(I)
  BY <1>2, MaxIs
<1>4. n \in 0 .. Len(value) /\ (n # 0 => value[n] # SP)
  BY <1>3
<1>5. \A i \in n + 1 .. Len(value) : value[i] = SP
  <2> SUFFICES ASSUME NEW i \in n + 1 .. Len(value), value[i] # SP PROVE FALSE
    OBVIOUS
  <2>1. i \in I
    BY <1>4
  <2> QED
    BY <1>3, <1>4, <2>1
<1>6. Trim(value) = SubSeq(value, 1, n)
  BY <1>1 DEF Trim
<1> HIDE DEF n
<1> QED
  BY <1>4, <1>5, <1>6

-----------------------------------------------------------------------------
(* Where the lines are in the text. *)

\* The lines with their ends.
Ended(L) == [i \in DOMAIN L |-> Append(L[i], NL)]

Tokens == STRING \cup {NL}

\* Line i begins behind position off[i] and has an end ...
Placed(L, text, off) ==
  \A i \in DOMAIN L :
    /\ off[i] \in Nat /\ off[i] + Len(L[i]) + 1 <= Len(text)
    /\ \A j \in DOMAIN L[i] : text[off[i] + j] = L[i][j]
    /\ text[off[i] + Len(L[i]) + 1] = NL

\* ... and the next is behind it; every token but the ends is one of a line.
InOrder(L, off) == \A i, k \in DOMAIN L : i < k => off[i] + Len(L[i]) < off[k]

Covered(L, text, off) ==
  \A p \in 1 .. Len(text) :
    text[p] # NL => \E i \in DOMAIN L : \E j \in DOMAIN L[i] : p = off[i] + j

Layout(L, text, off) == Placed(L, text, off) /\ InOrder(L, off) /\ Covered(L, text, off)

\* What a line is.
LEMMA LineIs ==
  ASSUME NEW l \in Lines
  PROVE  /\ l \in Seq(Tokens) /\ Len(l) \in Nat /\ DOMAIN l = 1 .. Len(l)
         /\ \A i \in DOMAIN l : l[i] # NL
<1>1. l \in Seq(STRING) /\ \A i \in DOMAIN l : l[i] # NL
  BY HandshakeAssumption DEF NL
<1>2. l \in Seq(Tokens)
  BY <1>1 DEF Tokens
<1> QED
  BY <1>1, <1>2

LEMMA EndIs ==
  ASSUME NEW l \in Lines
  PROVE  Append(l, NL) \in Seq(Tokens)
<1>1. NL \in Tokens
  BY DEF Tokens
<1> QED
  BY <1>1, LineIs

LEMMA LinesAre ==
  ASSUME NEW L \in Seq(Lines)
  PROVE  /\ Len(L) \in Nat /\ DOMAIN L = 1 .. Len(L)
         /\ \A i \in DOMAIN L :
              /\ L[i] \in Lines /\ L[i] \in Seq(Tokens)
              /\ Len(L[i]) \in Nat /\ DOMAIN L[i] = 1 .. Len(L[i])
              /\ \A j \in DOMAIN L[i] : L[i][j] # NL
<1>1. Len(L) \in Nat /\ DOMAIN L = 1 .. Len(L) /\ \A i \in DOMAIN L : L[i] \in Lines
  OBVIOUS
<1> QED
  BY <1>1, LineIs

\* A line more.
LEMMA LayoutAppend ==
  ASSUME NEW L \in Seq(Lines), NEW l \in Lines, NEW text \in Seq(Tokens),
         NEW off, Layout(L, text, off)
  PROVE  LET more == [i \in 1 .. Len(L) + 1 |-> IF i = Len(L) + 1 THEN Len(text) ELSE off[i]]
         IN  Layout(Append(L, l), text \o Append(l, NL), more)
<1> DEFINE n == Len(L)
           K == Append(L, l)
           add == Append(l, NL)
           new == text \o add
           more == [i \in 1 .. Len(L) + 1 |-> IF i = Len(L) + 1 THEN Len(text) ELSE off[i]]
<1>1. /\ n \in Nat /\ DOMAIN L = 1 .. n /\ DOMAIN K = 1 .. n + 1 /\ n + 1 \in 1 .. n + 1
      /\ K[n + 1] = l /\ \A i \in 1 .. n : K[i] = L[i] /\ i \in 1 .. n + 1
  OBVIOUS
<1>2. /\ Len(l) \in Nat /\ DOMAIN l = 1 .. Len(l)
      /\ l \in Seq(Tokens)
  BY LineIs
<1>3. \A i \in 1 .. n : Len(L[i]) \in Nat /\ DOMAIN L[i] = 1 .. Len(L[i])
  BY <1>1, LinesAre
<1>4. add \in Seq(Tokens) /\ Len(add) = Len(l) + 1 /\ add[Len(l) + 1] = NL
      /\ \A j \in 1 .. Len(l) : add[j] = l[j]
  BY <1>2, EndIs
<1>5. Len(text) \in Nat /\ Len(new) = Len(text) + Len(l) + 1
  BY <1>2, <1>4
<1>6. /\ \A p \in 1 .. Len(text) : new[p] = text[p]
      /\ \A j \in 1 .. Len(l) + 1 : new[Len(text) + j] = add[j]
  BY <1>2, <1>4
<1>7. more[n + 1] = Len(text) /\ \A i \in 1 .. n : more[i] = off[i]
  BY <1>1
<1>8. /\ \A i \in 1 .. n :
           /\ off[i] \in Nat /\ off[i] + Len(L[i]) + 1 <= Len(text)
           /\ \A j \in DOMAIN L[i] : text[off[i] + j] = L[i][j]
           /\ text[off[i] + Len(L[i]) + 1] = NL
      /\ \A i, k \in 1 .. n : i < k => off[i] + Len(L[i]) < off[k]
      /\ \A p \in 1 .. Len(text) :
           text[p] # NL => \E i \in 1 .. n : \E j \in DOMAIN L[i] : p = off[i] + j
  BY <1>1 DEF Layout, Placed, InOrder, Covered
<1> HIDE DEF n, K, add, new, more
<1>9. ASSUME NEW i \in 1 .. n + 1
      PROVE  /\ more[i] \in Nat /\ more[i] + Len(K[i]) + 1 <= Len(new)
             /\ \A j \in DOMAIN K[i] : new[more[i] + j] = K[i][j]
             /\ new[more[i] + Len(K[i]) + 1] = NL
  <2>1. CASE i = n + 1
    <3>1. more[i] = Len(text) /\ K[i] = l
      BY <1>1, <1>7, <2>1
    <3>2. \A j \in 1 .. Len(l) : j \in 1 .. Len(l) + 1
      BY <1>2
    <3>3. Len(l) + 1 \in 1 .. Len(l) + 1
      BY <1>2
    <3>4. \A j \in DOMAIN K[i] : new[more[i] + j] = K[i][j]
      BY <1>2, <1>4, <1>6, <3>1, <3>2
    <3>5. new[Len(text) + (Len(l) + 1)] = NL
      BY <1>4, <1>6, <3>3
    <3>6. Len(text) + (Len(l) + 1) = more[i] + Len(K[i]) + 1
      BY <1>2, <1>5, <3>1
    <3> QED
      BY <1>2, <1>5, <3>1, <3>4, <3>5, <3>6
  <2>2. CASE i \in 1 .. n
    <3>1. more[i] = off[i] /\ K[i] = L[i]
      BY <1>1, <1>7, <2>2
    <3>2. /\ off[i] \in Nat /\ off[i] + Len(L[i]) + 1 <= Len(text)
          /\ \A j \in DOMAIN L[i] : text[off[i] + j] = L[i][j]
          /\ text[off[i] + Len(L[i]) + 1] = NL
      BY <1>8, <2>2
    <3>3. Len(L[i]) \in Nat /\ DOMAIN L[i] = 1 .. Len(L[i])
      BY <1>3, <2>2
    <3>4. \A j \in 1 .. Len(L[i]) + 1 : off[i] + j \in 1 .. Len(text)
      BY <1>5, <3>2, <3>3
    <3>5. \A j \in DOMAIN L[i] : new[off[i] + j] = L[i][j]
      <4> TAKE j \in DOMAIN L[i]
      <4>1. off[i] + j \in 1 .. Len(text)
        BY <3>3, <3>4
      <4> QED
        BY <1>6, <3>2, <4>1
    <3>6. new[off[i] + Len(L[i]) + 1] = NL
      <4>1. off[i] + Len(L[i]) + 1 \in 1 .. Len(text)
        BY <1>5, <3>2, <3>3
      <4> QED
        BY <1>6, <3>2, <4>1
    <3> QED
      BY <1>2, <1>5, <3>1, <3>2, <3>3, <3>5, <3>6
  <2> QED
    BY <1>1, <2>1, <2>2
<1>10. ASSUME NEW i \in 1 .. n + 1, NEW k \in 1 .. n + 1, i < k
       PROVE  more[i] + Len(K[i]) < more[k]
  <2>1. i \in 1 .. n /\ more[i] = off[i] /\ K[i] = L[i]
    BY <1>1, <1>7, <1>10
  <2>2. CASE k = n + 1
    BY <1>1, <1>3, <1>5, <1>7, <1>8, <2>1, <2>2
  <2>3. CASE k \in 1 .. n
    BY <1>7, <1>8, <1>10, <2>1, <2>3
  <2> QED
    BY <1>1, <2>2, <2>3
<1>11. ASSUME NEW p \in 1 .. Len(new), new[p] # NL
       PROVE  \E i \in 1 .. n + 1 : \E j \in DOMAIN K[i] : p = more[i] + j
  <2>1. CASE p \in 1 .. Len(text)
    <3>1. PICK i \in 1 .. n : \E j \in DOMAIN L[i] : p = off[i] + j
      BY <1>6, <1>8, <1>11, <2>1
    <3> QED
      BY <1>1, <1>7, <3>1
  <2>2. CASE p \notin 1 .. Len(text)
    <3> DEFINE j == p - Len(text)
    <3>1. j \in 1 .. Len(l) + 1 /\ p = Len(text) + j
      BY <1>2, <1>5, <2>2
    <3>2. j # Len(l) + 1
      BY <1>4, <1>6, <1>11, <3>1
    <3>3. j \in DOMAIN K[n + 1]
      BY <1>1, <1>2, <3>1, <3>2
    <3> QED
      BY <1>1, <1>7, <3>1, <3>3
  <2> QED
    BY <2>1, <2>2
<1>12. DOMAIN K = 1 .. n + 1
  BY <1>1
<1>13. Placed(K, new, more)
  BY <1>9, <1>12 DEF Placed
<1>14. InOrder(K, more)
  BY <1>10, <1>12 DEF InOrder
<1>15. Covered(K, new, more)
  BY <1>11, <1>12 DEF Covered
<1>16. Layout(K, new, more)
  BY <1>13, <1>14, <1>15 DEF Layout
<1> QED
  BY <1>16 DEF K, new, add, more

\* The text of any lines.
LEMMA TextHasLayout ==
  ASSUME NEW L \in Seq(Lines)
  PROVE  FlattenSeq(Ended(L)) \in Seq(Tokens) /\ \E off : Layout(L, FlattenSeq(Ended(L)), off)
<1> DEFINE Good(K) == /\ FlattenSeq(Ended(K)) \in Seq(Tokens)
                      /\ \E off : Layout(K, FlattenSeq(Ended(K)), off)
           T == {n \in Nat : \A K \in Seq(Lines) : Len(K) = n => Good(K)}
<1>1. 0 \in T
  <2> SUFFICES ASSUME NEW K \in Seq(Lines), Len(K) = 0 PROVE Good(K)
    OBVIOUS
  <2>1. Ended(K) = <<>>
    BY DEF Ended
  <2>2. FlattenSeq(Ended(K)) = <<>>
    BY <2>1 DEF FlattenSeq
  <2>3. Layout(K, <<>>, <<>>)
    BY DEF Layout, Placed, InOrder, Covered
  <2> QED
    BY <2>2, <2>3
<1>2. ASSUME NEW n \in Nat, n \in T PROVE n + 1 \in T
  <2> SUFFICES ASSUME NEW K \in Seq(Lines), Len(K) = n + 1 PROVE Good(K)
    OBVIOUS
  <2> DEFINE F == SubSeq(K, 1, n)
             l == K[n + 1]
  <2>1. F \in Seq(Lines) /\ Len(F) = n /\ l \in Lines /\ K = Append(F, l)
    OBVIOUS
  <2>2. Good(F)
    BY <1>2, <2>1
  <2> HIDE DEF F, l
  <2>3. Ended(F) \in Seq(Seq(Tokens)) /\ Len(Ended(F)) = n
        /\ Append(l, NL) \in Seq(Tokens)
    <3>1. \A i \in 1 .. n : F[i] \in Lines /\ Append(F[i], NL) \in Seq(Tokens)
      BY <2>1, EndIs
    <3>2. DOMAIN F = 1 .. n
      BY <2>1
    <3>3. Append(l, NL) \in Seq(Tokens)
      BY <2>1, EndIs
    <3> QED
      BY <3>1, <3>2, <3>3 DEF Ended
  <2>4. Ended(K) = Append(Ended(F), Append(l, NL))
    <3>1. DOMAIN F = 1 .. n /\ DOMAIN K = 1 .. n + 1 /\ K[n + 1] = l
          /\ \A i \in 1 .. n : K[i] = F[i]
      BY <2>1
    <3>2. /\ Append(Ended(F), Append(l, NL)) \in Seq(Seq(Tokens))
          /\ DOMAIN Append(Ended(F), Append(l, NL)) = 1 .. n + 1
          /\ Append(Ended(F), Append(l, NL))[n + 1] = Append(l, NL)
          /\ \A i \in 1 .. n : Append(Ended(F), Append(l, NL))[i] = Ended(F)[i]
      BY <2>3
    <3>3. \A i \in 1 .. n : Ended(F)[i] = Append(F[i], NL)
      BY <3>1 DEF Ended
    <3>4. /\ DOMAIN Ended(K) = 1 .. n + 1
          /\ \A i \in 1 .. n + 1 : Ended(K)[i] = Append(K[i], NL)
          /\ Ended(K) \in [1 .. n + 1 -> Seq(Tokens)]
      <4>1. \A i \in 1 .. n + 1 : Append(K[i], NL) \in Seq(Tokens)
        BY EndIs
      <4> QED
        BY <3>1, <4>1 DEF Ended
    <3>5. ASSUME NEW i \in 1 .. n + 1
          PROVE  Ended(K)[i] = Append(Ended(F), Append(l, NL))[i]
      <4>1. Ended(K)[i] = Append(K[i], NL)
        BY <3>4
      <4>2. CASE i = n + 1
        BY <3>1, <3>2, <4>1, <4>2
      <4>3. CASE i \in 1 .. n
        BY <3>1, <3>2, <3>3, <4>1, <4>3
      <4>4. i = n + 1 \/ i \in 1 .. n
        BY <1>2
      <4> QED
        BY Zenon, <4>2, <4>3, <4>4
    <3>6. Append(Ended(F), Append(l, NL)) \in [1 .. n + 1 -> Seq(Tokens)]
      <4> DEFINE A == Append(Ended(F), Append(l, NL))
      <4>1. A \in Seq(Seq(Tokens)) /\ Len(A) = n + 1
        BY <2>3
      <4> HIDE DEF A
      <4>2. A \in [1 .. n + 1 -> Seq(Tokens)]
        BY <4>1
      <4> QED
        BY <4>2 DEF A
    <3> QED
      BY <3>4, <3>5, <3>6
  <2>5. FlattenSeq(Ended(K)) = FlattenSeq(Ended(F)) \o Append(l, NL)
    <3>1. FlattenSeq(Ended(K)) = IF n = 0 THEN Append(l, NL)
                                 ELSE FlattenSeq(Ended(F)) \o Append(l, NL)
      BY <2>3, <2>4, FlattenAppend
    <3>2. n = 0 => FlattenSeq(Ended(F)) = <<>>
      <4>1. n = 0 => Ended(F) = <<>>
        BY <2>3
      <4> QED
        BY <4>1 DEF FlattenSeq
    <3>3. <<>> \o Append(l, NL) = Append(l, NL)
      BY <2>3
    <3> QED
      BY <3>1, <3>2, <3>3
  <2>6. FlattenSeq(Ended(K)) \in Seq(Tokens)
    BY <2>2, <2>3, <2>5
  <2>7. PICK off : Layout(F, FlattenSeq(Ended(F)), off)
    BY <2>2
  <2>8. \E more : Layout(K, FlattenSeq(Ended(K)), more)
    BY <2>1, <2>2, <2>5, <2>7, LayoutAppend
  <2> QED
    BY <2>6, <2>8
<1> HIDE DEF T
<1>3. \A n \in Nat : n \in T
  BY <1>1, <1>2, Induction
<1> QED
  <2>1. Len(L) \in Nat
    OBVIOUS
  <2> QED
    BY <1>3, <2>1 DEF T

\* The text of a header: the empty line at its end is no line of the layout.
LEMMA MessageHasLayout ==
  ASSUME lines \in Seq(Lines)
  PROVE  message \in Seq(Tokens) /\ \E off : Layout(lines, message, off)
<1> DEFINE text == FlattenSeq(Ended(lines))
<1>1. text \in Seq(Tokens)
  BY TextHasLayout
<1>2. PICK off : Layout(lines, text, off)
  BY TextHasLayout
<1>3. message = text \o <<NL>>
  BY DEF message, Ended
<1> HIDE DEF text
<1>4. <<NL>> \in Seq(Tokens)
  BY DEF Tokens
<1>5. message \in Seq(Tokens)
  BY <1>1, <1>3, <1>4
<1>6. /\ Len(text) \in Nat /\ Len(message) = Len(text) + 1 /\ message[Len(text) + 1] = NL
      /\ \A p \in 1 .. Len(text) : message[p] = text[p]
  BY <1>1, <1>3, <1>4
<1>7. Placed(lines, message, off)
  <2> SUFFICES ASSUME NEW i \in DOMAIN lines
               PROVE  /\ off[i] \in Nat /\ off[i] + Len(lines[i]) + 1 <= Len(message)
                      /\ \A j \in DOMAIN lines[i] : message[off[i] + j] = lines[i][j]
                      /\ message[off[i] + Len(lines[i]) + 1] = NL
    BY DEF Placed
  <2>1. /\ off[i] \in Nat /\ off[i] + Len(lines[i]) + 1 <= Len(text)
        /\ \A j \in DOMAIN lines[i] : text[off[i] + j] = lines[i][j]
        /\ text[off[i] + Len(lines[i]) + 1] = NL
    BY <1>2 DEF Layout, Placed
  <2>2. Len(lines[i]) \in Nat /\ DOMAIN lines[i] = 1 .. Len(lines[i])
    BY LinesAre
  <2>3. \A j \in 1 .. Len(lines[i]) + 1 : off[i] + j \in 1 .. Len(text)
    BY <1>6, <2>1, <2>2
  <2>4. ASSUME NEW j \in DOMAIN lines[i] PROVE message[off[i] + j] = lines[i][j]
    <3>1. off[i] + j \in 1 .. Len(text)
      BY <2>2, <2>3
    <3> QED
      BY <1>6, <2>1, <3>1
  <2>5. message[off[i] + Len(lines[i]) + 1] = NL
    <3>1. off[i] + Len(lines[i]) + 1 \in 1 .. Len(text)
      BY <1>6, <2>1, <2>2
    <3> QED
      BY <1>6, <2>1, <3>1
  <2> QED
    BY <1>6, <2>1, <2>2, <2>4, <2>5
<1>8. Covered(lines, message, off)
  <2> SUFFICES ASSUME NEW p \in 1 .. Len(message), message[p] # NL
               PROVE  \E i \in DOMAIN lines : \E j \in DOMAIN lines[i] : p = off[i] + j
    BY DEF Covered
  <2>1. p \in 1 .. Len(text) /\ text[p] # NL
    BY <1>6
  <2> QED
    BY <1>2, <2>1 DEF Layout, Covered
<1>9. Layout(lines, message, off)
  BY <1>2, <1>7, <1>8 DEF Layout
<1> QED
  BY <1>5, <1>9

\* A part of a sequence.
LEMMA PartIs ==
  ASSUME NEW S, NEW s \in Seq(S), NEW a \in Nat, NEW d \in Nat, a + d <= Len(s)
  PROVE  LET w == SubSeq(s, a + 1, a + d)
         IN  w \in Seq(S) /\ Len(w) = d /\ \A k \in 1 .. d : w[k] = s[a + k]
<1> DEFINE w == SubSeq(s, a + 1, a + d)
<1>1. w \in Seq(S)
  OBVIOUS
<1>2. Len(w) = d
  OBVIOUS
<1>3. \A k \in 1 .. d : w[k] = s[a + k]
  <2> TAKE k \in 1 .. d
  <2>1. w[k] = s[(a + 1) + k - 1]
    OBVIOUS
  <2>2. (a + 1) + k - 1 = a + k
    OBVIOUS
  <2> QED
    BY <2>1, <2>2
<1> QED
  BY <1>1, <1>2, <1>3

\* Every line can be read at its place: a value begins and ends in the line of its key.
Readable(L, text, off) ==
  \A i \in DOMAIN L :
    \A j \in DOMAIN L[i] :
      /\ off[i] \in Nat /\ off[i] + j \in 1 .. Len(text) /\ text[off[i] + j] = L[i][j]
      /\ ValueAt(text, off[i] + j) = SubSeq(L[i], j + 1, Len(L[i]))

LEMMA LayoutIsReadable ==
  ASSUME NEW L \in Seq(Lines), NEW text \in Seq(Tokens), NEW off, Layout(L, text, off)
  PROVE  Readable(L, text, off)
<1> SUFFICES ASSUME NEW i \in DOMAIN L, NEW j \in DOMAIN L[i]
             PROVE  /\ off[i] \in Nat /\ off[i] + j \in 1 .. Len(text)
                    /\ text[off[i] + j] = L[i][j]
                    /\ ValueAt(text, off[i] + j) = SubSeq(L[i], j + 1, Len(L[i]))
  BY DEF Readable
<1> DEFINE l == L[i]
           n == Len(l)
           pos == off[i] + j
           end == off[i] + n + 1
<1>1. l \in Seq(Tokens) /\ n \in Nat /\ j \in 1 .. n /\ DOMAIN l = 1 .. n
      /\ \A k \in 1 .. n : l[k] # NL
  BY LinesAre
<1>2. /\ off[i] \in Nat /\ end <= Len(text) /\ text[end] = NL
      /\ \A k \in 1 .. n : text[off[i] + k] = l[k]
  BY <1>1 DEF Layout, Placed
<1>3. Len(text) \in Nat
  OBVIOUS
<1>4. pos \in Nat /\ end \in Nat /\ pos < end /\ pos \in 1 .. Len(text)
      /\ end = pos + (n - j) + 1 /\ n - j \in Nat
  <2>1. j \in Nat /\ 1 <= j /\ j <= n /\ n \in Nat
    BY <1>1
  <2>2. off[i] \in Nat /\ off[i] + n + 1 <= Len(text) /\ Len(text) \in Nat
    BY <1>2, <1>3
  <2> QED
    BY <2>1, <2>2
<1>5. text[pos] = l[j]
  BY <1>1, <1>2
<1>6. ASSUME NEW p \in pos + 1 .. end - 1
      PROVE  p - off[i] \in 1 .. n /\ text[p] = l[p - off[i]] /\ text[p] # NL
  <2>1. p - off[i] \in 1 .. n /\ p = off[i] + (p - off[i])
    <3>1. j \in Nat /\ 1 <= j /\ n \in Nat /\ off[i] \in Nat /\ p \in Nat
          /\ off[i] + j + 1 <= p /\ p <= off[i] + n
      BY <1>1, <1>2
    <3> QED
      BY <3>1
  <2> QED
    BY <1>1, <1>2, <2>1
<1>7. ValueAt(text, pos) = SubSeq(text, pos + 1, end - 1)
  BY <1>2, <1>3, <1>4, <1>6, ValueIs
<1>8. SubSeq(text, pos + 1, end - 1) = SubSeq(l, j + 1, n)
  <2> DEFINE u == SubSeq(text, pos + 1, end - 1)
             v == SubSeq(l, j + 1, n)
  <2>1. u \in Seq(Tokens) /\ Len(u) = n - j /\ \A k \in 1 .. n - j : u[k] = text[pos + k]
    <3> HIDE DEF pos, end, l, n
    <3> DEFINE d == n - j
    <3>1. d \in Nat /\ end - 1 = pos + d /\ pos + d <= Len(text)
      BY <1>2, <1>3, <1>4
    <3> HIDE DEF d
    <3>2. LET w == SubSeq(text, pos + 1, pos + d)
          IN  w \in Seq(Tokens) /\ Len(w) = d /\ \A k \in 1 .. d : w[k] = text[pos + k]
      BY <1>3, <1>4, <3>1, PartIs
    <3> QED
      BY <3>1, <3>2 DEF d
  <2>2. v \in Seq(Tokens) /\ Len(v) = n - j /\ \A k \in 1 .. n - j : v[k] = l[j + k]
    <3> HIDE DEF l, n
    <3> DEFINE d == n - j
    <3>1. d \in Nat /\ j \in Nat /\ n = j + d
      BY <1>1
    <3>2. n = Len(l)
      BY DEF n
    <3> HIDE DEF d
    <3>4. l \in Seq(Tokens) /\ j + d <= Len(l)
      BY <1>1, <3>1, <3>2
    <3>3. LET w == SubSeq(l, j + 1, j + d)
          IN  w \in Seq(Tokens) /\ Len(w) = d /\ \A k \in 1 .. d : w[k] = l[j + k]
      BY <3>1, <3>4, PartIs
    <3> QED
      BY <3>1, <3>3 DEF d
  <2>3. \A k \in 1 .. n - j : u[k] = v[k]
    <3> TAKE k \in 1 .. n - j
    <3>1. pos + k \in pos + 1 .. end - 1 /\ (pos + k) - off[i] = j + k
      <4>1. k \in Nat /\ 1 <= k /\ k <= n - j /\ n \in Nat /\ j \in Nat /\ off[i] \in Nat
        BY <1>1, <1>2
      <4> QED
        BY <4>1
    <3>2. text[pos + k] = l[j + k]
      BY <1>6, <3>1
    <3> QED
      BY <2>1, <2>2, <3>2
  <2> HIDE DEF u, v
  <2>4. u = v
    BY <1>1, <2>1, <2>2, <2>3
  <2> QED
    BY <2>4 DEF u, v
<1> QED
  BY <1>2, <1>4, <1>5, <1>7, <1>8

\* So a header can be read in its text.
LEMMA HeaderIsReadable ==
  ASSUME lines \in Seq(Lines)
  PROVE  /\ message \in Seq(Tokens) /\ Len(message) \in Nat
         /\ DOMAIN message = 1 .. Len(message)
         /\ \E off : Layout(lines, message, off) /\ Readable(lines, message, off)
<1>1. message \in Seq(Tokens)
  BY MessageHasLayout
<1>2. PICK off : Layout(lines, message, off)
  BY MessageHasLayout
<1>3. Readable(lines, message, off)
  BY <1>1, <1>2, LayoutIsReadable
<1> QED
  BY <1>1, <1>2, <1>3

\* A token of the text is one of a line, unless it is the end of one.
LEMMA LineOfPosition ==
  ASSUME NEW L \in Seq(Lines), NEW text \in Seq(Tokens), NEW off, Layout(L, text, off),
         NEW pos \in 1 .. Len(text), text[pos] # NL
  PROVE  \E i \in DOMAIN L : \E j \in DOMAIN L[i] : pos = off[i] + j /\ L[i][j] = text[pos]
<1>1. PICK i \in DOMAIN L : \E j \in DOMAIN L[i] : pos = off[i] + j
  BY DEF Layout, Covered
<1>2. PICK j \in DOMAIN L[i] : pos = off[i] + j
  BY <1>1
<1>3. text[off[i] + j] = L[i][j]
  BY LayoutIsReadable DEF Readable
<1> QED
  BY <1>2, <1>3

\* Keys are neither line ends nor blanks.
LEMMA KeyIs == \A key \in Keys : key # NL /\ key # SP
BY DEF Keys, AGENT, SIZE, RAW, LOGIN, NL, SP

\* Trimming the rest of a line, which begins behind a key.
LEMMA TrimRest ==
  ASSUME NEW l \in Seq(Tokens), NEW k \in 1 .. Len(l), l[k] # SP
  PROVE  LET last == Max({0} \cup {j \in DOMAIN l : l[j] # SP})
         IN  Trim(SubSeq(l, k + 1, Len(l))) = SubSeq(l, k + 1, last)
<1> DEFINE value == SubSeq(l, k + 1, Len(l))
           words == {0} \cup {j \in DOMAIN l : l[j] # SP}
           last == Max(words)
<1>0. Len(l) \in Nat /\ DOMAIN l = 1 .. Len(l)
  OBVIOUS
<1>1. /\ value \in Seq(Tokens) /\ Len(value) = Len(l) - k
      /\ \A i \in 1 .. Len(l) - k : value[i] = l[k + i]
  BY <1>0
<1> HIDE DEF value
<1>11. Len(value) \in Nat
  BY <1>0, <1>1
<1>2. PICK n \in 0 .. Len(value) :
        /\ Trim(value) = SubSeq(value, 1, n)
        /\ n # 0 => value[n] # SP
        /\ \A i \in n + 1 .. Len(value) : value[i] = SP
  BY <1>11, TrimIs
<1>12. n \in Nat
  BY <1>11
<1>3. words \subseteq 0 .. Len(l) /\ k \in words
  BY <1>0
<1>4. last \in words /\ \A j \in words : j <= last
  BY <1>0, <1>3, MaxIs
<1>5. k + n \in words
  <2>1. CASE n = 0
    BY <1>3, <2>1
  <2>2. CASE n # 0
    <3>1. n \in 1 .. Len(l) - k /\ k + n \in 1 .. Len(l)
      BY <1>0, <1>1, <2>2
    <3> QED
      BY <1>0, <1>1, <1>2, <2>2, <3>1
  <2> QED
    BY <2>1, <2>2
<1>6. last <= k + n
  <2> SUFFICES ASSUME last > k + n PROVE FALSE
    BY <1>0, <1>1, <1>3, <1>4
  <2>1. last \in 1 .. Len(l) /\ l[last] # SP /\ last - k \in n + 1 .. Len(value)
        /\ last - k \in 1 .. Len(l) - k /\ k + (last - k) = last
    BY <1>0, <1>1, <1>3, <1>4
  <2>2. value[last - k] = l[last]
    BY <1>1, <2>1
  <2> QED
    BY <1>2, <2>1, <2>2
<1>7. last = k + n
  BY <1>0, <1>1, <1>3, <1>4, <1>5, <1>6
<1> HIDE DEF last
<1>8. SubSeq(value, 1, n) = SubSeq(l, k + 1, last)
  <2> DEFINE u == SubSeq(value, 1, n)
             v == SubSeq(l, k + 1, last)
  <2>1. u \in Seq(Tokens) /\ Len(u) = n /\ \A i \in 1 .. n : u[i] = l[k + i]
    BY <1>0, <1>1
  <2>2. v \in Seq(Tokens) /\ Len(v) = n /\ \A i \in 1 .. n : v[i] = l[k + i]
    BY <1>0, <1>1, <1>7
  <2> HIDE DEF u, v
  <2>3. u = v
    BY <1>12, <2>1, <2>2
  <2> QED
    BY <2>3 DEF u, v
<1> QED
  BY <1>2, <1>8 DEF value, last

\* What fill_up_field finds in any header.
LEMMA FieldIsLineField ==
  ASSUME lines \in Seq(Lines), NEW key \in Keys
  PROVE  fill_up_field(message, key) = LineField(key)
<1> DEFINE pos == SelectInSeq(message, LAMBDA t : t = key)
           with == {i \in DOMAIN lines : \E j \in DOMAIN lines[i] : lines[i][j] = key}
           m == Min(with)
           line == lines[m]
           here == {j \in DOMAIN line : line[j] = key}
           key1 == Min(here)
           last == Max({0} \cup {j \in DOMAIN line : line[j] # SP})
<1>1. message \in Seq(Tokens) /\ Len(message) \in Nat
  BY HeaderIsReadable
<1>2. PICK off : Layout(lines, message, off) /\ Readable(lines, message, off)
  BY HeaderIsReadable
<1>3. key # NL /\ key # SP
  BY KeyIs
<1>4. FirstAt(message, key, pos)
  BY <1>1, FindFirst DEF SelectInSeq
<1>5. fill_up_field(message, key) = IF pos = 0 THEN <<>> ELSE Trim(ValueAt(message, pos))
  BY DEF fill_up_field
<1>6. LineField(key) = IF with = {} THEN <<>> ELSE SubSeq(line, key1 + 1, last)
  BY DEF LineField
<1> HIDE DEF pos, last
<1>7. ASSUME pos # 0
      PROVE  \E i \in with : \E j \in DOMAIN lines[i] : pos = off[i] + j /\ lines[i][j] = key
  <2>1. pos \in 1 .. Len(message) /\ message[pos] = key
    BY <1>4, <1>7 DEF FirstAt
  <2>2. PICK i \in DOMAIN lines : \E j \in DOMAIN lines[i] : pos = off[i] + j /\ lines[i][j] = key
    BY <1>1, <1>2, <1>3, <2>1, LineOfPosition
  <2> QED
    BY <2>2
<1>8. CASE with = {}
  BY <1>5, <1>6, <1>7, <1>8
<1>9. CASE with # {}
  <2>1. with \subseteq Nat
    BY LinesAre
  <2>2. m \in with /\ \A i \in with : m <= i
    BY <1>9, <2>1, MinIs
  <2>3. /\ m \in DOMAIN lines /\ line \in Seq(Tokens)
        /\ Len(line) \in Nat /\ DOMAIN line = 1 .. Len(line) /\ here # {}
    BY <2>2, LinesAre
  <2>4. here \subseteq Nat
    BY <2>3
  <2>5. key1 \in here /\ \A j \in here : key1 <= j
    BY <2>3, <2>4, MinIs
  <2>6. key1 \in 1 .. Len(line) /\ line[key1] = key
    BY <2>3, <2>5
  <2> HIDE DEF m, key1
  <2>7. off[m] \in Nat /\ off[m] + key1 \in 1 .. Len(message) /\ message[off[m] + key1] = key
        /\ ValueAt(message, off[m] + key1) = SubSeq(line, key1 + 1, Len(line))
    <3>1. m \in DOMAIN lines /\ key1 \in DOMAIN lines[m] /\ lines[m][key1] = key
      BY <2>3, <2>6
    <3>2. /\ off[m] \in Nat /\ off[m] + key1 \in 1 .. Len(message)
          /\ message[off[m] + key1] = lines[m][key1]
          /\ ValueAt(message, off[m] + key1) = SubSeq(lines[m], key1 + 1, Len(lines[m]))
      BY <1>2, <3>1 DEF Readable
    <3> QED
      BY <3>1, <3>2
  <2>8. pos # 0 /\ pos <= off[m] + key1
    BY <1>4, <2>7 DEF FirstAt
  <2>9. PICK i \in with : \E j \in DOMAIN lines[i] : pos = off[i] + j /\ lines[i][j] = key
    BY <1>7, <2>8
  <2>10. PICK j \in DOMAIN lines[i] : pos = off[i] + j /\ lines[i][j] = key
    BY <2>9
  <2>11. j \in Nat /\ m \in Nat /\ i \in Nat /\ off[i] \in Nat
    <3>1. i \in DOMAIN lines /\ m \in DOMAIN lines
      BY <2>3
    <3>2. off[i] \in Nat
      BY <1>2, <2>10, <3>1 DEF Readable
    <3> QED
      BY <2>10, <3>1, <3>2, LinesAre
  <2>12. i = m
    <3>1. m <= i
      BY <2>2
    <3>2. m < i => off[m] + Len(line) < off[i]
      BY <1>2, <2>3 DEF Layout, InOrder
    <3>3. key1 <= Len(line) /\ key1 \in Nat /\ Len(line) \in Nat /\ off[m] \in Nat
      BY <2>3, <2>6, <2>7
    <3>4. ~(m < i)
      <4> SUFFICES ASSUME m < i PROVE FALSE
        OBVIOUS
      <4>1. off[m] + Len(line) < off[i]
        BY <3>2
      <4>2. off[i] + j <= off[m] + key1
        BY <2>8, <2>10
      <4> QED
        BY <2>11, <3>3, <4>1, <4>2
    <3> QED
      BY <2>11, <3>1, <3>4
  <2>13. pos = off[m] + key1
    <3>1. j \in here
      BY <2>10, <2>12
    <3>2. key1 <= j
      BY <2>5, <3>1
    <3>3. off[m] + j <= off[m] + key1 /\ pos = off[m] + j
      BY <2>8, <2>10, <2>12
    <3>4. key1 \in Nat /\ off[m] \in Nat
      BY <2>6, <2>7
    <3> QED
      BY <2>11, <3>2, <3>3, <3>4
  <2>14. Trim(SubSeq(line, key1 + 1, Len(line))) = SubSeq(line, key1 + 1, last)
    BY <1>3, <2>3, <2>6, TrimRest DEF last
  <2> QED
    BY <1>5, <1>6, <1>9, <2>7, <2>8, <2>13, <2>14
<1> QED
  BY <1>8, <1>9

-----------------------------------------------------------------------------
(* The tables. *)

\* The names that are known are each the name of its own handler.
LEMMA TablesAgree ==
  /\ DOMAIN agents = {"unknown", "web_client", "desktop_app", "mobile_app", "custom_client"}
  /\ \A v \in DOMAIN agents :
       /\ agents[v] \in DOMAIN protocols /\ protocols[agents[v]] = v
       /\ agents[v] = "Unknown" <=> v = "unknown"
<1>1. /\ DOMAIN agents = {"unknown", "web_client", "desktop_app", "mobile_app", "custom_client"}
      /\ agents["unknown"] = "Unknown" /\ agents["web_client"] = "KuroWeb"
      /\ agents["desktop_app"] = "KuroDesktop" /\ agents["mobile_app"] = "KuroMobile"
      /\ agents["custom_client"] = "CustomClient"
  BY DEF agents
<1>2. /\ DOMAIN protocols = {"Unknown", "KuroWeb", "KuroDesktop", "KuroMobile", "CustomClient"}
      /\ protocols["Unknown"] = "unknown" /\ protocols["KuroWeb"] = "web_client"
      /\ protocols["KuroDesktop"] = "desktop_app" /\ protocols["KuroMobile"] = "mobile_app"
      /\ protocols["CustomClient"] = "custom_client"
  BY DEF protocols
<1> QED
  BY <1>1, <1>2

\* A known agent is what stands behind the last AGENT_TYPE, up to the line's end.
LEMMA AgentIs ==
  ASSUME NEW text, Len(text) \in Nat, get_agent(text) # "Unknown"
  PROVE  LET pos == SelectLastInSeq(text, LAMBDA t : t = AGENT)
         IN  /\ pos \in 1 .. Len(text) /\ text[pos] = AGENT
             /\ \A i \in 1 .. Len(text) : text[i] = AGENT => i <= pos
             /\ \E v \in DOMAIN agents \ {"unknown"} :
                  /\ Len(ValueAt(text, pos)) = 1 /\ ValueAt(text, pos)[1] = v
                  /\ get_agent(text) = agents[v] /\ eponymous_protocol(get_agent(text)) = v
<1> DEFINE pos == SelectLastInSeq(text, LAMBDA t : t = AGENT)
<1>1. LastAt(text, AGENT, pos)
  BY FindLast DEF SelectLastInSeq
<1>2. get_agent(text) = IF pos = 0 THEN "Unknown" ELSE agent_selecter(ValueAt(text, pos))
  BY DEF get_agent
<1> HIDE DEF pos
<1> DEFINE value == ValueAt(text, pos)
           v == value[1]
<1>3. pos # 0 /\ agent_selecter(value) # "Unknown"
  BY <1>2
<1> HIDE DEF value
<1>4. Len(value) = 1 /\ v \in DOMAIN agents /\ agent_selecter(value) = agents[v]
  BY <1>3 DEF agent_selecter
<1>5. v # "unknown" /\ eponymous_protocol(agents[v]) = v
  BY <1>3, <1>4, TablesAgree DEF eponymous_protocol
<1>6. get_agent(text) = agents[v]
  BY <1>2, <1>3, <1>4 DEF value
<1>7. /\ pos \in 1 .. Len(text) /\ text[pos] = AGENT
      /\ \A i \in 1 .. Len(text) : text[i] = AGENT => i <= pos
  BY <1>1, <1>3 DEF LastAt
<1>8. \E w \in DOMAIN agents \ {"unknown"} :
        /\ Len(value) = 1 /\ value[1] = w
        /\ get_agent(text) = agents[w] /\ eponymous_protocol(get_agent(text)) = w
  BY <1>4, <1>5, <1>6
<1> QED
  BY <1>7, <1>8 DEF pos, value

-----------------------------------------------------------------------------
(* The handler's ways out. *)

\* What each of them means for the text, and for the client it leaves.
Exits(how, text, left) ==
  /\ how \in Outcomes
  /\ how \notin {"auto_approve", "wait"} => left = [login |-> <<>>, agent_type |-> ""]
  /\ how = "invalid_format" => ~valid_request(text)
  /\ how \notin {"none", "invalid_format"} => valid_request(text)
  /\ how = "invalid_agent" => get_agent(text) = "Unknown"
  /\ how \in {"exception", "auto_approve", "wait"} => get_agent(text) # "Unknown"
  /\ how = "exception" => fill_up_field(text, LOGIN) = <<>>
  /\ how \in {"auto_approve", "wait"} =>
       /\ fill_up_field(text, LOGIN) # <<>>
       /\ left = [login |-> fill_up_field(text, LOGIN),
                  agent_type |-> eponymous_protocol(get_agent(text))]
       /\ how = "auto_approve" <=> \E i \in DOMAIN text : text[i] \in AutoWords

HandshakeInv ==
  /\ lines \in Seq(Lines) /\ Len(lines) <= MaxLines
  /\ Exits(outcome, message, client)

\* The invariant holds at the start ...
LEMMA InitInv == Init => HandshakeInv
<1> SUFFICES ASSUME Init PROVE HandshakeInv
  OBVIOUS
<1>1. lines \in Seq(Lines) /\ Len(lines) <= MaxLines
  <2>1. lines = <<>>
    BY DEF Init
  <2>2. MaxLines \in Nat
    BY HandshakeAssumption
  <2> QED
    BY <2>1, <2>2
<1>2. Exits(outcome, message, client)
  BY DEF Init, Exits, Outcomes
<1> QED
  BY <1>1, <1>2 DEF HandshakeInv

\* ... and every way out, and every line, keeps it.
LEMMA NextInv == HandshakeInv /\ [Next]_vars => HandshakeInv'
<1> SUFFICES ASSUME HandshakeInv, [Next]_vars PROVE HandshakeInv'
  OBVIOUS
<1>1. lines \in Seq(Lines) /\ Len(lines) <= MaxLines /\ Exits(outcome, message, client)
  BY DEF HandshakeInv
<1>2. lines' = lines => message' = message
  BY DEF message
<1>3. SUFFICES /\ lines' \in Seq(Lines) /\ Len(lines') <= MaxLines
               /\ Exits(outcome', message', client')
  BY DEF HandshakeInv
<1>4. CASE PeerSendsLine
  <2>1. lines' \in Seq(Lines) /\ Len(lines') <= MaxLines
    BY <1>1, <1>4, HandshakeAssumption DEF PeerSendsLine
  <2>2. outcome' = "none" /\ client' = client /\ client = [login |-> <<>>, agent_type |-> ""]
    BY <1>1, <1>4 DEF PeerSendsLine, Exits
  <2>3. Exits(outcome', message', client')
    BY <2>2 DEF Exits, Outcomes
  <2> QED
    BY <2>1, <2>3
<1>5. CASE RefuseFormat
  <2>1. /\ outcome' = "invalid_format" /\ lines' = lines /\ client' = client
        /\ ~valid_request(message) /\ outcome = "none"
    BY <1>5 DEF RefuseFormat, Leave
  <2>2. Exits(outcome', message', client')
    BY <1>1, <1>2, <2>1 DEF Exits, Outcomes
  <2> QED
    BY <1>1, <2>1, <2>2
<1>6. CASE RefuseAgent
  <2>1. /\ outcome' = "invalid_agent" /\ lines' = lines /\ client' = client /\ outcome = "none"
        /\ valid_request(message) /\ get_agent(message) = "Unknown"
    BY <1>6 DEF RefuseAgent, Leave
  <2>2. Exits(outcome', message', client')
    BY <1>1, <1>2, <2>1 DEF Exits, Outcomes
  <2> QED
    BY <1>1, <2>1, <2>2
<1>7. CASE MetadataThrows
  <2>1. /\ outcome' = "exception" /\ lines' = lines /\ client' = client /\ outcome = "none"
        /\ valid_request(message) /\ get_agent(message) # "Unknown"
        /\ fill_up_field(message, LOGIN) = <<>>
    BY <1>7 DEF MetadataThrows, Leave
  <2>2. Exits(outcome', message', client')
    BY <1>1, <1>2, <2>1 DEF Exits, Outcomes
  <2> QED
    BY <1>1, <2>1, <2>2
<1>8. CASE Keep
  <2>1. /\ outcome' = IF AsksForAuto THEN "auto_approve" ELSE "wait"
        /\ lines' = lines
        /\ valid_request(message) /\ get_agent(message) # "Unknown"
        /\ fill_up_field(message, LOGIN) # <<>>
        /\ client' = [login |-> fill_up_field(message, LOGIN),
                      agent_type |-> eponymous_protocol(get_agent(message))]
    BY <1>8 DEF Keep, Leave, parse_client_metadata
  <2>2. /\ outcome' \in {"auto_approve", "wait"}
        /\ outcome' = "auto_approve" <=> \E i \in DOMAIN message : message[i] \in AutoWords
    BY <2>1 DEF AsksForAuto
  <2>3. Exits(outcome', message, client')
    BY <2>1, <2>2 DEF Exits, Outcomes
  <2> QED
    BY <1>1, <1>2, <2>1, <2>3
<1>9. CASE UNCHANGED vars
  BY <1>1, <1>2, <1>9 DEF vars
<1> QED
  BY <1>4, <1>5, <1>6, <1>7, <1>8, <1>9 DEF Next

LEMMA Invariance == Spec => []HandshakeInv
BY InitInv, NextInv, PTL DEF Spec

\* Who is kept has a login and a known type.
LEMMA KeptIs ==
  ASSUME HandshakeInv, outcome \in {"auto_approve", "wait"}
  PROVE  /\ Len(message) \in Nat /\ get_agent(message) # "Unknown"
         /\ client = [login |-> fill_up_field(message, LOGIN),
                      agent_type |-> eponymous_protocol(get_agent(message))]
         /\ client.login # <<>> /\ client.agent_type \in DOMAIN agents \ {"unknown"}
<1>1. lines \in Seq(Lines) /\ Exits(outcome, message, client)
  BY DEF HandshakeInv
<1>2. Len(message) \in Nat
  BY <1>1, HeaderIsReadable
<1>3. /\ get_agent(message) # "Unknown" /\ fill_up_field(message, LOGIN) # <<>>
      /\ client = [login |-> fill_up_field(message, LOGIN),
                   agent_type |-> eponymous_protocol(get_agent(message))]
  BY <1>1 DEF Exits
<1>4. eponymous_protocol(get_agent(message)) \in DOMAIN agents \ {"unknown"}
  BY <1>2, <1>3, AgentIs
<1> QED
  BY <1>2, <1>3, <1>4

\* The properties follow from the invariant.
LEMMA TypeFollows == HandshakeInv => TypeOK
<1> SUFFICES ASSUME HandshakeInv PROVE TypeOK
  OBVIOUS
<1>1. lines \in Seq(Lines) /\ Len(lines) <= MaxLines /\ Exits(outcome, message, client)
  BY DEF HandshakeInv
<1>2. outcome \in Outcomes
      /\ (outcome \notin {"auto_approve", "wait"} => client = [login |-> <<>>, agent_type |-> ""])
  BY <1>1 DEF Exits
<1> QED
  BY <1>1, <1>2, KeptIs DEF TypeOK

LEMMA FieldsFollow == HandshakeInv => FieldsAreLines
BY FieldIsLineField DEF HandshakeInv, FieldsAreLines

-----------------------------------------------------------------------------
(* Who is kept. *)

\* The last AGENT_TYPE is in a line, and its value is the rest of that line; if it
\* is the only one, fill_up_field finds it, too.
LEMMA AgentsFollow == HandshakeInv => AgentsAgree
<1> SUFFICES ASSUME HandshakeInv, outcome \in {"auto_approve", "wait"}
             PROVE  /\ \E i \in DOMAIN lines :
                         \E j \in DOMAIN lines[i] :
                           /\ lines[i][j] = AGENT
                           /\ SubSeq(lines[i], j + 1, Len(lines[i])) = <<client.agent_type>>
                    /\ Cardinality({i \in DOMAIN message : message[i] = AGENT}) = 1
                         => fill_up_field(message, AGENT) = <<client.agent_type>>
  BY DEF AgentsAgree, Kept
<1> DEFINE pos == SelectLastInSeq(message, LAMBDA t : t = AGENT)
           v == client.agent_type
<1>1. lines \in Seq(Lines) /\ message \in Seq(Tokens) /\ Len(message) \in Nat
      /\ DOMAIN message = 1 .. Len(message)
  BY HeaderIsReadable DEF HandshakeInv
<1>2. PICK off : Layout(lines, message, off) /\ Readable(lines, message, off)
  BY <1>1, HeaderIsReadable
<1>3. /\ pos \in 1 .. Len(message) /\ message[pos] = AGENT
      /\ \A i \in 1 .. Len(message) : message[i] = AGENT => i <= pos
      /\ v \in DOMAIN agents \ {"unknown"}
      /\ Len(ValueAt(message, pos)) = 1 /\ ValueAt(message, pos)[1] = v
  <2>1. get_agent(message) # "Unknown" /\ v = eponymous_protocol(get_agent(message))
    BY KeptIs
  <2> QED
    BY <1>1, <2>1, AgentIs DEF SelectLastInSeq
<1> HIDE DEF pos, v
<1>4. AGENT # NL /\ AGENT \in Keys
  BY KeyIs DEF Keys
<1>5. PICK i \in DOMAIN lines : \E j \in DOMAIN lines[i] : pos = off[i] + j /\ lines[i][j] = AGENT
  BY <1>1, <1>2, <1>3, <1>4, LineOfPosition
<1>6. PICK j \in DOMAIN lines[i] : pos = off[i] + j /\ lines[i][j] = AGENT
  BY <1>5
<1>7. ValueAt(message, pos) = SubSeq(lines[i], j + 1, Len(lines[i]))
  BY <1>2, <1>6 DEF Readable
<1>8. ValueAt(message, pos) = <<v>>
  <2> DEFINE u == SubSeq(lines[i], j + 1, Len(lines[i]))
  <2>1. u \in Seq(Tokens)
    <3>1. lines[i] \in Seq(Tokens) /\ Len(lines[i]) \in Nat /\ j \in 1 .. Len(lines[i])
      BY <1>1, LinesAre
    <3> QED
      BY <3>1
  <2>2. Len(u) = 1 /\ u[1] = v
    BY <1>3, <1>7
  <2> HIDE DEF u
  <2>3. u = <<v>>
    BY <2>1, <2>2
  <2> QED
    BY <1>7, <2>3 DEF u
<1>9. ASSUME Cardinality({k \in DOMAIN message : message[k] = AGENT}) = 1
      PROVE  fill_up_field(message, AGENT) = <<v>>
  <2> DEFINE S == {k \in DOMAIN message : message[k] = AGENT}
             first == SelectInSeq(message, LAMBDA t : t = AGENT)
  <2>1. IsFiniteSet(S)
    <3>1. IsFiniteSet(1 .. Len(message)) /\ S \subseteq 1 .. Len(message)
      BY <1>1, FS_Interval
    <3> QED
      BY <3>1, FS_Subset
  <2>2. PICK x : S = {x}
    BY <1>9, <2>1, FS_Singleton
  <2>3. FirstAt(message, AGENT, first)
    BY <1>1, FindFirst DEF SelectInSeq
  <2>4. fill_up_field(message, AGENT)
          = IF first = 0 THEN <<>> ELSE Trim(ValueAt(message, first))
    BY DEF fill_up_field
  <2> HIDE DEF first
  <2>5. pos \in S /\ first \in S
    BY <1>1, <1>3, <2>3 DEF FirstAt
  <2>6. first = pos /\ first # 0
    BY <1>3, <2>2, <2>5
  <2>7. Trim(<<v>>) = <<v>>
    <3>1. PICK n \in 0 .. Len(<<v>>) :
            /\ Trim(<<v>>) = SubSeq(<<v>>, 1, n)
            /\ n # 0 => <<v>>[n] # SP
            /\ \A k \in n + 1 .. Len(<<v>>) : <<v>>[k] = SP
      <4>1. Len(<<v>>) \in Nat
        OBVIOUS
      <4> QED
        BY <4>1, TrimIs
    <3>2. v # SP
      BY <1>3, TablesAgree DEF SP
    <3>3. n = 1
      BY <3>1, <3>2
    <3> QED
      BY <3>1, <3>3
  <2> QED
    BY <1>8, <2>4, <2>6, <2>7
<1> QED
  BY <1>6, <1>7, <1>8, <1>9 DEF v

-----------------------------------------------------------------------------
(* Documented headers. *)

\* No documented line is empty.
LEMMA DocumentedFirst ==
  ASSUME lines \in Seq(Lines), Documented, NEW i \in DOMAIN lines
  PROVE  1 \in DOMAIN lines[i]
<1>1. DOMAIN lines[i] = 1 .. Len(lines[i])
  BY LinesAre
<1>2. lines[i] = <<AUTO>> \/ Len(lines[i]) = 2
  BY DEF Documented
<1> QED
  BY <1>1, <1>2

\* A documented line has its key first and a word second.
LEMMA DocumentedLine ==
  ASSUME lines \in Seq(Lines), Documented, NEW i \in DOMAIN lines, lines[i] # <<AUTO>>
  PROVE  /\ Len(lines[i]) = 2 /\ DOMAIN lines[i] = 1 .. 2 /\ lines[i][1] \in Keys
         /\ lines[i][2] \notin Keys /\ lines[i][2] # SP
<1>1. Len(lines[i]) = 2 /\ lines[i][1] \in Keys /\ lines[i][2] \notin Keys \cup {SP}
  BY DEF Documented
<1>2. DOMAIN lines[i] = 1 .. Len(lines[i])
  BY LinesAre
<1> QED
  BY <1>1, <1>2

\* A key is not "auto".
LEMMA AutoLine ==
  ASSUME NEW key \in Keys
  PROVE  key # AUTO
BY DEF Keys, AGENT, SIZE, RAW, LOGIN, AUTO

\* A key stands only at the front of its line, and in one line only.
LEMMA DocumentedKey ==
  ASSUME lines \in Seq(Lines), Documented, NEW key \in Keys,
         NEW i \in DOMAIN lines, NEW j \in DOMAIN lines[i], lines[i][j] = key
  PROVE  /\ j = 1 /\ lines[i][1] = key
         /\ \A k \in DOMAIN lines : lines[k][1] = key => k = i
         /\ Len(lines[i]) = 2 /\ DOMAIN lines[i] = 1 .. 2
         /\ lines[i][2] \notin Keys /\ lines[i][2] # SP
<1>1. lines[i] # <<AUTO>>
  <2> SUFFICES ASSUME lines[i] = <<AUTO>> PROVE FALSE
    OBVIOUS
  <2>1. j = 1 /\ lines[i][j] = AUTO
    OBVIOUS
  <2> QED
    BY <2>1, AutoLine
<1>2. /\ Len(lines[i]) = 2 /\ DOMAIN lines[i] = 1 .. 2
      /\ lines[i][2] \notin Keys /\ lines[i][2] # SP
  BY <1>1, DocumentedLine
<1>3. j = 1
  BY <1>2
<1>4. \A k, n \in DOMAIN lines : lines[k][1] = lines[n][1] => k = n
  BY DEF Documented
<1> QED
  BY <1>2, <1>3, <1>4

\* The second of two tokens.
LEMMA SecondToken ==
  ASSUME NEW S, NEW l \in Seq(S), Len(l) = 2
  PROVE  SubSeq(l, 2, 2) = <<l[2]>>
<1> DEFINE w == SubSeq(l, 1 + 1, 1 + 1)
<1>1. w \in Seq(S) /\ Len(w) = 1 /\ \A k \in 1 .. 1 : w[k] = l[1 + k]
  BY PartIs
<1>2. w = SubSeq(l, 2, 2)
  OBVIOUS
<1> HIDE DEF w
<1>3. w = <<l[2]>>
  BY <1>1
<1> QED
  BY <1>2, <1>3

\* The field that fill_up_field finds in a documented header.
LEMMA DocumentedField ==
  ASSUME lines \in Seq(Lines), Documented, NEW key \in Keys
  PROVE  fill_up_field(message, key) = IF Has(key) THEN <<WordOf(key)>> ELSE <<>>
<1> DEFINE with == {i \in DOMAIN lines : \E j \in DOMAIN lines[i] : lines[i][j] = key}
           m == Min(with)
           line == lines[m]
           key1 == Min({j \in DOMAIN line : line[j] = key})
           last == Max({0} \cup {j \in DOMAIN line : line[j] # SP})
<1>1. fill_up_field(message, key) = IF with = {} THEN <<>> ELSE SubSeq(line, key1 + 1, last)
  BY FieldIsLineField DEF LineField
<1>2. Has(key) <=> with # {}
  <2>1. ASSUME NEW i \in DOMAIN lines, lines[i][1] = key PROVE i \in with
    <3>1. 1 \in DOMAIN lines[i]
      BY DocumentedFirst
    <3> QED
      BY <2>1, <3>1
  <2>2. ASSUME NEW i \in with PROVE i \in DOMAIN lines /\ lines[i][1] = key
    <3>1. PICK j \in DOMAIN lines[i] : lines[i][j] = key
      OBVIOUS
    <3> QED
      BY <3>1, DocumentedKey
  <2> QED
    BY <2>1, <2>2 DEF Has
<1>3. CASE with = {}
  BY <1>1, <1>2, <1>3
<1>4. CASE with # {}
  <2>1. with \subseteq Nat
    BY LinesAre
  <2>2. m \in with
    BY <1>4, <2>1, MinIs
  <2> HIDE DEF m
  <2>3. PICK j \in DOMAIN line : line[j] = key
    BY <2>2
  <2>4. /\ m \in DOMAIN lines /\ lines[m][1] = key
        /\ \A k \in DOMAIN lines : lines[k][1] = key => k = m
        /\ DOMAIN line = 1 .. 2 /\ Len(line) = 2
        /\ line[2] \notin Keys /\ line[2] # SP
    BY <2>2, <2>3, DocumentedKey
  <2>5. WordOf(key) = line[2]
    BY <2>4 DEF WordOf
  <2>6. key1 = 1
    <3>1. {n \in DOMAIN line : line[n] = key} = {1}
      BY <2>4
    <3>2. Min({1}) = 1
      <4>1. {1} \subseteq Nat /\ {1} # {}
        OBVIOUS
      <4>2. Min({1}) \in {1}
        BY <4>1, MinIs
      <4> QED
        BY <4>2
    <3> QED
      BY <3>1, <3>2
  <2>7. last = 2
    <3>1. key # SP
      BY KeyIs
    <3>2. {0} \cup {n \in DOMAIN line : line[n] # SP} = {0, 1, 2}
      BY <2>4, <3>1
    <3>3. {0, 1, 2} \subseteq 0 .. 2 /\ 2 \in Nat
      OBVIOUS
    <3>4. Max({0, 1, 2}) \in {0, 1, 2} /\ \A n \in {0, 1, 2} : n <= Max({0, 1, 2})
      BY <3>3, MaxIs
    <3>5. Max({0, 1, 2}) = 2
      BY <3>4
    <3> QED
      BY <3>2, <3>5
  <2> HIDE DEF key1, last
  <2>8. line \in Seq(Tokens)
    BY <2>4, LinesAre
  <2>9. SubSeq(line, 2, 2) = <<line[2]>>
    BY <2>4, <2>8, SecondToken
  <2>10. SubSeq(line, key1 + 1, last) = <<line[2]>>
    BY <2>6, <2>7, <2>9
  <2> HIDE DEF line
  <2>11. fill_up_field(message, key) = <<line[2]>>
    BY <1>1, <1>4, <2>10
  <2> QED
    BY <1>2, <1>4, <2>5, <2>11
<1> QED
  BY <1>3, <1>4

\* The agent that get_agent finds in one.
LEMMA DocumentedAgent ==
  ASSUME lines \in Seq(Lines), Documented, Has(AGENT)
  PROVE  get_agent(message) # "Unknown" <=> WordOf(AGENT) \in DOMAIN agents \ {"unknown"}
<1> DEFINE pos == SelectLastInSeq(message, LAMBDA t : t = AGENT)
           w == WordOf(AGENT)
<1>1. message \in Seq(Tokens) /\ Len(message) \in Nat
  BY HeaderIsReadable
<1>2. PICK off : Layout(lines, message, off) /\ Readable(lines, message, off)
  BY HeaderIsReadable
<1>3. LastAt(message, AGENT, pos)
  BY <1>1, FindLast DEF SelectLastInSeq
<1>4. get_agent(message) = IF pos = 0 THEN "Unknown" ELSE agent_selecter(ValueAt(message, pos))
  BY DEF get_agent
<1> HIDE DEF pos
<1>5. AGENT \in Keys /\ AGENT # NL
  BY KeyIs DEF Keys
<1>6. PICK m \in DOMAIN lines : lines[m][1] = AGENT
  BY DEF Has
<1>7. /\ 1 \in DOMAIN lines[m] /\ lines[m] \in Seq(Tokens)
      /\ \A k \in DOMAIN lines : lines[k][1] = AGENT => k = m
      /\ Len(lines[m]) = 2 /\ DOMAIN lines[m] = 1 .. 2
  <2>1. 1 \in DOMAIN lines[m] /\ lines[m] \in Seq(Tokens)
    BY DocumentedFirst, LinesAre
  <2> QED
    BY <1>5, <1>6, <2>1, DocumentedKey
<1>8. w = lines[m][2]
  BY <1>6, <1>7 DEF WordOf
<1>9. off[m] + 1 \in 1 .. Len(message) /\ message[off[m] + 1] = AGENT
      /\ ValueAt(message, off[m] + 1) = SubSeq(lines[m], 1 + 1, Len(lines[m]))
  <2>1. m \in DOMAIN lines /\ 1 \in DOMAIN lines[m]
    BY <1>7
  <2>2. /\ off[m] + 1 \in 1 .. Len(message) /\ message[off[m] + 1] = lines[m][1]
        /\ ValueAt(message, off[m] + 1) = SubSeq(lines[m], 1 + 1, Len(lines[m]))
    BY <1>2, <2>1 DEF Readable
  <2> QED
    BY <1>6, <2>2
<1>10. pos \in 1 .. Len(message) /\ message[pos] = AGENT /\ pos # 0
  BY <1>3, <1>9 DEF LastAt
<1>11. PICK i \in DOMAIN lines : \E j \in DOMAIN lines[i] : pos = off[i] + j /\ lines[i][j] = AGENT
  BY <1>1, <1>2, <1>5, <1>10, LineOfPosition
<1>12. PICK j \in DOMAIN lines[i] : pos = off[i] + j /\ lines[i][j] = AGENT
  BY <1>11
<1>13. j = 1 /\ i = m
  BY <1>5, <1>7, <1>12, DocumentedKey
<1>14. SubSeq(lines[m], 1 + 1, 2) = <<w>>
  <2>1. SubSeq(lines[m], 2, 2) = <<lines[m][2]>>
    BY <1>7, SecondToken
  <2> QED
    BY <1>8, <2>1
<1> HIDE DEF w
<1>15. ValueAt(message, pos) = <<w>>
  BY <1>7, <1>9, <1>12, <1>13, <1>14
<1>16. get_agent(message) = IF w \in DOMAIN agents THEN agents[w] ELSE "Unknown"
  BY <1>4, <1>10, <1>15 DEF agent_selecter
<1>17. get_agent(message) # "Unknown" <=> w \in DOMAIN agents \ {"unknown"}
  BY <1>16, TablesAgree
<1> QED
  BY <1>17 DEF w

\* What occurs in the text of one occurs in a line, and a first line "auto" in the
\* text.
LEMMA DocumentedAuto ==
  ASSUME lines \in Seq(Lines), lines # <<>>
  PROVE  /\ (\E p \in DOMAIN message : message[p] \in AutoWords)
              => \E i \in DOMAIN lines : \E j \in DOMAIN lines[i] : lines[i][j] \in AutoWords
         /\ lines[1] = <<AUTO>> => \E p \in DOMAIN message : message[p] \in AutoWords
<1>1. message \in Seq(Tokens) /\ Len(message) \in Nat /\ DOMAIN message = 1 .. Len(message)
  BY HeaderIsReadable
<1>2. PICK off : Layout(lines, message, off) /\ Readable(lines, message, off)
  BY HeaderIsReadable
<1>3. AUTO \in AutoWords /\ NL \notin AutoWords
  BY AutoAssumption
<1>4. ASSUME NEW p \in DOMAIN message, message[p] \in AutoWords
      PROVE  \E i \in DOMAIN lines : \E j \in DOMAIN lines[i] : lines[i][j] \in AutoWords
  <2>1. message[p] # NL
    BY <1>3, <1>4
  <2>2. PICK i \in DOMAIN lines :
          \E j \in DOMAIN lines[i] : p = off[i] + j /\ lines[i][j] = message[p]
    BY <1>1, <1>2, <2>1, LineOfPosition
  <2> QED
    BY <1>4, <2>2
<1>5. ASSUME lines[1] = <<AUTO>>
      PROVE  \E p \in DOMAIN message : message[p] \in AutoWords
  <2>1. 1 \in DOMAIN lines
    BY LinesAre
  <2>2. 1 \in DOMAIN lines[1] /\ lines[1][1] = AUTO
    BY <1>5
  <2>3. off[1] + 1 \in 1 .. Len(message) /\ message[off[1] + 1] = AUTO
    BY <1>2, <2>1, <2>2 DEF Readable
  <2> QED
    BY <1>1, <1>3, <2>3
<1> QED
  BY <1>4, <1>5

\* Each way out says of the text what the format says of the lines.
LEMMA DocumentedFollow == HandshakeInv => DocumentedUnderstood
<1> SUFFICES ASSUME HandshakeInv, Documented, outcome # "none"
             PROVE  /\ outcome = "invalid_format" <=> ~Complete
                    /\ outcome = "invalid_agent" <=> Complete /\ ~Known
                    /\ Kept <=> Complete /\ Known /\ Has(LOGIN)
                    /\ Kept /\ lines[1] = <<AUTO>> => outcome = "auto_approve"
                    /\ outcome = "auto_approve" =>
                         \E i \in DOMAIN lines :
                           \E j \in DOMAIN lines[i] : lines[i][j] \in AutoWords
  BY DEF DocumentedUnderstood
<1>1. lines \in Seq(Lines) /\ Exits(outcome, message, client)
  BY DEF HandshakeInv
<1>2. ASSUME NEW key \in Keys
      PROVE  fill_up_field(message, key) # <<>> <=> Has(key)
  <2>1. fill_up_field(message, key) = IF Has(key) THEN <<WordOf(key)>> ELSE <<>>
    BY <1>1, DocumentedField
  <2>2. <<WordOf(key)>> # <<>>
    OBVIOUS
  <2> QED
    BY <2>1, <2>2
<1>3. valid_request(message) <=> Complete
  BY <1>2 DEF valid_request, Keys, Complete
<1>4. Complete => (get_agent(message) # "Unknown" <=> Known)
  BY <1>1, DocumentedAgent DEF Complete, Known
<1>5. fill_up_field(message, LOGIN) # <<>> <=> Has(LOGIN)
  BY <1>2 DEF Keys
<1>6. Complete => lines # <<>>
  BY DEF Complete, Has
<1>7. /\ outcome \in Outcomes
      /\ outcome = "invalid_format" => ~Complete
      /\ outcome \notin {"none", "invalid_format"} => Complete
      /\ outcome = "invalid_agent" => get_agent(message) = "Unknown"
      /\ outcome \in {"exception", "auto_approve", "wait"} => get_agent(message) # "Unknown"
      /\ outcome = "exception" => ~Has(LOGIN)
      /\ outcome \in {"auto_approve", "wait"} => Has(LOGIN)
      /\ outcome \in {"auto_approve", "wait"} =>
           (outcome = "auto_approve" <=> \E p \in DOMAIN message : message[p] \in AutoWords)
  BY <1>1, <1>3, <1>5 DEF Exits
<1>8. outcome = "invalid_format" <=> ~Complete
  BY <1>7
<1>9. outcome = "invalid_agent" <=> Complete /\ ~Known
  BY <1>4, <1>7 DEF Outcomes
<1>10. Kept <=> Complete /\ Known /\ Has(LOGIN)
  BY <1>4, <1>7 DEF Outcomes, Kept
<1>11. Kept /\ lines[1] = <<AUTO>> => outcome = "auto_approve"
  BY <1>1, <1>6, <1>7, <1>10, DocumentedAuto DEF Kept
<1>12. outcome = "auto_approve" =>
         \E i \in DOMAIN lines : \E j \in DOMAIN lines[i] : lines[i][j] \in AutoWords
  BY <1>1, <1>6, <1>7, DocumentedAuto
<1> QED
  BY <1>8, <1>9, <1>10, <1>11, <1>12

-----------------------------------------------------------------------------
(* The theorems. *)

\* Type correctness: whoever is kept has a login and a known type, nobody else
\* is filled in.
THEOREM HandshakeTypes == Spec => []TypeOK
BY Invariance, TypeFollows, PTL

\* In every header that a peer can send, fill_up_field finds what the first line
\* with the key says, and no value goes beyond its line.
THEOREM FieldsStayInLines == Spec => []FieldsAreLines
BY Invariance, FieldsFollow, PTL

\* Every header in the documented format, of any words, is refused for what it lacks
\* and kept if it lacks nothing; approved if it begins with "auto", queued if no word
\* of it has an "auto" in it.
THEOREM DocumentsAreUnderstood == Spec => []DocumentedUnderstood
BY Invariance, DocumentedFollow, PTL

\* Whoever is kept is named what a line of the header says, and with one
\* AGENT_TYPE the two searches for it agree.
THEOREM SearchesAgree == Spec => []AgentsAgree
BY Invariance, AgentsFollow, PTL

=============================================================================
