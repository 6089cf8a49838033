-------------------------- MODULE AttrText_proofs ---------------------------
(***************************************************************************)
(* Theorems about AttrText, for texts of every length, any number of       *)
(* objects and of typed names, and every table of key types.               *)
(*                                                                         *)
(* What the codecs compute is proved from their recursive definitions.     *)
(* Induction here is over sets of numbers (lemma Induct) and has no        *)
(* operator for a parameter; a recursive function is unfolded by showing   *)
(* that one of its kind exists.                                            *)
(***************************************************************************)
EXTENDS AttrText, NaturalsInduction, WellFoundedInduction, SequenceTheorems,
        FiniteSetTheorems, FunctionTheorems, TLAPS

-----------------------------------------------------------------------------
(* Induction on the natural numbers, for sets: a least number that is not  *)
(* in S has a predecessor that is.                                         *)

LEMMA Induct ==
    ASSUME NEW S, 0 \in S, \A n \in Nat : n \in S => n + 1 \in S
    PROVE  Nat \subseteq S
<1> SUFFICES ASSUME Nat \ S # {} PROVE FALSE
  OBVIOUS
<1> DEFINE T == Nat \ S
           Less == OpToRel(<, Nat)
<1>1. IsWellFoundedOn(Less, Nat)
  BY NatLessThanWellFounded, Zenon
<1>2. \A d, e \in Nat : e < d => <<e, d>> \in Less
  BY DEF OpToRel
<1> HIDE DEF Less
<1>3. \E d \in T : \A e \in T : <<e, d>> \notin Less
  BY <1>1, WFMin
<1>4. PICK d \in T : \A e \in T : <<e, d>> \notin Less
  BY <1>3
<1>5. d \in Nat /\ d # 0
  OBVIOUS
<1>6. d - 1 \in Nat /\ d - 1 < d
  BY <1>5
<1>7. d - 1 \in S
  BY <1>2, <1>4, <1>5, <1>6
<1>8. (d - 1) + 1 = d
  BY <1>5
<1> QED BY <1>6, <1>7, <1>8

-----------------------------------------------------------------------------
(* Concatenation of a list of texts. First what FlattenSeq is defined by,  *)
(* then the steps in which it goes, then where it puts each part. The      *)
(* function exists by induction on the length of the list.                 *)

LEMMA FlattenDef ==
    ASSUME NEW s \in Seq(Seq(Nat)), s # <<>>
    PROVE  \E f : /\ f = [i \in 1..Len(s) |-> IF i = 1 THEN s[i] ELSE f[i-1] \o s[i]]
                  /\ FlattenSeq(s) = f[Len(s)]
<1> DEFINE R(f, n) == f = [i \in 1..n |-> IF i = 1 THEN s[i] ELSE f[i-1] \o s[i]]
           S == {n \in Nat : \E f : R(f, n+1)}
<1>1. 0 \in S
  <2>1. R([i \in 1..1 |-> s[1]], 1)
    OBVIOUS
  <2>2. \E f : R(f, 1)
    BY <2>1
  <2>3. 0 + 1 = 1
    OBVIOUS
  <2> HIDE DEF R
  <2> QED BY <2>2, <2>3
<1>2. ASSUME NEW n \in Nat, n \in S PROVE n + 1 \in S
  <2>1. PICK f : R(f, n+1)
    BY <1>2
  <2> DEFINE g == [i \in 1..n+2 |-> IF i = n+2 THEN f[n+1] \o s[n+2] ELSE f[i]]
  <2>2. ASSUME NEW i \in 1..n+2 PROVE g[i] = IF i = 1 THEN s[i] ELSE g[i-1] \o s[i]
    <3>1. CASE i = n+2
      <4>1. i # 1 /\ i - 1 \in 1..n+2 /\ i - 1 # n + 2 /\ i - 1 = n + 1
        BY <3>1
      <4> QED BY <3>1, <4>1
    <3>2. CASE i # n+2
      <4>1. i \in 1..n+1 /\ (i # 1 => i - 1 \in 1..n+2 /\ i - 1 # n+2)
         BY <3>2
      <4>2. f[i] = IF i = 1 THEN s[i] ELSE f[i-1] \o s[i]
         BY <2>1, <4>1
      <4>3. g[i] = f[i] /\ (i # 1 => g[i-1] = f[i-1])
         BY <4>1
      <4> QED BY <4>2, <4>3
    <3> QED BY <3>1, <3>2
  <2>3. R(g, n+2)
    BY <2>2
  <2>4. \E f2 : R(f2, n+2)
    BY <2>3
  <2>5. n + 2 = (n + 1) + 1 /\ n + 1 \in Nat
    OBVIOUS
  <2> HIDE DEF R
  <2> QED BY <2>4, <2>5
<1>3. Nat \subseteq S
  <2> HIDE DEF S
  <2> QED BY <1>1, <1>2, Induct
<1>4. \E f : R(f, Len(s))
  <2>1. Len(s) - 1 \in S /\ (Len(s) - 1) + 1 = Len(s)
    <3> HIDE DEF S
    <3> QED BY <1>3
  <2> HIDE DEF R
  <2> QED BY <2>1
<1> DEFINE h == CHOOSE f : f = [i \in 1..Len(s) |->
                                   IF i = 1 THEN s[i] ELSE f[i-1] \o s[i]]
<1>5. h = [i \in 1..Len(s) |-> IF i = 1 THEN s[i] ELSE h[i-1] \o s[i]]
  BY <1>4
<1>6. FlattenSeq(s) = h[Len(s)]
  BY DEF FlattenSeq
<1> HIDE DEF h
<1> QED BY <1>5, <1>6

(* Two texts.                                                              *)
LEMMA Concat ==
    ASSUME NEW a \in Seq(Nat), NEW b \in Seq(Nat)
    PROVE  /\ a \o b \in Seq(Nat) /\ Len(a \o b) = Len(a) + Len(b)
           /\ Len(a) \in Nat /\ Len(b) \in Nat
           /\ Len(a \o b) \in Nat /\ Len(a) <= Len(a \o b)
OBVIOUS

LEMMA ConcatLeft ==
    ASSUME NEW a \in Seq(Nat), NEW b \in Seq(Nat), NEW k \in 1..Len(a)
    PROVE  (a \o b)[k] = a[k]
OBVIOUS

LEMMA ConcatRight ==
    ASSUME NEW a \in Seq(Nat), NEW b \in Seq(Nat), NEW k \in 1..Len(b)
    PROVE  (a \o b)[Len(a) + k] = b[k]
<1>1. /\ Len(a) + k \in 1..Len(a) + Len(b) /\ Len(a) + k > Len(a)
      /\ (Len(a) + k) - Len(a) = k
  OBVIOUS
<1> QED BY <1>1

(* FlattenSeq goes from the empty text on, adding one part at a time.      *)
LEMMA FlattenSteps ==
    ASSUME NEW s \in Seq(Seq(Nat)), s # <<>>
    PROVE  \E g : /\ g \in [0..Len(s) -> Seq(Nat)] /\ g[0] = <<>>
                  /\ \A j \in 0..Len(s)-1 : g[j+1] = g[j] \o s[j+1]
                  /\ FlattenSeq(s) = g[Len(s)]
<1>1. PICK f : /\ f = [i \in 1..Len(s) |-> IF i = 1 THEN s[i] ELSE f[i-1] \o s[i]]
               /\ FlattenSeq(s) = f[Len(s)]
  BY FlattenDef
<1> DEFINE N == Len(s)
           g == [j \in 0..N |-> IF j = 0 THEN <<>> ELSE f[j]]
<1>2. N \in Nat /\ N # 0 /\ \A i \in 1..N : s[i] \in Seq(Nat)
  OBVIOUS
<1>3. \A i \in 1..N : f[i] = IF i = 1 THEN s[i] ELSE f[i-1] \o s[i]
  BY <1>1
<1> HIDE DEF N
<1>4. ASSUME NEW j \in 0..N-1 PROVE g[j+1] = g[j] \o s[j+1]
  <2>1. j + 1 \in 1..N /\ j + 1 \in 0..N /\ j + 1 # 0 /\ j \in 0..N /\ (j + 1) - 1 = j
    BY <1>2
  <2>2. g[j+1] = f[j+1] /\ s[j+1] \in Seq(Nat)
    BY <1>2, <2>1
  <2>3. CASE j = 0
    <3>1. g[j] = <<>> /\ f[j+1] = s[j+1]
      BY <1>3, <2>1, <2>3
    <3>2. <<>> \o s[j+1] = s[j+1]
      BY <2>2, ConcatEmptySeq
    <3> QED BY <2>2, <3>1, <3>2
  <2>4. CASE j # 0
    <3>1. g[j] = f[j] /\ j + 1 # 1
      BY <2>1, <2>4
    <3>2. f[j+1] = f[(j+1)-1] \o s[j+1]
      BY <1>3, <2>1, <3>1
    <3> QED BY <2>1, <2>2, <3>1, <3>2
  <2> QED BY <2>3, <2>4
<1>5. g[0] = <<>> /\ g[N] = f[N] /\ DOMAIN g = 0..N
  BY <1>2
<1>6. g = [j \in 0..N |-> g[j]]
  OBVIOUS
<1> HIDE DEF g
<1>7. \A j \in 0..N : g[j] \in Seq(Nat)
  <2> DEFINE S == {n \in Nat : n <= N => g[n] \in Seq(Nat)}
  <2>1. 0 \in S
    <3>1. <<>> \in Seq(Nat)
      OBVIOUS
    <3> QED BY <1>5, <3>1
  <2>2. ASSUME NEW n \in Nat, n \in S PROVE n + 1 \in S
    <3> SUFFICES ASSUME n + 1 <= N PROVE g[n + 1] \in Seq(Nat)
      OBVIOUS
    <3>1. n \in 0..N-1 /\ n + 1 \in 1..N
      BY <1>2
    <3>2. g[n] \in Seq(Nat) /\ s[n+1] \in Seq(Nat)
      BY <1>2, <2>2, <3>1
    <3> QED BY <1>4, <3>1, <3>2, Concat
  <2>3. Nat \subseteq S
    <3> HIDE DEF S
    <3> QED BY <2>1, <2>2, Induct
  <2> QED BY <1>2, <2>3
<1>8. g \in [0..N -> Seq(Nat)]
  BY <1>6, <1>7
<1> QED BY <1>1, <1>4, <1>5, <1>8 DEF N

(* Each part of a concatenation starts where the one before it ends.       *)
Parts(s, end) ==
    /\ end \in [0..Len(s) -> Nat] /\ end[0] = 0
    /\ \A j \in 0..Len(s)-1 : end[j+1] = end[j] + Len(s[j+1])

(* The concatenation has each part where it starts.                        *)
Laid(s, end) ==
    /\ Parts(s, end)
    /\ FlattenSeq(s) \in Seq(Nat) /\ Len(FlattenSeq(s)) = end[Len(s)]
    /\ \A j \in 0..Len(s)-1 : \A k \in 1..Len(s[j+1]) :
          FlattenSeq(s)[end[j] + k] = s[j+1][k]

(* Every part of a concatenation is in it, at its place.                   *)
LEMMA FlattenParts ==
    ASSUME NEW s \in Seq(Seq(Nat))
    PROVE  \E end : Laid(s, end)
<1>1. CASE s = <<>>
  <2>1. FlattenSeq(s) = <<>>
    BY <1>1 DEF FlattenSeq
  <2>2. Parts(s, [i \in 0..0 |-> 0])
    BY <1>1 DEF Parts
  <2> QED BY <1>1, <2>1, <2>2 DEF Laid
<1>2. CASE s # <<>>
  <2>1. PICK g : /\ g \in [0..Len(s) -> Seq(Nat)] /\ g[0] = <<>>
                 /\ \A j \in 0..Len(s)-1 : g[j+1] = g[j] \o s[j+1]
                 /\ FlattenSeq(s) = g[Len(s)]
    BY <1>2, FlattenSteps
  <2> DEFINE N == Len(s)
             end == [j \in 0..N |-> Len(g[j])]
  <2>2. N \in Nat /\ N # 0 /\ \A i \in 1..N : s[i] \in Seq(Nat)
    BY <1>2
  <2>a. FlattenSeq(s) = g[N]
    BY <2>1
  <2>3. \A j \in 0..N-1 : /\ j \in 0..N /\ j+1 \in 1..N /\ j+1 \in 0..N
    BY <2>2
  <2>4. \A j \in 0..N : g[j] \in Seq(Nat) /\ Len(g[j]) \in Nat /\ end[j] = Len(g[j])
    <3>1. \A j \in 0..N : g[j] \in Seq(Nat)
      BY <2>1
    <3>2. \A j \in 0..N : end[j] = Len(g[j])
      OBVIOUS
    <3> QED BY <3>1, <3>2
  <2>5. Parts(s, end)
    <3>1. end \in [0..N -> Nat] /\ end[0] = 0
      BY <2>2, <2>4, <2>1
    <3>2. ASSUME NEW j \in 0..N-1 PROVE end[j+1] = end[j] + Len(s[j+1])
      <4>1. g[j+1] = g[j] \o s[j+1] /\ g[j] \in Seq(Nat) /\ s[j+1] \in Seq(Nat)
        BY <2>1, <2>2, <2>3
      <4>2. Len(g[j+1]) = Len(g[j]) + Len(s[j+1])
        BY <4>1, Concat
      <4> QED BY <2>3, <2>4, <4>2
    <3> QED BY <3>1, <3>2 DEF Parts
  <2>6. ASSUME NEW j \in 0..N-1, NEW k \in 1..Len(s[j+1])
        PROVE  g[N][end[j] + k] = s[j+1][k]
    <3> DEFINE p == end[j] + k
               S == {n \in Nat : j < n /\ n <= N => p <= Len(g[n]) /\ g[n][p] = s[j+1][k]}
    <3>0. /\ end[j] \in Nat /\ s[j+1] \in Seq(Nat) /\ k \in Nat /\ k # 0
          /\ end[j] = Len(g[j])
      BY <2>2, <2>3, <2>4
    <3>1. p \in Nat /\ p # 0 /\ p = Len(g[j]) + k
      BY <3>0
    <3> HIDE DEF end, p
    <3>2. 0 \in S
      BY <2>2
    <3>3. ASSUME NEW n \in Nat, n \in S PROVE n + 1 \in S
      <4> SUFFICES ASSUME j < n + 1, n + 1 <= N
                   PROVE  p <= Len(g[n + 1]) /\ g[n + 1][p] = s[j+1][k]
        OBVIOUS
      <4>1. n \in 0..N-1
        BY <2>2
      <4>2. g[n + 1] = g[n] \o s[n + 1] /\ g[n] \in Seq(Nat) /\ s[n + 1] \in Seq(Nat)
        BY <2>1, <2>2, <2>3, <4>1
      <4>3. /\ Len(g[n + 1]) = Len(g[n]) + Len(s[n + 1])
            /\ Len(g[n]) \in Nat /\ Len(s[n+1]) \in Nat
        BY <4>2, Concat
      <4>6. Len(g[n]) <= Len(g[n + 1])
        BY <4>2, Concat
      <4>4. CASE n = j
        <5>1. p = Len(g[n]) + k /\ k \in 1..Len(s[n + 1])
          BY <3>1, <4>4
        <5>2. (g[n] \o s[n + 1])[Len(g[n]) + k] = s[n + 1][k]
          BY <4>2, <5>1, ConcatRight
        <5>3. p <= Len(g[n + 1])
          BY <4>3, <5>1
        <5> QED BY <4>2, <4>4, <5>1, <5>2, <5>3
      <4>5. CASE n # j
        <5>1. j < n /\ n <= N
          BY <4>5, <2>2
        <5>2. p <= Len(g[n]) /\ g[n][p] = s[j+1][k]
          BY <3>3, <5>1
        <5>3. p \in 1..Len(g[n])
          BY <3>1, <4>3, <5>2
        <5>4. (g[n] \o s[n + 1])[p] = g[n][p]
          BY <4>2, <5>3, ConcatLeft
        <5>5. p <= Len(g[n + 1])
          <6>1. Len(g[n + 1]) \in Nat
            BY <4>2, Concat
          <6>2. p \in Nat /\ Len(g[n]) \in Nat
            BY <3>1, <4>3
          <6> HIDE DEF S
          <6>3. ASSUME NEW x \in Nat, NEW y \in Nat, NEW z \in Nat, x <= y, y <= z
                PROVE  x <= z
            BY <6>3
          <6> QED BY <6>2, <4>6, <5>2, <6>1, <6>3
        <5> QED BY <4>2, <5>2, <5>4, <5>5
      <4> QED BY <4>4, <4>5
    <3>4. Nat \subseteq S
      <4> HIDE DEF S
      <4> QED BY <3>2, <3>3, Induct
    <3>5. j < N /\ N \in S
      BY <2>2, <3>4
    <3> QED BY <2>2, <3>5 DEF p
  <2>7. g[N] \in Seq(Nat) /\ Len(g[N]) = end[N]
    BY <2>2, <2>4
  <2> HIDE DEF end
  <2>8. \A j \in 0..N-1 : \A k \in 1..Len(s[j+1]) : FlattenSeq(s)[end[j] + k] = s[j+1][k]
    BY <2>6, <2>a
  <2>9. FlattenSeq(s) \in Seq(Nat) /\ Len(FlattenSeq(s)) = end[N]
    BY <2>7, <2>a
  <2> QED BY <2>5, <2>8, <2>9 DEF Laid
<1> QED BY <1>1, <1>2

-----------------------------------------------------------------------------
(* What unescape reads. Every byte it makes is one, and it never reads     *)
(* behind the end of the text.                                             *)

LEMMA UnhexRange ==
    ASSUME NEW c \in HexDigits
    PROVE  Unhex(c) \in 0..15
BY DEF HexDigits, Unhex

LEMMA HexByteRange ==
    ASSUME NEW c \in HexDigits, NEW d \in HexDigits
    PROVE  16 * Unhex(c) + Unhex(d) \in 0..255
<1>1. Unhex(c) \in 0..15 /\ Unhex(d) \in 0..15
  BY UnhexRange
<1> QED BY <1>1

LEMMA Characters ==
    ASSUME NEW c \in Nat
    PROVE  /\ c > 127 \/ c \in 0..127 \ {Backslash} \/ c = Backslash
           /\ c > 127 => c \notin 0..127 \ {Backslash} /\ c # Backslash
           /\ c = Backslash => ~(c > 127)
BY DEF Backslash

LEMMA UnescapedRange ==
    ASSUME NEW text \in Seq(Nat), NEW i \in 1..Len(text), NEW u \in Unescaped(text, i)
    PROVE  /\ u.byte \in 0..255 /\ u.size \in Nat /\ u.size > 0
           /\ i + u.size <= Len(text) + 1
<1> DEFINE next == IF i < Len(text) THEN text[i + 1] ELSE -1
           is(b, n) == {[byte |-> b, size |-> n]}
<1>0. text[i] \in Nat /\ Len(text) \in Nat /\ i \in Nat
  OBVIOUS
<1>1. Unescaped(text, i) =
         CASE text[i] > 127 -> {}
          [] text[i] \in 0..127 \ {Backslash} -> is(text[i], 1)
          [] text[i] = Backslash /\ next = 120 ->
                IF i + 3 <= Len(text) /\ {text[i + 2], text[i + 3]} \subseteq HexDigits
                THEN is(16 * Unhex(text[i + 2]) + Unhex(text[i + 3]), 4) ELSE {}
          [] OTHER -> UNION {is(b, 2) : b \in {c \in Named : Letter(c) = next}}
  BY DEF Unescaped
<1>2. CASE text[i] > 127
  <2>1. ~(text[i] \in 0..127 \ {Backslash}) /\ text[i] # Backslash
    BY <1>0, <1>2, Characters
  <2>2. Unescaped(text, i) = {}
    BY <1>1, <1>2, <2>1
  <2> QED BY <2>2
<1>3. CASE text[i] \in 0..127 \ {Backslash}
  <2>1. Unescaped(text, i) = is(text[i], 1)
    BY <1>0, <1>1, <1>3
  <2>2. u = [byte |-> text[i], size |-> 1]
    BY <2>1
  <2>3. u.byte \in 0..255 /\ u.size = 1
    BY <1>0, <1>3, <2>2
  <2> QED BY <1>0, <2>3
<1>4. CASE text[i] = Backslash /\ next = 120
  <2>1. Unescaped(text, i) =
                IF i + 3 <= Len(text) /\ {text[i + 2], text[i + 3]} \subseteq HexDigits
                THEN is(16 * Unhex(text[i + 2]) + Unhex(text[i + 3]), 4) ELSE {}
    BY <1>1, <1>4 DEF Backslash
  <2>2. /\ i + 3 <= Len(text) /\ {text[i + 2], text[i + 3]} \subseteq HexDigits
        /\ u = [byte |-> 16 * Unhex(text[i + 2]) + Unhex(text[i + 3]), size |-> 4]
    BY <2>1
  <2>3. u.byte \in 0..255
    BY <2>2, HexByteRange
  <2> QED BY <1>0, <2>2, <2>3
<1>5. CASE text[i] = Backslash /\ next # 120
  <2>1. Unescaped(text, i) = UNION {is(b, 2) : b \in {c \in Named : Letter(c) = next}}
    BY <1>1, <1>5 DEF Backslash
  <2>2. PICK b \in Named : Letter(b) = next /\ u = [byte |-> b, size |-> 2]
    BY <2>1
  <2>3. b \in 0..255 /\ Letter(b) # -1
    BY DEF Named, Letter, Backslash
  <2>4. i < Len(text)
    BY <2>2, <2>3
  <2> HIDE DEF next
  <2> QED BY <1>0, <2>2, <2>3, <2>4
<1>6. \/ text[i] > 127 \/ text[i] \in 0..127 \ {Backslash}
      \/ text[i] = Backslash
  BY <1>0, Characters
<1> QED BY <1>2, <1>3, <1>4, <1>5, <1>6

After(from, i, u) == {<<u.byte>> \o rest : rest \in from[i + u.size]}
Rest(text, from, i) == UNION {After(from, i, u) : u \in Unescaped(text, i)}

(* Unescape is a recursive function from the end of the text backwards; it *)
(* exists by induction on the number of characters from there.             *)
LEMMA UnescapeDef ==
    ASSUME NEW text \in Seq(Nat)
    PROVE  \E from :
              /\ from = [i \in 1..Len(text)+1 |->
                          IF i = Len(text)+1 THEN {<<>>} ELSE Rest(text, from, i)]
              /\ Unescape(text) = from[1]
<1> DEFINE L == Len(text)
           R(f, n) == f = [i \in (L+1-n)..L+1 |->
                              IF i = L+1 THEN {<<>>} ELSE Rest(text, f, i)]
           S == {n \in Nat : n <= L => \E f : R(f, n)}
<1>0. L \in Nat
  OBVIOUS
<1> HIDE DEF L
<1>1. 0 \in S
  <2>1. R([i \in (L+1)..L+1 |-> {<<>>}], 0)
    BY <1>0
  <2> QED BY <2>1
<1>2. ASSUME NEW n \in Nat, n \in S PROVE n + 1 \in S
  <2> SUFFICES ASSUME n + 1 <= L PROVE \E f : R(f, n + 1)
    OBVIOUS
  <2>1. PICK f : R(f, n)
    BY <1>0, <1>2
  <2> DEFINE k == L - n
             g == [i \in k..L+1 |-> IF i = k THEN Rest(text, f, k) ELSE f[i]]
  <2>2. k \in 1..L /\ L+1-n = k+1 /\ L+1-(n+1) = k
    BY <1>0
  <2> HIDE DEF k
  <2>3. \A i \in k+1..L+1 : f[i] = IF i = L+1 THEN {<<>>} ELSE Rest(text, f, i)
    BY <2>1, <2>2
  <2>4. \A i \in k+1..L+1 : g[i] = f[i]
    BY <2>2, <1>0
  <2>5. ASSUME NEW i \in k..L PROVE Rest(text, g, i) = Rest(text, f, i)
    <3>1. \A u \in Unescaped(text, i) : i + u.size \in k+1..L+1
      BY <1>0, <2>2, UnescapedRange DEF L
    <3>2. \A u \in Unescaped(text, i) : g[i + u.size] = f[i + u.size]
      BY <2>4, <3>1
    <3> HIDE DEF g
    <3> QED BY <3>2 DEF Rest, After
  <2>6. ASSUME NEW i \in k..L+1 PROVE g[i] = IF i = L+1 THEN {<<>>} ELSE Rest(text, g, i)
    <3>1. CASE i = k
      BY <1>0, <2>2, <2>5, <3>1
    <3>2. CASE i # k /\ i # L+1
      <4>1. i \in k+1..L+1 /\ i \in k..L
        BY <1>0, <2>2, <3>2
      <4> QED BY <2>3, <2>4, <2>5, <3>2, <4>1
    <3>3. CASE i = L+1
      <4>1. i \in k+1..L+1
        BY <1>0, <2>2, <3>3
      <4> QED BY <2>3, <2>4, <3>3, <4>1
    <3> QED BY <3>1, <3>2, <3>3
  <2>7. R(g, n + 1)
    BY <2>2, <2>6
  <2> QED BY <2>7
<1>3. Nat \subseteq S
  <2> HIDE DEF S
  <2> QED BY <1>1, <1>2, Induct
<1>4. \E f : f = [i \in 1..L+1 |-> IF i = L+1 THEN {<<>>} ELSE Rest(text, f, i)]
  <2>1. L \in S /\ L+1-L = 1
    <3> HIDE DEF S
    <3> QED BY <1>0, <1>3
  <2>2. \E f : R(f, L)
    <3> HIDE DEF R
    <3> QED BY <1>0, <2>1
  <2> QED BY <2>1, <2>2
<1> DEFINE h == CHOOSE f : f = [i \in 1..Len(text) + 1 |->
                     IF i = Len(text) + 1 THEN {<<>>}
            ELSE UNION {{<<u.byte>> \o rest : rest \in f[i + u.size]} :
                            u \in Unescaped(text, i)}]
<1>5. h = [i \in 1..L+1 |-> IF i = L+1 THEN {<<>>} ELSE Rest(text, h, i)]
  BY <1>4 DEF Rest, After, L
<1>6. Unescape(text) = h[1]
  BY DEF Unescape
<1> HIDE DEF h
<1> QED BY <1>5, <1>6 DEF L

LEMMA PutFirst ==
    ASSUME NEW b \in 0..255, NEW rest \in Seq(0..255)
    PROVE  <<b>> \o rest \in Seq(0..255)
<1>1. <<b>> \in Seq(0..255)
  OBVIOUS
<1> QED BY <1>1

(* Whatever the text, what unescape makes of it is bytes; so is what hex   *)
(* digits are taken for, and so what any AttrData is.                      *)
LEMMA UnescapeTyped ==
    ASSUME NEW text \in Seq(Nat)
    PROVE  Unescape(text) \subseteq Seq(0..255)
<1>1. PICK from :
         /\ from = [i \in 1..Len(text)+1 |->
                     IF i = Len(text)+1 THEN {<<>>} ELSE Rest(text, from, i)]
         /\ Unescape(text) = from[1]
  BY UnescapeDef
<1> DEFINE L == Len(text)
           S == {n \in Nat :
                    \A i \in 1..L+1 : i >= L+1-n => from[i] \subseteq Seq(0..255)}
<1>0. L \in Nat
  OBVIOUS
<1>a. \A i \in 1..L+1 : from[i] = IF i = L+1 THEN {<<>>} ELSE Rest(text, from, i)
  BY <1>1
<1> HIDE DEF L
<1>2. 0 \in S
  <2>1. <<>> \in Seq(0..255)
    OBVIOUS
  <2>2. ASSUME NEW i \in 1..L+1, i >= L+1-0 PROVE from[i] \subseteq Seq(0..255)
    <3>1. i = L+1
      BY <1>0, <2>2
    <3> QED BY <1>a, <2>1, <3>1
  <2> QED BY <2>2
<1>3. ASSUME NEW n \in Nat, n \in S PROVE n + 1 \in S
  <2>1. SUFFICES ASSUME NEW i \in 1..L+1, i >= L+1-(n+1), NEW v \in from[i]
                 PROVE  v \in Seq(0..255)
    OBVIOUS
  <2>2. CASE i = L+1
    <3>1. i >= L+1-n
      BY <1>0, <2>2
    <3> QED BY <1>3, <3>1
  <2>3. CASE i # L+1
    <3>1. i \in 1..L
      BY <1>0, <2>3
    <3>2. v \in Rest(text, from, i)
      BY <1>a, <2>3
    <3>3. PICK u \in Unescaped(text, i) :
             \E rest \in from[i + u.size] : v = <<u.byte>> \o rest
      BY <3>2 DEF Rest, After
    <3>4. PICK rest \in from[i + u.size] : v = <<u.byte>> \o rest
      BY <3>3
    <3>5. /\ u.byte \in 0..255 /\ u.size \in Nat /\ u.size > 0 /\ i + u.size <= L + 1
      BY <3>1, UnescapedRange DEF L
    <3>6. i + u.size \in 1..L+1 /\ i + u.size >= L+1-n
      BY <1>0, <2>1, <3>1, <3>5
    <3>7. rest \in Seq(0..255)
      BY <1>3, <3>4, <3>6
    <3> QED BY <3>4, <3>5, <3>7, PutFirst
  <2> QED BY <2>2, <2>3
<1>4. Nat \subseteq S
  <2> HIDE DEF S
  <2> QED BY <1>2, <1>3, Induct
<1>5. L \in S /\ 1 \in 1..L+1 /\ 1 >= L+1-L
  <2> HIDE DEF S
  <2> QED BY <1>0, <1>4
<1>6. from[1] \subseteq Seq(0..255)
  BY <1>5
<1> QED BY <1>1, <1>6

LEMMA HexBytesTyped ==
    ASSUME NEW text \in Seq(Nat), LooksLikeHex(text)
    PROVE  HexBytes(text) \in Seq(0..255)
<1> DEFINE n == (Len(text) + 1) \div 3
<1>1. Len(text) \in Nat /\ Len(text) % 3 = 2
  BY DEF LooksLikeHex
<1>2. n \in Nat /\ Len(text) = 3 * n - 1
  BY <1>1
<1> HIDE DEF n
<1>3. ASSUME NEW i \in 1..n
      PROVE  16 * Unhex(text[3*i - 2]) + Unhex(text[3*i - 1]) \in 0..255
  <2>1. 3*i - 2 \in 1..Len(text) /\ 3*i - 1 \in 1..Len(text)
    BY <1>2
  <2>2. (3*i - 2) % 3 # 0 /\ (3*i - 1) % 3 # 0
    OBVIOUS
  <2>3. text[3*i - 2] \in HexDigits /\ text[3*i - 1] \in HexDigits
    <3>1. DOMAIN text = 1..Len(text)
      OBVIOUS
    <3> QED BY <2>1, <2>2, <3>1 DEF LooksLikeHex
  <2> QED BY <2>3, HexByteRange
<1>4. [i \in 1..n |-> 16 * Unhex(text[3*i - 2]) + Unhex(text[3*i - 1])] \in Seq(0..255)
  BY <1>2, <1>3
<1> QED BY <1>4 DEF HexBytes, n

LEMMA ToBytesTyped ==
    ASSUME NEW data, data.kind = "Str" => data.text \in Seq(Nat)
    PROVE  ToBytes(data) \subseteq Seq(0..255)
BY UnescapeTyped, HexBytesTyped DEF ToBytes

-----------------------------------------------------------------------------
(* What escape and as_hex write, and that it is read back.                 *)

LEMMA PairIs ==
    ASSUME NEW b \in 0..255
    PROVE  /\ Pair(b) \in Seq(Nat) /\ Len(Pair(b)) = 2
           /\ Pair(b)[1] \in HexDigits /\ Pair(b)[2] \in HexDigits
           /\ 16 * Unhex(Pair(b)[1]) + Unhex(Pair(b)[2]) = b
<1>1. b \div 16 \in 0..15 /\ b % 16 \in 0..15 /\ b = 16 * (b \div 16) + (b % 16)
  OBVIOUS
<1>2. \A n \in 0..15 : Hex(n) \in HexDigits /\ Hex(n) \in Nat /\ Unhex(Hex(n)) = n
  BY DEF Hex, HexDigits, Unhex
<1> QED BY <1>1, <1>2 DEF Pair

(* The three ways in which escape writes a byte.                           *)
LEMMA EscapedIs ==
    ASSUME NEW b \in 0..255
    PROVE  /\ Escaped(b) \in Seq(Nat)
           /\ \/ /\ b \in Named /\ Len(Escaped(b)) = 2
                 /\ Escaped(b)[1] = Backslash /\ Escaped(b)[2] = Letter(b)
              \/ /\ b \in 0..127 \ {Backslash} /\ Len(Escaped(b)) = 1 /\ Escaped(b)[1] = b
              \/ /\ Len(Escaped(b)) = 4
                 /\ Escaped(b)[1] = Backslash /\ Escaped(b)[2] = 120
                 /\ Escaped(b)[3] \in HexDigits /\ Escaped(b)[4] \in HexDigits
                 /\ 16 * Unhex(Escaped(b)[3]) + Unhex(Escaped(b)[4]) = b
<1>1. CASE b \in Named
  <2>1. Escaped(b) = <<Backslash, Letter(b)>>
    BY <1>1 DEF Escaped
  <2>2. Letter(b) \in Nat /\ Backslash \in Nat
    BY <1>1 DEF Letter, Named, Backslash
  <2> QED BY <1>1, <2>1, <2>2
<1>2. CASE b \notin Named /\ b \in 32..126
  <2>1. Escaped(b) = <<b>>
    BY <1>2 DEF Escaped
  <2>2. b \in 0..127 \ {Backslash} /\ b \in Nat
    BY <1>2 DEF Named
  <2> QED BY <2>1, <2>2
<1>3. CASE b \notin Named /\ b \notin 32..126
  <2>1. Escaped(b) = <<Backslash, 120>> \o Pair(b)
    BY <1>3 DEF Escaped
  <2> DEFINE p == Pair(b)
  <2>2. p = <<p[1], p[2]>> /\ p[1] \in Nat /\ p[2] \in Nat
    BY PairIs DEF Pair
  <2> DEFINE q == <<Backslash, 120>>
  <2>3. q \in Seq(Nat) /\ Len(q) = 2 /\ q[1] = Backslash /\ q[2] = 120
    BY DEF Backslash
  <2>4. p \in Seq(Nat) /\ Len(p) = 2 /\ Escaped(b) = q \o p
    BY <2>1, PairIs
  <2> HIDE DEF p, q
  <2>5. 1 \in 1..Len(q) /\ 2 \in 1..Len(q) /\ 1 \in 1..Len(p) /\ 2 \in 1..Len(p)
    BY <2>3, <2>4
  <2>6. (q \o p)[1] = q[1] /\ (q \o p)[2] = q[2]
    <3>1. \A k \in 1..Len(q) : (q \o p)[k] = q[k]
      BY <2>3, <2>4, ConcatLeft
    <3> QED BY <2>5, <3>1
  <2>7. (q \o p)[Len(q) + 1] = p[1] /\ (q \o p)[Len(q) + 2] = p[2]
    BY <2>3, <2>4, <2>5, ConcatRight
  <2>8. Len(q) + 1 = 3 /\ Len(q) + 2 = 4 /\ q \o p \in Seq(Nat) /\ Len(q \o p) = 4
    <3>1. q \o p \in Seq(Nat) /\ Len(q \o p) = Len(q) + Len(p)
      BY <2>3, <2>4, Concat
    <3> QED BY <2>3, <2>4, <3>1
  <2> QED BY <2>3, <2>4, <2>6, <2>7, <2>8, PairIs DEF p
<1> QED BY <1>1, <1>2, <1>3

(* No two bytes are escaped by the same letter, and none by the x of a hex *)
(* escape.                                                                 *)
LEMMA LettersApart ==
    ASSUME NEW b \in Named, NEW c \in Named, Letter(b) = Letter(c)
    PROVE  b = c
BY DEF Named, Letter, Backslash

LEMMA NamedNotX ==
    ASSUME NEW b \in Named
    PROVE  Letter(b) # 120 /\ Letter(b) # -1
BY DEF Named, Letter, Backslash

(* Where a text has what escape writes for a byte, unescape reads that     *)
(* byte and goes on behind it.                                             *)
LEMMA ReadsBack ==
    ASSUME NEW text \in Seq(Nat), NEW p \in Nat, NEW b \in 0..255,
           p + Len(Escaped(b)) <= Len(text),
           \A k \in 1..Len(Escaped(b)) : text[p + k] = Escaped(b)[k]
    PROVE  Unescaped(text, p + 1) = {[byte |-> b, size |-> Len(Escaped(b))]}
<1> DEFINE i == p + 1
           e == Escaped(b)
           next == IF i < Len(text) THEN text[i + 1] ELSE -1
           is(y, n) == {[byte |-> y, size |-> n]}
<1>1. Unescaped(text, i) =
         CASE text[i] > 127 -> {}
          [] text[i] \in 0..127 \ {Backslash} -> is(text[i], 1)
          [] text[i] = Backslash /\ next = 120 ->
                IF i + 3 <= Len(text) /\ {text[i + 2], text[i + 3]} \subseteq HexDigits
                THEN is(16 * Unhex(text[i + 2]) + Unhex(text[i + 3]), 4) ELSE {}
          [] OTHER -> UNION {is(y, 2) : y \in {c \in Named : Letter(c) = next}}
  BY DEF Unescaped
<1>2. Len(e) \in {1, 2, 4} /\ text[p + 1] = e[1]
  <2>1. Len(Escaped(b)) \in {1, 2, 4}
    BY EscapedIs
  <2>2. 1 \in 1..Len(Escaped(b))
    <3>1. \A n \in {1, 2, 4} : 1 \in 1..n
      OBVIOUS
    <3> QED BY <2>1, <3>1
  <2> QED BY <2>1, <2>2
<1>3. Len(text) \in Nat
  OBVIOUS
<1>4. CASE b \in 0..127 \ {Backslash} /\ Len(e) = 1 /\ e[1] = b
  <2>1. text[i] \in 0..127 \ {Backslash} /\ ~(text[i] > 127) /\ text[i] = b
    BY <1>2, <1>4
  <2> QED BY <1>1, <1>4, <2>1
<1>5. CASE b \in Named /\ Len(e) = 2 /\ e[1] = Backslash /\ e[2] = Letter(b)
  <2>1. text[p + 2] = e[2] /\ i + 1 = p + 2 /\ i < Len(text)
    BY <1>3, <1>5
  <2>2. next = Letter(b) /\ next # 120 /\ text[i] = Backslash
    BY <1>2, <1>5, <2>1, NamedNotX
  <2> HIDE DEF next
  <2>3. Unescaped(text, i) = UNION {is(y, 2) : y \in {c \in Named : Letter(c) = next}}
    BY <1>1, <2>2 DEF Backslash
  <2>4. {c \in Named : Letter(c) = next} = {b}
    BY <1>5, <2>2, LettersApart
  <2>5. UNION {is(y, 2) : y \in {b}} = is(b, 2)
    OBVIOUS
  <2> QED BY <1>5, <2>3, <2>4, <2>5
<1>6. CASE /\ Len(e) = 4 /\ e[1] = Backslash /\ e[2] = 120
           /\ e[3] \in HexDigits /\ e[4] \in HexDigits
           /\ 16 * Unhex(e[3]) + Unhex(e[4]) = b
  <2>1. /\ i + 1 = p + 2 /\ i + 2 = p + 3 /\ i + 3 = p + 4
        /\ i < Len(text) /\ i + 3 <= Len(text)
    BY <1>3, <1>6
  <2>2. text[p + 2] = e[2] /\ text[p + 3] = e[3] /\ text[p + 4] = e[4]
    BY <1>6
  <2>3. next = 120 /\ text[i] = Backslash /\ text[i + 2] = e[3] /\ text[i + 3] = e[4]
    BY <1>2, <1>6, <2>1, <2>2
  <2> HIDE DEF next
  <2>4. Unescaped(text, i) =
                IF i + 3 <= Len(text) /\ {text[i + 2], text[i + 3]} \subseteq HexDigits
                THEN is(16 * Unhex(text[i + 2]) + Unhex(text[i + 3]), 4) ELSE {}
    BY <1>1, <2>3 DEF Backslash
  <2> HIDE DEF e
  <2>5. Unescaped(text, i) = is(16 * Unhex(e[3]) + Unhex(e[4]), 4)
    BY <2>1, <2>3, <2>4, <1>6
  <2> QED BY <1>6, <2>5 DEF e
<1>7. \/ b \in 0..127 \ {Backslash} /\ Len(e) = 1 /\ e[1] = b
      \/ b \in Named /\ Len(e) = 2 /\ e[1] = Backslash /\ e[2] = Letter(b)
      \/ /\ Len(e) = 4 /\ e[1] = Backslash /\ e[2] = 120
         /\ e[3] \in HexDigits /\ e[4] \in HexDigits
         /\ 16 * Unhex(e[3]) + Unhex(e[4]) = b
  BY EscapedIs DEF e
<1> QED BY <1>4, <1>5, <1>6, <1>7

LEMMA RestOfOne ==
    ASSUME NEW text, NEW from, NEW i, NEW r, Unescaped(text, i) = {r}
    PROVE  Rest(text, from, i) = After(from, i, r)
<1>1. {After(from, i, u) : u \in {r}} = {After(from, i, r)}
  OBVIOUS
<1>2. UNION {After(from, i, r)} = After(from, i, r)
  OBVIOUS
<1> QED BY <1>1, <1>2 DEF Rest

(* For bytes of any number, unescape of what escape writes is the bytes    *)
(* again and nothing else: by induction on how many bytes are left, at the *)
(* places where escape put them.                                           *)
THEOREM UnescapeEscape ==
    ASSUME NEW a \in Seq(0..255)
    PROVE  Escape(a) \in Seq(Nat) /\ Unescape(Escape(a)) = {a}
<1> DEFINE N == Len(a)
<1>0. N \in Nat /\ DOMAIN a = 1..N /\ \A i \in 1..N : a[i] \in 0..255
  BY LenProperties, ElementOfSeq, Zenon
<1> DEFINE s == [i \in DOMAIN a |-> Escaped(a[i])]
           text == Escape(a)
           L == Len(text)
<1>1. s \in Seq(Seq(Nat)) /\ Len(s) = N /\ \A i \in 1..N : s[i] = Escaped(a[i])
  <2>1. \A i \in 1..N : Escaped(a[i]) \in Seq(Nat)
    BY <1>0, EscapedIs
  <2> QED BY <1>0, <2>1
<1>2. text = FlattenSeq(s)
  BY DEF Escape
<1> HIDE DEF N, s, text
<1>a. PICK end : Laid(s, end)
  BY <1>1, FlattenParts
<1>3. /\ Parts(s, end)
      /\ text \in Seq(Nat) /\ Len(text) = end[Len(s)]
      /\ \A j \in 0..Len(s)-1 : \A k \in 1..Len(s[j+1]) :
            text[end[j] + k] = s[j+1][k]
  BY <1>2, <1>a DEF Laid
<1>4. L \in Nat /\ L = end[N]
  BY <1>1, <1>3
<1>5. PICK from :
         /\ from = [i \in 1..L+1 |->
                     IF i = L+1 THEN {<<>>} ELSE Rest(text, from, i)]
         /\ Unescape(text) = from[1]
  BY <1>3, UnescapeDef
<1> HIDE DEF L
<1>6. \A i \in 1..L+1 : from[i] = IF i = L+1 THEN {<<>>} ELSE Rest(text, from, i)
  BY <1>5
<1>7. /\ end \in [0..N -> Nat] /\ end[0] = 0
      /\ \A j \in 0..N-1 : end[j+1] = end[j] + Len(s[j+1])
  BY <1>1, <1>3 DEF Parts
<1> DEFINE Good(j) == end[j] <= L /\ from[end[j] + 1] = {SubSeq(a, j + 1, N)}
           S == {n \in Nat : \A j \in 0..N : j + n = N => Good(j)}
<1>8. 0 \in S
  <2>1. L + 1 \in 1..L+1 /\ L <= L
    BY <1>4
  <2>2. from[L + 1] = {<<>>}
    BY <1>6, <2>1
  <2>3. SubSeq(a, N + 1, N) = <<>>
    BY <1>0 DEF N
  <2>4. Good(N)
    BY <1>4, <2>1, <2>2, <2>3
  <2> HIDE DEF Good
  <2>5. \A j \in 0..N : j + 0 = N => j = N
    BY <1>0
  <2> QED BY <2>4, <2>5
<1>9. ASSUME NEW n \in Nat, n \in S PROVE n + 1 \in S
  <2> SUFFICES ASSUME NEW j \in 0..N, j + (n + 1) = N
               PROVE  Good(j)
    <3> HIDE DEF Good
    <3> QED OBVIOUS
  <2> DEFINE b == a[j + 1]
             e == Escaped(b)
             p == end[j]
             r == [byte |-> b, size |-> Len(e)]
  <2>1. /\ j \in 0..N-1 /\ j + 1 \in 1..N /\ j + 1 \in 0..N /\ (j + 1) + n = N
        /\ j \in Nat /\ j < N
    BY <1>0
  <2>2. b \in 0..255 /\ s[j + 1] = e
    BY <1>0, <1>1, <2>1
  <2>3. Len(e) \in Nat /\ Len(e) > 0
    <3>1. Len(Escaped(b)) \in {1, 2, 4}
      BY <2>2, EscapedIs
    <3>2. \A x \in {1, 2, 4} : x \in Nat /\ x > 0
      OBVIOUS
    <3> HIDE DEF b
    <3> QED BY <3>1, <3>2
  <2>4. end[j + 1] = p + Len(e) /\ p \in Nat /\ end[j + 1] \in Nat
    BY <1>7, <2>1, <2>2
  <2>5. Good(j + 1)
    BY <1>9, <2>1
  <2>6. \A k \in 1..Len(e) : text[p + k] = e[k]
    BY <1>1, <1>3, <2>1, <2>2
  <2>7. p + Len(e) <= L /\ p <= L /\ p + 1 \in 1..L+1 /\ p + 1 # L + 1
    BY <1>4, <2>3, <2>4, <2>5
  <2> HIDE DEF b, p
  <2>8. Unescaped(text, p + 1) = {r}
    BY <1>3, <2>2, <2>4, <2>6, <2>7, ReadsBack DEF L
  <2>9. r.byte = b /\ r.size = Len(e)
    OBVIOUS
  <2> HIDE DEF e, r
  <2>10. from[p + 1] = Rest(text, from, p + 1)
    BY <1>6, <2>7
  <2>11. (p + 1) + r.size = end[j + 1] + 1
    BY <2>3, <2>4, <2>9
  <2>12. Rest(text, from, p + 1) = After(from, p + 1, r)
    BY <2>8, RestOfOne
  <2>13. <<b>> \o SubSeq(a, j + 2, N) = SubSeq(a, j + 1, N)
    <3>1. N \in j + 1..N /\ j + 1 + 1 = j + 2
      BY <1>0, <2>1
    <3> QED BY <2>1, <3>1, SubSeqRecursiveFirst DEF N, b
  <2>14. from[(p + 1) + r.size] = {SubSeq(a, j + 2, N)}
    <3>1. (j + 1) + 1 = j + 2
      BY <2>1
    <3> QED BY <2>5, <2>11, <3>1
  <2>15. from[p + 1] = {SubSeq(a, j + 1, N)}
    BY <2>9, <2>10, <2>12, <2>13, <2>14 DEF After
  <2> QED BY <2>7, <2>15 DEF p
<1>10. Nat \subseteq S
  <2> HIDE DEF S
  <2> QED BY <1>8, <1>9, Induct
<1>11. Good(0)
  <2>1. N \in S /\ 0 + N = N /\ 0 \in 0..N
    <3> HIDE DEF S
    <3> QED BY <1>0, <1>10
  <2> HIDE DEF Good
  <2> QED BY <2>1
<1>12. SubSeq(a, 1, N) = a
  BY <1>0 DEF N
<1>13. from[1] = {a}
  <2>1. end[0] + 1 = 1 /\ 0 + 1 = 1
    BY <1>7
  <2> QED BY <2>1, <1>11, <1>12
<1> QED BY <1>3, <1>5, <1>13 DEF text

LEMMA EscapeEmpty == Escape(<<>>) = <<>> /\ AsHex(<<>>) = <<>>
<1>1. DOMAIN <<>> = {}
  OBVIOUS
<1>2. [i \in DOMAIN <<>> |-> Escaped(<<>>[i])] = <<>>
  BY <1>1
<1>3. [i \in DOMAIN <<>> |->
        IF i > 1 THEN <<Colon>> \o Pair(<<>>[i]) ELSE Pair(<<>>[i])] = <<>>
  BY <1>1
<1>4. FlattenSeq(<<>>) = <<>>
  BY DEF FlattenSeq
<1> QED BY <1>2, <1>3, <1>4 DEF Escape, AsHex

(* The text of an id has the digits of the j-th byte at 3j - 2 and 3j - 1, *)
(* and colons in between.                                                  *)
LEMMA AsHexIs ==
    ASSUME NEW a \in Seq(0..255), a # <<>>
    PROVE  /\ AsHex(a) \in Seq(Nat) /\ Len(AsHex(a)) = 3 * Len(a) - 1
           /\ \A j \in 1..Len(a) : /\ AsHex(a)[3 * j - 2] = Pair(a[j])[1]
                                   /\ AsHex(a)[3 * j - 1] = Pair(a[j])[2]
                                   /\ j > 1 => AsHex(a)[3 * j - 3] = Colon
<1> DEFINE N == Len(a)
<1>0. N \in Nat /\ N > 0 /\ DOMAIN a = 1..N /\ \A i \in 1..N : a[i] \in 0..255
  <2>1. N \in Nat /\ DOMAIN a = 1..N /\ \A i \in 1..N : a[i] \in 0..255
    BY LenProperties, ElementOfSeq, Zenon
  <2>2. N # 0
    OBVIOUS
  <2> QED BY <2>1, <2>2
<1> DEFINE s == [i \in DOMAIN a |-> IF i > 1 THEN <<Colon>> \o Pair(a[i]) ELSE Pair(a[i])]
           text == AsHex(a)
<1>1. \A i \in 1..N : Pair(a[i]) \in Seq(Nat) /\ Len(Pair(a[i])) = 2
  BY <1>0, PairIs
<1>2. ASSUME NEW i \in 1..N, i > 1
      PROVE  /\ s[i] \in Seq(Nat) /\ Len(s[i]) = 3 /\ s[i][1] = Colon
             /\ s[i][2] = Pair(a[i])[1] /\ s[i][3] = Pair(a[i])[2]
  <2> DEFINE q == <<Colon>>
             p == Pair(a[i])
  <2>1. s[i] = q \o p
    BY <1>0, <1>2
  <2>2. q \in Seq(Nat) /\ Len(q) = 1 /\ q[1] = Colon
    BY DEF Colon
  <2>3. p \in Seq(Nat) /\ Len(p) = 2
    BY <1>1
  <2> HIDE DEF p, q
  <2>4. 1 \in 1..Len(q) /\ 1 \in 1..Len(p) /\ 2 \in 1..Len(p)
    BY <2>2, <2>3
  <2>5. q \o p \in Seq(Nat) /\ Len(q \o p) = Len(q) + Len(p)
    BY <2>2, <2>3, Concat
  <2>6. (q \o p)[1] = q[1]
    BY <2>2, <2>3, <2>4, ConcatLeft
  <2>7. (q \o p)[Len(q) + 1] = p[1] /\ (q \o p)[Len(q) + 2] = p[2]
    BY <2>2, <2>3, <2>4, ConcatRight
  <2>8. Len(q) + Len(p) = 3 /\ Len(q) + 1 = 2 /\ Len(q) + 2 = 3
    BY <2>2, <2>3
  <2> QED BY <2>1, <2>2, <2>5, <2>6, <2>7, <2>8 DEF p
<1>3. s[1] = Pair(a[1]) /\ 1 \in 1..N
  BY <1>0
<1>4. s \in Seq(Seq(Nat)) /\ Len(s) = N
  <2>1. \A i \in 1..N : s[i] \in Seq(Nat)
    <3> SUFFICES ASSUME NEW i \in 1..N PROVE s[i] \in Seq(Nat)
      OBVIOUS
    <3>1. i = 1 \/ i > 1
      OBVIOUS
    <3> QED BY <1>1, <1>2, <1>3, <3>1
  <2> QED BY <1>0, <2>1
<1>5. text = FlattenSeq(s)
  BY DEF AsHex
<1> HIDE DEF N, s, text
<1>6. PICK end : Laid(s, end)
  BY <1>4, FlattenParts
<1>7. /\ end \in [0..N -> Nat] /\ end[0] = 0
      /\ \A j \in 0..N-1 : end[j+1] = end[j] + Len(s[j+1])
  BY <1>4, <1>6 DEF Laid, Parts
<1>8. /\ text \in Seq(Nat) /\ Len(text) = end[N]
      /\ \A j \in 0..N-1 : \A k \in 1..Len(s[j+1]) : text[end[j] + k] = s[j+1][k]
  BY <1>4, <1>5, <1>6 DEF Laid
<1> DEFINE S == {n \in Nat : n + 1 <= N => end[n + 1] = 3 * n + 2}
<1>9. 0 \in S
  <2>1. 0 \in 0..N-1 /\ 0 + 1 = 1
    BY <1>0
  <2>2. end[0 + 1] = end[0] + Len(s[0 + 1])
    BY <1>7, <2>1
  <2>3. Len(s[1]) = 2
    BY <1>1, <1>3
  <2>4. end[0 + 1] = 2 /\ 3 * 0 + 2 = 2
    BY <1>7, <2>1, <2>2, <2>3
  <2> QED BY <2>4
<1>10. ASSUME NEW n \in Nat, n \in S PROVE n + 1 \in S
  <2> SUFFICES ASSUME n + 1 + 1 <= N PROVE end[n + 1 + 1] = 3 * (n + 1) + 2
    OBVIOUS
  <2>1. n + 1 \in 0..N-1 /\ n + 1 + 1 \in 1..N /\ n + 1 + 1 > 1 /\ n + 1 <= N
    BY <1>0
  <2>2. end[n + 1 + 1] = end[n + 1] + Len(s[n + 1 + 1])
    BY <1>7, <2>1
  <2>3. end[n + 1] = 3 * n + 2 /\ Len(s[n + 1 + 1]) = 3
    BY <1>2, <1>10, <2>1
  <2> QED BY <2>2, <2>3
<1>11. Nat \subseteq S
  <2> HIDE DEF S
  <2> QED BY <1>9, <1>10, Induct
<1>12. \A j \in 1..N : end[j] = 3 * j - 1
  <2> SUFFICES ASSUME NEW j \in 1..N PROVE end[j] = 3 * j - 1
    OBVIOUS
  <2>1. j - 1 \in S /\ (j - 1) + 1 = j /\ j <= N
    <3> HIDE DEF S
    <3> QED BY <1>0, <1>11
  <2>2. end[j] = 3 * (j - 1) + 2
    BY <2>1
  <2> QED BY <2>2
<1> HIDE DEF S
<1>13. ASSUME NEW j \in 1..N
       PROVE  /\ text[3 * j - 2] = Pair(a[j])[1] /\ text[3 * j - 1] = Pair(a[j])[2]
              /\ j > 1 => text[3 * j - 3] = Colon
  <2> DEFINE i == j - 1
  <2>1. i \in 0..N-1 /\ i + 1 = j
    BY <1>0
  <2> HIDE DEF i
  <2>2. \A k \in 1..Len(s[j]) : text[end[i] + k] = s[j][k]
    BY <1>8, <2>1
  <2>3. CASE j = 1
    <3>1. end[i] = 0 /\ s[j] = Pair(a[j]) /\ Len(s[j]) = 2
      BY <1>1, <1>3, <1>7, <2>1, <2>3
    <3>2. 1 \in 1..Len(s[j]) /\ 2 \in 1..Len(s[j]) /\ 0 + 1 = 1 /\ 0 + 2 = 2
      BY <3>1
    <3>3. text[1] = Pair(a[j])[1] /\ text[2] = Pair(a[j])[2]
      BY <2>2, <3>1, <3>2
    <3>4. 3 * j - 2 = 1 /\ 3 * j - 1 = 2 /\ ~(j > 1)
      BY <2>3
    <3> QED BY <3>3, <3>4
  <2>4. CASE j > 1
    <3>1. i \in 1..N
      BY <1>0, <2>1, <2>4
    <3>2. end[i] = 3 * i - 1
      BY <1>12, <3>1
    <3>3. /\ Len(s[j]) = 3 /\ s[j][1] = Colon
          /\ s[j][2] = Pair(a[j])[1] /\ s[j][3] = Pair(a[j])[2]
      BY <1>2, <2>4
    <3>4. 1 \in 1..Len(s[j]) /\ 2 \in 1..Len(s[j]) /\ 3 \in 1..Len(s[j])
      BY <3>3
    <3>5. end[i] + 1 = 3 * j - 3 /\ end[i] + 2 = 3 * j - 2 /\ end[i] + 3 = 3 * j - 1
      BY <2>1, <3>1, <3>2
    <3> QED BY <2>2, <3>3, <3>4, <3>5
  <2>5. j = 1 \/ j > 1
    OBVIOUS
  <2> QED BY <2>3, <2>4, <2>5
<1>14. Len(text) = 3 * N - 1
  BY <1>0, <1>8, <1>12
<1> QED BY <1>8, <1>13, <1>14 DEF N, text

(* A shown id looks like hex, and is read as the id.                       *)
THEOREM HexReadsBack ==
    ASSUME NEW a \in Seq(0..255)
    PROVE  AsHex(a) \in Seq(Nat) /\ ToBytes(Str(AsHex(a))) = {a}
<1>1. CASE a = <<>>
  <2>1. AsHex(a) = <<>> /\ <<>> \in Seq(Nat) /\ Unescape(<<>>) = {<<>>}
    BY <1>1, EscapeEmpty, UnescapeEscape
  <2>2. ~LooksLikeHex(<<>>)
    BY DEF LooksLikeHex
  <2> QED BY <1>1, <2>1, <2>2 DEF ToBytes, Str
<1>2. CASE a # <<>>
  <2> DEFINE N == Len(a)
             text == AsHex(a)
  <2>1. N \in Nat /\ DOMAIN a = 1..N /\ \A i \in 1..N : a[i] \in 0..255
    BY LenProperties, ElementOfSeq, Zenon
  <2>2. /\ text \in Seq(Nat) /\ Len(text) = 3 * N - 1
        /\ \A j \in 1..N : /\ text[3 * j - 2] = Pair(a[j])[1]
                           /\ text[3 * j - 1] = Pair(a[j])[2]
                           /\ j > 1 => text[3 * j - 3] = Colon
    BY <1>2, AsHexIs
  <2>3. DOMAIN text = 1..3 * N - 1
    BY <2>2, LenProperties, Zenon
  <2> HIDE DEF text, N
  <2>4. ASSUME NEW i \in 1..3 * N - 1
        PROVE  IF i % 3 = 0 THEN text[i] = Colon ELSE text[i] \in HexDigits
    <3> DEFINE j == (i + 2) \div 3
    <3>1. CASE i % 3 = 0
      <4>1. i = 3 * (j + 1) - 3 /\ j + 1 \in 1..N /\ j + 1 > 1
        BY <2>1, <3>1
      <4> QED BY <2>2, <3>1, <4>1
    <3>2. CASE i % 3 = 1
      <4>1. i = 3 * j - 2 /\ j \in 1..N
        BY <2>1, <3>2
      <4>2. text[i] = Pair(a[j])[1] /\ a[j] \in 0..255
        BY <2>1, <2>2, <4>1
      <4> HIDE DEF j
      <4>3. text[i] \in HexDigits
        BY <4>2, PairIs
      <4> QED BY <3>2, <4>3
    <3>3. CASE i % 3 = 2
      <4>1. i = 3 * j - 1 /\ j \in 1..N
        BY <2>1, <3>3
      <4>2. text[i] = Pair(a[j])[2] /\ a[j] \in 0..255
        BY <2>1, <2>2, <4>1
      <4> HIDE DEF j
      <4>3. text[i] \in HexDigits
        BY <4>2, PairIs
      <4> QED BY <3>3, <4>3
    <3> QED BY <3>1, <3>2, <3>3
  <2>5. LooksLikeHex(text)
    <3>1. Len(text) % 3 = 2
      BY <1>2, <2>1, <2>2
    <3> QED BY <2>3, <2>4, <3>1 DEF LooksLikeHex
  <2>6. HexBytes(text) = [i \in 1..N |-> 16 * Unhex(text[3*i - 2]) + Unhex(text[3*i - 1])]
    <3>1. (Len(text) + 1) \div 3 = N
      BY <2>1, <2>2
    <3> QED BY <3>1 DEF HexBytes
  <2>7. \A i \in 1..N : 16 * Unhex(text[3*i - 2]) + Unhex(text[3*i - 1]) = a[i]
    BY <2>1, <2>2, PairIs
  <2>8. a = [i \in 1..N |-> a[i]]
    BY <2>1
  <2>9. HexBytes(text) = a
    BY <2>6, <2>7, <2>8
  <2> QED BY <2>2, <2>5, <2>9 DEF ToBytes, Str, text
<1> QED BY <1>1, <1>2

(* What parse does with one character.                                     *)
Add(v, c) == IF c \in Blank THEN v ELSE 10 * v + c - 48

(* Parse is a recursive function too.                                      *)
LEMMA ParseDef ==
    ASSUME NEW part \in Seq(Nat)
    PROVE  \E sum :
              /\ sum = [n \in 0..Len(part) |->
                         IF n = 0 THEN 0 ELSE Add(sum[n - 1], part[n])]
              /\ Parse(part) = sum[Len(part)]
<1> DEFINE L == Len(part)
           R(f, m) == f = [n \in 0..m |-> IF n = 0 THEN 0 ELSE Add(f[n - 1], part[n])]
           S == {m \in Nat : \E f : R(f, m)}
<1>0. L \in Nat
  OBVIOUS
<1> HIDE DEF L
<1>1. 0 \in S
  <2>1. R([n \in 0..0 |-> 0], 0)
    OBVIOUS
  <2> QED BY <2>1
<1>2. ASSUME NEW m \in Nat, m \in S PROVE m + 1 \in S
  <2>1. PICK f : R(f, m)
    BY <1>2
  <2> DEFINE g == [n \in 0..m + 1 |-> IF n = m + 1 THEN Add(f[m], part[m + 1]) ELSE f[n]]
  <2>2. \A n \in 0..m : g[n] = f[n] /\ f[n] = IF n = 0 THEN 0 ELSE Add(f[n - 1], part[n])
    BY <2>1
  <2>3. g[m + 1] = Add(f[m], part[m + 1])
    OBVIOUS
  <2>4. ASSUME NEW n \in 0..m + 1 PROVE g[n] = IF n = 0 THEN 0 ELSE Add(g[n - 1], part[n])
    <3>1. CASE n = m + 1
      <4>1. n # 0 /\ n - 1 = m /\ m \in 0..m
        BY <3>1
      <4>2. g[m] = f[m]
        BY <2>2, <4>1
      <4> HIDE DEF g
      <4> QED BY <2>3, <3>1, <4>1, <4>2
    <3>2. CASE n # m + 1
      <4>1. n \in 0..m /\ (n # 0 => n - 1 \in 0..m)
        BY <3>2
      <4> HIDE DEF g
      <4> QED BY <2>2, <4>1
    <3> QED BY <3>1, <3>2
  <2>5. R(g, m + 1)
    BY <2>4
  <2>6. \E f2 : R(f2, m + 1)
    BY <2>5
  <2> HIDE DEF R
  <2> QED BY <2>6
<1>3. Nat \subseteq S
  <2> HIDE DEF S
  <2> QED BY <1>1, <1>2, Induct
<1>4. \E f : R(f, L)
  <2>1. L \in S
    <3> HIDE DEF S
    <3> QED BY <1>0, <1>3
  <2> HIDE DEF R
  <2> QED BY <2>1
<1> DEFINE h == CHOOSE f : f = [n \in 0..Len(part) |->
            IF n = 0 THEN 0
            ELSE IF part[n] \in Blank THEN f[n - 1] ELSE 10 * f[n - 1] + part[n] - 48]
<1>5. h = [n \in 0..L |-> IF n = 0 THEN 0 ELSE Add(h[n - 1], part[n])]
  BY <1>4 DEF Add, L
<1>6. Parse(part) = h[L]
  BY DEF Parse, L
<1> HIDE DEF h
<1> QED BY <1>5, <1>6 DEF L

LEMMA ParseTwo ==
    ASSUME NEW part \in Seq(Nat), Len(part) = 2
    PROVE  Parse(part) = Add(Add(0, part[1]), part[2])
<1>1. PICK sum :
         /\ sum = [n \in 0..Len(part) |->
                    IF n = 0 THEN 0 ELSE Add(sum[n - 1], part[n])]
         /\ Parse(part) = sum[Len(part)]
  BY ParseDef
<1>2. \A n \in 0..2 : sum[n] = IF n = 0 THEN 0 ELSE Add(sum[n - 1], part[n])
  BY <1>1
<1>3. sum[0] = 0 /\ sum[1] = Add(sum[0], part[1]) /\ sum[2] = Add(sum[1], part[2])
  <2>1. 0 \in 0..2 /\ 1 \in 0..2 /\ 2 \in 0..2 /\ 1 - 1 = 0 /\ 2 - 1 = 1
    OBVIOUS
  <2> QED BY <1>2, <2>1
<1> QED BY <1>1, <1>3

LEMMA ParseFour ==
    ASSUME NEW part \in Seq(Nat), Len(part) = 4
    PROVE  Parse(part) = Add(Add(Add(Add(0, part[1]), part[2]), part[3]), part[4])
<1>1. PICK sum :
         /\ sum = [n \in 0..Len(part) |->
                    IF n = 0 THEN 0 ELSE Add(sum[n - 1], part[n])]
         /\ Parse(part) = sum[Len(part)]
  BY ParseDef
<1>2. \A n \in 0..4 : sum[n] = IF n = 0 THEN 0 ELSE Add(sum[n - 1], part[n])
  BY <1>1
<1>3. /\ sum[0] = 0 /\ sum[1] = Add(sum[0], part[1]) /\ sum[2] = Add(sum[1], part[2])
      /\ sum[3] = Add(sum[2], part[3]) /\ sum[4] = Add(sum[3], part[4])
  <2>1. /\ 0 \in 0..4 /\ 1 \in 0..4 /\ 2 \in 0..4 /\ 3 \in 0..4 /\ 4 \in 0..4
        /\ 1 - 1 = 0 /\ 2 - 1 = 1 /\ 3 - 1 = 2 /\ 4 - 1 = 3
    OBVIOUS
  <2> QED BY <1>2, <2>1
<1> QED BY <1>1, <1>3

Legal == Blank \cup 48..57

Plain(part) == \A i \in DOMAIN part : part[i] \in Legal

(* The numbers of so many digits.                                          *)
UpTo1 == 0..9
UpTo2 == 0..99
UpTo3 == 0..999
UpTo4 == 0..9999

(* One character more is one digit more, or none.                          *)
LEMMA AddUpTo ==
    ASSUME NEW c \in Legal
    PROVE  /\ Add(0, c) \in UpTo1
           /\ \A v \in UpTo1 : Add(v, c) \in UpTo2
           /\ \A v \in UpTo2 : Add(v, c) \in UpTo3
           /\ \A v \in UpTo3 : Add(v, c) \in UpTo4
<1>1. CASE c \in Blank
  <2>1. \A v : Add(v, c) = v
    BY <1>1 DEF Add
  <2>2. 0 \in UpTo1
    BY DEF UpTo1
  <2>3. UpTo1 \subseteq UpTo2
    BY DEF UpTo1, UpTo2
  <2>4. UpTo2 \subseteq UpTo3
    BY DEF UpTo2, UpTo3
  <2>5. ASSUME NEW v \in UpTo3 PROVE v \in UpTo4
    <3>1. v \in Nat /\ v <= 999
      BY DEF UpTo3
    <3> QED BY <3>1 DEF UpTo4
  <2> QED BY <2>1, <2>2, <2>3, <2>4, <2>5
<1>2. CASE c \notin Blank
  <2> DEFINE x == c - 48
  <2>1. x \in 0..9 /\ c \in Nat
    BY <1>2 DEF Legal
  <2>2. \A v \in Nat : Add(v, c) = 10 * v + x
    BY <1>2, <2>1 DEF Add
  <2>3. Add(0, c) \in UpTo1
    BY <2>1, <2>2 DEF UpTo1
  <2> HIDE DEF x
  <2>4. ASSUME NEW v \in UpTo1 PROVE Add(v, c) \in UpTo2
    <3>1. v \in Nat /\ v <= 9
      BY DEF UpTo1
    <3>2. 10 * v + x \in UpTo2
      BY <2>1, <3>1 DEF UpTo2
    <3> QED BY <2>2, <3>1, <3>2
  <2>5. ASSUME NEW v \in UpTo2 PROVE Add(v, c) \in UpTo3
    <3>1. v \in Nat /\ v <= 99
      BY DEF UpTo2
    <3>2. 10 * v + x \in UpTo3
      BY <2>1, <3>1 DEF UpTo3
    <3> QED BY <2>2, <3>1, <3>2
  <2>6. ASSUME NEW v \in UpTo3 PROVE Add(v, c) \in UpTo4
    <3>1. v \in Nat /\ v <= 999
      BY DEF UpTo3
    <3>2. 10 * v + x \in UpTo4
      BY <2>1, <3>1 DEF UpTo4
    <3> QED BY <2>2, <3>1, <3>2
  <2> QED BY <2>3, <2>4, <2>5, <2>6
<1> QED BY <1>1, <1>2

LEMMA ParseTwoRange ==
    ASSUME NEW part \in Seq(Nat), Len(part) = 2, Plain(part)
    PROVE  Parse(part) \in UpTo2
<1>1. part[1] \in Legal /\ part[2] \in Legal
  BY DEF Plain
<1>2. Add(0, part[1]) \in UpTo1
  BY <1>1, AddUpTo
<1>3. Add(Add(0, part[1]), part[2]) \in UpTo2
  BY <1>1, <1>2, AddUpTo
<1> QED BY <1>3, ParseTwo

LEMMA ParseFourRange ==
    ASSUME NEW part \in Seq(Nat), Len(part) = 4, Plain(part)
    PROVE  Parse(part) \in UpTo4
<1>1. part[1] \in Legal /\ part[2] \in Legal /\ part[3] \in Legal /\ part[4] \in Legal
  BY DEF Plain
<1>2. Add(0, part[1]) \in UpTo1
  BY <1>1, AddUpTo
<1>3. Add(Add(0, part[1]), part[2]) \in UpTo2
  BY <1>1, <1>2, AddUpTo
<1>4. Add(Add(Add(0, part[1]), part[2]), part[3]) \in UpTo3
  BY <1>1, <1>3, AddUpTo
<1>5. Add(Add(Add(Add(0, part[1]), part[2]), part[3]), part[4]) \in UpTo4
  BY <1>1, <1>4, AddUpTo
<1> QED BY <1>5, ParseFour

Ones(n) == n % 10
Tens(n) == (n \div 10) % 10

(* A date is written in as many digits as its parts have characters.       *)
LEMMA TwoDigitsIs ==
    ASSUME NEW n \in Nat
    PROVE  /\ Tens(n) \in 0..9 /\ Ones(n) \in 0..9
           /\ TwoDigits(n) \in Seq(Nat) /\ Len(TwoDigits(n)) = 2
           /\ TwoDigits(n)[1] = 48 + Tens(n) /\ TwoDigits(n)[2] = 48 + Ones(n)
<1>1. Tens(n) \in 0..9 /\ Ones(n) \in 0..9
  BY DEF Tens, Ones
<1>2. TwoDigits(n) = <<48 + Tens(n), 48 + Ones(n)>>
  BY DEF TwoDigits, Digit, Tens, Ones
<1> QED BY <1>1, <1>2

LEMMA TwoDigitsParse ==
    ASSUME NEW n \in UpTo2
    PROVE  /\ TwoDigits(n) \in Seq(Nat) /\ Len(TwoDigits(n)) = 2
           /\ Parse(TwoDigits(n)) = n
<1> DEFINE t == TwoDigits(n)
<1>1. Tens(n) \in 0..9 /\ Ones(n) \in 0..9 /\ n = 10 * Tens(n) + Ones(n)
  BY DEF Tens, Ones, UpTo2
<1>2. t \in Seq(Nat) /\ Len(t) = 2 /\ t[1] = 48 + Tens(n) /\ t[2] = 48 + Ones(n)
  <2>1. n \in Nat
    BY DEF UpTo2
  <2> QED BY <2>1, TwoDigitsIs
<1> HIDE DEF t
<1>3. Parse(t) = Add(Add(0, t[1]), t[2])
  BY <1>2, ParseTwo
<1>4. Add(0, t[1]) = Tens(n)
  BY <1>1, <1>2 DEF Add, Blank
<1>5. Add(Tens(n), t[2]) = n
  BY <1>1, <1>2 DEF Add, Blank
<1> QED BY <1>2, <1>3, <1>4, <1>5 DEF t

FourSum(a, b, c, d) == 1000 * a + 100 * b + 10 * c + d

LEMMA DigitsOfFour ==
    ASSUME NEW n \in UpTo4
    PROVE  LET h == n \div 100
           IN  n \in Nat /\ h \in Nat /\ n = FourSum(Tens(h), Ones(h), Tens(n), Ones(n))
<1> DEFINE e == n \div 10
           f == e \div 10
           g == f \div 10
           h == n \div 100
<1>1. e \in 0..999 /\ n = 10 * e + Ones(n) /\ Ones(n) \in 0..9 /\ Tens(n) = e % 10
  BY DEF Ones, Tens, UpTo4
<1> HIDE DEF e
<1>2. f \in 0..99 /\ e = 10 * f + Tens(n) /\ Tens(n) \in 0..9
  BY <1>1
<1>3. h = f
  <2> HIDE DEF f
  <2>1. 100 * f <= n /\ n <= 100 * f + 99
    BY <1>1, <1>2 DEF UpTo4
  <2> QED BY <1>2, <2>1 DEF UpTo4
<1> HIDE DEF h
<1>4. f = 10 * Tens(f) + Ones(f)
  <2> HIDE DEF f
  <2> QED BY <1>2 DEF Tens, Ones
<1>5. h \in 0..99 /\ Tens(h) \in 0..9 /\ Ones(h) \in 0..9 /\ h = 10 * Tens(h) + Ones(h)
  <2> HIDE DEF f
  <2>1. h \in 0..99 /\ h \in Nat
    BY <1>2, <1>3
  <2> QED BY <2>1, <1>3, <1>4, TwoDigitsIs
<1>6. n = 100 * h + 10 * Tens(n) + Ones(n)
  <2> HIDE DEF f
  <2> QED BY <1>1, <1>2, <1>3
<1>7. n = FourSum(Tens(h), Ones(h), Tens(n), Ones(n))
  <2> DEFINE a == Tens(h)
             b == Ones(h)
             c == Tens(n)
             d == Ones(n)
  <2>1. /\ a \in 0..9 /\ b \in 0..9 /\ c \in 0..9 /\ d \in 0..9
        /\ h = 10 * a + b /\ n = 100 * h + 10 * c + d
    BY <1>1, <1>2, <1>5, <1>6
  <2> HIDE DEF a, b, c, d, f
  <2>2. n = 1000 * a + 100 * b + 10 * c + d
    BY <2>1
  <2> QED BY <2>2 DEF a, b, c, d, FourSum
<1>8. n \in Nat /\ h \in Nat
  BY <1>5 DEF UpTo4
<1> QED BY <1>7, <1>8 DEF h

LEMMA FourDigitsParse ==
    ASSUME NEW n \in UpTo4
    PROVE  /\ FourDigits(n) \in Seq(Nat) /\ Len(FourDigits(n)) = 4
           /\ Parse(FourDigits(n)) = n
<1> DEFINE h == n \div 100
           p == TwoDigits(h)
           q == TwoDigits(n)
           t == FourDigits(n)
<1>0. h \in Nat /\ n \in Nat /\ n = FourSum(Tens(h), Ones(h), Tens(n), Ones(n))
  BY DigitsOfFour
<1>2. t = p \o q
  BY DEF FourDigits
<1> HIDE DEF h
<1>3. /\ p \in Seq(Nat) /\ Len(p) = 2 /\ p[1] = 48 + Tens(h) /\ p[2] = 48 + Ones(h)
      /\ Tens(h) \in 0..9 /\ Ones(h) \in 0..9
  BY <1>0, TwoDigitsIs
<1>4. /\ q \in Seq(Nat) /\ Len(q) = 2 /\ q[1] = 48 + Tens(n) /\ q[2] = 48 + Ones(n)
      /\ Tens(n) \in 0..9 /\ Ones(n) \in 0..9
  BY <1>0, TwoDigitsIs
<1> HIDE DEF p, q, t
<1>5. /\ t \in Seq(Nat) /\ Len(t) = Len(p) + Len(q)
      /\ \A k \in 1..Len(p) : t[k] = p[k]
      /\ \A k \in 1..Len(q) : t[Len(p) + k] = q[k]
  <2>1. p \in Seq(Nat) /\ q \in Seq(Nat)
    BY <1>3, <1>4
  <2> QED BY <1>2, <2>1, Concat, ConcatLeft, ConcatRight
<1>6. /\ Len(p) + 1 = 3 /\ Len(p) + 2 = 4 /\ 1 \in 1..Len(p) /\ 2 \in 1..Len(p)
      /\ 1 \in 1..Len(q) /\ 2 \in 1..Len(q) /\ Len(p) + Len(q) = 4
  BY <1>3, <1>4
<1>7. /\ Len(t) = 4 /\ t[1] = 48 + Tens(h) /\ t[2] = 48 + Ones(h)
      /\ t[3] = 48 + Tens(n) /\ t[4] = 48 + Ones(n)
  BY <1>3, <1>4, <1>5, <1>6
<1>8. Parse(t) = Add(Add(Add(Add(0, t[1]), t[2]), t[3]), t[4])
  BY <1>5, <1>7, ParseFour
<1> DEFINE a == Tens(h)
           b == Ones(h)
           c == Tens(n)
           d == Ones(n)
<1>9. /\ a \in 0..9 /\ b \in 0..9 /\ c \in 0..9 /\ d \in 0..9
      /\ t[1] = 48 + a /\ t[2] = 48 + b /\ t[3] = 48 + c /\ t[4] = 48 + d
      /\ n = 1000 * a + 100 * b + 10 * c + d
  BY <1>0, <1>3, <1>4, <1>7 DEF FourSum
<1> HIDE DEF a, b, c, d
<1>10. Add(0, t[1]) = a
  BY <1>9 DEF Add, Blank
<1>11. Add(a, t[2]) = 10 * a + b
  BY <1>9 DEF Add, Blank
<1>12. Add(10 * a + b, t[3]) = 100 * a + 10 * b + c
  BY <1>9 DEF Add, Blank
<1>13. Add(100 * a + 10 * b + c, t[4]) = n
  BY <1>9 DEF Add, Blank
<1>14. Parse(t) = n
  BY <1>8, <1>10, <1>11, <1>12, <1>13
<1>15. t \in Seq(Nat) /\ Len(t) = 4
  BY <1>5, <1>7
<1> QED BY <1>14, <1>15 DEF t

(* What is at a place in a text is what SubSeq cuts out there.             *)
LEMMA PartOf ==
    ASSUME NEW t \in Seq(Nat), NEW f \in Seq(Nat), NEW p \in Nat,
           Len(f) > 0, p + Len(f) <= Len(t),
           \A k \in 1..Len(f) : t[p + k] = f[k]
    PROVE  SubSeq(t, p + 1, p + Len(f)) = f
<1> DEFINE g == SubSeq(t, p + 1, p + Len(f))
<1>1. /\ p + 1 \in Int /\ p + Len(f) \in Int /\ Len(t) \in Nat /\ Len(f) \in Nat
      /\ (p + Len(f)) - (p + 1) + 1 = Len(f) /\ p + 1 <= p + Len(f)
  OBVIOUS
<1>2. \A i \in p + 1..p + Len(f) : t[i] \in Nat
  BY <1>1
<1>3. /\ g \in Seq(Nat) /\ Len(g) = Len(f)
      /\ \A i \in 1..(p + Len(f)) - (p + 1) + 1 : g[i] = t[(p + 1) + i - 1]
  BY <1>1, <1>2, SubSeqProperties
<1>4. \A i \in 1..Len(f) : g[i] = f[i]
  <2> SUFFICES ASSUME NEW i \in 1..Len(f) PROVE g[i] = f[i]
    OBVIOUS
  <2>1. (p + 1) + i - 1 = p + i
    BY <1>1
  <2>2. g[i] = t[(p + 1) + i - 1]
    BY <1>1, <1>3
  <2> QED BY <2>1, <2>2
<1> HIDE DEF g
<1>5. g = f
  BY <1>3, <1>4, SeqEqual
<1> QED BY <1>5 DEF g

LEMMA PartBetween ==
    ASSUME NEW a \in Seq(Nat), NEW f \in Seq(Nat), NEW b \in Seq(Nat), Len(f) > 0
    PROVE  LET t == (a \o f) \o b
           IN  /\ t \in Seq(Nat) /\ Len(t) = Len(a) + Len(f) + Len(b)
               /\ SubSeq(t, Len(a) + 1, Len(a) + Len(f)) = f
<1> DEFINE u == a \o f
           t == u \o b
<1>1. u \in Seq(Nat) /\ Len(u) = Len(a) + Len(f) /\ Len(a) \in Nat /\ Len(f) \in Nat
  BY Concat
<1>2. ASSUME NEW k \in 1..Len(f) PROVE u[Len(a) + k] = f[k]
  BY ConcatRight
<1> HIDE DEF u
<1>3. t \in Seq(Nat) /\ Len(t) = Len(u) + Len(b) /\ Len(b) \in Nat
  BY <1>1, Concat
<1>4. ASSUME NEW k \in 1..Len(f) PROVE t[Len(a) + k] = f[k]
  <2>1. Len(a) + k \in 1..Len(u)
    BY <1>1
  <2>2. t[Len(a) + k] = u[Len(a) + k]
    BY <1>1, <2>1, ConcatLeft
  <2> QED BY <1>2, <2>2
<1>5. Len(a) + Len(f) <= Len(t)
  BY <1>1, <1>3
<1> HIDE DEF t
<1>6. SubSeq(t, Len(a) + 1, Len(a) + Len(f)) = f
  BY <1>1, <1>3, <1>4, <1>5, PartOf
<1>7. Len(t) = Len(a) + Len(f) + Len(b)
  BY <1>1, <1>3
<1> QED BY <1>3, <1>6, <1>7 DEF t, u

LEMMA Regroup ==
    ASSUME NEW a \in Seq(Nat), NEW b \in Seq(Nat), NEW c \in Seq(Nat)
    PROVE  (a \o b) \o c = a \o (b \o c)
BY ConcatAssociative

(* What to_string makes of a date is read again part by part.              *)
THEOREM DateReadsBack ==
    ASSUME NEW d, IsDate(d), ~Panics(d)
    PROVE  /\ DateText(d) \in Seq(Nat)
           /\ \E e : IsDate(e) /\ SameDate(e, d) /\ ToDate(Str(DateText(d))) = {e}
<1> DEFINE y == Parse(d.year)
           m == Parse(d.month)
           n == Parse(d.day)
<1>1. y \in UpTo4 /\ m \in UpTo2 /\ n \in UpTo2
  <2>1. Plain(d.year) /\ Plain(d.month) /\ Plain(d.day)
    BY DEF Panics, Plain, Legal
  <2> QED BY <2>1, ParseFourRange, ParseTwoRange DEF IsDate
<1> DEFINE F == FourDigits(y)
           M == TwoDigits(m)
           D == TwoDigits(n)
           H == <<Dash>>
           t == (((F \o H) \o M) \o H) \o D
<1>2. F \in Seq(Nat) /\ Len(F) = 4 /\ Parse(F) = y
  BY <1>1, FourDigitsParse
<1>3. M \in Seq(Nat) /\ Len(M) = 2 /\ Parse(M) = m
  BY <1>1, TwoDigitsParse
<1>4. D \in Seq(Nat) /\ Len(D) = 2 /\ Parse(D) = n
  BY <1>1, TwoDigitsParse
<1>5. DateText(d) = t
  BY DEF DateText
<1>6. H \in Seq(Nat) /\ Len(H) = 1
  BY DEF Dash
<1> HIDE DEF F, M, D, H, y, m, n
<1>7. F \o H \in Seq(Nat) /\ Len(F \o H) = 5
  <2>1. F \o H \in Seq(Nat) /\ Len(F \o H) = Len(F) + Len(H)
    BY <1>2, <1>6, Concat
  <2> QED BY <1>2, <1>6, <2>1
<1>8. ((F \o H) \o M) \in Seq(Nat) /\ Len((F \o H) \o M) = 7
  <2>1. ((F \o H) \o M) \in Seq(Nat) /\ Len((F \o H) \o M) = Len(F \o H) + Len(M)
    BY <1>3, <1>7, Concat
  <2> QED BY <1>3, <1>7, <2>1
<1>9. (((F \o H) \o M) \o H) \in Seq(Nat) /\ Len(((F \o H) \o M) \o H) = 8
  <2>1. (((F \o H) \o M) \o H) \in Seq(Nat)
        /\ Len(((F \o H) \o M) \o H) = Len((F \o H) \o M) + Len(H)
    BY <1>6, <1>8, Concat
  <2> QED BY <1>6, <1>8, <2>1
<1>10. t \in Seq(Nat) /\ Len(t) = 10
  <2>1. t \in Seq(Nat) /\ Len(t) = Len(((F \o H) \o M) \o H) + Len(D)
    BY <1>4, <1>9, Concat
  <2> QED BY <1>4, <1>9, <2>1
<1> DEFINE G == (F \o H) \o M
           E == <<>>
<1>e. E \in Seq(Nat) /\ Len(E) = 0
  OBVIOUS
<1>11. SubSeq(t, 9, 10) = D
  <2> DEFINE a == G \o H
  <2>1. a \in Seq(Nat) /\ Len(a) = 8
    BY <1>9
  <2> HIDE DEF a, E
  <2>2. SubSeq((a \o D) \o E, Len(a) + 1, Len(a) + Len(D)) = D
    <3>1. Len(D) > 0
      BY <1>4
    <3> QED BY <1>4, <1>e, <2>1, <3>1, PartBetween
  <2>3. (a \o D) \o E = a \o D
    <3>1. a \o D \in Seq(Nat)
      BY <1>4, <2>1, Concat
    <3> QED BY <3>1, ConcatEmptySeq DEF E
  <2>4. Len(a) + 1 = 9 /\ Len(a) + Len(D) = 10
    BY <1>4, <2>1
  <2> QED BY <2>2, <2>3, <2>4 DEF a
<1>12. SubSeq(t, 6, 7) = M
  <2> DEFINE a == F \o H
             b == H \o D
  <2>1. a \in Seq(Nat) /\ Len(a) = 5 /\ b \in Seq(Nat)
    BY <1>4, <1>6, <1>7, Concat
  <2>2. t = (a \o M) \o b
    BY <1>4, <1>6, <1>8, Regroup
  <2> HIDE DEF a, b, t
  <2>3. SubSeq((a \o M) \o b, Len(a) + 1, Len(a) + Len(M)) = M
    <3>1. Len(M) > 0
      BY <1>3
    <3> QED BY <1>3, <2>1, <3>1, PartBetween
  <2>4. Len(a) + 1 = 6 /\ Len(a) + Len(M) = 7
    BY <1>3, <2>1
  <2> QED BY <2>2, <2>3, <2>4
<1>13. SubSeq(t, 1, 4) = F
  <2> DEFINE c == M \o (H \o D)
             b == H \o c
  <2>1. H \o D \in Seq(Nat)
    BY <1>4, <1>6, Concat
  <2>2. c \in Seq(Nat)
    BY <1>3, <2>1, Concat
  <2>3. b \in Seq(Nat)
    BY <1>6, <2>2, Concat
  <2>4. t = ((F \o H) \o M) \o (H \o D)
    BY <1>4, <1>6, <1>8, Regroup
  <2>5. ((F \o H) \o M) \o (H \o D) = (F \o H) \o c
    BY <1>3, <1>7, <2>1, Regroup
  <2>6. (F \o H) \o c = F \o b
    BY <1>2, <1>6, <2>2, Regroup
  <2>7. t = F \o b
    BY <2>4, <2>5, <2>6
  <2>8. E \o F = F
    BY <1>2, ConcatEmptySeq DEF E
  <2> HIDE DEF t, b, E
  <2>9. SubSeq((E \o F) \o b, Len(E) + 1, Len(E) + Len(F)) = F
    <3>1. Len(F) > 0
      BY <1>2
    <3> QED BY <1>2, <1>e, <2>3, <3>1, PartBetween
  <2>10. Len(E) + 1 = 1 /\ Len(E) + Len(F) = 4
    BY <1>2, <1>e
  <2> QED BY <2>7, <2>8, <2>9, <2>10
<1> DEFINE e == [year |-> F, month |-> M, day |-> D]
<1> HIDE DEF t
<1>14. ToDate(Str(t)) = {e}
  <2> DEFINE data == Str(t)
             date(i, j) == {[year |-> SubSeq(t, 1, 4), month |-> SubSeq(t, i, i + 1),
                             day |-> SubSeq(t, j, j + 1)]}
  <2>1. data.kind = "Str" /\ data.text = t
    BY DEF Str
  <2>2. date(6, 9) = {e}
    <3>1. 6 + 1 = 7 /\ 9 + 1 = 10
      OBVIOUS
    <3> QED BY <1>11, <1>12, <1>13, <3>1
  <2>3. Len(t) # 8 /\ Len(t) = 10
    BY <1>10
  <2> HIDE DEF e, data
  <2>4. ToDate(data) =
          CASE data.kind = "Str" /\ Len(t) = 8  -> date(5, 7)
            [] data.kind = "Str" /\ Len(t) = 10 -> date(6, 9)
            [] OTHER -> {}
    BY <2>1 DEF ToDate
  <2>5. ToDate(data) = date(6, 9)
    BY <2>1, <2>3, <2>4
  <2> QED BY <2>2, <2>5 DEF data
<1>15. IsDate(e)
  BY <1>2, <1>3, <1>4 DEF IsDate
<1>16. SameDate(e, d)
  BY <1>2, <1>3, <1>4 DEF SameDate, y, m, n
<1> HIDE DEF e
<1> QED BY <1>5, <1>10, <1>14, <1>15, <1>16

-----------------------------------------------------------------------------
(* From a shown map back to attributes.                                    *)

LEMMA ByAttribute ==
    ASSUME NEW data
    PROVE  /\ FromKv("label", data) = ToBytes(data) /\ FromKv("id", data) = ToBytes(data)
           /\ FromKv("startDate", data) = ToDate(data)
           /\ FromKv("keyType", data) = ToKeyType(data)
           /\ IntoKv("label", data) = Str(Escape(data))
           /\ IntoKv("id", data) = Str(AsHex(data))
           /\ IntoKv("startDate", data) = Str(DateText(data))
           /\ IntoKv("keyType", data) = KeyTypeData(data)
<1>1. /\ FromKv("label", data) = ToBytes(data) /\ FromKv("id", data) = ToBytes(data)
      /\ FromKv("startDate", data) = ToDate(data)
      /\ FromKv("keyType", data) = ToKeyType(data)
  BY DEF FromKv
<1>2. /\ IntoKv("label", data) = Str(Escape(data))
      /\ IntoKv("id", data) = Str(AsHex(data))
      /\ IntoKv("startDate", data) = Str(DateText(data))
      /\ IntoKv("keyType", data) = KeyTypeData(data)
  BY DEF IntoKv
<1> QED BY <1>1, <1>2

(* A text that is the name of a constant is read as neither bytes nor a    *)
(* date.                                                                   *)
LEMMA TextOrName ==
    ASSUME NEW text
    PROVE  \/ ReadAsJson(Str(text)) = Str(text)
           \/ /\ ToBytes(ReadAsJson(Str(text))) = {}
              /\ ToDate(ReadAsJson(Str(text))) = {}
<1> DEFINE data == KeyTypeData(NumberOf(text))
<1>1. data.kind # "Str"
  BY DEF KeyTypeData
<1> HIDE DEF data
<1>2. ToBytes(data) = {} /\ ToDate(data) = {}
  BY <1>1 DEF ToBytes, ToDate
<1>3. ReadAsJson(Str(text)) = Str(text) \/ ReadAsJson(Str(text)) = data
  <2>1. Str(text).text = text
    BY DEF Str
  <2> QED BY <2>1 DEF ReadAsJson, data
<1> QED BY <1>2, <1>3

(* A shown label is read as the label, or as the bytes its hex digits      *)
(* spell.                                                                  *)
LEMMA LabelReads ==
    ASSUME NEW l \in Seq(0..255)
    PROVE  /\ ToBytes(Str(Escape(l))) \subseteq Seq(0..255)
           /\ ToBytes(Str(Escape(l))) = {Retyped(l)}
<1>1. Escape(l) \in Seq(Nat) /\ Unescape(Escape(l)) = {l}
  BY UnescapeEscape
<1>2. Str(Escape(l)).text \in Seq(Nat) /\ Str(Escape(l)).kind = "Str"
      /\ Str(Escape(l)).text = Escape(l)
  BY <1>1 DEF Str
<1>3. ToBytes(Str(Escape(l))) \subseteq Seq(0..255)
  BY <1>2, ToBytesTyped
<1>4. ToBytes(Str(Escape(l))) = {Retyped(l)}
  BY <1>1, <1>2 DEF ToBytes, Retyped
<1> QED BY <1>3, <1>4

(* What a command with the map as its template gets for each attribute.    *)
LEMMA LabelCopied ==
    ASSUME NEW l \in Seq(0..255),
           NEW v \in FromKv("label", ReadAsJson(IntoKv("label", l)))
    PROVE  v \in Seq(0..255) /\ v = Retyped(l)
<1>1. v \in ToBytes(ReadAsJson(Str(Escape(l))))
  BY ByAttribute
<1>2. v \in ToBytes(Str(Escape(l)))
  BY <1>1, TextOrName
<1> QED BY <1>2, LabelReads

LEMMA IdCopied ==
    ASSUME NEW i \in Seq(0..255), NEW v \in FromKv("id", ReadAsJson(IntoKv("id", i)))
    PROVE  v = i
<1>1. v \in ToBytes(ReadAsJson(Str(AsHex(i))))
  BY ByAttribute
<1>2. v \in ToBytes(Str(AsHex(i)))
  BY <1>1, TextOrName
<1> QED BY <1>2, HexReadsBack

LEMMA DateCopied ==
    ASSUME NEW d, IsDate(d), ~Panics(d),
           NEW v \in FromKv("startDate", ReadAsJson(IntoKv("startDate", d)))
    PROVE  IsDate(v) /\ SameDate(v, d)
<1>1. v \in ToDate(ReadAsJson(Str(DateText(d))))
  BY ByAttribute
<1>2. v \in ToDate(Str(DateText(d)))
  BY <1>1, TextOrName
<1>3. PICK e : IsDate(e) /\ SameDate(e, d) /\ ToDate(Str(DateText(d))) = {e}
  BY DateReadsBack
<1> QED BY <1>2, <1>3

LEMMA KeyTypeCopied ==
    ASSUME NEW n, NEW v \in FromKv("keyType", ReadAsJson(IntoKv("keyType", n)))
    PROVE  v = n
<1> DEFINE data == KeyTypeData(n)
<1>1. v \in ToKeyType(ReadAsJson(data))
  BY ByAttribute
<1>2. data.kind # "Str" /\ data.number = n
  BY DEF KeyTypeData
<1> HIDE DEF data
<1>3. ReadAsJson(data) = data
  BY <1>2 DEF ReadAsJson
<1> QED BY <1>1, <1>2, <1>3 DEF ToKeyType

(* Two labels that are printed alike are one.                              *)
LEMMA EscapeApart ==
    ASSUME NEW l \in Seq(0..255), NEW m \in Seq(0..255), Escape(l) = Escape(m)
    PROVE  l = m
<1>1. {l} = {m}
  BY UnescapeEscape
<1> QED BY <1>1
(* Every object has a number of its own, at most the number of objects. *)
Numbered ==
    /\ IsFiniteSet(objects)
    /\ \A o \in objects : o.serial \in 1..Cardinality(objects)
    /\ \A o, q \in objects : o.serial = q.serial => o = q

(* What is shown is the map of an object that could be shown. *)
ShownTrue ==
    shown # NONE =>
        /\ WellFormed(shown.object) /\ ~Panics(shown.object.startDate)
        /\ shown.map = [attr \in Attrs |-> IntoKv(attr, shown.object[attr])]

IInv ==
    /\ \A o \in objects : WellFormed(o)
    /\ Numbered /\ ShownTrue
    /\ FoundAsShown /\ CopyIsExact /\ NamesApart

LEMMA ShownMap ==
    ASSUME ShownTrue, shown # NONE
    PROVE  /\ \A attr \in Attrs : shown.map[attr] = IntoKv(attr, shown.object[attr])
           /\ shown.map["label"] = IntoKv("label", shown.object.label)
           /\ shown.map["id"] = IntoKv("id", shown.object.id)
           /\ shown.map["startDate"] = IntoKv("startDate", shown.object.startDate)
           /\ shown.map["keyType"] = IntoKv("keyType", shown.object.keyType)
           /\ DOMAIN shown.map = Attrs
BY DEF ShownTrue, Attrs

(* The object that Make makes.                                             *)
Made(a, by, from) ==
    [label |-> a.label, id |-> a.id, startDate |-> a.startDate, keyType |-> a.keyType,
     serial |-> Cardinality(objects) + 1, by |-> by, from |-> from]

(* An object that is made has a number that no other has.                  *)
LEMMA MadeIs ==
    ASSUME NEW a, NEW by, NEW from, Numbered, Make(a, by, from),
           \A o \in objects : WellFormed(o), WellFormed(a)
    PROVE  /\ objects' = objects \cup {Made(a, by, from)}
           /\ Made(a, by, from) \notin objects
           /\ Numbered'
           /\ (\A o \in objects : WellFormed(o))'
<1> DEFINE m == Made(a, by, from)
           N == Cardinality(objects)
<1>1. objects' = objects \cup {m}
  BY DEF Make, Made
<1>2. m.serial = N + 1 /\ WellFormed(m)
  BY DEF Made, WellFormed
<1>3. IsFiniteSet(objects) /\ N \in Nat
  BY FS_CardinalityType DEF Numbered
<1> HIDE DEF m
<1>4. \A o \in objects : o.serial \in 1..N
  BY DEF Numbered
<1>5. m \notin objects
  <2>1. N + 1 \notin 1..N
    BY <1>3
  <2> QED BY <1>2, <1>4, <2>1
<1>6. IsFiniteSet(objects') /\ Cardinality(objects') = N + 1
  BY <1>1, <1>3, <1>5, FS_AddElement
<1> HIDE DEF N
<1>7. \A o \in objects' : o.serial \in 1..Cardinality(objects')
  BY <1>1, <1>2, <1>3, <1>4, <1>6
<1>8. \A o, q \in objects' : o.serial = q.serial => o = q
  <2>1. \A o \in objects : o.serial # N + 1
    BY <1>3, <1>4
  <2> QED BY <1>1, <1>2, <2>1 DEF Numbered
<1>9. Numbered'
  BY <1>6, <1>7, <1>8 DEF Numbered
<1> QED BY <1>1, <1>2, <1>5, <1>9 DEF m

-----------------------------------------------------------------------------
(* The invariant holds at first, and every action keeps it.                *)

LEMMA InitIInv == Init => IInv
<1> SUFFICES ASSUME Init PROVE IInv
  OBVIOUS
<1>1. objects = {} /\ shown = NONE /\ found = NONE
  BY DEF Init
<1>2. IsFiniteSet(objects)
  BY <1>1, FS_EmptySet
<1> QED BY <1>1, <1>2 DEF IInv, Numbered, ShownTrue, FoundAsShown, CopyIsExact, NamesApart

(* A new object keeps the invariants about objects if it fits in.          *)
LEMMA MakeKeeps ==
    ASSUME IInv, NEW a, NEW by, NEW from, WellFormed(a), Make(a, by, from),
           by = "copy" =>
             /\ a.id = from.id /\ a.keyType = from.keyType
             /\ SameDate(a.startDate, from.startDate)
             /\ a.label = Retyped(from.label),
           by = "hsmtool" => \A o \in objects : o.label # a.label
    PROVE  /\ (\A o \in objects : WellFormed(o))' /\ Numbered'
           /\ CopyIsExact' /\ NamesApart'
<1> DEFINE m == Made(a, by, from)
<1>1. Numbered /\ \A o \in objects : WellFormed(o)
  BY DEF IInv
<1>2. /\ objects' = objects \cup {m} /\ Numbered'
      /\ (\A o \in objects : WellFormed(o))'
  BY <1>1, MadeIs
<1>3. /\ m.label = a.label /\ m.id = a.id /\ m.keyType = a.keyType
      /\ m.startDate = a.startDate /\ m.by = by /\ m.from = from
  BY DEF Made
<1> HIDE DEF m
<1>4. CopyIsExact'
  <2>1. ASSUME NEW o \in objects', o.by = "copy"
        PROVE  /\ o.id = o.from.id /\ o.keyType = o.from.keyType
               /\ SameDate(o.startDate, o.from.startDate)
               /\ o.label = Retyped(o.from.label)
    <3>1. CASE o \in objects
      BY <2>1, <3>1 DEF IInv, CopyIsExact
    <3>2. CASE o = m
      BY <1>3, <2>1, <3>2
    <3> QED BY <1>2, <3>1, <3>2
  <2> QED BY <2>1 DEF CopyIsExact
<1>5. NamesApart'
  <2>1. ASSUME NEW o \in objects', NEW q \in objects', o.by = "hsmtool", q.by = "hsmtool",
               o # q
        PROVE  o.label # q.label
    <3>1. CASE o \in objects /\ q \in objects
      BY <2>1, <3>1 DEF IInv, NamesApart
    <3>2. CASE o = m \/ q = m
      BY <1>2, <1>3, <2>1, <3>2
    <3> QED BY <1>2, <3>1, <3>2
  <2>2. ASSUME NEW o \in objects', NEW q \in objects', Escape(o.label) = Escape(q.label)
        PROVE  o.label = q.label
    <3>1. o.label \in Seq(0..255) /\ q.label \in Seq(0..255)
      BY <1>2 DEF WellFormed
    <3> QED BY <2>2, <3>1, EscapeApart
  <2> QED BY <2>1, <2>2 DEF NamesApart
<1> QED BY <1>2, <1>4, <1>5

(* One lemma per action.                                                   *)
LEMMA MakeOtherKeeps == IInv /\ MakeOther => IInv'
<1> SUFFICES ASSUME IInv, MakeOther PROVE IInv'
  OBVIOUS
<1>1. PICK a \in Others : Make(a, "other", NONE)
  BY DEF MakeOther
<1>2. WellFormed(a)
  BY OthersAssumption
<1>3. /\ (\A o \in objects : WellFormed(o))' /\ Numbered'
      /\ CopyIsExact' /\ NamesApart'
  BY <1>1, <1>2, MakeKeeps
<1>4. shown' = shown /\ found' = found
  BY DEF MakeOther
<1>5. ShownTrue' /\ FoundAsShown'
  BY <1>4 DEF IInv, ShownTrue, FoundAsShown
<1> QED BY <1>3, <1>5 DEF IInv

LEMMA MakeNamedKeeps ==
    ASSUME IInv, NEW text \in Typed, MakeNamed(text)
    PROVE  IInv'
<1> DEFINE N == Cardinality(objects)
           R(l, k) == [label |-> l, id |-> <<128 + N>>, startDate |-> NoDate,
                       keyType |-> k]
<1>1. PICK l \in ToBytes(Str(text)), k \in DOMAIN KeyTypes :
         Make(R(l, k), "hsmtool", NONE)
  BY DEF MakeNamed
<1> DEFINE a == R(l, k)
<1>2. Found("label", Str(text)) = {{}} /\ N < MaxObjects
  BY DEF MakeNamed, Free, NotFull
<1>3. N \in Nat
  BY FS_CardinalityType DEF IInv, Numbered
<1>4. WellFormed(a)
  <2>1. l \in Seq(0..255)
    <3>1. text \in Seq(Nat) /\ Str(text).text = text
      BY AttrTextAssumption DEF Str
    <3> QED BY <3>1, ToBytesTyped
  <2>2. <<128 + N>> \in Seq(0..255)
    <3>1. 128 + N \in 0..255
      <4>1. MaxObjects \in 0..127
        BY AttrTextAssumption
      <4> HIDE DEF N
      <4> QED BY <1>2, <1>3, <4>1
    <3> QED BY <3>1
  <2>3. IsDate(NoDate)
    BY DEF IsDate, NoDate
  <2> QED BY <2>1, <2>2, <2>3 DEF WellFormed
<1>5. \A o \in objects : o.label # a.label
  <2>1. {o \in objects : o["label"] = l} \in Found("label", Str(text))
    BY ByAttribute DEF Found
  <2>2. {o \in objects : o["label"] = l} = {}
    BY <1>2, <2>1
  <2> QED BY <2>2
<1> HIDE DEF a
<1>6. /\ (\A o \in objects : WellFormed(o))' /\ Numbered'
      /\ CopyIsExact' /\ NamesApart'
  BY <1>1, <1>4, <1>5, MakeKeeps DEF a
<1>7. shown' = shown /\ found' = found
  BY DEF MakeNamed
<1>8. ShownTrue' /\ FoundAsShown'
  BY <1>7 DEF IInv, ShownTrue, FoundAsShown
<1> QED BY <1>6, <1>8 DEF IInv

LEMMA ShowKeeps ==
    ASSUME IInv, NEW o \in objects, Show(o)
    PROVE  IInv'
<1>1. /\ ~Panics(o.startDate) /\ found' = NONE /\ objects' = objects
      /\ shown' = [object |-> o, map |-> [attr \in Attrs |-> IntoKv(attr, o[attr])]]
  BY DEF Show
<1>2. ShownTrue'
  <2>1. WellFormed(o)
    BY DEF IInv
  <2>2. shown'.object = o /\ shown'.map = [attr \in Attrs |-> IntoKv(attr, o[attr])]
    BY <1>1
  <2> QED BY <1>1, <2>1, <2>2 DEF ShownTrue
<1>3. FoundAsShown'
  BY <1>1 DEF FoundAsShown
<1>4. /\ (\A q \in objects : WellFormed(q))' /\ Numbered'
      /\ CopyIsExact' /\ NamesApart'
  BY <1>1 DEF IInv, Numbered, CopyIsExact, NamesApart
<1> QED BY <1>2, <1>3, <1>4 DEF IInv

LEMMA SearchKeeps ==
    ASSUME IInv, NEW attr \in {"label", "id"}, Search(attr)
    PROVE  IInv'
<1> DEFINE v == shown.object[attr]
           text == shown.map[attr].text
           E == {o \in objects : o[attr] = v}
<1>1. /\ shown # NONE /\ objects' = objects /\ shown' = shown
      /\ found' = [attr |-> attr, text |-> text, result |-> Found(attr, Str(text)),
                   expected |-> E]
  BY DEF Search
<1>2. ShownTrue /\ WellFormed(shown.object)
  BY <1>1 DEF IInv, ShownTrue
<1>3. (attr = "label" /\ LooksLikeHex(text)) \/ ToBytes(Str(text)) = {v}
  <2>1. CASE attr = "label"
    <3>1. text = Escape(v) /\ v \in Seq(0..255)
      BY <1>1, <1>2, <2>1, ShownMap, ByAttribute DEF Str, WellFormed
    <3> HIDE DEF v, text
    <3> QED BY <2>1, <3>1, LabelReads DEF Retyped
  <2>2. CASE attr = "id"
    <3>1. text = AsHex(v) /\ v \in Seq(0..255)
      BY <1>1, <1>2, <2>2, ShownMap, ByAttribute DEF Str, WellFormed
    <3> HIDE DEF v, text
    <3> QED BY <3>1, HexReadsBack
  <2> QED BY <2>1, <2>2
<1>4. Found(attr, Str(text)) = {{o \in objects : o[attr] = w} : w \in ToBytes(Str(text))}
  BY ByAttribute DEF Found
<1>5. (attr = "label" /\ LooksLikeHex(text)) \/ Found(attr, Str(text)) = {E}
  BY <1>3, <1>4
<1> HIDE DEF v, text, E
<1>6. FoundAsShown'
  <2>1. /\ found'.attr = attr /\ found'.text = text /\ found'.expected = E
        /\ found'.result = Found(attr, Str(text))
    BY <1>1
  <2> QED BY <1>5, <2>1 DEF FoundAsShown
<1>7. /\ (\A q \in objects : WellFormed(q))' /\ Numbered' /\ ShownTrue'
      /\ CopyIsExact' /\ NamesApart'
  BY <1>1 DEF IInv, Numbered, ShownTrue, CopyIsExact, NamesApart
<1> QED BY <1>6, <1>7 DEF IInv

LEMMA CopyKeeps == IInv /\ Copy => IInv'
<1> SUFFICES ASSUME IInv, Copy PROVE IInv'
  OBVIOUS
<1> DEFINE s == shown.object
           value(attr) == FromKv(attr, ReadAsJson(shown.map[attr]))
           R(l, i, d, k) == [label |-> l, id |-> i, startDate |-> d, keyType |-> k]
<1>1. PICK l \in value("label"), i \in value("id"), d \in value("startDate"),
           k \in value("keyType") : Make(R(l, i, d, k), "copy", s)
  BY DEF Copy
<1>2. shown # NONE /\ shown' = NONE /\ found' = NONE
  BY DEF Copy
<1>3. ShownTrue /\ WellFormed(s) /\ ~Panics(s.startDate)
  BY <1>2 DEF IInv, ShownTrue
<1>4. /\ shown.map["label"] = IntoKv("label", s.label)
      /\ shown.map["id"] = IntoKv("id", s.id)
      /\ shown.map["startDate"] = IntoKv("startDate", s.startDate)
      /\ shown.map["keyType"] = IntoKv("keyType", s.keyType)
  BY <1>2, <1>3, ShownMap
<1> HIDE DEF s
<1>5. l \in Seq(0..255) /\ l = Retyped(s.label)
  BY <1>3, <1>4, LabelCopied DEF WellFormed
<1>6. i = s.id
  BY <1>3, <1>4, IdCopied DEF WellFormed
<1>7. IsDate(d) /\ SameDate(d, s.startDate)
  BY <1>3, <1>4, DateCopied DEF WellFormed
<1>8. k = s.keyType
  BY <1>4, KeyTypeCopied
<1> DEFINE a == R(l, i, d, k)
<1>9. a.label = l /\ a.id = i /\ a.startDate = d /\ a.keyType = k
  OBVIOUS
<1>10. WellFormed(a)
  BY <1>3, <1>5, <1>6, <1>7, <1>8 DEF WellFormed
<1> HIDE DEF a
<1>11. /\ (\A o \in objects : WellFormed(o))' /\ Numbered'
       /\ CopyIsExact' /\ NamesApart'
  <2>1. Make(a, "copy", s)
    BY <1>1 DEF a
  <2> QED BY <1>5, <1>6, <1>7, <1>8, <1>9, <1>10, <2>1, MakeKeeps
<1>12. ShownTrue' /\ FoundAsShown'
  BY <1>2 DEF ShownTrue, FoundAsShown
<1> QED BY <1>11, <1>12 DEF IInv

LEMMA NextIInv == IInv /\ [Next]_vars => IInv'
<1> SUFFICES ASSUME IInv, [Next]_vars PROVE IInv'
  OBVIOUS
<1>1. CASE MakeOther
  BY <1>1, MakeOtherKeeps
<1>2. CASE \E text \in Typed : MakeNamed(text)
  BY <1>2, MakeNamedKeeps
<1>3. CASE \E o \in objects : Show(o)
  BY <1>3, ShowKeeps
<1>4. CASE \E attr \in {"label", "id"} : Search(attr)
  BY <1>4, SearchKeeps
<1>5. CASE Copy
  BY <1>5, CopyKeeps
<1>6. CASE UNCHANGED vars
  BY <1>6 DEF vars, IInv, Numbered, ShownTrue, FoundAsShown, CopyIsExact, NamesApart
<1> QED BY <1>1, <1>2, <1>3, <1>4, <1>5, <1>6 DEF Next

-----------------------------------------------------------------------------
(* The inductive invariant.                                                *)
THEOREM Invariance == Spec => []IInv
<1> QED BY InitIInv, NextIInv, PTL DEF Spec

(* There are as many serials as objects.                                   *)
LEMMA SerialsCount ==
    ASSUME Numbered
    PROVE  Cardinality({o.serial : o \in objects}) = Cardinality(objects)
<1> DEFINE T == {o.serial : o \in objects}
           f == [o \in objects |-> o.serial]
<1>1. f \in Bijection(objects, T)
  <2>1. f \in [objects -> T]
    OBVIOUS
  <2>2. \A o, q \in objects : f[o] = f[q] => o = q
    BY DEF Numbered
  <2>3. \A t \in T : \E o \in objects : f[o] = t
    OBVIOUS
  <2> QED BY <2>1, <2>2, <2>3, Fun_IsBij, Zenon
<1>2. IsFiniteSet(objects)
  BY DEF Numbered
<1> HIDE DEF T, f
<1>3. ExistsBijection(objects, T)
  BY <1>1 DEF ExistsBijection
<1> QED BY <1>2, <1>3, FS_Bijection DEF T

(* Labels and ids are bytes and dates are dates wherever they come from,   *)
(* and the number of an object is its own (attr.rs, date.rs).              *)
THEOREM Typing == Spec => []TypeOK
<1>1. IInv => TypeOK
  BY SerialsCount, ShownMap DEF IInv, TypeOK
<1> QED BY <1>1, Invariance, PTL

(* A search by a printed label or id finds the objects with it, and never  *)
(* fails, save for labels made of hex digits: for labels and ids of every  *)
(* length and whatever else is on the token (escape.rs, helper.rs).        *)
THEOREM Finding == Spec => []FoundAsShown
<1>1. IInv => FoundAsShown
  BY DEF IInv
<1> QED BY <1>1, Invariance, PTL

(* A copy by a shown map is like what was shown: no text that the codecs   *)
(* write is read as anything else, and what is refused is refused as a     *)
(* whole (attr.rs, date.rs, escape.rs).                                    *)
THEOREM Copying == Spec => []CopyIsExact
<1>1. IInv => CopyIsExact
  BY DEF IInv
<1> QED BY <1>1, Invariance, PTL

(* No two objects that commands made share a label or are printed alike,   *)
(* whatever users type (no_object_exists of helper.rs).                    *)
THEOREM Naming == Spec => []NamesApart
<1>1. IInv => NamesApart
  BY DEF IInv
<1> QED BY <1>1, Invariance, PTL
=============================================================================
