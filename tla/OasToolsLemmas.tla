---------------------------- MODULE OasToolsLemmas ----------------------------
(***************************************************************************)
(* Lemmas about the operators of OasTools: what the deployed document's    *)
(* operations are called and bound to, and where the request of each of    *)
(* them is routed, for every text in the page's fields.                    *)
(***************************************************************************)
EXTENDS OasTools, SequenceTheorems, TLAPS

-----------------------------------------------------------------------------
(* Short sequences, element by element. *)

LEMMA OneIs ==
    ASSUME NEW S, NEW a \in S
    PROVE  <<a>> \in Seq(S) /\ Len(<<a>>) = 1 /\ <<a>>[1] = a
OBVIOUS

LEMMA TwoIs ==
    ASSUME NEW S
    PROVE  \A a, b \in S : <<a, b>> \in Seq(S) /\ Len(<<a, b>>) = 2
OBVIOUS

LEMMA ThreeIs ==
    ASSUME NEW S
    PROVE  \A a, b, c \in S : <<a, b, c>> \in Seq(S) /\ Len(<<a, b, c>>) = 3
OBVIOUS

LEMMA FourIs ==
    ASSUME NEW S
    PROVE  \A a, b, c, d \in S : <<a, b, c, d>> \in Seq(S) /\ Len(<<a, b, c, d>>) = 4
OBVIOUS

LEMMA IsOne == ASSUME NEW S, NEW s \in Seq(S), Len(s) = 1 PROVE s = <<s[1]>>
OBVIOUS

LEMMA IsTwo == ASSUME NEW S, NEW s \in Seq(S), Len(s) = 2 PROVE s = <<s[1], s[2]>>
OBVIOUS

LEMMA IsThree == ASSUME NEW S, NEW s \in Seq(S), Len(s) = 3 PROVE s = <<s[1], s[2], s[3]>>
OBVIOUS

LEMMA IsFour == ASSUME NEW S, NEW s \in Seq(S), Len(s) = 4 PROVE s = <<s[1], s[2], s[3], s[4]>>
OBVIOUS

LEMMA AppendIs ==
    ASSUME NEW S, NEW s \in Seq(S), NEW e \in S
    PROVE  /\ Append(s, e) \in Seq(S)
           /\ Len(Append(s, e)) = Len(s) + 1
           /\ \A i \in 1..Len(s) : Append(s, e)[i] = s[i]
           /\ Append(s, e)[Len(s) + 1] = e
<1>1. Append(s, e) \in Seq(S) /\ Len(Append(s, e)) = Len(s) + 1
  OBVIOUS
<1>2. ASSUME NEW i \in 1..Len(s)
      PROVE  Append(s, e)[i] = s[i]
  OBVIOUS
<1>3. Append(s, e)[Len(s) + 1] = e
  OBVIOUS
<1> QED
  BY <1>1, <1>2, <1>3, Zenon

LEMMA AppendTwo ==
    ASSUME NEW S, NEW a \in S, NEW b \in S, NEW e \in S
    PROVE  Append(<<a, b>>, e) = <<a, b, e>>
<1>1. PICK s : s = <<a, b>>
  OBVIOUS
<1>2. s \in Seq(S) /\ Len(s) = 2 /\ s[1] = a /\ s[2] = b
  BY <1>1
<1>3. PICK y : /\ y = Append(s, e) /\ y \in Seq(S) /\ Len(y) = Len(s) + 1
               /\ \A i \in 1..Len(s) : y[i] = s[i]
               /\ y[Len(s) + 1] = e
  BY <1>2, AppendIs, Zenon
<1>4. Len(y) = 3 /\ y[1] = a /\ y[2] = b /\ y[3] = e
  BY <1>2, <1>3
<1>5. y = <<a, b, e>>
  BY <1>3, <1>4, IsThree, Zenon
<1> QED
  BY <1>1, <1>3, <1>5, Zenon

LEMMA AppendThree ==
    ASSUME NEW S, NEW a \in S, NEW b \in S, NEW c \in S, NEW e \in S
    PROVE  Append(<<a, b, c>>, e) = <<a, b, c, e>>
<1>1. PICK s : s = <<a, b, c>>
  OBVIOUS
<1>2. s \in Seq(S) /\ Len(s) = 3 /\ s[1] = a /\ s[2] = b /\ s[3] = c
  BY <1>1
<1>3. PICK y : /\ y = Append(s, e) /\ y \in Seq(S) /\ Len(y) = Len(s) + 1
               /\ \A i \in 1..Len(s) : y[i] = s[i]
               /\ y[Len(s) + 1] = e
  BY <1>2, AppendIs, Zenon
<1>4. Len(y) = 4 /\ y[1] = a /\ y[2] = b /\ y[3] = c /\ y[4] = e
  BY <1>2, <1>3
<1>5. y = <<a, b, c, e>>
  BY <1>3, <1>4, IsFour, Zenon
<1> QED
  BY <1>1, <1>3, <1>5, Zenon

LEMMA ConcatOnes ==
    ASSUME NEW S, NEW a \in S, NEW b \in S
    PROVE  <<a>> \o <<b>> = <<a, b>>
<1>1. PICK u, v : u = <<a>> /\ v = <<b>>
  OBVIOUS
<1>2. u \in Seq(S) /\ Len(u) = 1 /\ u[1] = a
  BY <1>1, OneIs, Zenon
<1>3. v \in Seq(S) /\ Len(v) = 1 /\ v[1] = b
  BY <1>1, OneIs, Zenon
<1>4. /\ u \o v \in Seq(S)
      /\ Len(u \o v) = Len(u) + Len(v)
      /\ \A i \in 1..Len(u) + Len(v) : (u \o v)[i] = IF i <= Len(u) THEN u[i] ELSE v[i - Len(u)]
  BY <1>2, <1>3, ConcatProperties, Zenon
<1>5. PICK y : y = u \o v
  OBVIOUS
<1>6. y \in Seq(S) /\ Len(y) = 2 /\ y[1] = a /\ y[2] = b
  BY <1>2, <1>3, <1>4, <1>5
<1>7. y = <<a, b>>
  BY <1>6, IsTwo, Zenon
<1> QED
  BY <1>1, <1>5, <1>7, Zenon

LEMMA ThreeOf ==
    ASSUME NEW S, NEW x, x = [i \in 1..3 |-> x[i]], x[1] \in S, x[2] \in S, x[3] \in S
    PROVE  x \in [1..3 -> S]
<1>1. ASSUME NEW i \in 1..3
      PROVE  x[i] \in S
  <2>1. i = 1 \/ i = 2 \/ i = 3
    OBVIOUS
  <2> QED
    BY <2>1
<1> QED
  BY <1>1

LEMMA ThreeWide ==
    ASSUME NEW S, NEW s \in [1..3 -> S]
    PROVE  s \in Seq(S) /\ Len(s) = 3
<1>1. s \in Seq(S)
  BY SeqDef, 3 \in Nat, Zenon
<1>2. DOMAIN s = 1..3
  OBVIOUS
<1>3. DOMAIN s = 1..Len(s) /\ Len(s) \in Nat
  BY <1>1, LenProperties
<1> QED
  BY <1>1, <1>2, <1>3

LEMMA FirstTwo ==
    ASSUME NEW S, NEW p \in Seq(S), Len(p) >= 2
    PROVE  SubSeq(p, 1, 2) = <<p[1], p[2]>>
<1>1. PICK y : y = SubSeq(p, 1, 2)
  OBVIOUS
<1>2. y \in Seq(S) /\ Len(y) = 2 /\ y[1] = p[1] /\ y[2] = p[2]
  BY <1>1
<1> QED
  BY <1>1, <1>2, IsTwo, Zenon

LEMMA FrontOfTwo ==
    ASSUME NEW S, NEW a \in S, NEW b \in S
    PROVE  Front(<<a, b>>) = <<a>>
<1>1. PICK s : s = <<a, b>>
  OBVIOUS
<1>2. s \in Seq(S) /\ Len(s) = 2 /\ s[1] = a
  BY <1>1
<1>3. PICK y : y = SubSeq(s, 1, 1)
  OBVIOUS
<1>4. y \in Seq(S) /\ Len(y) = 1 /\ y[1] = s[1]
  BY <1>2, <1>3
<1>5. y = <<a>>
  BY <1>2, <1>4, IsOne, Zenon
<1>6. Front(s) = y
  BY <1>2, <1>3, 2 - 1 = 1 DEF Front
<1> QED
  BY <1>1, <1>5, <1>6, Zenon

-----------------------------------------------------------------------------
(* What cleaning and decoding make of a path of up to four segments.  Both   *)
(* are functions by recursion over the segments.                             *)

Cleaning(path, n, f) ==
    f = [i \in 0..n |-> IF i = 0 THEN <<>> ELSE Cleaned(f[i - 1], path[i])]

LEMMA CleaningGoesOn ==
    ASSUME NEW path, NEW n \in Nat, \E f : Cleaning(path, n, f)
    PROVE  \E f : Cleaning(path, n + 1, f)
<1>1. PICK f : Cleaning(path, n, f)
  OBVIOUS
<1> DEFINE g == [i \in 0..(n + 1) |-> IF i = n + 1 THEN Cleaned(f[n], path[n + 1]) ELSE f[i]]
<1>2. ASSUME NEW i \in 0..(n + 1)
      PROVE  g[i] = IF i = 0 THEN <<>> ELSE Cleaned(g[i - 1], path[i])
  <2>1. CASE i = n + 1
    <3>1. g[n] = f[n]
      OBVIOUS
    <3>2. i # 0 /\ i - 1 = n
      BY <2>1
    <3>3. g[i] = Cleaned(f[n], path[n + 1])
      BY <2>1
    <3> QED
      BY <2>1, <3>1, <3>2, <3>3
  <2>2. CASE i # n + 1
    <3>1. i \in 0..n /\ g[i] = f[i]
      BY <2>2
    <3>2. f[i] = IF i = 0 THEN <<>> ELSE Cleaned(f[i - 1], path[i])
      BY <1>1, <3>1 DEF Cleaning
    <3>3. i # 0 => g[i - 1] = f[i - 1]
      BY <3>1
    <3> QED
      BY <3>1, <3>2, <3>3
  <2> QED
    BY <2>1, <2>2
<1>3. Cleaning(path, n + 1, g)
  BY <1>2 DEF Cleaning
<1> QED
  BY <1>3

LEMMA CleaningEnds ==
    ASSUME NEW path, NEW n \in {1, 2, 3, 4}
    PROVE  \E f : Cleaning(path, n, f)
<1>1. \E f : Cleaning(path, 0, f)
  <2>1. Cleaning(path, 0, [i \in 0..0 |-> <<>>])
    BY DEF Cleaning
  <2> QED
    BY <2>1
<1>2. \E f : Cleaning(path, 1, f)
  BY <1>1, CleaningGoesOn, 0 + 1 = 1
<1>3. \E f : Cleaning(path, 2, f)
  BY <1>2, CleaningGoesOn, 1 + 1 = 2
<1>4. \E f : Cleaning(path, 3, f)
  BY <1>3, CleaningGoesOn, 2 + 1 = 3
<1>5. \E f : Cleaning(path, 4, f)
  BY <1>4, CleaningGoesOn, 3 + 1 = 4
<1> QED
  BY <1>2, <1>3, <1>4, <1>5

LEMMA CleanPath ==
    ASSUME NEW path, NEW n \in {1, 2, 3, 4}, Len(path) = n
    PROVE  \E f : /\ Cleaning(path, n, f)
                  /\ cleanPath(path) = IF path[n] = <<"">> THEN Append(f[n], <<"">>) ELSE f[n]
<1> DEFINE c == CHOOSE f : f = [i \in 0..Len(path) |->
                                  IF i = 0 THEN <<>> ELSE Cleaned(f[i - 1], path[i])]
<1>1. Cleaning(path, Len(path), c)
  BY CleaningEnds DEF Cleaning
<1>2. cleanPath(path) = IF Last(path) = <<"">> THEN Append(c[Len(path)], <<"">>)
                        ELSE c[Len(path)]
  BY Zenon DEF cleanPath
<1>3. Last(path) = path[n]
  BY DEF Last
<1> HIDE DEF c
<1> QED
  BY <1>1, <1>2, <1>3

Flattening(seqs, n, f) ==
    f = [i \in 1..n |-> IF i = 1 THEN seqs[i] ELSE f[i - 1] \o seqs[i]]

LEMMA FlatteningGoesOn ==
    ASSUME NEW seqs, NEW n \in Nat \ {0}, \E f : Flattening(seqs, n, f)
    PROVE  \E f : Flattening(seqs, n + 1, f)
<1>1. PICK f : Flattening(seqs, n, f)
  OBVIOUS
<1> DEFINE g == [i \in 1..(n + 1) |-> IF i = n + 1 THEN f[n] \o seqs[n + 1] ELSE f[i]]
<1>2. ASSUME NEW i \in 1..(n + 1)
      PROVE  g[i] = IF i = 1 THEN seqs[i] ELSE g[i - 1] \o seqs[i]
  <2>1. CASE i = n + 1
    <3>1. g[n] = f[n]
      OBVIOUS
    <3>2. i # 1 /\ i - 1 = n
      BY <2>1
    <3>3. g[i] = f[n] \o seqs[n + 1]
      BY <2>1
    <3> QED
      BY <2>1, <3>1, <3>2, <3>3
  <2>2. CASE i # n + 1
    <3>1. i \in 1..n /\ g[i] = f[i]
      BY <2>2
    <3>2. f[i] = IF i = 1 THEN seqs[i] ELSE f[i - 1] \o seqs[i]
      BY <1>1, <3>1 DEF Flattening
    <3>3. i # 1 => g[i - 1] = f[i - 1]
      BY <3>1
    <3> QED
      BY <3>1, <3>2, <3>3
  <2> QED
    BY <2>1, <2>2
<1>3. Flattening(seqs, n + 1, g)
  BY <1>2 DEF Flattening
<1> QED
  BY <1>3

LEMMA FlatteningEnds ==
    ASSUME NEW seqs, NEW n \in {1, 2, 3, 4}
    PROVE  \E f : Flattening(seqs, n, f)
<1>1. \E f : Flattening(seqs, 1, f)
  <2>1. Flattening(seqs, 1, [i \in 1..1 |-> seqs[i]])
    BY DEF Flattening
  <2> QED
    BY <2>1
<1>2. \E f : Flattening(seqs, 2, f)
  BY <1>1, FlatteningGoesOn, 1 + 1 = 2
<1>3. \E f : Flattening(seqs, 3, f)
  BY <1>2, FlatteningGoesOn, 2 + 1 = 3
<1>4. \E f : Flattening(seqs, 4, f)
  BY <1>3, FlatteningGoesOn, 3 + 1 = 4
<1> QED
  BY <1>1, <1>2, <1>3, <1>4

LEMMA FlattenPath ==
    ASSUME NEW seqs, NEW n \in {1, 2, 3, 4}, Len(seqs) = n
    PROVE  \E f : Flattening(seqs, n, f) /\ FlattenSeq(seqs) = f[n]
<1> DEFINE c == CHOOSE f : f = [i \in 1..Len(seqs) |->
                                  IF i = 1 THEN seqs[i] ELSE f[i - 1] \o seqs[i]]
<1>1. Flattening(seqs, Len(seqs), c)
  BY FlatteningEnds DEF Flattening
<1>2. FlattenSeq(seqs) = IF Len(seqs) = 0 THEN seqs ELSE c[Len(seqs)]
  BY Zenon DEF FlattenSeq
<1> HIDE DEF c
<1> QED
  BY <1>1, <1>2

LEMMA FlatteningStarts ==
    ASSUME NEW seqs, NEW n \in {2, 3, 4}, NEW f, Flattening(seqs, n, f)
    PROVE  f[1] = seqs[1] /\ f[2] = f[1] \o seqs[2]
<1>1. \A i \in 1..n : f[i] = IF i = 1 THEN seqs[i] ELSE f[i - 1] \o seqs[i]
  BY DEF Flattening
<1>2. f[1] = seqs[1]
  BY <1>1
<1>3. 2 \in 1..n
  OBVIOUS
<1>4. f[2] = IF 2 = 1 THEN seqs[2] ELSE f[2 - 1] \o seqs[2]
  BY <1>1, <1>3, Zenon
<1>5. f[2] = f[1] \o seqs[2]
  BY <1>4, 2 - 1 = 1
<1> QED
  BY <1>2, <1>5, Zenon

LEMMA FlatteningThird ==
    ASSUME NEW seqs, NEW n \in {3, 4}, NEW f, Flattening(seqs, n, f)
    PROVE  f[3] = f[2] \o seqs[3]
<1>1. \A i \in 1..n : f[i] = IF i = 1 THEN seqs[i] ELSE f[i - 1] \o seqs[i]
  BY DEF Flattening
<1>2. 3 \in 1..n
  OBVIOUS
<1>3. f[3] = IF 3 = 1 THEN seqs[3] ELSE f[3 - 1] \o seqs[3]
  BY <1>1, <1>2, Zenon
<1> QED
  BY <1>3, 3 - 1 = 2

LEMMA FlatteningFourth ==
    ASSUME NEW seqs, NEW f, Flattening(seqs, 4, f)
    PROVE  f[4] = f[3] \o seqs[4]
<1>1. \A i \in 1..4 : f[i] = IF i = 1 THEN seqs[i] ELSE f[i - 1] \o seqs[i]
  BY DEF Flattening
<1>2. 4 \in 1..4
  OBVIOUS
<1>3. f[4] = IF 4 = 1 THEN seqs[4] ELSE f[4 - 1] \o seqs[4]
  BY <1>1, <1>2, Zenon
<1> QED
  BY <1>3, 4 - 1 = 3

LEMMA CleaningSteps ==
    ASSUME NEW path, NEW n \in {2, 3, 4}, NEW f, Cleaning(path, n, f)
    PROVE  /\ f[1] = Cleaned(<<>>, path[1])
           /\ f[2] = Cleaned(f[1], path[2])
           /\ n \in {3, 4} => f[3] = Cleaned(f[2], path[3])
           /\ n = 4 => f[4] = Cleaned(f[3], path[4])
<1>1. \A i \in 0..n : f[i] = IF i = 0 THEN <<>> ELSE Cleaned(f[i - 1], path[i])
  BY DEF Cleaning
<1>2. f[1] = Cleaned(<<>>, path[1])
  <2>1. 0 \in 0..n /\ 1 \in 0..n
    OBVIOUS
  <2>2. f[0] = IF 0 = 0 THEN <<>> ELSE Cleaned(f[0 - 1], path[0])
    BY <1>1, <2>1, Zenon
  <2>3. f[1] = IF 1 = 0 THEN <<>> ELSE Cleaned(f[1 - 1], path[1])
    BY <1>1, <2>1, Zenon
  <2>4. f[0] = <<>>
    BY <2>2
  <2> QED
    BY <2>3, <2>4, 1 - 1 = 0
<1>3. f[2] = Cleaned(f[1], path[2])
  <2>1. 2 \in 0..n
    OBVIOUS
  <2>2. f[2] = IF 2 = 0 THEN <<>> ELSE Cleaned(f[2 - 1], path[2])
    BY <1>1, <2>1, Zenon
  <2> QED
    BY <2>2, 2 - 1 = 1
<1>4. ASSUME n \in {3, 4}
      PROVE  f[3] = Cleaned(f[2], path[3])
  <2>1. 3 \in 0..n
    BY <1>4
  <2>2. f[3] = IF 3 = 0 THEN <<>> ELSE Cleaned(f[3 - 1], path[3])
    BY <1>1, <2>1, Zenon
  <2> QED
    BY <2>2, 3 - 1 = 2
<1>5. ASSUME n = 4
      PROVE  f[4] = Cleaned(f[3], path[4])
  <2>1. 4 \in 0..n
    BY <1>5
  <2>2. f[4] = IF 4 = 0 THEN <<>> ELSE Cleaned(f[4 - 1], path[4])
    BY <1>1, <2>1, Zenon
  <2> QED
    BY <2>2, 4 - 1 = 3
<1> QED
  BY <1>2, <1>3, <1>4, <1>5

LEMMA FlattenOne == ASSUME NEW seqs, Len(seqs) = 1 PROVE FlattenSeq(seqs) = seqs[1]
<1>1. PICK f : Flattening(seqs, 1, f) /\ FlattenSeq(seqs) = f[1]
  BY FlattenPath, 1 \in {1, 2, 3, 4}, Zenon
<1>2. f[1] = seqs[1]
  BY <1>1 DEF Flattening
<1> QED
  BY <1>1, <1>2

LEMMA FlattenTwo ==
    ASSUME NEW seqs, Len(seqs) = 2
    PROVE  FlattenSeq(seqs) = seqs[1] \o seqs[2]
<1>1. 2 \in {1, 2, 3, 4} /\ 2 \in {2, 3, 4}
  OBVIOUS
<1>2. PICK f : Flattening(seqs, 2, f) /\ FlattenSeq(seqs) = f[2]
  BY <1>1, FlattenPath, Zenon
<1>3. f[1] = seqs[1] /\ f[2] = f[1] \o seqs[2]
  BY <1>1, <1>2, FlatteningStarts, Zenon
<1> QED
  BY <1>2, <1>3

LEMMA FlattenThree ==
    ASSUME NEW seqs, Len(seqs) = 3
    PROVE  FlattenSeq(seqs) = seqs[1] \o seqs[2] \o seqs[3]
<1>1. 3 \in {1, 2, 3, 4} /\ 3 \in {2, 3, 4}
  OBVIOUS
<1>2. PICK f : Flattening(seqs, 3, f) /\ FlattenSeq(seqs) = f[3]
  BY <1>1, FlattenPath, Zenon
<1>3. f[1] = seqs[1] /\ f[2] = f[1] \o seqs[2]
  BY <1>1, <1>2, FlatteningStarts, Zenon
<1>4. f[3] = f[2] \o seqs[3]
  BY <1>2, 3 \in {3, 4}, FlatteningThird, Zenon
<1> QED
  BY <1>2, <1>3, <1>4

LEMMA FlattenFour ==
    ASSUME NEW seqs, Len(seqs) = 4
    PROVE  FlattenSeq(seqs) = seqs[1] \o seqs[2] \o seqs[3] \o seqs[4]
<1>1. 4 \in {1, 2, 3, 4} /\ 4 \in {2, 3, 4}
  OBVIOUS
<1>2. PICK f : Flattening(seqs, 4, f) /\ FlattenSeq(seqs) = f[4]
  BY <1>1, FlattenPath, Zenon
<1>3. f[1] = seqs[1] /\ f[2] = f[1] \o seqs[2]
  BY <1>1, <1>2, FlatteningStarts, Zenon
<1>4. f[3] = f[2] \o seqs[3]
  BY <1>2, 4 \in {3, 4}, FlatteningThird, Zenon
<1>5. f[4] = f[3] \o seqs[4]
  BY <1>2, FlatteningFourth, Zenon
<1> QED
  BY <1>2, <1>3, <1>4, <1>5

LEMMA CleanTwo ==
    ASSUME NEW path, Len(path) = 2
    PROVE  LET k == Cleaned(Cleaned(<<>>, path[1]), path[2])
           IN  cleanPath(path) = IF path[2] = <<"">> THEN Append(k, <<"">>) ELSE k
<1>1. 2 \in {1, 2, 3, 4} /\ 2 \in {2, 3, 4}
  OBVIOUS
<1>2. PICK f : /\ Cleaning(path, 2, f)
               /\ cleanPath(path) = IF path[2] = <<"">> THEN Append(f[2], <<"">>) ELSE f[2]
  BY <1>1, CleanPath, Zenon
<1>3. f[1] = Cleaned(<<>>, path[1]) /\ f[2] = Cleaned(f[1], path[2])
  BY <1>1, <1>2, CleaningSteps, Zenon
<1> QED
  BY <1>2, <1>3

LEMMA CleanThree ==
    ASSUME NEW path, Len(path) = 3
    PROVE  LET k == Cleaned(Cleaned(Cleaned(<<>>, path[1]), path[2]), path[3])
           IN  cleanPath(path) = IF path[3] = <<"">> THEN Append(k, <<"">>) ELSE k
<1>1. 3 \in {1, 2, 3, 4} /\ 3 \in {2, 3, 4}
  OBVIOUS
<1>2. PICK f : /\ Cleaning(path, 3, f)
               /\ cleanPath(path) = IF path[3] = <<"">> THEN Append(f[3], <<"">>) ELSE f[3]
  BY <1>1, CleanPath, Zenon
<1>3. f[1] = Cleaned(<<>>, path[1]) /\ f[2] = Cleaned(f[1], path[2]) /\ f[3] = Cleaned(f[2], path[3])
  BY <1>1, <1>2, CleaningSteps, Zenon
<1> QED
  BY <1>2, <1>3

LEMMA CleanFour ==
    ASSUME NEW path, Len(path) = 4
    PROVE  LET k == Cleaned(Cleaned(Cleaned(Cleaned(<<>>, path[1]), path[2]), path[3]), path[4])
           IN  cleanPath(path) = IF path[4] = <<"">> THEN Append(k, <<"">>) ELSE k
<1>1. 4 \in {1, 2, 3, 4} /\ 4 \in {2, 3, 4}
  OBVIOUS
<1>2. PICK f : /\ Cleaning(path, 4, f)
               /\ cleanPath(path) = IF path[4] = <<"">> THEN Append(f[4], <<"">>) ELSE f[4]
  BY <1>1, CleanPath, Zenon
<1>3. f[1] = Cleaned(<<>>, path[1]) /\ f[2] = Cleaned(f[1], path[2]) /\ f[3] = Cleaned(f[2], path[3]) /\ f[4] = Cleaned(f[3], path[4])
  BY <1>1, <1>2, CleaningSteps, Zenon
<1> QED
  BY <1>2, <1>3

-----------------------------------------------------------------------------
(* The names of the deployed document's operations. *)

Lookup == Operation(<<"lookup", "customer">>, "GET", CustomerPath, CustomerId, {})
Update == Operation(<<"update", "customer">>, "PUT", CustomerPath, CustomerId, {"email"})
Orders == Operation(<<"recent", "orders">>, "GET", OrdersPath, CustomerId, {})
Refund == Operation(<<"issue", "refund">>, "POST", RefundsPath, {}, {"customer_id", "amount"})

LEMMA AcmeApiIs == AcmeApi = {Lookup, Update, Orders, Refund}
BY DEF AcmeApi, Lookup, Update, Orders, Refund

LEMMA ToolsAre == Tools = {"lookup_customer", "recent_orders", "update_customer", "issue_refund"}
BY DEF Tools, TOOL_SCOPES

LEMMA OneTwoThree ==
    /\ 1 % 2 = 1 /\ 2 % 2 # 1 /\ 3 % 2 = 1
    /\ (1 + 1) \div 2 = 1 /\ (3 + 1) \div 2 = 2
    /\ 2 * 2 - 1 = 3
OBVIOUS

LEMMA SnakeTwo == ASSUME NEW a, NEW b PROVE Snake(<<a, b>>) = <<a, "_", b>>
<1>1. Snake(<<a, b>>) =
        [i \in 1..3 |-> IF i % 2 = 1 THEN <<a, b>>[(i + 1) \div 2] ELSE "_"]
  <2>1. Len(<<a, b>>) = 2
    OBVIOUS
  <2> QED
    BY <2>1, OneTwoThree DEF Snake
<1>2. \A i \in 1..3 : Snake(<<a, b>>)[i] = IF i % 2 = 1 THEN <<a, b>>[(i + 1) \div 2] ELSE "_"
  BY <1>1
<1>3. 1 \in 1..3 /\ 2 \in 1..3 /\ 3 \in 1..3
  OBVIOUS
<1>4. Snake(<<a, b>>)[1] = <<a, b>>[1]
  <2>1. Snake(<<a, b>>)[1] = IF 1 % 2 = 1 THEN <<a, b>>[(1 + 1) \div 2] ELSE "_"
    BY <1>2, <1>3, Zenon
  <2> QED
    BY <2>1, OneTwoThree, Zenon
<1>5. Snake(<<a, b>>)[2] = "_"
  <2>1. Snake(<<a, b>>)[2] = IF 2 % 2 = 1 THEN <<a, b>>[(2 + 1) \div 2] ELSE "_"
    BY <1>2, <1>3, Zenon
  <2> QED
    BY <2>1, OneTwoThree, Zenon
<1>6. Snake(<<a, b>>)[3] = <<a, b>>[2]
  <2>1. Snake(<<a, b>>)[3] = IF 3 % 2 = 1 THEN <<a, b>>[(3 + 1) \div 2] ELSE "_"
    BY <1>2, <1>3, Zenon
  <2> QED
    BY <2>1, OneTwoThree, Zenon
<1>7. <<a, b>>[1] = a /\ <<a, b>>[2] = b
  OBVIOUS
<1>8. PICK x : x = Snake(<<a, b>>)
  OBVIOUS
<1>9. x[1] = a /\ x[2] = "_" /\ x[3] = b
  BY <1>4, <1>5, <1>6, <1>7, <1>8, Zenon
<1>10. x = [i \in 1..3 |-> x[i]]
  BY <1>1, <1>8, Zenon
<1>11. x \in [1..3 -> {a, b, "_"}]
  BY <1>9, <1>10, ThreeOf
<1>12. x = <<a, "_", b>>
  BY <1>9, <1>11, ThreeWide, IsThree, Zenon
<1> QED
  BY <1>8, <1>12, Zenon

LEMMA NamesOfTools ==
    /\ toolName(Lookup) = NameOf["lookup_customer"]
    /\ toolName(Update) = NameOf["update_customer"]
    /\ toolName(Orders) = NameOf["recent_orders"]
    /\ toolName(Refund) = NameOf["issue_refund"]
<1>1. toolName(Lookup) = <<"lookup", "_", "customer">>
  <2>1. Lookup.operationId = <<"lookup", "customer">> /\ Lookup.operationId # <<>>
    BY DEF Lookup, Operation
  <2> QED
    BY <2>1, SnakeTwo DEF toolName
<1>2. toolName(Update) = <<"update", "_", "customer">>
  <2>1. Update.operationId = <<"update", "customer">> /\ Update.operationId # <<>>
    BY DEF Update, Operation
  <2> QED
    BY <2>1, SnakeTwo DEF toolName
<1>3. toolName(Orders) = <<"recent", "_", "orders">>
  <2>1. Orders.operationId = <<"recent", "orders">> /\ Orders.operationId # <<>>
    BY DEF Orders, Operation
  <2> QED
    BY <2>1, SnakeTwo DEF toolName
<1>4. toolName(Refund) = <<"issue", "_", "refund">>
  <2>1. Refund.operationId = <<"issue", "refund">> /\ Refund.operationId # <<>>
    BY DEF Refund, Operation
  <2> QED
    BY <2>1, SnakeTwo DEF toolName
<1> QED
  BY <1>1, <1>2, <1>3, <1>4 DEF NameOf

LEMMA NamesOfToolsBegin ==
    /\ NameOf["lookup_customer"][1] = "lookup"
    /\ NameOf["update_customer"][1] = "update"
    /\ NameOf["recent_orders"][1] = "recent"
    /\ NameOf["issue_refund"][1] = "issue"
<1>1. NameOf["lookup_customer"][1] = "lookup"
  BY DEF NameOf
<1>2. NameOf["update_customer"][1] = "update"
  BY DEF NameOf
<1>3. NameOf["recent_orders"][1] = "recent"
  BY DEF NameOf
<1>4. NameOf["issue_refund"][1] = "issue"
  BY DEF NameOf
<1> QED
  BY <1>1, <1>2, <1>3, <1>4

LEMMA SnakeBegins ==
    ASSUME NEW words, Len(words) \in Nat \ {0}
    PROVE  Snake(words)[1] = words[1] /\ Len(Snake(words)) = 2 * Len(words) - 1
<1>1. 1 \in 1..(2 * Len(words) - 1)
  OBVIOUS
<1>2. Snake(words)[1] = words[1]
  BY <1>1, 1 % 2 = 1, (1 + 1) \div 2 = 1 DEF Snake
<1>3. Len(Snake(words)) = 2 * Len(words) - 1
  BY DEF Snake
<1> QED
  BY <1>2, <1>3

LEMMA AnonymousIs ==
    ASSUME NEW o \in Anonymous(AcmeApi)
    PROVE  /\ o.operationId = <<>>
           /\ \/ o = [Lookup EXCEPT !.operationId = <<>>] /\ o.method = "GET" /\ o.path = CustomerPath
              \/ o = [Update EXCEPT !.operationId = <<>>] /\ o.method = "PUT" /\ o.path = CustomerPath
              \/ o = [Orders EXCEPT !.operationId = <<>>] /\ o.method = "GET" /\ o.path = OrdersPath
              \/ o = [Refund EXCEPT !.operationId = <<>>] /\ o.method = "POST" /\ o.path = RefundsPath
<1>1. PICK p \in {Lookup, Update, Orders, Refund} : o = [p EXCEPT !.operationId = <<>>]
  BY AcmeApiIs DEF Anonymous
<1>2. CASE p = Lookup
  BY <1>1, <1>2 DEF Lookup, Operation
<1>3. CASE p = Update
  BY <1>1, <1>3 DEF Update, Operation
<1>4. CASE p = Orders
  BY <1>1, <1>4 DEF Orders, Operation
<1>5. CASE p = Refund
  BY <1>1, <1>5 DEF Refund, Operation
<1> QED
  BY <1>2, <1>3, <1>4, <1>5

(* Enough to hold every piece of a path. *)
Pieces == STRING \cup {"anything", "customers", "customer_id", "orders", "refunds", ""}

LEMMA PiecesAre ==
    /\ "anything" \in Pieces /\ "customers" \in Pieces /\ "customer_id" \in Pieces
    /\ "orders" \in Pieces /\ "refunds" \in Pieces /\ "" \in Pieces
    /\ STRING \subseteq Pieces
BY DEF Pieces

LEMMA PathsAre ==
    /\ CustomerPath = <<"anything", "customers", "customer_id">>
    /\ OrdersPath = <<"anything", "customers", "customer_id", "orders">>
    /\ RefundsPath = <<"anything", "refunds">>
<1>1. Append(<<"anything", "customers", "customer_id">>, "orders")
        = <<"anything", "customers", "customer_id", "orders">>
  <2>1. \A a, b, c, e \in Pieces : Append(<<a, b, c>>, e) = <<a, b, c, e>>
    BY AppendThree
  <2> QED
    BY <2>1, PiecesAre, Zenon
<1> QED
  BY <1>1, Zenon DEF CustomerPath, OrdersPath, RefundsPath

LEMMA PathsLong ==
    /\ CustomerPath \in Seq(Pieces) /\ Len(CustomerPath) = 3
    /\ OrdersPath \in Seq(Pieces) /\ Len(OrdersPath) = 4
    /\ RefundsPath \in Seq(Pieces) /\ Len(RefundsPath) = 2
<1>1. CustomerPath \in Seq(Pieces) /\ Len(CustomerPath) = 3
  BY PathsAre, PiecesAre, ThreeIs, Zenon
<1>2. OrdersPath \in Seq(Pieces) /\ Len(OrdersPath) = 4
  BY PathsAre, PiecesAre, FourIs, Zenon
<1>3. RefundsPath \in Seq(Pieces) /\ Len(RefundsPath) = 2
  BY PathsAre, PiecesAre, TwoIs, Zenon
<1> QED
  BY <1>1, <1>2, <1>3

LEMMA AnonymousName ==
    ASSUME NEW o \in Anonymous(AcmeApi)
    PROVE  toolName(o)[1] = o.method /\ Len(toolName(o)) = 2 * Len(o.path) + 1
<1>1. o.operationId = <<>>
  BY AnonymousIs
<1>2. o.path \in Seq(Pieces) /\ Len(o.path) \in Nat
  <2>1. o.path \in {CustomerPath, OrdersPath, RefundsPath}
    BY AnonymousIs
  <2> QED
    BY <2>1, PathsLong
<1>3. PICK w : w = <<o.method>> \o o.path
  OBVIOUS
<1>4. toolName(o) = Snake(w)
  BY <1>1, <1>3 DEF toolName
<1>5. Len(w) = 1 + Len(o.path) /\ w[1] = o.method
  BY <1>2, <1>3
<1>6. Snake(w)[1] = w[1] /\ Len(Snake(w)) = 2 * Len(w) - 1
  <2>1. Len(w) \in Nat \ {0}
    BY <1>2, <1>5
  <2> QED
    BY <2>1, SnakeBegins
<1> QED
  BY <1>2, <1>4, <1>5, <1>6

(* No tool of the page has the name of an operation without an id. *)
LEMMA AnonymousNamesUnknown ==
    ASSUME NEW o \in Anonymous(AcmeApi), NEW t \in Tools
    PROVE  toolName(o) # NameOf[t]
<1>1. toolName(o)[1] \in {"GET", "PUT", "POST"}
  BY AnonymousName, AnonymousIs
<1>2. NameOf[t][1] \in {"lookup", "update", "recent", "issue"}
  BY NamesOfToolsBegin, ToolsAre
<1> QED
  BY <1>1, <1>2

LEMMA AnonymousNamesApart ==
    ASSUME NEW o \in Anonymous(AcmeApi), NEW p \in Anonymous(AcmeApi), toolName(o) = toolName(p)
    PROVE  o = p
<1>1. o.method = p.method /\ Len(o.path) = Len(p.path)
  <2>1. Len(o.path) \in Nat /\ Len(p.path) \in Nat
    BY AnonymousIs, PathsLong
  <2>2. 2 * Len(o.path) + 1 = 2 * Len(p.path) + 1 /\ o.method = p.method
    BY AnonymousName
  <2> QED
    BY <2>1, <2>2
<1>2. Len(CustomerPath) = 3 /\ Len(OrdersPath) = 4
  BY PathsLong
<1>3. o.path = CustomerPath => p.path # OrdersPath
  <2> SUFFICES ASSUME o.path = CustomerPath, p.path = OrdersPath
               PROVE  FALSE
    OBVIOUS
  <2>1. Len(o.path) = 3 /\ Len(p.path) = 4
    BY <1>2, Zenon
  <2> QED
    BY <1>1, <2>1, 3 # 4, Zenon
<1>4. o.path = OrdersPath => p.path # CustomerPath
  <2> SUFFICES ASSUME o.path = OrdersPath, p.path = CustomerPath
               PROVE  FALSE
    OBVIOUS
  <2>1. Len(o.path) = 4 /\ Len(p.path) = 3
    BY <1>2, Zenon
  <2> QED
    BY <1>1, <2>1, 3 # 4, Zenon
<1>5. \/ p = [Lookup EXCEPT !.operationId = <<>>] /\ p.method = "GET" /\ p.path = CustomerPath
      \/ p = [Update EXCEPT !.operationId = <<>>] /\ p.method = "PUT"
      \/ p = [Orders EXCEPT !.operationId = <<>>] /\ p.method = "GET" /\ p.path = OrdersPath
      \/ p = [Refund EXCEPT !.operationId = <<>>] /\ p.method = "POST"
  BY AnonymousIs
<1>6. CASE o = [Lookup EXCEPT !.operationId = <<>>] /\ o.method = "GET" /\ o.path = CustomerPath
  BY <1>1, <1>3, <1>5, <1>6, Zenon
<1>7. CASE o = [Update EXCEPT !.operationId = <<>>] /\ o.method = "PUT"
  BY <1>1, <1>5, <1>7, Zenon
<1>8. CASE o = [Orders EXCEPT !.operationId = <<>>] /\ o.method = "GET" /\ o.path = OrdersPath
  BY <1>1, <1>4, <1>5, <1>8, Zenon
<1>9. CASE o = [Refund EXCEPT !.operationId = <<>>] /\ o.method = "POST"
  BY <1>1, <1>5, <1>9, Zenon
<1> QED
  BY <1>6, <1>7, <1>8, <1>9, AnonymousIs

LEMMA AcmeNamesApart ==
    ASSUME NEW o \in AcmeApi, NEW p \in AcmeApi, toolName(o) = toolName(p)
    PROVE  o = p
<1>1. toolName(Lookup)[1] = "lookup" /\ toolName(Update)[1] = "update"
      /\ toolName(Orders)[1] = "recent" /\ toolName(Refund)[1] = "issue"
  BY NamesOfTools, NamesOfToolsBegin, ToolsAre
<1> QED
  BY <1>1, AcmeApiIs

LEMMA DeployedNamesApart ==
    ASSUME NEW d \in {AcmeApi, Anonymous(AcmeApi)}, NEW o \in d, NEW p \in d,
           toolName(o) = toolName(p)
    PROVE  o = p
BY AcmeNamesApart, AnonymousNamesApart

LEMMA ToolOfName ==
    ASSUME NEW d \in {AcmeApi, Anonymous(AcmeApi)}, NEW o \in d, NEW t \in Tools,
           toolName(o) = NameOf[t]
    PROVE  \/ o = Lookup /\ t = "lookup_customer"
           \/ o = Orders /\ t = "recent_orders"
           \/ o = Update /\ t = "update_customer"
           \/ o = Refund /\ t = "issue_refund"
<1>1. d = AcmeApi /\ o \in AcmeApi
  BY AnonymousNamesUnknown
<1>2. toolName(o)[1] = NameOf[t][1]
  OBVIOUS
<1>3. toolName(Lookup)[1] = "lookup" /\ toolName(Update)[1] = "update"
      /\ toolName(Orders)[1] = "recent" /\ toolName(Refund)[1] = "issue"
  BY NamesOfTools, NamesOfToolsBegin
<1> QED
  BY <1>1, <1>2, <1>3, AcmeApiIs, ToolsAre, NamesOfToolsBegin

-----------------------------------------------------------------------------
(* What the four operations become. *)

LEMMA PathParameterOnly ==
    /\ {p.name : p \in {q \in CustomerId : q.in = "path"}} = {"customer_id"}
    /\ {p.name : p \in {q \in CustomerId : q.in = "query"}} = {}
    /\ {p.name : p \in {q \in CustomerId : q.required /\ q.name \in {"customer_id"}}} = {"customer_id"}
<1>1. PICK x : x = Param("customer_id", "path")
  OBVIOUS
<1>2. x.name = "customer_id" /\ x.in = "path" /\ x.required
  BY <1>1 DEF Param
<1>3. CustomerId = {x}
  BY <1>1 DEF CustomerId
<1>4. {q \in CustomerId : q.in = "path"} = {x} /\ {q \in CustomerId : q.in = "query"} = {}
  BY <1>2, <1>3
<1>5. {q \in CustomerId : q.required /\ q.name \in {"customer_id"}} = {x}
  BY <1>2, <1>3
<1> QED
  BY <1>2, <1>4, <1>5

LEMMA CustomerTool ==
    ASSUME NEW words, NEW method, NEW path, NEW body
    PROVE  buildToolFor(Operation(words, method, path, CustomerId, body)) =
             [props |-> {"customer_id"} \cup body, required |-> {"customer_id"} \cup body,
              method |-> method, path |-> path, pathParams |-> {"customer_id"}, bodyProps |-> body]
<1>1. PICK o : o = Operation(words, method, path, CustomerId, body)
  OBVIOUS
<1>2. o.parameters = CustomerId /\ o.method = method /\ o.path = path /\ o.body = body
  BY <1>1 DEF Operation
<1>3. {"customer_id"} \cup {} = {"customer_id"}
  OBVIOUS
<1>4. buildToolFor(o) =
             [props |-> {"customer_id"} \cup body, required |-> {"customer_id"} \cup body,
              method |-> method, path |-> path, pathParams |-> {"customer_id"}, bodyProps |-> body]
  BY <1>2, <1>3, PathParameterOnly DEF buildToolFor
<1> QED
  BY <1>1, <1>4

LEMMA RefundTool ==
    buildToolFor(Refund) =
             [props |-> {"customer_id", "amount"}, required |-> {"customer_id", "amount"},
              method |-> "POST", path |-> RefundsPath, pathParams |-> {},
              bodyProps |-> {"customer_id", "amount"}]
<1>1. PICK o : o = Refund
  OBVIOUS
<1>2. o.parameters = {} /\ o.method = "POST" /\ o.path = RefundsPath
      /\ o.body = {"customer_id", "amount"}
  BY <1>1 DEF Refund, Operation
<1>3. buildToolFor(o) =
             [props |-> {"customer_id", "amount"}, required |-> {"customer_id", "amount"},
              method |-> "POST", path |-> RefundsPath, pathParams |-> {},
              bodyProps |-> {"customer_id", "amount"}]
  BY <1>2 DEF buildToolFor
<1> QED
  BY <1>1, <1>3

-----------------------------------------------------------------------------
(* Cleaning the paths of the four tools. *)

Segments == Seq(Pieces)
Kept(segment) == segment # <<"">> /\ segment # <<".">> /\ segment # <<"..">>
Skipped(segment) == segment \in {<<"">>, <<".">>}

LEMMA KeptIs == ASSUME NEW k, NEW segment, Kept(segment) PROVE Cleaned(k, segment) = Append(k, segment)
BY DEF Kept, Cleaned

LEMMA LiteralsKept ==
    /\ <<"anything">> \in Segments /\ Kept(<<"anything">>)
    /\ <<"customers">> \in Segments /\ Kept(<<"customers">>)
    /\ <<"orders">> \in Segments /\ Kept(<<"orders">>)
    /\ <<"refunds">> \in Segments /\ Kept(<<"refunds">>)
<1>1. \A a, b \in {"anything", "customers", "orders", "refunds", "", ".", ".."} :
          <<a>> = <<b>> => a = b
  OBVIOUS
<1>2. \A a \in Pieces : <<a>> \in Segments
  BY OneIs DEF Segments
<1>3. Kept(<<"anything">>)
  BY <1>1, Zenon DEF Kept
<1>4. Kept(<<"customers">>)
  BY <1>1, Zenon DEF Kept
<1>5. Kept(<<"orders">>)
  BY <1>1, Zenon DEF Kept
<1>6. Kept(<<"refunds">>)
  BY <1>1, Zenon DEF Kept
<1> QED
  BY <1>2, <1>3, <1>4, <1>5, <1>6, PiecesAre, Zenon

LEMMA AppendFirst == ASSUME NEW S, NEW a \in S PROVE Append(<<>>, a) = <<a>>
OBVIOUS

LEMMA AppendSecond == ASSUME NEW S, NEW a \in S, NEW b \in S PROVE Append(<<a>>, b) = <<a, b>>
<1>1. PICK s : s = <<a>>
  OBVIOUS
<1>2. s \in Seq(S) /\ Len(s) = 1 /\ s[1] = a
  BY <1>1
<1>3. PICK y : /\ y = Append(s, b) /\ y \in Seq(S) /\ Len(y) = Len(s) + 1
               /\ \A i \in 1..Len(s) : y[i] = s[i]
               /\ y[Len(s) + 1] = b
  BY <1>2, AppendIs, Zenon
<1>4. Len(y) = 2 /\ y[1] = a /\ y[2] = b
  BY <1>2, <1>3
<1>5. y = <<a, b>>
  BY <1>3, <1>4, IsTwo, Zenon
<1> QED
  BY <1>1, <1>3, <1>5, Zenon

LEMMA PrefixCleaned ==
    ASSUME NEW a \in Segments, NEW b \in Segments, Kept(a), Kept(b)
    PROVE  Cleaned(Cleaned(<<>>, a), b) = <<a, b>>
<1>1. Cleaned(<<>>, a) = <<a>>
  BY KeptIs, AppendFirst, Zenon
<1>2. Cleaned(<<a>>, b) = <<a, b>>
  BY KeptIs, AppendSecond, Zenon
<1> QED
  BY <1>1, <1>2, Zenon

LEMMA DotsCleaned ==
    ASSUME NEW a \in Segments, NEW b \in Segments
    PROVE  /\ Cleaned(<<a, b>>, <<"">>) = <<a, b>>
           /\ Cleaned(<<a, b>>, <<".">>) = <<a, b>>
           /\ Cleaned(<<a, b>>, <<"..">>) = <<a>>
<1>1. Cleaned(<<a, b>>, <<"">>) = <<a, b>>
  BY DEF Cleaned
<1>2. Cleaned(<<a, b>>, <<".">>) = <<a, b>>
  BY DEF Cleaned
<1>3. <<"..">> # <<"">> /\ <<"..">> # <<".">>
  OBVIOUS
<1>4. Cleaned(<<a, b>>, <<"..">>) = Front(<<a, b>>)
  BY <1>3, Zenon DEF Cleaned
<1>5. Front(<<a, b>>) = <<a>>
  BY FrontOfTwo, Zenon
<1> QED
  BY <1>1, <1>2, <1>4, <1>5, Zenon

(* A path of three segments whose first two stay: the third stays, or ends   *)
(* the path with a slash, or goes, or takes the second with it.              *)
LEMMA ThreeCleaned ==
    ASSUME NEW a \in Segments, NEW b \in Segments, NEW c \in Segments, Kept(a), Kept(b)
    PROVE  /\ Kept(c) \/ c = <<"">> => cleanPath(<<a, b, c>>) = <<a, b, c>>
           /\ c = <<".">> => cleanPath(<<a, b, c>>) = <<a, b>>
           /\ c = <<"..">> => cleanPath(<<a, b, c>>) = <<a>>
<1>1. PICK path : path = <<a, b, c>>
  OBVIOUS
<1>2. Len(path) = 3 /\ path[1] = a /\ path[2] = b /\ path[3] = c
  BY <1>1
<1>3. cleanPath(path) = IF c = <<"">> THEN Append(Cleaned(<<a, b>>, c), <<"">>) ELSE Cleaned(<<a, b>>, c)
  BY <1>2, CleanThree, PrefixCleaned, Zenon
<1>4. Append(<<a, b>>, c) = <<a, b, c>>
  BY AppendTwo, Zenon
<1>5. Kept(c) => cleanPath(path) = <<a, b, c>>
  BY <1>3, <1>4, KeptIs, Zenon DEF Kept
<1>6. c = <<"">> => cleanPath(path) = <<a, b, c>>
  BY <1>3, <1>4, DotsCleaned, Zenon
<1>7. c = <<".">> => cleanPath(path) = <<a, b>>
  <2>1. <<".">> # <<"">>
    OBVIOUS
  <2> QED
    BY <1>3, <2>1, DotsCleaned, Zenon
<1>8. c = <<"..">> => cleanPath(path) = <<a>>
  <2>1. <<"..">> # <<"">>
    OBVIOUS
  <2> QED
    BY <1>3, <2>1, DotsCleaned, Zenon
<1> QED
  BY <1>1, <1>5, <1>6, <1>7, <1>8, Zenon

LEMMA FourCleaned ==
    ASSUME NEW a \in Segments, NEW b \in Segments, NEW c \in Segments, NEW d \in Segments,
           Kept(a), Kept(b), Kept(d)
    PROVE  cleanPath(<<a, b, c, d>>) = Append(Cleaned(<<a, b>>, c), d)
<1>1. PICK path : path = <<a, b, c, d>>
  OBVIOUS
<1>2. Len(path) = 4 /\ path[1] = a /\ path[2] = b /\ path[3] = c /\ path[4] = d
  BY <1>1
<1>3. cleanPath(path) = Cleaned(Cleaned(<<a, b>>, c), d)
  BY <1>2, CleanFour, PrefixCleaned, Zenon DEF Kept
<1>4. cleanPath(path) = Append(Cleaned(<<a, b>>, c), d)
  BY <1>3, KeptIs, Zenon
<1> QED
  BY <1>1, <1>4, Zenon

LEMMA FourKept ==
    ASSUME NEW a \in Segments, NEW b \in Segments, NEW c \in Segments, NEW d \in Segments,
           Kept(a), Kept(b), Kept(d), Kept(c)
    PROVE  cleanPath(<<a, b, c, d>>) = <<a, b, c, d>>
<1>1. Append(<<a, b>>, c) = <<a, b, c>>
  BY AppendTwo, Zenon
<1>2. Append(<<a, b, c>>, d) = <<a, b, c, d>>
  BY AppendThree, Zenon
<1>3. Cleaned(<<a, b>>, c) = <<a, b, c>>
  BY <1>1, KeptIs, Zenon
<1>4. cleanPath(<<a, b, c, d>>) = Append(Cleaned(<<a, b>>, c), d)
  BY FourCleaned
<1> QED
  BY <1>2, <1>3, <1>4, Zenon

LEMMA FourWithout ==
    ASSUME NEW a \in Segments, NEW b \in Segments, NEW c \in Segments, NEW d \in Segments,
           Kept(a), Kept(b), Kept(d), Skipped(c)
    PROVE  cleanPath(<<a, b, c, d>>) = <<a, b, d>>
<1>1. Append(<<a, b>>, d) = <<a, b, d>>
  BY AppendTwo, Zenon
<1>2. Cleaned(<<a, b>>, c) = <<a, b>>
  BY DotsCleaned, Zenon DEF Skipped
<1>3. cleanPath(<<a, b, c, d>>) = Append(Cleaned(<<a, b>>, c), d)
  BY FourCleaned
<1> QED
  BY <1>1, <1>2, <1>3, Zenon

LEMMA FourUp ==
    ASSUME NEW a \in Segments, NEW b \in Segments, NEW c \in Segments, NEW d \in Segments,
           Kept(a), Kept(b), Kept(d), c \in {<<"..">>}
    PROVE  cleanPath(<<a, b, c, d>>) = <<a, d>>
<1>1. Append(<<a>>, d) = <<a, d>>
  BY AppendSecond, Zenon
<1>2. Cleaned(<<a, b>>, c) = <<a>>
  BY DotsCleaned, Zenon
<1>3. cleanPath(<<a, b, c, d>>) = Append(Cleaned(<<a, b>>, c), d)
  BY FourCleaned
<1> QED
  BY <1>1, <1>2, <1>3, Zenon

LEMMA TwoCleaned ==
    ASSUME NEW a \in Segments, NEW b \in Segments, Kept(a), Kept(b)
    PROVE  cleanPath(<<a, b>>) = <<a, b>>
<1>1. PICK path : path = <<a, b>>
  OBVIOUS
<1>2. Len(path) = 2 /\ path[1] = a /\ path[2] = b
  BY <1>1
<1>3. cleanPath(path) = <<a, b>>
  BY <1>2, CleanTwo, PrefixCleaned, Zenon DEF Kept
<1> QED
  BY <1>1, <1>3, Zenon

-----------------------------------------------------------------------------
(* Decoding a path, and the routes. *)

Anything == <<"anything">>
Customers == <<"customers">>

LEMMA DecodedTwo ==
    ASSUME NEW a \in Pieces, NEW b \in Pieces
    PROVE  FlattenSeq(<< <<a>>, <<b>> >>) = <<a, b>>
<1>1. PICK path : path = << <<a>>, <<b>> >>
  OBVIOUS
<1>2. Len(path) = 2 /\ path[1] = <<a>> /\ path[2] = <<b>>
  BY <1>1
<1>3. <<a>> \o <<b>> = <<a, b>>
  BY ConcatOnes, Zenon
<1>4. FlattenSeq(path) = <<a, b>>
  BY <1>2, <1>3, FlattenTwo, Zenon
<1> QED
  BY <1>1, <1>4, Zenon

(* Two pieces and a text after them. *)
LEMMA After ==
    ASSUME NEW a \in Pieces, NEW b \in Pieces, NEW c \in Segments, NEW s, s = <<a, b>>,
           NEW p, p = s \o c
    PROVE  /\ p \in Seq(Pieces) /\ Len(p) = 2 + Len(c)
           /\ p[1] = a /\ p[2] = b
           /\ \A i \in 1..Len(c) : p[2 + i] = c[i]
<1>1. s \in Seq(Pieces) /\ Len(s) = 2 /\ s[1] = a /\ s[2] = b
  OBVIOUS
<1>2. c \in Seq(Pieces) /\ Len(c) \in Nat
  BY DEF Segments
<1>3. /\ p \in Seq(Pieces) /\ Len(p) = Len(s) + Len(c)
      /\ \A i \in 1..Len(s) + Len(c) : p[i] = IF i <= Len(s) THEN s[i] ELSE c[i - Len(s)]
  <2>1. /\ s \o c \in Seq(Pieces) /\ Len(s \o c) = Len(s) + Len(c)
        /\ \A i \in 1..Len(s) + Len(c) :
              (s \o c)[i] = IF i <= Len(s) THEN s[i] ELSE c[i - Len(s)]
    BY <1>1, <1>2, ConcatProperties, Zenon
  <2> QED
    BY <2>1, Zenon
<1>4. Len(p) = 2 + Len(c) /\ p[1] = a /\ p[2] = b
  BY <1>1, <1>2, <1>3
<1>5. ASSUME NEW i \in 1..Len(c)
      PROVE  p[2 + i] = c[i]
  <2>1. 2 + i \in 1..Len(s) + Len(c) /\ ~(2 + i <= Len(s)) /\ (2 + i) - Len(s) = i
    BY <1>1, <1>2
  <2>2. p[2 + i] = IF 2 + i <= Len(s) THEN s[2 + i] ELSE c[(2 + i) - Len(s)]
    BY <1>3, <2>1, Zenon
  <2> QED
    BY <2>1, <2>2
<1> QED
  BY <1>3, <1>4, <1>5, Zenon

LEMMA DecodedThree ==
    ASSUME NEW c \in Segments, c # <<>>
    PROVE  LET p == FlattenSeq(<<Anything, Customers, c>>)
           IN  /\ p \in Seq(Pieces) /\ Len(p) = 2 + Len(c)
               /\ p[1] = "anything" /\ p[2] = "customers" /\ p[3] = c[1]
               /\ Len(c) = 2 => p[4] = c[2]
<1>1. PICK path : path = <<Anything, Customers, c>>
  OBVIOUS
<1>2. Len(path) = 3 /\ path[1] = Anything /\ path[2] = Customers /\ path[3] = c
  BY <1>1
<1>3. Anything \o Customers = <<"anything", "customers">>
  <2>1. \A a, b \in Pieces : <<a>> \o <<b>> = <<a, b>>
    BY ConcatOnes
  <2> QED
    BY <2>1, PiecesAre, Zenon DEF Anything, Customers
<1>4. FlattenSeq(path) = <<"anything", "customers">> \o c
  BY <1>2, <1>3, FlattenThree, Zenon
<1>5. PICK p : p = <<"anything", "customers">> \o c
  OBVIOUS
<1>6. /\ p \in Seq(Pieces) /\ Len(p) = 2 + Len(c)
      /\ p[1] = "anything" /\ p[2] = "customers"
      /\ \A i \in 1..Len(c) : p[2 + i] = c[i]
  <2>1. PICK a \in Pieces, b \in Pieces : a = "anything" /\ b = "customers"
    BY PiecesAre
  <2>2. PICK w : w = <<a, b>> /\ p = w \o c
    BY <1>5, <2>1, Zenon
  <2>3. p \in Seq(Pieces)
    BY <2>2, After
  <2>4. Len(p) = 2 + Len(c)
    BY <2>2, After
  <2>5. p[1] = a /\ p[2] = b
    BY <2>2, After
  <2>6. \A i \in 1..Len(c) : p[2 + i] = c[i]
    BY <2>2, After
  <2> QED
    BY <2>1, <2>3, <2>4, <2>5, <2>6, Zenon
<1>7. Len(c) \in Nat \ {0}
  BY DEF Segments
<1>8. p[3] = c[1] /\ (Len(c) = 2 => p[4] = c[2])
  <2>1. 1 \in 1..Len(c) /\ (Len(c) = 2 => 2 \in 1..Len(c)) /\ 2 + 1 = 3 /\ 2 + 2 = 4
    BY <1>7
  <2> QED
    BY <1>6, <2>1, Zenon
<1> QED
  BY <1>1, <1>4, <1>5, <1>6, <1>8, Zenon

LEMMA DecodedFour ==
    ASSUME NEW c \in Segments, c # <<>>
    PROVE  LET p == FlattenSeq(<<Anything, Customers, c, <<"orders">>>>)
           IN  /\ p \in Seq(Pieces) /\ Len(p) = 3 + Len(c)
               /\ p[1] = "anything" /\ p[2] = "customers" /\ p[3] = c[1]
               /\ Len(c) = 1 => p[4] = "orders"
<1>1. PICK e : e = <<"orders">>
  OBVIOUS
<1>2. PICK path : path = <<Anything, Customers, c, e>>
  OBVIOUS
<1>3. Len(path) = 4 /\ path[1] = Anything /\ path[2] = Customers /\ path[3] = c /\ path[4] = e
  BY <1>2
<1>4. FlattenSeq(<<Anything, Customers, c>>) = (Anything \o Customers) \o c
  <2>1. PICK x : x = <<Anything, Customers, c>>
    OBVIOUS
  <2>2. Len(x) = 3 /\ x[1] = Anything /\ x[2] = Customers /\ x[3] = c
    BY <2>1
  <2> QED
    BY <2>1, <2>2, FlattenThree, Zenon
<1>5. PICK q : /\ q = (Anything \o Customers) \o c
               /\ q \in Seq(Pieces) /\ Len(q) = 2 + Len(c)
               /\ q[1] = "anything" /\ q[2] = "customers" /\ q[3] = c[1]
  BY <1>4, DecodedThree, Zenon
<1>6. PICK p : p = q \o e
  OBVIOUS
<1>7. FlattenSeq(path) = p
  BY <1>3, <1>5, <1>6, FlattenFour, Zenon
<1>8. e \in Seq(Pieces) /\ Len(e) = 1 /\ e[1] = "orders"
  BY <1>1, PiecesAre, OneIs, Zenon
<1>9. q \in Seq(Pieces)
  BY <1>5
<1>10. /\ p \in Seq(Pieces) /\ Len(p) = Len(q) + Len(e)
      /\ \A i \in 1..Len(q) + Len(e) : p[i] = IF i <= Len(q) THEN q[i] ELSE e[i - Len(q)]
  BY <1>6, <1>8, <1>9, ConcatProperties, Zenon
<1>11. Len(c) \in Nat \ {0}
  BY DEF Segments
<1>12. Len(q) = 2 + Len(c)
  BY <1>5
<1>13. Len(p) = 3 + Len(c) /\ p[1] = q[1] /\ p[2] = q[2] /\ p[3] = q[3]
  BY <1>8, <1>10, <1>11, <1>12
<1>14. Len(c) = 1 => p[4] = e[1]
  BY <1>8, <1>10, <1>11, <1>12
<1> QED
  BY <1>1, <1>2, <1>5, <1>7, <1>8, <1>10, <1>13, <1>14, Zenon

LEMMA RoutedCustomer ==
    ASSUME NEW r, NEW p \in Seq(Pieces), p = FlattenSeq(r.path), Len(p) >= 3,
           p[1] = "anything", p[2] = "customers", r.method # "POST"
    PROVE  routed(r) =
             IF p[3] # "" /\ Len(p) = 4 /\ p[4] = "orders" /\ r.method = "GET"
               THEN Did("GET orders", <<p[3]>>, "")
             ELSE IF p[3] # "" /\ Len(p) = 3 /\ r.method = "GET" THEN Did("GET customer", <<p[3]>>, "")
             ELSE IF p[3] # "" /\ Len(p) = 3 /\ r.method = "PUT"
               THEN Did("PUT customer", <<p[3]>>, Field(r.body, "email", ""))
             ELSE None
<1>1. SubSeq(p, 1, 2) = <<"anything", "customers">>
  <2>1. Len(p) >= 2
    OBVIOUS
  <2>2. SubSeq(p, 1, 2) = <<p[1], p[2]>>
    BY <2>1, FirstTwo
  <2> QED
    BY <2>2, Zenon
<1> QED
  BY <1>1, Zenon DEF routed

LEMMA RoutedShort ==
    ASSUME NEW r, ~(Len(FlattenSeq(r.path)) >= 3), r.method # "POST"
    PROVE  routed(r) = None
BY Zenon DEF routed

LEMMA RoutedRefund ==
    ASSUME NEW r, FlattenSeq(r.path) = RefundsPath, r.method = "POST"
    PROVE  routed(r) = Did("POST refund", Field(r.body, "customer_id", <<"">>),
                                          Field(r.body, "amount", "0"))
BY Zenon DEF routed

-----------------------------------------------------------------------------
(* The paths the tools' handlers make. *)

LEMMA EqualTwo ==
    ASSUME NEW x, NEW a, NEW b, x = [i \in 1..2 |-> x[i]], x[1] = a, x[2] = b
    PROVE  x = <<a, b>>
OBVIOUS

LEMMA EqualThree ==
    ASSUME NEW x, NEW a, NEW b, NEW c, x = [i \in 1..3 |-> x[i]], x[1] = a, x[2] = b, x[3] = c
    PROVE  x = <<a, b, c>>
OBVIOUS

LEMMA EqualFour ==
    ASSUME NEW x, NEW a, NEW b, NEW c, NEW d, x = [i \in 1..4 |-> x[i]],
           x[1] = a, x[2] = b, x[3] = c, x[4] = d
    PROVE  x = <<a, b, c, d>>
OBVIOUS

LEMMA CustomerPathOf ==
    ASSUME NEW t, NEW args, t.path = CustomerPath, t.pathParams = {"customer_id"}
    PROVE  PathOf(t, args) = <<Anything, Customers, args["customer_id"]>>
<1>1. PICK p : p = CustomerPath
  OBVIOUS
<1>2. p[1] = "anything" /\ p[2] = "customers" /\ p[3] = "customer_id" /\ DOMAIN p = 1..3
  BY <1>1, PathsAre
<1>3. PICK x : x = PathOf(t, args)
  OBVIOUS
<1>4. x = [i \in 1..3 |-> IF p[i] \in {"customer_id"} THEN args[p[i]] ELSE <<p[i]>>]
  BY <1>1, <1>2, <1>3, Zenon DEF PathOf
<1>5. x = [i \in 1..3 |-> x[i]]
  BY <1>4, Zenon
<1>6. 1 \in 1..3 /\ 2 \in 1..3 /\ 3 \in 1..3
  OBVIOUS
<1>7. x[1] = Anything
  BY <1>2, <1>4, <1>6, Zenon DEF Anything
<1>8. x[2] = Customers
  BY <1>2, <1>4, <1>6, Zenon DEF Customers
<1>9. x[3] = args["customer_id"]
  BY <1>2, <1>4, <1>6, Zenon
<1>10. x = <<Anything, Customers, args["customer_id"]>>
  BY <1>5, <1>7, <1>8, <1>9, EqualThree
<1> QED
  BY <1>3, <1>10, Zenon

LEMMA OrdersPathOf ==
    ASSUME NEW t, NEW args, t.path = OrdersPath, t.pathParams = {"customer_id"}
    PROVE  PathOf(t, args) = <<Anything, Customers, args["customer_id"], <<"orders">>>>
<1>1. PICK p : p = OrdersPath
  OBVIOUS
<1>2. p[1] = "anything" /\ p[2] = "customers" /\ p[3] = "customer_id" /\ p[4] = "orders"
      /\ DOMAIN p = 1..4
  BY <1>1, PathsAre
<1>3. PICK x : x = PathOf(t, args)
  OBVIOUS
<1>4. x = [i \in 1..4 |-> IF p[i] \in {"customer_id"} THEN args[p[i]] ELSE <<p[i]>>]
  BY <1>1, <1>2, <1>3, Zenon DEF PathOf
<1>5. x = [i \in 1..4 |-> x[i]]
  BY <1>4, Zenon
<1>6. 1 \in 1..4 /\ 2 \in 1..4 /\ 3 \in 1..4 /\ 4 \in 1..4
  OBVIOUS
<1>7. x[1] = Anything
  BY <1>2, <1>4, <1>6, Zenon DEF Anything
<1>8. x[2] = Customers
  BY <1>2, <1>4, <1>6, Zenon DEF Customers
<1>9. x[3] = args["customer_id"]
  BY <1>2, <1>4, <1>6, Zenon
<1>10. x[4] = <<"orders">>
  BY <1>2, <1>4, <1>6, Zenon
<1>11. x = <<Anything, Customers, args["customer_id"], <<"orders">>>>
  BY <1>5, <1>7, <1>8, <1>9, <1>10, EqualFour
<1> QED
  BY <1>3, <1>11, Zenon

LEMMA RefundsPathOf ==
    ASSUME NEW t, NEW args, t.path = RefundsPath, t.pathParams = {}
    PROVE  PathOf(t, args) = <<Anything, <<"refunds">>>>
<1>1. PICK p : p = RefundsPath
  OBVIOUS
<1>2. p[1] = "anything" /\ p[2] = "refunds" /\ DOMAIN p = 1..2
  BY <1>1, PathsAre
<1>3. PICK x : x = PathOf(t, args)
  OBVIOUS
<1>4. x = [i \in 1..2 |-> IF p[i] \in {} THEN args[p[i]] ELSE <<p[i]>>]
  BY <1>1, <1>2, <1>3, Zenon DEF PathOf
<1>5. x = [i \in 1..2 |-> x[i]]
  BY <1>4, Zenon
<1>6. 1 \in 1..2 /\ 2 \in 1..2
  OBVIOUS
<1>7. x[1] = Anything
  BY <1>2, <1>4, <1>6, Zenon DEF Anything
<1>8. x[2] = <<"refunds">>
  BY <1>2, <1>4, <1>6, Zenon
<1>9. x = <<Anything, <<"refunds">>>>
  BY <1>5, <1>7, <1>8, EqualTwo
<1> QED
  BY <1>3, <1>9, Zenon

-----------------------------------------------------------------------------
(* What the requests come to. *)

LEMMA RedirectedIs ==
    ASSUME NEW q
    PROVE  /\ cleanPath(q.path) = q.path => Redirected(q) = q
           /\ cleanPath(q.path) # q.path =>
                 /\ Redirected(q).path = cleanPath(q.path)
                 /\ Redirected(q).method = "GET"
<1>1. cleanPath(q.path) = q.path => Redirected(q) = q
  BY Zenon DEF Redirected
<1>2. cleanPath(q.path) # q.path =>
          Redirected(q) = [method |-> "GET", path |-> cleanPath(q.path), body |-> <<>>]
  BY Zenon DEF Redirected
<1> QED
  BY <1>1, <1>2

LEMMA RedirectedPath == ASSUME NEW q PROVE Redirected(q).path = cleanPath(q.path)
BY RedirectedIs, Zenon

LEMMA PlainIs ==
    ASSUME NEW c \in Segments, Plain(c)
    PROVE  Kept(c) /\ Len(c) = 1 /\ c[1] # "" /\ c = <<c[1]>>
<1>1. Len(c) = 1 /\ c[1] # "" /\ c[1] # "." /\ c[1] # ".."
  BY DEF Plain
<1>2. c = <<c[1]>>
  BY <1>1, IsOne DEF Segments
<1>3. \A a, b : <<a>> = <<b>> => a = b
  OBVIOUS
<1>4. Kept(c)
  BY <1>1, <1>2, <1>3, Zenon DEF Kept
<1> QED
  BY <1>1, <1>2, <1>4

LEMMA Lengths ==
    /\ \A a : Len(<<a>>) = 1
    /\ \A a, b : Len(<<a, b>>) = 2
    /\ \A a, b, c : Len(<<a, b, c>>) = 3
    /\ \A a, b, c, d : Len(<<a, b, c, d>>) = 4
OBVIOUS

LEMMA Differ == 1 # 3 /\ 2 # 3 /\ ~(1 >= 3) /\ ~(2 >= 3)
OBVIOUS

LEMMA TwoMore ==
    ASSUME NEW m \in Nat \ {0}, NEW n, n = 2 + m
    PROVE  n >= 3 /\ (m = 1 => n = 3 /\ n # 4)
OBVIOUS

(* A segment that goes, or goes up, leaves too few pieces for a customer. *)
LEMMA DotsShort ==
    ASSUME NEW c \in Segments, ~Kept(c), c # <<"">>
    PROVE  LET path == cleanPath(<<Anything, Customers, c>>)
           IN  path # <<Anything, Customers, c>> /\ ~(Len(FlattenSeq(path)) >= 3)
<1>1. Anything \in Segments /\ Customers \in Segments /\ Kept(Anything) /\ Kept(Customers)
  BY LiteralsKept DEF Anything, Customers
<1>2. PICK path : path = cleanPath(<<Anything, Customers, c>>)
  OBVIOUS
<1>3. Len(<<Anything, Customers, c>>) = 3
  BY Lengths, Zenon
<1>4. CASE c = <<".">>
  <2>1. path = <<Anything, Customers>>
    BY <1>1, <1>2, <1>4, ThreeCleaned, Zenon
  <2>2. FlattenSeq(path) = <<"anything", "customers">>
    <3>1. \A a, b \in Pieces : FlattenSeq(<< <<a>>, <<b>> >>) = <<a, b>>
      BY DecodedTwo
    <3> QED
      BY <2>1, <3>1, PiecesAre, Zenon DEF Anything, Customers
  <2>3. Len(FlattenSeq(path)) = 2
    BY <2>2, Lengths, Zenon
  <2>4. Len(path) = 2
    BY <2>1, Lengths, Zenon
  <2> QED
    BY <1>2, <1>3, <2>3, <2>4, Differ, Zenon
<1>5. CASE c = <<"..">>
  <2>1. path = <<Anything>>
    BY <1>1, <1>2, <1>5, ThreeCleaned, Zenon
  <2>2. Len(path) = 1 /\ path[1] = Anything
    BY <2>1
  <2>3. FlattenSeq(path) = Anything
    BY <2>2, FlattenOne, Zenon
  <2>4. Len(FlattenSeq(path)) = 1
    BY <2>3, Lengths, Zenon DEF Anything
  <2> QED
    BY <1>2, <1>3, <2>2, <2>4, Differ, Zenon
<1> QED
  BY <1>4, <1>5 DEF Kept

(* The request for a customer, by any method but POST. *)
LEMMA CustomerRouted ==
    ASSUME NEW c \in Segments, c # <<>>, NEW q, q.path = <<Anything, Customers, c>>,
           q.method \in {"GET", "PUT"}
    PROVE  /\ \/ routed(Redirected(q)) = None
              \/ q.method = "GET" /\ routed(Redirected(q)) = Did("GET orders", <<c[1]>>, "")
              \/ q.method = "GET" /\ routed(Redirected(q)) = Did("GET customer", <<c[1]>>, "")
              \/ /\ q.method = "PUT"
                 /\ routed(Redirected(q)) = Did("PUT customer", <<c[1]>>, Field(q.body, "email", ""))
           /\ Plain(c) /\ q.method = "GET" => routed(Redirected(q)) = Did("GET customer", c, "")
           /\ Plain(c) /\ q.method = "PUT" =>
                 routed(Redirected(q)) = Did("PUT customer", c, Field(q.body, "email", ""))
<1>1. Anything \in Segments /\ Customers \in Segments /\ Kept(Anything) /\ Kept(Customers)
  BY LiteralsKept DEF Anything, Customers
<1>2. CASE Kept(c) \/ c = <<"">>
  <2>1. cleanPath(q.path) = q.path
    <3>1. cleanPath(<<Anything, Customers, c>>) = <<Anything, Customers, c>>
      BY <1>1, <1>2, ThreeCleaned, Zenon
    <3> QED
      BY <3>1, Zenon
  <2>2. Redirected(q) = q
    BY <2>1, RedirectedIs, Zenon
  <2>3. PICK p : /\ p = FlattenSeq(q.path)
                 /\ p \in Seq(Pieces) /\ Len(p) = 2 + Len(c)
                 /\ p[1] = "anything" /\ p[2] = "customers" /\ p[3] = c[1]
    BY DecodedThree, Zenon
  <2>4. Len(c) \in Nat \ {0}
    BY DEF Segments
  <2>5. Len(p) >= 3 /\ (Len(c) = 1 => Len(p) = 3 /\ Len(p) # 4)
    BY <2>3, <2>4, TwoMore, Zenon
  <2>6. routed(q) =
             IF p[3] # "" /\ Len(p) = 4 /\ p[4] = "orders" /\ q.method = "GET"
               THEN Did("GET orders", <<p[3]>>, "")
             ELSE IF p[3] # "" /\ Len(p) = 3 /\ q.method = "GET" THEN Did("GET customer", <<p[3]>>, "")
             ELSE IF p[3] # "" /\ Len(p) = 3 /\ q.method = "PUT"
               THEN Did("PUT customer", <<p[3]>>, Field(q.body, "email", ""))
             ELSE None
    <3>1. q.method # "POST"
      OBVIOUS
    <3> QED
      BY <2>3, <2>5, <3>1, RoutedCustomer, Zenon
  <2>7. \/ routed(q) = None
        \/ q.method = "GET" /\ routed(q) = Did("GET orders", <<c[1]>>, "")
        \/ q.method = "GET" /\ routed(q) = Did("GET customer", <<c[1]>>, "")
        \/ /\ q.method = "PUT"
           /\ routed(q) = Did("PUT customer", <<c[1]>>, Field(q.body, "email", ""))
    BY <2>3, <2>6, Zenon
  <2>8. ASSUME Plain(c)
        PROVE  /\ q.method = "GET" => routed(q) = Did("GET customer", c, "")
               /\ q.method = "PUT" => routed(q) = Did("PUT customer", c, Field(q.body, "email", ""))
    <3>1. Len(p) = 3 /\ Len(p) # 4 /\ p[3] # "" /\ <<p[3]>> = c
      BY <2>3, <2>5, <2>8, PlainIs, Zenon
    <3> QED
      BY <2>6, <3>1, Zenon
  <2> QED
    BY <2>2, <2>7, <2>8, Zenon
<1>3. CASE ~Kept(c) /\ c # <<"">>
  <2>1. cleanPath(q.path) # q.path /\ ~(Len(FlattenSeq(cleanPath(q.path))) >= 3)
    BY <1>3, DotsShort, Zenon
  <2>2. Redirected(q).path = cleanPath(q.path) /\ Redirected(q).method = "GET"
    BY <2>1, RedirectedIs, Zenon
  <2>3. routed(Redirected(q)) = None
    BY <2>1, <2>2, RoutedShort, Zenon
  <2>4. ~Plain(c)
    BY <1>3, PlainIs, Zenon
  <2> QED
    BY <2>3, <2>4, Zenon
<1> QED
  BY <1>2, <1>3

LEMMA GotPath == ASSUME NEW q, q.method = "GET" PROVE Redirected(q).method = "GET"
<1>1. CASE cleanPath(q.path) = q.path
  BY <1>1, RedirectedIs, Zenon
<1>2. CASE cleanPath(q.path) # q.path
  BY <1>2, RedirectedIs, Zenon
<1> QED
  BY <1>1, <1>2

LEMMA ThreeMore ==
    ASSUME NEW m \in Nat \ {0}, NEW n, n = 3 + m
    PROVE  n >= 3 /\ n # 3 /\ (m = 1 => n = 4) /\ (n = 4 => m = 1)
OBVIOUS

(* The request for a customer's orders.  An empty id or a dot makes it the   *)
(* request for a customer called "orders".                                   *)
LEMMA OrdersRouted ==
    ASSUME NEW c \in Segments, c # <<>>, NEW q, q.method = "GET",
           q.path = <<Anything, Customers, c, <<"orders">>>>
    PROVE  /\ \/ routed(Redirected(q)) = None
              \/ routed(Redirected(q)) = Did("GET orders", <<c[1]>>, "")
              \/ routed(Redirected(q)) = Did("GET customer", <<"orders">>, "")
           /\ Plain(c) => routed(Redirected(q)) = Did("GET orders", c, "")
<1>1. PICK e : e = <<"orders">>
  OBVIOUS
<1>2. /\ Anything \in Segments /\ Customers \in Segments /\ e \in Segments
      /\ Kept(Anything) /\ Kept(Customers) /\ Kept(e)
  BY <1>1, LiteralsKept, Zenon DEF Anything, Customers
<1>3. PICK r : r = Redirected(q)
  OBVIOUS
<1>4. r.method = "GET" /\ r.method # "PUT" /\ r.method # "POST"
  BY <1>3, GotPath, Zenon
<1>5. r.path = cleanPath(<<Anything, Customers, c, e>>)
  BY <1>1, <1>3, RedirectedPath, Zenon
<1>6. CASE Kept(c)
  <2>1. r.path = <<Anything, Customers, c, e>>
    <3>1. cleanPath(<<Anything, Customers, c, e>>) = <<Anything, Customers, c, e>>
      BY <1>2, <1>6, FourKept, Zenon
    <3> QED
      BY <1>5, <3>1, Zenon
  <2>2. PICK p : /\ p = FlattenSeq(<<Anything, Customers, c, <<"orders">>>>)
                 /\ p \in Seq(Pieces) /\ Len(p) = 3 + Len(c)
                 /\ p[1] = "anything" /\ p[2] = "customers" /\ p[3] = c[1]
                 /\ Len(c) = 1 => p[4] = "orders"
    BY DecodedFour, Zenon
  <2>3. p = FlattenSeq(r.path)
    BY <1>1, <2>1, <2>2, Zenon
  <2>4. Len(c) \in Nat \ {0}
    BY DEF Segments
  <2>5. Len(p) >= 3 /\ Len(p) # 3 /\ (Len(c) = 1 => Len(p) = 4) /\ (Len(p) = 4 => Len(c) = 1)
    BY <2>2, <2>4, ThreeMore, Zenon
  <2>6. routed(r) =
             IF p[3] # "" /\ Len(p) = 4 /\ p[4] = "orders" /\ r.method = "GET"
               THEN Did("GET orders", <<p[3]>>, "")
             ELSE IF p[3] # "" /\ Len(p) = 3 /\ r.method = "GET" THEN Did("GET customer", <<p[3]>>, "")
             ELSE IF p[3] # "" /\ Len(p) = 3 /\ r.method = "PUT"
               THEN Did("PUT customer", <<p[3]>>, Field(r.body, "email", ""))
             ELSE None
    BY <1>4, <2>2, <2>3, <2>5, RoutedCustomer, Zenon
  <2>7. routed(r) = None \/ routed(r) = Did("GET orders", <<c[1]>>, "")
    BY <2>2, <2>5, <2>6, Zenon
  <2>8. ASSUME Plain(c)
        PROVE  routed(r) = Did("GET orders", c, "")
    <3>1. Len(c) = 1 /\ c[1] # "" /\ <<c[1]>> = c
      BY <2>8, PlainIs, Zenon
    <3> QED
      BY <1>4, <2>2, <2>5, <2>6, <3>1, Zenon
  <2> QED
    BY <1>3, <2>7, <2>8, Zenon
<1>7. CASE c \in {<<"">>, <<".">>}
  <2>1. r.path = <<Anything, Customers, e>>
    <3>1. cleanPath(<<Anything, Customers, c, e>>) = <<Anything, Customers, e>>
      <4>1. Skipped(c)
        BY <1>7 DEF Skipped
      <4> QED
        BY <1>2, <4>1, FourWithout, Zenon
    <3> QED
      BY <1>5, <3>1, Zenon
  <2>2. e # <<>> /\ Len(e) = 1 /\ Len(e) \in Nat \ {0} /\ e[1] = "orders"
    BY <1>1
  <2>3. PICK p : /\ p = FlattenSeq(<<Anything, Customers, e>>)
                 /\ p \in Seq(Pieces) /\ Len(p) = 2 + Len(e)
                 /\ p[1] = "anything" /\ p[2] = "customers" /\ p[3] = e[1]
    BY <1>2, <2>2, DecodedThree, Zenon
  <2>4. p = FlattenSeq(r.path)
    BY <2>1, <2>3, Zenon
  <2>5. Len(p) >= 3 /\ Len(p) = 3 /\ Len(p) # 4
    BY <2>2, <2>3, TwoMore, Zenon
  <2>6. routed(r) =
             IF p[3] # "" /\ Len(p) = 4 /\ p[4] = "orders" /\ r.method = "GET"
               THEN Did("GET orders", <<p[3]>>, "")
             ELSE IF p[3] # "" /\ Len(p) = 3 /\ r.method = "GET" THEN Did("GET customer", <<p[3]>>, "")
             ELSE IF p[3] # "" /\ Len(p) = 3 /\ r.method = "PUT"
               THEN Did("PUT customer", <<p[3]>>, Field(r.body, "email", ""))
             ELSE None
    BY <1>4, <2>3, <2>4, <2>5, RoutedCustomer, Zenon
  <2>7. routed(r) = Did("GET customer", <<"orders">>, "")
    BY <1>4, <2>2, <2>3, <2>5, <2>6, Zenon
  <2>8. ~Plain(c)
    BY <1>7, PlainIs, Zenon DEF Kept
  <2> QED
    BY <1>3, <2>7, <2>8, Zenon
<1>8. CASE c = <<"..">>
  <2>1. r.path = <<Anything, e>>
    <3>1. cleanPath(<<Anything, Customers, c, e>>) = <<Anything, e>>
      <4>1. c \in {<<"..">>}
        BY <1>8
      <4> QED
        BY <1>2, <4>1, FourUp, Zenon
    <3> QED
      BY <1>5, <3>1, Zenon
  <2>2. FlattenSeq(r.path) = <<"anything", "orders">>
    <3>1. \A a, b \in Pieces : FlattenSeq(<< <<a>>, <<b>> >>) = <<a, b>>
      BY DecodedTwo
    <3> QED
      BY <1>1, <2>1, <3>1, PiecesAre, Zenon DEF Anything
  <2>3. ~(Len(FlattenSeq(r.path)) >= 3)
    BY <2>2, Lengths, Differ, Zenon
  <2>4. routed(r) = None
    BY <1>4, <2>3, RoutedShort, Zenon
  <2>5. ~Plain(c)
    BY <1>8, PlainIs, Zenon DEF Kept
  <2> QED
    BY <1>3, <2>4, <2>5, Zenon
<1> QED
  BY <1>6, <1>7, <1>8 DEF Kept

LEMMA RefundRouted ==
    ASSUME NEW q, q.method = "POST", q.path = <<Anything, <<"refunds">>>>
    PROVE  routed(Redirected(q)) = Did("POST refund", Field(q.body, "customer_id", <<"">>),
                                                      Field(q.body, "amount", "0"))
<1>1. /\ Anything \in Segments /\ <<"refunds">> \in Segments
      /\ Kept(Anything) /\ Kept(<<"refunds">>)
  BY LiteralsKept DEF Anything
<1>2. cleanPath(<<Anything, <<"refunds">>>>) = <<Anything, <<"refunds">>>>
  BY <1>1, TwoCleaned, Zenon
<1>3. Redirected(q) = q
  BY <1>2, RedirectedIs, Zenon
<1>4. FlattenSeq(<<Anything, <<"refunds">>>>) = <<"anything", "refunds">>
  <2>1. \A a, b \in Pieces : FlattenSeq(<< <<a>>, <<b>> >>) = <<a, b>>
    BY DecodedTwo
  <2> QED
    BY <2>1, PiecesAre, Zenon DEF Anything
<1>5. FlattenSeq(q.path) = RefundsPath
  BY <1>4, PathsAre, Zenon
<1> QED
  BY <1>3, <1>5, RoutedRefund, Zenon

-----------------------------------------------------------------------------
(* What the four tools do, for every text of a customer. *)

LEMMA HandlerIs ==
    ASSUME NEW t, NEW args
    PROVE  /\ makeHandler(t, args).method = t.method
           /\ makeHandler(t, args).path = PathOf(t, args)
           /\ makeHandler(t, args).body = Restrict(args, t.bodyProps \cap DOMAIN args)
BY DEF makeHandler

LEMMA LookupDoes ==
    ASSUME NEW c \in Segments, c # <<>>, NEW args, args = [customer_id |-> c]
    PROVE  LET did == Upstream(buildToolFor(Lookup), args)
           IN  /\ \/ did = None
                  \/ did = Did("GET orders", <<c[1]>>, "")
                  \/ did = Did("GET customer", <<c[1]>>, "")
               /\ Plain(c) => did = Did("GET customer", c, "")
<1>1. PICK t : t = buildToolFor(Lookup)
  OBVIOUS
<1>2. t.method = "GET" /\ t.path = CustomerPath /\ t.pathParams = {"customer_id"}
  BY <1>1, CustomerTool DEF Lookup
<1>3. PICK q : q = makeHandler(t, args)
  OBVIOUS
<1>4. args["customer_id"] = c
  OBVIOUS
<1>5. q.method = "GET" /\ q.path = <<Anything, Customers, c>>
  <2>1. q.method = t.method /\ q.path = PathOf(t, args)
    BY <1>3, HandlerIs
  <2>2. PathOf(t, args) = <<Anything, Customers, c>>
    BY <1>2, <1>4, CustomerPathOf, Zenon
  <2> QED
    BY <1>2, <2>1, <2>2, Zenon
<1>6. Upstream(t, args) = routed(Redirected(q))
  BY <1>3, Zenon DEF Upstream
<1> QED
  BY <1>1, <1>5, <1>6, CustomerRouted, Zenon

LEMMA OrdersDoes ==
    ASSUME NEW c \in Segments, c # <<>>, NEW args, args = [customer_id |-> c]
    PROVE  LET did == Upstream(buildToolFor(Orders), args)
           IN  /\ \/ did = None
                  \/ did = Did("GET orders", <<c[1]>>, "")
                  \/ did = Did("GET customer", <<"orders">>, "")
               /\ Plain(c) => did = Did("GET orders", c, "")
<1>1. PICK t : t = buildToolFor(Orders)
  OBVIOUS
<1>2. t.method = "GET" /\ t.path = OrdersPath /\ t.pathParams = {"customer_id"}
  BY <1>1, CustomerTool DEF Orders
<1>3. PICK q : q = makeHandler(t, args)
  OBVIOUS
<1>4. args["customer_id"] = c
  OBVIOUS
<1>5. q.method = "GET" /\ q.path = <<Anything, Customers, c, <<"orders">>>>
  <2>1. q.method = t.method /\ q.path = PathOf(t, args)
    BY <1>3, HandlerIs
  <2>2. PathOf(t, args) = <<Anything, Customers, c, <<"orders">>>>
    BY <1>2, <1>4, OrdersPathOf, Zenon
  <2> QED
    BY <1>2, <2>1, <2>2, Zenon
<1>6. Upstream(t, args) = routed(Redirected(q))
  BY <1>3, Zenon DEF Upstream
<1> QED
  BY <1>1, <1>5, <1>6, OrdersRouted, Zenon

LEMMA UpdateDoes ==
    ASSUME NEW c \in Segments, c # <<>>,
           NEW args, args = [customer_id |-> c, email |-> "updated"]
    PROVE  LET did == Upstream(buildToolFor(Update), args)
           IN  /\ did = None \/ did = Did("PUT customer", <<c[1]>>, "updated")
               /\ Plain(c) => did = Did("PUT customer", c, "updated")
<1>1. PICK t : t = buildToolFor(Update)
  OBVIOUS
<1>2. t.method = "PUT" /\ t.path = CustomerPath /\ t.pathParams = {"customer_id"}
      /\ t.bodyProps = {"email"}
  BY <1>1, CustomerTool DEF Update
<1>3. PICK q : q = makeHandler(t, args)
  OBVIOUS
<1>4. args["customer_id"] = c /\ {"email"} \cap DOMAIN args = {"email"} /\ args["email"] = "updated"
  OBVIOUS
<1>5. q.method = "PUT" /\ q.path = <<Anything, Customers, c>>
  <2>1. q.method = t.method /\ q.path = PathOf(t, args)
    BY <1>3, HandlerIs
  <2>2. PathOf(t, args) = <<Anything, Customers, c>>
    BY <1>2, <1>4, CustomerPathOf, Zenon
  <2> QED
    BY <1>2, <2>1, <2>2, Zenon
<1>6. q.body = [x \in {"email"} |-> args[x]]
  <2>1. q.body = Restrict(args, t.bodyProps \cap DOMAIN args)
    BY <1>3, HandlerIs
  <2> QED
    BY <1>2, <1>4, <2>1, Zenon DEF Restrict
<1>7. Field(q.body, "email", "") = "updated"
  BY <1>4, <1>6 DEF Field
<1>8. Upstream(t, args) = routed(Redirected(q))
  BY <1>3, Zenon DEF Upstream
<1> QED
  BY <1>1, <1>5, <1>7, <1>8, CustomerRouted, Zenon

LEMMA RefundDoes ==
    ASSUME NEW c, NEW v, NEW args, args = [customer_id |-> c, amount |-> v]
    PROVE  Upstream(buildToolFor(Refund), args) = Did("POST refund", c, v)
<1>1. PICK t : t = buildToolFor(Refund)
  OBVIOUS
<1>2. t.method = "POST" /\ t.path = RefundsPath /\ t.pathParams = {}
      /\ t.bodyProps = {"customer_id", "amount"}
  BY <1>1, RefundTool
<1>3. PICK q : q = makeHandler(t, args)
  OBVIOUS
<1>4. {"customer_id", "amount"} \cap DOMAIN args = {"customer_id", "amount"}
      /\ args["customer_id"] = c /\ args["amount"] = v
  OBVIOUS
<1>5. q.method = "POST" /\ q.path = <<Anything, <<"refunds">>>>
  <2>1. q.method = t.method /\ q.path = PathOf(t, args)
    BY <1>3, HandlerIs
  <2>2. PathOf(t, args) = <<Anything, <<"refunds">>>>
    BY <1>2, <1>4, RefundsPathOf, Zenon
  <2> QED
    BY <1>2, <2>1, <2>2, Zenon
<1>6. q.body = [x \in {"customer_id", "amount"} |-> args[x]]
  <2>1. q.body = Restrict(args, t.bodyProps \cap DOMAIN args)
    BY <1>3, HandlerIs
  <2> QED
    BY <1>2, <1>4, <2>1, Zenon DEF Restrict
<1>7. Field(q.body, "customer_id", <<"">>) = c /\ Field(q.body, "amount", "0") = v
  BY <1>4, <1>6 DEF Field
<1>8. Upstream(t, args) = routed(Redirected(q))
  BY <1>3, Zenon DEF Upstream
<1> QED
  BY <1>1, <1>5, <1>7, <1>8, RefundRouted, Zenon
=============================================================================
