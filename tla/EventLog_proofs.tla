---------------------------- MODULE EventLog_proofs ----------------------------
(***************************************************************************)
(* A rolling log loses the oldest lines only, and no more than it has to,  *)
(* for any numbers of files, lines, loggers, crashes and failures.         *)
(***************************************************************************)
EXTENDS EventLog, SequenceTheorems, WellFoundedInduction, TLAPS

-----------------------------------------------------------------------------
(* Recursive functions.  There is one: a smallest number without it would  *)
(* be the successor of one that has it.                                    *)

\* The least element of a set of numbers.
LEMMA Least ==
  ASSUME NEW T, T \subseteq Nat, T # {}
  PROVE  \E n \in T : \A m \in T : n <= m
<1> DEFINE R == OpToRel(<, Nat)
<1>1. \E n \in T : \A m \in T : ~(<<m, n>> \in R)
  BY NatLessThanWellFounded, WFMin
<1>2. \A m, n \in Nat : <<m, n>> \in R <=> m < n
  BY DEF OpToRel
<1> HIDE DEF R
<1>3. PICK n \in T : \A m \in T : ~(<<m, n>> \in R)
  BY <1>1
<1>4. \A m \in T : ~(m < n)
  BY <1>2, <1>3
<1> QED
  BY <1>3, <1>4

\* Induction: a set of numbers that has 0 and with each number the next has all.
LEMMA Induct ==
  ASSUME NEW P, 0 \in P, \A n \in Nat : n \in P => n + 1 \in P
  PROVE  Nat \subseteq P
<1> SUFFICES ASSUME Nat \ P # {} PROVE FALSE
  OBVIOUS
<1>1. PICK n \in Nat \ P : \A m \in Nat \ P : n <= m
  BY Least
<1>2. n - 1 \in Nat /\ n - 1 \in P /\ n = (n - 1) + 1
  BY <1>1
<1> QED
  BY <1>1, <1>2

-----------------------------------------------------------------------------
(* Contents of a log: FlattenSeq, along the partial concatenations.        *)

\* g[i] are the first i sequences of s, one after another.
Flat(g, s, n) == \A i \in 1 .. n : g[i] = IF i = 1 THEN s[i] ELSE g[i - 1] \o s[i]

LEMMA FlatExists ==
  ASSUME NEW S, NEW N \in Nat, NEW s, \A i \in 1 .. N : s[i] \in Seq(S)
  PROVE  \E g \in [1 .. N -> Seq(S)] : Flat(g, s, N)
<1> DEFINE P == {n \in Nat : n <= N => \E g \in [1 .. n -> Seq(S)] : Flat(g, s, n)}
<1>1. 0 \in P
  <2>1. [i \in 1 .. 0 |-> <<>>] \in [1 .. 0 -> Seq(S)] /\ Flat([i \in 1 .. 0 |-> <<>>], s, 0)
    BY DEF Flat
  <2> QED
    BY <2>1
<1>2. ASSUME NEW n \in Nat, n \in P PROVE n + 1 \in P
  <2> SUFFICES ASSUME n + 1 <= N PROVE \E g \in [1 .. n + 1 -> Seq(S)] : Flat(g, s, n + 1)
    OBVIOUS
  <2>1. PICK g \in [1 .. n -> Seq(S)] : Flat(g, s, n)
    BY <1>2
  <2> DEFINE h == [i \in 1 .. n + 1 |-> IF i <= n THEN g[i]
                                       ELSE IF i = 1 THEN s[i] ELSE g[i - 1] \o s[i]]
  <2>2. \A i \in 1 .. n + 1 : h[i] \in Seq(S)
    <3> SUFFICES ASSUME NEW i \in 1 .. n + 1 PROVE h[i] \in Seq(S)
      OBVIOUS
    <3>1. CASE i <= n
      BY <3>1
    <3>2. CASE ~(i <= n) /\ i = 1
      BY <3>2
    <3>3. CASE ~(i <= n) /\ i # 1
      <4>1. i - 1 \in 1 .. n /\ i \in 1 .. N
        BY <3>3
      <4>2. g[i - 1] \in Seq(S) /\ s[i] \in Seq(S)
        BY <4>1
      <4>3. g[i - 1] \o s[i] \in Seq(S)
        BY <4>2
      <4> QED
        BY <3>3, <4>3
    <3> QED
      BY <3>1, <3>2, <3>3
  <2>3. h \in [1 .. n + 1 -> Seq(S)]
    BY <2>2
  <2>4. ASSUME NEW i \in 1 .. n + 1
        PROVE  h[i] = IF i = 1 THEN s[i] ELSE h[i - 1] \o s[i]
    <3>1. CASE i <= n
      <4>1. i \in 1 .. n /\ (i # 1 => i - 1 \in 1 .. n)
        BY <3>1
      <4>2. h[i] = g[i] /\ (i # 1 => h[i - 1] = g[i - 1])
        BY <3>1, <4>1
      <4>3. g[i] = IF i = 1 THEN s[i] ELSE g[i - 1] \o s[i]
        BY <2>1, <4>1 DEF Flat
      <4> HIDE DEF h
      <4> QED
        BY <4>2, <4>3
    <3>2. CASE ~(i <= n)
      <4>1. i # 1 => i - 1 \in 1 .. n
        BY <3>2
      <4> QED
        BY <3>2, <4>1
    <3> QED
      BY <3>1, <3>2
  <2> QED
    BY <2>3, <2>4 DEF Flat
<1> HIDE DEF P
<1>3. N \in P
  BY <1>1, <1>2, Induct
<1> QED
  BY <1>3 DEF P

LEMMA FlattenIs ==
  ASSUME NEW S, NEW n \in Nat \ {0}, NEW s \in [1 .. n -> Seq(S)]
  PROVE  \E g : Flat(g, s, n) /\ FlattenSeq(s) = g[n] /\ \A i \in 1 .. n : g[i] \in Seq(S)
<1> DEFINE Q(g) == g = [i \in 1 .. Len(s) |-> IF i = 1 THEN s[i] ELSE g[i - 1] \o s[i]]
           c == CHOOSE g : Q(g)
<1>1. Len(s) = n
  <2>1. s \in Seq({s[i] : i \in 1 .. n})
    BY IsASeq
  <2> QED
    BY LenProperties, <2>1
<1>2. FlattenSeq(s) = c[n]
  BY <1>1 DEF FlattenSeq
<1>3. PICK g \in [1 .. n -> Seq(S)] : Flat(g, s, n)
  BY FlatExists
<1>4. Q(g)
  <2>1. g = [i \in 1 .. n |-> g[i]]
    OBVIOUS
  <2>2. [i \in 1 .. n |-> g[i]] = [i \in 1 .. n |-> IF i = 1 THEN s[i] ELSE g[i - 1] \o s[i]]
    BY <1>3 DEF Flat
  <2> QED
    BY <1>1, <2>1, <2>2
<1>5. Q(c)
  <2> HIDE DEF Q
  <2> QED
    BY <1>4
<1>6. Flat(c, s, n)
  BY <1>1, <1>5 DEF Flat
<1> HIDE DEF c, Q
<1> DEFINE P == {i \in Nat : i \in 1 .. n => c[i] \in Seq(S)}
<1>7. ASSUME NEW i \in Nat, i \in P PROVE i + 1 \in P
  <2>1. CASE i = 0
    BY <1>6, <2>1 DEF Flat
  <2>2. CASE i # 0 /\ i + 1 \in 1 .. n
    <3>1. c[i] \in Seq(S) /\ s[i + 1] \in Seq(S) /\ i + 1 # 1 /\ (i + 1) - 1 = i
      BY <1>7, <2>2
    <3>2. c[i + 1] = c[i] \o s[i + 1]
      BY <1>6, <2>2, <3>1 DEF Flat
    <3>3. c[i] \o s[i + 1] \in Seq(S)
      BY <3>1
    <3>4. c[i + 1] \in Seq(S)
      BY <3>2, <3>3
    <3> QED
      BY <3>4
  <2>3. CASE i + 1 \notin 1 .. n
    BY <2>3
  <2> QED
    BY <2>1, <2>2, <2>3
<1>8. Nat \subseteq P
  <2>1. 0 \in P
    OBVIOUS
  <2> HIDE DEF P
  <2> QED
    BY <1>7, <2>1, Induct
<1>9. \A i \in 1 .. n : c[i] \in Seq(S)
  BY <1>8
<1> QED
  BY <1>2, <1>6, <1>9

\* What begins in the same way has the same partial concatenations.
LEMMA FlatAgree ==
  ASSUME NEW n \in Nat, NEW p \in Nat, p <= n, NEW g, NEW h, NEW s, NEW t,
         Flat(g, s, n), Flat(h, t, n), \A i \in 1 .. p : s[i] = t[i]
  PROVE  \A i \in 1 .. p : g[i] = h[i]
<1> DEFINE P == {i \in Nat : i \in 1 .. p => g[i] = h[i]}
<1>1. 0 \in P
  OBVIOUS
<1>2. ASSUME NEW i \in Nat, i \in P PROVE i + 1 \in P
  <2>1. CASE i + 1 \notin 1 .. p
    BY <2>1
  <2>2. CASE i = 0 /\ 1 \in 1 .. p
    <3>1. 1 \in 1 .. n
      BY <2>2
    <3> QED
      BY <2>2, <3>1 DEF Flat
  <2>3. CASE i # 0 /\ i + 1 \in 1 .. p
    <3>1. i + 1 \in 1 .. n /\ i + 1 # 1 /\ (i + 1) - 1 = i /\ g[i] = h[i] /\ s[i + 1] = t[i + 1]
      BY <1>2, <2>3
    <3>2. g[i + 1] = g[i] \o s[i + 1] /\ h[i + 1] = h[i] \o t[i + 1]
      BY <3>1 DEF Flat
    <3>3. g[i + 1] = h[i + 1]
      BY <3>1, <3>2
    <3> QED
      BY <3>3
  <2> QED
    BY <2>1, <2>2, <2>3
<1> HIDE DEF P
<1>3. Nat \subseteq P
  BY <1>1, <1>2, Induct
<1> QED
  BY <1>3 DEF P

\* Only the last block differs.
Tails(S, s, t, n) ==
  /\ s \in [1 .. n -> Seq(S)] /\ t \in [1 .. n -> Seq(S)]
  /\ \A i \in 1 .. n - 1 : s[i] = t[i]

Common(P, x, u, y, v) == x = P \o u /\ y = P \o v

LEMMA FlattenTail ==
  ASSUME NEW S, NEW n \in Nat, n > 1, NEW s, NEW t, Tails(S, s, t, n)
  PROVE  \E P \in Seq(S) : Common(P, FlattenSeq(s), s[n], FlattenSeq(t), t[n])
<1>0. n \in Nat \ {0}
  OBVIOUS
<1>1. PICK g : Flat(g, s, n) /\ FlattenSeq(s) = g[n] /\ \A i \in 1 .. n : g[i] \in Seq(S)
  BY <1>0, FlattenIs DEF Tails
<1>2. PICK h : Flat(h, t, n) /\ FlattenSeq(t) = h[n] /\ \A i \in 1 .. n : h[i] \in Seq(S)
  BY <1>0, FlattenIs DEF Tails
<1> DEFINE q == n - 1
<1>3. q \in Nat /\ q <= n /\ q \in 1 .. q /\ q \in 1 .. n /\ \A i \in 1 .. q : s[i] = t[i]
  BY DEF Tails
<1>4. g[n] = g[q] \o s[n] /\ h[n] = h[q] \o t[n]
  <2>1. n \in 1 .. n /\ n # 1
    OBVIOUS
  <2> QED
    BY <1>1, <1>2, <2>1 DEF Flat
<1> HIDE DEF q
<1>5. \A i \in 1 .. q : g[i] = h[i]
  <2>1. Flat(g, s, n) /\ Flat(h, t, n) /\ q \in Nat /\ q <= n
    BY <1>1, <1>2, <1>3
  <2>2. \A i \in 1 .. q : s[i] = t[i]
    BY <1>3
  <2> QED
    BY <2>1, <2>2, FlatAgree
<1>6. g[q] = h[q] /\ g[q] \in Seq(S)
  BY <1>1, <1>3, <1>5
<1> QED
  BY <1>1, <1>2, <1>4, <1>6 DEF Common

LEMMA AppendIs ==
  ASSUME NEW S, NEW p \in Seq(S), NEW y \in S
  PROVE  p \o <<y>> = Append(p, y)
OBVIOUS

LEMMA Assoc ==
  ASSUME NEW S
  PROVE  \A u, v, w \in Seq(S) : (u \o v) \o w = u \o (v \o w)
BY ConcatAssociative

\* A block s[p] is lost and its place taken by its successor, or the successor
\* stays where it is.
Shed(S, s, t, n, p) ==
  /\ s \in [1 .. n -> Seq(S)] /\ t \in [1 .. n -> Seq(S)]
  /\ \A i \in (1 .. n) \ {p, p + 1} : t[i] = s[i]
  /\ t[p] \o t[p + 1] = s[p + 1]

\* A is what comes before the block, C what comes after it.
Parts(s, t, n, p, A, C) ==
  /\ FlattenSeq(s) = (A \o s[p]) \o C
  /\ FlattenSeq(t) = A \o C
  /\ p = 1 => A = <<>>
  /\ p = 2 => A = s[1]
  /\ s[n] # <<>> => C # <<>>

LEMMA FlattenLose ==
  ASSUME NEW S, NEW n \in Nat, NEW p \in 1 .. n - 1, NEW s, NEW t, Shed(S, s, t, n, p)
  PROVE  \E A, C \in Seq(S) : Parts(s, t, n, p, A, C)
<1>0. n \in Nat \ {0} /\ p \in Nat /\ p - 1 \in Nat /\ p - 1 <= n
      /\ p \in 1 .. n /\ p + 1 \in 1 .. n /\ (p + 1) - 1 = p /\ p + 1 # 1
  OBVIOUS
<1>1. PICK g : Flat(g, s, n) /\ FlattenSeq(s) = g[n] /\ \A i \in 1 .. n : g[i] \in Seq(S)
  BY <1>0, FlattenIs DEF Shed
<1>2. PICK h : Flat(h, t, n) /\ FlattenSeq(t) = h[n] /\ \A i \in 1 .. n : h[i] \in Seq(S)
  BY <1>0, FlattenIs DEF Shed
<1> DEFINE A == IF p = 1 THEN <<>> ELSE g[p - 1]
           a == s[p]
           b == s[p + 1]
           c == t[p]
           d == t[p + 1]
<1>3. \A i \in 1 .. p - 1 : g[i] = h[i]
  <2>1. \A i \in 1 .. p - 1 : s[i] = t[i]
    <3> SUFFICES ASSUME NEW i \in 1 .. p - 1 PROVE s[i] = t[i]
      OBVIOUS
    <3>1. i \in (1 .. n) \ {p, p + 1}
      BY <1>0
    <3> QED
      BY <3>1 DEF Shed
  <2> DEFINE q == p - 1
  <2>2. q \in Nat /\ q <= n /\ \A i \in 1 .. q : s[i] = t[i]
    BY <1>0, <2>1
  <2> HIDE DEF q, A, a, b, c, d
  <2>3. \A i \in 1 .. q : g[i] = h[i]
    <3>1. Flat(g, s, n) /\ Flat(h, t, n) /\ q \in Nat /\ q <= n
      BY <1>1, <1>2, <2>2
    <3>2. \A i \in 1 .. q : s[i] = t[i]
      BY <2>2
    <3> QED
      BY <3>1, <3>2, FlatAgree
  <2> QED
    BY <2>3 DEF q
<1>4. A \in Seq(S) /\ a \in Seq(S) /\ b \in Seq(S) /\ c \in Seq(S) /\ d \in Seq(S) /\ c \o d = b
  <2>1. p # 1 => p - 1 \in 1 .. n
    BY <1>0
  <2>2. <<>> \in Seq(S)
    OBVIOUS
  <2> QED
    BY <1>0, <1>1, <2>1, <2>2 DEF Shed
<1>5. g[p] = A \o a /\ h[p] = A \o c
  <2>1. CASE p = 1
    <3>1. g[p] = a /\ h[p] = c
      BY <1>0, <1>1, <1>2, <2>1 DEF Flat
    <3>2. <<>> \o a = a /\ <<>> \o c = c
      BY <1>4
    <3> QED
      BY <2>1, <3>1, <3>2
  <2>2. CASE p # 1
    <3>1. p - 1 \in 1 .. p - 1
      BY <1>0, <2>2
    <3>2. g[p] = g[p - 1] \o s[p] /\ h[p] = h[p - 1] \o t[p] /\ g[p - 1] = h[p - 1]
      BY <1>0, <1>1, <1>2, <1>3, <2>2, <3>1 DEF Flat
    <3> QED
      BY <2>2, <3>2
  <2> QED
    BY <2>1, <2>2
<1>6. g[p + 1] = g[p] \o b /\ h[p + 1] = h[p] \o d
  BY <1>0, <1>1, <1>2 DEF Flat
<1>7. p = 2 => A = s[1]
  <2>1. p = 2 => g[1] = s[1] /\ A = g[1]
    BY <1>0, <1>1 DEF Flat
  <2> QED
    BY <2>1
<1>8. p = 1 => A = <<>>
  OBVIOUS
<1> HIDE DEF A, a, b, c, d
<1>9. \A u, v, w \in Seq(S) : (u \o v) \o w = u \o (v \o w)
  BY Assoc
<1>10. g[p + 1] = (A \o a) \o b /\ h[p + 1] = A \o b
  <2>1. (A \o c) \o d = A \o (c \o d)
    <3>1. A \in Seq(S) /\ c \in Seq(S) /\ d \in Seq(S)
      BY <1>4
    <3> QED
      BY <3>1, <1>9
  <2> QED
    BY <1>4, <1>5, <1>6, <2>1
<1> DEFINE I(k) == p + 1 + k <= n =>
                     \E C \in Seq(S) : /\ g[p + 1 + k] = (A \o a) \o C
                                       /\ h[p + 1 + k] = A \o C
                                       /\ s[p + 1 + k] # <<>> => C # <<>>
           P == {k \in Nat : I(k)}
<1>11. I(0)
  <2>1. p + 1 + 0 = p + 1
    BY <1>0
  <2>2. /\ g[p + 1 + 0] = (A \o a) \o b
        /\ h[p + 1 + 0] = A \o b
        /\ s[p + 1 + 0] # <<>> => b # <<>>
    BY <1>10, <2>1 DEF b
  <2> QED
    BY <1>4, <2>2
<1>12. ASSUME NEW k \in Nat, I(k) PROVE I(k + 1)
  <2> DEFINE m == p + 1 + k
  <2> SUFFICES ASSUME p + 1 + (k + 1) <= n
               PROVE  \E C \in Seq(S) : /\ g[p + 1 + (k + 1)] = (A \o a) \o C
                                        /\ h[p + 1 + (k + 1)] = A \o C
                                        /\ s[p + 1 + (k + 1)] # <<>> => C # <<>>
    OBVIOUS
  <2>0. m \in Nat /\ m <= n
    BY <1>0
  <2>1. PICK C \in Seq(S) : g[m] = (A \o a) \o C /\ h[m] = A \o C
    BY <1>12, <2>0
  <2>2. p + 1 + (k + 1) = m + 1 /\ m + 1 \in 1 .. n /\ m + 1 # 1 /\ (m + 1) - 1 = m
        /\ m + 1 \notin {p, p + 1}
    BY <1>0
  <2> HIDE DEF m, I
  <2> DEFINE e == s[m + 1]
  <2>3. g[m + 1] = g[m] \o e /\ h[m + 1] = h[m] \o e /\ e \in Seq(S)
    <3>1. t[m + 1] = s[m + 1]
      BY <2>2 DEF Shed
    <3>2. g[m + 1] = g[m] \o s[m + 1] /\ h[m + 1] = h[m] \o t[m + 1]
      BY <1>1, <1>2, <2>2 DEF Flat
    <3> QED
      BY <2>2, <3>1, <3>2 DEF Shed
  <2> HIDE DEF e
  <2>4. C \o e \in Seq(S) /\ (e # <<>> => C \o e # <<>>)
    BY <2>3
  <2>5. ((A \o a) \o C) \o e = (A \o a) \o (C \o e)
    <3>1. A \o a \in Seq(S)
      BY <1>4
    <3> QED
      BY <2>1, <2>3, <3>1, <1>9
  <2>6. (A \o C) \o e = A \o (C \o e)
    <3>1. A \in Seq(S) /\ C \in Seq(S) /\ e \in Seq(S)
      BY <1>4, <2>3
    <3> QED
      BY <3>1, <1>9
  <2>7. g[m + 1] = (A \o a) \o (C \o e) /\ h[m + 1] = A \o (C \o e)
    BY <2>1, <2>3, <2>5, <2>6
  <2> QED
    BY <2>2, <2>4, <2>7 DEF e
<1> HIDE DEF I
<1>13. Nat \subseteq P
  <2>1. 0 \in P
    BY <1>11
  <2>2. \A k \in Nat : k \in P => k + 1 \in P
    BY <1>12
  <2> HIDE DEF P
  <2> QED
    BY <2>1, <2>2, Induct
<1> DEFINE q == n - (p + 1)
<1>14. q \in Nat /\ p + 1 + q = n
  BY <1>0
<1> HIDE DEF q
<1>15. q \in P /\ p + 1 + q <= n
  BY <1>13, <1>14
<1>16. \E C \in Seq(S) : /\ g[p + 1 + q] = (A \o a) \o C
                         /\ h[p + 1 + q] = A \o C
                         /\ s[p + 1 + q] # <<>> => C # <<>>
  BY <1>15 DEF I
<1>17. PICK C \in Seq(S) : g[n] = (A \o a) \o C /\ h[n] = A \o C /\ (s[n] # <<>> => C # <<>>)
  BY <1>14, <1>16
<1>18. FlattenSeq(s) = (A \o s[p]) \o C /\ FlattenSeq(t) = A \o C
  BY <1>1, <1>2, <1>17 DEF a
<1>19. Parts(s, t, n, p, A, C)
  BY <1>7, <1>8, <1>17, <1>18 DEF Parts
<1> QED
  BY <1>4, <1>19

\* What is left of a log that loses its file i, as the abstract log says it.
Less(x, y, i) ==
  i \in 1 .. Len(x) - 1 /\ y = SubSeq(x, 1, i - 1) \o SubSeq(x, i + 1, Len(x))

\* A block inside a sequence, cut out.
Cut(x, A, B, C) ==
  /\ Len(A) + Len(B) < Len(x)
  /\ A \o C = SubSeq(x, 1, Len(A)) \o SubSeq(x, Len(A) + Len(B) + 1, Len(x))

LEMMA CutBlock ==
  ASSUME NEW S, NEW A \in Seq(S), NEW B \in Seq(S), NEW C \in Seq(S), B # <<>>, C # <<>>,
         NEW x, x = (A \o B) \o C
  PROVE  Cut(x, A, B, C)
<1> DEFINE a == Len(A)
           b == Len(B)
           c == Len(C)
<1>1. a \in Nat /\ b \in Nat \ {0} /\ c \in Nat \ {0}
  OBVIOUS
<1>2. x \in Seq(S) /\ Len(x) = a + b + c /\ DOMAIN x = 1 .. a + b + c
  OBVIOUS
<1>3. SubSeq(x, 1, a) = A
  <2>1. \A i \in 1 .. a : x[i] = A[i]
    OBVIOUS
  <2> QED
    BY <1>1, <1>2, <2>1
<1>4. SubSeq(x, a + b + 1, Len(x)) = C
  <2>1. \A i \in 1 .. c : x[a + b + i] = C[i]
    OBVIOUS
  <2> QED
    BY <1>1, <1>2, <2>1
<1>5. a + b < Len(x)
  BY <1>1, <1>2
<1> HIDE DEF a, b
<1>6. A \o C = SubSeq(x, 1, a) \o SubSeq(x, a + b + 1, Len(x))
  BY <1>3, <1>4
<1> QED
  BY <1>5, <1>6 DEF a, b, Cut

LEMMA LoseBlock ==
  ASSUME NEW S, NEW A \in Seq(S), NEW B \in Seq(S), NEW C \in Seq(S), B # <<>>, C # <<>>,
         Len(B) = 1, NEW x, x = (A \o B) \o C
  PROVE  \E i : Less(x, A \o C, i) /\ (A = <<>> => i = 1)
<1> DEFINE a == Len(A)
<1>1. a \in Nat /\ (A = <<>> => a = 0)
  OBVIOUS
<1>2. Len(x) \in Nat
  <2>1. (A \o B) \o C \in Seq(S)
    OBVIOUS
  <2> QED
    BY <2>1, LenProperties
<1>3. /\ a + 1 < Len(x)
      /\ A \o C = SubSeq(x, 1, a) \o SubSeq(x, a + 1 + 1, Len(x))
  <2>1. Cut(x, A, B, C)
    BY CutBlock
  <2> QED
    BY <2>1 DEF Cut
<1> HIDE DEF a
<1>4. a + 1 \in 1 .. Len(x) - 1 /\ (a + 1) - 1 = a /\ (A = <<>> => a + 1 = 1)
  BY <1>1, <1>2, <1>3
<1>5. Less(x, A \o C, a + 1)
  BY <1>3, <1>4 DEF Less
<1> QED
  BY <1>4, <1>5

-----------------------------------------------------------------------------
(* Sizes of files: Total, along the sums of the first entries. *)

LEMMA LineSizes == \A n \in Lines : LineSize(n) \in 1 .. MaxSize
<1> SUFFICES ASSUME NEW n \in Lines PROVE LineSize(n) \in 1 .. MaxSize
  OBVIOUS
<1> DEFINE m == Len(SizeOf)
<1>1. n \in Int /\ m \in Nat \ {0} /\ \A i \in 1 .. m : SizeOf[i] \in 1 .. MaxSize
  BY LogAssumption, LenProperties DEF Lines
<1>2. LineSize(n) = SizeOf[(n % m) + 1]
  BY DEF LineSize
<1> HIDE DEF m
<1>3. (n % m) + 1 \in 1 .. m
  BY <1>1
<1> QED
  BY <1>1, <1>2, <1>3

LEMMA EntryBytes == \A e \in Entries : e[1] \in Lines /\ Bytes(e) \in 1 .. MaxSize /\ Bytes(e) \in Nat
<1>1. MaxSize \in Nat
  BY LogAssumption
<1> QED
  BY <1>1 DEF Entries, Bytes

LEMMA EntryIs ==
  ASSUME NEW n \in Lines, NEW k \in 1 .. LineSize(n)
  PROVE  <<n, k>> \in Entries /\ <<n, k>>[1] = n /\ Bytes(<<n, k>>) = k
<1>1. LineSize(n) \in 1 .. MaxSize /\ MaxSize \in Nat
  BY LineSizes, LogAssumption
<1>2. k \in 1 .. MaxSize /\ k <= LineSize(n)
  BY <1>1
<1> QED
  BY <1>2 DEF Entries, Bytes

Summed(g, f, n) == \A i \in 0 .. n : g[i] = IF i = 0 THEN 0 ELSE g[i - 1] + Bytes(f[i])

LEMMA SumExists ==
  ASSUME NEW N \in Nat, NEW f, \A i \in 1 .. N : Bytes(f[i]) \in Nat
  PROVE  \E g \in [0 .. N -> Nat] : Summed(g, f, N)
<1> DEFINE I(n) == n <= N => \E g \in [0 .. n -> Nat] : Summed(g, f, n)
           P == {n \in Nat : I(n)}
<1>1. I(0)
  <2>1. [i \in 0 .. 0 |-> 0] \in [0 .. 0 -> Nat] /\ Summed([i \in 0 .. 0 |-> 0], f, 0)
    BY DEF Summed
  <2> QED
    BY <2>1
<1>2. ASSUME NEW n \in Nat, I(n) PROVE I(n + 1)
  <2> SUFFICES ASSUME n + 1 <= N PROVE \E g \in [0 .. n + 1 -> Nat] : Summed(g, f, n + 1)
    OBVIOUS
  <2>1. PICK g \in [0 .. n -> Nat] : Summed(g, f, n)
    BY <1>2
  <2> DEFINE h == [i \in 0 .. n + 1 |-> IF i <= n THEN g[i] ELSE g[n] + Bytes(f[n + 1])]
  <2>2. h \in [0 .. n + 1 -> Nat]
    <3>1. g[n] \in Nat /\ Bytes(f[n + 1]) \in Nat
      BY <2>1
    <3>2. \A i \in 0 .. n + 1 : h[i] \in Nat
      BY <2>1, <3>1
    <3> QED
      BY <3>2
  <2>3. ASSUME NEW i \in 0 .. n + 1
        PROVE  h[i] = IF i = 0 THEN 0 ELSE h[i - 1] + Bytes(f[i])
    <3>1. CASE i <= n
      <4>1. i \in 0 .. n /\ (i # 0 => i - 1 \in 0 .. n)
        BY <3>1
      <4>2. h[i] = g[i] /\ (i # 0 => h[i - 1] = g[i - 1])
        BY <3>1, <4>1
      <4>3. g[i] = IF i = 0 THEN 0 ELSE g[i - 1] + Bytes(f[i])
        BY <2>1, <4>1 DEF Summed
      <4> HIDE DEF h
      <4> QED
        BY <4>2, <4>3
    <3>2. CASE ~(i <= n)
      <4>1. i = n + 1 /\ i # 0 /\ i - 1 = n
        BY <3>2
      <4>2. h[i] = g[n] + Bytes(f[n + 1]) /\ h[n] = g[n]
        BY <4>1
      <4> HIDE DEF h
      <4> QED
        BY <4>1, <4>2
    <3> QED
      BY <3>1, <3>2
  <2> QED
    BY <2>2, <2>3 DEF Summed
<1> HIDE DEF I
<1>3. Nat \subseteq P
  <2>1. 0 \in P
    BY <1>1
  <2>2. \A n \in Nat : n \in P => n + 1 \in P
    BY <1>2
  <2> HIDE DEF P
  <2> QED
    BY <2>1, <2>2, Induct
<1>4. I(N)
  BY <1>3
<1> QED
  BY <1>4 DEF I

LEMMA TotalIs ==
  ASSUME NEW f \in Seq(Entries)
  PROVE  \E g : Summed(g, f, Len(f)) /\ Total(f) = g[Len(f)] /\ \A i \in 0 .. Len(f) : g[i] \in Nat
<1> DEFINE n == Len(f)
           Q(g) == g = [i \in 0 .. n |-> IF i = 0 THEN 0 ELSE g[i - 1] + Bytes(f[i])]
           c == CHOOSE g : Q(g)
<1>1. n \in Nat /\ f # Missing /\ \A i \in 1 .. n : f[i] \in Entries
  BY LogAssumption, LenProperties
<1>2. Total(f) = c[n]
  BY <1>1 DEF Total
<1>3. \A i \in 1 .. n : Bytes(f[i]) \in Nat
  BY <1>1, EntryBytes
<1> HIDE DEF n
<1>4. PICK g \in [0 .. n -> Nat] : Summed(g, f, n)
  BY <1>1, <1>3, SumExists
<1>5. Q(g)
  <2>1. g = [i \in 0 .. n |-> g[i]]
    OBVIOUS
  <2>2. [i \in 0 .. n |-> g[i]] = [i \in 0 .. n |-> IF i = 0 THEN 0 ELSE g[i - 1] + Bytes(f[i])]
    BY <1>4 DEF Summed
  <2> QED
    BY <2>1, <2>2
<1>6. Q(c)
  <2> HIDE DEF Q
  <2> QED
    BY <1>5
<1>7. Summed(c, f, n)
  BY <1>6 DEF Summed
<1> HIDE DEF c, Q
<1> DEFINE I(i) == i \in 0 .. n => c[i] \in Nat
           P == {i \in Nat : I(i)}
<1>8. ASSUME NEW i \in Nat, I(i) PROVE I(i + 1)
  <2> SUFFICES ASSUME i + 1 \in 0 .. n PROVE c[i + 1] \in Nat
    OBVIOUS
  <2>1. i \in 0 .. n /\ i + 1 \in 1 .. n /\ (i + 1) - 1 = i /\ i + 1 # 0
    BY <1>1
  <2>2. c[i] \in Nat /\ Bytes(f[i + 1]) \in Nat
    BY <1>3, <1>8, <2>1
  <2>3. c[i + 1] = c[i] + Bytes(f[i + 1])
    BY <1>7, <2>1 DEF Summed
  <2> QED
    BY <2>2, <2>3
<1>9. I(0)
  BY <1>7 DEF Summed
<1> HIDE DEF I
<1>10. Nat \subseteq P
  <2>1. 0 \in P
    BY <1>9
  <2>2. \A i \in Nat : i \in P => i + 1 \in P
    BY <1>8
  <2> HIDE DEF P
  <2> QED
    BY <2>1, <2>2, Induct
<1>11. \A i \in 0 .. n : c[i] \in Nat
  <2> SUFFICES ASSUME NEW i \in 0 .. n PROVE c[i] \in Nat
    OBVIOUS
  <2>1. i \in Nat /\ I(i)
    BY <1>1, <1>10
  <2> QED
    BY <2>1 DEF I
<1> QED
  BY <1>2, <1>7, <1>11 DEF n

LEMMA SumAgree ==
  ASSUME NEW n \in Nat, NEW p \in Nat, p <= n, NEW g, NEW h, NEW s, NEW t,
         Summed(g, s, n), Summed(h, t, p), \A i \in 1 .. p : s[i] = t[i]
  PROVE  g[p] = h[p]
<1> DEFINE I(i) == i \in 0 .. p => g[i] = h[i]
           P == {i \in Nat : I(i)}
<1>1. I(0)
  BY DEF Summed
<1>2. ASSUME NEW i \in Nat, I(i) PROVE I(i + 1)
  <2> SUFFICES ASSUME i + 1 \in 0 .. p PROVE g[i + 1] = h[i + 1]
    OBVIOUS
  <2>1. /\ i + 1 \in 0 .. n /\ i + 1 \in 0 .. p /\ i + 1 \in 1 .. p /\ i + 1 # 0
        /\ (i + 1) - 1 = i /\ g[i] = h[i]
    BY <1>2
  <2>2. s[i + 1] = t[i + 1]
    BY <2>1
  <2>3. g[i + 1] = g[i] + Bytes(s[i + 1]) /\ h[i + 1] = h[i] + Bytes(t[i + 1])
    BY <2>1 DEF Summed
  <2> QED
    BY <2>1, <2>2, <2>3
<1> HIDE DEF I
<1>3. Nat \subseteq P
  <2>1. 0 \in P
    BY <1>1
  <2>2. \A i \in Nat : i \in P => i + 1 \in P
    BY <1>2
  <2> HIDE DEF P
  <2> QED
    BY <2>1, <2>2, Induct
<1>4. I(p)
  BY <1>3
<1> QED
  BY <1>4 DEF I

LEMMA TotalNone == Total(<<>>) = 0 /\ Total(Missing) = 0
<1>1. <<>> \in Seq(Entries) /\ Len(<<>>) = 0
  OBVIOUS
<1>2. PICK g : Summed(g, <<>>, 0) /\ Total(<<>>) = g[0]
  BY <1>1, TotalIs
<1>3. g[0] = 0
  BY <1>2 DEF Summed
<1> QED
  BY <1>2, <1>3 DEF Total

LEMMA TotalNat == \A f \in Seq(Entries) : Total(f) \in Nat
<1> SUFFICES ASSUME NEW f \in Seq(Entries) PROVE Total(f) \in Nat
  OBVIOUS
<1>1. PICK g : Total(f) = g[Len(f)] /\ \A i \in 0 .. Len(f) : g[i] \in Nat
  BY TotalIs
<1>2. Len(f) \in 0 .. Len(f)
  BY LenProperties
<1> QED
  BY <1>1, <1>2

LEMMA TotalAppend ==
  ASSUME NEW f \in Seq(Entries), NEW x \in Entries
  PROVE  Total(Append(f, x)) = Total(f) + Bytes(x)
<1> DEFINE e == Append(f, x)
           n == Len(f)
<1>1. /\ e \in Seq(Entries) /\ n \in Nat /\ Len(e) = n + 1 /\ e[n + 1] = x
      /\ \A i \in 1 .. n : e[i] = f[i]
  BY AppendProperties, LenProperties
<1>2. PICK g : Summed(g, f, n) /\ Total(f) = g[n]
  BY TotalIs
<1> HIDE DEF e, n
<1>3. PICK h : Summed(h, e, n + 1) /\ Total(e) = h[n + 1]
  BY <1>1, TotalIs
<1>4. h[n] = g[n]
  <2>1. n + 1 \in Nat /\ n <= n + 1
    BY <1>1
  <2>2. Summed(h, e, n + 1) /\ Summed(g, f, n)
    BY <1>2, <1>3
  <2> QED
    BY <1>1, <2>1, <2>2, SumAgree
<1>5. h[n + 1] = h[n] + Bytes(x)
  <2>1. n + 1 \in 0 .. n + 1 /\ n + 1 # 0 /\ (n + 1) - 1 = n
    BY <1>1
  <2> QED
    BY <1>1, <1>3, <2>1 DEF Summed
<1> QED
  BY <1>2, <1>3, <1>4, <1>5 DEF e

-----------------------------------------------------------------------------
(* What the files of a logger hold. *)

File == Seq(Entries) \cup {Missing}

\* The entries of each file, and each file for itself if it has any.
Contents(F) == [i \in Numbers |-> Content(F[i])]
Wraps(F) == [i \in Numbers |-> Wrap(F[i])]

LEMMA ContentSeq == \A f \in File : Content(f) \in Seq(Entries) /\ (f # Missing => Content(f) = f)
BY DEF Content, File

LEMMA WrapSeq ==
  ASSUME NEW f \in File
  PROVE  /\ Wrap(f) \in Seq(Seq(Entries))
         /\ Content(f) = <<>> => Wrap(f) = <<>>
         /\ Content(f) # <<>> => Wrap(f) = <<Content(f)>> /\ Len(Wrap(f)) = 1 /\ Wrap(f) # <<>>
         /\ Wrap(Missing) = <<>> /\ Content(Missing) = <<>>
<1>1. Content(f) \in Seq(Entries) /\ Content(Missing) = <<>>
  BY ContentSeq DEF Content
<1>2. Wrap(Missing) = <<>>
  BY <1>1 DEF Wrap
<1> DEFINE c == Content(f)
<1>3. c \in Seq(Entries) /\ Wrap(f) = IF c = <<>> THEN <<>> ELSE <<c>>
  BY <1>1 DEF Wrap
<1> HIDE DEF c
<1>4. <<c>> \in Seq(Seq(Entries)) /\ Len(<<c>>) = 1 /\ <<c>> # <<>> /\ <<>> \in Seq(Seq(Entries))
  BY <1>3
<1>5. CASE c = <<>>
  BY <1>1, <1>2, <1>3, <1>4, <1>5 DEF c
<1>6. CASE c # <<>>
  <2>1. Wrap(f) = <<c>>
    BY <1>3, <1>6
  <2> QED
    BY <1>1, <1>2, <1>4, <1>6, <2>1 DEF c
<1> QED
  BY <1>5, <1>6

LEMMA ContentsType ==
  ASSUME NEW F \in [Numbers -> File]
  PROVE  Contents(F) \in [Numbers -> Seq(Entries)] /\ Wraps(F) \in [Numbers -> Seq(Seq(Entries))]
<1>1. \A i \in Numbers : Content(F[i]) \in Seq(Entries)
  BY ContentSeq
<1>2. \A i \in Numbers : Wrap(F[i]) \in Seq(Seq(Entries))
  BY WrapSeq
<1> QED
  BY <1>1, <1>2 DEF Contents, Wraps

\* The blocks of Joined.
Blocks(B) == [k \in 1 .. MaxFile + 2 |-> B[MaxFile + 2 - k]]

LEMMA JoinedIs == \A B : Joined(B) = FlattenSeq(Blocks(B))
BY DEF Joined, Blocks

LEMMA TextIs == \A l \in Loggers : /\ Text(l) = Joined(Contents(files[l]))
                                   /\ Kept(l) = Joined(Wraps(files[l]))
BY DEF Text, Kept, Contents, Wraps

LEMMA BlockAt ==
  ASSUME NEW B, NEW i \in Numbers
  PROVE  MaxFile + 2 - i \in 1 .. MaxFile + 2 /\ Blocks(B)[MaxFile + 2 - i] = B[i]
<1> DEFINE k == MaxFile + 2 - i
<1>1. k \in 1 .. MaxFile + 2 /\ MaxFile + 2 - k = i
  BY LogAssumption DEF Numbers
<1> QED
  BY <1>1 DEF Blocks

LEMMA BlocksType ==
  ASSUME NEW S, NEW B \in [Numbers -> Seq(S)]
  PROVE  Blocks(B) \in [1 .. MaxFile + 2 -> Seq(S)]
<1>1. ASSUME NEW k \in 1 .. MaxFile + 2 PROVE B[MaxFile + 2 - k] \in Seq(S)
  <2>1. MaxFile + 2 - k \in Numbers
    BY LogAssumption DEF Numbers
  <2> QED
    BY <2>1
<1> QED
  BY <1>1 DEF Blocks

\* Only the latest block differs.
Later(S, B, D) ==
  /\ B \in [Numbers -> Seq(S)] /\ D \in [Numbers -> Seq(S)]
  /\ \A i \in Numbers \ {0} : D[i] = B[i]

LEMMA JoinedTail ==
  ASSUME NEW S, NEW B, NEW D, Later(S, B, D)
  PROVE  \E P \in Seq(S) : Common(P, Joined(B), B[0], Joined(D), D[0])
<1> DEFINE n == MaxFile + 2
           s == Blocks(B)
           t == Blocks(D)
<1>1. n \in Nat /\ n > 1 /\ 0 \in Numbers /\ MaxFile + 2 - 0 = n
  BY LogAssumption DEF Numbers
<1>2. \A k \in 1 .. n - 1 : s[k] = t[k]
  <2> SUFFICES ASSUME NEW k \in 1 .. n - 1 PROVE s[k] = t[k]
    OBVIOUS
  <2>1. MaxFile + 2 - k \in Numbers \ {0} /\ k \in 1 .. n
    BY LogAssumption DEF Numbers
  <2>2. D[MaxFile + 2 - k] = B[MaxFile + 2 - k]
    BY <2>1 DEF Later
  <2> QED
    BY <2>1, <2>2 DEF Blocks
<1>3. s[n] = B[0] /\ t[n] = D[0]
  <2>1. Blocks(B)[MaxFile + 2 - 0] = B[0] /\ Blocks(D)[MaxFile + 2 - 0] = D[0]
    BY <1>1, BlockAt
  <2> QED
    BY <1>1, <2>1
<1>4. s \in [1 .. n -> Seq(S)] /\ t \in [1 .. n -> Seq(S)]
  BY BlocksType DEF Later
<1>5. Joined(B) = FlattenSeq(s) /\ Joined(D) = FlattenSeq(t)
  BY JoinedIs
<1> HIDE DEF n, s, t
<1>6. Tails(S, s, t, n)
  BY <1>2, <1>4 DEF Tails
<1>7. PICK P \in Seq(S) : Common(P, FlattenSeq(s), s[n], FlattenSeq(t), t[n])
  BY <1>1, <1>6, FlattenTail
<1> QED
  BY <1>3, <1>5, <1>7 DEF Common

\* The block j + 1 is lost, and the block j takes its place or stays.
Yields(S, B, D, j) ==
  /\ B \in [Numbers -> Seq(S)] /\ D \in [Numbers -> Seq(S)]
  /\ \A i \in Numbers \ {j, j + 1} : D[i] = B[i]
  /\ D[j + 1] \o D[j] = B[j]

Halves(B, D, j, A, C) ==
  /\ Joined(B) = (A \o B[j + 1]) \o C
  /\ Joined(D) = A \o C
  /\ j = MaxFile => A = <<>>
  /\ j = MaxFile - 1 => A = B[MaxFile + 1]
  /\ B[0] # <<>> => C # <<>>

LEMMA JoinedSplit ==
  ASSUME NEW S, NEW B, NEW D, NEW j \in 0 .. MaxFile, Yields(S, B, D, j)
  PROVE  \E A, C \in Seq(S) : Halves(B, D, j, A, C)
<1> DEFINE n == MaxFile + 2
           p == MaxFile + 1 - j
           s == Blocks(B)
           t == Blocks(D)
<1>1. /\ n \in Nat /\ p \in 1 .. n - 1 /\ j \in Numbers /\ j + 1 \in Numbers /\ 0 \in Numbers
      /\ MaxFile + 1 \in Numbers
      /\ MaxFile + 2 - (j + 1) = p /\ MaxFile + 2 - j = p + 1 /\ MaxFile + 2 - 0 = n
      /\ MaxFile + 2 - (MaxFile + 1) = 1
      /\ j = MaxFile => p = 1
      /\ j = MaxFile - 1 => p = 2
  BY LogAssumption DEF Numbers
<1>2. s[p] = B[j + 1] /\ t[p] = D[j + 1]
  BY <1>1, BlockAt
<1>3. s[p + 1] = B[j] /\ t[p + 1] = D[j]
  BY <1>1, BlockAt
<1>4. s[n] = B[0] /\ s[1] = B[MaxFile + 1]
  BY <1>1, BlockAt
<1>5. \A i \in (1 .. n) \ {p, p + 1} : t[i] = s[i]
  <2> SUFFICES ASSUME NEW i \in (1 .. n) \ {p, p + 1} PROVE t[i] = s[i]
    OBVIOUS
  <2>1. MaxFile + 2 - i \in Numbers \ {j, j + 1}
    BY LogAssumption DEF Numbers
  <2>2. D[MaxFile + 2 - i] = B[MaxFile + 2 - i]
    BY <2>1 DEF Yields
  <2> QED
    BY <2>2 DEF Blocks
<1>6. s \in [1 .. n -> Seq(S)] /\ t \in [1 .. n -> Seq(S)]
  BY BlocksType DEF Yields
<1>7. t[p] \o t[p + 1] = s[p + 1]
  BY <1>2, <1>3 DEF Yields
<1>8. Joined(B) = FlattenSeq(s) /\ Joined(D) = FlattenSeq(t)
  BY JoinedIs
<1> HIDE DEF n, p, s, t
<1>9. Shed(S, s, t, n, p)
  BY <1>5, <1>6, <1>7 DEF Shed
<1>10. PICK A, C \in Seq(S) : Parts(s, t, n, p, A, C)
  <2>1. n \in Nat /\ p \in 1 .. n - 1
    BY <1>1
  <2> QED
    BY <1>9, <2>1, FlattenLose
<1>11. Halves(B, D, j, A, C)
  BY <1>1, <1>2, <1>4, <1>8, <1>10 DEF Parts, Halves
<1> QED
  BY <1>11

\* If it held nothing, nothing is lost.
LEMMA JoinedKept ==
  ASSUME NEW S, NEW B, NEW D, NEW j \in 0 .. MaxFile, Yields(S, B, D, j), B[j + 1] = <<>>
  PROVE  Joined(D) = Joined(B)
<1>0. Yields(S, B, D, j) /\ j \in 0 .. MaxFile
  OBVIOUS
<1>1. PICK A, C \in Seq(S) : Halves(B, D, j, A, C)
  BY <1>0, JoinedSplit
<1>2. A \o <<>> = A
  OBVIOUS
<1>3. Joined(B) = (A \o <<>>) \o C /\ Joined(D) = A \o C
  BY <1>1 DEF Halves
<1> QED
  BY <1>2, <1>3

\* A file that is made is empty.
LEMMA SameContents ==
  ASSUME NEW F, NEW G, \A i \in Numbers : Content(G[i]) = Content(F[i])
  PROVE  Contents(G) = Contents(F) /\ Wraps(G) = Wraps(F)
<1>1. \A i \in Numbers : Wrap(G[i]) = Wrap(F[i])
  BY DEF Wrap
<1> QED
  BY <1>1 DEF Contents, Wraps

\* A line is added to the current file, which may have been empty.
Lengthens(x, y, e) ==
  \/ y = Append(x, <<e>>)
  \/ \E P \in Seq(Seq(Entries)), c \in Seq(Entries) : x = Append(P, c) /\ y = Append(P, Append(c, e))

LEMMA FilesAdd ==
  ASSUME NEW F \in [Numbers -> File], NEW G \in [Numbers -> File], NEW e \in Entries,
         \A i \in Numbers \ {0} : G[i] = F[i], G[0] = Append(Content(F[0]), e)
  PROVE  /\ Joined(Contents(G)) = Append(Joined(Contents(F)), e)
         /\ Lengthens(Joined(Wraps(F)), Joined(Wraps(G)), e)
<1> DEFINE c == Content(F[0])
           d == Append(c, e)
<1>1. 0 \in Numbers /\ c \in Seq(Entries)
  <2>1. 0 \in Numbers
    BY LogAssumption DEF Numbers
  <2> QED
    BY <2>1, ContentSeq
<1>2. d \in Seq(Entries) /\ d # <<>> /\ G[0] = d
  BY <1>1
<1>3. Content(G[0]) = d
  BY <1>2, LogAssumption DEF Content
<1>4. Contents(F) \in [Numbers -> Seq(Entries)] /\ Contents(G) \in [Numbers -> Seq(Entries)]
      /\ Wraps(F) \in [Numbers -> Seq(Seq(Entries))] /\ Wraps(G) \in [Numbers -> Seq(Seq(Entries))]
  BY ContentsType
<1>5. \A i \in Numbers \ {0} : Contents(G)[i] = Contents(F)[i] /\ Wraps(G)[i] = Wraps(F)[i]
  BY DEF Contents, Wraps
<1>6. Later(Entries, Contents(F), Contents(G)) /\ Later(Seq(Entries), Wraps(F), Wraps(G))
  BY <1>4, <1>5 DEF Later
<1>7. Contents(F)[0] = c /\ Contents(G)[0] = d /\ Wraps(F)[0] = Wrap(F[0]) /\ Wraps(G)[0] = Wrap(G[0])
  BY <1>1, <1>3 DEF Contents, Wraps
<1>8. /\ c = <<>> => Wrap(F[0]) = <<>>
      /\ c # <<>> => Wrap(F[0]) = <<c>>
      /\ Wrap(G[0]) = <<d>>
  BY <1>2, <1>3 DEF Wrap
<1> HIDE DEF c
<1>9. Joined(Contents(G)) = Append(Joined(Contents(F)), e)
  <2>0. PICK P \in Seq(Entries) : Common(P, Joined(Contents(F)), Contents(F)[0],
                                             Joined(Contents(G)), Contents(G)[0])
    BY <1>6, JoinedTail
  <2>1. Joined(Contents(F)) = P \o Contents(F)[0] /\ Joined(Contents(G)) = P \o Contents(G)[0]
    BY <2>0 DEF Common
  <2>2. \A u, v \in Seq(Entries) : u \o Append(v, e) = Append(u \o v, e)
    OBVIOUS
  <2>3. P \o d = Append(P \o c, e)
    BY <1>1, <2>2
  <2> QED
    BY <1>7, <2>1, <2>3
<1> HIDE DEF d
<1>10. Lengthens(Joined(Wraps(F)), Joined(Wraps(G)), e)
  <2>0. PICK P \in Seq(Seq(Entries)) : Common(P, Joined(Wraps(F)), Wraps(F)[0],
                                             Joined(Wraps(G)), Wraps(G)[0])
    BY <1>6, JoinedTail
  <2>1. Joined(Wraps(F)) = P \o Wraps(F)[0] /\ Joined(Wraps(G)) = P \o Wraps(G)[0]
    BY <2>0 DEF Common
  <2>2. \A y \in Seq(Entries) : P \o <<y>> = Append(P, y)
    <3> DEFINE T == Seq(Entries)
    <3> SUFFICES ASSUME NEW y \in T PROVE P \o <<y>> = Append(P, y)
      OBVIOUS
    <3>1. P \in Seq(T)
      OBVIOUS
    <3> HIDE DEF T
    <3> QED
      BY <3>1, AppendIs
  <2>3. P \o <<>> = P
    OBVIOUS
  <2>4. Joined(Wraps(G)) = Append(P, d)
    BY <1>2, <1>7, <1>8, <2>1, <2>2
  <2>5. CASE c = <<>>
    <3>1. d = <<e>>
      BY <2>5 DEF d
    <3>2. Joined(Wraps(F)) = P
      BY <1>7, <1>8, <2>1, <2>3, <2>5
    <3> QED
      BY <2>4, <3>1, <3>2 DEF Lengthens
  <2>6. CASE c # <<>>
    <3>1. Joined(Wraps(F)) = Append(P, c)
      BY <1>1, <1>7, <1>8, <2>1, <2>2, <2>6
    <3> QED
      BY <1>1, <2>4, <3>1 DEF Lengthens, d
  <2> QED
    BY <2>5, <2>6
<1> QED
  BY <1>9, <1>10

\* The file .(j + 1) is lost, and .j takes its place or stays.
Replaces(F, G, j) ==
  /\ F \in [Numbers -> File] /\ G \in [Numbers -> File]
  /\ \A i \in Numbers \ {j, j + 1} : G[i] = F[i]
  /\ \/ G[j + 1] = F[j] /\ G[j] = Missing
     \/ G[j + 1] = Missing /\ G[j] = F[j]

LEMMA ReplacesYields ==
  ASSUME NEW F, NEW G, NEW j \in 0 .. MaxFile, Replaces(F, G, j)
  PROVE  Yields(Entries, Contents(F), Contents(G), j) /\ Yields(Seq(Entries), Wraps(F), Wraps(G), j)
<1>1. j \in Numbers /\ j + 1 \in Numbers
  BY LogAssumption DEF Numbers
<1>2. /\ Contents(F) \in [Numbers -> Seq(Entries)] /\ Contents(G) \in [Numbers -> Seq(Entries)]
      /\ Wraps(F) \in [Numbers -> Seq(Seq(Entries))] /\ Wraps(G) \in [Numbers -> Seq(Seq(Entries))]
  BY ContentsType DEF Replaces
<1>3. \A i \in Numbers \ {j, j + 1} : Contents(G)[i] = Contents(F)[i] /\ Wraps(G)[i] = Wraps(F)[i]
  BY DEF Replaces, Contents, Wraps
<1>4. F[j] \in File
  BY <1>1 DEF Replaces
<1>5. /\ Content(F[j]) \in Seq(Entries) /\ Wrap(F[j]) \in Seq(Seq(Entries))
      /\ Content(Missing) = <<>> /\ Wrap(Missing) = <<>>
  BY <1>4, ContentSeq, WrapSeq
<1>6. \A S : \A x \in Seq(S) : x \o <<>> = x /\ <<>> \o x = x
  OBVIOUS
<1>7. /\ Content(F[j]) \o <<>> = Content(F[j]) /\ <<>> \o Content(F[j]) = Content(F[j])
      /\ Wrap(F[j]) \o <<>> = Wrap(F[j]) /\ <<>> \o Wrap(F[j]) = Wrap(F[j])
  BY <1>5, <1>6
<1>8. /\ Content(G[j + 1]) \o Content(G[j]) = Content(F[j])
      /\ Wrap(G[j + 1]) \o Wrap(G[j]) = Wrap(F[j])
  <2>1. CASE G[j + 1] = F[j] /\ G[j] = Missing
    BY <1>5, <1>7, <2>1
  <2>2. CASE G[j + 1] = Missing /\ G[j] = F[j]
    BY <1>5, <1>7, <2>2
  <2> QED
    BY <2>1, <2>2 DEF Replaces
<1>9. /\ Contents(G)[j + 1] \o Contents(G)[j] = Contents(F)[j]
      /\ Wraps(G)[j + 1] \o Wraps(G)[j] = Wraps(F)[j]
  BY <1>1, <1>8 DEF Contents, Wraps
<1> QED
  BY <1>2, <1>3, <1>9 DEF Yields

LEMMA TextKept ==
  ASSUME NEW F, NEW G, NEW j \in 0 .. MaxFile, Replaces(F, G, j), Content(F[j + 1]) = <<>>
  PROVE  Joined(Contents(G)) = Joined(Contents(F))
<1>1. Contents(F)[j + 1] = <<>>
  <2>1. j + 1 \in Numbers
    BY LogAssumption DEF Numbers
  <2> QED
    BY <2>1 DEF Contents
<1>2. Yields(Entries, Contents(F), Contents(G), j) /\ j \in 0 .. MaxFile
  BY ReplacesYields
<1> QED
  BY <1>1, <1>2, JoinedKept

\* What the abstract log calls losing a file.
LEMMA FilesLose ==
  ASSUME NEW F, NEW G, NEW j \in 0 .. MaxFile, Replaces(F, G, j), NEW intact,
         Content(F[0]) # <<>>,
         intact => \/ j = MaxFile
                   \/ j = MaxFile - 1 /\ F[MaxFile + 1] = Missing
                   \/ Content(F[j + 1]) = <<>>
  PROVE  \/ Joined(Wraps(G)) = Joined(Wraps(F))
         \/ \E a : Less(Joined(Wraps(F)), Joined(Wraps(G)), a) /\ (intact => a = 1)
<1> DEFINE V == Wraps(F)
           W == Wraps(G)
           x == Joined(V)
<1>0. Yields(Seq(Entries), V, W, j) /\ j \in 0 .. MaxFile
  BY ReplacesYields
<1>1. /\ j + 1 \in Numbers /\ 0 \in Numbers /\ MaxFile + 1 \in Numbers
      /\ V[j + 1] = Wrap(F[j + 1]) /\ V[0] = Wrap(F[0]) /\ V[MaxFile + 1] = Wrap(F[MaxFile + 1])
  <2>1. j + 1 \in Numbers /\ 0 \in Numbers /\ MaxFile + 1 \in Numbers
    BY LogAssumption DEF Numbers
  <2> QED
    BY <2>1 DEF Wraps
<1>2. /\ F[j + 1] \in File /\ F[0] \in File
      /\ V[j + 1] \in Seq(Seq(Entries)) /\ Wrap(Missing) = <<>> /\ V[0] # <<>>
      /\ Content(F[j + 1]) = <<>> => V[j + 1] = <<>>
      /\ Content(F[j + 1]) # <<>> => Len(V[j + 1]) = 1 /\ V[j + 1] # <<>>
  <2>1. F[j + 1] \in File /\ F[0] \in File
    BY <1>1 DEF Replaces
  <2> QED
    BY <1>1, <2>1, WrapSeq
<1>3. CASE Content(F[j + 1]) = <<>>
  <2> HIDE DEF V, W
  <2>1. Joined(W) = Joined(V)
    BY <1>0, <1>2, <1>3, JoinedKept
  <2> QED
    BY <2>1 DEF V, W
<1>4. CASE Content(F[j + 1]) # <<>>
  <2>1. PICK A, C \in Seq(Seq(Entries)) : Halves(V, W, j, A, C)
    <3> HIDE DEF V, W
    <3> QED
      BY <1>0, JoinedSplit
  <2>2. x = (A \o V[j + 1]) \o C /\ Joined(W) = A \o C /\ C # <<>>
    BY <1>2, <2>1 DEF Halves
  <2>3. intact => A = <<>>
    <3>1. CASE j = MaxFile
      BY <2>1, <3>1 DEF Halves
    <3>2. CASE j = MaxFile - 1 /\ F[MaxFile + 1] = Missing
      BY <1>1, <1>2, <2>1, <3>2 DEF Halves
    <3> QED
      BY <1>4, <3>1, <3>2
  <2> DEFINE b == V[j + 1]
  <2>4. b \in Seq(Seq(Entries)) /\ Len(b) = 1 /\ b # <<>> /\ x = (A \o b) \o C
    BY <1>2, <1>4, <2>2
  <2> HIDE DEF b, x, V, W
  <2>5. PICK a : Less(x, A \o C, a) /\ (A = <<>> => a = 1)
    BY <2>2, <2>4, LoseBlock
  <2>6. Less(x, Joined(W), a) /\ (intact => a = 1)
    BY <2>2, <2>3, <2>5
  <2> QED
    BY <2>6 DEF x, V, W
<1> QED
  BY <1>3, <1>4

-----------------------------------------------------------------------------
(* The invariant.  A logger that reports a failure is where it goes on.     *)

Phase(l) == IF at[l] = "complain" THEN next[l] ELSE at[l]

Shifting(l) == Phase(l) \in {"shift", "rename"}

\* The file that the next renaming makes.
Gap(l) == IF Phase(l) = "shift" THEN nth[l] + 1 ELSE 1

Hole(l) == IF Shifting(l) THEN Gap(l) ELSE 0

Steady == {"shift", "rename", "reopen", "unlock"}
Places == Steady \cup {"free", "append", "remove", "write", "complain"}

TypeOK ==
    /\ files \in [Loggers -> [Numbers -> File]]
    /\ handle \in [Loggers -> BOOLEAN]
    /\ size \in [Loggers -> Nat]
    /\ at \in [Loggers -> Places]
    /\ next \in [Loggers -> Steady]
    /\ nth \in [Loggers -> Int]
    /\ count \in [Loggers -> 0 .. MaxCount]
    /\ written \in [Loggers -> Seq(Entries)]
    /\ crashes \in Nat

\* The standard logger works for who holds the mutex of package log.
Holding ==
    /\ out = Nobody => at[Std] = "free"
    /\ out \in Loggers => out # Std /\ at[out] = "complain"

Counted(l) == Phase(l) # "free" => count[l] \in Lines

Small(l) == Renames(l) => \A i \in Numbers : Total(files[l][i]) <= MaxSize

Known(l) == handle[l] /\ Phase(l) # "reopen" => size[l] = Total(files[l][0])

Fits(l) ==
    Phase(l) = "write" => handle[l] /\ (Renames(l) => size[l] + LineSize(count[l]) <= MaxSize)

Moved(l) == Phase(l) = "reopen" /\ Renames(l) => files[l][0] = Missing

\* A rotation is for a file that has lines.
Latest(l) == Phase(l) \in {"remove", "shift", "rename"} => files[l][0] \notin {<<>>, Missing}

InRange(l) == Phase(l) = "shift" => nth[l] \in 1 .. MaxFile - 1

Above(l) == MaxFile > 0 => files[l][MaxFile + 1] = Missing

\* No file is renamed over another one, but the oldest.
Vacant(l) == Renames(l) /\ Shifting(l) /\ Gap(l) < MaxFile => files[l][Gap(l)] = Missing

\* The files of history that are there are the youngest ones, and all are there
\* when lines are lost or about to be.
Chain(l) ==
    Renames(l) /\ crashes = 0 =>
        \A i, j \in (1 .. MaxFile) \ {Hole(l)} :
            i < j /\ files[l][j] # Missing => files[l][i] # Missing

Filled(l) ==
    Renames(l) /\ crashes = 0 =>
        (Text(l) # written[l] \/ (Shifting(l) /\ files[l][Gap(l)] # Missing)
         => \A i \in (1 .. MaxFile) \ {Hole(l)} : files[l][i] # Missing)

\* The numbers of the entries are those of earlier lines.
Pending == {"append", "remove", "shift", "rename", "reopen", "write"}

Ordered(l) ==
    \A i \in DOMAIN written[l] :
        /\ written[l][i][1] <= count[l]
        /\ Phase(l) \in Pending => written[l][i][1] < count[l]

Own(l) ==
    /\ Ordered(l)
    /\ Counted(l) /\ Small(l) /\ Known(l) /\ Fits(l) /\ Moved(l) /\ Latest(l)
    /\ InRange(l) /\ Above(l) /\ Vacant(l) /\ Chain(l) /\ Filled(l)

EInv == TypeOK /\ Holding /\ \A l \in Loggers : Own(l)

-----------------------------------------------------------------------------
(* Steps.  The other loggers stay as they are. *)

Same(k) ==
    /\ files'[k] = files[k] /\ (handle'[k] <=> handle[k]) /\ size'[k] = size[k]
    /\ nth'[k] = nth[k] /\ written'[k] = written[k] /\ count'[k] = count[k]
    /\ Phase(k)' = Phase(k)

LEMMA TextNext == \A l \in Loggers : /\ Text(l)' = Joined(Contents(files'[l]))
                                     /\ Kept(l)' = Joined(Wraps(files'[l]))
BY DEF Text, Kept, Joined, Contents, Wraps

\* What can be read back is the same.
Stays(l) == Text(l)' = Text(l) /\ Kept(l)' = Kept(l)

LEMMA SameFiles ==
  ASSUME NEW l \in Loggers, files'[l] = files[l]
  PROVE  Stays(l)
BY TextIs, TextNext DEF Stays

LEMMA OrderStays ==
  ASSUME NEW l \in Loggers, Own(l), written'[l] = written[l], count'[l] = count[l],
         Phase(l)' \in Pending => Phase(l) \in Pending
  PROVE  Ordered(l)'
BY DEF Own, Ordered

LEMMA Others ==
  ASSUME NEW k \in Loggers, Own(k), Same(k), UNCHANGED <<faults, crashes>>
  PROVE  Own(k)'
<1>1. /\ files'[k] = files[k] /\ (handle'[k] <=> handle[k]) /\ size'[k] = size[k]
      /\ nth'[k] = nth[k] /\ written'[k] = written[k] /\ count'[k] = count[k]
      /\ Phase(k)' = Phase(k)
  BY DEF Same
<1>2. (Renames(k)' <=> Renames(k)) /\ crashes' = crashes
  BY DEF Renames, May
<1>3. (Shifting(k)' <=> Shifting(k)) /\ Gap(k)' = Gap(k) /\ Hole(k)' = Hole(k)
  BY <1>1 DEF Shifting, Gap, Hole
<1>4. Text(k)' = Text(k)
  BY <1>1, SameFiles DEF Stays
<1>5. Counted(k)' /\ Small(k)' /\ Known(k)' /\ Fits(k)' /\ Moved(k)' /\ Latest(k)'
  BY <1>1, <1>2 DEF Own, Counted, Small, Known, Fits, Moved, Latest
<1>6. InRange(k)' /\ Above(k)' /\ Vacant(k)'
  BY <1>1, <1>2, <1>3 DEF Own, InRange, Above, Vacant
<1>7. Chain(k)' /\ Filled(k)'
  BY <1>1, <1>2, <1>3, <1>4 DEF Own, Chain, Filled
<1>8. Ordered(k)'
  BY <1>1, OrderStays
<1> QED
  BY <1>5, <1>6, <1>7, <1>8 DEF Own

\* Outside the renaming of files, history stays as it is.
LEMMA PastStays ==
  ASSUME NEW l \in Loggers, Own(l), UNCHANGED <<faults, crashes>>,
         ~Shifting(l), ~Shifting(l)',
         \A i \in 1 .. MaxFile : files'[l][i] = files[l][i],
         Text(l)' # written'[l] => Text(l) # written[l]
  PROVE  Chain(l)' /\ Filled(l)'
<1>1. Hole(l) = 0 /\ Hole(l)' = 0
  BY DEF Hole
<1>2. (Renames(l)' <=> Renames(l)) /\ crashes' = crashes
  BY DEF Renames, May
<1>3. Chain(l)'
  BY <1>1, <1>2 DEF Own, Chain
<1>4. Filled(l)'
  BY <1>1, <1>2 DEF Own, Filled
<1> QED
  BY <1>3, <1>4

\* A line begins.
LEMMA Begins ==
  ASSUME TypeOK, NEW l \in Loggers, Own(l), at[l] = "free", count[l] < MaxCount,
         at' = [at EXCEPT ![l] = "append"], count' = [count EXCEPT ![l] = @ + 1],
         UNCHANGED <<disk, mem, next, crashes, faults>>
  PROVE  TypeOK' /\ Own(l)' /\ (\A k \in Loggers \ {l} : Same(k)) /\ UNCHANGED files
<1>1. /\ UNCHANGED <<files, written, handle, size, nth, next, crashes, faults>>
      /\ at'[l] = "append" /\ Phase(l) = "free" /\ Phase(l)' = "append"
  BY DEF TypeOK, Phase, disk, mem
<1>2. TypeOK'
  <2>1. count' \in [Loggers -> 0 .. MaxCount]
    BY LogAssumption DEF TypeOK
  <2>2. at' \in [Loggers -> Places]
    BY DEF TypeOK, Places
  <2> QED
    BY <1>1, <2>1, <2>2 DEF TypeOK
<1>3. \A k \in Loggers \ {l} : Same(k)
  BY <1>1 DEF TypeOK, Same, Phase
<1>4. count'[l] \in Lines
  BY LogAssumption DEF TypeOK, Lines
<1>5. Counted(l)' /\ Small(l)' /\ Known(l)' /\ Above(l)'
  BY <1>1, <1>4 DEF Own, Counted, Small, Known, Above, Renames, May
<1>6. ~Shifting(l) /\ ~Shifting(l)'
  BY <1>1 DEF Shifting
<1>7. Fits(l)' /\ Moved(l)' /\ Latest(l)' /\ InRange(l)' /\ Vacant(l)'
  BY <1>1, <1>6 DEF Fits, Moved, Latest, InRange, Vacant
<1>8. Text(l)' = Text(l)
  BY <1>1, SameFiles DEF Stays
<1>9. Chain(l)' /\ Filled(l)'
  BY <1>1, <1>6, <1>8, PastStays
<1>10. Ordered(l)'
  <2>1. count[l] \in Nat /\ count'[l] = count[l] + 1 /\ written \in [Loggers -> Seq(Entries)]
    BY DEF TypeOK
  <2>2. \A i \in DOMAIN written[l] : written[l][i][1] \in Int /\ written[l][i][1] <= count[l]
    BY <2>1, EntryBytes DEF Own, Ordered, Lines
  <2> QED
    BY <1>1, <2>1, <2>2 DEF Ordered
<1> QED
  BY <1>1, <1>2, <1>3, <1>5, <1>7, <1>9, <1>10 DEF Own

\* The mutex is free again, and the standard logger's caller goes on.
LEMMA UnlockKeeps ==
  ASSUME TypeOK, Holding, NEW l \in Loggers, Own(l), Unlock(l), UNCHANGED faults
  PROVE  TypeOK' /\ Own(l)' /\ (\A k \in Loggers \ {l} : Same(k)) /\ UNCHANGED files
<1>1. /\ UNCHANGED <<files, written, handle, size, nth, next, count, crashes, faults>>
      /\ at[l] = "unlock" /\ Phase(l) = "unlock" /\ at'[l] = "free" /\ Phase(l)' = "free"
  BY DEF TypeOK, Phase, Unlock, disk, mem
<1>2. \A k \in Loggers \ {l} : at'[k] = IF l = Std /\ k = out THEN next[k] ELSE at[k]
  BY DEF Unlock
<1>3. TypeOK'
  <2>1. at' \in [Loggers -> Places]
    BY DEF Unlock, TypeOK, Places, Steady
  <2> QED
    BY <1>1, <2>1 DEF TypeOK
<1>4. \A k \in Loggers \ {l} : Phase(k)' = Phase(k)
  <2> SUFFICES ASSUME NEW k \in Loggers \ {l} PROVE Phase(k)' = Phase(k)
    OBVIOUS
  <2>1. CASE l = Std /\ k = out
    <3>1. at[k] = "complain" /\ at'[k] = next[k] /\ next'[k] = next[k] /\ next[k] # "complain"
      BY <1>1, <1>2, <2>1 DEF Holding, TypeOK, Steady
    <3> QED
      BY <3>1 DEF Phase
  <2>2. CASE ~(l = Std /\ k = out)
    BY <1>1, <1>2, <2>2 DEF Phase
  <2> QED
    BY <2>1, <2>2
<1>5. \A k \in Loggers \ {l} : Same(k)
  BY <1>1, <1>4 DEF Same
<1>6. Counted(l)' /\ Small(l)' /\ Known(l)' /\ Above(l)'
  BY <1>1 DEF Own, Counted, Small, Known, Above, Renames, May
<1>7. ~Shifting(l) /\ ~Shifting(l)'
  BY <1>1 DEF Shifting
<1>8. Fits(l)' /\ Moved(l)' /\ Latest(l)' /\ InRange(l)' /\ Vacant(l)'
  BY <1>1, <1>7 DEF Fits, Moved, Latest, InRange, Vacant
<1>9. Text(l)' = Text(l)
  BY <1>1, SameFiles DEF Stays
<1>10. Chain(l)' /\ Filled(l)'
  BY <1>1, <1>7, <1>9, PastStays
<1>11. Ordered(l)'
  BY <1>1, OrderStays DEF Pending
<1> QED
  BY <1>1, <1>3, <1>5, <1>6, <1>8, <1>10, <1>11 DEF Own

LEMMA TotalContent ==
  \A f \in File : Total(Content(f)) = Total(f) /\ Total(f) \in Nat
<1> SUFFICES ASSUME NEW f \in File PROVE Total(Content(f)) = Total(f) /\ Total(f) \in Nat
  OBVIOUS
<1>1. CASE f = Missing
  BY <1>1, TotalNone DEF Content
<1>2. CASE f \in Seq(Entries)
  BY <1>2, TotalNat, LogAssumption DEF Content
<1> QED
  BY <1>1, <1>2 DEF File

\* The file is there once it is opened, and holds what it held.
LEMMA Opened ==
  ASSUME TypeOK, NEW l \in Loggers, Open(l)
  PROVE  /\ files' \in [Loggers -> [Numbers -> File]]
         /\ handle' \in [Loggers -> BOOLEAN]
         /\ size' \in [Loggers -> Nat]
         /\ \A k \in Loggers \ {l} : /\ files'[k] = files[k] /\ (handle'[k] <=> handle[k])
                                     /\ size'[k] = size[k]
         /\ handle'[l] /\ size'[l] = Total(files'[l][0]) /\ size'[l] = Total(files[l][0])
         /\ files'[l][0] = Content(files[l][0])
         /\ \A i \in Numbers \ {0} : files'[l][i] = files[l][i]
         /\ \A i \in Numbers : Total(files'[l][i]) = Total(files[l][i])
         /\ Stays(l)
<1>1. 0 \in Numbers
  BY LogAssumption DEF Numbers
<1>2. /\ files' = [files EXCEPT ![l][0] = Content(files[l][0])]
      /\ handle' = [handle EXCEPT ![l] = TRUE]
      /\ size' = [size EXCEPT ![l] = Total(files'[l][0])]
  BY DEF Open, OpenedFile
<1>3. files \in [Loggers -> [Numbers -> File]] /\ handle \in [Loggers -> BOOLEAN]
      /\ size \in [Loggers -> Nat]
  BY DEF TypeOK
<1>4. Content(files[l][0]) \in Seq(Entries) /\ Content(files[l][0]) \in File
  BY <1>1, <1>3, ContentSeq DEF File
<1>5. /\ files' \in [Loggers -> [Numbers -> File]]
      /\ \A k \in Loggers \ {l} : files'[k] = files[k]
      /\ files'[l][0] = Content(files[l][0])
      /\ \A i \in Numbers \ {0} : files'[l][i] = files[l][i]
  BY <1>1, <1>2, <1>3, <1>4
<1>6. /\ handle' \in [Loggers -> BOOLEAN] /\ handle'[l]
      /\ \A k \in Loggers \ {l} : handle'[k] <=> handle[k]
  BY <1>2, <1>3
<1>7. \A i \in Numbers : Total(files'[l][i]) = Total(files[l][i])
  BY <1>1, <1>3, <1>5, TotalContent
<1>8. Total(files'[l][0]) \in Nat
  BY <1>1, <1>3, <1>7, TotalContent
<1>9. /\ size' \in [Loggers -> Nat] /\ size'[l] = Total(files'[l][0])
      /\ \A k \in Loggers \ {l} : size'[k] = size[k]
  BY <1>2, <1>3, <1>8
<1>10. Stays(l)
  <2>1. \A i \in Numbers : Content(files'[l][i]) = Content(files[l][i])
    BY <1>1, <1>4, <1>5, LogAssumption DEF Content
  <2>2. Contents(files'[l]) = Contents(files[l]) /\ Wraps(files'[l]) = Wraps(files[l])
    BY <2>1, SameContents
  <2> QED
    BY <2>2, TextIs, TextNext DEF Stays
<1>11. size'[l] = Total(files[l][0])
  BY <1>1, <1>7, <1>9
<1> QED
  BY <1>5, <1>6, <1>7, <1>9, <1>10, <1>11

\* A file that is full has lines.
LEMMA FullHas ==
  ASSUME NEW f \in File, NEW n \in Lines, Total(f) + LineSize(n) > MaxSize
  PROVE  f \notin {<<>>, Missing}
<1>1. LineSize(n) \in 1 .. MaxSize /\ MaxSize \in Nat
  BY LineSizes, LogAssumption
<1> QED
  BY <1>1, TotalNone

LEMMA AppendKeeps ==
  ASSUME TypeOK, NEW l \in Loggers, Own(l), AppendLine(l), UNCHANGED faults
  PROVE  TypeOK' /\ Own(l)' /\ (\A k \in Loggers \ {l} : Same(k)) /\ Stays(l)
<1>1. /\ UNCHANGED <<nth, written, count, out, crashes, faults, next>>
      /\ at[l] = "append" /\ Phase(l) = "append"
      /\ count[l] \in Lines /\ 0 \in Numbers
  BY LogAssumption DEF AppendLine, Goes, Phase, Own, Counted, Numbers
<1>2. /\ at' = [at EXCEPT ![l] = at'[l]] /\ at'[l] \in {"remove", "write", "unlock"}
      /\ Phase(l)' = at'[l]
  BY DEF AppendLine, Goes, TypeOK, Phase
<1>3. \A k \in Loggers \ {l} : at'[k] = at[k]
  BY <1>2 DEF TypeOK
\* Whichever way, the contents stay and the size is known where it matters.
<1>4. /\ files' \in [Loggers -> [Numbers -> File]]
      /\ handle' \in [Loggers -> BOOLEAN]
      /\ size' \in [Loggers -> Nat]
      /\ \A k \in Loggers \ {l} : /\ files'[k] = files[k] /\ (handle'[k] <=> handle[k])
                                  /\ size'[k] = size[k]
      /\ \A i \in Numbers \ {0} : files'[l][i] = files[l][i]
      /\ \A i \in Numbers : Total(files'[l][i]) = Total(files[l][i])
      /\ Stays(l)
      /\ handle'[l] => size'[l] = Total(files'[l][0])
      /\ \/ at'[l] = "unlock"
         \/ handle'[l] /\ at'[l] = IF Full(l, size'[l]) THEN "remove" ELSE "write"
  <2>1. CASE files' = files /\ handle' = handle /\ size' = size
    <3>1. files' = files /\ handle' = handle /\ size' = size
      BY <2>1
    <3>2. handle[l] => size[l] = Total(files[l][0])
      BY <1>1 DEF Own, Known
    <3>3. Stays(l)
      BY <3>1, SameFiles
    <3>4. \/ at'[l] = "unlock"
          \/ handle[l] /\ at'[l] = IF Full(l, size[l]) THEN "remove" ELSE "write"
      BY <2>1, <3>1, <1>2 DEF AppendLine, Goes, TypeOK, Open
    <3> QED
      BY <3>1, <3>2, <3>3, <3>4 DEF TypeOK
  <2>2. CASE Open(l) /\ Goes(l, "append", IF Full(l, size'[l]) THEN "remove" ELSE "write")
    <3>1. at'[l] = IF Full(l, size'[l]) THEN "remove" ELSE "write"
      BY <2>2 DEF Goes, TypeOK
    <3> QED
      BY <2>2, <3>1, Opened
  <2>3. \/ files' = files /\ handle' = handle /\ size' = size
        \/ Open(l) /\ Goes(l, "append", IF Full(l, size'[l]) THEN "remove" ELSE "write")
    BY Zenon DEF AppendLine
  <2> QED
    BY <2>1, <2>2, <2>3
<1>5. TypeOK'
  <2>1. at' \in [Loggers -> Places]
    BY <1>2 DEF TypeOK, Places, Steady
  <2> QED
    BY <1>1, <1>4, <2>1 DEF TypeOK
<1>6. \A k \in Loggers \ {l} : Same(k)
  BY <1>1, <1>3, <1>4 DEF Same, Phase
<1>7. ~Shifting(l) /\ ~Shifting(l)'
  BY <1>1, <1>2 DEF Shifting
<1>8. Counted(l)' /\ Moved(l)' /\ InRange(l)' /\ Vacant(l)'
  BY <1>1, <1>2, <1>7 DEF Counted, Moved, InRange, Vacant
<1>9. Small(l)' /\ Known(l)'
  BY <1>1, <1>4 DEF Own, Small, Known, Renames, May
<1>10. Above(l)'
  <2>1. MaxFile + 1 \in Numbers \ {0}
    BY LogAssumption DEF Numbers
  <2> QED
    BY <1>4, <2>1 DEF Own, Above
<1>11. Fits(l)'
  <2> SUFFICES ASSUME at'[l] = "write"
               PROVE  handle'[l] /\ size'[l] + LineSize(count'[l]) <= MaxSize
    BY <1>2 DEF Fits
  <2>1. handle'[l] /\ ~Full(l, size'[l])
    BY <1>4
  <2>2. size'[l] \in Nat /\ LineSize(count[l]) \in 1 .. MaxSize /\ MaxSize \in Nat
    BY <1>1, <1>4, LineSizes, LogAssumption
  <2> QED
    BY <1>1, <2>1, <2>2 DEF Full
<1>12. Latest(l)'
  <2> SUFFICES ASSUME at'[l] = "remove" PROVE files'[l][0] \notin {<<>>, Missing}
    BY <1>2 DEF Latest
  <2>1. Full(l, size'[l]) /\ size'[l] = Total(files'[l][0])
    BY <1>4
  <2>2. files'[l][0] \in File
    BY <1>1, <1>4
  <2>3. Total(files'[l][0]) + LineSize(count[l]) > MaxSize
    BY <1>1, <2>1 DEF Full
  <2>4. count[l] \in Lines
    BY <1>1
  <2> QED
    BY <2>2, <2>3, <2>4, FullHas
<1>13. Chain(l)' /\ Filled(l)'
  <2>1. \A i \in 1 .. MaxFile : i \in Numbers \ {0}
    BY LogAssumption DEF Numbers
  <2>2. \A i \in 1 .. MaxFile : files'[l][i] = files[l][i]
    BY <1>4, <2>1
  <2> QED
    BY <1>1, <1>4, <1>7, <2>2, PastStays DEF Stays
<1>14. Ordered(l)'
  BY <1>1, OrderStays DEF Pending
<1> QED
  BY <1>4, <1>5, <1>6, <1>8, <1>9, <1>10, <1>11, <1>12, <1>13, <1>14 DEF Own

\* A step from one place to another, with or without a report.
LEMMA Going ==
  ASSUME TypeOK, NEW l \in Loggers, NEW from, NEW to,
         to \in Places \ {"complain"}, from # "complain",
         Goes(l, from, to)
  PROVE  /\ at' \in [Loggers -> Places] /\ next' \in [Loggers -> Steady]
         /\ Phase(l) = from /\ Phase(l)' = to /\ at[l] = from /\ at'[l] = to
         /\ \A k \in Loggers \ {l} : Phase(k)' = Phase(k) /\ at'[k] = at[k]
BY DEF Goes, TypeOK, Phase

LEMMA Failing ==
  ASSUME TypeOK, NEW l \in Loggers, NEW from, NEW to,
         to \in Steady, from # "complain",
         Fails(l, from, to)
  PROVE  /\ at' \in [Loggers -> Places] /\ next' \in [Loggers -> Steady]
         /\ Phase(l) = from /\ Phase(l)' = to /\ at[l] = from /\ at'[l] = "complain"
         /\ \A k \in Loggers \ {l} : Phase(k)' = Phase(k) /\ at'[k] = at[k]
BY DEF Fails, TypeOK, Phase, Places, Steady

LEMMA ReopenKeeps ==
  ASSUME TypeOK, NEW l \in Loggers, Own(l), Reopen(l), UNCHANGED faults
  PROVE  TypeOK' /\ Own(l)' /\ (\A k \in Loggers \ {l} : Same(k)) /\ Stays(l)
<1>1. UNCHANGED <<nth, written, count, out, crashes, faults>>
  BY DEF Reopen
<1>2. CASE Goes(l, "reopen", "write") /\ Open(l)
  <2>1. /\ at' \in [Loggers -> Places] /\ next' \in [Loggers -> Steady]
        /\ Phase(l) = "reopen" /\ Phase(l)' = "write"
        /\ \A k \in Loggers \ {l} : Phase(k)' = Phase(k)
    <3>1. "write" \in Places \ {"complain"}
      BY DEF Places
    <3> QED
      BY <1>2, <3>1, Going
  <2>2. /\ files' \in [Loggers -> [Numbers -> File]]
        /\ handle' \in [Loggers -> BOOLEAN]
        /\ size' \in [Loggers -> Nat]
        /\ \A k \in Loggers \ {l} : /\ files'[k] = files[k] /\ (handle'[k] <=> handle[k])
                                    /\ size'[k] = size[k]
        /\ handle'[l] /\ size'[l] = Total(files'[l][0]) /\ size'[l] = Total(files[l][0])
        /\ files'[l][0] = Content(files[l][0])
        /\ \A i \in Numbers \ {0} : files'[l][i] = files[l][i]
        /\ \A i \in Numbers : Total(files'[l][i]) = Total(files[l][i])
        /\ Stays(l)
    BY <1>2, Opened
  <2>3. TypeOK'
    BY <1>1, <2>1, <2>2 DEF TypeOK
  <2>4. \A k \in Loggers \ {l} : Same(k)
    BY <1>1, <2>1, <2>2 DEF Same
  <2>5. ~Shifting(l) /\ ~Shifting(l)'
    BY <2>1 DEF Shifting
  <2>6. Moved(l)' /\ InRange(l)' /\ Vacant(l)' /\ Latest(l)'
    BY <2>1, <2>5 DEF Moved, InRange, Vacant, Latest
  <2>7. Small(l)' /\ Known(l)'
    BY <1>1, <2>2 DEF Own, Small, Known, Renames, May
  <2>8. Counted(l)' /\ count[l] \in Lines
    BY <1>1, <2>1 DEF Own, Counted
  <2>9. Above(l)'
    <3>1. MaxFile + 1 \in Numbers \ {0}
      BY LogAssumption DEF Numbers
    <3> QED
      BY <2>2, <3>1 DEF Own, Above
  <2>10. Fits(l)'
    <3> SUFFICES ASSUME Renames(l)' PROVE size'[l] + LineSize(count'[l]) <= MaxSize
      BY <2>2 DEF Fits
    <3>1. files[l][0] = Missing
      BY <1>1, <2>1 DEF Own, Moved, Renames, May
    <3>2. size'[l] = 0
      BY <2>2, <3>1, TotalNone
    <3>3. LineSize(count[l]) \in 1 .. MaxSize /\ MaxSize \in Nat
      BY <2>8, LineSizes, LogAssumption
    <3> QED
      BY <1>1, <3>2, <3>3
  <2>11. Chain(l)' /\ Filled(l)'
    <3>1. \A i \in 1 .. MaxFile : i \in Numbers \ {0}
      BY LogAssumption DEF Numbers
    <3>2. \A i \in 1 .. MaxFile : files'[l][i] = files[l][i]
      BY <2>2, <3>1
    <3> QED
      BY <1>1, <2>2, <2>5, <3>2, PastStays DEF Stays
  <2>12. Ordered(l)'
    BY <1>1, <2>1, OrderStays DEF Pending
  <2> QED
    BY <2>2, <2>3, <2>4, <2>6, <2>7, <2>8, <2>9, <2>10, <2>11, <2>12 DEF Own
<1>3. CASE /\ Fails(l, "reopen", "unlock")
           /\ handle' = [handle EXCEPT ![l] = FALSE]
           /\ UNCHANGED <<files, size>>
  <2>1. /\ at' \in [Loggers -> Places] /\ next' \in [Loggers -> Steady]
        /\ Phase(l) = "reopen" /\ Phase(l)' = "unlock"
        /\ \A k \in Loggers \ {l} : Phase(k)' = Phase(k)
    <3>1. "unlock" \in Steady
      BY DEF Steady
    <3> QED
      BY <1>3, <3>1, Failing
  <2>2. UNCHANGED <<files, size>>
    BY <1>3
  <2>3. /\ handle' \in [Loggers -> BOOLEAN] /\ ~handle'[l]
        /\ \A k \in Loggers \ {l} : handle'[k] <=> handle[k]
    BY <1>3 DEF TypeOK
  <2>4. TypeOK'
    BY <1>1, <2>1, <2>2, <2>3 DEF TypeOK
  <2>5. \A k \in Loggers \ {l} : Same(k)
    BY <1>1, <2>1, <2>2, <2>3 DEF Same
  <2>6. ~Shifting(l) /\ ~Shifting(l)'
    BY <2>1 DEF Shifting
  <2>7. Fits(l)' /\ Moved(l)' /\ Latest(l)' /\ InRange(l)' /\ Vacant(l)' /\ Known(l)'
    BY <2>1, <2>3, <2>6 DEF Fits, Moved, Latest, InRange, Vacant, Known
  <2>8. Counted(l)' /\ Small(l)' /\ Above(l)'
    BY <1>1, <2>1, <2>2 DEF Own, Counted, Small, Above, Renames, May
  <2>9. Stays(l)
    BY <2>2, SameFiles
  <2>10. Chain(l)' /\ Filled(l)'
    BY <1>1, <2>2, <2>6, <2>9, PastStays DEF Stays
  <2>11. Ordered(l)'
    BY <1>1, <2>1, OrderStays DEF Pending
  <2> QED
    BY <2>4, <2>5, <2>7, <2>8, <2>9, <2>10, <2>11 DEF Own
<1> QED
  BY <1>2, <1>3 DEF Reopen

\* A later line, or what a failing write leaves of it, is added to what is kept,
\* or nothing is.
Adds(l) ==
    \/ Kept(l)' = Kept(l) /\ written'[l] = written[l]
    \/ \E e \in Entries : /\ \A i \in DOMAIN written[l] : written[l][i][1] < e[1]
                          /\ Lengthens(Kept(l), Kept(l)', e)
                          /\ written'[l] = Append(written[l], e)

LEMMA WriteKeeps ==
  ASSUME TypeOK, NEW l \in Loggers, Own(l), WriteLine(l), UNCHANGED faults
  PROVE  /\ TypeOK' /\ Own(l)' /\ Adds(l)
         /\ \A k \in Loggers \ {l} : Same(k)
         /\ written' = [written EXCEPT ![l] = written'[l]]
<1>0. "unlock" \in Steady /\ "unlock" \in Places \ {"complain"}
  BY DEF Steady, Places
<1>1. UNCHANGED <<handle, nth, count, out, crashes, faults>>
  BY DEF WriteLine
<1>2. Goes(l, "write", "unlock") \/ Fails(l, "write", "unlock")
  BY DEF WriteLine
<1>3. /\ at' \in [Loggers -> Places] /\ next' \in [Loggers -> Steady]
      /\ Phase(l) = "write" /\ Phase(l)' = "unlock"
      /\ \A k \in Loggers \ {l} : Phase(k)' = Phase(k)
  BY <1>0, <1>2, Going, Failing
<1>4. count[l] \in Lines /\ LineSize(count[l]) \in 1 .. MaxSize /\ MaxSize \in Nat
  BY <1>3, LineSizes, LogAssumption DEF Own, Counted
<1>5. PICK k \in 0 .. LineSize(count[l]) : Put(l, k)
  <2>1. LineSize(count[l]) \in 0 .. LineSize(count[l])
    BY <1>4
  <2>2. 0 .. LineSize(count[l]) - 1 \subseteq 0 .. LineSize(count[l])
    BY <1>4
  <2> QED
    BY <2>1, <2>2 DEF WriteLine
<1>6. ~Shifting(l) /\ ~Shifting(l)'
  BY <1>3 DEF Shifting
<1>7. Fits(l)' /\ Moved(l)' /\ Latest(l)' /\ InRange(l)' /\ Vacant(l)'
  BY <1>3, <1>6 DEF Fits, Moved, Latest, InRange, Vacant
<1>8. Counted(l)'
  BY <1>1, <1>4 DEF Counted
<1>9. \A i \in DOMAIN written[l] : written[l][i][1] < count[l]
  BY <1>3 DEF Own, Ordered, Pending
<1>10. CASE k # 0
  <2> DEFINE x == <<count[l], k>>
             f == files[l][0]
             e == Append(Content(f), x)
  <2>0. k \in 1 .. LineSize(count[l])
    BY <1>4, <1>10
  <2>1. x \in Entries /\ x[1] = count[l] /\ Bytes(x) = k
    BY <1>4, <2>0, EntryIs
  <2>2. /\ files' = [files EXCEPT ![l][0] = e]
        /\ size' = [size EXCEPT ![l] = @ + k]
        /\ written' = [written EXCEPT ![l] = Append(@, x)]
    BY <1>5, <1>10 DEF Put
  <2> HIDE DEF x
  <2>3. /\ 0 \in Numbers /\ f \in File /\ Content(f) \in Seq(Entries)
        /\ e \in Seq(Entries) /\ e \in File
    <3>1. 0 \in Numbers
      BY LogAssumption DEF Numbers
    <3>2. f \in File
      BY <3>1 DEF TypeOK
    <3>3. Content(f) \in Seq(Entries)
      BY <3>2, ContentSeq
    <3>4. e \in Seq(Entries)
      BY <2>1, <3>3
    <3> QED
      BY <3>1, <3>2, <3>3, <3>4 DEF File
  <2>4. files \in [Loggers -> [Numbers -> File]]
    BY DEF TypeOK
  <2> HIDE DEF e
  <2>5. /\ files' \in [Loggers -> [Numbers -> File]]
        /\ \A i \in Loggers \ {l} : files'[i] = files[i]
        /\ files'[l][0] = e
        /\ \A i \in Numbers \ {0} : files'[l][i] = files[l][i]
    BY <2>2, <2>3, <2>4
  <2>6. Total(e) = Total(f) + k /\ Total(f) \in Nat
    <3>1. Total(e) = Total(Content(f)) + Bytes(x)
      BY <2>1, <2>3, TotalAppend DEF e
    <3> QED
      BY <2>1, <2>3, <3>1, TotalContent
  <2>7. /\ size' \in [Loggers -> Nat] /\ size'[l] = size[l] + k
        /\ \A i \in Loggers \ {l} : size'[i] = size[i]
    BY <2>0, <2>2 DEF TypeOK
  <2>8. /\ written' \in [Loggers -> Seq(Entries)] /\ written'[l] = Append(written[l], x)
        /\ \A i \in Loggers \ {l} : written'[i] = written[i]
        /\ written' = [written EXCEPT ![l] = written'[l]]
    BY <2>1, <2>2 DEF TypeOK
  <2>9. Text(l)' = Append(Text(l), x) /\ Lengthens(Kept(l), Kept(l)', x)
    <3>1. files[l] \in [Numbers -> File] /\ files'[l] \in [Numbers -> File]
      BY <2>4, <2>5
    <3>2. files'[l][0] = Append(Content(files[l][0]), x)
      BY <2>5 DEF e
    <3>3. /\ Joined(Contents(files'[l])) = Append(Joined(Contents(files[l])), x)
          /\ Lengthens(Joined(Wraps(files[l])), Joined(Wraps(files'[l])), x)
      BY <2>1, <2>5, <3>1, <3>2, FilesAdd
    <3> QED
      BY <3>3, TextIs, TextNext
  <2>10. TypeOK'
    BY <1>1, <1>3, <2>5, <2>7, <2>8 DEF TypeOK
  <2>11. \A i \in Loggers \ {l} : Same(i)
    BY <1>1, <1>3, <2>5, <2>7, <2>8 DEF Same
  <2>12. handle[l] /\ size[l] = Total(f) /\ (Renames(l) => size[l] + LineSize(count[l]) <= MaxSize)
    BY <1>3 DEF Own, Fits, Known
  <2>13. Known(l)'
    BY <2>5, <2>6, <2>7, <2>12 DEF Known
  <2>14. Small(l)'
    <3> SUFFICES ASSUME Renames(l), NEW i \in Numbers PROVE Total(files'[l][i]) <= MaxSize
      BY <1>1 DEF Small, Renames, May
    <3>1. CASE i = 0
      BY <1>4, <2>0, <2>5, <2>6, <2>12, <3>1
    <3>2. CASE i # 0
      BY <2>5, <3>2 DEF Own, Small
    <3> QED
      BY <3>1, <3>2
  <2>15. Above(l)'
    <3>1. MaxFile + 1 \in Numbers \ {0}
      BY LogAssumption DEF Numbers
    <3> QED
      BY <2>5, <3>1 DEF Own, Above
  <2>16. Chain(l)' /\ Filled(l)'
    <3>1. \A i \in 1 .. MaxFile : i \in Numbers \ {0}
      BY LogAssumption DEF Numbers
    <3>2. \A i \in 1 .. MaxFile : files'[l][i] = files[l][i]
      BY <2>5, <3>1
    <3>3. Text(l)' # written'[l] => Text(l) # written[l]
      BY <2>8, <2>9
    <3> QED
      BY <1>1, <1>6, <3>2, <3>3, PastStays
  <2>17. Ordered(l)'
    <3>1. written[l] \in Seq(Entries) /\ count[l] \in Int /\ count'[l] = count[l]
      BY <1>1, <1>4 DEF TypeOK, Lines
    <3>2. \A i \in DOMAIN written[l] : written[l][i][1] \in Int
      BY <3>1, EntryBytes DEF Lines
    <3>3. ASSUME NEW i \in DOMAIN written'[l] PROVE written'[l][i][1] <= count[l]
      <4>1. CASE i \in DOMAIN written[l]
        BY <1>9, <2>8, <3>1, <3>2, <4>1
      <4>2. CASE i \notin DOMAIN written[l]
        <5>1. written'[l][i] = x
          BY <2>1, <2>8, <3>1, <4>2
        <5> QED
          BY <2>1, <3>1, <5>1
      <4> QED
        BY <4>1, <4>2
    <3> QED
      BY <1>3, <3>1, <3>3 DEF Ordered, Pending
  <2>18. Adds(l)
    BY <1>9, <2>1, <2>8, <2>9 DEF Adds
  <2> QED
    BY <1>7, <1>8, <2>8, <2>10, <2>11, <2>13, <2>14, <2>15, <2>16, <2>17, <2>18 DEF Own
<1>11. CASE k = 0
  <2>1. UNCHANGED <<files, size, written>>
    <3>1. files' = files /\ written' = written /\ size' = [size EXCEPT ![l] = @ + 0]
      BY <1>5, <1>11 DEF Put, disk
    <3>2. size' = size
      BY <3>1 DEF TypeOK
    <3> QED
      BY <3>1, <3>2
  <2>2. TypeOK'
    BY <1>1, <1>3, <2>1 DEF TypeOK
  <2>3. \A i \in Loggers \ {l} : Same(i)
    BY <1>1, <1>3, <2>1 DEF Same
  <2>4. Small(l)' /\ Above(l)' /\ Known(l)'
    BY <1>1, <1>3, <2>1 DEF Own, Small, Above, Known, Renames, May
  <2>5. Stays(l)
    BY <2>1, SameFiles
  <2>6. Chain(l)' /\ Filled(l)'
    BY <1>1, <1>6, <2>1, <2>5, PastStays DEF Stays
  <2>7. Adds(l) /\ written' = [written EXCEPT ![l] = written'[l]]
    BY <2>1, <2>5 DEF Adds, Stays, TypeOK
  <2>8. Ordered(l)'
    BY <1>1, <1>3, <2>1, OrderStays DEF Pending
  <2> QED
    BY <1>7, <1>8, <2>2, <2>3, <2>4, <2>6, <2>7, <2>8 DEF Own
<1> QED
  BY <1>10, <1>11

-----------------------------------------------------------------------------
(* Rotation. *)

\* Nothing that is kept is lost, or one file of it.
Drops(l) ==
    \/ Kept(l)' = Kept(l)
    \/ \E a : Less(Kept(l), Kept(l)', a) /\ (Renames(l) => a = 1)

LEMMA DropsOne ==
  ASSUME NEW l \in Loggers, NEW j \in 0 .. MaxFile,
         files[l][0] \notin {<<>>, Missing},
         Replaces(files[l], files'[l], j),
         Renames(l) => \/ j = MaxFile
                       \/ j = MaxFile - 1 /\ files[l][MaxFile + 1] = Missing
                       \/ files[l][j + 1] = Missing
  PROVE  Drops(l)
<1> DEFINE F == files[l]
           G == files'[l]
           r == Renames(l)
<1>1. /\ Content(F[0]) # <<>>
      /\ r => \/ j = MaxFile
              \/ j = MaxFile - 1 /\ F[MaxFile + 1] = Missing
              \/ Content(F[j + 1]) = <<>>
  BY DEF Content
<1>2. Replaces(F, G, j)
  OBVIOUS
<1>3. Kept(l) = Joined(Wraps(F)) /\ Kept(l)' = Joined(Wraps(G))
  BY TextIs, TextNext
<1> HIDE DEF F, G, r
<1>4. \/ Joined(Wraps(G)) = Joined(Wraps(F))
      \/ \E a : Less(Joined(Wraps(F)), Joined(Wraps(G)), a) /\ (r => a = 1)
  BY <1>1, <1>2, FilesLose
<1> QED
  BY <1>3, <1>4 DEF Drops, r

\* The file .j becomes .(j + 1).
LEMMA Moves ==
  ASSUME TypeOK, NEW l \in Loggers, NEW j \in 0 .. MaxFile, Move(l, j, j + 1)
  PROVE  /\ files' \in [Loggers -> [Numbers -> File]]
         /\ \A k \in Loggers \ {l} : files'[k] = files[k]
         /\ \A i \in Numbers \ {j, j + 1} : files'[l][i] = files[l][i]
         /\ files'[l][j] = Missing
         /\ files[l][j] = Missing => files' = files
         /\ files[l][j] # Missing => /\ files'[l][j + 1] = files[l][j]
                                     /\ Replaces(files[l], files'[l], j)
<1>1. j \in Numbers /\ j + 1 \in Numbers /\ j # j + 1 /\ Missing \in File
  BY LogAssumption DEF Numbers, File
<1>2. files \in [Loggers -> [Numbers -> File]]
  BY DEF TypeOK
<1>3. CASE files[l][j] = Missing
  <2>1. files' = files
    BY <1>3 DEF Move
  <2> QED
    BY <1>2, <1>3, <2>1
<1>4. CASE files[l][j] # Missing
  <2>1. files' = [files EXCEPT ![l][j + 1] = files[l][j], ![l][j] = Missing]
    BY <1>4 DEF Move
  <2>2. files[l][j] \in File
    BY <1>1, <1>2
  <2>3. /\ files' \in [Loggers -> [Numbers -> File]]
        /\ \A k \in Loggers \ {l} : files'[k] = files[k]
        /\ \A i \in Numbers \ {j, j + 1} : files'[l][i] = files[l][i]
        /\ files'[l][j] = Missing
        /\ files'[l][j + 1] = files[l][j]
    BY <1>1, <1>2, <2>1, <2>2
  <2>4. Replaces(files[l], files'[l], j)
    BY <1>2, <2>3 DEF Replaces
  <2> QED
    BY <1>4, <2>3, <2>4
<1> QED
  BY <1>3, <1>4

\* The hole in the history moves down, to the current file at last.
LEMMA PastMoves ==
  ASSUME TypeOK, NEW l \in Loggers, Own(l), UNCHANGED <<faults, crashes, written>>,
         NEW j \in 0 .. MaxFile, j # 0 => j + 1 <= MaxFile, j = 0 => files[l][0] # Missing,
         Shifting(l), Gap(l) = j + 1, Hole(l)' = j, Shifting(l)' => Gap(l)' = j,
         Move(l, j, j + 1)
  PROVE  Chain(l)' /\ Filled(l)'
<1> SUFFICES ASSUME Renames(l), crashes = 0 PROVE Chain(l)' /\ Filled(l)'
  BY DEF Chain, Filled, Renames, May
<1> DEFINE F == files[l]
           G == files'[l]
           Past == (1 .. MaxFile) \ {j + 1}
<1>1. /\ \A a, b \in Past : a < b /\ F[b] # Missing => F[a] # Missing
      /\ Text(l) # written[l] \/ F[j + 1] # Missing => \A a \in Past : F[a] # Missing
  BY DEF Own, Chain, Filled, Hole
<1>2. /\ \A i \in Numbers \ {j, j + 1} : G[i] = F[i]
      /\ G[j] = Missing
      /\ F[j] = Missing => files' = files
      /\ F[j] # Missing => G[j + 1] = F[j] /\ Replaces(F, G, j)
  BY Moves
<1>3. MaxFile \in Nat /\ \A i \in 1 .. MaxFile : i \in Numbers
  BY LogAssumption DEF Numbers
<1>4. CASE F[j] = Missing
  <2>1. j \in Past /\ j \in Nat /\ files' = files
    BY <1>2, <1>3, <1>4
  <2>2. Text(l) = written[l] /\ F[j + 1] = Missing
    BY <1>1, <1>4, <2>1
  <2>3. Text(l)' = written'[l]
    BY <1>1, <2>1, <2>2, SameFiles DEF Stays
  <2>4. Filled(l)'
    BY <1>4, <2>1, <2>3 DEF Filled
  <2>5. ASSUME NEW a \in (1 .. MaxFile) \ {j}, NEW b \in (1 .. MaxFile) \ {j},
               a < b, F[b] # Missing
        PROVE  F[a] # Missing
    <3>1. b # j + 1 /\ b \in Past
      BY <2>2, <2>5
    <3>2. ~(j < b)
      BY <1>1, <1>4, <2>1, <2>5, <3>1
    <3>3. a \in Past
      BY <2>1, <2>5, <3>2
    <3> QED
      BY <1>1, <2>5, <3>1, <3>3
  <2>6. Chain(l)'
    BY <2>1, <2>5 DEF Chain
  <2> QED
    BY <2>4, <2>6
<1>5. CASE F[j] # Missing
  <2>1. G[j + 1] # Missing
    BY <1>2, <1>5
  <2>2. \A a \in (1 .. MaxFile) \ {j, j + 1} : a \in Past /\ G[a] = F[a]
    BY <1>2, <1>3
  <2>3. ASSUME NEW a \in (1 .. MaxFile) \ {j}, NEW b \in (1 .. MaxFile) \ {j},
               a < b, G[b] # Missing
        PROVE  G[a] # Missing
    <3>1. CASE a = j + 1
      BY <2>1, <3>1
    <3>2. CASE a # j + 1 /\ b = j + 1
      <4>1. a < j /\ j \in Past /\ a \in Past /\ G[a] = F[a]
        BY <1>3, <2>2, <2>3, <3>2
      <4> QED
        BY <1>1, <1>5, <4>1
    <3>3. CASE a # j + 1 /\ b # j + 1
      <4>1. a \in Past /\ b \in Past /\ G[a] = F[a] /\ G[b] = F[b]
        BY <2>2, <2>3, <3>3
      <4> QED
        BY <1>1, <2>3, <4>1
    <3> QED
      BY <3>1, <3>2, <3>3
  <2>4. Chain(l)'
    BY <2>3 DEF Chain
  <2>5. ASSUME Text(l)' # written'[l] PROVE \A a \in Past : F[a] # Missing
    <3>1. CASE F[j + 1] # Missing
      BY <1>1, <3>1
    <3>2. CASE F[j + 1] = Missing
      <4>1. Replaces(F, G, j) /\ Content(F[j + 1]) = <<>>
        BY <1>2, <1>5, <3>2 DEF Content
      <4>2. Text(l) = Joined(Contents(F)) /\ Text(l)' = Joined(Contents(G))
        BY TextIs, TextNext
      <4> HIDE DEF F, G
      <4>3. Joined(Contents(G)) = Joined(Contents(F))
        BY <4>1, TextKept
      <4>4. Text(l) # written[l]
        BY <2>5, <4>2, <4>3
      <4> QED
        BY <1>1, <4>4
    <3> QED
      BY <3>1, <3>2
  <2>6. Shifting(l)' => files'[l][Gap(l)'] = Missing
    BY <1>2
  <2>7. ASSUME Text(l)' # written'[l], NEW a \in (1 .. MaxFile) \ {j} PROVE G[a] # Missing
    <3>1. CASE a = j + 1
      BY <2>1, <3>1
    <3>2. CASE a # j + 1
      BY <2>2, <2>5, <2>7, <3>2
    <3> QED
      BY <3>1, <3>2
  <2>8. Filled(l)'
    BY <2>6, <2>7 DEF Filled
  <2> QED
    BY <2>4, <2>8
<1> QED
  BY <1>4, <1>5

LEMMA AfterShifts == \A i \in Int : /\ AfterShift(i) \in {"shift", "rename"}
                                    /\ AfterShift(i) \in Steady
                                    /\ AfterShift(i) \in Places \ {"complain"}
                                    /\ AfterShift(i) = IF i >= 1 THEN "shift" ELSE "rename"
BY DEF AfterShift, Steady, Places

\* What every step of a rotation does to the loggers but for the files.
LEMMA Turns ==
  ASSUME TypeOK, NEW l \in Loggers, NEW from \in {"remove", "shift"}, NEW i \in Int,
         nth' = [nth EXCEPT ![l] = i],
         Goes(l, from, AfterShift(i)) \/ Fails(l, from, AfterShift(i))
  PROVE  /\ at' \in [Loggers -> Places] /\ next' \in [Loggers -> Steady]
         /\ nth' \in [Loggers -> Int]
         /\ Phase(l) = from /\ Phase(l)' = IF i >= 1 THEN "shift" ELSE "rename"
         /\ \A k \in Loggers \ {l} : Phase(k)' = Phase(k) /\ nth'[k] = nth[k]
         /\ nth'[l] = i /\ Shifting(l)' /\ Gap(l)' = IF i >= 1 THEN i + 1 ELSE 1
<1>1. /\ at' \in [Loggers -> Places] /\ next' \in [Loggers -> Steady]
      /\ Phase(l) = from /\ Phase(l)' = AfterShift(i)
      /\ \A k \in Loggers \ {l} : Phase(k)' = Phase(k)
  <2>1. from # "complain"
    OBVIOUS
  <2>2. AfterShift(i) \in Steady /\ AfterShift(i) \in Places \ {"complain"}
    BY AfterShifts
  <2>3. CASE Goes(l, from, AfterShift(i))
    BY <2>1, <2>2, <2>3, Going
  <2>4. CASE Fails(l, from, AfterShift(i))
    BY <2>1, <2>2, <2>4, Failing
  <2> QED
    BY <2>3, <2>4
<1>2. /\ nth' \in [Loggers -> Int] /\ nth'[l] = i
      /\ \A k \in Loggers \ {l} : nth'[k] = nth[k]
  BY DEF TypeOK
<1>3. Phase(l)' = IF i >= 1 THEN "shift" ELSE "rename"
  BY <1>1, AfterShifts
<1>4. Shifting(l)' /\ Gap(l)' = IF i >= 1 THEN i + 1 ELSE 1
  BY <1>2, <1>3 DEF Shifting, Gap
<1> QED
  BY <1>1, <1>2, <1>3, <1>4

LEMMA RemoveKeeps ==
  ASSUME TypeOK, NEW l \in Loggers, Own(l), RemoveOldest(l), UNCHANGED faults
  PROVE  TypeOK' /\ Own(l)' /\ (\A k \in Loggers \ {l} : Same(k)) /\ Drops(l)
<1> DEFINE F == files[l]
           G == files'[l]
<1>1. /\ UNCHANGED <<handle, size, written, count, out, crashes, faults>>
      /\ nth' = [nth EXCEPT ![l] = MaxFile - 1]
      /\ \/ Goes(l, "remove", AfterShift(MaxFile - 1))
         \/ Fails(l, "remove", AfterShift(MaxFile - 1))
  BY DEF RemoveOldest
<1>2. /\ at' \in [Loggers -> Places] /\ next' \in [Loggers -> Steady]
      /\ nth' \in [Loggers -> Int]
      /\ Phase(l) = "remove" /\ Phase(l)' = IF MaxFile - 1 >= 1 THEN "shift" ELSE "rename"
      /\ \A k \in Loggers \ {l} : Phase(k)' = Phase(k) /\ nth'[k] = nth[k]
      /\ nth'[l] = MaxFile - 1 /\ Shifting(l)'
      /\ Gap(l)' = IF MaxFile - 1 >= 1 THEN MaxFile ELSE 1
  <2>1. MaxFile - 1 \in Int /\ (MaxFile - 1) + 1 = MaxFile
    BY LogAssumption
  <2> HIDE DEF F, G
  <2> QED
    BY <1>1, <2>1, Turns
<1>3. 0 \in Numbers /\ MaxFile \in Numbers /\ MaxFile + 1 \in Numbers /\ MaxFile \in Nat
      /\ Missing \in File /\ \A i \in 1 .. MaxFile : i \in Numbers
  BY LogAssumption DEF Numbers, File
<1>4. files \in [Loggers -> [Numbers -> File]] /\ F[0] \notin {<<>>, Missing}
  BY <1>2 DEF TypeOK, Own, Latest
\* The oldest file of history is gone, or it was not there, or it stays.
<1>5. \/ files' = files /\ (MaxFile > 0 => F[MaxFile] # Missing)
      \/ MaxFile > 0 /\ files' = [files EXCEPT ![l][MaxFile] = Missing]
  BY <1>3 DEF RemoveOldest
<1>6. /\ files' \in [Loggers -> [Numbers -> File]]
      /\ \A k \in Loggers \ {l} : files'[k] = files[k]
      /\ \A i \in Numbers : i # MaxFile => G[i] = F[i]
      /\ G[0] = F[0]
      /\ G[MaxFile] \in {F[MaxFile], Missing}
      /\ MaxFile > 0 /\ F[MaxFile] # G[MaxFile] => G[MaxFile] = Missing
  BY <1>3, <1>4, <1>5
<1>7. TypeOK'
  BY <1>1, <1>2, <1>6 DEF TypeOK
<1>8. \A k \in Loggers \ {l} : Same(k)
  BY <1>1, <1>2, <1>6 DEF Same
<1>9. Counted(l)' /\ Fits(l)' /\ Moved(l)'
  BY <1>1, <1>2 DEF Own, Counted, Fits, Moved
<1>10. Known(l)' /\ Latest(l)'
  BY <1>1, <1>2, <1>4, <1>6 DEF Own, Known, Latest
<1>11. Small(l)'
  <2> SUFFICES ASSUME Renames(l), NEW i \in Numbers PROVE Total(G[i]) <= MaxSize
    BY <1>1 DEF Small, Renames, May
  <2>1. Total(F[i]) <= MaxSize
    BY DEF Own, Small
  <2>2. CASE G[i] = F[i]
    BY <2>1, <2>2
  <2>3. CASE G[i] = Missing
    BY <2>3, TotalNone, LogAssumption
  <2> QED
    BY <1>6, <2>2, <2>3
<1>12. InRange(l)'
  BY <1>2, <1>3 DEF InRange
<1>13. Above(l)'
  BY <1>3, <1>6 DEF Own, Above
<1>14. Vacant(l)'
  BY <1>2, <1>3 DEF Vacant
<1>15. Drops(l)
  <2>1. CASE files' = files
    BY <2>1, SameFiles DEF Drops, Stays
  <2>2. CASE MaxFile > 0 /\ files' = [files EXCEPT ![l][MaxFile] = Missing]
    <3> DEFINE j == MaxFile - 1
    <3>1. j \in 0 .. MaxFile /\ j + 1 = MaxFile /\ j \in Numbers
      BY <1>3, <2>2 DEF Numbers
    <3>2. F[MaxFile + 1] = Missing
      BY <2>2 DEF Own, Above
    <3>3. G[j + 1] = Missing /\ G[j] = F[j]
      BY <1>3, <1>4, <1>6, <2>2, <3>1
    <3>4. \A i \in Numbers \ {j, j + 1} : G[i] = F[i]
      BY <1>6, <3>1
    <3>5. Replaces(F, G, j)
      BY <1>4, <1>6, <3>3, <3>4 DEF Replaces
    <3>6. Renames(l) => j = MaxFile - 1 /\ files[l][MaxFile + 1] = Missing
      BY <3>2
    <3>7. Replaces(files[l], files'[l], j) /\ files[l][0] \notin {<<>>, Missing}
      BY <1>4, <3>5
    <3> HIDE DEF j, F, G
    <3> QED
      BY <3>1, <3>6, <3>7, DropsOne
  <2> QED
    BY <1>5, <2>1, <2>2
<1>16. ~Shifting(l) /\ Hole(l) = 0
  BY <1>2 DEF Shifting, Hole
<1>17. Chain(l)' /\ Filled(l)'
  <2> SUFFICES ASSUME Renames(l), crashes = 0, MaxFile > 0 PROVE Chain(l)' /\ Filled(l)'
    <3>1. ASSUME ~(MaxFile > 0) PROVE 1 .. MaxFile = {}
      BY <1>3, <3>1
    <3> QED
      BY <1>1, <3>1 DEF Chain, Filled, Renames, May
  <2>1. Gap(l)' = MaxFile /\ Hole(l)' = MaxFile
    BY <1>2, <1>3 DEF Hole
  <2>2. \A i \in (1 .. MaxFile) \ {MaxFile} :
            i \in (1 .. MaxFile) \ {0} /\ i < MaxFile /\ G[i] = F[i]
    BY <1>3, <1>6
  <2>3. /\ \A a, b \in (1 .. MaxFile) \ {0} : a < b /\ F[b] # Missing => F[a] # Missing
        /\ Text(l) # written[l] => \A a \in (1 .. MaxFile) \ {0} : F[a] # Missing
    BY <1>16 DEF Own, Chain, Filled
  <2>4. MaxFile \in (1 .. MaxFile) \ {0}
    BY <1>3
  <2>5. Chain(l)'
    BY <2>1, <2>2, <2>3 DEF Chain
  <2>6. CASE F[MaxFile] # Missing
    <3>1. \A a \in (1 .. MaxFile) \ {MaxFile} : G[a] # Missing
      BY <2>2, <2>3, <2>4, <2>6
    <3> QED
      BY <2>1, <2>5, <3>1 DEF Filled
  <2>7. CASE F[MaxFile] = Missing
    <3>1. Text(l) = written[l] /\ G[MaxFile] = Missing
      BY <1>6, <2>3, <2>4, <2>7
    <3>2. \A i \in Numbers : Content(G[i]) = Content(F[i])
      BY <1>6, <2>7, <3>1
    <3>3. Text(l) = Joined(Contents(F)) /\ Text(l)' = Joined(Contents(G))
      BY TextIs, TextNext
    <3> HIDE DEF F, G
    <3>4. Text(l)' = written'[l]
      BY <1>1, <3>1, <3>2, <3>3, SameContents
    <3> QED
      BY <2>1, <2>5, <3>1, <3>4 DEF Filled, G
  <2> QED
    BY <2>6, <2>7
<1>18. Ordered(l)'
  BY <1>1, <1>2, OrderStays DEF Pending
<1> QED
  BY <1>7, <1>8, <1>9, <1>10, <1>11, <1>12, <1>13, <1>14, <1>15, <1>17, <1>18 DEF Own

LEMMA ShiftKeeps ==
  ASSUME TypeOK, NEW l \in Loggers, Own(l), Shift(l), UNCHANGED faults
  PROVE  TypeOK' /\ Own(l)' /\ (\A k \in Loggers \ {l} : Same(k)) /\ Drops(l)
<1> DEFINE j == nth[l]
<1>1. /\ UNCHANGED <<handle, size, written, count, out, crashes, faults>>
      /\ nth' = [nth EXCEPT ![l] = j - 1]
      /\ at[l] = "shift" /\ Phase(l) = "shift"
  BY DEF Shift, Phase
<1>2. /\ j \in 1 .. MaxFile - 1 /\ j \in 0 .. MaxFile /\ j \in Int /\ j - 1 \in Int
      /\ (j - 1) + 1 = j /\ MaxFile \in Nat
      /\ j \in Numbers /\ j + 1 \in Numbers /\ 0 \in Numbers /\ MaxFile + 1 \in Numbers \ {j, j + 1}
      /\ 0 \notin {j, j + 1}
  BY <1>1, LogAssumption DEF Own, InRange, Numbers
<1>3. \/ Goes(l, "shift", AfterShift(j - 1)) /\ Move(l, j, j + 1)
      \/ May(l, "rename") /\ Fails(l, "shift", AfterShift(j - 1)) /\ files' = files
  BY DEF Shift
<1> HIDE DEF j
<1>4. /\ at' \in [Loggers -> Places] /\ next' \in [Loggers -> Steady]
      /\ nth' \in [Loggers -> Int]
      /\ Phase(l)' = IF j - 1 >= 1 THEN "shift" ELSE "rename"
      /\ \A k \in Loggers \ {l} : Phase(k)' = Phase(k) /\ nth'[k] = nth[k]
      /\ nth'[l] = j - 1 /\ Shifting(l)'
      /\ Gap(l)' = IF j - 1 >= 1 THEN (j - 1) + 1 ELSE 1
  BY <1>1, <1>2, <1>3, Turns
<1>5. Shifting(l) /\ Gap(l) = j + 1 /\ Gap(l)' = j /\ Hole(l)' = j
  BY <1>1, <1>2, <1>4 DEF Shifting, Gap, Hole, j
<1>6. files \in [Loggers -> [Numbers -> File]] /\ files[l][0] \notin {<<>>, Missing}
  BY <1>1 DEF TypeOK, Own, Latest
<1>7. Counted(l)' /\ Fits(l)' /\ Moved(l)'
  BY <1>1, <1>4 DEF Own, Counted, Fits, Moved
<1>8. InRange(l)'
  BY <1>2, <1>4 DEF InRange
<1>9. Ordered(l)'
  BY <1>1, <1>4, OrderStays DEF Pending
<1>10. CASE Move(l, j, j + 1)
  <2>1. /\ files' \in [Loggers -> [Numbers -> File]]
        /\ \A k \in Loggers \ {l} : files'[k] = files[k]
        /\ \A i \in Numbers \ {j, j + 1} : files'[l][i] = files[l][i]
        /\ files'[l][j] = Missing
        /\ files[l][j] = Missing => files' = files
        /\ files[l][j] # Missing => /\ files'[l][j + 1] = files[l][j]
                                    /\ Replaces(files[l], files'[l], j)
    BY <1>2, <1>10, Moves
  <2>2. TypeOK'
    BY <1>1, <1>4, <2>1 DEF TypeOK
  <2>3. \A k \in Loggers \ {l} : Same(k)
    BY <1>1, <1>4, <2>1 DEF Same
  <2>4. files'[l][0] = files[l][0] /\ files'[l][MaxFile + 1] = files[l][MaxFile + 1]
    BY <1>2, <2>1
  <2>5. Known(l)' /\ Latest(l)' /\ Above(l)'
    BY <1>1, <1>6, <2>4 DEF Own, Known, Latest, Above
  <2>6. Small(l)'
    <3> SUFFICES ASSUME Renames(l), NEW i \in Numbers PROVE Total(files'[l][i]) <= MaxSize
      BY <1>1 DEF Small, Renames, May
    <3>1. \A k \in Numbers : Total(files[l][k]) <= MaxSize
      BY DEF Own, Small
    <3>2. CASE files[l][j] = Missing
      BY <2>1, <3>1, <3>2
    <3>3. CASE files[l][j] # Missing /\ i = j + 1
      BY <1>2, <2>1, <3>1, <3>3
    <3>4. CASE i = j
      BY <2>1, <3>4, TotalNone, LogAssumption
    <3>5. CASE i \notin {j, j + 1}
      BY <2>1, <3>1, <3>5
    <3> QED
      BY <3>2, <3>3, <3>4, <3>5
  <2>7. Vacant(l)'
    BY <1>5, <2>1 DEF Vacant
  <2>8. Chain(l)' /\ Filled(l)'
    <3>1. j # 0 /\ j + 1 <= MaxFile
      BY <1>2
    <3> QED
      BY <1>1, <1>2, <1>5, <1>10, <3>1, PastMoves
  <2>9. Drops(l)
    <3>1. CASE files[l][j] = Missing
      BY <2>1, <3>1, SameFiles DEF Drops, Stays
    <3>2. CASE files[l][j] # Missing
      <4>1. Renames(l) => \/ j = MaxFile - 1 /\ files[l][MaxFile + 1] = Missing
                          \/ files[l][j + 1] = Missing
        <5>1. Renames(l) /\ j + 1 < MaxFile => files[l][j + 1] = Missing
          BY <1>5 DEF Own, Vacant
        <5>2. files[l][MaxFile + 1] = Missing
          BY <1>2 DEF Own, Above
        <5> QED
          BY <1>2, <5>1, <5>2
      <4>2. Replaces(files[l], files'[l], j)
        BY <2>1, <3>2
      <4> QED
        BY <1>2, <1>6, <4>1, <4>2, DropsOne
    <3> QED
      BY <3>1, <3>2
  <2> QED
    BY <1>7, <1>8, <1>9, <2>2, <2>3, <2>5, <2>6, <2>7, <2>8, <2>9 DEF Own
<1>11. CASE May(l, "rename") /\ files' = files
  <2>1. ~Renames(l) /\ ~Renames(l)'
    BY <1>1, <1>11 DEF Renames, May
  <2>2. TypeOK'
    BY <1>1, <1>4, <1>11 DEF TypeOK
  <2>3. \A k \in Loggers \ {l} : Same(k)
    BY <1>1, <1>4, <1>11 DEF Same
  <2>4. Known(l)' /\ Latest(l)' /\ Above(l)'
    BY <1>1, <1>6, <1>11 DEF Own, Known, Latest, Above
  <2>5. Small(l)' /\ Vacant(l)' /\ Chain(l)' /\ Filled(l)'
    BY <2>1 DEF Small, Vacant, Chain, Filled
  <2>6. Drops(l)
    BY <1>11, SameFiles DEF Drops, Stays
  <2> QED
    BY <1>7, <1>8, <1>9, <2>2, <2>3, <2>4, <2>5, <2>6 DEF Own
<1> QED
  BY <1>3, <1>10, <1>11

LEMMA RenameKeeps ==
  ASSUME TypeOK, NEW l \in Loggers, Own(l), RenameCurrent(l), UNCHANGED faults
  PROVE  TypeOK' /\ Own(l)' /\ (\A k \in Loggers \ {l} : Same(k)) /\ Drops(l)
<1>1. UNCHANGED <<handle, size, nth, written, count, out, crashes, faults>>
  BY DEF RenameCurrent, mem
<1>2. \/ Goes(l, "rename", "reopen") /\ Move(l, 0, 1)
      \/ May(l, "rename") /\ Fails(l, "rename", "reopen") /\ files' = files
  BY DEF RenameCurrent
<1>3. /\ at' \in [Loggers -> Places] /\ next' \in [Loggers -> Steady]
      /\ Phase(l) = "rename" /\ Phase(l)' = "reopen"
      /\ \A k \in Loggers \ {l} : Phase(k)' = Phase(k)
  <2>1. "reopen" \in Steady /\ "reopen" \in Places \ {"complain"}
    BY DEF Steady, Places
  <2> QED
    BY <1>2, <2>1, Going, Failing
<1>4. /\ 0 \in 0 .. MaxFile /\ MaxFile \in Nat /\ 0 + 1 = 1
      /\ 0 \in Numbers /\ 1 \in Numbers /\ MaxFile + 1 \in Numbers
      /\ MaxFile > 0 => MaxFile + 1 \in Numbers \ {0, 1}
  BY LogAssumption DEF Numbers
<1>5. Shifting(l) /\ Gap(l) = 1 /\ Hole(l) = 1 /\ ~Shifting(l)' /\ Hole(l)' = 0
  BY <1>3 DEF Shifting, Gap, Hole
<1>6. files \in [Loggers -> [Numbers -> File]] /\ files[l][0] \notin {<<>>, Missing}
  BY <1>3 DEF TypeOK, Own, Latest
<1>7. Counted(l)' /\ Fits(l)' /\ Known(l)' /\ Latest(l)' /\ InRange(l)' /\ Vacant(l)'
  BY <1>1, <1>3, <1>5 DEF Own, Counted, Fits, Known, Latest, InRange, Vacant
<1>8. Ordered(l)'
  BY <1>1, <1>3, OrderStays DEF Pending
<1>9. CASE Move(l, 0, 1)
  <2>0. Move(l, 0, 0 + 1)
    BY <1>4, <1>9
  <2>1. /\ files' \in [Loggers -> [Numbers -> File]]
        /\ \A k \in Loggers \ {l} : files'[k] = files[k]
        /\ \A i \in Numbers \ {0, 0 + 1} : files'[l][i] = files[l][i]
        /\ files'[l][0] = Missing
        /\ files[l][0] # Missing => /\ files'[l][0 + 1] = files[l][0]
                                    /\ Replaces(files[l], files'[l], 0)
    BY <1>4, <2>0, Moves
  <2>2. TypeOK'
    BY <1>1, <1>3, <2>1 DEF TypeOK
  <2>3. \A k \in Loggers \ {l} : Same(k)
    BY <1>1, <1>3, <2>1 DEF Same
  <2>4. Moved(l)' /\ Above(l)'
    BY <1>4, <2>1 DEF Own, Moved, Above
  <2>5. Small(l)'
    <3> SUFFICES ASSUME Renames(l), NEW i \in Numbers PROVE Total(files'[l][i]) <= MaxSize
      BY <1>1 DEF Small, Renames, May
    <3>1. \A k \in Numbers : Total(files[l][k]) <= MaxSize
      BY DEF Own, Small
    <3>2. CASE i = 0
      BY <2>1, <3>2, TotalNone, LogAssumption
    <3>3. CASE i = 1
      BY <1>4, <1>6, <2>1, <3>1, <3>3
    <3>4. CASE i \notin {0, 1}
      BY <1>4, <2>1, <3>1, <3>4
    <3> QED
      BY <3>2, <3>3, <3>4
  <2>6. Chain(l)' /\ Filled(l)'
    BY <1>1, <1>4, <1>5, <1>6, <2>0, PastMoves
  <2>7. Drops(l)
    <3>1. Renames(l) => \/ 0 = MaxFile
                        \/ 0 = MaxFile - 1 /\ files[l][MaxFile + 1] = Missing
                        \/ files[l][0 + 1] = Missing
      <4>1. Renames(l) /\ 1 < MaxFile => files[l][1] = Missing
        BY <1>5 DEF Own, Vacant
      <4>2. MaxFile > 0 => files[l][MaxFile + 1] = Missing
        BY DEF Own, Above
      <4> QED
        BY <1>4, <4>1, <4>2
    <3>2. Replaces(files[l], files'[l], 0)
      BY <1>6, <2>1
    <3> QED
      BY <1>4, <1>6, <3>1, <3>2, DropsOne
  <2> QED
    BY <1>7, <1>8, <2>2, <2>3, <2>4, <2>5, <2>6, <2>7 DEF Own
<1>10. CASE May(l, "rename") /\ files' = files
  <2>1. ~Renames(l) /\ ~Renames(l)'
    BY <1>1, <1>10 DEF Renames, May
  <2>2. TypeOK'
    BY <1>1, <1>3, <1>10 DEF TypeOK
  <2>3. \A k \in Loggers \ {l} : Same(k)
    BY <1>1, <1>3, <1>10 DEF Same
  <2>4. Above(l)'
    BY <1>10 DEF Own, Above
  <2>5. Small(l)' /\ Moved(l)' /\ Chain(l)' /\ Filled(l)'
    BY <2>1 DEF Small, Moved, Chain, Filled
  <2>6. Drops(l)
    BY <1>10, SameFiles DEF Drops, Stays
  <2> QED
    BY <1>7, <1>8, <2>2, <2>3, <2>4, <2>5, <2>6 DEF Own
<1> QED
  BY <1>2, <1>9, <1>10

-----------------------------------------------------------------------------
(* The invariant holds at first, and every step keeps it. *)

LEMMA FlattenNone ==
  ASSUME NEW S, NEW n \in Nat \ {0}, NEW s \in [1 .. n -> Seq(S)], \A i \in 1 .. n : s[i] = <<>>
  PROVE  FlattenSeq(s) = <<>>
<1>1. PICK g : Flat(g, s, n) /\ FlattenSeq(s) = g[n]
  BY FlattenIs
<1> DEFINE I(i) == i \in 1 .. n => g[i] = <<>>
           P == {i \in Nat : I(i)}
<1>2. ASSUME NEW i \in Nat, I(i) PROVE I(i + 1)
  <2> SUFFICES ASSUME i + 1 \in 1 .. n PROVE g[i + 1] = <<>>
    OBVIOUS
  <2>1. s[i + 1] = <<>>
    OBVIOUS
  <2>2. CASE i = 0
    BY <1>1, <2>1, <2>2 DEF Flat
  <2>3. CASE i # 0
    <3>1. i \in 1 .. n /\ i + 1 # 1 /\ (i + 1) - 1 = i
      BY <2>3
    <3>2. g[i + 1] = g[i] \o s[i + 1] /\ g[i] = <<>>
      BY <1>1, <1>2, <3>1 DEF Flat
    <3>3. <<>> \o <<>> = <<>>
      OBVIOUS
    <3> QED
      BY <2>1, <3>2, <3>3
  <2> QED
    BY <2>2, <2>3
<1>3. I(0)
  OBVIOUS
<1> HIDE DEF I
<1>4. Nat \subseteq P
  <2>1. 0 \in P
    BY <1>3
  <2>2. \A i \in Nat : i \in P => i + 1 \in P
    BY <1>2
  <2> HIDE DEF P
  <2> QED
    BY <2>1, <2>2, Induct
<1>5. I(n) /\ n \in 1 .. n
  BY <1>4
<1> QED
  BY <1>1, <1>5 DEF I

LEMMA JoinedNone ==
  ASSUME NEW S, NEW B \in [Numbers -> Seq(S)], \A i \in Numbers : B[i] = <<>>
  PROVE  Joined(B) = <<>>
<1> DEFINE n == MaxFile + 2
<1>1. n \in Nat \ {0} /\ \A i \in 1 .. n : MaxFile + 2 - i \in Numbers
  BY LogAssumption DEF Numbers
<1>2. Blocks(B) \in [1 .. n -> Seq(S)] /\ \A i \in 1 .. n : Blocks(B)[i] = <<>>
  BY <1>1, BlocksType DEF Blocks
<1> HIDE DEF n
<1>3. FlattenSeq(Blocks(B)) = <<>>
  BY <1>1, <1>2, FlattenNone
<1> QED
  BY <1>3, JoinedIs

LEMMA Initially == Init => EInv /\ (\A l \in Loggers : Kept(l) = <<>> /\ Text(l) = <<>>)
<1> SUFFICES ASSUME Init PROVE EInv /\ (\A l \in Loggers : Kept(l) = <<>> /\ Text(l) = <<>>)
  OBVIOUS
<1>1. 0 \in Numbers /\ MaxFile \in Nat /\ MaxFile + 1 \in Numbers /\ MaxSize \in Nat
      /\ \A i \in 1 .. MaxFile : i \in Numbers \ {0}
  BY LogAssumption DEF Numbers
<1>2. <<>> \in Seq(Entries) /\ <<>> \in File /\ Missing \in File /\ Missing # <<>>
  <2>1. <<>> \in Seq(Entries)
    OBVIOUS
  <2> QED
    BY <2>1, LogAssumption DEF File
<1>3. \A l \in Loggers, i \in Numbers : files[l][i] = IF i = 0 THEN <<>> ELSE Missing
  BY DEF Init
<1>4. TypeOK
  <2>1. files \in [Loggers -> [Numbers -> File]]
    BY <1>2 DEF Init
  <2>2. 0 \in 0 .. MaxCount
    BY LogAssumption
  <2>3. /\ handle \in [Loggers -> BOOLEAN] /\ size \in [Loggers -> Nat]
        /\ at \in [Loggers -> Places] /\ next \in [Loggers -> Steady]
        /\ nth \in [Loggers -> Int] /\ count \in [Loggers -> 0 .. MaxCount]
        /\ written \in [Loggers -> Seq(Entries)] /\ crashes \in Nat
    BY <1>2, <2>2 DEF Init, Places, Steady
  <2> QED
    BY <2>1, <2>3 DEF TypeOK
<1>5. Holding
  BY LogAssumption DEF Init, Holding
<1>6. ASSUME NEW l \in Loggers PROVE Kept(l) = <<>> /\ Text(l) = <<>>
  <2>1. files[l] \in [Numbers -> File]
    BY <1>4 DEF TypeOK
  <2>2. \A i \in Numbers : Content(files[l][i]) = <<>> /\ Wrap(files[l][i]) = <<>>
    BY <1>2, <1>3 DEF Content, Wrap
  <2>3. \A i \in Numbers : Contents(files[l])[i] = <<>> /\ Wraps(files[l])[i] = <<>>
    BY <2>2 DEF Contents, Wraps
  <2>4. /\ Contents(files[l]) \in [Numbers -> Seq(Entries)]
        /\ Wraps(files[l]) \in [Numbers -> Seq(Seq(Entries))]
    BY <2>1, ContentsType
  <2> QED
    BY <2>3, <2>4, JoinedNone, TextIs
<1>7. ASSUME NEW l \in Loggers PROVE Own(l)
  <2>1. Phase(l) = "free" /\ handle[l] /\ size[l] = 0 /\ written[l] = <<>>
    BY DEF Init, Phase
  <2>2. ~Shifting(l)
    BY <2>1 DEF Shifting
  <2>3. Counted(l) /\ Fits(l) /\ Moved(l) /\ Latest(l) /\ InRange(l) /\ Vacant(l)
    BY <2>1, <2>2 DEF Counted, Fits, Moved, Latest, InRange, Vacant
  <2>4. Known(l)
    BY <1>1, <1>3, <2>1, TotalNone DEF Known
  <2>5. Small(l)
    BY <1>1, <1>3, TotalNone DEF Small
  <2>6. Above(l)
    BY <1>1, <1>3 DEF Above
  <2>7. Chain(l)
    BY <1>1, <1>3 DEF Chain
  <2>8. Filled(l)
    BY <1>6, <2>1, <2>2 DEF Filled
  <2>9. Ordered(l)
    BY <2>1 DEF Ordered
  <2> QED
    BY <2>3, <2>4, <2>5, <2>6, <2>7, <2>8, <2>9 DEF Own
<1> QED
  BY <1>4, <1>5, <1>6, <1>7 DEF EInv

\* A crash loses what the process knew, and nothing of the files.
LEMMA RestartKeeps ==
  ASSUME EInv, Restart, UNCHANGED faults
  PROVE  EInv' /\ UNCHANGED written /\ \A l \in Loggers : Stays(l)
<1>1. /\ UNCHANGED <<next, nth, count, written, faults>> /\ crashes' = crashes + 1 /\ out' = Nobody
      /\ TypeOK
  BY DEF Restart, EInv
<1>2. 0 \in Numbers /\ MaxFile \in Nat /\ (MaxFile > 0 => MaxFile + 1 \in Numbers \ {0})
  BY LogAssumption DEF Numbers
<1>3. files \in [Loggers -> [Numbers -> File]]
      /\ \A l \in Loggers : Content(files[l][0]) \in Seq(Entries) /\ Content(files[l][0]) \in File
  <2>1. files \in [Loggers -> [Numbers -> File]]
    BY <1>1 DEF TypeOK
  <2> QED
    BY <1>2, <2>1, ContentSeq DEF File
<1>4. files' = [l \in Loggers |-> [files[l] EXCEPT ![0] = Content(files[l][0])]]
  BY DEF Restart, OpenedFile
<1>5. /\ files' \in [Loggers -> [Numbers -> File]]
      /\ \A l \in Loggers : /\ files'[l][0] = Content(files[l][0])
                            /\ \A i \in Numbers \ {0} : files'[l][i] = files[l][i]
  BY <1>2, <1>3, <1>4
<1>6. \A l \in Loggers, i \in Numbers : Total(files'[l][i]) = Total(files[l][i])
                                        /\ Total(files[l][i]) \in Nat
  BY <1>2, <1>3, <1>5, TotalContent
<1>7. \A l \in Loggers : /\ handle'[l] /\ size'[l] = Total(files'[l][0])
                         /\ at'[l] = "free" /\ Phase(l)' = "free"
  BY DEF Restart, Phase
<1>8. TypeOK'
  <2>1. /\ handle' \in [Loggers -> BOOLEAN] /\ at' \in [Loggers -> Places]
    BY DEF Restart, Places
  <2>2. size' \in [Loggers -> Nat]
    BY <1>2, <1>6 DEF Restart
  <2>3. crashes' \in Nat
    BY <1>1 DEF TypeOK
  <2> QED
    BY <1>1, <1>5, <2>1, <2>2, <2>3 DEF TypeOK
<1>9. Holding'
  BY <1>1, <1>7, LogAssumption DEF Holding
<1>10. ASSUME NEW l \in Loggers PROVE Stays(l)
  <2>1. \A i \in Numbers : Content(files'[l][i]) = Content(files[l][i])
    BY <1>2, <1>3, <1>5, LogAssumption DEF Content
  <2>2. Contents(files'[l]) = Contents(files[l]) /\ Wraps(files'[l]) = Wraps(files[l])
    BY <2>1, SameContents
  <2> QED
    BY <2>2, TextIs, TextNext DEF Stays
<1>11. ASSUME NEW l \in Loggers PROVE Own(l)'
  <2>0. Own(l)
    BY DEF EInv
  <2>1. ~Shifting(l)' /\ Phase(l)' = "free" /\ crashes' # 0
    BY <1>1, <1>7 DEF Shifting, TypeOK
  <2>2. Counted(l)' /\ Fits(l)' /\ Moved(l)' /\ Latest(l)' /\ InRange(l)' /\ Vacant(l)'
    BY <2>1 DEF Counted, Fits, Moved, Latest, InRange, Vacant
  <2>3. Known(l)' /\ Small(l)'
    BY <1>1, <1>6, <1>7, <2>0 DEF Own, Known, Small, Renames, May
  <2>4. Above(l)'
    BY <1>2, <1>5, <2>0 DEF Own, Above
  <2>5. Chain(l)' /\ Filled(l)'
    BY <2>1 DEF Chain, Filled
  <2>6. Ordered(l)'
    BY <1>1, <1>7, <2>0, OrderStays DEF Pending
  <2> QED
    BY <2>2, <2>3, <2>4, <2>5, <2>6 DEF Own
<1> QED
  BY <1>1, <1>8, <1>9, <1>10, <1>11 DEF EInv

\* What a step does to what is kept: nothing, or one logger adds a line or drops
\* a file.
Rolls ==
    \/ UNCHANGED written /\ \A k \in Loggers : Kept(k)' = Kept(k)
    \/ \E l \in Loggers : /\ \A k \in Loggers \ {l} : Kept(k)' = Kept(k)
                          /\ written' = [written EXCEPT ![l] = written'[l]]
                          /\ Adds(l)
    \/ \E l \in Loggers : /\ \A k \in Loggers \ {l} : Kept(k)' = Kept(k)
                          /\ UNCHANGED written
                          /\ Drops(l)

LEMMA SameKept ==
  ASSUME NEW k \in Loggers, Same(k)
  PROVE  Kept(k)' = Kept(k)
BY SameFiles DEF Same, Stays

\* The places between taking the mutex and giving it back.
LEMMA HoldingStays ==
  ASSUME Holding, NEW l \in Loggers, at[l] \notin {"free", "complain"}, UNCHANGED out,
         \A k \in Loggers \ {l} : at'[k] = at[k]
  PROVE  Holding'
<1>1. out = Nobody => l # Std
  BY DEF Holding
<1>2. out \in Loggers => out # l
  BY DEF Holding
<1> QED
  BY <1>1, <1>2, LogAssumption DEF Holding

LEMMA Together ==
  ASSUME EInv, UNCHANGED <<faults, crashes>>, TypeOK', Holding',
         NEW l \in Loggers, Own(l)', \A k \in Loggers \ {l} : Same(k)
  PROVE  EInv' /\ \A k \in Loggers \ {l} : Kept(k)' = Kept(k)
<1>1. \A k \in Loggers \ {l} : Own(k)'
  BY Others DEF EInv
<1>2. \A k \in Loggers \ {l} : Kept(k)' = Kept(k)
  BY SameKept
<1> QED
  BY <1>1, <1>2 DEF EInv

LEMMA StepKeeps ==
  ASSUME EInv, NEW l \in Loggers, Step(l)
  PROVE  EInv' /\ Rolls
<1>1. TypeOK /\ Holding /\ Own(l) /\ UNCHANGED faults
  BY DEF EInv, Step
<1>2. CASE Complain(l)
  <2>1. /\ at[l] = "complain" /\ out = Nobody /\ count[Std] < MaxCount /\ out' = l
        /\ at' = [at EXCEPT ![Std] = "append"] /\ count' = [count EXCEPT ![Std] = @ + 1]
        /\ UNCHANGED <<disk, mem, next, crashes>>
    BY <1>2 DEF Complain
  <2>2. Std \in Loggers /\ Own(Std) /\ at[Std] = "free" /\ l # Std /\ l # Nobody
    BY <1>1, <2>1, LogAssumption DEF EInv, Holding
  <2>3. TypeOK' /\ Own(Std)' /\ (\A k \in Loggers \ {Std} : Same(k)) /\ UNCHANGED files
    BY <1>1, <2>1, <2>2, Begins
  <2>4. Holding'
    BY <1>1, <2>1, <2>2 DEF Holding, TypeOK
  <2>5. EInv'
    BY <1>1, <2>1, <2>2, <2>3, <2>4, Together
  <2>6. UNCHANGED written /\ \A k \in Loggers : Kept(k)' = Kept(k)
    BY <2>1, <2>3, SameFiles DEF disk, Stays
  <2> QED
    BY <2>5, <2>6 DEF Rolls
<1>3. CASE Unlock(l)
  <2>1. TypeOK' /\ Own(l)' /\ (\A k \in Loggers \ {l} : Same(k)) /\ UNCHANGED files
    BY <1>1, <1>3, UnlockKeeps
  <2>2. /\ at[l] = "unlock" /\ UNCHANGED <<written, crashes>>
        /\ at' = [k \in Loggers |-> IF k = l THEN "free"
                                    ELSE IF l = Std /\ k = out THEN next[k] ELSE at[k]]
        /\ out' = IF l = Std THEN Nobody ELSE out
    BY <1>3 DEF Unlock, disk
  <2>3. Holding'
    <3>1. CASE l = Std
      BY <2>2, <3>1, LogAssumption DEF Holding
    <3>2. CASE l # Std
      <4>1. UNCHANGED out /\ \A k \in Loggers \ {l} : at'[k] = at[k]
        BY <2>2, <3>2
      <4>2. at[l] \notin {"free", "complain"}
        BY <2>2
      <4> QED
        BY <1>1, <4>1, <4>2, HoldingStays
    <3> QED
      BY <3>1, <3>2
  <2>4. EInv'
    BY <1>1, <2>1, <2>2, <2>3, Together
  <2>5. UNCHANGED written /\ \A k \in Loggers : Kept(k)' = Kept(k)
    BY <2>1, <2>2, SameFiles DEF Stays
  <2> QED
    BY <2>4, <2>5 DEF Rolls
\* The other steps change the place of one logger.
<1>4. ASSUME \/ AppendLine(l) \/ RemoveOldest(l) \/ Shift(l) \/ RenameCurrent(l)
             \/ Reopen(l) \/ WriteLine(l)
      PROVE  Holding' /\ UNCHANGED crashes
  <2>1. /\ at[l] \notin {"free", "complain"} /\ UNCHANGED <<out, crashes>>
        /\ \A k \in Loggers \ {l} : at'[k] = at[k]
    <3>1. CASE AppendLine(l)
      BY <1>1, <3>1 DEF AppendLine, Goes, TypeOK
    <3>2. CASE RemoveOldest(l)
      BY <1>1, <3>2 DEF RemoveOldest, Goes, Fails, TypeOK
    <3>3. CASE Shift(l)
      BY <1>1, <3>3 DEF Shift, Goes, Fails, TypeOK
    <3>4. CASE RenameCurrent(l)
      BY <1>1, <3>4 DEF RenameCurrent, Goes, Fails, TypeOK
    <3>5. CASE Reopen(l)
      BY <1>1, <3>5 DEF Reopen, Goes, Fails, TypeOK
    <3>6. CASE WriteLine(l)
      BY <1>1, <3>6 DEF WriteLine, Goes, Fails, TypeOK
    <3> QED
      BY <1>4, <3>1, <3>2, <3>3, <3>4, <3>5, <3>6
  <2> QED
    BY <1>1, <2>1, HoldingStays
<1>5. CASE AppendLine(l) \/ Reopen(l)
  <2>1. TypeOK' /\ Own(l)' /\ (\A k \in Loggers \ {l} : Same(k)) /\ Stays(l)
    BY <1>1, <1>5, AppendKeeps, ReopenKeeps
  <2>2. Holding' /\ UNCHANGED crashes /\ UNCHANGED written
    BY <1>4, <1>5 DEF AppendLine, Reopen
  <2>3. EInv' /\ \A k \in Loggers \ {l} : Kept(k)' = Kept(k)
    BY <1>1, <2>1, <2>2, Together
  <2> QED
    BY <2>1, <2>2, <2>3 DEF Rolls, Stays
<1>6. CASE RemoveOldest(l) \/ Shift(l) \/ RenameCurrent(l)
  <2>1. TypeOK' /\ Own(l)' /\ (\A k \in Loggers \ {l} : Same(k)) /\ Drops(l)
    BY <1>1, <1>6, RemoveKeeps, ShiftKeeps, RenameKeeps
  <2>2. Holding' /\ UNCHANGED crashes /\ UNCHANGED written
    BY <1>4, <1>6 DEF RemoveOldest, Shift, RenameCurrent
  <2>3. EInv' /\ \A k \in Loggers \ {l} : Kept(k)' = Kept(k)
    BY <1>1, <2>1, <2>2, Together
  <2> QED
    BY <2>1, <2>2, <2>3 DEF Rolls
<1>7. CASE WriteLine(l)
  <2>1. /\ TypeOK' /\ Own(l)' /\ Adds(l) /\ \A k \in Loggers \ {l} : Same(k)
        /\ written' = [written EXCEPT ![l] = written'[l]]
    BY <1>1, <1>7, WriteKeeps
  <2>2. Holding' /\ UNCHANGED crashes
    BY <1>4, <1>7
  <2>3. EInv' /\ \A k \in Loggers \ {l} : Kept(k)' = Kept(k)
    BY <1>1, <2>1, <2>2, Together
  <2> QED
    BY <2>1, <2>3 DEF Rolls
<1> QED
  BY <1>2, <1>3, <1>5, <1>6, <1>7 DEF Step

LEMMA NextKeeps ==
  ASSUME EInv, [Next]_vars
  PROVE  EInv' /\ Rolls /\ UNCHANGED faults
<1>1. ASSUME NEW l \in Loggers, Log(l), UNCHANGED faults PROVE EInv' /\ Rolls
  <2>1. /\ count[l] < MaxLines[l] /\ (l = Std => out = Nobody) /\ at[l] = "free"
        /\ at' = [at EXCEPT ![l] = "append"] /\ count' = [count EXCEPT ![l] = @ + 1]
        /\ out' = (IF l = Std THEN App ELSE out)
        /\ UNCHANGED <<disk, mem, next, crashes>>
    BY <1>1 DEF Log, Goes
  <2>2. TypeOK /\ Holding /\ Own(l)
    BY DEF EInv
  <2>3. count[l] < MaxCount
    BY <2>1, <2>2, LogAssumption DEF TypeOK
  <2>4. TypeOK' /\ Own(l)' /\ (\A k \in Loggers \ {l} : Same(k)) /\ UNCHANGED files
    BY <1>1, <2>1, <2>2, <2>3, Begins
  <2>5. Holding'
    <3>1. CASE l = Std
      BY <2>1, <3>1, LogAssumption DEF Holding
    <3>2. CASE l # Std
      BY <2>1, <2>2, <3>2, LogAssumption DEF Holding, TypeOK
    <3> QED
      BY <3>1, <3>2
  <2>6. EInv'
    BY <1>1, <2>1, <2>4, <2>5, Together
  <2>7. UNCHANGED written /\ \A k \in Loggers : Kept(k)' = Kept(k)
    BY <2>1, <2>4, SameFiles DEF disk, Stays
  <2> QED
    BY <2>6, <2>7 DEF Rolls
<1>2. ASSUME NEW l \in Loggers, Step(l) PROVE EInv' /\ Rolls /\ UNCHANGED faults
  BY <1>2, StepKeeps DEF Step
<1>3. ASSUME Restart, UNCHANGED faults PROVE EInv' /\ Rolls
  BY <1>3, RestartKeeps DEF Rolls, Stays
<1>4. CASE UNCHANGED vars
  <2>1. /\ files' = files /\ handle' = handle /\ size' = size /\ at' = at /\ next' = next
        /\ nth' = nth /\ count' = count /\ written' = written /\ out' = out
        /\ UNCHANGED <<crashes, faults>>
    BY <1>4 DEF vars
  <2>2. \A k \in Loggers : Same(k)
    BY <2>1 DEF Same, Phase
  <2>3. \A k \in Loggers : Own(k)'
    BY <2>1, <2>2, Others DEF EInv
  <2>4. TypeOK' /\ Holding'
    BY <2>1 DEF EInv, TypeOK, Holding
  <2>5. \A k \in Loggers : Kept(k)' = Kept(k)
    BY <2>2, SameKept
  <2> QED
    BY <2>1, <2>3, <2>4, <2>5 DEF EInv, Rolls
<1> QED
  BY <1>1, <1>2, <1>3, <1>4 DEF Next

-----------------------------------------------------------------------------
LEMMA Invariance == Spec => []EInv
<1>1. Init => EInv
  BY Initially
<1>2. EInv /\ [Next]_vars => EInv'
  BY NextKeeps
<1> QED
  BY <1>1, <1>2, PTL DEF Spec

\* No line is lost before log_max_files files of history are there, unless a
\* crash or a failed renaming left a hole among them: rotate removes the oldest
\* file and renames the others from the oldest down.
THEOREM HistoryCorrect == Spec => []HistoryFull
<1>1. EInv => HistoryFull
  <2> SUFFICES ASSUME EInv, NEW l \in Loggers, Renames(l), at[l] = "free", crashes = 0,
                      Text(l) # written[l], NEW i \in 1 .. MaxFile
               PROVE  files[l][i] # Missing
    BY DEF HistoryFull
  <2>1. Hole(l) = 0 /\ i \in (1 .. MaxFile) \ {0}
    BY LogAssumption DEF Hole, Shifting, Phase
  <2>2. Filled(l)
    BY DEF EInv, Own
  <2> QED
    BY <2>1, <2>2 DEF Filled
<1> QED
  BY <1>1, Invariance, PTL

\* No file grows beyond log_max_size, also when it was there before the process:
\* open takes the size from the file, appendLine rotates before the line.
THEOREM SizeCorrect == Spec => []SizeBound
<1>1. EInv => SizeBound
  BY DEF EInv, Own, Small, SizeBound
<1> QED
  BY <1>1, Invariance, PTL

LEMMA LastReplaced ==
  ASSUME NEW S, NEW x \in Seq(S), NEW m \in 1 .. Len(x), NEW d \in S
  PROVE  /\ [x EXCEPT ![m] = d] \in Seq(S) /\ Len([x EXCEPT ![m] = d]) = Len(x)
         /\ \A i \in 1 .. Len(x) : [x EXCEPT ![m] = d][i] = IF i = m THEN d ELSE x[i]
<1>1. [x EXCEPT ![m] = d] \in Seq(S) /\ Len([x EXCEPT ![m] = d]) = Len(x)
  BY ExceptSeq
<1>2. \A i \in 1 .. Len(x) : [x EXCEPT ![m] = d][i] = IF i = m THEN d ELSE x[i]
  BY ExceptSeq
<1> QED
  BY <1>1, <1>2

LEMMA LastGrows ==
  ASSUME NEW S, NEW P \in Seq(S), NEW c \in S, NEW d \in S
  PROVE  LET x == Append(P, c)
         IN  x # <<>> /\ Append(P, d) = [x EXCEPT ![Len(x)] = d] /\ x[Len(x)] = c
<1> DEFINE n == Len(P)
           x == Append(P, c)
           y == [x EXCEPT ![Len(x)] = d]
           z == Append(P, d)
<1>1. /\ x \in Seq(S) /\ n \in Nat /\ Len(x) = n + 1 /\ x[n + 1] = c /\ x # <<>>
      /\ \A i \in 1 .. n : x[i] = P[i]
  OBVIOUS
<1>2. /\ z \in Seq(S) /\ Len(z) = n + 1 /\ z[n + 1] = d
      /\ \A i \in 1 .. n : z[i] = P[i]
  OBVIOUS
<1> HIDE DEF n, x, z
<1>3. Len(x) \in 1 .. Len(x)
  BY <1>1
<1>4. /\ y \in Seq(S) /\ Len(y) = Len(x)
      /\ \A i \in 1 .. Len(x) : y[i] = IF i = Len(x) THEN d ELSE x[i]
  BY <1>1, <1>3, LastReplaced
<1> HIDE DEF y
<1>5. \A i \in 1 .. Len(y) : y[i] = z[i]
  <2> SUFFICES ASSUME NEW i \in 1 .. n + 1 PROVE y[i] = z[i]
    BY <1>1, <1>4
  <2>1. CASE i = n + 1
    BY <1>1, <1>2, <1>4, <2>1
  <2>2. CASE i # n + 1
    <3>1. i \in 1 .. n
      BY <1>1, <2>2
    <3> QED
      BY <1>1, <1>2, <1>4, <2>2, <3>1
  <2> QED
    BY <2>1, <2>2
<1>6. z = y
  BY <1>1, <1>2, <1>4, <1>5, SeqEqual
<1> QED
  BY <1>1, <1>6 DEF x, y, z

\* A logger is a rolling log, whatever fails and whenever the process dies: a
\* line, or what a failing write leaves of it, is added once and behind all
\* earlier ones; a step of a rotation loses one file at the most and never the
\* latest one; and where files can be renamed, it is the oldest.
THEOREM LogRefinement == Spec => LogRefines
<1> DEFINE log == [l \in Loggers |-> Kept(l)]
           intact == {l \in Loggers : Renames(l)}
<1>1. Init => Rolling!Init
  <2> SUFFICES ASSUME Init PROVE Rolling!Init
    OBVIOUS
  <2>1. written = [l \in Loggers |-> <<>>] /\ \A l \in Loggers : Kept(l) = <<>>
    BY Initially DEF Init
  <2>2. log = [l \in Loggers |-> <<>>]
    BY <2>1
  <2> QED
    BY <2>1, <2>2 DEF Rolling!Init
<1>2. EInv /\ [Next]_vars => [Rolling!Next]_(Rolling!vars)
  <2> SUFFICES ASSUME EInv, [Next]_vars PROVE [Rolling!Next]_(Rolling!vars)
    OBVIOUS
  <2>1. Rolls /\ UNCHANGED faults /\ TypeOK
    BY NextKeeps DEF EInv
  <2>2. intact' = intact
    BY <2>1 DEF Renames, May
  <2>3. CASE UNCHANGED written /\ \A k \in Loggers : Kept(k)' = Kept(k)
    <3>1. log' = log
      BY <2>3
    <3> QED
      BY <2>2, <2>3, <3>1 DEF Rolling!vars
  <2>4. ASSUME NEW l \in Loggers, \A k \in Loggers \ {l} : Kept(k)' = Kept(k),
               written' = [written EXCEPT ![l] = written'[l]], Adds(l)
        PROVE  [Rolling!Next]_(Rolling!vars)
    <3>1. CASE Kept(l)' = Kept(l) /\ written'[l] = written[l]
      <4>1. log' = log
        BY <2>4, <3>1
      <4>2. written' = written
        BY <2>1, <2>4, <3>1 DEF TypeOK
      <4> QED
        BY <2>2, <4>1, <4>2 DEF Rolling!vars
    <3>2. ASSUME NEW e \in Entries, \A i \in DOMAIN written[l] : written[l][i][1] < e[1],
                 Lengthens(Kept(l), Kept(l)', e), written'[l] = Append(written[l], e)
          PROVE  Rolling!Next
      <4>1. log[l] = Kept(l) /\ log' = [log EXCEPT ![l] = Kept(l)']
        BY <2>4
      <4>2. written' = [written EXCEPT ![l] = Append(written[l], e)]
        BY <2>4, <3>2
      <4> HIDE DEF log, intact
      <4>3. \/ log' = [log EXCEPT ![l] = Append(log[l], <<e>>)]
            \/ log[l] # <<>> /\ log' = [log EXCEPT ![l][Len(log[l])] = Append(@, e)]
        <5>1. CASE Kept(l)' = Append(Kept(l), <<e>>)
          BY <4>1, <5>1
        <5>2. ASSUME NEW P \in Seq(Seq(Entries)), NEW c \in Seq(Entries),
                     Kept(l) = Append(P, c), Kept(l)' = Append(P, Append(c, e))
              PROVE  log[l] # <<>> /\ log' = [log EXCEPT ![l][Len(log[l])] = Append(@, e)]
          <6> DEFINE x == Kept(l)
                     d == Append(c, e)
          <6>1. d \in Seq(Entries)
            OBVIOUS
          <6> HIDE DEF d
          <6>2. x # <<>> /\ Append(P, d) = [x EXCEPT ![Len(x)] = d] /\ x[Len(x)] = c
            <7> DEFINE T == Seq(Entries)
            <7>1. P \in Seq(T) /\ c \in T /\ d \in T
              BY <5>2, <6>1
            <7> HIDE DEF T
            <7>2. LET w == Append(P, c)
                  IN  w # <<>> /\ Append(P, d) = [w EXCEPT ![Len(w)] = d] /\ w[Len(w)] = c
              BY <7>1, LastGrows
            <7> QED
              BY <5>2, <7>2
          <6>3. log' = [log EXCEPT ![l] = [x EXCEPT ![Len(x)] = Append(x[Len(x)], e)]]
            BY <4>1, <5>2, <6>2 DEF d
          <6> HIDE DEF x
          <6>4. log[l] = x
            BY <4>1 DEF x
          <6> QED
            BY <6>2, <6>3, <6>4
        <5> QED
          BY <3>2, <5>1, <5>2 DEF Lengthens
      <4>4. Rolling!Add(l)
        BY <2>2, <3>2, <4>2, <4>3 DEF Rolling!Add, log, intact
      <4> QED
        BY <4>4 DEF Rolling!Next
    <3> QED
      BY <2>4, <3>1, <3>2 DEF Adds
  <2>5. ASSUME NEW l \in Loggers, \A k \in Loggers \ {l} : Kept(k)' = Kept(k),
               UNCHANGED written, Drops(l)
        PROVE  [Rolling!Next]_(Rolling!vars)
    <3>1. CASE Kept(l)' = Kept(l)
      <4>1. log' = log
        BY <2>5, <3>1
      <4> QED
        BY <2>2, <2>5, <4>1 DEF Rolling!vars
    <3>2. ASSUME NEW a, Less(Kept(l), Kept(l)', a), Renames(l) => a = 1
          PROVE  Rolling!Next
      <4>1. log[l] = Kept(l) /\ a \in 1 .. Len(log[l]) - 1 /\ (l \in intact => a = 1)
        BY <3>2 DEF Less
      <4>2. log' = [log EXCEPT ![l] = SubSeq(log[l], 1, a - 1)
                                        \o SubSeq(log[l], a + 1, Len(log[l]))]
        BY <2>5, <3>2 DEF Less
      <4> HIDE DEF log, intact
      <4>3. Rolling!Lose(l)
        BY <2>2, <2>5, <4>1, <4>2 DEF Rolling!Lose, log, intact
      <4> QED
        BY <4>3 DEF Rolling!Next
    <3> QED
      BY <2>5, <3>1, <3>2 DEF Drops
  <2> QED
    BY <2>1, <2>3, <2>4, <2>5 DEF Rolls
<1> QED
  BY <1>1, <1>2, Invariance, PTL DEF Spec, LogRefines, Rolling!Spec
=============================================================================
