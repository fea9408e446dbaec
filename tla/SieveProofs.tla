---------------------------- MODULE SieveProofs -----------------------------
(***************************************************************************)
(* Induction over numbers and sequences, and what the loops of Sieve make  *)
(* of a sequence.  Least says that a set of naturals has a least element,  *)
(* which is induction by the smallest counterexample; a loop's function is *)
(* shown to exist, to be unique, and hence to be the one CHOOSE takes.     *)
(***************************************************************************)
EXTENDS Sieve, SequenceTheorems, WellFoundedInduction, TLAPS

\* A set of naturals that is not empty has a least element: induction.
LEMMA Least ==
  ASSUME NEW T \in SUBSET Nat, T # {}
  PROVE  \E n \in T : \A m \in T : n <= m
<1>1. PICK n \in T : \A m \in T : ~ (<<m, n>> \in OpToRel(<, Nat))
  BY NatLessThanWellFounded, WFMin
<1>2. ASSUME NEW m \in T PROVE n <= m
  <2>1. ~(m < n)
    BY <1>1 DEF OpToRel
  <2> QED BY <2>1
<1> QED BY <1>2

\* Induction over sequences: a set with the empty one that appending does not
\* leave holds them all.
LEMMA AllSequences ==
  ASSUME NEW S, NEW T \in SUBSET Seq(S), <<>> \in T,
         \A s \in T, e \in S : Append(s, e) \in T
  PROVE  T = Seq(S)
<1> DEFINE U == {Len(s) : s \in Seq(S) \ T}
<1> SUFFICES ASSUME U # {} PROVE FALSE
  OBVIOUS
<1>1. U \subseteq Nat
  OBVIOUS
<1>2. PICK n \in U : \A m \in U : n <= m
  BY Zenon, <1>1, Least
<1>3. PICK s \in Seq(S) \ T : n = Len(s)
  OBVIOUS
<1>4. s \in Seq(S) /\ s # <<>>
  OBVIOUS
<1>5. PICK t \in Seq(S), e \in S : s = Append(t, e)
  <2>1. \E t \in Seq(S), e \in S : s = Append(t, e)
    BY <1>4, SequenceEmptyOrAppend
  <2> QED BY <2>1
<1>50. Len(t) \in Nat /\ Len(Append(t, e)) = Len(t) + 1
  OBVIOUS
<1>51. Len(t) \in Nat /\ Len(t) < n
  BY <1>3, <1>5, <1>50
<1>6. Len(t) \notin U
  <2> HIDE DEF U
  <2>1. \A m \in U : n <= m
    BY <1>2
  <2>2. n \in Nat
    BY <1>1, <1>2
  <2> QED BY <1>51, <2>1, <2>2
<1>7. t \in T
  BY <1>6
<1> QED BY <1>3, <1>5, <1>7

\* Two lists that are the same up to n.
Agree(s, t, n) == \A i \in 1..n : s[i] = t[i]

\* s is a sequence over D and f gives a sequence over S for every element of D.
Over(D, S, s, f) == s \in Seq(D) /\ f \in [D -> Seq(S)]

\* g is the list of what Spread has put out after each of the first n elements.
Spreads(s, f, n, g) == g[0] = <<>> /\ \A i \in 1..n : g[i] = g[i - 1] \o f[s[i]]

\* There is such a list.
LEMMA SpreadsExist ==
  ASSUME NEW D, NEW S, NEW s, NEW f, Over(D, S, s, f), NEW n \in 0..Len(s)
  PROVE  \E g \in [0..n -> Seq(S)] : Spreads(s, f, n, g)
<1>01. s \in Seq(D) /\ f \in [D -> Seq(S)]
  BY DEF Over
<1> DEFINE P(m) == \E g \in [0..m -> Seq(S)] : Spreads(s, f, m, g)
           T == {m \in 0..Len(s) : ~P(m)}
<1> HIDE DEF P
<1> SUFFICES ASSUME T # {} PROVE FALSE
  BY DEF P
<1>0. T \subseteq Nat
  OBVIOUS
<1>1. PICK m \in T : \A k \in T : m <= k
  BY Zenon, <1>0, Least
<1>2. m # 0
  <2> DEFINE g == [i \in 0..0 |-> <<>>]
  <2>1. g \in [0..0 -> Seq(S)] /\ g[0] = <<>>
    OBVIOUS
  <2>2. Spreads(s, f, 0, g)
    BY <2>1 DEF Spreads
  <2>3. P(0)
    BY Zenon, <2>1, <2>2 DEF P
  <2> QED BY <2>3
<1>3. m \in Nat /\ m >= 1 /\ m \in 1..Len(s) /\ m - 1 \in 0..Len(s) /\ m - 1 \notin T
  BY <1>0, <1>1, <1>2
<1>4. PICK k \in [0..(m - 1) -> Seq(S)] : Spreads(s, f, m - 1, k)
  BY <1>3 DEF P
<1> DEFINE y == k[m - 1] \o f[s[m]]
           g == [i \in 0..m |-> IF i = m THEN y ELSE k[i]]
<1>5. y \in Seq(S)
  <2>1. k[m - 1] \in Seq(S) /\ f[s[m]] \in Seq(S)
    BY <1>01, <1>3
  <2> QED BY <2>1
<1>6. \A i \in 0..m : i # m => i \in 0..(m - 1)
  BY <1>3
<1>7. g \in [0..m -> Seq(S)]
  <2> HIDE DEF y
  <2> QED BY Zenon, <1>5, <1>6
<1>8. Spreads(s, f, m, g)
  <2>1. 0 \in 0..m /\ 0 # m
    BY <1>3
  <2>2. g[0] = <<>>
    BY Zenon, <1>4, <2>1 DEF Spreads
  <2>3. ASSUME NEW i \in 1..m PROVE g[i] = g[i - 1] \o f[s[i]]
    <3>1. i \in 0..m /\ i - 1 \in 0..m /\ i - 1 # m /\ (i # m => i \in 1..(m - 1))
      BY <1>3
    <3>2. g[i - 1] = k[i - 1]
      BY Zenon, <3>1
    <3>3. CASE i = m
      BY Zenon, <3>1, <3>2, <3>3
    <3>4. CASE i # m
      BY Zenon, <1>4, <3>1, <3>2, <3>4 DEF Spreads
    <3> QED BY <3>3, <3>4
  <2> HIDE DEF g
  <2> QED BY Zenon, <2>2, <2>3 DEF Spreads
<1>9. P(m)
  BY Zenon, <1>7, <1>8 DEF P
<1> QED BY <1>9

\* g and k are such lists, and their elements are replaced by the same.
Alike(s, f, t, h, n, g, k) ==
  Spreads(s, f, n, g) /\ Spreads(t, h, n, k) /\ \A i \in 1..n : f[s[i]] = h[t[i]]

\* There is only one: what comes later does not matter.
LEMMA SpreadsUnique ==
  ASSUME NEW s, NEW f, NEW t, NEW h, NEW n \in Nat, NEW g, NEW k,
         Alike(s, f, t, h, n, g, k)
  PROVE  g[n] = k[n]
<1>00. Spreads(s, f, n, g) /\ Spreads(t, h, n, k) /\ \A i \in 1..n : f[s[i]] = h[t[i]]
  BY DEF Alike
<1> DEFINE T == {i \in 0..n : g[i] # k[i]}
<1> SUFFICES ASSUME T # {} PROVE FALSE
  OBVIOUS
<1>0. T \subseteq Nat
  OBVIOUS
<1>1. PICK m \in T : \A i \in T : m <= i
  BY Zenon, <1>0, Least
<1>2. m # 0
  BY <1>00 DEF Spreads
<1>3. m - 1 \in 0..n /\ m - 1 \notin T /\ m \in 1..n
  BY <1>0, <1>1, <1>2
<1>4. g[m] # k[m] /\ g[m - 1] = k[m - 1] /\ f[s[m]] = h[t[m]]
  BY <1>00, <1>3
<1> QED BY Zenon, <1>00, <1>3, <1>4 DEF Spreads

\* The list of everything that Spread has put out.
Out(S, s, f, g) ==
  g \in [0..Len(s) -> Seq(S)] /\ Spreads(s, f, Len(s), g) /\ Spread(s, f) = g[Len(s)]

\* There is such a list.
LEMMA SpreadIs ==
  ASSUME NEW D, NEW S, NEW s, NEW f, Over(D, S, s, f)
  PROVE  \E g : Out(S, s, f, g)
<1> DEFINE n == Len(s)
           Def(g) == g = [k \in 0..n |-> IF k = 0 THEN <<>> ELSE g[k - 1] \o f[s[k]]]
           c == CHOOSE g : Def(g)
<1>1. n \in Nat /\ n \in 0..Len(s)
  BY DEF Over
<1>2. Spread(s, f) = c[n]
  BY Zenon DEF Spread
<1>3. PICK g \in [0..n -> Seq(S)] : Spreads(s, f, n, g)
  BY Zenon, <1>1, SpreadsExist
<1> HIDE DEF c, n
<1>4. Def(g)
  <2>1. ASSUME NEW i \in 0..n
        PROVE  g[i] = IF i = 0 THEN <<>> ELSE g[i - 1] \o f[s[i]]
    <3>1. i = 0 \/ i \in 1..n
      BY <1>1
    <3> QED BY Zenon, <1>3, <3>1 DEF Spreads
  <2>2. g = [i \in 0..n |-> g[i]]
    OBVIOUS
  <2> QED BY Zenon, <2>1, <2>2
<1>5. Def(c)
  BY Zenon, <1>4 DEF c
<1>6. ASSUME NEW i \in 0..n
      PROVE  c[i] = IF i = 0 THEN <<>> ELSE c[i - 1] \o f[s[i]]
  BY Zenon, <1>5
<1>7. Spreads(s, f, n, c)
  <2>1. 0 \in 0..n /\ \A i \in 1..n : i \in 0..n /\ i # 0
    BY <1>1
  <2> QED BY Zenon, <1>6, <2>1 DEF Spreads
<1>8. c[n] = g[n]
  <2>1. Alike(s, f, s, f, n, c, g)
    BY Zenon, <1>3, <1>7 DEF Alike
  <2> QED BY <1>1, <2>1, SpreadsUnique
<1>9. Out(S, s, f, g)
  BY Zenon, <1>2, <1>3, <1>8 DEF n, Out
<1> QED BY Zenon, <1>9

\* The two functions give the same for the elements of s.
SameOn(D, E, S, s, f, h) == Over(D, S, s, f) /\ Over(E, S, s, h) /\ \A x \in Range(s) : f[x] = h[x]

\* Only what the elements are replaced by matters.
LEMMA SpreadSame ==
  ASSUME NEW D, NEW E, NEW S, NEW s, NEW f, NEW h, SameOn(D, E, S, s, f, h)
  PROVE  Spread(s, f) = Spread(s, h)
<1> DEFINE n == Len(s)
<1>0. Over(D, S, s, f) /\ Over(E, S, s, h) /\ \A x \in Range(s) : f[x] = h[x]
  BY Zenon DEF SameOn
<1>1. PICK g : Out(S, s, f, g)
  BY Zenon, <1>0, SpreadIs
<1>2. PICK k : Out(S, s, h, k)
  BY Zenon, <1>0, SpreadIs
<1>3. n \in Nat /\ DOMAIN s = 1..n
  BY <1>0 DEF Over
<1>4. Spreads(s, f, n, g) /\ Spread(s, f) = g[n] /\ Spreads(s, h, n, k) /\ Spread(s, h) = k[n]
  BY Zenon, <1>1, <1>2 DEF Out
<1> HIDE DEF n
<1>5. \A i \in 1..n : s[i] \in Range(s)
  BY Zenon, <1>3 DEF Range
<1>6. \A i \in 1..n : f[s[i]] = h[s[i]]
  BY Zenon, <1>0, <1>5
<1>7. Alike(s, f, s, h, n, g, k)
  BY Zenon, <1>4, <1>6 DEF Alike
<1>8. g[n] = k[n]
  BY <1>3, <1>7, SpreadsUnique
<1> QED BY Zenon, <1>4, <1>8

\* The result is a sequence of what the elements are replaced by.
LEMMA SpreadType ==
  ASSUME NEW D, NEW S, NEW s, NEW f, Over(D, S, s, f)
  PROVE  Spread(s, f) \in Seq(S)
<1> DEFINE n == Len(s)
<1>1. PICK g : Out(S, s, f, g)
  BY Zenon, SpreadIs
<1>2. n \in 0..n
  BY DEF Over
<1>3. g \in [0..n -> Seq(S)] /\ Spread(s, f) = g[n]
  BY Zenon, <1>1 DEF Out
<1> HIDE DEF n
<1> QED BY Zenon, <1>2, <1>3

\* Nothing is made of nothing.
LEMMA SpreadNil == ASSUME NEW f PROVE Spread(<<>>, f) = <<>>
<1> DEFINE Def(g) == g = [k \in 0..0 |-> IF k = 0 THEN <<>> ELSE g[k - 1] \o f[<<>>[k]]]
           c == CHOOSE g : Def(g)
           z == [k \in 0..0 |-> <<>>]
<1>0. Len(<<>>) = 0
  OBVIOUS
<1>1. Spread(<<>>, f) = c[0]
  BY Zenon, <1>0 DEF Spread
<1>2. \A k \in 0..0 : k = 0
  OBVIOUS
<1>3. Def(z)
  BY Zenon, <1>2
<1> HIDE DEF c, z
<1>4. Def(c)
  BY Zenon, <1>3 DEF c
<1>5. 0 \in 0..0
  OBVIOUS
<1>6. c[0] = <<>>
  BY Zenon, <1>4, <1>5
<1> QED BY Zenon, <1>1, <1>6

\* One more element adds what it is replaced by.
LEMMA SpreadAppend ==
  ASSUME NEW D, NEW S, NEW s, NEW f, Over(D, S, s, f), NEW e \in D
  PROVE  Spread(Append(s, e), f) = Spread(s, f) \o f[e]
<1> DEFINE u == Append(s, e)
           n == Len(s)
           m == Len(u)
<1>1. /\ u \in Seq(D) /\ m = n + 1 /\ u[n + 1] = e /\ n \in Nat
      /\ \A i \in 1..n : u[i] = s[i]
  BY DEF Over
<1> HIDE DEF u
<1>2. n + 1 \in 1..m /\ (n + 1) - 1 = n /\ \A i \in 1..n : i \in 1..m
  BY <1>1
<1>3. Over(D, S, u, f)
  BY Zenon, <1>1 DEF Over
<1>4. PICK g : Out(S, s, f, g)
  BY Zenon, SpreadIs
<1>5. PICK k : Out(S, u, f, k)
  BY Zenon, <1>3, SpreadIs
<1>6. Spreads(s, f, n, g) /\ Spread(s, f) = g[n] /\ Spreads(u, f, m, k) /\ Spread(u, f) = k[m]
  BY Zenon, <1>4, <1>5 DEF Out
<1> HIDE DEF n, m
<1>7. Spreads(u, f, n, k) /\ k[n + 1] = k[n] \o f[e]
  BY Zenon, <1>1, <1>2, <1>6 DEF Spreads
<1>8. Alike(s, f, u, f, n, g, k)
  BY Zenon, <1>1, <1>6, <1>7 DEF Alike
<1>9. g[n] = k[n]
  BY <1>1, <1>8, SpreadsUnique
<1>10. Spread(u, f) = Spread(s, f) \o f[e]
  BY Zenon, <1>1, <1>6, <1>7, <1>9
<1> QED BY Zenon, <1>10 DEF u

\* The work is done part by part.
LEMMA SpreadConcat ==
  ASSUME NEW D, NEW S, NEW s, NEW f, Over(D, S, s, f), NEW t \in Seq(D)
  PROVE  Spread(s \o t, f) = Spread(s, f) \o Spread(t, f)
<1> DEFINE T == {u \in Seq(D) : Spread(s \o u, f) = Spread(s, f) \o Spread(u, f)}
<1>0. s \in Seq(D) /\ f \in [D -> Seq(S)]
  BY DEF Over
<1>1. Spread(s, f) \in Seq(S)
  BY Zenon, SpreadType
<1>2. <<>> \in T
  <2>1. s \o <<>> = s /\ Spread(s, f) \o <<>> = Spread(s, f) /\ <<>> \in Seq(D)
    BY <1>0, <1>1
  <2> QED BY <2>1, SpreadNil
<1>3. ASSUME NEW u \in T, NEW e \in D PROVE Append(u, e) \in T
  <2> u \in Seq(D) /\ Spread(s \o u, f) = Spread(s, f) \o Spread(u, f)
    OBVIOUS
  <2> HIDE DEF T
  <2>0. s \o u \in Seq(D) /\ Append(u, e) \in Seq(D) /\ s \o Append(u, e) = Append(s \o u, e)
    BY <1>0
  <2>1. Over(D, S, u, f) /\ Over(D, S, s \o u, f)
    BY Zenon, <1>0, <2>0 DEF Over
  <2>2. Spread(Append(u, e), f) = Spread(u, f) \o f[e]
    BY <2>1, SpreadAppend
  <2>3. Spread(Append(s \o u, e), f) = Spread(s \o u, f) \o f[e]
    <3> DEFINE w == s \o u
    <3> HIDE DEF w
    <3>1. Spread(Append(w, e), f) = Spread(w, f) \o f[e]
      <4>1. Over(D, S, w, f)
        BY Zenon, <2>1 DEF w
      <4> QED BY <4>1, SpreadAppend
    <3> QED BY Zenon, <3>1 DEF w
  <2>4. Spread(u, f) \in Seq(S) /\ f[e] \in Seq(S)
    BY Zenon, <1>0, <2>1, SpreadType
  <2>5. (Spread(s, f) \o Spread(u, f)) \o f[e] = Spread(s, f) \o (Spread(u, f) \o f[e])
    <3> DEFINE a == Spread(s, f)
               b == Spread(u, f)
               c == f[e]
    <3>1. a \in Seq(S) /\ b \in Seq(S) /\ c \in Seq(S)
      BY Zenon, <1>1, <2>4
    <3> HIDE DEF a, b, c
    <3>2. (a \o b) \o c = a \o (b \o c)
      BY <3>1
    <3> QED BY Zenon, <3>2 DEF a, b, c
  <2>6. Spread(s \o Append(u, e), f) = Spread(s, f) \o Spread(Append(u, e), f)
    BY Zenon, <2>0, <2>2, <2>3, <2>5
  <2> QED BY Zenon, <2>0, <2>6 DEF T
<1> HIDE DEF T
<1>4. T \subseteq Seq(D)
  BY DEF T
<1>5. T = Seq(D)
  BY Zenon, <1>2, <1>3, <1>4, AllSequences
<1>6. t \in T
  BY <1>5
<1> QED BY <1>6 DEF T
-----------------------------------------------------------------------------
(* Sift.                                                                   *)

\* What Sift replaces an element by.
Kept(S, A) == [x \in S |-> IF x \in A THEN <<x>> ELSE <<>>]

\* It is a sequence.
LEMMA KeptType == ASSUME NEW S, NEW A PROVE Kept(S, A) \in [S -> Seq(S)]
<1>1. \A x \in S : (IF x \in A THEN <<x>> ELSE <<>>) \in Seq(S)
  OBVIOUS
<1> QED BY Zenon, <1>1 DEF Kept

\* Sift, with a function that does not depend on the sequence.
LEMMA SiftSpreads ==
  ASSUME NEW S, NEW s \in Seq(S), NEW A
  PROVE  Sift(s, A) = Spread(s, Kept(S, A))
<1> DEFINE R == Range(s)
           f == Kept(S, A)
           h == Kept(R, A)
<1>1. f \in [S -> Seq(S)]
  BY Zenon, KeptType
<1>2. s \in Seq(R) /\ R \subseteq S
  BY DEF Range
<1>3. h \in [R -> Seq(S)]
  <2>1. \A x \in R : (IF x \in A THEN <<x>> ELSE <<>>) \in Seq(S)
    BY <1>2
  <2> QED BY Zenon, <2>1 DEF Kept
<1>4. \A x \in R : h[x] = f[x]
  BY Zenon, <1>2 DEF Kept
<1>5. Sift(s, A) = Spread(s, h)
  BY DEF Sift, Kept
<1> HIDE DEF f, h
<1>6. Spread(s, h) = Spread(s, f)
  <2>1. SameOn(R, S, S, s, h, f)
    BY Zenon, <1>1, <1>2, <1>3, <1>4 DEF SameOn, Over
  <2> QED BY <2>1, SpreadSame
<1> QED BY Zenon, <1>5, <1>6 DEF f

\* Nothing is left of nothing.
LEMMA SiftNil == ASSUME NEW A PROVE Sift(<<>>, A) = <<>>
BY SpreadNil DEF Sift

\* What is left is a sequence of the same elements.
LEMMA SiftType ==
  ASSUME NEW S, NEW s \in Seq(S), NEW A
  PROVE  Sift(s, A) \in Seq(S)
<1>1. Over(S, S, s, Kept(S, A))
  BY Zenon, KeptType DEF Over
<1> QED BY <1>1, SiftSpreads, SpreadType

\* Sifting is done part by part.
LEMMA SiftConcat ==
  ASSUME NEW S, NEW s \in Seq(S), NEW t \in Seq(S), NEW A
  PROVE  Sift(s \o t, A) = Sift(s, A) \o Sift(t, A)
<1>1. s \o t \in Seq(S)
  OBVIOUS
<1>2. Kept(S, A) \in [S -> Seq(S)] /\ Sift(s, A) = Spread(s, Kept(S, A))
  BY Zenon, KeptType, SiftSpreads
<1>3. Sift(t, A) = Spread(t, Kept(S, A)) /\ Sift(s \o t, A) = Spread(s \o t, Kept(S, A))
  BY Zenon, <1>1, SiftSpreads
<1> DEFINE f == Kept(S, A)
<1> HIDE DEF f
<1>4. Spread(s \o t, f) = Spread(s, f) \o Spread(t, f)
  <2>1. Over(S, S, s, f)
    BY Zenon, <1>2 DEF f, Over
  <2> QED BY <2>1, SpreadConcat
<1> QED BY Zenon, <1>2, <1>3, <1>4 DEF f

\* The last element is kept or not.
LEMMA SiftAppend ==
  ASSUME NEW S, NEW s \in Seq(S), NEW e \in S, NEW A
  PROVE  Sift(Append(s, e), A) = IF e \in A THEN Append(Sift(s, A), e) ELSE Sift(s, A)
<1> DEFINE f == Kept(S, A)
<1>1. Append(s, e) \in Seq(S)
  OBVIOUS
<1>2. f \in [S -> Seq(S)] /\ Sift(s, A) = Spread(s, f)
  BY Zenon, KeptType, SiftSpreads
<1>3. Sift(Append(s, e), A) = Spread(Append(s, e), f)
  BY Zenon, <1>1, SiftSpreads
<1>4. f[e] = IF e \in A THEN <<e>> ELSE <<>>
  BY Zenon DEF Kept
<1>5. \A q \in Seq(S) : q \o <<e>> = Append(q, e) /\ q \o <<>> = q
  <2> TAKE q \in Seq(S)
  <2>1. q \o <<e>> = Append(q, e)
    OBVIOUS
  <2>2. q \o <<>> = q
    OBVIOUS
  <2> QED BY <2>1, <2>2
<1> HIDE DEF f
<1>6. Spread(Append(s, e), f) = Spread(s, f) \o f[e]
  <2>1. Over(S, S, s, f)
    BY Zenon, <1>2 DEF Over
  <2> QED BY <2>1, SpreadAppend
<1>7. Sift(s, A) \in Seq(S)
  BY Zenon, SiftType
<1> QED BY Zenon, <1>2, <1>3, <1>4, <1>5, <1>6, <1>7

\* Appending adds the element to the range.
LEMMA RangeAppend ==
  ASSUME NEW S, NEW s \in Seq(S), NEW e \in S
  PROVE  Range(Append(s, e)) = Range(s) \cup {e}
<1> DEFINE t == Append(s, e)
<1>1. DOMAIN s = 1..Len(s) /\ DOMAIN t = 1..(Len(s) + 1) /\ t[Len(s) + 1] = e
      /\ \A k \in 1..Len(s) : t[k] = s[k]
  OBVIOUS
<1> HIDE DEF t
<1>2. \A k \in 1..(Len(s) + 1) : k \in 1..Len(s) \/ k = Len(s) + 1
  OBVIOUS
<1>3. \A k \in 1..Len(s) : k \in 1..(Len(s) + 1)
  OBVIOUS
<1>4. Len(s) + 1 \in 1..(Len(s) + 1)
  OBVIOUS
<1>5. Range(t) \subseteq Range(s) \cup {e}
  BY Zenon, <1>1, <1>2 DEF Range
<1>6. Range(s) \subseteq Range(t)
  BY Zenon, <1>1, <1>3 DEF Range
<1>7. e \in Range(t)
  BY Zenon, <1>1, <1>4 DEF Range
<1> QED BY <1>5, <1>6, <1>7 DEF t

\* What is left is what is in A.
LEMMA SiftRange ==
  ASSUME NEW S, NEW s \in Seq(S), NEW A
  PROVE  Range(Sift(s, A)) = Range(s) \cap A
<1> DEFINE T == {u \in Seq(S) : Range(Sift(u, A)) = Range(u) \cap A}
<1>1. <<>> \in T
  BY SiftNil DEF Range
<1>2. ASSUME NEW u \in T, NEW e \in S PROVE Append(u, e) \in T
  <2>0. u \in Seq(S)
    OBVIOUS
  <2>1. Sift(Append(u, e), A) = IF e \in A THEN Append(Sift(u, A), e) ELSE Sift(u, A)
    BY Zenon, <2>0, SiftAppend
  <2>2. /\ Range(Append(Sift(u, A), e)) = Range(Sift(u, A)) \cup {e}
        /\ Range(Append(u, e)) = Range(u) \cup {e}
    <3>1. Range(Append(u, e)) = Range(u) \cup {e}
      BY <2>0, RangeAppend
    <3>2. Sift(u, A) \in Seq(S)
      BY Zenon, <2>0, SiftType
    <3>3. Range(Append(Sift(u, A), e)) = Range(Sift(u, A)) \cup {e}
      BY <3>2, RangeAppend
    <3> QED BY <3>1, <3>3
  <2>3. Range(Sift(u, A)) = Range(u) \cap A /\ Append(u, e) \in Seq(S)
    OBVIOUS
  <2> QED BY <2>1, <2>2, <2>3
<1>3. T = Seq(S)
  BY Zenon, <1>1, <1>2, AllSequences
<1> QED BY <1>3

\* Sifting what is in A leaves it alone.
LEMMA SiftAll ==
  ASSUME NEW A, NEW s \in Seq(A)
  PROVE  Sift(s, A) = s
<1> DEFINE T == {u \in Seq(A) : Sift(u, A) = u}
<1>1. <<>> \in T
  BY SiftNil
<1>2. ASSUME NEW u \in T, NEW e \in A PROVE Append(u, e) \in T
  BY SiftAppend
<1>3. T = Seq(A)
  BY Zenon, <1>1, <1>2, AllSequences
<1> QED BY <1>3
=============================================================================
