----------------------------- MODULE ChatProofs -----------------------------
(***************************************************************************)
(* Theorems about ChatStream, for any number of chats, texts and chunks of *)
(* any size and every set of providers.  OneVerdict and DoneIsComplete are *)
(* not inductive: the gateway parses what it has buffered, so one has to   *)
(* know how far into the provider's text it has read, and that the buffer  *)
(* is the rest.  StreamOK says so of each request: it has told the tokens  *)
(* of the first n characters, and n is where the last complete line ends   *)
(* unless the request is done.  AnswersWhole needs in addition what the    *)
(* page has read of the stream, and that its last message is the question: *)
(* PageInv.                                                                *)
(***************************************************************************)
EXTENDS ChatStream, SieveProofs

-----------------------------------------------------------------------------
(* The tokens of a text.                                                   *)


\* What a provider sends, character by character.
Sym == Kinds \X (1..MaxText)

\* Its tokens.
TokenSet == {"token"} \X (1..MaxText)

\* The even place a text has got to: a line is a payload and a line end.
Even(s) == 2 * (Len(s) \div 2)

\* The tokens of the first n characters.
Told(s, n) == Tokens(SubSeq(s, 1, n))

\* Every character knows its place, and every second one ends a line.
Sound(s) == \A i \in 1..Len(s) : s[i][2] = i /\ (s[i][1] = "nl" <=> i % 2 = 0)

\* The largest even number up to n.
LEMMA EvenFacts ==
  ASSUME NEW s, Len(s) \in Nat
  PROVE  /\ Even(s) \in Nat /\ Even(s) <= Len(s) /\ Len(s) <= Even(s) + 1
         /\ Even(s) % 2 = 0 /\ (Even(s) + 1) % 2 # 0
<1> DEFINE n == Len(s)
<1> HIDE DEF n
<1>1. n \in Nat
  BY DEF n
<1>2. 2 * (n \div 2) \in Nat /\ 2 * (n \div 2) <= n /\ n <= 2 * (n \div 2) + 1
  BY <1>1
<1>3. (2 * (n \div 2)) % 2 = 0 /\ (2 * (n \div 2) + 1) % 2 # 0
  BY <1>1
<1> QED BY <1>2, <1>3 DEF Even, n

\* A token of a text.
LEMMA TokenFacts ==
  ASSUME NEW x \in Sym
  PROVE  /\ x[1] \in Kinds /\ x[2] \in 1..MaxText
         /\ x \in {"token"} \X Nat <=> x[1] = "token"
         /\ x[1] = "token" => x \in TokenSet
BY ChatAssumption DEF Sym, TokenSet

\* One more element is a token or not.
LEMMA ToldNext ==
  ASSUME NEW s \in Seq(Sym), NEW n \in 1..Len(s)
  PROVE  Told(s, n) = IF s[n][1] = "token" THEN Append(Told(s, n - 1), s[n])
                                           ELSE Told(s, n - 1)
<1> DEFINE p == SubSeq(s, 1, n - 1)
           A == {"token"} \X Nat
<1>1. p \in Seq(Sym) /\ s[n] \in Sym
  OBVIOUS
<1>2. SubSeq(s, 1, n) = Append(p, s[n])
  OBVIOUS
<1>3. s[n] \in A <=> s[n][1] = "token"
  BY <1>1, TokenFacts
<1>4. Told(s, n) = Sift(SubSeq(s, 1, n), A) /\ Told(s, n - 1) = Sift(p, A)
  BY DEF Told, Tokens
<1> HIDE DEF p, A
<1>5. Sift(Append(p, s[n]), A) = IF s[n] \in A THEN Append(Sift(p, A), s[n]) ELSE Sift(p, A)
  BY Zenon, <1>1, SiftAppend
<1> QED BY Zenon, <1>2, <1>3, <1>4, <1>5

\* What the first n elements of a text say: its tokens, in order.
ToldOK(s, n) ==
  /\ Told(s, n) \in Seq(TokenSet)
  /\ 2 * Len(Told(s, n)) <= n + (n % 2)
  /\ \A k \in 1..Len(Told(s, n)) : Told(s, n)[k][2] <= n
  /\ \A j, k \in 1..Len(Told(s, n)) : j < k => Told(s, n)[j][2] < Told(s, n)[k][2]
  /\ Range(Told(s, n)) = {s[i] : i \in {i \in 1..n : s[i][1] = "token"}}

\* Nothing is said at first.
LEMMA ToldNone == ASSUME NEW s PROVE Told(s, 0) = <<>>
<1>1. SubSeq(s, 1, 0) = <<>>
  BY SubSeqEmpty
<1> QED BY <1>1, SiftNil DEF Told, Tokens

\* One more element keeps it so.
LEMMA ToldStep ==
  ASSUME NEW s \in Seq(Sym), Sound(s), NEW n \in 1..Len(s), ToldOK(s, n - 1)
  PROVE  ToldOK(s, n)
<1> DEFINE t == Told(s, n - 1)
           x == s[n]
           u == Told(s, n)
<1>1. u = IF x[1] = "token" THEN Append(t, x) ELSE t
  BY Zenon, ToldNext
<1>2. /\ t \in Seq(TokenSet)
      /\ 2 * Len(t) <= (n - 1) + ((n - 1) % 2)
      /\ \A k \in 1..Len(t) : t[k][2] <= n - 1
      /\ \A j, k \in 1..Len(t) : j < k => t[j][2] < t[k][2]
      /\ Range(t) = {s[i] : i \in {i \in 1..(n - 1) : s[i][1] = "token"}}
  BY DEF ToldOK
<1>3. x \in Sym /\ x[2] = n /\ (x[1] = "nl" <=> n % 2 = 0) /\ (x[1] = "token" => x \in TokenSet)
  BY TokenFacts DEF Sound
<1>4. \A k \in 1..Len(t) : t[k] \in TokenSet /\ t[k][2] \in Nat
  BY <1>2 DEF TokenSet
<1>5. Range(u) = {s[i] : i \in {i \in 1..n : s[i][1] = "token"}}
  <2>1. 1..n = 1..(n - 1) \cup {n}
    OBVIOUS
  <2>2. CASE x[1] = "token"
    <3>1. Range(Append(t, x)) = Range(t) \cup {x}
      BY <1>2, <1>3, <2>2, RangeAppend
    <3>2. {i \in 1..n : s[i][1] = "token"} = {i \in 1..(n - 1) : s[i][1] = "token"} \cup {n}
      BY <2>1, <2>2
    <3>3. ASSUME NEW I PROVE {s[i] : i \in I \cup {n}} = {s[i] : i \in I} \cup {s[n]}
      BY Zenon
    <3>4. {s[i] : i \in {i \in 1..n : s[i][1] = "token"}} = Range(t) \cup {x}
      BY Zenon, <1>2, <3>2, <3>3
    <3> HIDE DEF t, u
    <3> QED BY Zenon, <1>1, <2>2, <3>1, <3>4
  <2>3. CASE x[1] # "token"
    <3>2. {i \in 1..n : s[i][1] = "token"} = {i \in 1..(n - 1) : s[i][1] = "token"}
      BY <2>1, <2>3
    <3> QED BY Zenon, <1>1, <1>2, <2>3, <3>2
  <2> QED BY <2>2, <2>3
<1> HIDE DEF t, u, x
<1>6. u \in Seq(TokenSet)
  BY <1>1, <1>2, <1>3
<1>7. 2 * Len(u) <= n + (n % 2)
  <2>1. CASE x[1] = "token"
    <3>0. n \in Nat
      OBVIOUS
    <3>1. n % 2 = 1 /\ (n - 1) % 2 = 0
      BY <1>3, <2>1
    <3>2. Len(u) = Len(t) + 1 /\ Len(t) \in Nat
      BY <1>1, <1>2, <2>1
    <3>3. (n - 1) + ((n - 1) % 2) = n - 1
      BY <3>0, <3>1
    <3>4. 2 * Len(t) <= n - 1
      BY <1>2, <3>3
    <3>5. 2 * (Len(t) + 1) <= n + 1
      BY <3>0, <3>2, <3>4
    <3> QED BY <3>1, <3>2, <3>5
  <2>2. CASE x[1] # "token"
    <3>1. (n - 1) + ((n - 1) % 2) <= n + (n % 2)
      OBVIOUS
    <3>2. Len(u) = Len(t) /\ Len(t) \in Nat
      BY <1>1, <1>2, <2>2
    <3> QED BY <1>2, <3>1, <3>2
  <2> QED BY <2>1, <2>2
<1>8. /\ \A k \in 1..Len(u) : u[k][2] <= n
      /\ \A j, k \in 1..Len(u) : j < k => u[j][2] < u[k][2]
  <2>1. CASE x[1] = "token"
    <3>1. /\ Len(u) = Len(t) + 1 /\ Len(t) \in Nat /\ u[Len(t) + 1] = x
          /\ \A k \in 1..Len(t) : u[k] = t[k]
      BY <1>1, <1>2, <2>1
    <3>2. \A k \in 1..Len(u) : k \in 1..Len(t) \/ k = Len(t) + 1
      BY <3>1
    <3>3. \A k \in 1..Len(t) : u[k][2] \in Nat /\ u[k][2] <= n - 1
      BY <1>2, <1>4, <3>1
    <3>4. \A j, k \in 1..Len(t) : j < k => u[j][2] < u[k][2]
      BY <1>2, <3>1
    <3>5. u[Len(t) + 1][2] = n
      BY <1>3, <3>1
    <3>6. \A k \in 1..Len(u) : u[k][2] <= n
      BY <3>2, <3>3, <3>5
    <3>7. ASSUME NEW j \in 1..Len(u), NEW k \in 1..Len(u), j < k PROVE u[j][2] < u[k][2]
      <4>1. j \in 1..Len(t)
        BY <3>1, <3>7
      <4>2. CASE k \in 1..Len(t)
        BY <3>4, <3>7, <4>1, <4>2
      <4>3. CASE k = Len(t) + 1
        BY <3>3, <3>5, <4>1, <4>3
      <4> QED BY <3>2, <4>2, <4>3
    <3> QED BY <3>6, <3>7
  <2>2. CASE x[1] # "token"
    <3>1. u = t
      BY <1>1, <2>2
    <3>2. \A k \in 1..Len(t) : t[k][2] \in Nat /\ t[k][2] <= n - 1
      BY <1>2, <1>4
    <3>3. \A j, k \in 1..Len(t) : j < k => t[j][2] < t[k][2]
      BY Zenon, <1>2
    <3>4. \A k \in 1..Len(t) : t[k][2] <= n
      <4> TAKE k \in 1..Len(t)
      <4>1. t[k][2] \in Nat /\ t[k][2] <= n - 1
        BY Zenon, <3>2
      <4> QED BY <4>1
    <3> QED BY Zenon, <3>1, <3>3, <3>4
  <2> QED BY <2>1, <2>2
<1> QED BY Zenon, <1>5, <1>6, <1>7, <1>8 DEF ToldOK, u

\* So it is for every n.
LEMMA ToldFacts ==
  ASSUME NEW s \in Seq(Sym), Sound(s), NEW n \in 0..Len(s)
  PROVE  ToldOK(s, n)
<1> DEFINE T == {m \in 0..Len(s) : ~ToldOK(s, m)}
<1> SUFFICES ASSUME T # {} PROVE FALSE
  OBVIOUS
<1>0. T \subseteq Nat
  OBVIOUS
<1>1. PICK m \in T : \A k \in T : m <= k
  BY Zenon, <1>0, Least
<1>2. m # 0
  <2>1. Told(s, 0) = <<>>
    BY ToldNone
  <2>2. ToldOK(s, 0)
    <3>1. /\ <<>> \in Seq(TokenSet) /\ Len(<<>>) = 0 /\ DOMAIN <<>> = {}
          /\ 1..0 = {} /\ 0 % 2 = 0
      OBVIOUS
    <3>2. Range(<<>>) = {} /\ {s[i] : i \in {i \in 1..0 : s[i][1] = "token"}} = {}
      BY <3>1 DEF Range
    <3>3. 2 * 0 <= 0 + (0 % 2)
      OBVIOUS
    <3> QED BY Zenon, <2>1, <3>1, <3>2, <3>3 DEF ToldOK
  <2> QED BY <2>2
<1>3. m \in 1..Len(s) /\ m - 1 \in 0..Len(s) /\ m - 1 \notin T
  BY <1>0, <1>1, <1>2
<1>4. ToldOK(s, m - 1)
  BY <1>3
<1>5. ToldOK(s, m)
  BY Zenon, <1>3, <1>4, ToldStep
<1> QED BY <1>5

-----------------------------------------------------------------------------
(* Reading a text in lines.                                                *)

\* More of a text says more.
LEMMA ToldGrows ==
  ASSUME NEW s \in Seq(Sym), NEW m \in 0..Len(s), NEW n \in m..Len(s)
  PROVE  Told(s, n) = Told(s, m) \o Tokens(SubSeq(s, m + 1, n))
<1> DEFINE p == SubSeq(s, 1, m)
           q == SubSeq(s, m + 1, n)
           A == {"token"} \X Nat
<1>1. p \in Seq(Sym) /\ q \in Seq(Sym)
  OBVIOUS
<1>2. SubSeq(s, 1, n) = p \o q
  <2>1. 1 \in 1..(Len(s) + 1) /\ m \in (1 - 1)..Len(s)
    OBVIOUS
  <2> QED BY <2>1, ConcatAdjacentSubSeq
<1>3. Told(s, n) = Sift(SubSeq(s, 1, n), A) /\ Told(s, m) = Sift(p, A) /\ Tokens(q) = Sift(q, A)
  BY DEF Told, Tokens
<1> HIDE DEF p, q, A
<1>4. Sift(p \o q, A) = Sift(p, A) \o Sift(q, A)
  BY <1>1, SiftConcat
<1>5. Told(s, n) = Told(s, m) \o Tokens(q)
  BY Zenon, <1>2, <1>3, <1>4
<1> QED BY <1>5 DEF q

\* What comes later changes nothing of what was said.
LEMMA ToldPrefix ==
  ASSUME NEW s \in Seq(Sym), NEW t \in Seq(Sym), NEW n \in 0..Len(s)
  PROVE  Told(s \o t, n) = Told(s, n)
<1>1. SubSeq(s \o t, 1, n) = SubSeq(s, 1, n)
  OBVIOUS
<1> QED BY <1>1 DEF Told

\* The place of the last line end.
LEMMA EndOfLinesIs ==
  ASSUME NEW text \in Seq(Sym), NEW m \in 0..Len(text),
         m # 0 => text[m][1] = "nl",
         \A i \in (m + 1)..Len(text) : text[i][1] # "nl"
  PROVE  EndOfLines(text) = m
<1> DEFINE I == {0} \cup {i \in 1..Len(text) : text[i][1] = "nl"}
<1>1. EndOfLines(text) = Max(I)
  BY DEF EndOfLines
<1>2. m \in I /\ \A i \in I : i \in 0..m
  OBVIOUS
<1> HIDE DEF I
<1>3. \A i \in I : m >= i
  BY <1>2
<1>4. \A x \in I : (\A y \in I : x >= y) => x = m
  BY <1>2
<1>5. Max(I) = m
  BY Zenon, <1>2, <1>3, <1>4 DEF Max
<1> QED BY Zenon, <1>1, <1>5

\* Where the first of the lines that end the answer is.
First(lines, ends, k) ==
  /\ k \in 1..Len(lines) /\ lines[k][1] \in ends
  /\ \A i \in 1..(k - 1) : lines[i][1] \notin ends

\* What is read of some lines.
LEMMA ReadLinesIs ==
  ASSUME NEW S, NEW lines \in Seq(S), NEW ends
  PROVE  \/ /\ \A i \in 1..Len(lines) : lines[i][1] \notin ends
            /\ ReadLines(lines, ends) = [tokens |-> Tokens(lines), end |-> "more"]
         \/ \E k \in 1..Len(lines) :
              /\ First(lines, ends, k)
              /\ ReadLines(lines, ends)
                   = [tokens |-> Tokens(SubSeq(lines, 1, k - 1)), end |-> lines[k][1]]
<1> DEFINE I == {k \in 1..Len(lines) : lines[k][1] \in ends}
           k == Min(I)
<1>1. ReadLines(lines, ends)
        = IF I = {} THEN [tokens |-> Tokens(lines), end |-> "more"]
          ELSE [tokens |-> Tokens(SubSeq(lines, 1, k - 1)), end |-> lines[k][1]]
  BY Zenon DEF ReadLines
<1>2. CASE I = {}
  <2>1. \A i \in 1..Len(lines) : lines[i][1] \notin ends
    BY Zenon, <1>2
  <2> HIDE DEF k, I
  <2> QED BY Zenon, <1>1, <1>2, <2>1
<1>3. CASE I # {}
  <2>0. I \subseteq Nat
    OBVIOUS
  <2> HIDE DEF I
  <2>1. \E i \in I : \A j \in I : i <= j
    BY Zenon, <1>3, <2>0, Least
  <2>2. k \in I /\ \A j \in I : k <= j
    BY <2>1 DEF Min
  <2> HIDE DEF k
  <2>3. First(lines, ends, k) /\ k \in 1..Len(lines)
    BY <2>2 DEF First, I
  <2> QED BY Zenon, <1>1, <1>3, <2>3
<1> QED BY <1>2, <1>3

\* A part of a sequence.
LEMMA PartOf ==
  ASSUME NEW S, NEW s \in Seq(S), NEW a \in Nat, NEW b \in Nat, a <= b, b <= Len(s)
  PROVE  /\ SubSeq(s, a + 1, b) \in Seq(S)
         /\ Len(SubSeq(s, a + 1, b)) = b - a
         /\ \A i \in 1..(b - a) : SubSeq(s, a + 1, b)[i] = s[a + i]
<1>1. a + 1 \in Int /\ b \in Int /\ \A i \in (a + 1)..b : s[i] \in S
  OBVIOUS
<1>2. /\ SubSeq(s, a + 1, b) \in Seq(S)
      /\ Len(SubSeq(s, a + 1, b)) = IF a + 1 <= b THEN b - (a + 1) + 1 ELSE 0
      /\ \A i \in 1..(b - (a + 1) + 1) : SubSeq(s, a + 1, b)[i] = s[a + 1 + i - 1]
  BY <1>1, SubSeqProperties
<1>3. b - (a + 1) + 1 = b - a /\ \A i \in 1..(b - a) : a + 1 + i - 1 = a + i
  OBVIOUS
<1>4. Len(SubSeq(s, a + 1, b)) = b - a
  BY <1>2
<1>5. \A i \in 1..(b - a) : SubSeq(s, a + 1, b)[i] = s[a + i]
  BY <1>2, <1>3
<1> QED BY <1>2, <1>4, <1>5

\* A part of what is left of a sequence from a on.
LEMMA PartOfRest ==
  ASSUME NEW S, NEW s \in Seq(S), NEW a \in Nat, NEW i \in Nat, NEW j \in Nat,
         a <= i, i <= j, j <= Len(s),
         NEW r, r \in Seq(S), Len(r) = Len(s) - a, \A k \in 1..Len(r) : r[k] = s[a + k]
  PROVE  SubSeq(r, (i - a) + 1, j - a) = SubSeq(s, i + 1, j)
<1> DEFINE p == SubSeq(r, (i - a) + 1, j - a)
           q == SubSeq(s, i + 1, j)
<1>1. q \in Seq(S) /\ Len(q) = j - i /\ \A k \in 1..(j - i) : q[k] = s[i + k]
  BY PartOf
<1>2. /\ i - a \in Nat /\ j - a \in Nat /\ i - a <= j - a /\ j - a <= Len(r)
      /\ (j - a) - (i - a) = j - i
  OBVIOUS
<1>3. p \in Seq(S) /\ Len(p) = j - i /\ \A k \in 1..(j - i) : p[k] = r[(i - a) + k]
  <2> DEFINE x == i - a
             y == j - a
  <2> HIDE DEF x, y
  <2>1. SubSeq(r, x + 1, y) \in Seq(S) /\ Len(SubSeq(r, x + 1, y)) = y - x
        /\ \A k \in 1..(y - x) : SubSeq(r, x + 1, y)[k] = r[x + k]
    BY <1>2, PartOf DEF x, y
  <2> QED BY <1>2, <2>1 DEF x, y
<1> HIDE DEF p, q
<1>4. ASSUME NEW k \in 1..(j - i) PROVE p[k] = q[k]
  <2>1. (i - a) + k \in 1..Len(r) /\ a + ((i - a) + k) = i + k
    OBVIOUS
  <2>2. r[(i - a) + k] = s[i + k]
    BY <2>1
  <2> QED BY <1>1, <1>3, <2>2
<1>5. p = q
  BY <1>1, <1>3, <1>4, SeqEqual
<1> QED BY <1>5 DEF p, q

\* r is what is left of u from a on.
RestOf(S, u, a, r) ==
  r \in Seq(S) /\ Len(r) = Len(u) - a /\ \A i \in 1..Len(r) : r[i] = u[a + i]

\* Element by element, what is left of a sequence and what follows it.
LEMMA RestAndMore ==
  ASSUME NEW S, NEW s \in Seq(S), NEW t \in Seq(S), NEW a \in Nat, a <= Len(s)
  PROVE  RestOf(S, s \o t, a, SubSeq(s, a + 1, Len(s)) \o t)
<1> DEFINE b == SubSeq(s, a + 1, Len(s))
           r == b \o t
           u == s \o t
<1>1. /\ b \in Seq(S) /\ Len(b) = Len(s) - a
      /\ \A i \in 1..(Len(s) - a) : b[i] = s[a + i]
  BY PartOf
<1>2. /\ u \in Seq(S) /\ Len(u) = Len(s) + Len(t)
      /\ \A i \in 1..(Len(s) + Len(t)) :
           u[i] = IF i <= Len(s) THEN s[i] ELSE t[i - Len(s)]
  BY ConcatProperties
<1> HIDE DEF b
<1>3. /\ r \in Seq(S) /\ Len(r) = Len(b) + Len(t)
      /\ \A i \in 1..(Len(b) + Len(t)) :
           r[i] = IF i <= Len(b) THEN b[i] ELSE t[i - Len(b)]
  BY <1>1, ConcatProperties
<1> HIDE DEF r, u
<1>4. Len(s) \in Nat /\ Len(t) \in Nat
  OBVIOUS
<1>5. Len(r) = Len(u) - a
  BY <1>1, <1>2, <1>3, <1>4
<1>6. ASSUME NEW i \in 1..Len(r) PROVE r[i] = u[a + i]
  <2>0. i \in 1..(Len(b) + Len(t)) /\ a + i \in 1..(Len(s) + Len(t)) /\ i \in Nat
    BY <1>1, <1>2, <1>4, <1>5
  <2>1. r[i] = IF i <= Len(b) THEN b[i] ELSE t[i - Len(b)]
    BY <1>3, <2>0
  <2>2. u[a + i] = IF a + i <= Len(s) THEN s[a + i] ELSE t[(a + i) - Len(s)]
    BY <1>2, <2>0
  <2>3. CASE i <= Len(s) - a
    <3>1. i <= Len(b) /\ a + i <= Len(s) /\ i \in 1..(Len(s) - a)
      BY <1>1, <1>4, <2>0, <2>3
    <3>2. b[i] = s[a + i]
      BY <1>1, <3>1
    <3> QED BY <2>1, <2>2, <3>1, <3>2
  <2>4. CASE ~(i <= Len(s) - a)
    <3>1. ~(i <= Len(b)) /\ ~(a + i <= Len(s)) /\ i - Len(b) = (a + i) - Len(s)
      BY <1>1, <1>4, <2>0, <2>4
    <3> QED BY <2>1, <2>2, <3>1
  <2> QED BY <2>3, <2>4
<1>7. r \in Seq(S) /\ Len(r) = Len(u) - a /\ \A i \in 1..Len(r) : r[i] = u[a + i]
  BY <1>3, <1>5, <1>6
<1> QED BY <1>7 DEF r, u, b, RestOf

\* The complete lines of what is left of a text from an even place on.
LEMMA LinesOf ==
  ASSUME NEW all \in Seq(Sym), Sound(all), NEW a \in Nat, a <= Even(all),
         NEW text \in Seq(Sym), Len(text) = Len(all) - a,
         \A i \in 1..Len(text) : text[i] = all[a + i]
  PROVE  /\ Lines(text) = SubSeq(all, a + 1, Even(all))
         /\ LeftOver(text) = SubSeq(all, Even(all) + 1, Len(all))
<1> DEFINE F == Even(all)
<1>0. Len(all) \in Nat
  OBVIOUS
<1>1. F \in Nat /\ F <= Len(all) /\ Len(all) <= F + 1
  BY Zenon, <1>0, EvenFacts
<1>2. F % 2 = 0 /\ (F + 1) % 2 # 0
  BY Zenon, <1>0, EvenFacts
<1>3. a <= F
  OBVIOUS
<1> HIDE DEF F
<1>5. EndOfLines(text) = F - a
  <2>1. F - a \in 0..Len(text)
    BY <1>0, <1>1, <1>3
  <2>2. F - a # 0 => text[F - a][1] = "nl"
    <3>1. CASE F = a
      BY <1>1, <3>1
    <3>2. CASE F # a
      <4>1. F - a \in 1..Len(text) /\ a + (F - a) = F /\ F \in 1..Len(all)
        BY <1>0, <1>1, <1>3, <3>2
      <4>2. text[F - a] = all[F]
        BY <4>1
      <4> QED BY Zenon, <1>2, <4>1, <4>2 DEF Sound
    <3> QED BY <3>1, <3>2
  <2>3. \A i \in (F - a + 1)..Len(text) : text[i][1] # "nl"
    <3> TAKE i \in (F - a + 1)..Len(text)
    <3>1. i \in 1..Len(text) /\ a + i = F + 1 /\ F + 1 \in 1..Len(all)
      BY <1>0, <1>1, <1>3
    <3>2. text[i] = all[F + 1]
      BY <3>1
    <3> QED BY Zenon, <1>2, <3>1, <3>2 DEF Sound
  <2> QED BY <2>1, <2>2, <2>3, EndOfLinesIs
<1>6. Lines(text) = SubSeq(all, a + 1, F)
  <2>1. SubSeq(text, (a - a) + 1, F - a) = SubSeq(all, a + 1, F)
    <3>1. a \in Nat /\ a <= a /\ F <= Len(all)
      BY <1>1
    <3> QED BY <1>1, <1>3, <3>1, PartOfRest
  <2>2. (a - a) + 1 = 1
    OBVIOUS
  <2> QED BY <1>5, <2>1, <2>2 DEF Lines
<1>7. LeftOver(text) = SubSeq(all, F + 1, Len(all))
  <2>1. SubSeq(text, (F - a) + 1, Len(all) - a) = SubSeq(all, F + 1, Len(all))
    BY <1>0, <1>1, <1>3, PartOfRest
  <2> QED BY <1>5, <2>1 DEF LeftOver
<1> QED BY <1>6, <1>7 DEF F

\* A chunk's lines: from the end of the lines before it to the end of its own.
LEMMA Chunked ==
  ASSUME NEW s \in Seq(Sym), NEW chunk \in Seq(Sym), Sound(s \o chunk)
  PROVE  LET all == s \o chunk
             text == SubSeq(s, Even(s) + 1, Len(s)) \o chunk
         IN  /\ Lines(text) = SubSeq(all, Even(s) + 1, Even(all))
             /\ LeftOver(text) = SubSeq(all, Even(all) + 1, Len(all))
             /\ Even(s) <= Even(all)
<1> DEFINE all == s \o chunk
           a == Even(s)
           text == SubSeq(s, a + 1, Len(s)) \o chunk
<1>1. all \in Seq(Sym) /\ Len(s) <= Len(all) /\ Len(s) \in Nat /\ Len(all) \in Nat
  OBVIOUS
<1>2. a \in Nat /\ a <= Len(s) /\ a % 2 = 0
  BY Zenon, <1>1, EvenFacts
<1>3. a <= Even(all)
  <2> HIDE DEF all, a
  <2>1. Even(all) \in Nat /\ Len(all) <= Even(all) + 1 /\ (Even(all) + 1) % 2 # 0
    BY Zenon, <1>1, EvenFacts
  <2>2. a # Even(all) + 1
    BY <1>2, <2>1
  <2> QED BY <1>1, <1>2, <2>1, <2>2
<1>4. text \in Seq(Sym) /\ Len(text) = Len(all) - a /\ \A i \in 1..Len(text) : text[i] = all[a + i]
  <2> HIDE DEF a
  <2>1. RestOf(Sym, all, a, text)
    BY <1>2, RestAndMore
  <2> QED BY Zenon, <2>1 DEF RestOf
<1>5. Sound(all)
  OBVIOUS
<1> HIDE DEF all, text, a
<1>6. /\ Lines(text) = SubSeq(all, a + 1, Even(all))
      /\ LeftOver(text) = SubSeq(all, Even(all) + 1, Len(all))
  BY <1>1, <1>2, <1>3, <1>4, <1>5, LinesOf
<1> QED BY <1>3, <1>6 DEF all, text, a

-----------------------------------------------------------------------------
(* A request, and what it has written of the text the provider sent.       *)


\* What the gateway writes to the browser.
Events == Sym \cup {Done, Error}

\* handleChat's request.
GwRec == [st : {"none", "asked", "refused", "open", "ended"},
          done : BOOLEAN,
          up : {"none", "asked", "refusing", "streaming", "over"},
          buf : Seq(Sym),
          out : Seq(Events)]

\* A request of these parts.
Made(st, done, up, buf, out) ==
  [st |-> st, done |-> done, up |-> up, buf |-> buf, out |-> out]

\* The payloads at which a provider's parser stops.
Ends(p) == IF p = "anthropic" THEN {"stop", "streamError"} ELSE {"stop"}

\* None of them is among the first n characters.
Free(s, n, ends) == \A i \in 1..n : s[i][1] \notin ends

\* The answer is complete at n: the stop follows, or the provider has ended.
Whole(up, s, n) == \/ n + 1 <= Even(s) /\ s[n + 1][1] = "stop"
                   \/ n = Even(s) /\ up = "over"

\* A request with no verdict yet: unless it is done (the browser has left) it
\* has told all complete lines.
Unended(g, s, n, ends) ==
  /\ g.out = Told(s, n) /\ g.st # "ended"
  /\ ~g.done => n = Even(s) /\ Free(s, n, ends)

\* A request whose verdict is an error.
Failed(g, s, n) == g.out = Append(Told(s, n), Error) /\ g.st = "ended" /\ g.done

\* A request whose verdict is done, which it writes only of a complete answer.
Completed(g, s, n) ==
  /\ g.out = Append(Told(s, n), Done) /\ g.st = "ended" /\ g.done
  /\ Free(s, n, {"stop"}) /\ Whole(g.up, s, n)

\* What the request g has written of the text s, of which it has told n
\* characters.
Tells(g, s, n, ends) == Unended(g, s, n, ends) \/ Failed(g, s, n) \/ Completed(g, s, n)

\* The part of the invariant about one request: it buffers the incomplete line
\* and has told the tokens of the complete ones, up to where the answer ended.
StreamOK(g, s, ends) ==
  /\ g \in GwRec /\ s \in Seq(Sym) /\ Len(s) <= MaxText /\ Sound(s)
  /\ g.buf = SubSeq(s, Even(s) + 1, Len(s))
  /\ g.st \in {"none", "asked", "refused"} => ~g.done /\ g.up = "none"
  /\ g.up = "none" => s = <<>>
  /\ \E n \in 0..Even(s) : Tells(g, s, n, ends)

\* From g to h a request only adds to what it has written, and nothing once it
\* is done.
Grows(g, h) ==
  /\ Len(g.out) <= Len(h.out) /\ \A i \in 1..Len(g.out) : h.out[i] = g.out[i]
  /\ g.done => h.done /\ h.out = g.out
  /\ g.st \in {"open", "ended"} => h.st \in {"open", "ended"}

\* A request's record, field by field.
LEMMA MadeFields ==
  ASSUME NEW g \in GwRec
  PROVE  /\ g = Made(g.st, g.done, g.up, g.buf, g.out)
         /\ g.st \in {"none", "asked", "refused", "open", "ended"} /\ g.done \in BOOLEAN
         /\ g.up \in {"none", "asked", "refusing", "streaming", "over"}
         /\ g.buf \in Seq(Sym) /\ g.out \in Seq(Events)
BY DEF GwRec, Made

\* The fields of a record that is made.
LEMMA FieldsMade ==
  ASSUME NEW st, NEW done, NEW up, NEW buf, NEW out
  PROVE  /\ Made(st, done, up, buf, out).st = st
         /\ Made(st, done, up, buf, out).done = done
         /\ Made(st, done, up, buf, out).up = up
         /\ Made(st, done, up, buf, out).buf = buf
         /\ Made(st, done, up, buf, out).out = out
BY DEF Made

\* Its type.
LEMMA MadeType ==
  ASSUME NEW st \in {"none", "asked", "refused", "open", "ended"}, NEW done \in BOOLEAN,
         NEW up \in {"none", "asked", "refusing", "streaming", "over"},
         NEW buf \in Seq(Sym), NEW out \in Seq(Events)
  PROVE  Made(st, done, up, buf, out) \in GwRec
BY DEF GwRec, Made

\* The updates the actions make.
LEMMA Updates ==
  ASSUME NEW g \in GwRec, NEW v
  PROVE  /\ [g EXCEPT !.st = v] = Made(v, g.done, g.up, g.buf, g.out)
         /\ [g EXCEPT !.done = v] = Made(g.st, v, g.up, g.buf, g.out)
         /\ [g EXCEPT !.up = v] = Made(g.st, g.done, v, g.buf, g.out)
         /\ [g EXCEPT !.buf = v] = Made(g.st, g.done, g.up, v, g.out)
         /\ [g EXCEPT !.out = @ \o v] = Made(g.st, g.done, g.up, g.buf, g.out \o v)
<1> DEFINE a == g.st
           b == g.done
           c == g.up
           d == g.buf
           e == g.out
<1>1. g = Made(a, b, c, d, e)
  BY Zenon, MadeFields
<1> HIDE DEF a, b, c, d, e
<1>2. [Made(a, b, c, d, e) EXCEPT !.st = v] = Made(v, b, c, d, e)
  BY DEF Made
<1>3. [Made(a, b, c, d, e) EXCEPT !.done = v] = Made(a, v, c, d, e)
  BY DEF Made
<1>4. [Made(a, b, c, d, e) EXCEPT !.up = v] = Made(a, b, v, d, e)
  BY DEF Made
<1>5. [Made(a, b, c, d, e) EXCEPT !.buf = v] = Made(a, b, c, v, e)
  BY DEF Made
<1>6. [Made(a, b, c, d, e) EXCEPT !.out = @ \o v] = Made(a, b, c, d, e \o v)
  BY DEF Made
<1> QED BY Zenon, <1>1, <1>2, <1>3, <1>4, <1>5, <1>6 DEF a, b, c, d, e

\* A verdict is written once.
LEMMA AnswerIs ==
  ASSUME NEW g \in GwRec, NEW e \in Events
  PROVE  Answer(g, e) = IF g.done THEN g ELSE Made("ended", TRUE, g.up, g.buf, Append(g.out, e))
<1> DEFINE h == [g EXCEPT !.done = TRUE, !.out = Append(@, e), !.st = "ended"]
<1>1. Append(g.out, e) \in Seq(Events)
  BY DEF GwRec
<1>2. h \in GwRec
  BY Zenon, <1>1 DEF GwRec
<1>3. h.st = "ended" /\ h.done = TRUE /\ h.up = g.up /\ h.buf = g.buf /\ h.out = Append(g.out, e)
  BY Zenon DEF GwRec
<1>4. Answer(g, e) = IF g.done THEN g ELSE h
  BY Zenon DEF Answer
<1> HIDE DEF h
<1>5. h = Made(h.st, h.done, h.up, h.buf, h.out)
  BY Zenon, <1>2, MadeFields
<1> QED BY Zenon, <1>3, <1>4, <1>5

\* What is told is a sequence of events.
LEMMA ToldType ==
  ASSUME NEW s \in Seq(Sym), Sound(s), NEW n \in 0..Len(s)
  PROVE  Told(s, n) \in Seq(TokenSet) /\ Told(s, n) \in Seq(Events)
<1>1. Told(s, n) \in Seq(TokenSet)
  BY ToldFacts DEF ToldOK
<1>2. TokenSet \subseteq Events
  BY DEF TokenSet, Sym, Events, Kinds
<1> QED BY <1>1, <1>2, SeqMonotonic

\* Where the tellings are.
LEMMA TellType ==
  ASSUME NEW g, NEW s, NEW ends, StreamOK(g, s, ends), NEW n \in 0..Even(s)
  PROVE  /\ g \in GwRec /\ s \in Seq(Sym) /\ Len(s) <= MaxText /\ Sound(s)
         /\ Even(s) \in Nat /\ Even(s) <= Len(s) /\ n \in Nat /\ n <= Len(s)
         /\ Told(s, n) \in Seq(TokenSet) /\ Told(s, n) \in Seq(Events)
<1>1. g \in GwRec /\ s \in Seq(Sym) /\ Len(s) <= MaxText /\ Sound(s)
  BY DEF StreamOK
<1>2. Even(s) \in Nat /\ Even(s) <= Len(s)
  BY <1>1, EvenFacts
<1>3. n \in Nat /\ n <= Len(s) /\ n \in 0..Len(s)
  BY <1>1, <1>2
<1>4. Told(s, n) \in Seq(TokenSet) /\ Told(s, n) \in Seq(Events)
  BY <1>1, <1>3, ToldType
<1> QED BY Zenon, <1>1, <1>2, <1>3, <1>4

\* The provider's side of a request goes on; its texts are as they were.
LEMMA UpOK ==
  ASSUME NEW g, NEW s, NEW ends, StreamOK(g, s, ends), g.st \in {"open", "ended"},
         NEW u \in {"asked", "refusing", "streaming", "over"}, g.up # "over" \/ u = "over"
  PROVE  StreamOK([g EXCEPT !.up = u], s, ends) /\ Grows(g, [g EXCEPT !.up = u])
<1> DEFINE h == [g EXCEPT !.up = u]
<1>1. g \in GwRec
  BY DEF StreamOK
<1>2. h \in GwRec /\ h.st = g.st /\ h.done = g.done /\ h.up = u /\ h.buf = g.buf /\ h.out = g.out
  BY Zenon, <1>1 DEF GwRec
<1> HIDE DEF h
<1>3. ASSUME NEW n \in 0..Even(s), Tells(g, s, n, ends) PROVE Tells(h, s, n, ends)
  <2>1. Whole(g.up, s, n) => Whole(u, s, n)
    BY DEF Whole
  <2> QED BY Zenon, <1>2, <1>3, <2>1 DEF Tells, Unended, Failed, Completed
<1>4. u # "none" /\ h.st \notin {"none", "asked", "refused"}
  BY <1>2
<1>5. StreamOK(h, s, ends)
  BY Zenon, <1>2, <1>3, <1>4 DEF StreamOK
<1>6. Grows(g, h)
  <2>1. Len(g.out) <= Len(h.out)
    BY <1>1, <1>2 DEF GwRec
  <2> QED BY Zenon, <1>2, <2>1 DEF Grows
<1> QED BY <1>5, <1>6 DEF h

\* A request of which nothing is told yet.
LEMMA StateOK ==
  ASSUME NEW g, NEW s, NEW ends, StreamOK(g, s, ends), g.st \in {"none", "asked"},
         NEW st \in {"asked", "refused", "open"}
  PROVE  StreamOK([g EXCEPT !.st = st], s, ends) /\ Grows(g, [g EXCEPT !.st = st])
<1> DEFINE h == [g EXCEPT !.st = st]
<1>1. g \in GwRec /\ ~g.done /\ g.up = "none"
  BY DEF StreamOK
<1>2. h \in GwRec /\ h.st = st /\ h.done = g.done /\ h.up = g.up /\ h.buf = g.buf /\ h.out = g.out
  BY Zenon, <1>1 DEF GwRec
<1> HIDE DEF h
<1>0. g.st # "ended" /\ st # "ended" /\ g.st \notin {"open", "ended"}
  OBVIOUS
<1>3. ASSUME NEW n \in 0..Even(s), Tells(g, s, n, ends) PROVE Tells(h, s, n, ends)
  BY Zenon, <1>0, <1>2, <1>3 DEF Tells, Unended, Failed, Completed
<1>5. StreamOK(h, s, ends)
  BY Zenon, <1>1, <1>2, <1>3 DEF StreamOK
<1>6. Grows(g, h)
  <2>1. Len(g.out) <= Len(h.out)
    BY <1>1, <1>2 DEF GwRec
  <2> QED BY Zenon, <1>0, <1>2, <2>1 DEF Grows
<1> QED BY <1>5, <1>6 DEF h

\* The browser's leaving ends a request without a verdict.
LEMMA CloseOK ==
  ASSUME NEW g, NEW s, NEW ends, StreamOK(g, s, ends), g.st = "open", ~g.done
  PROVE  StreamOK([g EXCEPT !.done = TRUE], s, ends) /\ Grows(g, [g EXCEPT !.done = TRUE])
<1> DEFINE h == [g EXCEPT !.done = TRUE]
<1>1. g \in GwRec
  BY DEF StreamOK
<1>2. h \in GwRec /\ h.st = g.st /\ h.done /\ h.up = g.up /\ h.buf = g.buf /\ h.out = g.out
  BY Zenon, <1>1 DEF GwRec
<1> HIDE DEF h
<1>3. ASSUME NEW n \in 0..Even(s), Tells(g, s, n, ends) PROVE Tells(h, s, n, ends)
  BY Zenon, <1>2, <1>3 DEF Tells, Unended, Failed, Completed
<1>4. h.st \notin {"none", "asked", "refused"}
  BY <1>2
<1>5. StreamOK(h, s, ends)
  BY Zenon, <1>2, <1>3, <1>4 DEF StreamOK
<1>6. Grows(g, h)
  <2>1. Len(g.out) <= Len(h.out)
    BY <1>1, <1>2 DEF GwRec
  <2> QED BY Zenon, <1>2, <2>1 DEF Grows
<1> QED BY <1>5, <1>6 DEF h

-----------------------------------------------------------------------------
(* The verdict, and text for a request that has had it.                    *)

\* A record made from another with a verdict at the end of what it wrote.
LEMMA AnswerOK ==
  ASSUME NEW g, NEW s, NEW ends, StreamOK(g, s, ends), g.st \in {"open", "ended"},
         NEW e \in {Done, Error}, "stop" \in ends, e = Done => g.up = "over"
  PROVE  StreamOK(Answer(g, e), s, ends) /\ Grows(g, Answer(g, e))
<1>0. g \in GwRec /\ e \in Events
  BY DEF StreamOK, Events
<1>1. CASE g.done
  <2>1. Answer(g, e) = g
    BY Zenon, <1>1 DEF Answer
  <2>2. Grows(g, g)
    <3>1. Len(g.out) <= Len(g.out)
      BY <1>0 DEF GwRec
    <3> QED BY Zenon, <3>1 DEF Grows
  <2> QED BY Zenon, <2>1, <2>2
<1>2. CASE ~g.done
  <2> DEFINE h == Answer(g, e)
             o == Append(g.out, e)
  <2>1. h = Made("ended", TRUE, g.up, g.buf, o)
    BY Zenon, <1>0, <1>2, AnswerIs
  <2>2. g.up \in {"none", "asked", "refusing", "streaming", "over"} /\ g.buf \in Seq(Sym)
        /\ g.out \in Seq(Events)
    BY <1>0 DEF GwRec
  <2>3. o \in Seq(Events) /\ Len(g.out) <= Len(o) /\ \A i \in 1..Len(g.out) : o[i] = g.out[i]
    BY <1>0, <2>2
  <2> HIDE DEF h, o
  <2>4. h \in GwRec
    <3>1. Made("ended", TRUE, g.up, g.buf, o) \in GwRec
      BY <2>2, <2>3, MadeType
    <3> QED BY Zenon, <2>1, <3>1
  <2>5. h.st = "ended" /\ h.done = TRUE /\ h.up = g.up /\ h.buf = g.buf /\ h.out = o
    BY Zenon, <2>1 DEF Made
  <2>6. PICK n \in 0..Even(s) : Tells(g, s, n, ends)
    BY Zenon DEF StreamOK
  <2>7. g.out = Told(s, n) /\ n = Even(s) /\ Free(s, n, ends)
    BY Zenon, <1>2, <2>6 DEF Tells, Unended, Failed, Completed
  <2>8. Free(s, n, {"stop"})
    BY <2>7 DEF Free
  <2>9. o = Append(Told(s, n), e)
    BY Zenon, <2>7 DEF o
  <2>10. Tells(h, s, n, ends)
    <3>1. CASE e = Error
      BY Zenon, <2>5, <2>9, <3>1 DEF Tells, Failed
    <3>2. CASE e = Done
      <4>1. Whole(h.up, s, n)
        BY Zenon, <2>5, <2>7, <3>2 DEF Whole
      <4> QED BY Zenon, <2>5, <2>8, <2>9, <3>2, <4>1 DEF Tells, Completed
    <3> QED BY <3>1, <3>2
  <2>11. h.st \notin {"none", "asked", "refused"} /\ h.st \in {"open", "ended"}
    BY <2>5
  <2>12. StreamOK(h, s, ends)
    BY Zenon, <2>4, <2>5, <2>10, <2>11 DEF StreamOK
  <2>13. Grows(g, h)
    BY Zenon, <1>2, <2>3, <2>5, <2>11 DEF Grows
  <2> QED BY Zenon, <2>12, <2>13 DEF h
<1> QED BY <1>1, <1>2

\* What holds of a text that has grown.
Grown(s, chunk) ==
  /\ s \in Seq(Sym) /\ chunk \in Seq(Sym) /\ Sound(s) /\ Sound(s \o chunk)
  /\ Len(s \o chunk) <= MaxText

\* What a longer text keeps of a shorter one.
LEMMA GrownFacts ==
  ASSUME NEW s, NEW chunk, Grown(s, chunk), NEW n \in 0..Even(s)
  PROVE  /\ Even(s) \in Nat /\ Even(s) <= Len(s) /\ Even(s) <= Even(s \o chunk)
         /\ Even(s \o chunk) \in Nat /\ Even(s \o chunk) <= Len(s \o chunk)
         /\ s \o chunk \in Seq(Sym) /\ n \in 0..Even(s \o chunk)
         /\ Told(s \o chunk, n) = Told(s, n)
         /\ \A i \in 1..Len(s) : (s \o chunk)[i] = s[i]
<1>1. /\ s \in Seq(Sym) /\ chunk \in Seq(Sym) /\ Sound(s \o chunk)
      /\ s \o chunk \in Seq(Sym) /\ Len(s) \in Nat /\ Len(s \o chunk) \in Nat
  BY DEF Grown
<1>2. Even(s) \in Nat /\ Even(s) <= Len(s)
  BY Zenon, <1>1, EvenFacts
<1>3. Even(s \o chunk) \in Nat /\ Even(s \o chunk) <= Len(s \o chunk)
  BY Zenon, <1>1, EvenFacts
<1>4. Even(s) <= Even(s \o chunk)
  BY Zenon, <1>1, Chunked
<1>5. n \in 0..Len(s) /\ n \in 0..Even(s \o chunk)
  <2> DEFINE a == Even(s)
             b == Even(s \o chunk)
  <2>1. a \in Nat /\ b \in Nat /\ a <= b /\ a <= Len(s) /\ n \in 0..a /\ Len(s) \in Nat
    BY <1>1, <1>2, <1>3, <1>4
  <2> HIDE DEF a, b
  <2>2. n \in 0..Len(s) /\ n \in 0..b
    BY <2>1
  <2> QED BY <2>2 DEF b
<1>6. Told(s \o chunk, n) = Told(s, n)
  BY Zenon, <1>1, <1>5, ToldPrefix
<1>7. \A i \in 1..Len(s) : (s \o chunk)[i] = s[i]
  BY <1>1
<1> QED BY Zenon, <1>1, <1>2, <1>3, <1>4, <1>5, <1>6, <1>7

\* More text says nothing to a request that is done.
LEMMA DoneOK ==
  ASSUME NEW g, NEW s, NEW ends, StreamOK(g, s, ends), g.up = "streaming", g.done,
         NEW chunk, Grown(s, chunk), NEW b,
         b = SubSeq(s \o chunk, Even(s \o chunk) + 1, Len(s \o chunk))
  PROVE  StreamOK([g EXCEPT !.buf = b], s \o chunk, ends) /\ Grows(g, [g EXCEPT !.buf = b])
<1> DEFINE h == [g EXCEPT !.buf = b]
           all == s \o chunk
<1>1. g \in GwRec
  BY DEF StreamOK
<1>2. PICK n \in 0..Even(s) : Tells(g, s, n, ends)
  BY Zenon DEF StreamOK
<1>3. /\ Even(s) \in Nat /\ Even(s) <= Len(s) /\ Even(s) <= Even(all)
      /\ Even(all) \in Nat /\ Even(all) <= Len(all)
      /\ all \in Seq(Sym) /\ n \in 0..Even(all)
      /\ Told(all, n) = Told(s, n)
      /\ \A i \in 1..Len(s) : all[i] = s[i]
  BY Zenon, GrownFacts
<1>4. Sound(all) /\ Len(all) <= MaxText /\ Len(s) \in Nat
  BY DEF Grown
<1>5. b = SubSeq(all, Even(all) + 1, Len(all))
  BY Zenon
<1> HIDE DEF all
<1>6. b \in Seq(Sym)
  <2> DEFINE x == Even(all)
             y == Len(all)
  <2>1. x \in Nat /\ y \in Nat /\ x <= y
    BY <1>3
  <2> HIDE DEF x
  <2>2. SubSeq(all, x + 1, y) \in Seq(Sym)
    BY <1>3, <2>1, PartOf
  <2> QED BY Zenon, <1>5, <2>2 DEF x
<1>7. h \in GwRec /\ h.st = g.st /\ h.done = g.done /\ h.up = g.up /\ h.buf = b /\ h.out = g.out
  BY Zenon, <1>1, <1>6 DEF GwRec
<1> HIDE DEF h
<1>8. Tells(h, all, n, ends)
  <2>1. CASE Unended(g, s, n, ends)
    BY Zenon, <1>3, <1>7, <2>1 DEF Tells, Unended
  <2>2. CASE Failed(g, s, n)
    BY Zenon, <1>3, <1>7, <2>2 DEF Tells, Failed
  <2>3. CASE Completed(g, s, n)
    <3>1. n + 1 <= Even(s) /\ s[n + 1][1] = "stop"
      BY <2>3 DEF Completed, Whole
    <3>2. n + 1 <= Even(all) /\ all[n + 1][1] = "stop"
      BY <1>3, <1>4, <3>1
    <3>3. Free(all, n, {"stop"})
      <4>1. Free(s, n, {"stop"})
        BY <2>3 DEF Completed
      <4>2. \A i \in 1..n : i \in 1..Len(s)
        BY <1>3, <1>4
      <4> QED BY Zenon, <1>3, <4>1, <4>2 DEF Free
    <3> QED BY Zenon, <1>3, <1>7, <2>3, <3>2, <3>3 DEF Tells, Completed, Whole
  <2> QED BY Zenon, <1>2, <2>1, <2>2, <2>3 DEF Tells
<1>9. /\ h.st \in {"none", "asked", "refused"} => ~h.done /\ h.up = "none"
      /\ h.up # "none"
  BY Zenon, <1>7 DEF StreamOK
<1>10. StreamOK(h, all, ends)
  BY Zenon, <1>3, <1>4, <1>5, <1>7, <1>8, <1>9 DEF StreamOK
<1>11. Grows(g, h)
  <2>1. Len(g.out) <= Len(h.out)
    BY <1>1, <1>7 DEF GwRec
  <2> QED BY Zenon, <1>7, <2>1 DEF Grows
<1> QED BY Zenon, <1>10, <1>11 DEF h, all

-----------------------------------------------------------------------------
(* A chunk.                                                                *)

\* The beginning of a part of a sequence.
LEMMA PartOfPart ==
  ASSUME NEW S, NEW s \in Seq(S), NEW a \in Nat, NEW b \in Nat, a <= b, b <= Len(s),
         NEW k \in 0..(b - a)
  PROVE  SubSeq(SubSeq(s, a + 1, b), 1, k) = SubSeq(s, a + 1, a + k)
<1> DEFINE r == SubSeq(s, a + 1, b)
           q == SubSeq(s, a + 1, a + k)
           p == SubSeq(r, 1, k)
<1>1. r \in Seq(S) /\ Len(r) = b - a /\ \A i \in 1..(b - a) : r[i] = s[a + i]
  BY PartOf
<1>2. a + k \in Nat /\ a <= a + k /\ a + k <= Len(s) /\ (a + k) - a = k
  OBVIOUS
<1>3. q \in Seq(S) /\ Len(q) = k /\ \A i \in 1..k : q[i] = s[a + i]
  <2> DEFINE c == a + k
  <2>1. c \in Nat /\ a <= c /\ c <= Len(s) /\ c - a = k
    BY <1>2
  <2> HIDE DEF c
  <2>2. SubSeq(s, a + 1, c) \in Seq(S) /\ Len(SubSeq(s, a + 1, c)) = c - a
        /\ \A i \in 1..(c - a) : SubSeq(s, a + 1, c)[i] = s[a + i]
    BY <2>1, PartOf
  <2> QED BY <2>1, <2>2 DEF c
<1> HIDE DEF r
<1>4. p \in Seq(S) /\ Len(p) = k /\ \A i \in 1..k : p[i] = r[i]
  <2>1. 0 \in Nat /\ k \in Nat /\ 0 <= k /\ k <= Len(r)
    BY <1>1
  <2>2. /\ SubSeq(r, 0 + 1, k) \in Seq(S) /\ Len(SubSeq(r, 0 + 1, k)) = k - 0
        /\ \A i \in 1..(k - 0) : SubSeq(r, 0 + 1, k)[i] = r[0 + i]
    BY <1>1, <2>1, PartOf
  <2> QED BY <2>1, <2>2
<1> HIDE DEF p, q
<1>5. ASSUME NEW i \in 1..k PROVE p[i] = q[i]
  <2>1. i \in 1..(b - a)
    OBVIOUS
  <2> QED BY Zenon, <1>1, <1>3, <1>4, <2>1
<1>6. p = q
  BY <1>3, <1>4, <1>5, SeqEqual
<1> QED BY <1>6 DEF p, q, r

\* What is read of a chunk goes on where the text before it ended.
Reads(s, all, ends, p) ==
  \E m \in Even(s)..Even(all) :
    /\ Free(all, m, ends) /\ p.tokens \in Seq(Sym)
    /\ Told(all, m) = Told(all, Even(s)) \o p.tokens
    /\ \/ p.end = "more" /\ m = Even(all)
       \/ p.end \in ends /\ m + 1 <= Even(all) /\ all[m + 1][1] = p.end


\* A chunk is read so, whatever is in it.
LEMMA ReadChunk ==
  ASSUME NEW all \in Seq(Sym), NEW s, Even(s) \in Nat, Even(s) <= Even(all),
         Even(all) \in Nat, Even(all) <= Len(all), NEW ends,
         Free(all, Even(s), ends)
  PROVE  Reads(s, all, ends, ReadLines(SubSeq(all, Even(s) + 1, Even(all)), ends))
<1> DEFINE a == Even(s)
           b == Even(all)
           lines == SubSeq(all, a + 1, b)
           p == ReadLines(lines, ends)
<1>1. a \in Nat /\ b \in Nat /\ a <= b /\ b <= Len(all) /\ Len(all) \in Nat
  OBVIOUS
<1>0. Free(all, a, ends)
  OBVIOUS
<1> HIDE DEF a, b
<1>2. /\ lines \in Seq(Sym) /\ Len(lines) = b - a
      /\ \A i \in 1..(b - a) : lines[i] = all[a + i]
  BY <1>1, PartOf
<1>3. \A k \in 0..(b - a) :
        /\ Tokens(SubSeq(lines, 1, k)) \in Seq(Sym)
        /\ Told(all, a + k) = Told(all, a) \o Tokens(SubSeq(lines, 1, k))
  <2> TAKE k \in 0..(b - a)
  <2>1. SubSeq(lines, 1, k) = SubSeq(all, a + 1, a + k)
    BY <1>1, PartOfPart
  <2>2. a \in 0..Len(all) /\ a + k \in a..Len(all)
    BY <1>1
  <2>3. Told(all, a + k) = Told(all, a) \o Tokens(SubSeq(all, a + 1, a + k))
    <3> DEFINE c == a + k
    <3>1. c \in a..Len(all)
      BY <2>2
    <3> HIDE DEF c
    <3>2. Told(all, c) = Told(all, a) \o Tokens(SubSeq(all, a + 1, c))
      BY Zenon, <2>2, <3>1, ToldGrows
    <3> QED BY <3>2 DEF c
  <2>4. SubSeq(lines, 1, k) \in Seq(Sym)
    <3> HIDE DEF lines
    <3> QED BY <1>1, <1>2
  <2>5. Tokens(SubSeq(lines, 1, k)) \in Seq(Sym)
    BY Zenon, <2>4, SiftType DEF Tokens
  <2> QED BY Zenon, <2>1, <2>3, <2>5
<1>4. ASSUME NEW k \in 0..(b - a), \A i \in 1..k : lines[i][1] \notin ends
      PROVE  Free(all, a + k, ends)
  <2>1. ASSUME NEW i \in 1..(a + k) PROVE all[i][1] \notin ends
    <3>1. CASE i <= a
      BY <1>0, <1>1, <3>1 DEF Free
    <3>2. CASE i > a
      <4>1. i - a \in 1..k /\ i - a \in 1..(b - a) /\ a + (i - a) = i
        BY <1>1, <3>2
      <4>2. lines[i - a] = all[i]
        BY <1>2, <4>1
      <4> QED BY Zenon, <1>4, <4>1, <4>2
    <3> QED BY <1>1, <3>1, <3>2
  <2> QED BY <2>1 DEF Free
<1>5. ASSUME \A i \in 1..Len(lines) : lines[i][1] \notin ends,
             p = [tokens |-> Tokens(lines), end |-> "more"]
      PROVE  Reads(s, all, ends, p)
  <2>1. b - a \in 0..(b - a) /\ a + (b - a) = b /\ b \in a..b
    BY <1>1
  <2>2. SubSeq(lines, 1, b - a) = lines
    <3> HIDE DEF lines
    <3> QED BY <1>1, <1>2, SubSeqFull
  <2>3. p.tokens = Tokens(lines) /\ p.end = "more"
    <3> HIDE DEF p
    <3> QED BY Zenon, <1>5
  <2>4. Free(all, b, ends)
    BY <1>2, <1>4, <1>5, <2>1
  <2> HIDE DEF p, lines
  <2>5. Tokens(lines) \in Seq(Sym) /\ Told(all, b) = Told(all, a) \o Tokens(lines)
    BY Zenon, <1>3, <2>1, <2>2
  <2> QED BY Zenon, <2>1, <2>3, <2>4, <2>5 DEF Reads, a, b, p, lines
<1>6. ASSUME NEW k \in 1..Len(lines), First(lines, ends, k),
             p = [tokens |-> Tokens(SubSeq(lines, 1, k - 1)), end |-> lines[k][1]]
      PROVE  Reads(s, all, ends, p)
  <2> DEFINE j == k - 1
  <2>1. j \in 0..(b - a) /\ a + j \in a..b /\ a + j + 1 = a + k /\ a + k <= b /\ k \in 1..(b - a)
    BY <1>1, <1>2
  <2>2. p.tokens = Tokens(SubSeq(lines, 1, j)) /\ p.end = lines[k][1]
    <3> HIDE DEF p
    <3> QED BY Zenon, <1>6
  <2>3. Free(all, a + j, ends)
    <3>1. \A i \in 1..j : lines[i][1] \notin ends
      BY Zenon, <1>6 DEF First
    <3> HIDE DEF j
    <3> QED BY Zenon, <1>4, <2>1, <3>1
  <2>4. lines[k][1] \in ends
    BY Zenon, <1>6 DEF First
  <2>5. lines[k] = all[a + j + 1]
    BY <1>2, <2>1
  <2> HIDE DEF p, lines, j
  <2>6. Tokens(SubSeq(lines, 1, j)) \in Seq(Sym)
        /\ Told(all, a + j) = Told(all, a) \o Tokens(SubSeq(lines, 1, j))
    BY Zenon, <1>3, <2>1
  <2>7. a + j + 1 <= b
    BY Zenon, <2>1
  <2> QED BY Zenon, <2>1, <2>2, <2>3, <2>4, <2>5, <2>6, <2>7 DEF Reads, a, b
<1>7. \/ /\ \A i \in 1..Len(lines) : lines[i][1] \notin ends
         /\ p = [tokens |-> Tokens(lines), end |-> "more"]
      \/ \E k \in 1..Len(lines) :
           /\ First(lines, ends, k)
           /\ p = [tokens |-> Tokens(SubSeq(lines, 1, k - 1)), end |-> lines[k][1]]
  <2> HIDE DEF lines
  <2> QED BY <1>2, ReadLinesIs
<1>8. Reads(s, all, ends, p)
  <2> HIDE DEF p, lines
  <2>1. CASE /\ \A i \in 1..Len(lines) : lines[i][1] \notin ends
             /\ p = [tokens |-> Tokens(lines), end |-> "more"]
    BY Zenon, <1>5, <2>1
  <2>2. CASE \E k \in 1..Len(lines) :
               /\ First(lines, ends, k)
               /\ p = [tokens |-> Tokens(SubSeq(lines, 1, k - 1)), end |-> lines[k][1]]
    BY <1>6, <2>2
  <2> QED BY <1>7, <2>1, <2>2
<1> QED BY Zenon, <1>8 DEF p, lines, a, b

\* What Data makes of a request.
Heard(g, chunk, ends) ==
  LET text == g.buf \o chunk
      p == ReadLines(Lines(text), ends)
      h == onToken([g EXCEPT !.buf = LeftOver(text)], p.tokens)
  IN CASE p.end = "more" -> h
       [] p.end = "stop" -> onDone(h)
       [] OTHER -> onError(h)

\* A request that has heard more of its text.
LEMMA HeardOK ==
  ASSUME NEW s, NEW chunk, Grown(s, chunk), NEW ends,
         NEW h \in GwRec, h.up = "streaming", h.st \in {"open", "ended"},
         h.buf = SubSeq(s \o chunk, Even(s \o chunk) + 1, Len(s \o chunk)),
         NEW n \in 0..Even(s \o chunk), Tells(h, s \o chunk, n, ends)
  PROVE  StreamOK(h, s \o chunk, ends)
<1>1. h.st \notin {"none", "asked", "refused"} /\ h.up # "none"
  OBVIOUS
<1>2. s \o chunk \in Seq(Sym) /\ Len(s \o chunk) <= MaxText /\ Sound(s \o chunk)
  BY DEF Grown
<1> QED BY Zenon, <1>1, <1>2 DEF StreamOK

\* A chunk keeps a request's texts in step, whatever it holds.
LEMMA DataOK ==
  ASSUME NEW g, NEW s, NEW ends, StreamOK(g, s, ends), g.up = "streaming",
         NEW chunk, Grown(s, chunk), "stop" \in ends, "more" \notin ends
  PROVE  StreamOK(Heard(g, chunk, ends), s \o chunk, ends) /\ Grows(g, Heard(g, chunk, ends))
<1> DEFINE all == s \o chunk
           text == g.buf \o chunk
           b == LeftOver(text)
           p == ReadLines(Lines(text), ends)
           f == [g EXCEPT !.buf = b]
           h == onToken(f, p.tokens)
<1>0. Heard(g, chunk, ends) = CASE p.end = "more" -> h
                                [] p.end = "stop" -> onDone(h)
                                [] OTHER -> onError(h)
  BY Zenon DEF Heard
<1>1. g \in GwRec /\ g.buf = SubSeq(s, Even(s) + 1, Len(s)) /\ g.st \in {"open", "ended"}
  BY DEF StreamOK, GwRec
<1>2. s \in Seq(Sym) /\ chunk \in Seq(Sym) /\ Sound(all) /\ all \in Seq(Sym)
      /\ Len(all) <= MaxText /\ Len(s) \in Nat
  BY DEF Grown
<1>3. Lines(text) = SubSeq(all, Even(s) + 1, Even(all)) /\ b = SubSeq(all, Even(all) + 1, Len(all))
  BY Zenon, <1>1, <1>2, Chunked
<1>4. PICK n \in 0..Even(s) : Tells(g, s, n, ends)
  BY Zenon DEF StreamOK
<1>5. /\ Even(s) \in Nat /\ Even(s) <= Len(s) /\ Even(s) <= Even(all)
      /\ Even(all) \in Nat /\ Even(all) <= Len(all)
      /\ \A i \in 1..Len(s) : all[i] = s[i]
  BY Zenon, GrownFacts
<1>6. CASE g.done
  <2>1. f.done
    BY Zenon, <1>1, <1>6 DEF GwRec
  <2>2. h = f
    <3> HIDE DEF f, p
    <3> QED BY Zenon, <2>1 DEF onToken
  <2>3. onDone(f) = f /\ onError(f) = f
    <3> HIDE DEF f
    <3> QED BY Zenon, <2>1 DEF onDone, onError, Answer
  <2>4. Heard(g, chunk, ends) = f
    <3> HIDE DEF f, h, p
    <3> QED BY Zenon, <1>0, <2>2, <2>3
  <2>5. StreamOK(f, all, ends) /\ Grows(g, f)
    <3> HIDE DEF b
    <3> QED BY Zenon, <1>3, <1>6, DoneOK
  <2> QED BY Zenon, <2>4, <2>5
<1>7. CASE ~g.done
  <2> DEFINE t == p.tokens
  <2>1. g.st = "open" /\ n = Even(s) /\ g.out = Told(s, Even(s)) /\ Free(s, Even(s), ends)
    <3>1. Unended(g, s, n, ends)
      BY Zenon, <1>4, <1>7 DEF Tells, Failed, Completed
    <3>2. n = Even(s) /\ g.st # "ended" /\ g.out = Told(s, n) /\ Free(s, n, ends)
      BY Zenon, <1>7, <3>1 DEF Unended
    <3> QED BY <1>1, <3>2
  <2>2. Told(all, Even(s)) = Told(s, Even(s))
    BY <2>1, GrownFacts
  <2>3. Free(all, Even(s), ends)
    <3>1. \A i \in 1..Even(s) : i \in 1..Len(s)
      BY <1>2, <1>5
    <3> HIDE DEF all
    <3> QED BY Zenon, <1>5, <2>1, <3>1 DEF Free
  <2>4. Reads(s, all, ends, p)
    <3>1. Reads(s, all, ends, ReadLines(SubSeq(all, Even(s) + 1, Even(all)), ends))
      <4> HIDE DEF all
      <4> QED BY Zenon, <1>2, <1>5, <2>3, ReadChunk
    <3> QED BY Zenon, <1>3, <3>1
  <2>5. b \in Seq(Sym)
    <3> DEFINE x == Even(all)
               y == Len(all)
    <3>1. x \in Nat /\ y \in Nat /\ x <= y
      BY <1>2, <1>5
    <3> HIDE DEF x, all, b
    <3>2. SubSeq(all, x + 1, y) \in Seq(Sym)
      BY <1>2, <3>1, PartOf
    <3> QED BY Zenon, <1>3, <3>2 DEF x
  <2> HIDE DEF b, p, all
  <2>6. f \in GwRec /\ f.st = g.st /\ f.done = g.done /\ f.up = g.up /\ f.buf = b /\ f.out = g.out
    BY Zenon, <1>1, <2>5 DEF GwRec
  <2> HIDE DEF f
  <2>7. PICK m \in Even(s)..Even(all) :
          /\ Free(all, m, ends) /\ t \in Seq(Sym)
          /\ Told(all, m) = Told(all, Even(s)) \o t
          /\ \/ p.end = "more" /\ m = Even(all)
             \/ p.end \in ends /\ m + 1 <= Even(all) /\ all[m + 1][1] = p.end
    BY Zenon, <2>4 DEF Reads
  <2>8. h = [f EXCEPT !.out = @ \o t]
    BY Zenon, <1>7, <2>6 DEF onToken
  <2>9. m \in 0..Even(all) /\ m \in 0..Len(all)
    BY <1>2, <1>5
  <2> DEFINE o == Told(all, m)
  <2>10. o \in Seq(Events) /\ o = g.out \o t
    <3>1. o \in Seq(Events)
      BY Zenon, <1>2, <2>9, ToldType
    <3> QED BY Zenon, <2>1, <2>2, <2>7, <3>1
  <2>11. h \in GwRec /\ h.st = "open" /\ h.done = g.done /\ h.up = "streaming" /\ h.buf = b /\ h.out = o
    <3> HIDE DEF o
    <3>0. h = Made(f.st, f.done, f.up, f.buf, f.out \o t)
      BY Zenon, <2>6, <2>8, Updates
    <3>1. h = Made(g.st, g.done, g.up, b, o)
      BY Zenon, <2>6, <2>10, <3>0
    <3>2. h.st = g.st /\ h.done = g.done /\ h.up = g.up /\ h.buf = b /\ h.out = o
      <4> HIDE DEF h
      <4> QED BY Zenon, <3>1 DEF Made
    <3>3. h \in GwRec
      <4>1. g.st \in {"none", "asked", "refused", "open", "ended"} /\ g.done \in BOOLEAN
            /\ g.up \in {"none", "asked", "refusing", "streaming", "over"}
        BY Zenon, <1>1, MadeFields
      <4>2. Made(g.st, g.done, g.up, b, o) \in GwRec
        BY Zenon, <2>5, <2>10, <4>1, MadeType
      <4> QED BY Zenon, <3>1, <4>2
    <3> QED BY Zenon, <2>1, <3>2, <3>3
  <2>12. Len(g.out) <= Len(o) /\ \A i \in 1..Len(g.out) : o[i] = g.out[i]
    <3>1. g.out \in Seq(Events) /\ t \in Seq(Sym)
      BY <1>1, <2>7 DEF GwRec
    <3> HIDE DEF o, t
    <3>2. \A x \in Seq(Events), y \in Seq(Sym) :
            Len(x) <= Len(x \o y) /\ \A i \in 1..Len(x) : (x \o y)[i] = x[i]
      OBVIOUS
    <3> QED BY Zenon, <2>10, <3>1, <3>2
  <2> HIDE DEF h, o, t
  <2>13. CASE p.end = "more"
    <3>1. Heard(g, chunk, ends) = h
      BY Zenon, <1>0, <2>13
    <3>2. m = Even(all)
      BY Zenon, <2>7, <2>13
    <3>3. Tells(h, all, m, ends)
      <4>1. "open" # "ended"
        OBVIOUS
      <4> QED BY Zenon, <2>7, <2>11, <3>2, <4>1 DEF Tells, Unended, o
    <3>4. StreamOK(h, all, ends)
      BY Zenon, <1>3, <2>9, <2>11, <3>3, HeardOK DEF all
    <3>5. Grows(g, h)
      BY Zenon, <1>7, <2>11, <2>12 DEF Grows
    <3> QED BY Zenon, <3>1, <3>4, <3>5 DEF all
  <2>14. CASE p.end # "more"
    <3> DEFINE e == IF p.end = "stop" THEN Done ELSE Error
               k == Answer(h, e)
    <3>1. Heard(g, chunk, ends) = k
      BY Zenon, <1>0, <2>14 DEF onDone, onError
    <3>2. m + 1 <= Even(all) /\ all[m + 1][1] = p.end /\ Free(all, m, ends)
      BY Zenon, <2>7, <2>14
    <3>3. e \in {Done, Error} /\ e \in Events /\ (e = Done => p.end = "stop")
      BY DEF Events, Done, Error
    <3> HIDE DEF e
    <3>4. k = Made("ended", TRUE, h.up, h.buf, Append(h.out, e))
      BY Zenon, <1>7, <2>11, <3>3, AnswerIs
    <3>5. k.st = "ended" /\ k.done = TRUE /\ k.up = "streaming" /\ k.buf = b /\ k.out = Append(o, e)
      <4> HIDE DEF k
      <4> QED BY Zenon, <2>11, <3>4 DEF Made
    <3>6. Append(o, e) \in Seq(Events) /\ Len(o) <= Len(Append(o, e))
          /\ Len(o) \in Nat /\ \A i \in 1..Len(o) : Append(o, e)[i] = o[i]
      BY <2>10, <3>3
    <3>7. k \in GwRec
      <4>1. Made("ended", TRUE, "streaming", b, Append(o, e)) \in GwRec
        BY <2>5, <3>6, MadeType
      <4> QED BY Zenon, <2>11, <3>4, <4>1
    <3> HIDE DEF k
    <3>8. Tells(k, all, m, ends)
      <4>1. CASE e = Error
        BY Zenon, <3>5, <4>1 DEF Tells, Failed, o
      <4>2. CASE e = Done
        <5>1. Free(all, m, {"stop"})
          BY <3>2 DEF Free
        <5>2. Whole(k.up, all, m)
          BY Zenon, <3>2, <3>3, <4>2 DEF Whole
        <5> QED BY Zenon, <3>5, <4>2, <5>1, <5>2 DEF Tells, Completed, o
      <4> QED BY Zenon, <3>3, <4>1, <4>2
    <3>9. k.st \in {"open", "ended"}
      BY <3>5
    <3>10. StreamOK(k, all, ends)
      BY Zenon, <1>3, <2>9, <3>5, <3>7, <3>8, <3>9, HeardOK DEF all
    <3>11. Grows(g, k)
      <4>1. Len(g.out) <= Len(Append(o, e)) /\ \A i \in 1..Len(g.out) : Append(o, e)[i] = g.out[i]
        <5>1. Len(g.out) \in Nat
          BY <1>1 DEF GwRec
        <5>2. \A i \in 1..Len(g.out) : i \in 1..Len(o)
          BY <2>12, <3>6, <5>1
        <5>3. Len(g.out) <= Len(Append(o, e))
          <6> DEFINE x == Len(Append(o, e))
          <6>1. x \in Nat
            BY <3>6
          <6> HIDE DEF x
          <6>2. Len(o) <= x
            BY <3>6 DEF x
          <6>3. Len(g.out) <= x
            BY <2>12, <3>6, <5>1, <6>1, <6>2
          <6> QED BY <6>3 DEF x
        <5> QED BY Zenon, <2>12, <3>6, <5>2, <5>3
      <4> QED BY Zenon, <1>7, <3>5, <3>9, <4>1 DEF Grows
    <3> QED BY Zenon, <3>1, <3>10, <3>11 DEF all
  <2> QED BY <2>13, <2>14
<1> QED BY <1>6, <1>7

-----------------------------------------------------------------------------
(* The page and the invariant.                                             *)

\* Half of a number.
LEMMA Half ==
  ASSUME NEW m \in Nat, NEW k \in Nat, 2 * k <= m
  PROVE  k <= m \div 2
OBVIOUS

\* What a request has written: tokens, and a verdict if it has ended.
Written(g) ==
  /\ \A i \in 1..Len(g.out) :
       /\ g.out[i] \in {Done, Error} <=> g.st = "ended" /\ i = Len(g.out)
       /\ g.out[i] \notin {Done, Error} => g.out[i] \in TokenSet
  /\ g.st = "ended" => g.done /\ Len(g.out) >= 1
  /\ Len(g.out) \in Nat /\ Len(g.out) <= MaxText \div 2 + 1

\* A verdict is no token.
LEMMA NoVerdict == ASSUME NEW x \in TokenSet PROVE x \notin {Done, Error} /\ x[1] = "token"
BY DEF TokenSet, Done, Error

\* So it is for every request.
LEMMA WrittenOK ==
  ASSUME NEW g, NEW s, NEW ends, StreamOK(g, s, ends)
  PROVE  Written(g)
<1>1. PICK n \in 0..Even(s) : Tells(g, s, n, ends)
  BY Zenon DEF StreamOK
<1> DEFINE t == Told(s, n)
<1>2. /\ s \in Seq(Sym) /\ Sound(s) /\ Len(s) <= MaxText /\ n \in 0..Len(s)
      /\ Even(s) \in Nat /\ Even(s) <= Len(s) /\ Even(s) % 2 = 0
  <2>1. s \in Seq(Sym) /\ Sound(s) /\ Len(s) <= MaxText /\ Len(s) \in Nat
    BY DEF StreamOK
  <2>2. Even(s) \in Nat /\ Even(s) <= Len(s) /\ Even(s) % 2 = 0
    BY Zenon, <2>1, EvenFacts
  <2>3. n \in 0..Len(s)
    BY <2>1, <2>2
  <2> QED BY Zenon, <2>1, <2>2, <2>3
<1>3. t \in Seq(TokenSet) /\ 2 * Len(t) <= n + (n % 2)
  BY Zenon, <1>2, ToldFacts DEF ToldOK
<1> HIDE DEF t
<1>4. Len(t) \in Nat /\ \A i \in 1..Len(t) : t[i] \in TokenSet
  BY <1>3
<1>5. Len(t) <= MaxText \div 2
  <2>1. n + (n % 2) <= Even(s)
    <3> DEFINE e == Even(s)
    <3>1. e \in Nat /\ e % 2 = 0 /\ n \in 0..e
      BY <1>2
    <3> HIDE DEF e
    <3>2. n + (n % 2) <= e
      BY <3>1
    <3> QED BY <3>2 DEF e
  <2>2. 2 * Len(t) <= Even(s)
    <3>1. n % 2 \in Nat
      BY <1>2
    <3> QED BY <1>2, <1>3, <1>4, <2>1, <3>1
  <2>3. 2 * Len(t) <= MaxText /\ MaxText \in Nat
    <3>1. MaxText \in Nat /\ Len(s) \in Nat
      BY <1>2, ChatAssumption
    <3> QED BY <1>2, <1>4, <2>2, <3>1
  <2> QED BY <1>4, <2>3, Half
<1>6. MaxText \div 2 \in Nat
  BY ChatAssumption
<1>7. CASE Unended(g, s, n, ends)
  <2>1. g.out = t /\ g.st # "ended"
    BY Zenon, <1>7 DEF Unended, t
  <2>2. Len(t) <= MaxText \div 2 + 1
    BY <1>4, <1>5, <1>6
  <2> QED BY Zenon, <1>4, <2>1, <2>2, NoVerdict DEF Written
<1>8. ASSUME NEW e \in {Done, Error}, g.out = Append(t, e), g.st = "ended", g.done
      PROVE  Written(g)
  <2> DEFINE o == g.out
  <2>1. /\ Len(o) = Len(t) + 1 /\ o[Len(t) + 1] = e /\ \A i \in 1..Len(t) : o[i] = t[i]
    BY <1>3, <1>8
  <2>2. ASSUME NEW i \in 1..Len(o)
        PROVE  /\ o[i] \in {Done, Error} <=> g.st = "ended" /\ i = Len(o)
               /\ o[i] \notin {Done, Error} => o[i] \in TokenSet
    <3> HIDE DEF o
    <3>1. CASE i \in 1..Len(t)
      <4>1. o[i] \in TokenSet /\ i # Len(o)
        BY <1>4, <2>1, <3>1
      <4> QED BY Zenon, <4>1, NoVerdict
    <3>2. CASE i = Len(t) + 1
      BY Zenon, <1>8, <2>1, <3>2
    <3> QED BY <1>4, <2>1, <3>1, <3>2
  <2>3. Len(o) \in Nat /\ Len(o) >= 1 /\ Len(o) <= MaxText \div 2 + 1
    <3> HIDE DEF o
    <3> QED BY <1>4, <1>5, <1>6, <2>1
  <2> QED BY Zenon, <1>8, <2>2, <2>3 DEF Written
<1>9. CASE Failed(g, s, n)
  BY <1>8, <1>9 DEF Failed, t
<1>10. CASE Completed(g, s, n)
  BY <1>8, <1>10 DEF Completed, t
<1> QED BY Zenon, <1>1, <1>7, <1>9, <1>10 DEF Tells

\* The page.
PageRec == [streaming : BOOLEAN, phase : {"idle", "fetching", "reading", "stuck"},
            chat : 0..MaxChats, read : 0..(MaxText \div 2 + 1), fullText : Seq(Sym)]

\* A message of the page's conversation.
Message == [role : {"user", "assistant"}, chat : Chat, text : Seq(Sym)]

\* The page reads what the request has written, up to where it is.
Reading(p, g) ==
  /\ g.st \in {"open", "ended"}
  /\ p.read \in 0..Len(g.out)
  /\ p.fullText = SubSeq(g.out, 1, p.read)
  /\ p.fullText \in Seq(TokenSet)

\* The last message is the question the page waits for an answer to.
Asks(p, msgs) ==
  /\ p.chat >= 1 /\ Len(msgs) >= 1
  /\ msgs[Len(msgs)].role = "user" /\ msgs[Len(msgs)].chat = p.chat

\* The part of the invariant about the page.
PageInv ==
  /\ ui.streaming <=> ui.phase # "idle"
  /\ ui.streaming => Asks(ui, messages)
  /\ \A c \in Chat : c > ui.chat => gw[c] = NoChat /\ sent[c] = <<>>
  /\ \A k \in 1..Len(messages) : messages[k].chat <= ui.chat
  /\ ui.phase = "fetching" => ui.read = 0 /\ ui.fullText = <<>>
  /\ ui.phase = "reading" => Reading(ui, gw[ui.chat])

\* The inductive invariant.
ChatInv ==
  /\ provider \in Providers /\ ui \in PageRec /\ messages \in Seq(Message) /\ gone \subseteq Chat
  /\ gw \in [Chat -> GwRec] /\ sent \in [Chat -> Seq(Sym)]
  /\ \A c \in Chat : StreamOK(gw[c], sent[c], Ends(provider))
  /\ PageInv
  /\ AnswersWhole

\* A step of one request that only adds to what it has written.
LEMMA GwStepOK ==
  ASSUME ChatInv, NEW c \in Chat, gw[c].st # "none", NEW h, NEW s,
         StreamOK(h, s, Ends(provider)), Grows(gw[c], h),
         gw' = [gw EXCEPT ![c] = h], sent' = [sent EXCEPT ![c] = s],
         UNCHANGED <<provider, ui, messages, gone>>
  PROVE  ChatInv'
<1>1. /\ provider \in Providers /\ ui \in PageRec /\ messages \in Seq(Message) /\ gone \subseteq Chat
      /\ gw \in [Chat -> GwRec] /\ sent \in [Chat -> Seq(Sym)]
      /\ \A d \in Chat : StreamOK(gw[d], sent[d], Ends(provider))
      /\ PageInv /\ AnswersWhole
  BY DEF ChatInv
<1>2. h \in GwRec /\ s \in Seq(Sym)
  BY DEF StreamOK
<1>3. gw' \in [Chat -> GwRec] /\ sent' \in [Chat -> Seq(Sym)]
  BY <1>1, <1>2
<1>4. /\ gw'[c] = h /\ sent'[c] = s
      /\ \A d \in Chat : d # c => gw'[d] = gw[d] /\ sent'[d] = sent[d]
  BY <1>1
<1>5. \A d \in Chat : StreamOK(gw'[d], sent'[d], Ends(provider))
  BY Zenon, <1>1, <1>4
<1>6. c <= ui.chat
  <2>1. ~(c > ui.chat)
    BY <1>1 DEF PageInv, NoChat
  <2> QED BY <1>1, <2>1 DEF PageRec, Chat
<1>7. ASSUME ui.phase = "reading" PROVE Reading(ui, gw'[ui.chat])
  <2>1. Reading(ui, gw[ui.chat])
    BY <1>1, <1>7 DEF PageInv
  <2>2. CASE ui.chat # c
    <3>1. ui.chat \in Chat
      BY <1>1, <1>6 DEF PageRec, Chat
    <3> QED BY Zenon, <1>4, <2>1, <2>2, <3>1
  <2>3. CASE ui.chat = c
    <3> DEFINE o == gw[c].out
               q == h.out
               r == ui.read
    <3>1. /\ o \in Seq(Events) /\ q \in Seq(Events)
          /\ Len(o) <= Len(q) /\ \A i \in 1..Len(o) : q[i] = o[i]
      BY <1>1, <1>2 DEF GwRec, Grows
    <3>2. gw[c].st \in {"open", "ended"} /\ h.st \in {"open", "ended"}
      BY <2>1, <2>3 DEF Reading, Grows
    <3>3. r \in 0..Len(o) /\ ui.fullText = SubSeq(o, 1, r) /\ ui.fullText \in Seq(TokenSet)
      BY <2>1, <2>3 DEF Reading
    <3> HIDE DEF o, q, r
    <3>4. r \in 0..Len(q) /\ SubSeq(q, 1, r) = SubSeq(o, 1, r)
      BY <3>1, <3>3
    <3> QED BY Zenon, <1>4, <2>3, <3>2, <3>3, <3>4 DEF Reading, q, r
  <2> QED BY <2>2, <2>3
<1>8. PageInv'
  <2>1. ui' = ui /\ messages' = messages
    OBVIOUS
  <2>2. \A d \in Chat : d > ui.chat => gw'[d] = NoChat /\ sent'[d] = <<>>
    <3>1. \A d \in Chat : d > ui.chat => d # c
      BY <1>1, <1>6 DEF PageRec, Chat
    <3> QED BY Zenon, <1>1, <1>4, <3>1 DEF PageInv
  <2> QED BY Zenon, <1>1, <1>7, <2>1, <2>2 DEF PageInv
<1>9. AnswersWhole'
  <2>1. ASSUME NEW k \in 1..Len(messages), messages[k].role = "assistant"
        PROVE  gw'[messages[k].chat].out = gw[messages[k].chat].out
    <3> DEFINE d == messages[k].chat
    <3>1. d \in Chat /\ messages[k].text \in Seq(Sym)
      <4>1. messages[k] \in Message
        BY <1>1
      <4> QED BY <4>1 DEF Message
    <3>2. gw[d].out = messages[k].text \o <<Done>>
      BY <1>1, <2>1 DEF AnswersWhole
    <3>3. CASE d # c
      BY Zenon, <1>4, <3>1, <3>3
    <3>4. CASE d = c
      <4>1. gw[c].done
        <5> DEFINE o == gw[c].out
        <5>1. Len(o) \in 1..Len(o) /\ o[Len(o)] = Done
          <6>1. \A t \in Seq(Sym) : \A x :
                  LET u == t \o <<x>> IN Len(u) \in 1..Len(u) /\ u[Len(u)] = x
            OBVIOUS
          <6>2. o = messages[k].text \o <<Done>>
            BY Zenon, <3>2, <3>4
          <6> HIDE DEF o
          <6> QED BY Zenon, <3>1, <6>1, <6>2
        <5>2. Written(gw[c])
          BY Zenon, <1>1, WrittenOK
        <5> QED BY <5>1, <5>2 DEF Written
      <4>2. h.out = gw[c].out
        BY Zenon, <4>1 DEF Grows
      <4> QED BY Zenon, <1>4, <3>4, <4>2
    <3> QED BY <3>3, <3>4
  <2>2. messages' = messages
    OBVIOUS
  <2> QED BY Zenon, <1>1, <2>1, <2>2 DEF AnswersWhole
<1>10. provider' = provider /\ ui' = ui /\ messages' = messages /\ gone' = gone
  OBVIOUS
<1> QED BY Zenon, <1>1, <1>3, <1>5, <1>8, <1>9, <1>10 DEF ChatInv

-----------------------------------------------------------------------------
(* Each step keeps the invariant: the gateway's.                           *)

\* Growing twice is growing.
LEMMA GrowsTwice ==
  ASSUME NEW f \in GwRec, NEW g \in GwRec, NEW h \in GwRec, Grows(f, g), Grows(g, h)
  PROVE  Grows(f, h)
<1>1. Len(f.out) \in Nat /\ Len(g.out) \in Nat /\ Len(h.out) \in Nat
  BY DEF GwRec
<1>2. Len(f.out) <= Len(g.out) /\ Len(g.out) <= Len(h.out)
  BY DEF Grows
<1>3. Len(f.out) <= Len(h.out) /\ \A i \in 1..Len(f.out) : i \in 1..Len(g.out)
  BY <1>1, <1>2
<1> QED BY Zenon, <1>3 DEF Grows

\* The provider is asked for an open request only.
LEMMA AskedIsOpen ==
  ASSUME NEW g, NEW s, NEW ends, StreamOK(g, s, ends), g.up # "none"
  PROVE  g \in GwRec /\ g.st \in {"open", "ended"}
BY DEF StreamOK, GwRec

\* A request's part of the invariant.
LEMMA RequestOK ==
  ASSUME ChatInv, NEW c \in Chat
  PROVE  /\ StreamOK(gw[c], sent[c], Ends(provider)) /\ gw[c] \in GwRec
         /\ gw \in [Chat -> GwRec] /\ sent \in [Chat -> Seq(Sym)]
         /\ "stop" \in Ends(provider) /\ "more" \notin Ends(provider)
BY DEF ChatInv, Ends

\* One request's step leaves what the provider has sent alone.
LEMMA QuietOK ==
  ASSUME ChatInv, NEW c \in Chat, gw[c].st # "none", NEW h,
         StreamOK(h, sent[c], Ends(provider)), Grows(gw[c], h),
         gw' = [gw EXCEPT ![c] = h], UNCHANGED <<provider, ui, messages, gone, sent>>
  PROVE  ChatInv'
<1>1. sent' = [sent EXCEPT ![c] = sent[c]]
  BY RequestOK
<1> QED BY <1>1, GwStepOK

\* A refusal.
LEMMA RefuseOK == ASSUME ChatInv, NEW c \in Chat, RefuseChat(c) PROVE ChatInv'
<1> DEFINE h == [gw[c] EXCEPT !.st = "refused"]
<1>1. StreamOK(h, sent[c], Ends(provider)) /\ Grows(gw[c], h)
  <2>1. gw[c].st \in {"none", "asked"}
    BY DEF RefuseChat
  <2> QED BY <2>1, RequestOK, StateOK
<1>2. gw' = [gw EXCEPT ![c] = h] /\ gw[c].st # "none"
  BY DEF RefuseChat
<1>3. UNCHANGED <<provider, ui, messages, gone, sent>>
  BY DEF RefuseChat
<1> HIDE DEF h
<1> QED BY <1>1, <1>2, <1>3, QuietOK

\* The head of an answer.
LEMMA HandleOK == ASSUME ChatInv, NEW c \in Chat, handleChat(c) PROVE ChatInv'
<1> DEFINE ends == Ends(provider)
           g == [gw[c] EXCEPT !.st = "open"]
           h == IF provider = "none" THEN onError(g) ELSE [g EXCEPT !.up = "asked"]
<1>1. gw' = [gw EXCEPT ![c] = h] /\ gw[c].st = "asked"
      /\ UNCHANGED <<provider, ui, messages, gone, sent>>
  BY DEF handleChat
<1>2. StreamOK(g, sent[c], ends) /\ Grows(gw[c], g)
  <2>1. gw[c].st \in {"none", "asked"}
    BY <1>1
  <2> QED BY <2>1, RequestOK, StateOK
<1>3. g.st = "open" /\ g.up = "none"
  <2>1. gw[c] \in GwRec /\ gw[c].up = "none"
    BY <1>1, RequestOK DEF StreamOK
  <2> QED BY Zenon, <2>1 DEF GwRec
<1>4. g.st \in {"open", "ended"} /\ g.up # "over" /\ Error \in {Done, Error}
      /\ (Error = Done => FALSE)
  BY <1>3 DEF Error, Done
<1> HIDE DEF g
<1>5. StreamOK(onError(g), sent[c], ends) /\ Grows(g, onError(g))
  BY <1>2, <1>4, RequestOK, AnswerOK DEF onError
<1>6. StreamOK([g EXCEPT !.up = "asked"], sent[c], ends) /\ Grows(g, [g EXCEPT !.up = "asked"])
  BY <1>2, <1>4, UpOK
<1>7. StreamOK(h, sent[c], ends) /\ Grows(g, h)
  BY Zenon, <1>5, <1>6
<1> HIDE DEF h
<1>8. Grows(gw[c], h)
  <2>1. gw[c] \in GwRec /\ g \in GwRec /\ h \in GwRec
    BY <1>2, <1>7, RequestOK DEF StreamOK
  <2> QED BY <1>2, <1>7, <2>1, GrowsTwice
<1>9. gw[c].st # "none"
  BY <1>1
<1> QED BY <1>1, <1>7, <1>8, <1>9, QuietOK

\* The provider's status.
LEMMA StatusOK == ASSUME ChatInv, NEW c \in Chat, Status(c) PROVE ChatInv'
<1>1. PICK u \in {"streaming", "refusing"} : gw' = [gw EXCEPT ![c].up = u]
  BY DEF Status
<1> DEFINE h == [gw[c] EXCEPT !.up = u]
<1>2. /\ gw' = [gw EXCEPT ![c] = h] /\ gw[c].up = "asked"
      /\ UNCHANGED <<provider, ui, messages, gone, sent>>
  BY <1>1 DEF Status
<1>3. gw[c].st \in {"open", "ended"} /\ gw[c].st # "none"
  BY <1>2, RequestOK, AskedIsOpen
<1>4. StreamOK(h, sent[c], Ends(provider)) /\ Grows(gw[c], h)
  <2>1. u \in {"asked", "refusing", "streaming", "over"} /\ gw[c].up # "over"
    BY <1>2
  <2> QED BY <1>3, <2>1, RequestOK, UpOK
<1> HIDE DEF h
<1> QED BY <1>2, <1>3, <1>4, QuietOK

\* The provider's side is over, and a verdict is written if there is none.
LEMMA OverOK ==
  ASSUME ChatInv, NEW c \in Chat, gw[c].up # "none", NEW e \in {Done, Error},
         gw' = [gw EXCEPT ![c] = Answer([gw[c] EXCEPT !.up = "over"], e)],
         UNCHANGED <<provider, ui, messages, gone, sent>>
  PROVE  ChatInv'
<1> DEFINE ends == Ends(provider)
           g == [gw[c] EXCEPT !.up = "over"]
           h == Answer(g, e)
<1>1. gw[c].st \in {"open", "ended"} /\ gw[c].st # "none" /\ gw[c] \in GwRec
  BY RequestOK, AskedIsOpen
<1>2. StreamOK(g, sent[c], ends) /\ Grows(gw[c], g)
  BY <1>1, RequestOK, UpOK
<1>3. g.st \in {"open", "ended"} /\ g.up = "over"
  BY Zenon, <1>1 DEF GwRec
<1>4. gw' = [gw EXCEPT ![c] = h]
  OBVIOUS
<1> HIDE DEF g
<1>5. StreamOK(h, sent[c], ends) /\ Grows(g, h)
  BY <1>2, <1>3, RequestOK, AnswerOK
<1> HIDE DEF h
<1>6. Grows(gw[c], h)
  <2>1. gw[c] \in GwRec /\ g \in GwRec /\ h \in GwRec
    BY <1>2, <1>5, RequestOK DEF StreamOK
  <2> QED BY <1>2, <1>5, <2>1, GrowsTwice
<1> QED BY <1>1, <1>4, <1>5, <1>6, QuietOK

\* The three ways the provider's side ends.
LEMMA UpstreamOK == ASSUME ChatInv, NEW c \in Chat, Upstream(c) PROVE ChatInv'
<1>1. CASE RefusalEnd(c) \/ StreamError(c)
  <2>1. /\ gw[c].up # "none" /\ gw' = [gw EXCEPT ![c] = Answer([gw[c] EXCEPT !.up = "over"], Error)]
        /\ UNCHANGED <<provider, ui, messages, gone, sent>>
    BY <1>1, RequestOK DEF RefusalEnd, StreamError, onError
  <2> QED BY <2>1, OverOK
<1>2. CASE End(c)
  <2>1. /\ gw[c].up # "none" /\ gw' = [gw EXCEPT ![c] = Answer([gw[c] EXCEPT !.up = "over"], Done)]
        /\ UNCHANGED <<provider, ui, messages, gone, sent>>
    BY <1>2, RequestOK DEF End, AtEnd, onDone
  <2> QED BY <2>1, OverOK
<1> QED BY <1>1, <1>2 DEF Upstream

\* The browser's leaving.
LEMMA ClosedOK == ASSUME ChatInv, NEW c \in Chat, Close(c) PROVE ChatInv'
<1> DEFINE h == [gw[c] EXCEPT !.done = TRUE]
<1>1. gw' = [gw EXCEPT ![c] = h] /\ gw[c].st = "open" /\ ~gw[c].done /\ gw[c].st # "none"
      /\ UNCHANGED <<provider, ui, messages, gone, sent>>
  BY DEF Close
<1>2. StreamOK(h, sent[c], Ends(provider)) /\ Grows(gw[c], h)
  BY <1>1, RequestOK, CloseOK
<1> HIDE DEF h
<1> QED BY <1>1, <1>2, QuietOK

\* A chunk that the provider may send goes on with a sound text.
LEMMA ChunkOK ==
  ASSUME NEW s \in Seq(Sym), Sound(s), NEW n \in Nat, NEW kinds \in [1..n -> Kinds], NEW chunk,
         chunk = [k \in 1..n |-> <<kinds[k], Len(s) + k>>], Len(s \o chunk) <= MaxText,
         \A k \in 1..n : kinds[k] = "nl" <=> (Len(s) + k) % 2 = 0
  PROVE  Grown(s, chunk)
<1> DEFINE V == Kinds \X Nat
           m == Len(s)
<1>1. m \in Nat /\ MaxText \in Nat
  BY ChatAssumption
<1>2. \A k \in 1..n : /\ chunk[k] = <<kinds[k], m + k>> /\ kinds[k] \in Kinds
                      /\ m + k \in Nat /\ m + k >= 1
  <2>1. \A k \in 1..n : m + k \in Nat /\ m + k >= 1
    BY <1>1
  <2>2. \A k \in 1..n : chunk[k] = <<kinds[k], m + k>>
    <3> HIDE DEF m
    <3> QED BY Zenon DEF m
  <2> HIDE DEF m
  <2> QED BY <2>1, <2>2
<1>3. chunk \in Seq(V) /\ Len(chunk) = n
  <2>1. \A k \in 1..n : <<kinds[k], m + k>> \in V
    BY <1>2
  <2> HIDE DEF V, m
  <2>2. [k \in 1..n |-> <<kinds[k], m + k>>] \in [1..n -> V]
    BY <2>1
  <2> QED BY <2>2 DEF m
<1>4. Sym \subseteq V
  BY DEF Sym
<1>5. s \in Seq(V)
  BY <1>4, SeqMonotonic
<1>6. /\ Len(s \o chunk) = m + n
      /\ \A i \in 1..(m + n) : (s \o chunk)[i] = IF i <= m THEN s[i] ELSE chunk[i - m]
  <2> HIDE DEF V
  <2> QED BY <1>3, <1>5
<1>7. m + n <= MaxText
  BY <1>6
<1>8. chunk \in Seq(Sym)
  <2>1. ASSUME NEW k \in 1..n PROVE chunk[k] \in Sym
    <3>1. m + k \in 1..MaxText
      BY <1>1, <1>7
    <3> HIDE DEF m
    <3> QED BY <1>2, <3>1 DEF Sym
  <2> HIDE DEF V, m
  <2> QED BY <1>3, <2>1
<1>9. Sound(s \o chunk)
  <2> DEFINE all == s \o chunk
  <2>1. ASSUME NEW i \in 1..(m + n)
        PROVE  all[i][2] = i /\ (all[i][1] = "nl" <=> i % 2 = 0)
    <3> HIDE DEF all
    <3>1. CASE i <= m
      <4>1. all[i] = s[i] /\ i \in 1..Len(s)
        BY <1>1, <1>6, <3>1 DEF all
      <4> QED BY Zenon, <4>1 DEF Sound
    <3>2. CASE ~(i <= m)
      <4> DEFINE k == i - m
      <4>1. k \in 1..n /\ m + k = i
        BY <1>1, <3>2
      <4>2. all[i] = chunk[k]
        BY Zenon, <1>6, <3>2 DEF all
      <4> HIDE DEF k, m
      <4>3. chunk[k] = <<kinds[k], i>>
        BY Zenon, <1>2, <4>1
      <4>4. kinds[k] = "nl" <=> i % 2 = 0
        BY Zenon, <4>1 DEF m
      <4>5. all[i][1] = kinds[k] /\ all[i][2] = i
        BY <4>2, <4>3
      <4> QED BY Zenon, <4>4, <4>5
    <3> QED BY <3>1, <3>2
  <2>2. Len(all) = m + n
    BY <1>6
  <2> HIDE DEF all, m
  <2>3. Sound(all)
    BY Zenon, <2>1, <2>2 DEF Sound
  <2> QED BY <2>3 DEF all
<1> QED BY Zenon, <1>8, <1>9 DEF Grown

\* A chunk of the provider's answer.
LEMMA ChunkStepOK == ASSUME ChatInv, NEW c \in Chat, Data(c) PROVE ChatInv'
<1> DEFINE s == sent[c]
           ends == Ends(provider)
<1>1. PICK n \in 1..MaxChunk : \E kinds \in [1..n -> Kinds] :
        LET chunk == [k \in 1..n |-> <<kinds[k], Len(sent[c]) + k>>]
        IN  /\ Len(sent[c] \o chunk) <= MaxText
            /\ \A k \in 1..n : kinds[k] = "nl" <=> (Len(sent[c]) + k) % 2 = 0
            /\ sent' = [sent EXCEPT ![c] = sent[c] \o chunk]
            /\ gw' = [gw EXCEPT ![c] = Heard(gw[c], chunk, Ends(provider))]
  <2>1. \A text : parseStream(text) = ReadLines(Lines(text), Ends(provider))
    BY Zenon DEF parseStream, parseOpenAIStream, parseAnthropicStream, Ends
  <2> QED BY Zenon, <2>1 DEF Data, Heard
<1>2. PICK kinds \in [1..n -> Kinds] :
        LET chunk == [k \in 1..n |-> <<kinds[k], Len(s) + k>>]
        IN  /\ Len(s \o chunk) <= MaxText
            /\ \A k \in 1..n : kinds[k] = "nl" <=> (Len(s) + k) % 2 = 0
            /\ sent' = [sent EXCEPT ![c] = s \o chunk]
            /\ gw' = [gw EXCEPT ![c] = Heard(gw[c], chunk, ends)]
  BY Zenon, <1>1
<1> DEFINE chunk == [k \in 1..n |-> <<kinds[k], Len(s) + k>>]
<1>3. /\ Len(s \o chunk) <= MaxText
      /\ \A k \in 1..n : kinds[k] = "nl" <=> (Len(s) + k) % 2 = 0
      /\ sent' = [sent EXCEPT ![c] = s \o chunk]
      /\ gw' = [gw EXCEPT ![c] = Heard(gw[c], chunk, ends)]
  BY Zenon, <1>2
<1>4. gw[c].up = "streaming" /\ UNCHANGED <<provider, ui, messages, gone>>
  BY DEF Data
<1>5. StreamOK(gw[c], s, ends) /\ "stop" \in ends /\ "more" \notin ends
  BY Zenon, RequestOK
<1>6. s \in Seq(Sym) /\ Sound(s) /\ n \in Nat
  BY <1>5 DEF StreamOK
<1> HIDE DEF s
<1>7. Grown(s, chunk)
  BY Zenon, <1>3, <1>6, ChunkOK
<1> HIDE DEF chunk, ends
<1>8. StreamOK(Heard(gw[c], chunk, ends), s \o chunk, ends)
      /\ Grows(gw[c], Heard(gw[c], chunk, ends))
  BY Zenon, <1>4, <1>5, <1>7, DataOK
<1>9. gw[c].st # "none"
  <2>1. gw[c].up # "none"
    BY <1>4
  <2> QED BY <1>5, <2>1, AskedIsOpen
<1> QED BY Zenon, <1>3, <1>4, <1>8, <1>9, GwStepOK DEF ends

\* Nothing has been asked or told.
LEMMA NoneOK == ASSUME NEW ends PROVE StreamOK(NoChat, <<>>, ends)
<1> DEFINE g == NoChat
           s == <<>>
<1>1. /\ g \in GwRec /\ g.st = "none" /\ ~g.done /\ g.up = "none" /\ g.buf = <<>> /\ g.out = <<>>
  BY DEF NoChat, GwRec
<1>2. s \in Seq(Sym) /\ Len(s) = 0 /\ 0 <= MaxText /\ Even(s) = 0
  BY ChatAssumption DEF Even
<1>3. Sound(s)
  BY DEF Sound
<1>4. SubSeq(s, 1, 0) = <<>>
  OBVIOUS
<1>5. Told(s, 0) = <<>>
  BY ToldNone
<1>6. g.buf = SubSeq(s, Even(s) + 1, Len(s))
  BY <1>1, <1>2, <1>4
<1>7. Free(s, 0, ends)
  BY DEF Free
<1> HIDE DEF g, s
<1>8. Unended(g, s, 0, ends)
  BY <1>1, <1>2, <1>5, <1>7 DEF Unended
<1>9. \E n \in 0..Even(s) : Tells(g, s, n, ends)
  <2>1. 0 \in 0..Even(s)
    BY <1>2
  <2> QED BY Zenon, <1>8, <2>1 DEF Tells
<1>10. Len(s) <= MaxText
  BY <1>2
<1>11. StreamOK(g, s, ends)
  <2>1. s = <<>>
    BY DEF s
  <2> QED BY Zenon, <1>1, <1>2, <1>3, <1>6, <1>9, <1>10, <2>1 DEF StreamOK
<1> QED BY <1>11 DEF g, s

\* At the start.
LEMMA InitOK == ASSUME Init PROVE ChatInv
<1>1. \A c \in Chat : StreamOK(gw[c], sent[c], Ends(provider))
  <2>1. \A c \in Chat : gw[c] = NoChat /\ sent[c] = <<>>
    BY DEF Init
  <2> QED BY Zenon, <2>1, NoneOK
<1>2. NoChat \in GwRec /\ <<>> \in Seq(Sym)
  BY DEF NoChat, GwRec
<1>3. gw \in [Chat -> GwRec] /\ sent \in [Chat -> Seq(Sym)]
  BY <1>2 DEF Init
<1>4. ui \in PageRec
  <2>1. MaxText \div 2 + 1 \in Nat /\ MaxChats \in Nat
    BY ChatAssumption
  <2>2. 0 \in 0..(MaxText \div 2 + 1) /\ 0 \in 0..MaxChats
    BY <2>1
  <2>3. <<>> \in Seq(Sym)
    OBVIOUS
  <2> QED BY <2>2, <2>3 DEF Init, Idle, PageRec
<1>5. messages = <<>> /\ Len(messages) = 0 /\ messages \in Seq(Message)
  BY DEF Init
<1>6. PageInv
  <2>1. ui.streaming = FALSE /\ ui.phase = "idle"
    BY DEF Init, Idle
  <2>2. \A c \in Chat : gw[c] = NoChat /\ sent[c] = <<>>
    BY DEF Init
  <2> QED BY <1>5, <2>1, <2>2 DEF PageInv
<1>7. AnswersWhole
  BY <1>5 DEF AnswersWhole
<1> QED BY <1>1, <1>3, <1>4, <1>5, <1>6, <1>7 DEF ChatInv, Init

-----------------------------------------------------------------------------
(* The page's steps.                                                       *)

\* The parts of the invariant.
LEMMA InvParts ==
  ASSUME ChatInv
  PROVE  /\ provider \in Providers /\ ui \in PageRec /\ messages \in Seq(Message)
         /\ gone \subseteq Chat /\ gw \in [Chat -> GwRec] /\ sent \in [Chat -> Seq(Sym)]
         /\ \A c \in Chat : StreamOK(gw[c], sent[c], Ends(provider))
         /\ PageInv /\ AnswersWhole
BY Zenon DEF ChatInv

\* A page, field by field.
LEMMA PageFields ==
  ASSUME NEW p \in PageRec
  PROVE  /\ p.streaming \in BOOLEAN /\ p.phase \in {"idle", "fetching", "reading", "stuck"}
         /\ p.chat \in Nat /\ p.chat <= MaxChats /\ p.chat \in 0..MaxChats
         /\ p.read \in 0..(MaxText \div 2 + 1) /\ p.fullText \in Seq(Sym)
<1>1. p.chat \in 0..MaxChats
  BY DEF PageRec
<1>2. p.chat \in Nat /\ p.chat <= MaxChats
  BY <1>1, ChatAssumption
<1> QED BY Zenon, <1>1, <1>2 DEF PageRec

\* A page that is ready for the next message.
LEMMA ReadyOK ==
  ASSUME ui \in PageRec
  PROVE  /\ Ready \in PageRec /\ Ready.streaming = FALSE /\ Ready.phase = "idle"
         /\ Ready.chat = ui.chat
<1>1. ui.chat \in 0..MaxChats
  BY PageFields
<1>2. Idle \in PageRec /\ Idle.streaming = FALSE /\ Idle.phase = "idle"
  <2>1. 0 \in 0..(MaxText \div 2 + 1) /\ 0 \in 0..MaxChats
    BY ChatAssumption
  <2>2. <<>> \in Seq(Sym)
    OBVIOUS
  <2> QED BY <2>1, <2>2 DEF Idle, PageRec
<1> QED BY Zenon, <1>1, <1>2 DEF Ready, PageRec

\* The page alone goes on with its chat.
LEMMA PageStepOK ==
  ASSUME ChatInv, ui' \in PageRec, ui'.chat = ui.chat,
         ui'.streaming <=> ui'.phase # "idle",
         ui'.streaming => ui.streaming,
         ui'.phase = "fetching" => FALSE,
         ui'.phase = "reading" => Reading(ui', gw[ui.chat]),
         gone' \subseteq Chat,
         UNCHANGED <<provider, messages, gw, sent>>
  PROVE  ChatInv'
<1>1. PageInv /\ AnswersWhole
  BY InvParts
<1>2. provider' = provider /\ messages' = messages /\ gw' = gw /\ sent' = sent
  OBVIOUS
<1>3. PageInv'
  <2>1. ui'.streaming => Asks(ui', messages)
    BY Zenon, <1>1 DEF PageInv, Asks
  <2> QED BY Zenon, <1>1, <1>2, <2>1 DEF PageInv
<1>4. AnswersWhole'
  BY Zenon, <1>1, <1>2 DEF AnswersWhole
<1> QED BY Zenon, <1>2, <1>3, <1>4, InvParts DEF ChatInv

\* Back to ready.
LEMMA BackOK ==
  ASSUME ChatInv, ui' = Ready, gone' \subseteq Chat, UNCHANGED <<provider, messages, gw, sent>>
  PROVE  ChatInv'
<1>1. /\ Ready \in PageRec /\ Ready.streaming = FALSE /\ Ready.phase = "idle"
      /\ Ready.chat = ui.chat
  BY InvParts, ReadyOK
<1>2. /\ ui' \in PageRec /\ ui'.streaming = FALSE /\ ui'.phase = "idle" /\ ui'.chat = ui.chat
  BY Zenon, <1>1
<1>3. ui'.phase # "fetching" /\ ui'.phase # "reading"
  BY <1>2
<1> QED BY Zenon, <1>2, <1>3, PageStepOK

\* fetch resolves.
LEMMA FetchedOK == ASSUME ChatInv, fetched PROVE ChatInv'
<1>1. gone' \subseteq Chat /\ UNCHANGED <<provider, messages, gw, sent>> /\ ui.phase = "fetching"
  BY InvParts DEF fetched
<1>2. CASE ui' = Ready
  BY <1>1, <1>2, BackOK
<1>3. CASE gw[ui.chat].st \in {"open", "ended"} /\ ui' = [ui EXCEPT !.phase = "reading"]
  <2>1. ui \in PageRec /\ PageInv
    BY InvParts
  <2>2. ui.read = 0 /\ ui.fullText = <<>> /\ ui.streaming
    BY <1>1, <2>1 DEF PageInv
  <2>3. /\ ui' \in PageRec /\ ui'.chat = ui.chat /\ ui'.phase = "reading"
        /\ ui'.streaming = ui.streaming /\ ui'.read = ui.read /\ ui'.fullText = ui.fullText
    BY Zenon, <1>3, <2>1 DEF PageRec
  <2>4. ui.chat \in Chat
    <3>1. ui.chat >= 1
      BY <2>1, <2>2 DEF PageInv, Asks
    <3> QED BY <2>1, <3>1, PageFields DEF Chat
  <2>5. gw[ui.chat].out \in Seq(Events)
    BY <2>4, InvParts DEF GwRec
  <2>6. SubSeq(gw[ui.chat].out, 1, 0) = <<>> /\ 0 \in 0..Len(gw[ui.chat].out)
        /\ <<>> \in Seq(TokenSet)
    BY <2>5
  <2>7. Reading(ui', gw[ui.chat])
    BY Zenon, <1>3, <2>2, <2>3, <2>6 DEF Reading
  <2>8. ui'.phase # "idle" /\ ui'.phase # "fetching"
    BY <2>3
  <2> QED BY Zenon, <1>1, <2>2, <2>3, <2>7, <2>8, PageStepOK
<1> QED BY <1>2, <1>3 DEF fetched

\* The user leaves, or the connection breaks.
LEMMA LeaveOK == ASSUME ChatInv, Leave PROVE ChatInv'
<1>1. ui \in PageRec /\ PageInv /\ gone \subseteq Chat
  BY InvParts
<1>2. ui.streaming
  BY <1>1 DEF Leave, PageInv
<1>3. ui.chat \in Chat
  <2>1. ui.chat >= 1
    BY <1>1, <1>2 DEF PageInv, Asks
  <2> QED BY <1>1, <2>1, PageFields DEF Chat
<1>4. gone' \subseteq Chat /\ UNCHANGED <<provider, messages, gw, sent>>
  BY <1>1, <1>3 DEF Leave
<1>5. CASE ui' = Ready
  BY <1>4, <1>5, BackOK
<1>6. CASE ui' = [ui EXCEPT !.phase = "stuck"]
  <2>1. /\ ui' \in PageRec /\ ui'.chat = ui.chat /\ ui'.phase = "stuck"
        /\ ui'.streaming = ui.streaming
    BY Zenon, <1>1, <1>6 DEF PageRec
  <2>2. ui'.phase # "idle" /\ ui'.phase # "fetching" /\ ui'.phase # "reading"
    BY <2>1
  <2> QED BY Zenon, <1>2, <1>4, <2>1, <2>2, PageStepOK
<1> QED BY <1>5, <1>6 DEF Leave

\* The user sends a message.
LEMMA SendOK == ASSUME ChatInv, send PROVE ChatInv'
<1> DEFINE d == ui.chat + 1
           m == [role |-> "user", chat |-> d, text |-> <<>>]
           h == [gw[d] EXCEPT !.st = "asked"]
<1>1. /\ provider \in Providers /\ ui \in PageRec /\ messages \in Seq(Message)
      /\ gone \subseteq Chat /\ gw \in [Chat -> GwRec] /\ sent \in [Chat -> Seq(Sym)]
      /\ \A c \in Chat : StreamOK(gw[c], sent[c], Ends(provider))
      /\ PageInv /\ AnswersWhole
  BY Zenon, InvParts
<1>2. ui.chat \in Nat /\ ui.chat < MaxChats
  BY <1>1, PageFields DEF send
<1>3. d \in Chat /\ d \in 0..MaxChats /\ d > ui.chat /\ d >= 1 /\ d \in Nat
  BY <1>2, ChatAssumption DEF Chat
<1>4. /\ ui' = [Idle EXCEPT !.streaming = TRUE, !.phase = "fetching", !.chat = d]
      /\ messages' = Append(messages, m) /\ gw' = [gw EXCEPT ![d] = h]
      /\ provider' = provider /\ gone' = gone /\ sent' = sent
  BY DEF send
<1>5. StreamOK(h, sent[d], Ends(provider)) /\ h \in GwRec
  <2>1. gw[d] = NoChat
    BY Zenon, <1>1, <1>3 DEF PageInv
  <2>2. gw[d].st \in {"none", "asked"}
    BY <2>1 DEF NoChat
  <2>3. StreamOK(h, sent[d], Ends(provider))
    BY Zenon, <1>1, <1>3, <2>2, StateOK
  <2> QED BY Zenon, <2>3 DEF StreamOK
<1>6. /\ ui' \in PageRec /\ ui'.streaming = TRUE /\ ui'.phase = "fetching" /\ ui'.chat = d
      /\ ui'.read = 0 /\ ui'.fullText = <<>>
  <2>1. Idle \in PageRec /\ Idle.read = 0 /\ Idle.fullText = <<>>
    <3>1. 0 \in 0..(MaxText \div 2 + 1) /\ 0 \in 0..MaxChats
      BY ChatAssumption
    <3>2. <<>> \in Seq(Sym)
      OBVIOUS
    <3> QED BY <3>1, <3>2 DEF Idle, PageRec
  <2> HIDE DEF d
  <2> QED BY Zenon, <1>3, <1>4, <2>1 DEF PageRec
<1>7. m \in Message /\ m.role = "user" /\ m.chat = d
  <2>1. <<>> \in Seq(Sym)
    OBVIOUS
  <2> HIDE DEF d
  <2> QED BY <1>3, <2>1 DEF Message
<1> HIDE DEF m, h, d
<1>8. /\ messages' \in Seq(Message) /\ Len(messages') = Len(messages) + 1
      /\ messages'[Len(messages) + 1] = m /\ Len(messages) \in Nat
      /\ \A k \in 1..Len(messages) : messages'[k] = messages[k]
  BY <1>1, <1>4, <1>7
<1>9. /\ gw' \in [Chat -> GwRec] /\ gw'[d] = h
      /\ \A c \in Chat : c # d => gw'[c] = gw[c]
  BY <1>1, <1>3, <1>4, <1>5
<1>10. \A c \in Chat : StreamOK(gw'[c], sent'[c], Ends(provider'))
  BY Zenon, <1>1, <1>4, <1>5, <1>9
<1>11. PageInv'
  <2>1. Asks(ui', messages')
    <3>1. Len(messages') >= 1
      BY <1>8
    <3> QED BY Zenon, <1>3, <1>6, <1>7, <1>8, <3>1 DEF Asks
  <2>2. \A c \in Chat : c > d => gw'[c] = NoChat /\ sent'[c] = <<>>
    <3>1. \A c \in Chat : c > d => c # d /\ c > ui.chat
      BY <1>2, <1>3 DEF Chat
    <3> QED BY Zenon, <1>1, <1>4, <1>9, <3>1 DEF PageInv
  <2>3. \A k \in 1..Len(messages') : messages'[k].chat <= d
    <3>1. ASSUME NEW k \in 1..Len(messages') PROVE messages'[k].chat <= d
      <4>1. CASE k = Len(messages) + 1
        <5>1. messages'[k].chat = d
          BY Zenon, <1>7, <1>8, <4>1
        <5> QED BY <1>3, <5>1
      <4>2. CASE k # Len(messages) + 1
        <5>1. k \in 1..Len(messages)
          BY <1>8, <4>2
        <5>2. messages'[k].chat = messages[k].chat /\ messages[k].chat <= ui.chat
          BY Zenon, <1>1, <1>8, <5>1 DEF PageInv
        <5>3. messages[k].chat \in Nat
          <6>1. messages[k] \in Message
            BY <1>1, <5>1
          <6> QED BY <6>1 DEF Message, Chat
        <5> QED BY <1>2, <1>3, <5>2, <5>3
      <4> QED BY <4>1, <4>2
    <3> QED BY Zenon, <3>1
  <2>4. "fetching" # "idle" /\ "fetching" # "reading"
    OBVIOUS
  <2> QED BY Zenon, <1>6, <2>1, <2>2, <2>3, <2>4 DEF PageInv
<1>12. AnswersWhole'
  <2>1. ASSUME NEW k \in 1..Len(messages'), messages'[k].role = "assistant"
        PROVE  /\ k > 1 /\ messages'[k - 1].role = "user"
               /\ messages'[k - 1].chat = messages'[k].chat
               /\ gw'[messages'[k].chat].out = messages'[k].text \o <<Done>>
    <3>1. k # Len(messages) + 1
      BY <1>7, <1>8, <2>1
    <3>2. k \in 1..Len(messages)
      BY <1>8, <3>1
    <3>3. messages'[k] = messages[k]
      BY Zenon, <1>8, <3>2
    <3>4. /\ k > 1 /\ messages[k - 1].role = "user" /\ messages[k - 1].chat = messages[k].chat
          /\ gw[messages[k].chat].out = messages[k].text \o <<Done>>
      BY Zenon, <1>1, <2>1, <3>2, <3>3 DEF AnswersWhole
    <3>5. k - 1 \in 1..Len(messages)
      BY <1>8, <3>2, <3>4
    <3>6. messages[k].chat \in Chat /\ messages[k].chat # d
      <4>1. messages[k] \in Message
        BY <1>1, <3>2
      <4>2. messages[k].chat \in Chat /\ messages[k].chat <= ui.chat
        BY Zenon, <1>1, <3>2, <4>1 DEF Message, PageInv
      <4> QED BY <1>2, <1>3, <4>2 DEF Chat
    <3> QED BY Zenon, <1>8, <1>9, <3>3, <3>4, <3>5, <3>6
  <2> QED BY Zenon, <2>1 DEF AnswersWhole
<1> QED BY Zenon, <1>1, <1>4, <1>6, <1>8, <1>9, <1>10, <1>11, <1>12 DEF ChatInv

\* What the page has after it has read up to n.
PageReads(out, n, p, text) ==
  /\ text \in Seq(TokenSet)
  /\ \/ p.end = "more" /\ text = SubSeq(out, 1, n)
     \/ p.end = "done" /\ out = text \o <<Done>>
     \/ p.end = "error"

\* A sequence of tokens is all tokens.
LEMMA TokensAll == ASSUME NEW t \in Seq(TokenSet) PROVE Tokens(t) = t
<1> DEFINE A == {"token"} \X Nat
<1>1. TokenSet \subseteq A
  BY ChatAssumption DEF TokenSet
<1> HIDE DEF A
<1>2. t \in Seq(A)
  BY <1>1, SeqMonotonic
<1> QED BY Zenon, <1>2, SiftAll DEF Tokens, A

\* Two neighbouring parts make one.
LEMMA TwoParts ==
  ASSUME NEW S, NEW s \in Seq(S), NEW a \in Nat, NEW b \in Nat, a <= b, b <= Len(s)
  PROVE  SubSeq(s, 1, a) \o SubSeq(s, a + 1, b) = SubSeq(s, 1, b)
<1> DEFINE p == SubSeq(s, 1, a)
           q == SubSeq(s, a + 1, b)
           r == SubSeq(s, 1, b)
<1>1. Len(s) \in Nat
  OBVIOUS
<1>2. p \in Seq(S) /\ Len(p) = a /\ \A i \in 1..a : p[i] = s[i]
  BY <1>1
<1>3. q \in Seq(S) /\ Len(q) = b - a /\ \A i \in 1..(b - a) : q[i] = s[a + i]
  BY Zenon, PartOf
<1>4. r \in Seq(S) /\ Len(r) = b /\ \A i \in 1..b : r[i] = s[i]
  BY <1>1
<1> HIDE DEF p, q, r
<1>5. p \o q \in Seq(S) /\ Len(p \o q) = b
  <2>0. p \in Seq(S) /\ q \in Seq(S)
    BY Zenon, <1>2, <1>3
  <2>1. p \o q \in Seq(S) /\ Len(p \o q) = Len(p) + Len(q)
    BY ONLY <2>0
  <2>2. a + (b - a) = b
    OBVIOUS
  <2> QED BY Zenon, <1>2, <1>3, <2>1, <2>2
<1>6. ASSUME NEW i \in 1..b PROVE (p \o q)[i] = r[i]
  <2>1. CASE i <= a
    <3>1. i \in 1..a /\ i \in 1..Len(p)
      BY <1>2, <2>1
    <3>2. (p \o q)[i] = p[i]
      BY <1>2, <1>3, <3>1
    <3> QED BY Zenon, <1>2, <1>4, <3>1, <3>2
  <2>2. CASE ~(i <= a)
    <3>1. i - a \in 1..(b - a) /\ a + (i - a) = i
      BY <2>2
    <3>2. (p \o q)[i] = q[i - a]
      BY <1>2, <1>3, <2>2
    <3> QED BY <1>3, <1>4, <3>1, <3>2
  <2> QED BY <2>1, <2>2
<1>7. p \o q = r
  BY <1>4, <1>5, <1>6
<1> QED BY <1>7 DEF p, q, r

\* A part of what is written that holds no verdict.
LEMMA TokenPart ==
  ASSUME NEW g \in GwRec, NEW a \in Nat, NEW b \in Nat, a <= b, b <= Len(g.out), Written(g),
         \A i \in (a + 1)..b : g.out[i] \notin {Done, Error}
  PROVE  SubSeq(g.out, a + 1, b) \in Seq(TokenSet)
<1> DEFINE o == g.out
           q == SubSeq(o, a + 1, b)
<1>1. o \in Seq(Events) /\ Len(o) \in Nat /\ b <= Len(o)
  BY DEF GwRec
<1>2. \A i \in 1..Len(o) : o[i] \notin {Done, Error} => o[i] \in TokenSet
  BY Zenon DEF Written
<1> HIDE DEF o
<1>3. q \in Seq(Events) /\ Len(q) = b - a /\ \A i \in 1..(b - a) : q[i] = o[a + i]
  BY <1>1, PartOf
<1> HIDE DEF q
<1>4. ASSUME NEW i \in 1..Len(q) PROVE q[i] \in TokenSet
  <2>1. i \in 1..(b - a) /\ a + i \in (a + 1)..b /\ a + i \in 1..Len(o)
    BY <1>1, <1>3 DEF o
  <2> QED BY Zenon, <1>2, <1>3, <2>1 DEF o
<1>5. q \in Seq(TokenSet)
  BY <1>3, <1>4
<1> QED BY <1>5 DEF q, o

\* The page reads on.
LEMMA ReadsOn ==
  ASSUME NEW g \in GwRec, Written(g), NEW r \in Nat, NEW n \in Nat, r < n, n <= Len(g.out),
         SubSeq(g.out, 1, r) \in Seq(TokenSet), NEW p,
         p = ReadLines(SubSeq(g.out, r + 1, n), {"done", "error"})
  PROVE  PageReads(g.out, n, p, SubSeq(g.out, 1, r) \o p.tokens)
<1> DEFINE o == g.out
           full == SubSeq(o, 1, r)
           lines == SubSeq(o, r + 1, n)
           ends == {"done", "error"}
<1>1. o \in Seq(Events) /\ Len(o) \in Nat /\ r <= n /\ n <= Len(o)
  BY DEF GwRec
<1>3. \A i \in 1..Len(o) : /\ o[i] \in {Done, Error} <=> g.st = "ended" /\ i = Len(o)
                           /\ o[i] \notin {Done, Error} => o[i][1] \notin ends
  <2>1. \A x \in TokenSet : x[1] \notin ends
    BY DEF TokenSet
  <2> QED BY Zenon, <2>1 DEF Written
<1>4. Done[1] = "done" /\ Error[1] = "error"
  BY DEF Done, Error
<1>5. p = ReadLines(lines, ends) /\ full \in Seq(TokenSet)
  BY Zenon
<1> HIDE DEF o, full, ends
<1>2. lines \in Seq(Events) /\ Len(lines) = n - r /\ \A i \in 1..(n - r) : lines[i] = o[r + i]
  BY Zenon, <1>1, PartOf
<1> HIDE DEF lines
<1>6. CASE /\ \A i \in 1..Len(lines) : lines[i][1] \notin ends
           /\ p = [tokens |-> Tokens(lines), end |-> "more"]
  <2>1. ASSUME NEW j \in (r + 1)..n PROVE o[j] \notin {Done, Error}
    <3>1. j - r \in 1..(n - r) /\ r + (j - r) = j
      OBVIOUS
    <3>2. o[j][1] \notin ends
      BY Zenon, <1>2, <1>6, <3>1
    <3> QED BY <1>4, <3>2 DEF ends
  <2>2. lines \in Seq(TokenSet)
    BY Zenon, <1>1, <2>1, TokenPart DEF lines, o
  <2>3. p.tokens = lines /\ p.end = "more"
    BY <1>6, <2>2, TokensAll
  <2>4. full \o lines = SubSeq(o, 1, n)
    BY Zenon, <1>1, TwoParts DEF full, lines, o
  <2>5. full \o lines \in Seq(TokenSet)
    BY <1>5, <2>2
  <2>6. PageReads(o, n, p, full \o p.tokens)
    BY Zenon, <2>3, <2>4, <2>5 DEF PageReads
  <2> QED BY Zenon, <2>6 DEF full, o
<1>7. ASSUME NEW k \in 1..Len(lines), First(lines, ends, k),
             p = [tokens |-> Tokens(SubSeq(lines, 1, k - 1)), end |-> lines[k][1]]
      PROVE  PageReads(g.out, n, p, SubSeq(g.out, 1, r) \o p.tokens)
  <2>1. k \in 1..(n - r) /\ r + k \in 1..Len(o) /\ lines[k] = o[r + k] /\ lines[k][1] \in ends
    BY <1>1, <1>2, <1>7 DEF First, o
  <2>2. o[r + k] \in {Done, Error} /\ r + k = Len(o)
    BY Zenon, <1>3, <2>1
  <2>3. k = n - r /\ r + k = n /\ n = Len(o)
    BY <1>1, <2>1, <2>2 DEF o
  <2> DEFINE b == n - 1
             q == SubSeq(o, r + 1, b)
  <2>4. b \in Nat /\ r <= b /\ b <= Len(o) /\ r + (k - 1) = b /\ k - 1 \in 0..(n - r) /\ b + 1 = n
    BY <1>1, <2>1, <2>3 DEF o
  <2>5. SubSeq(lines, 1, k - 1) = q
    <3> DEFINE m == k - 1
    <3>0. o \in Seq(Events) /\ r \in Nat /\ n \in Nat /\ r <= n /\ n <= Len(o) /\ m \in 0..(n - r)
      BY Zenon, <1>1, <2>4 DEF o
    <3> HIDE DEF m
    <3>1. SubSeq(SubSeq(o, r + 1, n), 1, m) = SubSeq(o, r + 1, r + m)
      BY Zenon, <3>0, PartOfPart
    <3> QED BY Zenon, <2>4, <3>1 DEF lines, m
  <2>6. ASSUME NEW j \in (r + 1)..b PROVE o[j] \notin {Done, Error}
    <3>1. j \in 1..Len(o) /\ j # Len(o)
      BY <1>1, <2>3, <2>4
    <3> QED BY Zenon, <1>3, <3>1
  <2> HIDE DEF b
  <2>7. q \in Seq(TokenSet)
    BY Zenon, <2>4, <2>6, TokenPart DEF o
  <2>8. full \o q = SubSeq(o, 1, b)
    BY Zenon, <1>1, <2>4, TwoParts DEF full
  <2>9. p.tokens = q /\ p.end = o[n][1]
    <3>1. Tokens(q) = q
      BY Zenon, <2>7, TokensAll
    <3>2. p.tokens = Tokens(SubSeq(lines, 1, k - 1)) /\ p.end = lines[k][1]
      BY <1>7
    <3>3. lines[k] = o[n]
      BY Zenon, <2>1, <2>3
    <3> QED BY Zenon, <2>5, <3>1, <3>2, <3>3
  <2> HIDE DEF q
  <2>10. full \o q \in Seq(TokenSet)
    BY <1>5, <2>7
  <2>11. o = SubSeq(o, 1, b) \o <<o[n]>>
    BY <1>1, <2>3, <2>4
  <2>12. CASE o[n] = Done
    BY Zenon, <1>4, <2>8, <2>9, <2>10, <2>11, <2>12 DEF PageReads, full, o
  <2>13. CASE o[n] = Error
    BY Zenon, <1>4, <2>9, <2>10, <2>13 DEF PageReads, full, o
  <2> QED BY Zenon, <2>2, <2>3, <2>12, <2>13
<1> QED BY Zenon, <1>2, <1>5, <1>6, <1>7, ReadLinesIs

\* An answer joins the conversation.
LEMMA JoinOK ==
  ASSUME ChatInv, ui.streaming, ui.chat \in Chat, NEW text \in Seq(TokenSet),
         gw[ui.chat].out = text \o <<Done>>, finish(text),
         UNCHANGED <<provider, gone, gw, sent>>
  PROVE  ChatInv'
<1>1. CASE text = <<>>
  <2>1. messages' = messages /\ ui' = Ready
    BY <1>1 DEF finish
  <2>2. gone' \subseteq Chat /\ UNCHANGED <<provider, messages, gw, sent>>
    BY <2>1, InvParts
  <2> QED BY <2>1, <2>2, BackOK
<1>2. CASE text # <<>>
  <2> DEFINE m == [role |-> "assistant", chat |-> ui.chat, text |-> text]
  <2>1. /\ messages' = Append(messages, m) /\ ui' = Ready /\ provider' = provider
        /\ gone' = gone /\ gw' = gw /\ sent' = sent
    BY <1>2 DEF finish
  <2>2. /\ provider \in Providers /\ ui \in PageRec /\ messages \in Seq(Message)
        /\ gone \subseteq Chat /\ gw \in [Chat -> GwRec] /\ sent \in [Chat -> Seq(Sym)]
        /\ \A c \in Chat : StreamOK(gw[c], sent[c], Ends(provider))
        /\ PageInv /\ AnswersWhole
    BY Zenon, InvParts
  <2>3. text \in Seq(Sym)
    <3>1. TokenSet \subseteq Sym
      BY DEF TokenSet, Sym, Kinds
    <3> QED BY <3>1, SeqMonotonic
  <2>4. m \in Message /\ m.role = "assistant" /\ m.chat = ui.chat /\ m.text = text
    BY <2>3 DEF Message
  <2> HIDE DEF m
  <2>5. /\ messages' \in Seq(Message) /\ Len(messages') = Len(messages) + 1
        /\ messages'[Len(messages) + 1] = m /\ Len(messages) \in Nat
        /\ \A k \in 1..Len(messages) : messages'[k] = messages[k]
    BY <2>1, <2>2, <2>4
  <2>6. /\ ui' \in PageRec /\ ui'.streaming = FALSE /\ ui'.phase = "idle" /\ ui'.chat = ui.chat
    BY Zenon, <2>1, <2>2, ReadyOK
  <2>7. PageInv'
    <3>1. \A k \in 1..Len(messages') : messages'[k].chat <= ui.chat
      <4>1. ASSUME NEW k \in 1..Len(messages') PROVE messages'[k].chat <= ui.chat
        <5>1. CASE k = Len(messages) + 1
          <6>1. messages'[k].chat = ui.chat
            BY Zenon, <2>4, <2>5, <5>1
          <6> QED BY <2>2, <6>1, PageFields
        <5>2. CASE k # Len(messages) + 1
          <6>1. k \in 1..Len(messages)
            BY <2>5, <5>2
          <6> QED BY Zenon, <2>2, <2>5, <6>1 DEF PageInv
        <5> QED BY <5>1, <5>2
      <4> QED BY Zenon, <4>1
    <3>2. "idle" # "fetching" /\ "idle" # "reading"
      OBVIOUS
    <3> QED BY Zenon, <2>1, <2>2, <2>6, <3>1, <3>2 DEF PageInv
  <2>8. AnswersWhole'
    <3>1. ASSUME NEW k \in 1..Len(messages'), messages'[k].role = "assistant"
          PROVE  /\ k > 1 /\ messages'[k - 1].role = "user"
                 /\ messages'[k - 1].chat = messages'[k].chat
                 /\ gw[messages'[k].chat].out = messages'[k].text \o <<Done>>
      <4>1. CASE k = Len(messages) + 1
        <5>1. Asks(ui, messages)
          BY Zenon, <2>2 DEF PageInv
        <5>2. k > 1 /\ k - 1 = Len(messages) /\ Len(messages) \in 1..Len(messages)
          BY <2>5, <4>1, <5>1 DEF Asks
        <5> QED BY Zenon, <2>4, <2>5, <4>1, <5>1, <5>2 DEF Asks
      <4>2. CASE k # Len(messages) + 1
        <5>1. k \in 1..Len(messages)
          BY <2>5, <4>2
        <5>2. messages'[k] = messages[k]
          BY Zenon, <2>5, <5>1
        <5>3. /\ k > 1 /\ messages[k - 1].role = "user"
              /\ messages[k - 1].chat = messages[k].chat
              /\ gw[messages[k].chat].out = messages[k].text \o <<Done>>
          BY Zenon, <2>2, <3>1, <5>1, <5>2 DEF AnswersWhole
        <5>4. k - 1 \in 1..Len(messages)
          BY <2>5, <5>1, <5>3
        <5> QED BY Zenon, <2>5, <5>2, <5>3, <5>4
      <4> QED BY <4>1, <4>2
    <3> QED BY Zenon, <2>1, <3>1 DEF AnswersWhole
  <2> QED BY Zenon, <2>1, <2>2, <2>5, <2>6, <2>7, <2>8 DEF ChatInv
<1> QED BY <1>1, <1>2

\* The page reads some of what the gateway has written.
LEMMA PumpOK == ASSUME ChatInv, pump PROVE ChatInv'
<1> DEFINE c == ui.chat
           g == gw[c]
           o == g.out
           r == ui.read
<1>1. ui \in PageRec /\ PageInv /\ gone \subseteq Chat
  BY InvParts
<1>2. ui.streaming /\ ui.phase = "reading" /\ Reading(ui, g)
  BY <1>1 DEF pump, PageInv
<1>3. c \in Chat
  <2>1. ui.chat >= 1
    BY <1>1, <1>2 DEF PageInv, Asks
  <2> QED BY <1>1, <2>1, PageFields DEF Chat
<1>4. g \in GwRec /\ Written(g)
  BY Zenon, <1>3, InvParts, WrittenOK
<1>5. PICK n \in r..Len(o) :
        LET p == ReadLines(SubSeq(o, r + 1, n), {"done", "error"})
            end == IF n = r THEN "done" ELSE p.end
            text == ui.fullText \o p.tokens
        IN  /\ n = r => n = Len(o) /\ g.st = "ended"
            /\ \/ end = "done" /\ finish(text)
               \/ end = "error" /\ fail(text)
               \/ /\ end = "more"
                  /\ ui' = [ui EXCEPT !.read = n, !.fullText = text]
                  /\ UNCHANGED messages
  BY Zenon DEF pump
<1> DEFINE p == ReadLines(SubSeq(o, r + 1, n), {"done", "error"})
           text == ui.fullText \o p.tokens
<1>6. /\ n = r => n = Len(o) /\ g.st = "ended"
      /\ n # r => \/ p.end = "done" /\ finish(text)
                  \/ p.end = "error" /\ fail(text)
                  \/ /\ p.end = "more"
                     /\ ui' = [ui EXCEPT !.read = n, !.fullText = text]
                     /\ UNCHANGED messages
  BY Zenon, <1>5
<1>7. UNCHANGED <<provider, gone, gw, sent>>
  BY DEF pump
<1>8. /\ o \in Seq(Events) /\ Len(o) \in Nat /\ r \in 0..Len(o) /\ r \in Nat /\ n \in Nat
      /\ r <= n /\ n <= Len(o) /\ ui.fullText = SubSeq(o, 1, r) /\ ui.fullText \in Seq(TokenSet)
  BY <1>2, <1>4 DEF Reading, GwRec
<1>9. n # r
  <2>1. SUFFICES ASSUME n = r PROVE FALSE
    OBVIOUS
  <2>2. r = Len(o) /\ g.st = "ended"
    BY Zenon, <1>6, <2>1
  <2>3. Len(o) >= 1 /\ \A i \in 1..Len(o) : i = Len(o) => o[i] \in {Done, Error}
    BY Zenon, <1>4, <2>2 DEF Written
  <2> HIDE DEF o, r
  <2>4. r \in 1..Len(o) /\ o[r] \in {Done, Error}
    BY <1>8, <2>2, <2>3
  <2>5. o[r] \in TokenSet
    <3>1. SubSeq(o, 1, r)[r] = o[r] /\ Len(SubSeq(o, 1, r)) = r
      BY <1>8, <2>4
    <3> DEFINE f == SubSeq(o, 1, r)
    <3>2. f \in Seq(TokenSet) /\ Len(f) = r /\ f[r] = o[r] /\ r \in 1..Len(f)
      BY Zenon, <1>8, <2>2, <2>4, <3>1
    <3> HIDE DEF f
    <3> QED BY <3>2
  <2> QED BY Zenon, <2>4, <2>5, NoVerdict
<1>10. PageReads(o, n, p, text)
  <2>1. r < n
    BY <1>8, <1>9
  <2> QED BY Zenon, <1>4, <1>8, <2>1, ReadsOn
<1> HIDE DEF p, text
<1>11. text \in Seq(TokenSet)
  BY Zenon, <1>10 DEF PageReads
<1>12. CASE p.end = "done" /\ finish(text)
  <2>1. o = text \o <<Done>>
    BY <1>10, <1>12 DEF PageReads
  <2> QED BY Zenon, <1>2, <1>3, <1>7, <1>11, <1>12, <2>1, JoinOK
<1>13. CASE p.end = "error" /\ fail(text)
  <2>1. ui' = Ready /\ gone' \subseteq Chat /\ UNCHANGED <<provider, messages, gw, sent>>
    BY <1>1, <1>7, <1>13 DEF fail
  <2> QED BY <2>1, BackOK
<1>14. CASE /\ p.end = "more" /\ ui' = [ui EXCEPT !.read = n, !.fullText = text]
            /\ UNCHANGED messages
  <2>1. text = SubSeq(o, 1, n)
    BY <1>10, <1>14 DEF PageReads
  <2>2. n \in 0..(MaxText \div 2 + 1) /\ n \in 0..Len(o)
    <3>1. Len(o) <= MaxText \div 2 + 1 /\ MaxText \div 2 + 1 \in Nat
      BY <1>4, ChatAssumption DEF Written
    <3> HIDE DEF o, r
    <3> QED BY <1>8, <3>1
  <2>3. text \in Seq(Sym)
    <3>1. TokenSet \subseteq Sym
      BY DEF TokenSet, Sym, Kinds
    <3> QED BY <1>11, <3>1, SeqMonotonic
  <2>4. /\ ui' \in PageRec /\ ui'.chat = ui.chat /\ ui'.phase = ui.phase
        /\ ui'.streaming = ui.streaming /\ ui'.read = n /\ ui'.fullText = text
    BY Zenon, <1>1, <1>14, <2>2, <2>3 DEF PageRec
  <2>5. Reading(ui', gw[ui.chat])
    BY Zenon, <1>2, <1>11, <2>1, <2>2, <2>4 DEF Reading
  <2>6. ui'.phase # "idle" /\ ui'.phase # "fetching"
    BY <1>2, <2>4
  <2>7. gone' \subseteq Chat /\ UNCHANGED <<provider, messages, gw, sent>>
    BY <1>1, <1>7, <1>14
  <2> QED BY Zenon, <1>2, <2>4, <2>5, <2>6, <2>7, PageStepOK
<1> QED BY Zenon, <1>6, <1>9, <1>12, <1>13, <1>14

\* Every step keeps the invariant.
LEMMA ChatStep == ASSUME ChatInv, [Next]_vars PROVE ChatInv'
<1>1. CASE Next
  BY <1>1, RefuseOK, HandleOK, StatusOK, ChunkStepOK, UpstreamOK, ClosedOK, SendOK,
     FetchedOK, PumpOK, LeaveOK DEF Next
<1>2. CASE UNCHANGED vars
  <2>1. /\ provider' = provider /\ ui' = ui /\ messages' = messages /\ gone' = gone
        /\ gw' = gw /\ sent' = sent
    BY <1>2 DEF vars
  <2>2. PageInv' /\ AnswersWhole'
    BY Zenon, <2>1, InvParts DEF PageInv, AnswersWhole
  <2> QED BY Zenon, <2>1, <2>2, InvParts DEF ChatInv
<1> QED BY <1>1, <1>2

\* The invariant holds throughout.
LEMMA ChatHolds == ChatSpec => []ChatInv
<1>1. Init => ChatInv
  BY InitOK
<1>2. ChatInv /\ [Next]_vars => ChatInv'
  BY ChatStep
<1> QED BY <1>1, <1>2, PTL DEF ChatSpec

-----------------------------------------------------------------------------
(* The theorems.                                                           *)

\* The line an element is in is complete, in a sound text, up to its last even place.
LEMMA CompleteLine ==
  ASSUME NEW s \in Seq(Sym), Sound(s), NEW i \in 1..Len(s), s[i][1] # "nl"
  PROVE  /\ i + 1 <= Even(s) <=> i < Len(s) /\ s[i + 1][1] = "nl"
         /\ i <= Even(s) => i + 1 <= Even(s)
<1> DEFINE e == Even(s)
           l == Len(s)
<1>1. e \in Nat /\ e <= l /\ l <= e + 1 /\ e % 2 = 0 /\ l \in Nat
  BY EvenFacts
<1>2. i % 2 # 0
  BY DEF Sound
<1> HIDE DEF e, l
<1>3. i \in Nat /\ i >= 1 /\ i <= l
  BY DEF l
<1>4. i <= e => i + 1 <= e
  BY <1>1, <1>2, <1>3
<1>5. (i + 1) % 2 = 0
  BY <1>2, <1>3
<1>6. i < l => i + 1 <= e
  BY <1>1, <1>3, <1>4
<1>7. i + 1 <= e => i < l
  BY <1>1, <1>3
<1>8. i < l => s[i + 1][1] = "nl"
  <2>1. i < l => i + 1 \in 1..Len(s)
    BY <1>1, <1>3 DEF l
  <2> QED BY Zenon, <1>5, <2>1 DEF Sound
<1> QED BY Zenon, <1>4, <1>6, <1>7, <1>8 DEF e, l

\* What a completed answer has told is all that was said.
LEMMA ToldIsSaid ==
  ASSUME NEW s \in Seq(Sym), Sound(s), NEW n \in 0..Even(s), Free(s, n, {"stop"}), NEW up,
         Whole(up, s, n)
  PROVE  Said(s) = {s[i] : i \in {i \in 1..n : s[i][1] = "token"}}
<1> DEFINE e == Even(s)
           l == Len(s)
           J == {i \in 1..n : s[i][1] = "token"}
           complete(k) == k < l /\ s[k + 1][1] = "nl"
           stopped(k) == \E j \in 1..k : s[j][1] = "stop" /\ complete(j)
           K == {j \in 1..l : s[j][1] = "token" /\ complete(j) /\ ~stopped(j)}
<1>1. e \in Nat /\ e <= l /\ l \in Nat /\ n \in Nat /\ n <= e
  BY EvenFacts
<1>2. \A i \in 1..l : s[i][1] # "nl" => /\ i + 1 <= e <=> complete(i)
                                        /\ i <= e => i + 1 <= e
  BY Zenon, CompleteLine
<1>3. \A i \in 1..n : s[i][1] # "stop"
  BY DEF Free
<1>4. \/ n + 1 <= e /\ s[n + 1][1] = "stop"
      \/ n = e
  BY DEF Whole
<1>5. Said(s) = {s[k] : k \in K}
  BY Zenon DEF Said
<1> HIDE DEF e, l, complete
<1>6. ASSUME NEW i \in J PROVE i \in K
  <2>1. i \in 1..n /\ s[i][1] = "token" /\ i \in 1..l /\ i <= e
    BY <1>1
  <2>2. s[i][1] # "nl"
    BY <2>1
  <2>3. complete(i)
    BY Zenon, <1>2, <2>1, <2>2
  <2>4. \A j \in 1..i : j \in 1..n
    BY <1>1, <2>1
  <2>5. ~stopped(i)
    BY Zenon, <1>3, <2>4
  <2> HIDE DEF stopped
  <2> QED BY Zenon, <2>1, <2>3, <2>5
<1>7. ASSUME NEW j \in K PROVE j \in J
  <2>1. j \in 1..l /\ s[j][1] = "token" /\ complete(j) /\ ~stopped(j)
    BY Zenon
  <2>2. j + 1 <= e
    <3>1. s[j][1] # "nl"
      BY <2>1
    <3> QED BY Zenon, <1>2, <2>1, <3>1
  <2>3. j \in 1..n
    <3>1. CASE n = e
      BY <1>1, <2>1, <2>2, <3>1
    <3>2. CASE n + 1 <= e /\ s[n + 1][1] = "stop"
      <4>1. n + 1 \in 1..l /\ s[n + 1][1] # "nl"
        BY <1>1, <3>2
      <4>2. complete(n + 1)
        BY Zenon, <1>2, <3>2, <4>1
      <4>3. n + 1 \notin 1..j
        BY Zenon, <2>1, <3>2, <4>2
      <4> QED BY <1>1, <2>1, <4>3
    <3> QED BY <1>4, <3>1, <3>2
  <2> QED BY <2>1, <2>3
<1> HIDE DEF J, K
<1>8. J = K
  BY Zenon, <1>6, <1>7
<1> QED BY Zenon, <1>5, <1>8 DEF J

\* A request that has written done has told all that was said, in order.
LEMMA DoneTold ==
  ASSUME NEW g, NEW s, NEW ends, StreamOK(g, s, ends), NEW i \in 1..Len(g.out), g.out[i] = Done
  PROVE  /\ Range(Tokens(g.out)) = Said(s)
         /\ \A j, k \in 1..Len(g.out) : j < k /\ g.out[k] # Done => g.out[j][2] < g.out[k][2]
<1>1. PICK n \in 0..Even(s) : Tells(g, s, n, ends)
  BY Zenon DEF StreamOK
<1> DEFINE t == Told(s, n)
           o == g.out
           A == {"token"} \X Nat
<1>2. /\ g \in GwRec /\ s \in Seq(Sym) /\ Sound(s) /\ n \in Nat /\ n <= Len(s)
      /\ t \in Seq(TokenSet) /\ t \in Seq(Events)
  BY Zenon, <1>1, TellType
<1>3. ToldOK(s, n)
  <2>1. n \in 0..Len(s)
    BY <1>2
  <2> QED BY Zenon, <1>2, <2>1, ToldFacts
<1>4. /\ \A j, k \in 1..Len(t) : j < k => t[j][2] < t[k][2]
      /\ Range(t) = {s[j] : j \in {j \in 1..n : s[j][1] = "token"}}
  BY Zenon, <1>3 DEF ToldOK
<1> HIDE DEF t
<1>5. Len(t) \in Nat /\ \A k \in 1..Len(t) : t[k] \in TokenSet
  BY <1>2
<1>6. Done # Error /\ Done \notin TokenSet /\ Done \in Events /\ Done \notin A
  BY DEF Done, Error, TokenSet, Events
<1>7. ASSUME NEW e \in {Done, Error}, o = Append(t, e)
      PROVE  /\ Len(o) = Len(t) + 1 /\ o[Len(t) + 1] = e /\ \A k \in 1..Len(t) : o[k] = t[k]
  BY <1>2, <1>7
<1>8. CASE Unended(g, s, n, ends)
  <2>1. o = t
    BY Zenon, <1>8 DEF Unended, t
  <2> QED BY Zenon, <1>5, <1>6, <2>1
<1>9. CASE Failed(g, s, n)
  <2>1. o = Append(t, Error)
    BY Zenon, <1>9 DEF Failed, t
  <2>2. /\ Len(o) = Len(t) + 1 /\ o[Len(t) + 1] = Error /\ \A k \in 1..Len(t) : o[k] = t[k]
    BY Zenon, <1>7, <2>1
  <2> HIDE DEF o
  <2>3. o[i] = Done /\ i \in 1..Len(o)
    BY DEF o
  <2>4. i \in 1..Len(t) \/ i = Len(t) + 1
    BY <1>5, <2>2, <2>3
  <2> QED BY Zenon, <1>5, <1>6, <2>2, <2>3, <2>4
<1>10. CASE Completed(g, s, n)
  <2>1. o = Append(t, Done) /\ Free(s, n, {"stop"}) /\ Whole(g.up, s, n)
    BY Zenon, <1>10 DEF Completed, t
  <2>2. /\ Len(o) = Len(t) + 1 /\ o[Len(t) + 1] = Done /\ \A k \in 1..Len(t) : o[k] = t[k]
    BY Zenon, <1>7, <2>1
  <2> HIDE DEF o, A
  <2>3. Tokens(o) = t
    <3>0. Sift(Append(t, Done), A) = IF Done \in A THEN Append(Sift(t, A), Done) ELSE Sift(t, A)
      BY ONLY <1>2, <1>6, SiftAppend
    <3>1. Sift(Append(t, Done), A) = Sift(t, A)
      BY Zenon, <1>6, <3>0
    <3>2. Sift(t, A) = t
      BY Zenon, <1>2, TokensAll DEF Tokens, A
    <3> QED BY Zenon, <2>1, <3>1, <3>2 DEF Tokens, A
  <2>4. Range(Tokens(o)) = Said(s)
    BY Zenon, <1>2, <1>4, <2>1, <2>3, ToldIsSaid
  <2>5. ASSUME NEW j \in 1..Len(o), NEW k \in 1..Len(o), j < k, o[k] # Done
        PROVE  o[j][2] < o[k][2]
    <3>1. k \in 1..Len(t) /\ j \in 1..Len(t)
      BY <1>5, <2>2, <2>5
    <3> QED BY Zenon, <1>4, <2>2, <2>5, <3>1
  <2> QED BY Zenon, <2>4, <2>5 DEF o
<1> QED BY Zenon, <1>1, <1>8, <1>9, <1>10 DEF Tells

\* Page, conversation, gateway and provider keep their types throughout: the
\* page never counts more events than the gateway may write.
THEOREM ChatTypeCorrect == ChatSpec => []ChatTypeOK
<1>1. ChatInv => ChatTypeOK
  BY Zenon DEF ChatInv, ChatTypeOK, PageRec, Message, GwRec, Events, Sym, Text
<1> QED BY <1>1, ChatHolds, PTL

\* handleChat writes at most one verdict and nothing after it, whichever of
\* onDone, onError and the browser's leaving come, in whatever order and however
\* often.
THEOREM VerdictIsLast == ChatSpec => []OneVerdict
<1>1. ChatInv => OneVerdict
  <2>1. SUFFICES ASSUME ChatInv PROVE \A c \in Chat : Written(gw[c])
    BY Zenon DEF OneVerdict, Written
  <2>2. \A c \in Chat : StreamOK(gw[c], sent[c], Ends(provider))
    BY Zenon, <2>1, InvParts
  <2> QED BY Zenon, <2>2, WrittenOK
<1> QED BY <1>1, ChatHolds, PTL

\* When the gateway has written done, the browser has been sent every token the
\* provider sent before its stop, in order, however the text was cut into chunks.
THEOREM DoneMeansComplete == ChatSpec => []DoneIsComplete
<1>1. ChatInv => DoneIsComplete
  <2>1. SUFFICES ASSUME ChatInv, NEW c \in Chat, Done \in Range(gw[c].out)
                 PROVE  /\ Range(Tokens(gw[c].out)) = Said(sent[c])
                        /\ \A j, k \in 1..Len(gw[c].out) :
                             j < k /\ gw[c].out[k] # Done => gw[c].out[j][2] < gw[c].out[k][2]
    BY Zenon DEF DoneIsComplete
  <2>3. StreamOK(gw[c], sent[c], Ends(provider))
    BY Zenon, <2>1, InvParts
  <2>2. PICK i \in 1..Len(gw[c].out) : gw[c].out[i] = Done
    <3> DEFINE o == gw[c].out
    <3>1. o \in Seq(Events)
      BY <2>3 DEF StreamOK, GwRec
    <3> HIDE DEF o
    <3>2. DOMAIN o = 1..Len(o)
      BY <3>1
    <3> QED BY Zenon, <2>1, <3>2 DEF Range, o
  <2> QED BY Zenon, <2>2, <2>3, DoneTold
<1> QED BY <1>1, ChatHolds, PTL

\* The conversation the page resends holds answers the gateway completed, in
\* full, whatever failed or was stopped in between.
THEOREM ConversationHoldsWholeAnswers == ChatSpec => []AnswersWhole
<1>1. ChatInv => AnswersWhole
  BY Zenon, InvParts
<1> QED BY <1>1, ChatHolds, PTL
=============================================================================
