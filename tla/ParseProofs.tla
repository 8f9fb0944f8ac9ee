---------------------------- MODULE ParseProofs -----------------------------
(***************************************************************************)
(* Proofs about Parse for lines of every length: types, that every word of  *)
(* the line is reported once and in order, and that a word is taken for a   *)
(* number exactly if it is a numeral, with its value.                       *)
(***************************************************************************)
EXTENDS Parse, SequenceTheorems, WellFoundedInduction, TLAPS

\* The words of a list that are not empty.
Full(ws) == {k \in 1 .. Len(ws) : ws[k].from < ws[k].upto}
Reported(ws) == {<<ws[k].from, ws[k].upto>> : k \in Full(ws)}

\* So far the words that end before the current one have been reported, in
\* their order, and an empty one only where the line ends.
WordsSoFar ==
  /\ Reported(words) = {w \in WordsOf(line) : w[2] <= start}
  /\ \A j, k \in Full(words) : j < k => words[j].upto < words[k].from
  /\ \A k \in 1 .. Len(words) :
       k \in Full(words) \/ (k = Len(words) /\ start = Len(line) /\ pc \in {"loop", "done"})

\* Between words the line is at a blank, or at one of its ends; within a word it
\* is at the first character of it.
AtWord ==
  /\ pc = "loop" => start = 0 \/ start = Len(line) \/ line[start + 1] \in Blanks
  /\ pc = "parse" => start < end
  /\ pc \in {"parse", "number", "string"} =>
       (start < end /\ <<start, end>> \in WordsOf(line)) \/ (start = end /\ end = Len(line))
  /\ pc = "done" => start = Len(line)

-----------------------------------------------------------------------------
(* Induction, and what rests on it *)

LEMMA Least ==
  ASSUME NEW T \in SUBSET Nat, T # {}
  PROVE  \E m \in T : \A n \in T : m <= n
<1> DEFINE Less == {p \in Nat \X Nat : p[1] < p[2]}
<1>1. IsWellFoundedOn(Less, Nat)
  BY NatLessThanWellFounded, Zenon DEF OpToRel
<1>2. \A n \in Nat, m \in Nat : <<n, m>> \in Less <=> n < m
  OBVIOUS
<1> HIDE DEF Less
<1>3. PICK m \in T : \A n \in T : ~ (<<n, m>> \in Less)
  BY <1>1, WFMin, Zenon
<1>4. ASSUME NEW n \in T PROVE m <= n
  <2>1. n \in Nat /\ m \in Nat
    OBVIOUS
  <2>2. ~(n < m)
    BY <1>2, <1>3, <2>1, Zenon
  <2> QED
    BY <2>1, <2>2
<1> QED
  BY <1>4


\* The least element of a set of numbers is the one that is meant.
LEMMA MinIsLeast ==
  ASSUME NEW S \in SUBSET Nat, S # {}
  PROVE  Min(S) \in S /\ \A y \in S : Min(S) <= y
<1>1. \E x \in S : \A y \in S : x <= y
  BY Least
<1>2. \E x \in S : \A y \in S : x =< y
  BY <1>1
<1> QED
  BY <1>2, Zenon DEF Min

\* tok stops at the next character that is no blank, and then at the next blank.
LEMMA BlanksSkipped ==
  ASSUME NEW X, NEW s \in Seq(X), NEW k \in 0 .. Len(s)
  PROVE  LET m == SkipBlanks(s, k)
         IN  /\ m \in k .. Len(s)
             /\ m = Len(s) \/ s[m + 1] \notin Blanks
             /\ \A j \in k + 1 .. m : s[j] \in Blanks
<1> DEFINE S == {j \in k .. Len(s) : j = Len(s) \/ s[j + 1] \notin Blanks}
           m == Min(S)
<1>1. Len(s) \in Nat
  OBVIOUS
<1>2. S \in SUBSET Nat /\ Len(s) \in S
  BY <1>1
<1>3. m \in S /\ \A y \in S : m <= y
  <2> HIDE DEF S
  <2> QED BY <1>2, MinIsLeast
<1>4. SkipBlanks(s, k) = m
  BY DEF SkipBlanks
<1> HIDE DEF m
<1>5. ASSUME NEW j \in k + 1 .. m
      PROVE  s[j] \in Blanks
  <2>1. m \in k .. Len(s)
    BY <1>3
  <2>2. j - 1 \in k .. Len(s) /\ j - 1 < m /\ j - 1 # Len(s) /\ (j - 1) + 1 = j
    BY <1>1, <2>1
  <2>3. j - 1 \notin S
    <3> SUFFICES ASSUME j - 1 \in S
                 PROVE  FALSE
      OBVIOUS
    <3> HIDE DEF S
    <3>1. m <= j - 1
      BY <1>3
    <3> QED
      BY <2>1, <2>2, <3>1
  <2> QED
    BY <2>2, <2>3
<1> QED
  BY <1>3, <1>4, <1>5

LEMMA WordSkipped ==
  ASSUME NEW X, NEW s \in Seq(X), NEW k \in 0 .. Len(s)
  PROVE  LET m == SkipWord(s, k)
         IN  /\ m \in k .. Len(s)
             /\ m = Len(s) \/ s[m + 1] \in Blanks
             /\ \A j \in k + 1 .. m : s[j] \notin Blanks
<1> DEFINE S == {j \in k .. Len(s) : j = Len(s) \/ s[j + 1] \in Blanks}
           m == Min(S)
<1>1. Len(s) \in Nat
  OBVIOUS
<1>2. S \in SUBSET Nat /\ Len(s) \in S
  BY <1>1
<1>3. m \in S /\ \A y \in S : m <= y
  <2> HIDE DEF S
  <2> QED BY <1>2, MinIsLeast
<1>4. SkipWord(s, k) = m
  BY DEF SkipWord
<1> HIDE DEF m
<1>5. ASSUME NEW j \in k + 1 .. m
      PROVE  s[j] \notin Blanks
  <2>1. m \in k .. Len(s)
    BY <1>3
  <2>2. j - 1 \in k .. Len(s) /\ j - 1 < m /\ j - 1 # Len(s) /\ (j - 1) + 1 = j
    BY <1>1, <2>1
  <2>3. j - 1 \notin S
    <3> SUFFICES ASSUME j - 1 \in S
                 PROVE  FALSE
      OBVIOUS
    <3> HIDE DEF S
    <3>1. m <= j - 1
      BY <1>3
    <3> QED
      BY <2>1, <2>2, <3>1
  <2> QED
    BY <2>2, <2>3
<1> QED
  BY <1>3, <1>4, <1>5

-----------------------------------------------------------------------------
(* Words *)

\* What is a word of s, in one place.
IsWord(s, a, b) ==
  /\ a \in 0 .. Len(s) /\ b \in 0 .. Len(s) /\ a < b
  /\ \A k \in a + 1 .. b : s[k] \notin Blanks
  /\ a = 0 \/ s[a] \in Blanks
  /\ b = Len(s) \/ s[b + 1] \in Blanks

LEMMA WordsAre ==
  ASSUME NEW s
  PROVE  /\ \A a, b : <<a, b>> \in WordsOf(s) <=> IsWord(s, a, b)
         /\ \A w \in WordsOf(s) : w = <<w[1], w[2]>> /\ IsWord(s, w[1], w[2])
<1>1. ASSUME NEW a, NEW b
      PROVE  <<a, b>> \in WordsOf(s) <=> IsWord(s, a, b)
  BY DEF WordsOf, IsWord
<1>2. ASSUME NEW w \in WordsOf(s)
      PROVE  w = <<w[1], w[2]>>
  BY DEF WordsOf
<1> QED
  BY <1>1, <1>2

\* tok finds the next word, or the end of the line, and passes over none.
LEMMA NextWord ==
  ASSUME NEW X, NEW s \in Seq(X), NEW k \in 0 .. Len(s),
         k = 0 \/ k = Len(s) \/ s[k + 1] \in Blanks,
         NEW a, a = SkipBlanks(s, k), NEW b, b = SkipWord(s, a)
  PROVE  /\ a \in k .. Len(s) /\ b \in a .. Len(s)
         /\ (a < b /\ <<a, b>> \in WordsOf(s)) \/ (a = b /\ b = Len(s))
         /\ {w \in WordsOf(s) : w[2] <= a} = {w \in WordsOf(s) : w[2] <= k}
<1>1. Len(s) \in Nat
  OBVIOUS
<1>2. /\ a \in k .. Len(s)
      /\ a = Len(s) \/ s[a + 1] \notin Blanks
      /\ \A j \in k + 1 .. a : s[j] \in Blanks
  BY BlanksSkipped
<1>3. a \in 0 .. Len(s)
  BY <1>1, <1>2
<1>4. /\ b \in a .. Len(s)
      /\ b = Len(s) \/ s[b + 1] \in Blanks
      /\ \A j \in a + 1 .. b : s[j] \notin Blanks
  BY <1>3, WordSkipped
<1>5. ASSUME a = b
      PROVE  b = Len(s)
  BY <1>1, <1>2, <1>4, <1>5
<1>6. ASSUME a # b
      PROVE  a < b /\ <<a, b>> \in WordsOf(s)
  <2>1. a < b /\ b \in 0 .. Len(s)
    BY <1>1, <1>3, <1>4, <1>6
  <2>2. a = 0 \/ s[a] \in Blanks
    <3>1. CASE a = k
      BY <1>1, <1>2, <2>1, <3>1
    <3>2. CASE a # k
      <4>1. a \in k + 1 .. a
        BY <1>1, <1>2, <3>2
      <4> QED
        BY <1>2, <4>1
    <3> QED
      BY <3>1, <3>2
  <2>3. IsWord(s, a, b)
    BY <1>3, <1>4, <2>1, <2>2 DEF IsWord
  <2> QED
    BY <2>1, <2>3, WordsAre
<1>7. ASSUME NEW w \in WordsOf(s), w[2] <= a
      PROVE  w[2] <= k
  <2>1. w[2] \in 0 .. Len(s) /\ w[1] \in 0 .. Len(s) /\ w[1] < w[2] /\ w[2] \in w[1] + 1 .. w[2]
        /\ \A j \in w[1] + 1 .. w[2] : s[j] \notin Blanks
    BY <1>1, WordsAre DEF IsWord
  <2>2. SUFFICES ASSUME ~(w[2] <= k) PROVE FALSE
    OBVIOUS
  <2>3. w[2] \in k + 1 .. a
    BY <1>1, <1>2, <1>7, <2>1, <2>2
  <2> QED
    BY <1>2, <2>1, <2>3
<1>8. ASSUME NEW w \in WordsOf(s), w[2] <= k
      PROVE  w[2] <= a
  <2>1. w[2] \in Int
    BY <1>1, WordsAre DEF IsWord
  <2> QED
    BY <1>1, <1>2, <1>8, <2>1
<1>9. {w \in WordsOf(s) : w[2] <= a} = {w \in WordsOf(s) : w[2] <= k}
  BY <1>7, <1>8, Zenon
<1> QED
  BY <1>2, <1>4, <1>5, <1>6, <1>9

\* A word does not meet another one.
LEMMA WordsApart ==
  ASSUME NEW s, Len(s) \in Nat, NEW a, NEW b, NEW c, NEW d,
         IsWord(s, a, b), IsWord(s, c, d)
  PROVE  (a = c /\ b = d) \/ b < c \/ d < a
<1>1. /\ a \in Nat /\ b \in Nat /\ c \in Nat /\ d \in Nat /\ a < b /\ c < d
      /\ b <= Len(s) /\ d <= Len(s)
  BY DEF IsWord
<1>2. b # c /\ a # d
  <2>1. b \in a + 1 .. b /\ d \in c + 1 .. d
    BY <1>1
  <2>2. s[b] \notin Blanks /\ s[d] \notin Blanks
    BY <2>1 DEF IsWord
  <2> QED
    BY <1>1, <2>2 DEF IsWord
<1>3. SUFFICES ASSUME c < b, a < d
               PROVE  a = c /\ b = d
  BY <1>1, <1>2
<1>4. ~(a < c)
  <2>1. SUFFICES ASSUME a < c PROVE FALSE
    OBVIOUS
  <2>2. c \in a + 1 .. b /\ c # 0
    BY <1>1, <1>3, <2>1
  <2> QED
    BY <2>2 DEF IsWord
<1>5. ~(c < a)
  <2>1. SUFFICES ASSUME c < a PROVE FALSE
    OBVIOUS
  <2>2. a \in c + 1 .. d /\ a # 0
    BY <1>1, <1>3, <2>1
  <2> QED
    BY <2>2 DEF IsWord
<1>6. ~(b < d)
  <2>1. SUFFICES ASSUME b < d PROVE FALSE
    OBVIOUS
  <2>2. b + 1 \in c + 1 .. d /\ b # Len(s)
    BY <1>1, <1>3, <2>1
  <2> QED
    BY <2>2 DEF IsWord
<1>7. ~(d < b)
  <2>1. SUFFICES ASSUME d < b PROVE FALSE
    OBVIOUS
  <2>2. d + 1 \in a + 1 .. b /\ d # Len(s)
    BY <1>1, <1>3, <2>1
  <2> QED
    BY <2>2 DEF IsWord
<1> QED
  BY <1>1, <1>4, <1>5, <1>6, <1>7

\* The words up to the end of one are those before it, and it.
LEMMA OneMoreWord ==
  ASSUME NEW X, NEW s \in Seq(X), NEW a, NEW b, <<a, b>> \in WordsOf(s)
  PROVE  /\ {w \in WordsOf(s) : w[2] <= b} = {w \in WordsOf(s) : w[2] <= a} \cup {<<a, b>>}
         /\ \A w \in WordsOf(s) : w[2] <= a => w[2] < a
<1>1. Len(s) \in Nat /\ IsWord(s, a, b)
  BY WordsAre
<1>2. a \in Nat /\ b \in Nat /\ a < b
  BY <1>1 DEF IsWord
<1>3. ASSUME NEW w \in WordsOf(s)
      PROVE  /\ w[1] \in Nat /\ w[2] \in Nat /\ w[1] < w[2]
             /\ w = <<a, b>> \/ b < w[1] \/ w[2] < a
  <2>1. IsWord(s, w[1], w[2]) /\ w = <<w[1], w[2]>>
    BY WordsAre
  <2>2. w[1] \in Nat /\ w[2] \in Nat /\ w[1] < w[2]
    BY <1>1, <2>1 DEF IsWord
  <2>3. (a = w[1] /\ b = w[2]) \/ b < w[1] \/ w[2] < a
    BY <1>1, <2>1, WordsApart
  <2> QED
    BY <2>1, <2>2, <2>3
<1>4. \A w \in WordsOf(s) : w[2] <= b => w[2] <= a \/ w = <<a, b>>
  BY <1>2, <1>3
<1>5. \A w \in WordsOf(s) : w[2] <= a => w[2] <= b /\ w[2] < a
  BY <1>2, <1>3
<1>6. <<a, b>>[2] <= b
  BY <1>2
<1> QED
  BY <1>4, <1>5, <1>6

-----------------------------------------------------------------------------
(* What is printed *)

\* The digits of console_putdec after the first m powers of ten.
Decimal(g, n, m) ==
  g = [k \in 0 .. m |-> IF k = 0 THEN [n |-> n, text |-> <<>>] ELSE Digit(g[k - 1], 10 ^ (10 - k))]

LEMMA PutDecUnfolds ==
  ASSUME NEW n
  PROVE  LET g == CHOOSE g : Decimal(g, n, 9)
         IN  PutDec(n) = Append(g[9].text, NibbleToChar(g[9].n))
BY DEF PutDec, Decimal

LEMMA DecimalExists ==
  ASSUME NEW n, NEW m \in Nat
  PROVE  \E g : Decimal(g, n, m)
<1> DEFINE T == {k \in Nat : ~ \E g : Decimal(g, n, k)}
<1>1. SUFFICES ASSUME T # {} PROVE FALSE
  OBVIOUS
<1>2. T \in SUBSET Nat
  OBVIOUS
<1>3. PICK k \in T : \A j \in T : k <= j
  <2> HIDE DEF T
  <2> QED BY <1>1, <1>2, Least
<1>4. k # 0
  <2> DEFINE g == [j \in 0 .. 0 |-> [n |-> n, text |-> <<>>]]
  <2>1. Decimal(g, n, 0)
    BY DEF Decimal
  <2> QED BY <2>1
<1>5. PICK g : Decimal(g, n, k - 1)
  <2>1. k - 1 \in Nat /\ k - 1 \notin T
    BY <1>3, <1>4
  <2> QED BY <2>1
<1>6. \E h : Decimal(h, n, k)
  <2> DEFINE h == [j \in 0 .. k |-> IF j = k THEN Digit(g[k - 1], 10 ^ (10 - k)) ELSE g[j]]
  <2>1. \A j \in 0 .. k - 1 : h[j] = g[j]
    BY <1>3
  <2>2. ASSUME NEW j \in 0 .. k
        PROVE  h[j] = IF j = 0 THEN [n |-> n, text |-> <<>>] ELSE Digit(h[j - 1], 10 ^ (10 - j))
    <3>1. CASE j = k
      BY <3>1, <1>4, <2>1
    <3>2. CASE j # k
      <4>1. j \in 0 .. k - 1 /\ (j # 0 => j - 1 \in 0 .. k - 1)
        BY <3>2
      <4>2. g[j] = IF j = 0 THEN [n |-> n, text |-> <<>>] ELSE Digit(g[j - 1], 10 ^ (10 - j))
        BY <1>5, <4>1, Zenon DEF Decimal
      <4> QED
        BY <2>1, <4>1, <4>2
    <3> QED BY <3>1, <3>2
  <2>3. h = [j \in 0 .. k |-> h[j]]
    OBVIOUS
  <2> HIDE DEF h
  <2>4. Decimal(h, n, k)
    BY <2>2, <2>3, Zenon DEF Decimal
  <2> QED BY <2>4
<1> QED
  BY <1>3, <1>6

LEMMA Tens ==
  /\ 10 ^ 1 = 10 /\ 10 ^ 2 = 100 /\ 10 ^ 3 = 1000 /\ 10 ^ 4 = 10000 /\ 10 ^ 5 = 100000
  /\ 10 ^ 6 = 1000000 /\ 10 ^ 7 = 10000000 /\ 10 ^ 8 = 100000000 /\ 10 ^ 9 = 1000000000
OBVIOUS

\* What console_putdec has left, and the digits so far.
Left(n, text) == [n |-> n, text |-> text]

\* One power of ten of console_putdec: zeros in front are left out.
LEMMA DigitSkips ==
  ASSUME NEW n \in Nat, NEW m \in Nat, n < m
  PROVE  Digit(Left(n, <<>>), m) = Left(n, <<>>)
<1>1. n \div m = 0 /\ n % m = n
  OBVIOUS
<1> QED
  BY <1>1 DEF Digit, Left

LEMMA DigitTakes ==
  ASSUME NEW n \in Nat, NEW m \in Nat, m > 0, NEW text, n >= m \/ text # <<>>
  PROVE  Digit(Left(n, text), m) = Left(n % m, Append(text, NibbleToChar(n \div m)))
<1>1. n >= m => n \div m # 0
  OBVIOUS
<1>2. Digit(Left(n, text), m) =
        [n |-> n % m,
         text |-> IF n \div m # 0 \/ text # <<>> THEN Append(text, NibbleToChar(n \div m)) ELSE text]
  BY DEF Digit, Left
<1> QED
  BY <1>1, <1>2 DEF Left

\* Texts of two and three characters, as they are put together.
LEMMA TextOfTwo ==
  ASSUME NEW a, NEW b
  PROVE  Append(Append(<<>>, a), b) = <<a, b>>
<1> DEFINE S == {a, b}
           s == Append(Append(<<>>, a), b)
           t == <<a, b>>
<1>1. s \in Seq(S) /\ t \in Seq(S) /\ Len(s) = 2 /\ Len(t) = 2
  OBVIOUS
<1>2. s[1] = t[1] /\ s[2] = t[2]
  OBVIOUS
<1>3. \A j \in 1 .. 2 : s[j] = t[j]
  BY <1>2
<1> HIDE DEF s, t, S
<1>4. s = t
  BY <1>1, <1>3, SeqEqual
<1> QED
  BY <1>4 DEF s, t

LEMMA TextOfThree ==
  ASSUME NEW a, NEW b, NEW c
  PROVE  Append(Append(Append(<<>>, a), b), c) = <<a, b, c>>
<1> DEFINE S == {a, b, c}
           s == Append(Append(Append(<<>>, a), b), c)
           t == <<a, b, c>>
<1>1. s \in Seq(S) /\ t \in Seq(S) /\ Len(s) = 3 /\ Len(t) = 3
  OBVIOUS
<1>2. s[1] = t[1] /\ s[2] = t[2] /\ s[3] = t[3]
  OBVIOUS
<1>3. \A j \in 1 .. 3 : s[j] = t[j]
  BY <1>2
<1> HIDE DEF s, t, S
<1>4. s = t
  BY <1>1, <1>3, SeqEqual
<1> QED
  BY <1>4 DEF s, t

\* console_putdec of a byte: one to three digits.
LEMMA PutDecIs ==
  ASSUME NEW n \in 0 .. 255
  PROVE  /\ n < 10 => PutDec(n) = <<n + 48>>
         /\ n >= 10 /\ n < 100 => PutDec(n) = <<(n \div 10) + 48, (n % 10) + 48>>
         /\ n >= 100 => PutDec(n) = <<(n \div 100) + 48, ((n % 100) \div 10) + 48, (n % 10) + 48>>
<1> DEFINE g == CHOOSE h : Decimal(h, n, 9)
<1>1. Decimal(g, n, 9)
  BY DecimalExists
<1>2. PutDec(n) = Append(g[9].text, NibbleToChar(g[9].n))
  BY PutDecUnfolds
<1> HIDE DEF g
<1>3. /\ g[0] = Left(n, <<>>)
      /\ \A k \in 1 .. 9 : g[k] = Digit(g[k - 1], 10 ^ (10 - k))
  <2>1. g = [k \in 0 .. 9 |-> IF k = 0 THEN [n |-> n, text |-> <<>>]
                                       ELSE Digit(g[k - 1], 10 ^ (10 - k))]
    BY <1>1 DEF Decimal
  <2>2. \A k \in 0 .. 9 : g[k] = IF k = 0 THEN [n |-> n, text |-> <<>>]
                                          ELSE Digit(g[k - 1], 10 ^ (10 - k))
    BY <2>1, Zenon
  <2> QED
    BY <2>2 DEF Left
<1>4. /\ \A k \in 1 .. 7 : \E m \in Nat : m > 255 /\ g[k] = Digit(g[k - 1], m)
      /\ g[8] = Digit(g[7], 100) /\ g[9] = Digit(g[8], 10)
  <2>1. \A e \in {3, 4, 5, 6, 7, 8, 9} : 10 ^ e \in Nat /\ 10 ^ e > 255
    <3>1. /\ 10 ^ 3 \in Nat /\ 10 ^ 4 \in Nat /\ 10 ^ 5 \in Nat /\ 10 ^ 6 \in Nat
          /\ 10 ^ 7 \in Nat /\ 10 ^ 8 \in Nat /\ 10 ^ 9 \in Nat
          /\ 10 ^ 3 > 255 /\ 10 ^ 4 > 255 /\ 10 ^ 5 > 255 /\ 10 ^ 6 > 255
          /\ 10 ^ 7 > 255 /\ 10 ^ 8 > 255 /\ 10 ^ 9 > 255
      BY Tens, SMT
    <3> QED
      BY <3>1, Zenon
  <2>2. /\ \A k \in 1 .. 7 : k \in 1 .. 9 /\ 10 - k \in {3, 4, 5, 6, 7, 8, 9}
        /\ 10 - 8 = 2 /\ 10 - 9 = 1 /\ 8 - 1 = 7 /\ 9 - 1 = 8 /\ 8 \in 1 .. 9 /\ 9 \in 1 .. 9
    BY SMT
  <2>3. 10 ^ 2 = 100 /\ 10 ^ 1 = 10
    BY Tens, SMT
  <2>4. \A k \in 1 .. 7 : g[k] = Digit(g[k - 1], 10 ^ (10 - k))
    BY <1>3, <2>2, Zenon
  <2>5. g[8] = Digit(g[8 - 1], 10 ^ (10 - 8)) /\ g[9] = Digit(g[9 - 1], 10 ^ (10 - 9))
    BY <1>3, <2>2, Zenon
  <2>6. g[8] = Digit(g[7], 100) /\ g[9] = Digit(g[8], 10)
    BY <2>2, <2>3, <2>5, Zenon
  <2>7. \A k \in 1 .. 7 : 10 ^ (10 - k) \in Nat /\ 10 ^ (10 - k) > 255
    BY <2>1, <2>2, Zenon
  <2> QED
    BY <2>4, <2>6, <2>7, Zenon
<1> DEFINE none == Left(n, <<>>)
<1>5. g[7] = none
  <2>1. \A m \in Nat : m > 255 => Digit(none, m) = none
    BY DigitSkips
  <2>2. ASSUME NEW k \in 1 .. 7, g[k - 1] = none
        PROVE  g[k] = none
    <3>1. PICK m \in Nat : m > 255 /\ g[k] = Digit(g[k - 1], m)
      BY <1>4, Zenon
    <3> QED
      BY <2>1, <2>2, <3>1, Zenon
  <2>3. g[0] = none
    BY <1>3, Zenon
  <2> HIDE DEF none
  <2> QED
    BY <2>2, <2>3
<1>6. ASSUME n < 10
      PROVE  PutDec(n) = <<n + 48>>
  <2>1. n \in Nat /\ n < 100 /\ 100 \in Nat /\ 10 \in Nat
    BY <1>6
  <2>2. g[8] = none
    BY <1>4, <1>5, <2>1, DigitSkips, Zenon
  <2>3. g[9] = none
    BY <1>4, <1>6, <2>1, <2>2, DigitSkips, Zenon
  <2>4. PutDec(n) = Append(<<>>, NibbleToChar(n))
    BY <1>2, <2>3 DEF Left
  <2> QED
    BY <1>6, <2>4 DEF NibbleToChar
<1>7. ASSUME n >= 10, n < 100
      PROVE  PutDec(n) = <<(n \div 10) + 48, (n % 10) + 48>>
  <2>1. n \in Nat /\ 100 \in Nat /\ 10 \in Nat /\ 10 > 0
    BY <1>7
  <2>2. g[8] = none
    BY <1>4, <1>5, <1>7, <2>1, DigitSkips, Zenon
  <2>3. g[9] = Left(n % 10, Append(<<>>, NibbleToChar(n \div 10)))
    <3>1. Digit(Left(n, <<>>), 10) = Left(n % 10, Append(<<>>, NibbleToChar(n \div 10)))
      BY <1>7, <2>1, DigitTakes, Zenon
    <3> QED
      BY <1>4, <2>2, <3>1, Zenon
  <2>4. PutDec(n) = Append(Append(<<>>, NibbleToChar(n \div 10)), NibbleToChar(n % 10))
    BY <1>2, <2>3 DEF Left
  <2>5. n % 10 < 10 /\ n \div 10 < 10
    BY <1>7
  <2>6. NibbleToChar(n \div 10) = (n \div 10) + 48 /\ NibbleToChar(n % 10) = (n % 10) + 48
    BY <2>5 DEF NibbleToChar
  <2> QED
    BY <2>4, <2>6, TextOfTwo, Zenon
<1>8. ASSUME n >= 100
      PROVE  PutDec(n) = <<(n \div 100) + 48, ((n % 100) \div 10) + 48, (n % 10) + 48>>
  <2>1. n \in Nat /\ 100 \in Nat /\ 10 \in Nat /\ 10 > 0 /\ 100 > 0 /\ n % 100 \in Nat
    BY <1>8
  <2>2. g[8] = Left(n % 100, Append(<<>>, NibbleToChar(n \div 100)))
    <3>1. Digit(Left(n, <<>>), 100) = Left(n % 100, Append(<<>>, NibbleToChar(n \div 100)))
      BY <1>8, <2>1, DigitTakes, Zenon
    <3> QED
      BY <1>4, <1>5, <3>1, Zenon
  <2> DEFINE first == Append(<<>>, NibbleToChar(n \div 100))
  <2>3. first # <<>>
    OBVIOUS
  <2>4. g[9] = Left((n % 100) % 10, Append(first, NibbleToChar((n % 100) \div 10)))
    <3>1. g[8] = Left(n % 100, first)
      BY <2>2
    <3> HIDE DEF first
    <3>2. Digit(Left(n % 100, first), 10) =
            Left((n % 100) % 10, Append(first, NibbleToChar((n % 100) \div 10)))
      BY <2>1, <2>3, DigitTakes, Zenon
    <3> QED
      BY <1>4, <3>1, <3>2, Zenon
  <2>5. PutDec(n) = Append(Append(first, NibbleToChar((n % 100) \div 10)), NibbleToChar((n % 100) % 10))
    BY <1>2, <2>4 DEF Left
  <2>6. (n % 100) % 10 = n % 10 /\ n % 10 < 10 /\ (n % 100) \div 10 < 10 /\ n \div 100 < 10
    OBVIOUS
  <2>7. /\ NibbleToChar(n \div 100) = (n \div 100) + 48
        /\ NibbleToChar((n % 100) \div 10) = ((n % 100) \div 10) + 48
        /\ NibbleToChar((n % 100) % 10) = (n % 10) + 48
    BY <2>6 DEF NibbleToChar
  <2>8. PutDec(n) = Append(Append(Append(<<>>, (n \div 100) + 48), ((n % 100) \div 10) + 48), (n % 10) + 48)
    BY <2>5, <2>7
  <2> QED
    BY <2>8, TextOfThree, Zenon
<1> QED
  BY <1>6, <1>7, <1>8

\* What the program prints is a line like others.
LEMMA PrintedIsText ==
  ASSUME NEW d \in Dumps
  PROVE  Printed(d) \in Seq(0 .. 255)
<1>1. d.mode \in OutModes /\ d.bytes[1] \in 0 .. 255 /\ d.bytes[2] \in 0 .. 255
  BY ParseAssumption
<1>2. ASSUME NEW mode \in OutModes, NEW c \in 0 .. 255
      PROVE  BusOut(mode, c) \in Seq(0 .. 255)
  <2>1. PutBin(c) \in Seq(0 .. 255)
    <3>1. ASSUME NEW x \in Nat, NEW y \in Nat, y > 0
          PROVE  48 + ((x \div y) % 2) \in 0 .. 255
      OBVIOUS
    <3>2. \A k \in 1 .. 8 : 8 - k \in {0, 1, 2, 3, 4, 5, 6, 7}
      OBVIOUS
    <3>3. \A e \in {0, 1, 2, 3, 4, 5, 6, 7} : 2 ^ e \in Nat /\ 2 ^ e > 0
      <4>1. /\ 2 ^ 0 \in Nat /\ 2 ^ 1 \in Nat /\ 2 ^ 2 \in Nat /\ 2 ^ 3 \in Nat
            /\ 2 ^ 4 \in Nat /\ 2 ^ 5 \in Nat /\ 2 ^ 6 \in Nat /\ 2 ^ 7 \in Nat
            /\ 2 ^ 0 > 0 /\ 2 ^ 1 > 0 /\ 2 ^ 2 > 0 /\ 2 ^ 3 > 0
            /\ 2 ^ 4 > 0 /\ 2 ^ 5 > 0 /\ 2 ^ 6 > 0 /\ 2 ^ 7 > 0
        BY SMT
      <4> QED
        BY <4>1, Zenon
    <3>4. \A k \in 1 .. 8 : 2 ^ (8 - k) \in Nat /\ 2 ^ (8 - k) > 0
      BY <3>2, <3>3, Zenon
    <3>5. c \in Nat
      OBVIOUS
    <3>6. \A k \in 1 .. 8 : 48 + ((c \div 2 ^ (8 - k)) % 2) \in 0 .. 255
      BY <3>1, <3>4, <3>5, Zenon
    <3> DEFINE bit(k) == 48 + ((c \div 2 ^ (8 - k)) % 2)
    <3>7. PutBin(c) = <<98>> \o [k \in 1 .. 8 |-> bit(k)]
      BY DEF PutBin
    <3>8. \A k \in 1 .. 8 : bit(k) \in 0 .. 255
      BY <3>6, Zenon
    <3> HIDE DEF bit
    <3> QED
      BY <3>7, <3>8
  <2>2. PutDec(c) \in Seq(0 .. 255)
    <3> DEFINE a == c \div 100
               b == (c % 100) \div 10
               d2 == c % 10
               b2 == c \div 10
    <3>1. a \in 0 .. 9 /\ b \in 0 .. 9 /\ d2 \in 0 .. 9 /\ b2 \in 0 .. 25
      OBVIOUS
    <3>2. \/ PutDec(c) = <<c + 48>> /\ c < 10
          \/ PutDec(c) = <<b2 + 48, d2 + 48>>
          \/ PutDec(c) = <<a + 48, b + 48, d2 + 48>>
      <4>1. c < 10 \/ (c >= 10 /\ c < 100) \/ c >= 100
        OBVIOUS
      <4> QED
        BY <4>1, PutDecIs, Zenon
    <3>3. /\ c < 10 => c + 48 \in 0 .. 255
          /\ a + 48 \in 0 .. 255 /\ b + 48 \in 0 .. 255 /\ d2 + 48 \in 0 .. 255 /\ b2 + 48 \in 0 .. 255
      BY <3>1
    <3> HIDE DEF a, b, d2, b2
    <3>4. CASE PutDec(c) = <<c + 48>> /\ c < 10
      BY <3>3, <3>4
    <3>5. CASE PutDec(c) = <<b2 + 48, d2 + 48>>
      <4>1. <<b2 + 48, d2 + 48>> \in Seq(0 .. 255)
        BY <3>3
      <4> QED
        BY <3>5, <4>1
    <3>6. CASE PutDec(c) = <<a + 48, b + 48, d2 + 48>>
      <4>1. <<a + 48, b + 48, d2 + 48>> \in Seq(0 .. 255)
        BY <3>3
      <4> QED
        BY <3>6, <4>1
    <3> QED
      BY <3>2, <3>4, <3>5, <3>6
  <2>3. PutHex8(c) \in Seq(0 .. 255)
    <3>1. c \div 16 \in 0 .. 15 /\ c % 16 \in 0 .. 15
      OBVIOUS
    <3>2. \A n \in 0 .. 15 : NibbleToChar(n) \in 0 .. 255
      BY DEF NibbleToChar
    <3>3. NibbleToChar(c \div 16) \in 0 .. 255 /\ NibbleToChar(c % 16) \in 0 .. 255
      BY <3>1, <3>2, Zenon
    <3> QED
      BY <3>3 DEF PutHex8
  <2>4. Put0x8(c) \in Seq(0 .. 255)
    BY <2>3 DEF Put0x8
  <2>5. <<c>> \in Seq(0 .. 255) /\ <<>> \in Seq(0 .. 255) /\ <<32>> \in Seq(0 .. 255)
    OBVIOUS
  <2>6. \A s, t \in Seq(0 .. 255) : s \o t \in Seq(0 .. 255)
    OBVIOUS
  <2> DEFINE text ==
        CASE mode = "ASCII" -> <<c>>
          [] mode = "BIN" -> PutBin(c)
          [] mode = "DEC" -> PutDec(c)
          [] mode = "HEX8" -> PutHex8(c)
          [] mode = "0x8" -> Put0x8(c)
          [] mode = "SILENT" -> <<>>
  <2>7. text \in Seq(0 .. 255)
    <3> HIDE DEF PutBin, PutDec, PutHex8, Put0x8
    <3>1. mode \in {"ASCII", "BIN", "DEC", "HEX8", "0x8", "SILENT"}
      BY DEF OutModes
    <3> QED
      BY <2>1, <2>2, <2>3, <2>4, <2>5, <3>1
  <2>8. BusOut(mode, c) = text \o <<32>>
    BY DEF BusOut
  <2> HIDE DEF text
  <2> QED
    BY <2>5, <2>6, <2>7, <2>8
<1>3. \A s, t \in Seq(0 .. 255) : s \o t \in Seq(0 .. 255)
  OBVIOUS
<1>4. Printed(d) = BusOut(d.mode, d.bytes[1]) \o BusOut(d.mode, d.bytes[2])
  BY DEF Printed
<1> QED
  BY <1>1, <1>2, <1>3, <1>4, Zenon

-----------------------------------------------------------------------------
(* Every word once, and in order *)

\* A word more in the list.
OneMore(us, ws, r) ==
  /\ Len(us) = Len(ws) + 1 /\ Len(ws) \in Nat
  /\ \A k \in 1 .. Len(ws) : us[k] = ws[k]
  /\ us[Len(us)] = r
  /\ ~(r.from < r.upto) => Full(us) = Full(ws) /\ Reported(us) = Reported(ws)
  /\ r.from < r.upto => /\ Full(us) = Full(ws) \cup {Len(us)}
                        /\ Reported(us) = Reported(ws) \cup {<<r.from, r.upto>>}

LEMMA WordAppended ==
  ASSUME NEW S, NEW ws \in Seq(S), NEW r \in S, NEW us, us = Append(ws, r)
  PROVE  us \in Seq(S) /\ OneMore(us, ws, r)
<1>1. /\ us \in Seq(S) /\ Len(us) = Len(ws) + 1 /\ Len(ws) \in Nat
      /\ \A k \in 1 .. Len(ws) : us[k] = ws[k]
      /\ us[Len(us)] = r
  OBVIOUS
<1>2. \A k : k \in 1 .. Len(us) <=> k \in 1 .. Len(ws) \/ k = Len(us)
  BY <1>1
<1>3. ~(Len(us) \in 1 .. Len(ws))
  BY <1>1
<1>4. \A k : k \in Full(ws) => k \in 1 .. Len(ws) /\ us[k] = ws[k]
  BY <1>1 DEF Full
<1>5. \A k \in 1 .. Len(ws) : k \in Full(us) <=> k \in Full(ws)
  BY <1>1, <1>2 DEF Full
<1>6. Len(us) \in Full(us) <=> r.from < r.upto
  BY <1>1, <1>2 DEF Full
<1>7. ~(r.from < r.upto) => Full(us) = Full(ws)
  BY <1>2, <1>4, <1>5, <1>6 DEF Full
<1>8. r.from < r.upto => Full(us) = Full(ws) \cup {Len(us)}
  BY <1>2, <1>4, <1>5, <1>6 DEF Full
<1> HIDE DEF Full
<1>9. ~(r.from < r.upto) => Reported(us) = Reported(ws)
  BY <1>4, <1>7 DEF Reported
<1>10. r.from < r.upto => Reported(us) = Reported(ws) \cup {<<r.from, r.upto>>}
  <2>1. SUFFICES ASSUME r.from < r.upto
                 PROVE  Reported(us) = Reported(ws) \cup {<<r.from, r.upto>>}
    OBVIOUS
  <2>2. Full(us) = Full(ws) \cup {Len(us)}
    BY <1>8, <2>1
  <2>3. \A k \in Full(ws) : us[k] = ws[k]
    BY <1>4
  <2>4. us[Len(us)] = r
    BY <1>1
  <2> QED
    BY <2>2, <2>3, <2>4, Zenon DEF Reported
<1> QED
  BY <1>1, <1>7, <1>8, <1>9, <1>10, Zenon DEF OneMore

Entry == [from : 0 .. Len(line), upto : 0 .. Len(line), value : {None} \cup 0 .. Word - 1]

\* A part of a line, from one place to another.
LEMMA PartIs ==
  ASSUME NEW S, NEW s \in Seq(S), NEW a \in Nat, NEW b \in Nat, a <= b, b <= Len(s)
  PROVE  /\ Len(SubSeq(s, a + 1, b)) = b - a
         /\ \A k \in 1 .. b - a : SubSeq(s, a + 1, b)[k] = s[a + k] /\ s[a + k] \in S
         /\ SubSeq(s, a + 1, b) \in Seq(S)
<1>1. Len(s) \in Nat
  OBVIOUS
<1>2. \A k \in a + 1 .. b : k \in 1 .. Len(s)
  BY <1>1
<1>3. \A k \in a + 1 .. b : s[k] \in S
  BY <1>2
<1>4. a + 1 \in Int /\ b \in Int
  OBVIOUS
<1>5. /\ SubSeq(s, a + 1, b) \in Seq(S)
      /\ Len(SubSeq(s, a + 1, b)) = IF a + 1 <= b THEN b - (a + 1) + 1 ELSE 0
      /\ \A k \in 1 .. b - (a + 1) + 1 : SubSeq(s, a + 1, b)[k] = s[(a + 1) + k - 1]
  BY <1>3, <1>4, SubSeqProperties
<1>6. (IF a + 1 <= b THEN b - (a + 1) + 1 ELSE 0) = b - a
  OBVIOUS
<1>7. ASSUME NEW k \in 1 .. b - a
      PROVE  SubSeq(s, a + 1, b)[k] = s[a + k] /\ s[a + k] \in S
  <2>1. k \in 1 .. b - (a + 1) + 1 /\ (a + 1) + k - 1 = a + k /\ a + k \in a + 1 .. b
    OBVIOUS
  <2> QED
    BY <1>3, <1>5, <2>1
<1> QED
  BY <1>5, <1>6, <1>7

LEMMA TokenIs ==
  ASSUME TypeOK, start <= end
  PROVE  /\ Len(Token) = end - start /\ Token \in Seq(0 .. 255)
         /\ \A k \in 1 .. Len(Token) : Token[k] = line[start + k] /\ Token[k] \in 0 .. 255
         /\ Len(Token) \in Nat /\ Len(line) \in Nat
<1>1. /\ line \in Seq(0 .. 255) /\ Len(line) \in Nat
      /\ start \in Nat /\ end \in Nat /\ end <= Len(line)
  BY DEF TypeOK
<1>2. end - start \in Nat
  BY <1>1
<1>3. /\ Len(Token) = end - start /\ Token \in Seq(0 .. 255)
      /\ \A k \in 1 .. end - start : Token[k] = line[start + k] /\ line[start + k] \in 0 .. 255
  <2>1. PICK s, a, b : s = line /\ a = start /\ b = end
    OBVIOUS
  <2>2. s \in Seq(0 .. 255) /\ a \in Nat /\ b \in Nat /\ a <= b /\ b <= Len(s)
    BY <1>1, <2>1
  <2>3. /\ Len(SubSeq(s, a + 1, b)) = b - a
        /\ \A k \in 1 .. b - a : SubSeq(s, a + 1, b)[k] = s[a + k] /\ s[a + k] \in 0 .. 255
        /\ SubSeq(s, a + 1, b) \in Seq(0 .. 255)
    BY <2>2, PartIs, Zenon
  <2>4. Token = SubSeq(s, a + 1, b)
    BY <2>1 DEF Token
  <2> QED
    BY <2>1, <2>3, <2>4, Zenon
<1> QED
  BY <1>1, <1>2, <1>3

IInv == TypeOK /\ AtWord /\ WordsSoFar

\* Init establishes it, for typed lines and for dumps.
LEMMA InitIInv ==
  ASSUME Init
  PROVE  IInv
<1>1. line \in Seq(0 .. 255)
  <2>1. CASE line \in UNION {[1 .. n -> Chars] : n \in 0 .. LineMax}
    <3>1. PICK n \in 0 .. LineMax : line \in [1 .. n -> Chars]
      BY <2>1
    <3>2. n \in Nat /\ Chars \subseteq 0 .. 255
      BY ParseAssumption
    <3>3. line \in [1 .. n -> 0 .. 255]
      BY <3>1, <3>2
    <3> QED
      BY <3>2, <3>3
  <2>2. CASE \E d \in Dumps : line = Printed(d)
    BY <2>2, PrintedIsText
  <2> QED
    BY <2>1, <2>2 DEF Init
<1>2. Len(line) \in Nat
  BY <1>1
<1>3. TypeOK
  BY <1>1, <1>2, ParseAssumption DEF Init, TypeOK
<1>4. AtWord
  BY DEF Init, AtWord
<1>5. Len(words) = 0 /\ start = 0
  BY DEF Init
<1>6. Full(words) = {}
  BY <1>5 DEF Full
<1>7. Reported(words) = {}
  BY <1>6 DEF Reported
<1>8. {w \in WordsOf(line) : w[2] <= start} = {}
  <2>1. SUFFICES ASSUME NEW w \in WordsOf(line), w[2] <= 0 PROVE FALSE
    BY <1>5
  <2> QED
    BY <1>2, <2>1, WordsAre DEF IsWord
<1>9. WordsSoFar
  BY <1>5, <1>6, <1>7, <1>8 DEF WordsSoFar
<1> QED
  BY <1>3, <1>4, <1>9 DEF IInv

LEMMA TokIInv ==
  ASSUME IInv, Tok
  PROVE  IInv'
<1>1. /\ pc = "loop" /\ start # Len(line) /\ line' = line /\ words' = words
      /\ start' = SkipBlanks(line, start) /\ end' = SkipWord(line, start')
      /\ pc' = IF end' = start' THEN "string" ELSE "parse"
      /\ i' = 0 /\ base' = 10 /\ num' = 0
  BY DEF Tok
<1>2. TypeOK /\ AtWord /\ WordsSoFar
  BY DEF IInv
<1>3. line \in Seq(0 .. 255) /\ start \in 0 .. Len(line) /\ Len(line) \in Nat
  BY <1>2 DEF TypeOK
<1>4. start = 0 \/ start = Len(line) \/ line[start + 1] \in Blanks
  BY <1>1, <1>2 DEF AtWord
<1>5. /\ start' \in start .. Len(line) /\ end' \in start' .. Len(line)
      /\ (start' < end' /\ <<start', end'>> \in WordsOf(line)) \/ (start' = end' /\ end' = Len(line))
      /\ {w \in WordsOf(line) : w[2] <= start'} = {w \in WordsOf(line) : w[2] <= start}
  <2>1. PICK k, a, b : k = start /\ a = start' /\ b = end'
    OBVIOUS
  <2>2. /\ k \in 0 .. Len(line) /\ (k = 0 \/ k = Len(line) \/ line[k + 1] \in Blanks)
        /\ a = SkipBlanks(line, k) /\ b = SkipWord(line, a)
    BY <1>1, <1>3, <1>4, <2>1, Zenon
  <2>3. /\ a \in k .. Len(line) /\ b \in a .. Len(line)
        /\ (a < b /\ <<a, b>> \in WordsOf(line)) \/ (a = b /\ b = Len(line))
        /\ {w \in WordsOf(line) : w[2] <= a} = {w \in WordsOf(line) : w[2] <= k}
    BY <1>3, <2>2, NextWord
  <2> QED
    BY <2>1, <2>3, Zenon
<1>6. start' \in 0 .. Len(line) /\ end' \in 0 .. Len(line) /\ start' <= end'
  BY <1>3, <1>5
<1>7. pc' \in {"string", "parse"} /\ (pc' = "parse" <=> start' # end')
  BY <1>1
<1>8. TypeOK'
  BY <1>1, <1>2, <1>6, <1>7, ParseAssumption DEF TypeOK
<1>9. AtWord'
  <2>1. pc' = "parse" => start' < end'
    BY <1>3, <1>6, <1>7
  <2> QED
    BY <1>1, <1>5, <1>7, <2>1 DEF AtWord
<1>10. WordsSoFar'
  <2>1. \A k \in 1 .. Len(words) : k \in Full(words)
    BY <1>1, <1>2 DEF WordsSoFar
  <2> QED
    BY <1>1, <1>2, <1>5, <2>1, Zenon DEF WordsSoFar
<1> QED
  BY <1>8, <1>9, <1>10 DEF IInv

\* The steps of parse_number leave the words and the pointers alone.
LEMMA ParseNumberIInv ==
  ASSUME IInv, ParseNumber
  PROVE  IInv'
<1>1. /\ pc = "parse" /\ pc' \in {"parse", "string", "number"}
      /\ line' = line /\ words' = words /\ start' = start /\ end' = end
  BY DEF ParseNumber, ReadPrefix, ReadDigit, NoDigit, Parsed, Parsing
<1>2. TypeOK /\ AtWord /\ WordsSoFar
  BY DEF IInv
<1>3. /\ start < end /\ start <= end /\ i \in 0 .. end - start /\ Len(line) \in Nat
      /\ start \in Nat /\ end \in Nat
  BY <1>1, <1>2 DEF TypeOK, AtWord
<1>4. /\ Len(Token) = end - start
      /\ \A k \in 1 .. Len(Token) : Token[k] \in 0 .. 255
  BY <1>2, <1>3, TokenIs
<1>5. /\ pc' = "parse" => i' \in 0 .. end - start
      /\ base' \in {2, 10, 16} /\ num' \in 0 .. Word - 1
  <2>1. base \in {2, 10, 16} /\ num \in 0 .. Word - 1
    BY <1>2 DEF TypeOK
  <2>2. CASE ReadPrefix
    <3>1. i < Len(Token) /\ num' = num /\ Prefix(Token[i + 1]) # 0
          /\ ((pc' = "string" /\ i' = i /\ base' = base) \/ (i' = i + 1 /\ base' = Prefix(Token[i + 1])))
      BY <2>2 DEF ReadPrefix, Parsing
    <3>2. Prefix(Token[i + 1]) \in {0, 2, 16}
      BY DEF Prefix
    <3>3. i + 1 \in 0 .. end - start
      BY <1>3, <1>4, <3>1
    <3> QED
      BY <2>1, <3>1, <3>2, <3>3
  <2>3. CASE ReadDigit
    <3>1. /\ i < Len(Token) /\ i' = i + 1 /\ base' = base
          /\ num' = (num * base + DigitToInt(Token[i + 1])) % Word
      BY <2>3 DEF ReadDigit, Parsing
    <3>2. DigitToInt(Token[i + 1]) \in 0 .. 255
      <4>1. Token[i + 1] \in 0 .. 255
        BY <1>3, <1>4, <3>1
      <4>2. \A ch \in 0 .. 255 : DigitToInt(ch) \in 0 .. 255
        BY DEF DigitToInt
      <4> QED
        BY <4>1, <4>2
    <3>3. num * base + DigitToInt(Token[i + 1]) \in Nat
      <4>1. num * base \in Nat
        BY <2>1, ParseAssumption
      <4> QED
        BY <3>2, <4>1
    <3>4. \A x \in Nat : x % Word \in 0 .. Word - 1
      BY ParseAssumption
    <3>5. i + 1 \in 0 .. end - start
      BY <1>3, <1>4, <3>1
    <3> QED
      BY <2>1, <3>1, <3>3, <3>4, <3>5
  <2>4. CASE NoDigit \/ Parsed
    BY <1>3, <2>1, <2>4 DEF NoDigit, Parsed
  <2> QED
    BY <2>2, <2>3, <2>4 DEF ParseNumber
<1>6. TypeOK'
  BY <1>1, <1>2, <1>3, <1>5 DEF TypeOK
<1>7. AtWord'
  BY <1>1, <1>2 DEF AtWord
<1>8. WordsSoFar'
  <2>1. \A k \in 1 .. Len(words) : k \in Full(words)
    BY <1>1, <1>2 DEF WordsSoFar
  <2> QED
    BY <1>1, <1>2, <2>1, Zenon DEF WordsSoFar
<1> QED
  BY <1>6, <1>7, <1>8 DEF IInv

\* A word, or the end of the line, is reported.
LEMMA ReportIInv ==
  ASSUME IInv, NEW value \in {None} \cup 0 .. Word - 1, pc \in {"number", "string"}, Report(value)
  PROVE  IInv'
<1> DEFINE r == [from |-> start, upto |-> end, value |-> value]
<1>1. /\ words' = Append(words, r) /\ start' = end /\ pc' = "loop"
      /\ line' = line /\ end' = end /\ base' = base /\ num' = num
  BY DEF Report
<1>2. TypeOK /\ AtWord /\ WordsSoFar
  BY DEF IInv
<1>3. /\ start \in 0 .. Len(line) /\ end \in 0 .. Len(line) /\ start <= end
      /\ Len(line) \in Nat /\ start \in Nat /\ end \in Nat /\ line \in Seq(0 .. 255)
  BY <1>2 DEF TypeOK
<1>4. r \in Entry /\ words \in Seq(Entry) /\ r.from = start /\ r.upto = end
  BY <1>2, <1>3 DEF TypeOK, Entry
<1>5. \/ start < end /\ <<start, end>> \in WordsOf(line)
      \/ start = end /\ end = Len(line)
  BY <1>2 DEF AtWord
<1>6. /\ Reported(words) = {w \in WordsOf(line) : w[2] <= start}
      /\ \A j, k \in Full(words) : j < k => words[j].upto < words[k].from
      /\ \A k \in 1 .. Len(words) : k \in Full(words)
  BY <1>2 DEF WordsSoFar
<1> HIDE DEF r
<1>7. /\ words' \in Seq(Entry) /\ Len(words') = Len(words) + 1 /\ Len(words) \in Nat
      /\ \A k \in 1 .. Len(words) : words'[k] = words[k]
      /\ words'[Len(words')] = r
      /\ ~(start < end) => Full(words') = Full(words) /\ Reported(words') = Reported(words)
      /\ start < end => /\ Full(words') = Full(words) \cup {Len(words')}
                        /\ Reported(words') = Reported(words) \cup {<<start, end>>}
  <2>1. words' \in Seq(Entry) /\ OneMore(words', words, r)
    BY <1>1, <1>4, WordAppended, Zenon
  <2> QED
    BY <1>4, <2>1 DEF OneMore
<1>8. TypeOK'
  BY <1>1, <1>2, <1>3, <1>7 DEF TypeOK, Entry
<1>9. AtWord'
  <2>1. end = 0 \/ end = Len(line) \/ line[end + 1] \in Blanks
    BY <1>5, WordsAre DEF IsWord
  <2> QED
    BY <1>1, <2>1 DEF AtWord
<1>10. CASE start = end
  <2>1. Full(words') = Full(words) /\ Reported(words') = Reported(words)
    BY <1>3, <1>7, <1>10
  <2>2. Reported(words') = {w \in WordsOf(line') : w[2] <= start'}
    BY <1>1, <1>6, <1>10, <2>1
  <2>3. \A k \in Full(words) : k \in 1 .. Len(words)
    BY DEF Full
  <2>4. \A j, k \in Full(words') : j < k => words'[j].upto < words'[k].from
    BY <1>6, <1>7, <2>1, <2>3
  <2>5. \A k \in 1 .. Len(words') : k \in Full(words') \/ (k = Len(words') /\ start' = Len(line') /\ pc' \in {"loop", "done"})
    BY <1>1, <1>3, <1>5, <1>6, <1>7, <1>10, <2>1
  <2>6. WordsSoFar'
    BY <2>2, <2>4, <2>5 DEF WordsSoFar
  <2> QED
    BY <1>8, <1>9, <2>6 DEF IInv
<1>11. CASE start # end
  <2>1. start < end /\ <<start, end>> \in WordsOf(line)
    BY <1>5, <1>11
  <2>2. /\ Full(words') = Full(words) \cup {Len(words')}
        /\ Reported(words') = Reported(words) \cup {<<start, end>>}
    BY <1>7, <2>1
  <2>3. /\ {w \in WordsOf(line) : w[2] <= end} = {w \in WordsOf(line) : w[2] <= start} \cup {<<start, end>>}
        /\ \A w \in WordsOf(line) : w[2] <= start => w[2] < start
    BY <1>3, <2>1, OneMoreWord, Zenon
  <2>4. Reported(words') = {w \in WordsOf(line') : w[2] <= start'}
    BY <1>1, <1>6, <2>2, <2>3, Zenon
  <2>5. \A k \in Full(words) : k \in 1 .. Len(words) /\ k # Len(words') /\ k < Len(words') /\ words'[k] = words[k]
    BY <1>7 DEF Full
  <2>6. \A k \in Full(words) : words[k].upto < start
    <3>1. SUFFICES ASSUME NEW k \in Full(words) PROVE words[k].upto < start
      OBVIOUS
    <3>2. <<words[k].from, words[k].upto>> \in Reported(words)
      BY DEF Reported
    <3>3. <<words[k].from, words[k].upto>> \in WordsOf(line) /\ <<words[k].from, words[k].upto>>[2] <= start
      BY <1>6, <3>2, Zenon
    <3>4. <<words[k].from, words[k].upto>>[2] < start
      BY <2>3, <3>3, Zenon
    <3> QED
      BY <3>4
  <2>7. words'[Len(words')].from = start
    BY <1>4, <1>7, Zenon
  <2>8. \A j, k \in Full(words') : j < k => words'[j].upto < words'[k].from
    <3>1. SUFFICES ASSUME NEW j \in Full(words'), NEW k \in Full(words'), j < k
                   PROVE  words'[j].upto < words'[k].from
      OBVIOUS
    <3>2. j # Len(words')
      BY <1>7, <2>2, <2>5, <3>1
    <3>3. j \in Full(words)
      BY <2>2, <3>2
    <3>4. CASE k = Len(words')
      BY <2>5, <2>6, <2>7, <3>3, <3>4
    <3>5. CASE k # Len(words')
      <4>1. k \in Full(words)
        BY <2>2, <3>5
      <4> QED
        BY <1>6, <2>5, <3>1, <3>3, <4>1
    <3> QED
      BY <3>4, <3>5
  <2>9. \A k \in 1 .. Len(words') : k \in Full(words')
    BY <1>6, <1>7, <2>2
  <2>10. WordsSoFar'
    BY <2>4, <2>8, <2>9 DEF WordsSoFar
  <2> QED
    BY <1>8, <1>9, <2>10 DEF IInv
<1> QED
  BY <1>10, <1>11

LEMMA NextIInv ==
  ASSUME IInv, [Next]_vars
  PROVE  IInv'
<1>1. CASE Tok
  BY <1>1, TokIInv
<1>2. CASE ParseNumber
  BY <1>2, ParseNumberIInv
<1>3. CASE Number
  <2>1. num \in {None} \cup 0 .. Word - 1
    BY DEF IInv, TypeOK
  <2> QED
    BY <1>3, <2>1, ReportIInv DEF Number
<1>4. CASE String
  BY <1>4, ReportIInv DEF String
<1>5. CASE EndOfLine
  <2>1. TypeOK'
    BY <1>5 DEF EndOfLine, IInv, TypeOK
  <2>2. AtWord'
    BY <1>5 DEF EndOfLine, IInv, AtWord
  <2>3. WordsSoFar'
    <3>1. /\ pc = "loop" /\ pc' = "done" /\ line' = line /\ start' = start /\ words' = words
          /\ WordsSoFar
      BY <1>5 DEF EndOfLine, IInv
    <3> QED
      BY <3>1, Zenon DEF WordsSoFar
  <2> QED
    BY <2>1, <2>2, <2>3 DEF IInv
<1>6. CASE UNCHANGED vars
  <2>1. UNCHANGED <<line, start, end, pc, i, base, num, words>>
    BY <1>6 DEF vars
  <2>2. TypeOK'
    BY <2>1 DEF IInv, TypeOK
  <2>3. AtWord'
    BY <2>1 DEF IInv, AtWord
  <2>4. WordsSoFar'
    BY <2>1, Zenon DEF IInv, WordsSoFar
  <2> QED
    BY <2>2, <2>3, <2>4 DEF IInv
<1> QED
  BY <1>1, <1>2, <1>3, <1>4, <1>5, <1>6 DEF Next, Done

LEMMA Inductive == Spec => []IInv
<1>1. Init => IInv
  BY InitIInv
<1>2. IInv /\ [Next]_vars => IInv'
  BY NextIInv
<1> QED
  BY <1>1, <1>2, PTL DEF Spec

\* Types; the pointers of tok and tok_num stay in the line, for lines of every
\* length.
THEOREM ParseTypes == Spec => []TypeOK
<1>1. IInv => TypeOK
  BY DEF IInv
<1> QED
  BY <1>1, Inductive, PTL

\* The handlers get every word of the line once and in order; only the last
\* word they get can be empty.
THEOREM WordsOnce == Spec => []EveryWordOnce
<1>1. ASSUME IInv PROVE EveryWordOnce
  <2>1. SUFFICES ASSUME pc = "done"
                 PROVE  /\ Reported(words) = WordsOf(line)
                        /\ \A j, k \in Full(words) : j < k => words[j].upto < words[k].from
                        /\ \A k \in 1 .. Len(words) : k \in Full(words) \/ k = Len(words)
    BY DEF EveryWordOnce, Reported, Full
  <2>2. WordsSoFar /\ start = Len(line) /\ Len(line) \in Nat
    BY <1>1, <2>1 DEF IInv, AtWord, TypeOK
  <2>3. \A w \in WordsOf(line) : w[2] <= start
    BY <2>2, WordsAre DEF IsWord
  <2> QED
    BY <2>2, <2>3, Zenon DEF WordsSoFar
<1>2. IInv => EveryWordOnce
  BY <1>1
<1> QED
  BY <1>2, Inductive, PTL

-----------------------------------------------------------------------------
(* What a numeral means *)

\* The values of the first m digits of s, in base b.
Values(f, b, s, m) ==
  f = [n \in 0 .. m |-> IF n = 0 THEN 0 ELSE f[n - 1] * b + DigitValue(s[n])]

LEMMA ValueInIs ==
  ASSUME NEW b, NEW s
  PROVE  ValueIn(b, s) = (CHOOSE f : Values(f, b, s, Len(s)))[Len(s)]
BY DEF ValueIn, Values

LEMMA ValuesExist ==
  ASSUME NEW b, NEW s, NEW m \in Nat
  PROVE  \E f : Values(f, b, s, m)
<1> DEFINE T == {k \in Nat : ~ \E f : Values(f, b, s, k)}
<1>1. SUFFICES ASSUME T # {} PROVE FALSE
  OBVIOUS
<1>2. T \in SUBSET Nat
  OBVIOUS
<1>3. PICK k \in T : \A n \in T : k <= n
  <2> HIDE DEF T
  <2> QED BY <1>1, <1>2, Least
<1>4. k # 0
  <2> DEFINE f == [n \in 0 .. 0 |-> 0]
  <2>1. Values(f, b, s, 0)
    BY DEF Values
  <2> QED BY <2>1
<1>5. PICK f : Values(f, b, s, k - 1)
  <2>1. k - 1 \in Nat /\ k - 1 \notin T
    BY <1>3, <1>4
  <2> QED BY <2>1
<1>6. \E h : Values(h, b, s, k)
  <2> DEFINE h == [n \in 0 .. k |-> IF n = k THEN f[k - 1] * b + DigitValue(s[k]) ELSE f[n]]
  <2>1. \A n \in 0 .. k - 1 : h[n] = f[n]
    BY <1>3
  <2>2. ASSUME NEW n \in 0 .. k
        PROVE  h[n] = IF n = 0 THEN 0 ELSE h[n - 1] * b + DigitValue(s[n])
    <3>1. CASE n = k
      <4>1. h[n] = f[k - 1] * b + DigitValue(s[k]) /\ k - 1 \in 0 .. k - 1 /\ n # 0
        BY <3>1, <1>3, <1>4
      <4> QED
        BY <2>1, <3>1, <4>1, Zenon
    <3>2. CASE n # k
      <4>1. n \in 0 .. k - 1 /\ (n # 0 => n - 1 \in 0 .. k - 1)
        BY <3>2
      <4>2. f[n] = IF n = 0 THEN 0 ELSE f[n - 1] * b + DigitValue(s[n])
        BY <1>5, <4>1, Zenon DEF Values
      <4> HIDE DEF h
      <4> QED
        BY <2>1, <4>1, <4>2, Zenon
    <3> QED BY <3>1, <3>2
  <2>3. h = [n \in 0 .. k |-> h[n]]
    OBVIOUS
  <2> HIDE DEF h
  <2>4. Values(h, b, s, k)
    BY <2>2, <2>3, Zenon DEF Values
  <2> QED BY <2>4
<1> QED
  BY <1>3, <1>6

Same(s, t, m) == \A k \in 1 .. m : s[k] = t[k]

LEMMA ValuesAgree ==
  \A b, s, t, f, h : \A m, n \in Nat :
    m <= n /\ Same(s, t, m) /\ Values(f, b, s, m) /\ Values(h, b, t, n) =>
      \A k \in 0 .. m : f[k] = h[k]
<1> SUFFICES ASSUME NEW b, NEW s, NEW t, NEW f, NEW h, NEW m \in Nat, NEW n \in Nat, m <= n,
                    Same(s, t, m), Values(f, b, s, m), Values(h, b, t, n)
             PROVE  \A k \in 0 .. m : f[k] = h[k]
  OBVIOUS
<1> DEFINE T == {k \in 0 .. m : f[k] # h[k]}
<1>1. SUFFICES ASSUME T # {} PROVE FALSE
  OBVIOUS
<1>2. T \in SUBSET Nat
  OBVIOUS
<1>3. PICK k \in T : \A l \in T : k <= l
  <2> HIDE DEF T
  <2> QED BY <1>1, <1>2, Least
<1>4. k \in 0 .. m /\ k \in 0 .. n
  BY <1>3
<1>5. /\ f[k] = IF k = 0 THEN 0 ELSE f[k - 1] * b + DigitValue(s[k])
      /\ h[k] = IF k = 0 THEN 0 ELSE h[k - 1] * b + DigitValue(t[k])
  BY <1>4, Zenon DEF Values
<1>6. k # 0
  BY <1>3, <1>5, Zenon
<1>7. k - 1 \in 0 .. m /\ k - 1 \notin T /\ s[k] = t[k]
  BY <1>3, <1>4, <1>6 DEF Same
<1>8. f[k - 1] = h[k - 1]
  BY <1>7
<1>9. f[k] # h[k]
  BY <1>3
<1> QED
  BY <1>5, <1>6, <1>7, <1>8, <1>9, Zenon

LEMMA ValueInEmpty ==
  ASSUME NEW b
  PROVE  ValueIn(b, <<>>) = 0
<1>1. PICK f : f = (CHOOSE x : Values(x, b, <<>>, 0)) /\ Values(f, b, <<>>, 0)
  BY ValuesExist
<1>2. f[0] = 0
  <2>1. 0 \in 0 .. 0
    OBVIOUS
  <2> QED
    BY <1>1, <2>1, Zenon DEF Values
<1>3. Len(<<>>) = 0
  OBVIOUS
<1> QED
  BY <1>1, <1>2, <1>3, ValueInIs

\* One digit more.
LEMMA ValueInAppend ==
  ASSUME NEW S, NEW b, NEW s \in Seq(S), NEW d \in S
  PROVE  ValueIn(b, Append(s, d)) = ValueIn(b, s) * b + DigitValue(d)
<1> DEFINE t == Append(s, d)
           n == Len(s)
<1>1. /\ n \in Nat /\ Len(t) = n + 1 /\ t[n + 1] = d
      /\ \A k \in 1 .. n : s[k] = t[k]
  OBVIOUS
<1> HIDE DEF t, n
<1>2. PICK f : Values(f, b, s, n) /\ ValueIn(b, s) = f[n]
  BY <1>1, ValuesExist, ValueInIs DEF n
<1>3. PICK h : Values(h, b, t, n + 1) /\ ValueIn(b, t) = h[n + 1]
  <2>1. n + 1 \in Nat
    BY <1>1
  <2>2. \E h : Values(h, b, t, n + 1)
    BY <2>1, ValuesExist
  <2>3. ValueIn(b, t) = (CHOOSE h : Values(h, b, t, n + 1))[n + 1]
    BY <1>1, ValueInIs
  <2> QED
    BY <2>2, <2>3
<1>4. f[n] = h[n]
  <2>1. n + 1 \in Nat /\ n <= n + 1 /\ n \in 0 .. n
    BY <1>1
  <2>2. Same(s, t, n)
    BY <1>1 DEF Same
  <2>3. \A k \in 0 .. n : f[k] = h[k]
    BY <1>1, <1>2, <1>3, <2>1, <2>2, ValuesAgree
  <2> QED
    BY <2>1, <2>3
<1>5. h[n + 1] = h[n] * b + DigitValue(t[n + 1])
  <2>1. n + 1 \in 0 .. n + 1 /\ n + 1 # 0 /\ (n + 1) - 1 = n
    BY <1>1
  <2> QED BY <1>3, <2>1, Zenon DEF Values
<1> QED
  BY <1>1, <1>2, <1>3, <1>4, <1>5, Zenon DEF t

\* digit_to_int is below the base exactly for the digits of that base, although
\* it tests the lower ends of its ranges only.
LEMMA DigitIs ==
  ASSUME NEW ch \in 0 .. 255, NEW b \in {2, 10, 16}
  PROVE  /\ DigitToInt(ch) < b <=> ch \in DigitsOf(b)
         /\ ch \in DigitsOf(b) => DigitToInt(ch) = DigitValue(ch) /\ DigitValue(ch) \in 0 .. 15
<1>1. \A x \in Int : /\ x \in 0 .. 255 => x % 256 = x
                     /\ x \in -48 .. -1 => x % 256 = x + 256
  OBVIOUS
<1>2. CASE ch >= 97
  <2>1. DigitToInt(ch) = (ch - 87) % 256
    BY <1>2 DEF DigitToInt
  <2>2. ch - 87 \in Int /\ ch - 87 \in 0 .. 255
    BY <1>2
  <2>3. DigitToInt(ch) = ch - 87
    BY <1>1, <2>1, <2>2
  <2>4. ch \in DigitsOf(b) <=> ch \in 97 .. 102 /\ b = 16
    BY <1>2 DEF DigitsOf
  <2>5. ch \in 97 .. 102 => DigitValue(ch) = ch - 97 + 10
    BY <1>2 DEF DigitValue
  <2> QED
    BY <1>2, <2>3, <2>4, <2>5
<1>3. CASE ch >= 65 /\ ch < 97
  <2>1. DigitToInt(ch) = (ch - 55) % 256
    BY <1>3 DEF DigitToInt
  <2>2. ch - 55 \in Int /\ ch - 55 \in 0 .. 255
    BY <1>3
  <2>3. DigitToInt(ch) = ch - 55
    BY <1>1, <2>1, <2>2
  <2>4. ch \in DigitsOf(b) <=> ch \in 65 .. 70 /\ b = 16
    BY <1>3 DEF DigitsOf
  <2>5. ch \in 65 .. 70 => DigitValue(ch) = ch - 65 + 10
    BY <1>3 DEF DigitValue
  <2> QED
    BY <1>3, <2>3, <2>4, <2>5
<1>4. CASE ch >= 58 /\ ch < 65
  <2>1. DigitToInt(ch) = (ch - 0) % 256
    BY <1>4 DEF DigitToInt
  <2>2. ch - 0 = ch /\ ch \in Int
    OBVIOUS
  <2>3. DigitToInt(ch) = ch
    BY <1>1, <2>1, <2>2
  <2>4. ~(ch \in DigitsOf(b))
    BY <1>4 DEF DigitsOf
  <2> QED
    BY <1>4, <2>3, <2>4
<1>5. CASE ch >= 48 /\ ch < 58
  <2>1. DigitToInt(ch) = (ch - 48) % 256
    BY <1>5 DEF DigitToInt
  <2>2. ch - 48 \in Int /\ ch - 48 \in 0 .. 255
    BY <1>5
  <2>3. DigitToInt(ch) = ch - 48
    BY <1>1, <2>1, <2>2
  <2>4. ch \in DigitsOf(b) <=> b = 16 \/ ch \in 48 .. 47 + b
    BY <1>5 DEF DigitsOf
  <2>5. DigitValue(ch) = ch - 48
    BY <1>5 DEF DigitValue
  <2> QED
    BY <1>5, <2>3, <2>4, <2>5
<1>6. CASE ch < 48
  <2>1. DigitToInt(ch) = (ch - 48) % 256
    BY <1>6 DEF DigitToInt
  <2>2. ch - 48 \in Int /\ ch - 48 \in -48 .. -1
    BY <1>6
  <2>3. DigitToInt(ch) = ch - 48 + 256
    BY <1>1, <2>1, <2>2
  <2>4. ~(ch \in DigitsOf(b))
    BY <1>6 DEF DigitsOf
  <2> QED
    BY <1>6, <2>3, <2>4
<1> QED
  BY <1>2, <1>3, <1>4, <1>5, <1>6

LEMMA DecimalDigit ==
  ASSUME NEW ch \in 0 .. 255, ch >= 48, ch < 58
  PROVE  DigitValue(ch) = ch - 48
BY DEF DigitValue

\* uint32_t computes modulo 2^32: reducing before or after a digit is the same.
LEMMA ModularDigit ==
  ASSUME NEW v \in Nat, NEW b \in Nat, NEW d \in Nat
  PROVE  ((v % Word) * b + d) % Word = (v * b + d) % Word
<1> DEFINE q == v \div Word
           r == v % Word
<1>1. Word \in Nat /\ Word > 0
  BY ParseAssumption
<1>2. q \in Nat /\ r \in Nat /\ v = q * Word + r
  BY <1>1
<1> HIDE DEF q, r
<1> DEFINE x == r * b + d
<1>3. x \in Nat /\ v * b + d = (q * b) * Word + x
  BY <1>1, <1>2
<1>4. q * b \in Nat
  BY <1>2
<1> HIDE DEF x
<1>5. ASSUME NEW k \in Nat, NEW y \in Nat
      PROVE  (k * Word + y) % Word = y % Word
  <2> DEFINE s == y \div Word
             t == y % Word
  <2>1. s \in Nat /\ t \in 0 .. Word - 1 /\ y = s * Word + t
    BY <1>1
  <2> HIDE DEF s, t
  <2>2. k * Word + y = (k + s) * Word + t
    BY <1>1, <2>1
  <2>3. ((k + s) * Word + t) % Word = t
    BY <1>1, <2>1
  <2> QED
    BY <2>2, <2>3 DEF t
<1>6. ((q * b) * Word + x) % Word = x % Word
  BY <1>3, <1>4, <1>5
<1> QED
  BY <1>3, <1>6 DEF x, r

-----------------------------------------------------------------------------
(* Only numerals pass for numbers *)

Plain == [text |-> <<>>, base |-> 10]
B == [text |-> <<98>>, base |-> 2]
OB == [text |-> <<48, 98>>, base |-> 2]
H == [text |-> <<104>>, base |-> 16]
OX == [text |-> <<48, 120>>, base |-> 16]

\* The length of the prefix p.
Skip(p) == Len(p.text)

\* s is the prefix p and something after it; and this is digits.
Begins(p, s) == IsStrictPrefix(p.text, s)
Digits(b, s, m, n) == \A k \in m + 1 .. n : s[k] \in DigitsOf(b)

LEMMA NotationsAre ==
  /\ Notations = {Plain, B, OB, H, OX}
  /\ Skip(Plain) = 0 /\ Skip(B) = 1 /\ Skip(OB) = 2 /\ Skip(H) = 1 /\ Skip(OX) = 2
  /\ Plain.base = 10 /\ B.base = 2 /\ OB.base = 2 /\ H.base = 16 /\ OX.base = 16
<1>1. Notations = {Plain, B, OB, H, OX}
  BY DEF Notations, Plain, B, OB, H, OX
<1>2. Len(<<>>) = 0 /\ Len(<<98>>) = 1 /\ Len(<<48, 98>>) = 2 /\ Len(<<104>>) = 1 /\ Len(<<48, 120>>) = 2
  OBVIOUS
<1> QED
  BY <1>1, <1>2 DEF Skip, Plain, B, OB, H, OX

\* The first character, and the first two of a text.
LEMMA FirstOnes ==
  ASSUME NEW S, NEW s \in Seq(S)
  PROVE  /\ Len(s) >= 1 => SubSeq(s, 1, 1) = <<s[1]>>
         /\ Len(s) >= 2 => SubSeq(s, 1, 2) = <<s[1], s[2]>>
         /\ SubSeq(s, 1, 0) = <<>>
<1>1. Len(s) \in Nat
  OBVIOUS
<1>2. SubSeq(s, 1, 0) = <<>>
  OBVIOUS
<1>3. ASSUME Len(s) >= 1
      PROVE  SubSeq(s, 1, 1) = <<s[1]>>
  <2> DEFINE u == SubSeq(s, 0 + 1, 1)
             v == <<s[1]>>
  <2>1. u \in Seq(S) /\ Len(u) = 1 - 0 /\ \A k \in 1 .. 1 - 0 : u[k] = s[0 + k]
    BY <1>1, <1>3, PartIs
  <2>2. s[1] \in S
    BY <1>1, <1>3
  <2>3. v \in Seq(S) /\ Len(v) = 1 /\ v[1] = s[1]
    BY <2>2
  <2>4. u = SubSeq(s, 1, 1)
    OBVIOUS
  <2> HIDE DEF u, v
  <2>5. u = v
    BY <2>1, <2>3, SeqEqual
  <2> QED
    BY <2>4, <2>5 DEF v
<1>4. ASSUME Len(s) >= 2
      PROVE  SubSeq(s, 1, 2) = <<s[1], s[2]>>
  <2> DEFINE u == SubSeq(s, 0 + 1, 2)
             v == <<s[1], s[2]>>
  <2>1. u \in Seq(S) /\ Len(u) = 2 - 0 /\ \A k \in 1 .. 2 - 0 : u[k] = s[0 + k]
    BY <1>1, <1>4, PartIs
  <2>2. s[1] \in S /\ s[2] \in S
    BY <1>1, <1>4
  <2>3. v \in Seq(S) /\ Len(v) = 2 /\ v[1] = s[1] /\ v[2] = s[2]
    BY <2>2
  <2>4. u = SubSeq(s, 1, 2)
    OBVIOUS
  <2> HIDE DEF u, v
  <2>5. \A k \in 1 .. Len(u) : u[k] = v[k]
    BY <2>1, <2>3
  <2>6. u = v
    BY <2>1, <2>3, <2>5, SeqEqual
  <2> QED
    BY <2>4, <2>6 DEF v
<1> QED
  BY <1>2, <1>3, <1>4

LEMMA StrictPrefixIs ==
  ASSUME NEW S, NEW s \in Seq(S), NEW t \in Seq(S)
  PROVE  IsStrictPrefix(t, s) <=> Len(t) < Len(s) /\ SubSeq(s, 1, Len(t)) = t
<1>1. /\ Len(t) \in Nat /\ Len(s) \in Nat
      /\ SubSeq(t, 1, Len(t)) = t /\ SubSeq(s, 1, Len(s)) = s
  BY SubSeqFull
<1>2. Len(s) = Len(t) /\ SubSeq(s, 1, Len(t)) = t => s = t
  BY <1>1, Zenon
<1>3. s = t => Len(s) = Len(t)
  OBVIOUS
<1>4. Len(t) < Len(s) <=> Len(t) <= Len(s) /\ Len(s) # Len(t)
  <2>1. \A m, n \in Nat : (m < n) <=> (m <= n /\ n # m)
    OBVIOUS
  <2> QED
    BY <1>1, <2>1, Zenon
<1>5. IsStrictPrefix(t, s) <=> (Len(t) <= Len(s) /\ SubSeq(t, 1, Len(t)) = SubSeq(s, 1, Len(t))) /\ t # s
  BY Zenon DEF IsStrictPrefix, IsPrefix
<1>6. SubSeq(t, 1, Len(t)) = SubSeq(s, 1, Len(t)) <=> SubSeq(s, 1, Len(t)) = t
  BY <1>1, Zenon
<1> QED
  BY <1>2, <1>3, <1>4, <1>5, <1>6, Zenon

LEMMA BeginsIs ==
  ASSUME NEW s \in Seq(0 .. 255)
  PROVE  /\ Begins(Plain, s) <=> Len(s) > 0
         /\ Begins(B, s) <=> Len(s) > 1 /\ s[1] = 98
         /\ Begins(H, s) <=> Len(s) > 1 /\ s[1] = 104
         /\ Begins(OB, s) <=> Len(s) > 2 /\ s[1] = 48 /\ s[2] = 98
         /\ Begins(OX, s) <=> Len(s) > 2 /\ s[1] = 48 /\ s[2] = 120
<1>1. Len(s) \in Nat
  OBVIOUS
<1>2. ASSUME NEW t \in Seq(0 .. 255)
      PROVE  IsStrictPrefix(t, s) <=> Len(t) < Len(s) /\ SubSeq(s, 1, Len(t)) = t
  BY StrictPrefixIs
<1>3. ASSUME NEW c \in 0 .. 255
      PROVE  IsStrictPrefix(<<c>>, s) <=> Len(s) > 1 /\ s[1] = c
  <2>1. <<c>> \in Seq(0 .. 255) /\ Len(<<c>>) = 1
    OBVIOUS
  <2>2. IsStrictPrefix(<<c>>, s) <=> 1 < Len(s) /\ SubSeq(s, 1, 1) = <<c>>
    BY <1>2, <2>1
  <2>3. Len(s) > 1 => (SubSeq(s, 1, 1) = <<c>> <=> s[1] = c)
    BY <1>1, FirstOnes
  <2> QED
    BY <1>1, <2>2, <2>3
<1>4. ASSUME NEW c \in 0 .. 255, NEW d \in 0 .. 255
      PROVE  IsStrictPrefix(<<c, d>>, s) <=> Len(s) > 2 /\ s[1] = c /\ s[2] = d
  <2>1. <<c, d>> \in Seq(0 .. 255) /\ Len(<<c, d>>) = 2
    OBVIOUS
  <2>2. IsStrictPrefix(<<c, d>>, s) <=> 2 < Len(s) /\ SubSeq(s, 1, 2) = <<c, d>>
    BY <1>2, <2>1
  <2>3. Len(s) > 2 => (SubSeq(s, 1, 2) = <<c, d>> <=> s[1] = c /\ s[2] = d)
    <3>1. Len(s) > 2 => SubSeq(s, 1, 2) = <<s[1], s[2]>>
      BY <1>1, FirstOnes
    <3>2. <<s[1], s[2]>> = <<c, d>> <=> s[1] = c /\ s[2] = d
      OBVIOUS
    <3> QED
      BY <3>1, <3>2, Zenon
  <2> QED
    BY <1>1, <2>2, <2>3
<1>5. IsStrictPrefix(<<>>, s) <=> Len(s) > 0
  <2>1. <<>> \in Seq(0 .. 255) /\ Len(<<>>) = 0
    OBVIOUS
  <2>2. IsStrictPrefix(<<>>, s) <=> 0 < Len(s) /\ SubSeq(s, 1, 0) = <<>>
    BY <1>2, <2>1
  <2> QED
    BY <1>1, <2>2, FirstOnes
<1>6. /\ Plain.text = <<>> /\ B.text = <<98>> /\ H.text = <<104>>
      /\ OB.text = <<48, 98>> /\ OX.text = <<48, 120>>
  BY DEF Plain, B, H, OB, OX
<1>7. 98 \in 0 .. 255 /\ 104 \in 0 .. 255 /\ 48 \in 0 .. 255 /\ 120 \in 0 .. 255
  OBVIOUS
<1>8. /\ IsStrictPrefix(<<98>>, s) <=> Len(s) > 1 /\ s[1] = 98
      /\ IsStrictPrefix(<<104>>, s) <=> Len(s) > 1 /\ s[1] = 104
      /\ IsStrictPrefix(<<48, 98>>, s) <=> Len(s) > 2 /\ s[1] = 48 /\ s[2] = 98
      /\ IsStrictPrefix(<<48, 120>>, s) <=> Len(s) > 2 /\ s[1] = 48 /\ s[2] = 120
  <2>1. IsStrictPrefix(<<98>>, s) <=> Len(s) > 1 /\ s[1] = 98
    BY <1>3, <1>7
  <2>2. IsStrictPrefix(<<104>>, s) <=> Len(s) > 1 /\ s[1] = 104
    BY <1>3, <1>7
  <2>3. IsStrictPrefix(<<48, 98>>, s) <=> Len(s) > 2 /\ s[1] = 48 /\ s[2] = 98
    <3>1. PICK c \in 0 .. 255, d \in 0 .. 255 : c = 48 /\ d = 98
      BY <1>7
    <3>2. IsStrictPrefix(<<c, d>>, s) <=> Len(s) > 2 /\ s[1] = c /\ s[2] = d
      BY <1>4
    <3> QED
      BY <3>1, <3>2, Zenon
  <2>4. IsStrictPrefix(<<48, 120>>, s) <=> Len(s) > 2 /\ s[1] = 48 /\ s[2] = 120
    <3>1. PICK c \in 0 .. 255, d \in 0 .. 255 : c = 48 /\ d = 120
      BY <1>7
    <3>2. IsStrictPrefix(<<c, d>>, s) <=> Len(s) > 2 /\ s[1] = c /\ s[2] = d
      BY <1>4
    <3> QED
      BY <3>1, <3>2, Zenon
  <2> QED
    BY <2>1, <2>2, <2>3, <2>4, Zenon
<1>9. /\ Begins(Plain, s) <=> IsStrictPrefix(<<>>, s)
      /\ Begins(B, s) <=> IsStrictPrefix(<<98>>, s)
      /\ Begins(H, s) <=> IsStrictPrefix(<<104>>, s)
      /\ Begins(OB, s) <=> IsStrictPrefix(<<48, 98>>, s)
      /\ Begins(OX, s) <=> IsStrictPrefix(<<48, 120>>, s)
  BY <1>6, Zenon DEF Begins
<1> QED
  BY <1>5, <1>8, <1>9, Zenon

\* A numeral in the notation p.
Numeral(p, s) == Begins(p, s) /\ Digits(p.base, s, Skip(p), Len(s))

LEMMA MeantIs ==
  ASSUME NEW s
  PROVE  /\ \A p \in Notations : Numeral(p, s) => ValueIn(p.base, SubSeq(s, Skip(p) + 1, Len(s))) % Word \in Meant(s)
         /\ (\A p \in Notations : ~Numeral(p, s)) => Meant(s) = {}
<1>1. Meant(s) = {ValueIn(p.base, SubSeq(s, Skip(p) + 1, Len(s))) % Word : p \in {q \in Notations : Numeral(q, s)}}
  BY DEF Meant, Numeral, Begins, Digits, Skip
<1> QED
  BY <1>1, Zenon

\* What is said of a word: its value, or that it is no number.
Right(s, v) == s = <<>> \/ TwoPrefixes(s) \/ v \in IF Meant(s) = {} THEN {None} ELSE Meant(s)

\* The state of parse_number before its first step, and between two others: the
\* prefix p has been read, and the digits up to the j-th character, whose value is x.
Fresh(j, b, x) == j = 0 /\ b = 10 /\ x = 0
Follows(p, s, j, b, x) ==
  /\ Begins(p, s) /\ j \in Skip(p) .. Len(s) /\ b = p.base
  /\ Digits(b, s, Skip(p), j)
  /\ \E v \in Nat : v = ValueIn(b, SubSeq(s, Skip(p) + 1, j)) /\ x = v % Word
  /\ p = Plain => /\ j >= 1
                  /\ j = 1 => x = DigitValue(s[1])
Understood(s, j, b, x) ==
  TwoPrefixes(s) \/ Fresh(j, b, x) \/ \E p \in Notations : Follows(p, s, j, b, x)

\* A part that is one character longer.
LEMMA PartGrows ==
  ASSUME NEW S, NEW s \in Seq(S), NEW m \in Nat, NEW j \in Nat, m <= j, j < Len(s)
  PROVE  SubSeq(s, m + 1, j + 1) = Append(SubSeq(s, m + 1, j), s[j + 1])
<1>1. /\ Len(s) \in Nat /\ m + 1 \in 1 .. Len(s) /\ j + 1 \in m + 1 .. Len(s)
      /\ (j + 1) - 1 = j /\ j <= Len(s) /\ j + 1 \in 1 .. Len(s)
  OBVIOUS
<1>2. SubSeq(s, m + 1, j + 1) = SubSeq(s, m + 1, (j + 1) - 1) \o <<s[j + 1]>>
  BY <1>1, SubSeqRecursiveSecond
<1>3. SubSeq(s, m + 1, j) \in Seq(S)
  BY <1>1, PartIs
<1>4. s[j + 1] \in S
  BY <1>1
<1>5. Append(SubSeq(s, m + 1, j), s[j + 1]) = SubSeq(s, m + 1, j) \o <<s[j + 1]>>
  BY <1>3, <1>4, AppendIsConcat
<1> QED
  BY <1>1, <1>2, <1>5

\* Its value.
LEMMA PartValue ==
  ASSUME NEW S, NEW s \in Seq(S), NEW b, NEW m \in Nat, NEW j \in Nat, m <= j, j < Len(s)
  PROVE  ValueIn(b, SubSeq(s, m + 1, j + 1)) = ValueIn(b, SubSeq(s, m + 1, j)) * b + DigitValue(s[j + 1])
<1>1. SubSeq(s, m + 1, j + 1) = Append(SubSeq(s, m + 1, j), s[j + 1])
  BY PartGrows
<1>2. j + 1 \in 1 .. Len(s) /\ j <= Len(s)
  OBVIOUS
<1>3. SubSeq(s, m + 1, j) \in Seq(S) /\ s[j + 1] \in S
  BY <1>2, PartIs
<1> QED
  BY <1>1, <1>3, ValueInAppend, Zenon

LEMMA NotationTypes ==
  ASSUME NEW p \in Notations
  PROVE  Skip(p) \in Nat /\ p.base \in {2, 10, 16}
BY NotationsAre

\* ReadDigit after a prefix or a digit.
LEMMA MoreDigits ==
  ASSUME NEW s \in Seq(0 .. 255), NEW p \in Notations, NEW j \in Nat, NEW b, NEW x,
         Follows(p, s, j, b, x), j < Len(s), s[j + 1] \in DigitsOf(b)
  PROVE  Follows(p, s, j + 1, b, (x * b + DigitToInt(s[j + 1])) % Word)
<1> DEFINE d == DigitToInt(s[j + 1])
<1>1. /\ Begins(p, s) /\ b = p.base /\ Digits(b, s, Skip(p), j)
      /\ Skip(p) \in Nat /\ b \in {2, 10, 16} /\ Skip(p) <= j /\ Len(s) \in Nat
      /\ p = Plain => j >= 1
  BY NotationTypes DEF Follows
<1>2. PICK v \in Nat : v = ValueIn(b, SubSeq(s, Skip(p) + 1, j)) /\ x = v % Word
  BY DEF Follows
<1>3. s[j + 1] \in 0 .. 255
  <2>1. j + 1 \in 1 .. Len(s)
    BY <1>1
  <2>2. \A S : s \in Seq(S) => s[j + 1] \in S
    BY <2>1
  <2> QED
    BY <2>2
<1>4. d = DigitValue(s[j + 1]) /\ d \in Nat
  <2>1. PICK ch \in 0 .. 255 : ch = s[j + 1]
    BY <1>3
  <2>2. DigitToInt(ch) = DigitValue(ch) /\ DigitValue(ch) \in 0 .. 15
    BY <1>1, <2>1, DigitIs
  <2> QED
    BY <2>1, <2>2
<1> HIDE DEF d
<1>5. ValueIn(b, SubSeq(s, Skip(p) + 1, j + 1)) = v * b + d
  BY <1>1, <1>2, <1>4, PartValue
<1>6. b \in Nat /\ v * b + d \in Nat
  BY <1>1, <1>4
<1>7. (x * b + d) % Word = (v * b + d) % Word
  BY <1>2, <1>4, <1>6, ModularDigit
<1>8. j + 1 \in Skip(p) .. Len(s)
  BY <1>1
<1>9. Digits(b, s, Skip(p), j + 1)
  <2>1. \A k \in Skip(p) + 1 .. j + 1 : k \in Skip(p) + 1 .. j \/ k = j + 1
    BY <1>1
  <2> QED
    BY <1>1, <2>1 DEF Digits
<1>10. j + 1 >= 1 /\ (p = Plain => j + 1 # 1)
  BY <1>1
<1>11. Follows(p, s, j + 1, b, (x * b + d) % Word)
  BY <1>1, <1>5, <1>6, <1>7, <1>8, <1>9, <1>10, Zenon DEF Follows
<1> QED
  BY <1>11 DEF d

\* ReadDigit at the first character.
LEMMA FirstDigit ==
  ASSUME NEW s \in Seq(0 .. 255), Len(s) > 0, s[1] \in DigitsOf(10)
  PROVE  Follows(Plain, s, 1, 10, (0 * 10 + DigitToInt(s[1])) % Word)
<1> DEFINE d == DigitToInt(s[1])
<1>1. Len(s) \in Nat /\ Skip(Plain) = 0 /\ Plain.base = 10
  BY NotationsAre
<1>2. s[1] \in 0 .. 255
  <2>1. 1 \in 1 .. Len(s)
    BY <1>1
  <2>2. \A S : s \in Seq(S) => s[1] \in S
    BY <2>1
  <2> QED
    BY <2>2
<1>3. d = DigitValue(s[1]) /\ d \in 0 .. 15
  BY <1>2, DigitIs
<1> HIDE DEF d
<1>4. PICK n \in Nat, one \in Nat : n = 0 /\ one = n + 1
  OBVIOUS
<1>5. SubSeq(s, one, n) = <<>> /\ one = 1
  BY <1>4, FirstOnes
<1>6. ValueIn(10, SubSeq(s, Skip(Plain) + 1, 1)) = d
  <2>1. ValueIn(10, SubSeq(s, n + 1, n + 1)) = ValueIn(10, SubSeq(s, n + 1, n)) * 10 + DigitValue(s[n + 1])
    <3>1. n <= n /\ n < Len(s)
      BY <1>1, <1>4
    <3> QED
      BY <3>1, PartValue, Zenon
  <2>2. ValueIn(10, SubSeq(s, one, n)) = 0
    BY <1>5, ValueInEmpty
  <2>3. ValueIn(10, SubSeq(s, one, one)) = d
    BY <1>3, <1>4, <1>5, <2>1, <2>2
  <2> QED
    BY <1>1, <1>5, <2>3
<1>7. (0 * 10 + d) % Word = d /\ d % Word = d /\ d \in Nat
  <2>1. d \in Nat /\ d < Word /\ Word \in Nat /\ 0 * 10 + d = d
    BY <1>3, ParseAssumption
  <2>2. d % Word = d
    BY <2>1
  <2> QED
    BY <2>1, <2>2
<1>8. Digits(10, s, Skip(Plain), 1)
  <2>1. \A k \in 0 + 1 .. 1 : k = 1
    OBVIOUS
  <2> QED
    BY <1>1, <2>1 DEF Digits
<1>9. Begins(Plain, s) /\ 1 \in Skip(Plain) .. Len(s) /\ 1 >= 1
  BY <1>1, BeginsIs
<1>10. Follows(Plain, s, 1, 10, d)
  BY <1>1, <1>3, <1>6, <1>7, <1>8, <1>9 DEF Follows
<1> QED
  BY <1>7, <1>10 DEF d

\* ReadPrefix.
LEMMA PrefixRead ==
  ASSUME NEW s \in Seq(0 .. 255), NEW p \in Notations, p # Plain, Begins(p, s)
  PROVE  Follows(p, s, Skip(p), p.base, 0)
<1>1. Skip(p) \in Nat /\ Len(s) \in Nat
  BY NotationTypes
<1>2. Skip(p) \in Skip(p) .. Len(s)
  <2>1. Skip(p) <= Len(s)
    BY <1>1, NotationsAre, BeginsIs
  <2> QED
    BY <1>1, <2>1
<1>3. SubSeq(s, Skip(p) + 1, Skip(p)) = <<>>
  BY <1>1, SubSeqEmpty
<1>4. ValueIn(p.base, SubSeq(s, Skip(p) + 1, Skip(p))) = 0 /\ 0 \in Nat
  BY <1>3, ValueInEmpty
<1>5. 0 % Word = 0
  BY ParseAssumption
<1>6. Digits(p.base, s, Skip(p), Skip(p))
  BY <1>1 DEF Digits
<1> QED
  BY <1>2, <1>4, <1>5, <1>6, Zenon DEF Follows

\* Parsed: a numeral was read, and its value.
LEMMA NumeralRead ==
  ASSUME NEW s, NEW p \in Notations, NEW b, NEW x, Follows(p, s, Len(s), b, x)
  PROVE  Right(s, x)
<1>1. Numeral(p, s)
  BY DEF Numeral, Follows
<1>2. x = ValueIn(p.base, SubSeq(s, Skip(p) + 1, Len(s))) % Word
  BY DEF Follows
<1>3. x \in Meant(s)
  BY <1>1, <1>2, MeantIs
<1> QED
  BY <1>3 DEF Right

\* A word that is no numeral is no number.
LEMMA NotNumeral ==
  ASSUME NEW s, ~Numeral(Plain, s), ~Numeral(B, s), ~Numeral(OB, s), ~Numeral(H, s), ~Numeral(OX, s)
  PROVE  Right(s, None)
<1>1. \A p \in Notations : ~Numeral(p, s)
  BY NotationsAre
<1>2. Meant(s) = {}
  BY <1>1, MeantIs
<1> QED
  BY <1>2 DEF Right

\* ReadPrefix takes a prefix as the notations do, or two of them.
LEMMA PrefixStep ==
  ASSUME NEW s \in Seq(0 .. 255), NEW j \in Nat, NEW b, NEW x, j < Len(s),
         Understood(s, j, b, x), x = 0
  PROVE  /\ j = 0 /\ s[1] = 98 /\ Len(s) >= 2 => Understood(s, 1, 2, 0)
         /\ j = 0 /\ s[1] = 104 /\ Len(s) >= 2 => Understood(s, 1, 16, 0)
         /\ j = 1 /\ s[2] = 98 => Understood(s, 2, 2, 0)
         /\ j = 1 /\ s[2] = 120 /\ Len(s) >= 3 => Understood(s, 2, 16, 0)
<1>1. Len(s) \in Nat
  OBVIOUS
<1>2. ASSUME j = 0, s[1] = 98, Len(s) >= 2
      PROVE  Understood(s, 1, 2, 0)
  <2>1. Begins(B, s)
    BY <1>1, <1>2, BeginsIs
  <2>2. B # Plain /\ B \in Notations /\ Skip(B) = 1 /\ B.base = 2
    BY NotationsAre
  <2>3. Follows(B, s, 1, 2, 0)
    BY <2>1, <2>2, PrefixRead
  <2> QED
    BY <2>2, <2>3, Zenon DEF Understood
<1>3. ASSUME j = 0, s[1] = 104, Len(s) >= 2
      PROVE  Understood(s, 1, 16, 0)
  <2>1. Begins(H, s)
    BY <1>1, <1>3, BeginsIs
  <2>2. H # Plain /\ H \in Notations /\ Skip(H) = 1 /\ H.base = 16
    BY NotationsAre
  <2>3. Follows(H, s, 1, 16, 0)
    BY <2>1, <2>2, PrefixRead
  <2> QED
    BY <2>2, <2>3, Zenon DEF Understood
<1>4. ASSUME j = 1, s[2] \in {98, 120}, ~TwoPrefixes(s)
      PROVE  s[1] = 48 /\ Len(s) >= 2
  <2>1. Len(s) >= 2
    BY <1>1, <1>4
  <2>2. s[1] # 98 /\ s[1] # 104
    BY <1>4, <2>1 DEF TwoPrefixes
  <2>3. PICK p \in Notations : Follows(p, s, j, b, x)
    BY <1>4 DEF Understood, Fresh
  <2>4. p \notin {B, H}
    BY <2>2, <2>3, BeginsIs DEF Follows
  <2>5. p \notin {OB, OX}
    BY <1>1, <1>4, <2>3, NotationsAre DEF Follows
  <2>6. p = Plain
    BY <2>4, <2>5, NotationsAre
  <2>7. Digits(10, s, 0, 1) /\ DigitValue(s[1]) = 0
    BY <1>4, <2>3, <2>6, NotationsAre DEF Follows
  <2>8. s[1] \in DigitsOf(10)
    BY <2>7 DEF Digits
  <2>9. s[1] \in 48 .. 57
    BY <2>8 DEF DigitsOf
  <2>10. DigitValue(s[1]) = s[1] - 48
    <3>1. PICK c \in 0 .. 255 : c = s[1] /\ c >= 48 /\ c < 58
      BY <2>9
    <3>2. DigitValue(c) = c - 48
      BY <3>1, DecimalDigit
    <3> QED
      BY <3>1, <3>2
  <2> QED
    BY <2>1, <2>7, <2>9, <2>10
<1>5. ASSUME j = 1, s[2] = 98
      PROVE  Understood(s, 2, 2, 0)
  <2>1. CASE TwoPrefixes(s)
    BY <2>1 DEF Understood
  <2>2. CASE ~TwoPrefixes(s)
    <3>1. s[1] = 48 /\ Len(s) >= 2
      BY <1>4, <1>5, <2>2
    <3>2. Len(s) # 2
      <4>1. SUFFICES ASSUME Len(s) = 2 PROVE s = <<48, 98>>
        BY <2>2 DEF TwoPrefixes
      <4>2. SubSeq(s, 1, 2) = <<s[1], s[2]>>
        BY <3>1, FirstOnes
      <4>3. SubSeq(s, 1, Len(s)) = s
        BY SubSeqFull
      <4> QED
        BY <1>5, <3>1, <4>1, <4>2, <4>3, Zenon
    <3>3. Begins(OB, s)
      <4>1. Len(s) > 2
        <5>1. \A n \in Nat : n >= 2 /\ n # 2 => n > 2
          OBVIOUS
        <5> QED
          BY <1>1, <3>1, <3>2, <5>1, Zenon
      <4> QED
        <5>1. Begins(OB, s) <=> Len(s) > 2 /\ s[1] = 48 /\ s[2] = 98
          BY BeginsIs
        <5> QED
          BY <1>5, <3>1, <4>1, <5>1, Zenon
    <3>4. OB # Plain /\ OB \in Notations /\ Skip(OB) = 2 /\ OB.base = 2
      BY NotationsAre
    <3>5. Follows(OB, s, 2, 2, 0)
      BY <3>3, <3>4, PrefixRead
    <3> QED
      BY <3>4, <3>5, Zenon DEF Understood
  <2> QED
    BY <2>1, <2>2
<1>6. ASSUME j = 1, s[2] = 120, Len(s) >= 3
      PROVE  Understood(s, 2, 16, 0)
  <2>1. CASE TwoPrefixes(s)
    BY <2>1 DEF Understood
  <2>2. CASE ~TwoPrefixes(s)
    <3>1. s[1] = 48
      BY <1>4, <1>6, <2>2
    <3>2. Begins(OX, s)
      BY <1>1, <1>6, <3>1, BeginsIs
    <3>3. OX # Plain /\ OX \in Notations /\ Skip(OX) = 2 /\ OX.base = 16
      BY NotationsAre
    <3>4. Follows(OX, s, 2, 16, 0)
      BY <3>2, <3>3, PrefixRead
    <3> QED
      BY <3>3, <3>4, Zenon DEF Understood
  <2> QED
    BY <2>1, <2>2
<1> QED
  BY <1>2, <1>3, <1>5, <1>6

\* ReadDigit takes a digit.
LEMMA DigitStep ==
  ASSUME NEW s \in Seq(0 .. 255), NEW j \in Nat, NEW b, NEW x, j < Len(s),
         Understood(s, j, b, x), s[j + 1] \in DigitsOf(b)
  PROVE  Understood(s, j + 1, b, (x * b + DigitToInt(s[j + 1])) % Word)
<1>1. CASE TwoPrefixes(s)
  BY <1>1 DEF Understood
<1>2. CASE Fresh(j, b, x)
  <2>1. j = 0 /\ b = 10 /\ x = 0 /\ s[1] \in DigitsOf(10) /\ Len(s) > 0 /\ j + 1 = 1
    BY <1>2 DEF Fresh
  <2>2. Follows(Plain, s, 1, 10, (0 * 10 + DigitToInt(s[1])) % Word)
    BY <2>1, FirstDigit, Zenon
  <2>3. Follows(Plain, s, j + 1, b, (x * b + DigitToInt(s[j + 1])) % Word)
    BY <2>1, <2>2, Zenon
  <2> QED
    BY <2>3, NotationsAre, Zenon DEF Understood
<1>3. CASE \E p \in Notations : Follows(p, s, j, b, x)
  <2>1. PICK p \in Notations : Follows(p, s, j, b, x)
    BY <1>3
  <2>2. Follows(p, s, j + 1, b, (x * b + DigitToInt(s[j + 1])) % Word)
    BY <2>1, MoreDigits, Zenon
  <2> QED
    BY <2>2, Zenon DEF Understood
<1> QED
  BY <1>1, <1>2, <1>3 DEF Understood

\* parse_number gives up, at a character that is neither a digit nor a prefix
\* with something after it: the word is no numeral.
LEMMA GivesUp ==
  ASSUME NEW s \in Seq(0 .. 255), NEW j \in Nat, NEW b, NEW x, j < Len(s),
         Understood(s, j, b, x), s[j + 1] \notin DigitsOf(b),
         j = 0 /\ s[1] \in {98, 104} => Len(s) < 2,
         j = 1 /\ x = 0 => s[2] # 98 /\ (s[2] = 120 => Len(s) < 3)
  PROVE  Right(s, None)
<1>1. Len(s) \in Nat
  OBVIOUS
<1>2. CASE TwoPrefixes(s)
  BY <1>2 DEF Right
<1>3. 48 \in DigitsOf(10) /\ 98 \notin DigitsOf(10) /\ 104 \notin DigitsOf(10) /\ 120 \notin DigitsOf(10)
  BY DEF DigitsOf
<1>4. ASSUME s[1] \notin DigitsOf(10)
      PROVE  ~Numeral(Plain, s) /\ ~Numeral(OB, s) /\ ~Numeral(OX, s)
  <2>1. ~Numeral(Plain, s)
    <3>1. Numeral(Plain, s) => Len(s) > 0 /\ Digits(10, s, 0, Len(s))
      BY BeginsIs, NotationsAre DEF Numeral
    <3>2. Len(s) > 0 => 1 \in 0 + 1 .. Len(s)
      BY <1>1
    <3> QED
      BY <1>4, <3>1, <3>2, Zenon DEF Digits
  <2>2. s[1] # 48
    BY <1>3, <1>4
  <2> QED
    BY <2>1, <2>2, BeginsIs DEF Numeral
<1>5. ASSUME Len(s) >= 2, s[2] \notin DigitsOf(10)
      PROVE  ~Numeral(Plain, s)
  <2>1. Numeral(Plain, s) => Digits(10, s, 0, Len(s))
    BY NotationsAre DEF Numeral
  <2>2. 2 \in 0 + 1 .. Len(s)
    BY <1>1, <1>5
  <2> QED
    BY <1>5, <2>1, <2>2, Zenon DEF Digits
<1>6. CASE Fresh(j, b, x)
  <2>1. s[1] \notin DigitsOf(10) /\ (s[1] \in {98, 104} => Len(s) < 2)
    BY <1>6 DEF Fresh
  <2>2. ~Numeral(B, s) /\ ~Numeral(H, s)
    BY <1>1, <2>1, BeginsIs DEF Numeral
  <2> QED
    BY <1>4, <2>1, <2>2, NotNumeral
<1>7. CASE \E p \in Notations : Follows(p, s, j, b, x)
  <2>1. PICK p \in Notations : Follows(p, s, j, b, x)
    BY <1>7
  <2>2. /\ b = p.base /\ Begins(p, s) /\ Skip(p) \in Nat /\ Skip(p) <= j
        /\ p = Plain => /\ j >= 1
                        /\ j = 1 => x = DigitValue(s[1])
        /\ Digits(b, s, Skip(p), j)
    BY <2>1, NotationTypes DEF Follows
  <2>3. ~Numeral(p, s)
    <3>1. j + 1 \in Skip(p) + 1 .. Len(s)
      BY <1>1, <2>2
    <3>2. ~Digits(b, s, Skip(p), Len(s))
      BY <3>1 DEF Digits
    <3> QED
      BY <2>2, <3>2 DEF Numeral
  <2>4. CASE p \in {B, H}
    <3>1. s[1] \in {98, 104} /\ s[1] \notin DigitsOf(10)
      BY <1>3, <2>2, <2>4, BeginsIs
    <3>2. ~Numeral(B, s) /\ ~Numeral(H, s)
      BY <2>2, <2>3, <2>4, BeginsIs DEF Numeral
    <3> QED
      BY <1>4, <3>1, <3>2, NotNumeral
  <2>5. CASE p \in {OB, OX}
    <3>1. Len(s) > 2 /\ s[1] = 48 /\ s[2] \in {98, 120} /\ s[2] \notin DigitsOf(10)
      BY <1>3, <2>2, <2>5, BeginsIs
    <3>2. ~Numeral(OB, s) /\ ~Numeral(OX, s)
      BY <2>2, <2>3, <2>5, <3>1, BeginsIs DEF Numeral
    <3>3. ~Numeral(B, s) /\ ~Numeral(H, s)
      BY <3>1, BeginsIs DEF Numeral
    <3>4. ~Numeral(Plain, s)
      BY <1>1, <1>5, <3>1
    <3> QED
      BY <3>2, <3>3, <3>4, NotNumeral
  <2>6. CASE p = Plain
    <3>1. b = 10 /\ j >= 1 /\ Digits(10, s, 0, j)
      BY <2>2, <2>6, NotationsAre
    <3>2. s[1] \in DigitsOf(10)
      <4>1. 1 \in 0 + 1 .. j
        BY <3>1
      <4> QED
        BY <3>1, <4>1, Zenon DEF Digits
    <3>3. s[1] # 98 /\ s[1] # 104
      BY <1>3, <3>2
    <3>4. ~Numeral(B, s) /\ ~Numeral(H, s)
      BY <3>3, BeginsIs DEF Numeral
    <3>5. ASSUME s[1] = 48, Len(s) > 2
          PROVE  s[2] # 98 /\ s[2] # 120
      <4>1. CASE j = 1
        <5>1. DigitValue(48) = 0
          BY DEF DigitValue
        <5>2. x = 0
          BY <2>2, <2>6, <3>5, <4>1, <5>1
        <5> QED
          BY <1>1, <3>5, <4>1, <5>2
      <4>2. CASE j # 1
        <5>1. 2 \in 0 + 1 .. j
          BY <3>1, <4>2
        <5>2. s[2] \in DigitsOf(10)
          BY <3>1, <5>1, Zenon DEF Digits
        <5> QED
          BY <1>3, <5>2
      <4> QED
        BY <4>1, <4>2
    <3>6. ~Numeral(OB, s) /\ ~Numeral(OX, s)
      BY <3>5, BeginsIs DEF Numeral
    <3> QED
      BY <2>3, <2>6, <3>4, <3>6, NotNumeral
  <2> QED
    BY <2>4, <2>5, <2>6, NotationsAre
<1> QED
  BY <1>2, <1>6, <1>7 DEF Understood

\* What parse_number has understood of the word so far, what tok_num returns,
\* and what was reported.
Judging ==
  /\ pc = "parse" => Understood(Token, i, base, num)
  /\ pc = "number" => Right(Token, num)
  /\ pc = "string" => Right(Token, None)
  /\ \A k \in 1 .. Len(words) : Right(SubSeq(line, words[k].from + 1, words[k].upto), words[k].value)

LEMMA EmptyIsRight ==
  ASSUME NEW v
  PROVE  Right(<<>>, v)
BY DEF Right

LEMMA PrefixJudging ==
  ASSUME IInv, Judging, ReadPrefix
  PROVE  Judging'
<1> DEFINE c == Token[i + 1]
<1>1. /\ pc = "parse" /\ i < Len(Token) /\ Prefix(c) # 0
      /\ line' = line /\ start' = start /\ end' = end /\ words' = words /\ num' = num
      /\ TooShort(c) => pc' = "string" /\ i' = i /\ base' = base
      /\ ~TooShort(c) => pc' = pc /\ i' = i + 1 /\ base' = Prefix(c)
  BY DEF ReadPrefix, Parsing
<1>2. TypeOK /\ start <= end /\ i \in Nat
  BY <1>1 DEF IInv, TypeOK
<1>3. Token \in Seq(0 .. 255) /\ Len(Token) \in Nat
  BY <1>2, TokenIs
<1>4. Understood(Token, i, base, num)
  BY <1>1 DEF Judging
<1>5. Token' = Token
  BY <1>1 DEF Token
<1>6. /\ num = 0
      /\ \/ i = 0 /\ c = 98 /\ Prefix(c) = 2
         \/ i = 0 /\ c = 104 /\ Prefix(c) = 16
         \/ i = 1 /\ c = 98 /\ Prefix(c) = 2
         \/ i = 1 /\ c = 120 /\ Prefix(c) = 16
  <2> HIDE DEF c
  <2> QED
    BY <1>1 DEF Prefix
<1>7. PICK s, j, b, x : s = Token /\ j = i /\ b = base /\ x = num
  OBVIOUS
<1>8. /\ s \in Seq(0 .. 255) /\ Len(s) \in Nat /\ j \in Nat /\ j < Len(s) /\ Understood(s, j, b, x) /\ x = 0
      /\ c = s[j + 1]
  BY <1>1, <1>2, <1>3, <1>4, <1>6, <1>7, Zenon
<1>9. TooShort(c) <=> IF c = 120 THEN Len(s) < 3 ELSE Len(s) < 2
  BY <1>7 DEF TooShort
<1> HIDE DEF c
<1>10. ASSUME TooShort(c)
       PROVE  Right(s, None)
  <2>1. CASE j = 0 /\ c \in {98, 104}
    <3>1. s[1] \in {98, 104} /\ Len(s) < 2
      BY <1>8, <1>9, <1>10, <2>1
    <3>2. b = 10 \/ TwoPrefixes(s)
      <4>1. \A p \in Notations : Follows(p, s, j, b, x) => p = Plain /\ j >= 1
        BY <2>1, NotationsAre DEF Follows
      <4> QED
        BY <1>8, <2>1, <4>1 DEF Understood, Fresh
    <3>3. s[1] \notin DigitsOf(10)
      BY <3>1 DEF DigitsOf
    <3>4. CASE TwoPrefixes(s)
      BY <3>4 DEF Right
    <3>5. CASE b = 10
      BY <1>8, <2>1, <3>1, <3>3, <3>5, GivesUp
    <3> QED
      BY <3>2, <3>4, <3>5
  <2>2. CASE j = 1
    <3>1. c = 120 /\ s[2] = 120 /\ Len(s) < 3
      <4>1. c = 98 \/ c = 120
        BY <1>6, <1>7, <2>2
      <4>2. Len(s) > 1
        BY <1>8, <2>2
      <4> QED
        BY <1>8, <1>9, <1>10, <2>2, <4>1, <4>2
    <3>2. 120 \notin DigitsOf(b)
      BY DEF DigitsOf
    <3> QED
      BY <1>8, <2>2, <3>1, <3>2, GivesUp
  <2> QED
    BY <1>6, <1>7, <2>1, <2>2
<1>11. ASSUME ~TooShort(c)
       PROVE  Understood(s, j + 1, Prefix(c), 0)
  <2>1. /\ j = 0 /\ s[1] = 98 /\ Len(s) >= 2 => Understood(s, 1, 2, 0)
        /\ j = 0 /\ s[1] = 104 /\ Len(s) >= 2 => Understood(s, 1, 16, 0)
        /\ j = 1 /\ s[2] = 98 => Understood(s, 2, 2, 0)
        /\ j = 1 /\ s[2] = 120 /\ Len(s) >= 3 => Understood(s, 2, 16, 0)
    BY <1>8, PrefixStep, Zenon
  <2>2. CASE j = 0 /\ c = 98 /\ Prefix(c) = 2
    BY <1>8, <1>9, <1>11, <2>1, <2>2
  <2>3. CASE j = 0 /\ c = 104 /\ Prefix(c) = 16
    BY <1>8, <1>9, <1>11, <2>1, <2>3
  <2>4. CASE j = 1 /\ c = 98 /\ Prefix(c) = 2
    BY <1>8, <1>9, <1>11, <2>1, <2>4
  <2>5. CASE j = 1 /\ c = 120 /\ Prefix(c) = 16
    BY <1>8, <1>9, <1>11, <2>1, <2>5
  <2> QED
    BY <1>6, <1>7, <2>2, <2>3, <2>4, <2>5
<1>12. pc' = "parse" => Understood(Token', i', base', num')
  BY <1>1, <1>5, <1>6, <1>7, <1>11
<1>13. pc' = "string" => Right(Token', None)
  BY <1>1, <1>5, <1>7, <1>10
<1>14. pc' # "number"
  BY <1>1
<1>15. \A k \in 1 .. Len(words') : Right(SubSeq(line', words'[k].from + 1, words'[k].upto), words'[k].value)
  BY <1>1, Zenon DEF Judging
<1> QED
  BY <1>12, <1>13, <1>14, <1>15 DEF Judging

LEMMA DigitJudging ==
  ASSUME IInv, Judging, ReadDigit \/ NoDigit \/ Parsed
  PROVE  Judging'
<1>1. /\ pc = "parse"
      /\ line' = line /\ start' = start /\ end' = end /\ words' = words
  BY DEF ReadDigit, NoDigit, Parsed, Parsing
<1>2. TypeOK /\ start <= end /\ start < end /\ i \in Nat /\ base \in {2, 10, 16}
  BY <1>1 DEF IInv, TypeOK, AtWord
<1>3. /\ Token \in Seq(0 .. 255) /\ Len(Token) \in Nat /\ Len(Token) > 0
      /\ \A k \in 1 .. Len(Token) : Token[k] \in 0 .. 255
  <2>1. start \in Nat /\ end \in Nat
    BY <1>2 DEF TypeOK
  <2> QED
    BY <1>2, <2>1, TokenIs
<1>4. Understood(Token, i, base, num)
  BY <1>1 DEF Judging
<1>5. Token' = Token
  BY <1>1 DEF Token
<1>6. \A k \in 1 .. Len(words') : Right(SubSeq(line', words'[k].from + 1, words'[k].upto), words'[k].value)
  BY <1>1, Zenon DEF Judging
<1>7. PICK s, j, b, x : s = Token /\ j = i /\ b = base /\ x = num
  OBVIOUS
<1>8. /\ s \in Seq(0 .. 255) /\ Len(s) \in Nat /\ Len(s) > 0 /\ j \in Nat /\ Understood(s, j, b, x)
      /\ b \in {2, 10, 16} /\ \A k \in 1 .. Len(s) : s[k] \in 0 .. 255
  BY <1>2, <1>3, <1>4, <1>7, Zenon
<1>9. CASE ReadDigit
  <2>1. /\ i < Len(Token) /\ DigitToInt(Token[i + 1]) < base
        /\ num' = (num * base + DigitToInt(Token[i + 1])) % Word
        /\ i' = i + 1 /\ pc' = pc /\ base' = base
    BY <1>9 DEF ReadDigit, Parsing
  <2>2. j < Len(s) /\ DigitToInt(s[j + 1]) < b
    BY <1>7, <2>1
  <2>3. s[j + 1] \in 0 .. 255
    BY <1>8, <2>2
  <2>4. s[j + 1] \in DigitsOf(b)
    BY <1>8, <2>2, <2>3, DigitIs
  <2>5. Understood(s, j + 1, b, (x * b + DigitToInt(s[j + 1])) % Word)
    BY <1>8, <2>2, <2>4, DigitStep, Zenon
  <2>6. Understood(Token', i', base', num')
    BY <1>5, <1>7, <2>1, <2>5, Zenon
  <2> QED
    BY <1>1, <1>6, <2>1, <2>6 DEF Judging
<1>10. CASE NoDigit
  <2>1. /\ i < Len(Token) /\ ~(DigitToInt(Token[i + 1]) < base) /\ Prefix(Token[i + 1]) = 0
        /\ pc' = "string"
    <3>1. i < Len(Token) /\ DigitToInt(Token[i + 1]) >= base /\ Prefix(Token[i + 1]) = 0 /\ pc' = "string"
      BY <1>10 DEF NoDigit, Parsing
    <3>2. Token[i + 1] \in 0 .. 255
      BY <1>2, <1>3, <3>1
    <3>3. \A ch \in 0 .. 255 : DigitToInt(ch) \in 0 .. 255
      BY DEF DigitToInt
    <3>4. \A m \in 0 .. 255, n \in {2, 10, 16} : m >= n => ~(m < n)
      OBVIOUS
    <3> QED
      BY <1>2, <3>1, <3>2, <3>3, <3>4, Zenon
  <2>2. j < Len(s) /\ ~(DigitToInt(s[j + 1]) < b)
    BY <1>7, <2>1, Zenon
  <2>3. s[j + 1] \in 0 .. 255
    BY <1>8, <2>2
  <2>4. s[j + 1] \notin DigitsOf(b)
    BY <1>8, <2>2, <2>3, DigitIs
  <2>5. ~(x = 0 /\ j \in {0, 1} /\ s[j + 1] = 98) /\ ~(x = 0 /\ j = 0 /\ s[j + 1] = 104)
        /\ ~(x = 0 /\ j = 1 /\ s[j + 1] = 120)
    <3>1. PICK c : c = s[j + 1]
      OBVIOUS
    <3>2. Prefix(c) = 0
      BY <1>7, <2>1, <3>1, Zenon
    <3> QED
      BY <1>7, <3>1, <3>2 DEF Prefix
  <2>6. CASE TwoPrefixes(s)
    BY <1>5, <1>6, <1>7, <2>1, <2>6 DEF Judging, Right
  <2>7. CASE ~TwoPrefixes(s)
    <3>1. j = 0 => x = 0
      <4>1. \A p \in Notations : Follows(p, s, j, b, x) => j >= 1
        BY NotationsAre DEF Follows
      <4> QED
        BY <1>8, <2>7, <4>1 DEF Understood, Fresh
    <3>2. ~(j = 0 /\ s[1] \in {98, 104}) /\ ~(j = 1 /\ x = 0 /\ s[2] \in {98, 120})
      BY <2>5, <3>1
    <3>3. Right(s, None)
      BY <1>8, <2>2, <2>4, <3>2, GivesUp
    <3> QED
      BY <1>5, <1>6, <1>7, <2>1, <3>3 DEF Judging
  <2> QED
    BY <2>6, <2>7
<1>11. CASE Parsed
  <2>1. i = Len(Token) /\ pc' = "number" /\ num' = num
    BY <1>11 DEF Parsed
  <2>2. Right(s, x)
    <3>1. j = Len(s) /\ ~Fresh(j, b, x)
      BY <1>7, <1>8, <2>1 DEF Fresh
    <3>2. TwoPrefixes(s) \/ \E p \in Notations : Follows(p, s, Len(s), b, x)
      BY <1>8, <3>1 DEF Understood
    <3> QED
      BY <3>2, NumeralRead DEF Right
  <2> QED
    BY <1>5, <1>6, <1>7, <2>1, <2>2 DEF Judging
<1> QED
  BY <1>9, <1>10, <1>11

LEMMA ReportJudging ==
  ASSUME IInv, Judging, NEW value, Right(Token, value), Report(value)
  PROVE  Judging'
<1> DEFINE r == [from |-> start, upto |-> end, value |-> value]
<1>1. /\ words' = Append(words, r) /\ line' = line /\ pc' = "loop"
  BY DEF Report
<1>2. Len(words) \in Nat /\ words \in Seq(Entry)
  BY DEF IInv, TypeOK, Entry
<1>3. /\ Len(words') = Len(words) + 1
      /\ \A k \in 1 .. Len(words) : words'[k] = words[k]
      /\ words'[Len(words) + 1] = r
  BY <1>1, <1>2
<1>4. r.from = start /\ r.upto = end /\ r.value = value
  OBVIOUS
<1> HIDE DEF r
<1>5. Right(SubSeq(line, r.from + 1, r.upto), r.value)
  BY <1>4, Zenon DEF Token
<1>6. \A k \in 1 .. Len(words') : k \in 1 .. Len(words) \/ k = Len(words) + 1
  BY <1>2, <1>3
<1>7. ASSUME NEW k \in 1 .. Len(words')
      PROVE  Right(SubSeq(line', words'[k].from + 1, words'[k].upto), words'[k].value)
  <2>1. CASE k \in 1 .. Len(words)
    <3>1. words'[k] = words[k]
      BY <1>3, <2>1
    <3> QED
      BY <1>1, <2>1, <3>1, Zenon DEF Judging
  <2>2. CASE k = Len(words) + 1
    BY <1>1, <1>3, <1>5, <2>2, Zenon
  <2> QED
    BY <1>6, <2>1, <2>2
<1> QED
  BY <1>1, <1>7 DEF Judging

LEMMA NextJudging ==
  ASSUME IInv, Judging, [Next]_vars
  PROVE  Judging'
<1>1. CASE Tok
  <2>1. /\ pc' = IF end' = start' THEN "string" ELSE "parse"
        /\ i' = 0 /\ base' = 10 /\ num' = 0 /\ line' = line /\ words' = words
    BY <1>1 DEF Tok
  <2>2. Understood(Token', i', base', num')
    BY <2>1 DEF Understood, Fresh
  <2>3. end' = start' => Token' = <<>>
    <3>1. line' \in Seq(0 .. 255) /\ start' \in Nat /\ end' \in Nat
      <4>1. TypeOK'
        BY <1>1, TokIInv DEF IInv
      <4> QED
        BY <4>1 DEF TypeOK
    <3>2. \A n \in Nat, s \in Seq(0 .. 255) : SubSeq(s, n + 1, n) = <<>>
      <4>1. \A n \in Nat : n \in Int /\ n + 1 \in Int /\ n < n + 1
        OBVIOUS
      <4> QED
        BY <4>1, SubSeqEmpty, Zenon
    <3>3. Token' = SubSeq(line', start' + 1, end')
      BY DEF Token
    <3> QED
      BY <3>1, <3>2, <3>3, Zenon
  <2>4. pc' = "string" => Right(Token', None)
    BY <2>1, <2>3, EmptyIsRight
  <2>5. \A k \in 1 .. Len(words') : Right(SubSeq(line', words'[k].from + 1, words'[k].upto), words'[k].value)
    BY <2>1, Zenon DEF Judging
  <2>6. pc' # "number"
    BY <2>1
  <2> QED
    BY <2>2, <2>4, <2>5, <2>6 DEF Judging
<1>2. CASE ParseNumber
  BY <1>2, PrefixJudging, DigitJudging DEF ParseNumber
<1>3. CASE Number
  <2>1. pc = "number" /\ Report(num)
    BY <1>3 DEF Number
  <2>2. Right(Token, num)
    BY <2>1 DEF Judging
  <2> QED
    BY <2>1, <2>2, ReportJudging
<1>4. CASE String
  <2>1. pc = "string" /\ Report(None)
    BY <1>4 DEF String
  <2>2. Right(Token, None)
    BY <2>1 DEF Judging
  <2> QED
    BY <2>1, <2>2, ReportJudging
<1>5. CASE EndOfLine
  <2>1. pc' = "done" /\ line' = line /\ words' = words
    BY <1>5 DEF EndOfLine
  <2> QED
    BY <2>1 DEF Judging
<1>6. CASE UNCHANGED vars
  <2>1. UNCHANGED <<line, start, end, pc, i, base, num, words>>
    BY <1>6 DEF vars
  <2>2. Token' = Token
    BY <2>1 DEF Token
  <2> QED
    BY <2>1, <2>2 DEF Judging
<1> QED
  BY <1>1, <1>2, <1>3, <1>4, <1>5, <1>6 DEF Next, Done

LEMMA JudgingHolds == Spec => []Judging
<1>1. Init => Judging
  <2>1. SUFFICES ASSUME Init PROVE Judging
    OBVIOUS
  <2>2. pc = "loop" /\ Len(words) = 0
    BY <2>1 DEF Init
  <2> QED
    BY <2>2 DEF Judging
<1>2. IInv /\ Judging /\ [Next]_vars => Judging'
  BY NextJudging
<1> QED
  BY <1>1, <1>2, Inductive, PTL DEF Spec

\* A word is taken for a number exactly if it is a numeral in one of the
\* notations, with its value modulo 2^32, up to two prefixes in a row: for words
\* of every length and every character, although digit_to_int tests few of them.
THEOREM NumeralsAlone == Spec => []NumeralsOnly
<1>1. Judging => NumeralsOnly
  BY DEF Judging, NumeralsOnly, Right
<1> QED
  BY <1>1, JudgingHolds, PTL

-----------------------------------------------------------------------------
(* What is printed is read back *)

\* A word of the text s is either not reported at all or as v.
Spells(s, v) == \A x : Right(s, x) => x = v

\* It is a word, and spells v.
Prints(s, v) ==
  s \in Seq(0 .. 255) /\ Len(s) > 0 /\ (\A k \in 1 .. Len(s) : s[k] \notin Blanks) /\ Spells(s, v)

\* A text that is a numeral in one notation only.
LEMMA OnlyNumeral ==
  ASSUME NEW s \in Seq(0 .. 255), NEW p \in Notations, Numeral(p, s), ~TwoPrefixes(s),
         \A q \in Notations : q # p => ~Numeral(q, s),
         NEW v \in 0 .. 255, ValueIn(p.base, SubSeq(s, Skip(p) + 1, Len(s))) = v
  PROVE  Spells(s, v)
<1>1. Meant(s) = {ValueIn(q.base, SubSeq(s, Skip(q) + 1, Len(s))) % Word : q \in {q \in Notations : Numeral(q, s)}}
  BY DEF Meant, Numeral, Begins, Digits, Skip
<1>2. {q \in Notations : Numeral(q, s)} = {p}
  OBVIOUS
<1>3. Meant(s) = {v % Word}
  BY <1>1, <1>2, Zenon
<1>4. v % Word = v
  BY ParseAssumption
<1>5. Meant(s) = {v}
  BY <1>3, <1>4, Zenon
<1>6. s # <<>>
  <2>1. Len(s) > 0
    <3>1. Begins(p, s) /\ p \in {Plain, B, OB, H, OX}
      BY NotationsAre DEF Numeral
    <3>2. Len(s) \in Nat
      OBVIOUS
    <3> QED
      BY <3>1, <3>2, BeginsIs
  <2>2. Len(<<>>) = 0
    OBVIOUS
  <2> QED
    BY <2>1, <2>2
<1> QED
  BY <1>5, <1>6, Zenon DEF Spells, Right

\* A part without characters.
LEMMA NoPart ==
  ASSUME NEW S, NEW s \in Seq(S), NEW b, NEW m \in Nat
  PROVE  ValueIn(b, SubSeq(s, m + 1, m)) = 0
<1>1. m + 1 \in Int /\ m \in Int /\ m < m + 1
  OBVIOUS
<1>2. SubSeq(s, m + 1, m) = <<>>
  BY <1>1, SubSeqEmpty, Zenon
<1> QED
  BY <1>2, ValueInEmpty, Zenon

\* The digits that are printed.
LEMMA NibbleIs ==
  ASSUME NEW n \in 0 .. 15
  PROVE  /\ NibbleToChar(n) \in DigitsOf(16) /\ NibbleToChar(n) \in 0 .. 255
         /\ DigitValue(NibbleToChar(n)) = n
         /\ NibbleToChar(n) \notin Blanks
<1>1. CASE n < 10
  <2>1. NibbleToChar(n) = n + 48
    BY <1>1 DEF NibbleToChar
  <2>2. n + 48 \in 48 .. 57 /\ (n + 48) - 48 = n
    BY <1>1
  <2> QED
    BY <2>1, <2>2 DEF DigitsOf, DigitValue, Blanks
<1>2. CASE n >= 10
  <2>1. NibbleToChar(n) = n - 10 + 65
    BY <1>2 DEF NibbleToChar
  <2>2. n - 10 + 65 \in 65 .. 70 /\ (n - 10 + 65) - 65 + 10 = n
    BY <1>2
  <2> QED
    BY <2>1, <2>2 DEF DigitsOf, DigitValue, Blanks
<1> QED
  BY <1>1, <1>2

LEMMA LowDigit ==
  ASSUME NEW n \in 0 .. 9
  PROVE  /\ 48 + n \in DigitsOf(10) /\ 48 + n \in 48 .. 57
         /\ DigitValue(48 + n) = n
         /\ n < 2 => 48 + n \in DigitsOf(2)
<1>1. 48 + n \in 48 .. 57 /\ (48 + n) - 48 = n
  OBVIOUS
<1>2. DigitValue(48 + n) = n
  BY <1>1 DEF DigitValue
<1>3. 48 + n \in DigitsOf(10) /\ (n < 2 => 48 + n \in DigitsOf(2))
  BY <1>1 DEF DigitsOf
<1> QED
  BY <1>1, <1>2, <1>3

\* A decimal text.
LEMMA DecimalSpells ==
  ASSUME NEW s \in Seq(0 .. 255), Len(s) \in 1 .. 3,
         \A k \in 1 .. Len(s) : s[k] \in 48 .. 57,
         NEW v \in 0 .. 255, ValueIn(10, SubSeq(s, 1, Len(s))) = v
  PROVE  Prints(s, v)
<1>0. Len(s) > 0 /\ \A k \in 1 .. Len(s) : s[k] \notin Blanks
  <2>1. \A d \in 48 .. 57 : d \notin Blanks
    BY DEF Blanks
  <2>2. \A n \in 1 .. 3 : n > 0
    OBVIOUS
  <2> QED
    BY <2>1, <2>2, Zenon
<1>1. s[1] \in 48 .. 57 /\ (Len(s) >= 2 => s[2] \in 48 .. 57)
  OBVIOUS
<1>2. Digits(10, s, 0, Len(s))
  <2>1. \A k \in 0 + 1 .. Len(s) : s[k] \in 48 .. 57
    OBVIOUS
  <2>2. 48 .. 57 \subseteq DigitsOf(10)
    BY DEF DigitsOf
  <2> QED
    BY <2>1, <2>2, Zenon DEF Digits
<1>3. Numeral(Plain, s)
  BY <1>2, BeginsIs, NotationsAre DEF Numeral
<1>4. ~Numeral(B, s) /\ ~Numeral(H, s) /\ ~Numeral(OB, s) /\ ~Numeral(OX, s)
  BY <1>1, BeginsIs DEF Numeral
<1>5. ~TwoPrefixes(s)
  <2>1. s # <<48, 98>>
    <3>1. Len(<<48, 98>>) = 2 /\ <<48, 98>>[2] = 98
      OBVIOUS
    <3>2. PICK t : t = <<48, 98>>
      OBVIOUS
    <3>3. Len(t) = 2 /\ t[2] = 98
      BY <3>1, <3>2, Zenon
    <3>4. Len(s) = 2 => s[2] # 98
      BY <1>1
    <3>5. s # t
      BY <3>3, <3>4, Zenon
    <3> QED
      BY <3>2, <3>5, Zenon
  <2> QED
    BY <1>1, <2>1 DEF TwoPrefixes
<1>6. \A q \in Notations : q # Plain => ~Numeral(q, s)
  BY <1>4, NotationsAre, Zenon
<1>7. Plain \in Notations /\ Plain.base = 10 /\ Skip(Plain) + 1 = 1
  BY NotationsAre
<1>8. Spells(s, v)
  BY <1>3, <1>5, <1>6, <1>7, OnlyNumeral
<1> QED
  BY <1>0, <1>8, Zenon DEF Prints

\* The value of a text, digit by digit.
LEMMA FirstDigits ==
  ASSUME NEW S, NEW s \in Seq(S), NEW b, NEW m \in Nat, m <= Len(s)
  PROVE  /\ ValueIn(b, SubSeq(s, m + 1, m)) = 0
         /\ \A j \in m .. Len(s) - 1 :
              ValueIn(b, SubSeq(s, m + 1, j + 1)) = ValueIn(b, SubSeq(s, m + 1, j)) * b + DigitValue(s[j + 1])
<1>1. Len(s) \in Nat
  OBVIOUS
<1>2. \A j \in m .. Len(s) - 1 : j \in Nat /\ m <= j /\ j < Len(s)
  BY <1>1
<1> QED
  BY <1>2, NoPart, PartValue, Zenon

\* The value of decimal texts of one to three digits.
LEMMA DecimalValue ==
  ASSUME NEW S, NEW s \in Seq(S), NEW a \in Nat, NEW b \in Nat, NEW d \in Nat
  PROVE  /\ Len(s) = 1 /\ DigitValue(s[1]) = a => ValueIn(10, SubSeq(s, 1, Len(s))) = a
         /\ Len(s) = 2 /\ DigitValue(s[1]) = a /\ DigitValue(s[2]) = b
              => ValueIn(10, SubSeq(s, 1, Len(s))) = a * 10 + b
         /\ Len(s) = 3 /\ DigitValue(s[1]) = a /\ DigitValue(s[2]) = b /\ DigitValue(s[3]) = d
              => ValueIn(10, SubSeq(s, 1, Len(s))) = (a * 10 + b) * 10 + d
<1> DEFINE V(j) == ValueIn(10, SubSeq(s, 0 + 1, j))
<1>1. V(0) = 0 /\ \A j \in 0 .. Len(s) - 1 : V(j + 1) = V(j) * 10 + DigitValue(s[j + 1])
  <2>1. 0 \in Nat /\ 0 <= Len(s)
    OBVIOUS
  <2> QED
    BY <2>1, FirstDigits, Zenon
<1>2. V(Len(s)) = ValueIn(10, SubSeq(s, 1, Len(s)))
  OBVIOUS
<1> HIDE DEF V
<1>3. Len(s) >= 1 => V(1) = V(0) * 10 + DigitValue(s[1])
  <2>1. Len(s) >= 1 => 0 \in 0 .. Len(s) - 1 /\ 0 + 1 = 1
    OBVIOUS
  <2> QED
    BY <1>1, <2>1, Zenon
<1>4. Len(s) >= 2 => V(2) = V(1) * 10 + DigitValue(s[2])
  <2>1. Len(s) >= 2 => 1 \in 0 .. Len(s) - 1 /\ 1 + 1 = 2
    OBVIOUS
  <2> QED
    BY <1>1, <2>1, Zenon
<1>5. Len(s) >= 3 => V(3) = V(2) * 10 + DigitValue(s[3])
  <2>1. Len(s) >= 3 => 2 \in 0 .. Len(s) - 1 /\ 2 + 1 = 3
    OBVIOUS
  <2> QED
    BY <1>1, <2>1, Zenon
<1>6. /\ 0 * 10 + a = a
      /\ 1 >= 1 /\ 2 >= 1 /\ 2 >= 2 /\ 3 >= 1 /\ 3 >= 2 /\ 3 >= 3
  OBVIOUS
<1> QED
  BY <1>1, <1>2, <1>3, <1>4, <1>5, <1>6, Zenon

\* Texts given character by character.
LEMMA Texts ==
  ASSUME NEW S, NEW a \in S, NEW b \in S, NEW d \in S
  PROVE  /\ <<a>> \in Seq(S) /\ Len(<<a>>) = 1 /\ <<a>>[1] = a
         /\ <<a, b>> \in Seq(S) /\ Len(<<a, b>>) = 2 /\ <<a, b>>[1] = a /\ <<a, b>>[2] = b
         /\ <<a, b, d>> \in Seq(S) /\ Len(<<a, b, d>>) = 3
         /\ <<a, b, d>>[1] = a /\ <<a, b, d>>[2] = b /\ <<a, b, d>>[3] = d
OBVIOUS

\* console_putdec of a byte is read as that byte.
LEMMA DecimalRead ==
  ASSUME NEW c \in 0 .. 255
  PROVE  Prints(PutDec(c), c)
<1> DEFINE S == 0 .. 255
           D == 48 .. 57
<1>1. ASSUME NEW s \in Seq(S), Len(s) \in 1 .. 3, \A k \in 1 .. Len(s) : s[k] \in D,
             ValueIn(10, SubSeq(s, 1, Len(s))) = c
      PROVE  Prints(s, c)
  BY <1>1, DecimalSpells
<1>2. \A n \in 0 .. 9 : n + 48 \in D /\ n + 48 \in S /\ DigitValue(n + 48) = n /\ n \in Nat
  <2>1. \A n \in 0 .. 9 : n + 48 = 48 + n /\ n + 48 \in S /\ n \in Nat
    OBVIOUS
  <2> QED
    BY <2>1, LowDigit
<1> HIDE DEF S, D
<1>3. CASE c < 10
  <2>1. c \in 0 .. 9
    BY <1>3
  <2>2. PICK e : e = c + 48
    OBVIOUS
  <2>3. e \in D /\ e \in S /\ DigitValue(e) = c /\ c \in Nat
    BY <1>2, <2>1, <2>2, Zenon
  <2>4. PICK s : s = <<e>>
    OBVIOUS
  <2>5. PutDec(c) = s
    BY <1>3, <2>2, <2>4, PutDecIs, Zenon
  <2>6. s \in Seq(S) /\ Len(s) = 1 /\ s[1] = e
    BY <2>3, <2>4, Texts, Zenon
  <2>7. ValueIn(10, SubSeq(s, 1, Len(s))) = c
    BY <2>3, <2>6, DecimalValue, Zenon
  <2>8. 1 \in 1 .. 3 /\ \A k \in 1 .. 1 : k = 1
    OBVIOUS
  <2>9. Len(s) \in 1 .. 3 /\ \A k \in 1 .. Len(s) : s[k] \in D
    BY <2>3, <2>6, <2>8, Zenon
  <2> QED
    BY <1>1, <2>5, <2>6, <2>7, <2>9, Zenon
<1>4. CASE c >= 10 /\ c < 100
  <2>1. PICK a \in 0 .. 9, b \in 0 .. 9 : a = c \div 10 /\ b = c % 10 /\ c = a * 10 + b
    BY <1>4
  <2>2. PICK e, f : e = a + 48 /\ f = b + 48
    OBVIOUS
  <2>3. /\ e \in D /\ e \in S /\ DigitValue(e) = a /\ a \in Nat
        /\ f \in D /\ f \in S /\ DigitValue(f) = b /\ b \in Nat
    BY <1>2, <2>1, <2>2, Zenon
  <2>4. PICK s : s = <<e, f>>
    OBVIOUS
  <2>5. PutDec(c) = s
    BY <1>4, <2>1, <2>2, <2>4, PutDecIs, Zenon
  <2>6. s \in Seq(S) /\ Len(s) = 2 /\ s[1] = e /\ s[2] = f
    BY <2>3, <2>4, Texts, Zenon
  <2>7. ValueIn(10, SubSeq(s, 1, Len(s))) = c
    BY <2>1, <2>3, <2>6, DecimalValue, Zenon
  <2>8. 2 \in 1 .. 3 /\ \A k \in 1 .. 2 : k = 1 \/ k = 2
    OBVIOUS
  <2>9. Len(s) \in 1 .. 3 /\ \A k \in 1 .. Len(s) : s[k] \in D
    BY <2>3, <2>6, <2>8, Zenon
  <2> QED
    BY <1>1, <2>5, <2>6, <2>7, <2>9, Zenon
<1>5. CASE c >= 100
  <2>1. PICK a \in 0 .. 9, b \in 0 .. 9, d \in 0 .. 9 :
          a = c \div 100 /\ b = (c % 100) \div 10 /\ d = c % 10 /\ c = (a * 10 + b) * 10 + d
    BY <1>5
  <2>2. PICK e, f, g : e = a + 48 /\ f = b + 48 /\ g = d + 48
    OBVIOUS
  <2>3. /\ e \in D /\ e \in S /\ DigitValue(e) = a /\ a \in Nat
        /\ f \in D /\ f \in S /\ DigitValue(f) = b /\ b \in Nat
        /\ g \in D /\ g \in S /\ DigitValue(g) = d /\ d \in Nat
    BY <1>2, <2>1, <2>2, Zenon
  <2>4. PICK s : s = <<e, f, g>>
    OBVIOUS
  <2>5. PutDec(c) = s
    BY <1>5, <2>1, <2>2, <2>4, PutDecIs, Zenon
  <2>6. s \in Seq(S) /\ Len(s) = 3 /\ s[1] = e /\ s[2] = f /\ s[3] = g
    BY <2>3, <2>4, Texts, Zenon
  <2>7. ValueIn(10, SubSeq(s, 1, Len(s))) = c
    BY <2>1, <2>3, <2>6, DecimalValue, Zenon
  <2>8. 3 \in 1 .. 3 /\ \A k \in 1 .. 3 : k = 1 \/ k = 2 \/ k = 3
    OBVIOUS
  <2>9. Len(s) \in 1 .. 3 /\ \A k \in 1 .. Len(s) : s[k] \in D
    BY <2>3, <2>6, <2>8, Zenon
  <2> QED
    BY <1>1, <2>5, <2>6, <2>7, <2>9, Zenon
<1>6. c < 10 \/ (c >= 10 /\ c < 100) \/ c >= 100
  OBVIOUS
<1> QED
  BY <1>3, <1>4, <1>5, <1>6

\* The texts of console_put0x8 and console_putbin.  P is the byte without its
\* lower bits.
HexText(s, p, q) ==
  /\ Len(s) = 4 /\ s[1] = 48 /\ s[2] = 120
  /\ s[3] = NibbleToChar(p) /\ s[4] = NibbleToChar(q)
BinText(s, bit) ==
  Len(s) = 9 /\ s[1] = 98 /\ \A k \in 1 .. 8 : bit[k] \in 0 .. 1 /\ s[k + 1] = 48 + bit[k]
Doubles(P, bit) ==
  /\ P[1] = bit[1]
  /\ \A k \in 1 .. 7 : P[k + 1] = P[k] * 2 + bit[k + 1]

LEMMA TextsJoin ==
  ASSUME NEW S, NEW x \in S, NEW y \in S, NEW e \in S, NEW f \in S
  PROVE  \A t : t = <<x, y>> \o <<e, f>> =>
           t \in Seq(S) /\ Len(t) = 4 /\ t[1] = x /\ t[2] = y /\ t[3] = e /\ t[4] = f
OBVIOUS

LEMMA TextGrows ==
  ASSUME NEW S, NEW x \in S, NEW n \in Nat, NEW t \in [1 .. n -> S]
  PROVE  \A u : u = <<x>> \o t =>
           u \in Seq(S) /\ Len(u) = n + 1 /\ u[1] = x /\ \A k \in 1 .. n : u[k + 1] = t[k]
<1>1. t \in Seq(S) /\ Len(t) = n
  BY SeqDef, LenProperties
<1> QED
  BY <1>1

LEMMA Halves ==
  ASSUME NEW n \in Nat
  PROVE  n = (n \div 2) * 2 + (n % 2)
OBVIOUS

LEMMA HexadecimalSpells ==
  ASSUME NEW s \in Seq(0 .. 255), NEW p \in 0 .. 15, NEW q \in 0 .. 15, HexText(s, p, q),
         p * 16 + q \in 0 .. 255
  PROVE  Prints(s, p * 16 + q)
<1>0. /\ Len(s) = 4 /\ s[1] = 48 /\ s[2] = 120
      /\ s[3] = NibbleToChar(p) /\ s[4] = NibbleToChar(q)
  BY DEF HexText
<1>1. /\ s[3] \in DigitsOf(16) /\ DigitValue(s[3]) = p /\ s[3] \notin Blanks
      /\ s[4] \in DigitsOf(16) /\ DigitValue(s[4]) = q /\ s[4] \notin Blanks
  <2>1. PICK e, f : e = NibbleToChar(p) /\ f = NibbleToChar(q)
    OBVIOUS
  <2>2. /\ e \in DigitsOf(16) /\ DigitValue(e) = p /\ e \notin Blanks
        /\ f \in DigitsOf(16) /\ DigitValue(f) = q /\ f \notin Blanks
    BY <2>1, NibbleIs, Zenon
  <2>3. s[3] = e /\ s[4] = f
    BY <1>0, <2>1
  <2> QED
    BY <2>2, <2>3
<1>9. Len(s) = 4
  BY <1>0
<1>2. Len(s) > 0 /\ \A k \in 1 .. Len(s) : s[k] \notin Blanks
  <2>1. s[1] \notin Blanks /\ s[2] \notin Blanks
    BY <1>0 DEF Blanks
  <2>2. 4 > 0 /\ \A k \in 1 .. 4 : k = 1 \/ k = 2 \/ k = 3 \/ k = 4
    OBVIOUS
  <2> QED
    BY <1>1, <1>9, <2>1, <2>2, Zenon
<1>3. Numeral(OX, s)
  <2>1. Begins(OX, s)
    <3>1. Len(s) > 2 /\ s[1] = 48 /\ s[2] = 120
      BY <1>0
    <3> QED
      BY <3>1, BeginsIs, Zenon
  <2>2. \A k \in 2 + 1 .. 4 : k = 3 \/ k = 4
    OBVIOUS
  <2>3. Digits(16, s, 2, 4)
    BY <1>1, <2>2, Zenon DEF Digits
  <2>4. Digits(OX.base, s, Skip(OX), Len(s))
    BY <1>0, <2>3, NotationsAre, Zenon
  <2> QED
    BY <2>1, <2>4, Zenon DEF Numeral
<1>4. \A r \in Notations : r # OX => ~Numeral(r, s)
  <2>1. ~Numeral(B, s) /\ ~Numeral(H, s) /\ ~Numeral(OB, s)
    BY <1>0, BeginsIs DEF Numeral
  <2>2. ~Numeral(Plain, s)
    <3>1. 2 \in 0 + 1 .. 4 /\ s[2] \notin DigitsOf(10)
      BY <1>0 DEF DigitsOf
    <3>2. ~Digits(10, s, 0, 4)
      BY <3>1, Zenon DEF Digits
    <3> QED
      BY <1>0, <3>2, NotationsAre, Zenon DEF Numeral
  <2> QED
    BY <2>1, <2>2, NotationsAre, Zenon
<1>5. ~TwoPrefixes(s)
  <2>1. PICK t : t = <<48, 98>>
    OBVIOUS
  <2>2. Len(t) = 2
    BY <2>1
  <2>3. s # t
    <3>1. 4 # 2
      OBVIOUS
    <3> QED
      BY <1>0, <2>2, <3>1, Zenon
  <2>4. ~(s[1] \in {98, 104})
    BY <1>0
  <2> QED
    BY <2>1, <2>3, <2>4, Zenon DEF TwoPrefixes
<1>6. ValueIn(16, SubSeq(s, 2 + 1, 4)) = p * 16 + q
  <2> DEFINE V(j) == ValueIn(16, SubSeq(s, 2 + 1, j))
  <2>1. V(2) = 0 /\ \A j \in 2 .. Len(s) - 1 : V(j + 1) = V(j) * 16 + DigitValue(s[j + 1])
    <3>1. 2 \in Nat /\ 2 <= Len(s)
      BY <1>0
    <3> QED
      BY <3>1, FirstDigits, Zenon
  <2> HIDE DEF V
  <2>2. 2 \in 2 .. 4 - 1 /\ 3 \in 2 .. 4 - 1 /\ 2 + 1 = 3 /\ 3 + 1 = 4
    OBVIOUS
  <2>3. V(3) = V(2) * 16 + DigitValue(s[3]) /\ V(4) = V(3) * 16 + DigitValue(s[4])
    BY <1>9, <2>1, <2>2, Zenon
  <2>4. V(3) = 0 * 16 + p /\ V(4) = V(3) * 16 + q
    BY <1>1, <2>1, <2>3, Zenon
  <2>5. V(4) = p * 16 + q
    BY <2>4
  <2> QED
    BY <2>5 DEF V
<1>7. Spells(s, p * 16 + q)
  <2>1. OX \in Notations /\ OX.base = 16 /\ Skip(OX) = 2
    BY NotationsAre, Zenon
  <2>2. ValueIn(OX.base, SubSeq(s, Skip(OX) + 1, Len(s))) = p * 16 + q
    BY <1>0, <1>6, <2>1, Zenon
  <2> QED
    BY <1>3, <1>4, <1>5, <2>1, <2>2, OnlyNumeral, Zenon
<1> QED
  BY <1>2, <1>7, Zenon DEF Prints

\* console_put0x8 of a byte is read as that byte.
LEMMA HexadecimalRead ==
  ASSUME NEW c \in 0 .. 255
  PROVE  Prints(Put0x8(c), c)
<1>1. PICK p \in 0 .. 15, q \in 0 .. 15 : p = c \div 16 /\ q = c % 16 /\ c = p * 16 + q
  OBVIOUS
<1>3. PICK s : s = <<48, 120>> \o <<NibbleToChar(p), NibbleToChar(q)>>
  OBVIOUS
<1>4. Put0x8(c) = s
  BY <1>1, <1>3, Zenon DEF Put0x8, PutHex8
<1>5. /\ 48 \in 0 .. 255 /\ 120 \in 0 .. 255
      /\ NibbleToChar(p) \in 0 .. 255 /\ NibbleToChar(q) \in 0 .. 255
  BY NibbleIs
<1>6. /\ s \in Seq(0 .. 255) /\ Len(s) = 4 /\ s[1] = 48 /\ s[2] = 120
      /\ s[3] = NibbleToChar(p) /\ s[4] = NibbleToChar(q)
  <2>1. PICK x, y, e, f : x = 48 /\ y = 120 /\ e = NibbleToChar(p) /\ f = NibbleToChar(q)
    OBVIOUS
  <2>2. x \in 0 .. 255 /\ y \in 0 .. 255 /\ e \in 0 .. 255 /\ f \in 0 .. 255 /\ s = <<x, y>> \o <<e, f>>
    BY <1>3, <1>5, <2>1, Zenon
  <2>3. s \in Seq(0 .. 255) /\ Len(s) = 4 /\ s[1] = x /\ s[2] = y /\ s[3] = e /\ s[4] = f
    BY <2>2, TextsJoin
  <2> QED
    BY <2>1, <2>3, Zenon
<1>7. Prints(s, c)
  <2>1. HexText(s, p, q)
    BY <1>6, Zenon DEF HexText
  <2>2. p * 16 + q \in 0 .. 255
    BY <1>1
  <2>3. Prints(s, p * 16 + q)
    BY <1>6, <2>1, <2>2, HexadecimalSpells, Zenon
  <2> QED
    BY <1>1, <2>3, Zenon
<1> QED
  BY <1>4, <1>7, Zenon

LEMMA BinarySpells ==
  ASSUME NEW s \in Seq(0 .. 255), NEW P, NEW bit, BinText(s, bit), Doubles(P, bit), P[8] \in 0 .. 255
  PROVE  Prints(s, P[8])
<1>0. Len(s) = 9 /\ s[1] = 98 /\ \A k \in 1 .. 8 : bit[k] \in 0 .. 1 /\ s[k + 1] = 48 + bit[k]
  BY DEF BinText
<1>9. Len(s) = 9 /\ \A k \in 1 .. 8 : bit[k] \in 0 .. 1
  BY <1>0
<1>10. \A k \in 1 .. 8 : s[k + 1] = 48 + bit[k]
  BY <1>0
<1>1. \A k \in 1 .. 8 : DigitValue(s[k + 1]) = bit[k]
  <2>1. \A n \in 0 .. 1 : n \in 0 .. 9
    OBVIOUS
  <2> QED
    BY <1>9, <1>10, <2>1, LowDigit, Zenon
<1>2. \A k \in 2 .. 9 : s[k] \in {48, 49} /\ s[k] \in DigitsOf(2) /\ s[k] \notin Blanks
  <2>1. \A n \in 0 .. 1 : n \in 0 .. 9 /\ n < 2 /\ 48 + n \in {48, 49} /\ 48 + n \notin Blanks
    BY DEF Blanks
  <2>2. \A n \in 0 .. 1 : 48 + n \in DigitsOf(2)
    BY <2>1, LowDigit, Zenon
  <2>3. \A k \in 2 .. 9 : k - 1 \in 1 .. 8 /\ (k - 1) + 1 = k
    OBVIOUS
  <2>4. \A k \in 2 .. 9 : k - 1 \in 1 .. 8 /\ s[k] = 48 + bit[k - 1] /\ bit[k - 1] \in 0 .. 1
    BY <1>9, <1>10, <2>3, Zenon
  <2>5. ASSUME NEW k \in 2 .. 9
        PROVE  s[k] \in {48, 49} /\ s[k] \in DigitsOf(2) /\ s[k] \notin Blanks
    <3>1. PICK n \in 0 .. 1 : s[k] = 48 + n
      BY <2>4, Zenon
    <3>2. 48 + n \in {48, 49} /\ 48 + n \in DigitsOf(2) /\ 48 + n \notin Blanks
      BY <2>1, <2>2
    <3> QED
      BY <3>1, <3>2
  <2> QED
    BY <2>5, Zenon
<1>3. Len(s) > 0 /\ \A k \in 1 .. Len(s) : s[k] \notin Blanks
  <2>1. s[1] \notin Blanks
    BY <1>0 DEF Blanks
  <2>2. 9 > 0 /\ \A k \in 1 .. 9 : k = 1 \/ k \in 2 .. 9
    OBVIOUS
  <2> QED
    BY <1>0, <1>2, <2>1, <2>2, Zenon
<1>4. Numeral(B, s)
  <2>1. Begins(B, s)
    <3>1. Len(s) > 1 /\ s[1] = 98
      BY <1>0
    <3> QED
      BY <3>1, BeginsIs, Zenon
  <2>2. \A k \in 1 + 1 .. 9 : k \in 2 .. 9
    OBVIOUS
  <2>3. Digits(2, s, 1, 9)
    BY <1>2, <2>2, Zenon DEF Digits
  <2>4. Digits(B.base, s, Skip(B), Len(s))
    BY <1>0, <2>3, NotationsAre, Zenon
  <2> QED
    BY <2>1, <2>4, Zenon DEF Numeral
<1>5. \A r \in Notations : r # B => ~Numeral(r, s)
  <2>1. ~Numeral(OX, s) /\ ~Numeral(H, s) /\ ~Numeral(OB, s)
    BY <1>0, BeginsIs DEF Numeral
  <2>2. ~Numeral(Plain, s)
    <3>1. 1 \in 0 + 1 .. 9 /\ s[1] \notin DigitsOf(10)
      BY <1>0 DEF DigitsOf
    <3>2. ~Digits(10, s, 0, 9)
      BY <3>1, Zenon DEF Digits
    <3> QED
      BY <1>0, <3>2, NotationsAre, Zenon DEF Numeral
  <2> QED
    BY <2>1, <2>2, NotationsAre, Zenon
<1>6. ~TwoPrefixes(s)
  <2>1. PICK t : t = <<48, 98>>
    OBVIOUS
  <2>2. Len(t) = 2
    BY <2>1
  <2>3. s # t
    <3>1. 9 # 2
      OBVIOUS
    <3> QED
      BY <1>0, <2>2, <3>1, Zenon
  <2>4. ~(s[2] \in {98, 120})
    <3>1. 2 \in 2 .. 9 /\ \A x \in {48, 49} : ~(x \in {98, 120})
      OBVIOUS
    <3> QED
      BY <1>2, <3>1, Zenon
  <2> QED
    BY <2>1, <2>3, <2>4, Zenon DEF TwoPrefixes
<1>7. ValueIn(2, SubSeq(s, 1 + 1, 9)) = P[8]
  <2> DEFINE V(j) == ValueIn(2, SubSeq(s, 1 + 1, j))
  <2>1. V(1) = 0 /\ \A j \in 1 .. Len(s) - 1 : V(j + 1) = V(j) * 2 + DigitValue(s[j + 1])
    <3>1. 1 \in Nat /\ 1 <= Len(s)
      BY <1>0
    <3> QED
      BY <3>1, FirstDigits, Zenon
  <2> HIDE DEF V
  <2>2. \A j \in 1 .. 8 : j \in 1 .. 9 - 1
    OBVIOUS
  <2>3. \A j \in 1 .. 8 : V(j + 1) = V(j) * 2 + bit[j]
    BY <1>1, <1>9, <2>1, <2>2, Zenon
  <2>4. \A j \in 1 .. 7 : j \in 1 .. 8 /\ j + 1 \in 1 .. 8
    OBVIOUS
  <2>5. V(2) = P[1]
    <3>1. 1 \in 1 .. 8 /\ 1 + 1 = 2
      OBVIOUS
    <3>2. V(2) = V(1) * 2 + bit[1] /\ V(1) = 0 /\ bit[1] \in 0 .. 1
      BY <1>9, <2>1, <2>3, <3>1, Zenon
    <3>3. V(2) = bit[1]
      BY <3>2
    <3> QED
      BY <3>3, Zenon DEF Doubles
  <2>6. \A j \in 1 .. 7 : V(j + 1) = P[j] => V((j + 1) + 1) = P[j + 1]
    BY <2>3, <2>4, Zenon DEF Doubles
  <2>7. /\ 1 \in 1 .. 7 /\ 2 \in 1 .. 7 /\ 3 \in 1 .. 7 /\ 4 \in 1 .. 7
        /\ 5 \in 1 .. 7 /\ 6 \in 1 .. 7 /\ 7 \in 1 .. 7
        /\ 1 + 1 = 2 /\ 2 + 1 = 3 /\ 3 + 1 = 4 /\ 4 + 1 = 5
        /\ 5 + 1 = 6 /\ 6 + 1 = 7 /\ 7 + 1 = 8 /\ 8 + 1 = 9
    OBVIOUS
  <2>8. V(4) = P[3]
    BY <2>5, <2>6, <2>7, Zenon
  <2>9. V(6) = P[5]
    BY <2>6, <2>7, <2>8, Zenon
  <2>10. V(9) = P[8]
    BY <2>6, <2>7, <2>9, Zenon
  <2> QED
    BY <2>10, Zenon DEF V
<1>8. Spells(s, P[8])
  <2>1. B \in Notations /\ B.base = 2 /\ Skip(B) = 1
    BY NotationsAre, Zenon
  <2>2. ValueIn(B.base, SubSeq(s, Skip(B) + 1, Len(s))) = P[8]
    BY <1>0, <1>7, <2>1, Zenon
  <2> QED
    BY <1>4, <1>5, <1>6, <2>1, <2>2, OnlyNumeral, Zenon
<1> QED
  BY <1>3, <1>8, Zenon DEF Prints

\* console_putbin of a byte is read as that byte.
LEMMA BinaryRead ==
  ASSUME NEW c \in 0 .. 255
  PROVE  Prints(PutBin(c), c)
<1> DEFINE P == [k \in 1 .. 8 |-> c \div 2 ^ (8 - k)]
           bit == [k \in 1 .. 8 |-> (c \div 2 ^ (8 - k)) % 2]
<1>1. \A k \in 1 .. 8 : k \in {1, 2, 3, 4, 5, 6, 7, 8}
  OBVIOUS
<1>2. \A k \in 1 .. 8 : P[k] = c \div 2 ^ (8 - k)
  OBVIOUS
<1>12. \A k \in 1 .. 8 : bit[k] = P[k] % 2
  OBVIOUS
<1>3. /\ P[1] = c \div 128 /\ P[2] = c \div 64 /\ P[3] = c \div 32 /\ P[4] = c \div 16
      /\ P[5] = c \div 8 /\ P[6] = c \div 4 /\ P[7] = c \div 2 /\ P[8] = c
  <2>1. /\ 2 ^ 0 = 1 /\ 2 ^ 1 = 2 /\ 2 ^ 2 = 4 /\ 2 ^ 3 = 8
        /\ 2 ^ 4 = 16 /\ 2 ^ 5 = 32 /\ 2 ^ 6 = 64 /\ 2 ^ 7 = 128
    BY SMT
  <2>2. /\ 8 - 1 = 7 /\ 8 - 2 = 6 /\ 8 - 3 = 5 /\ 8 - 4 = 4 /\ 8 - 5 = 3 /\ 8 - 6 = 2
        /\ 8 - 7 = 1 /\ 8 - 8 = 0 /\ c \div 1 = c
    OBVIOUS
  <2>3. /\ 1 \in 1 .. 8 /\ 2 \in 1 .. 8 /\ 3 \in 1 .. 8 /\ 4 \in 1 .. 8
        /\ 5 \in 1 .. 8 /\ 6 \in 1 .. 8 /\ 7 \in 1 .. 8 /\ 8 \in 1 .. 8
    OBVIOUS
  <2> HIDE DEF P, bit
  <2>4. /\ P[1] = c \div 2 ^ (8 - 1) /\ P[2] = c \div 2 ^ (8 - 2) /\ P[3] = c \div 2 ^ (8 - 3)
        /\ P[4] = c \div 2 ^ (8 - 4) /\ P[5] = c \div 2 ^ (8 - 5) /\ P[6] = c \div 2 ^ (8 - 6)
        /\ P[7] = c \div 2 ^ (8 - 7) /\ P[8] = c \div 2 ^ (8 - 8)
    BY <1>2, <2>3, Zenon
  <2> QED
    BY <2>1, <2>2, <2>4
<1>4. PICK s : s = <<98>> \o [k \in 1 .. 8 |-> 48 + bit[k]]
  OBVIOUS
<1>5. PutBin(c) = s
  <2>1. [k \in 1 .. 8 |-> 48 + ((c \div 2 ^ (8 - k)) % 2)] = [k \in 1 .. 8 |-> 48 + bit[k]]
    BY Zenon
  <2> QED
    BY <1>4, <2>1, Zenon DEF PutBin
<1> HIDE DEF P, bit
<1>6. /\ P[1] \in Nat /\ P[2] \in Nat /\ P[3] \in Nat /\ P[4] \in Nat
      /\ P[5] \in Nat /\ P[6] \in Nat /\ P[7] \in Nat /\ P[8] \in Nat
      /\ P[1] = P[1] % 2
      /\ P[2] = P[1] * 2 + (P[2] % 2) /\ P[3] = P[2] * 2 + (P[3] % 2) /\ P[4] = P[3] * 2 + (P[4] % 2)
      /\ P[5] = P[4] * 2 + (P[5] % 2) /\ P[6] = P[5] * 2 + (P[6] % 2) /\ P[7] = P[6] * 2 + (P[7] % 2)
      /\ P[8] = P[7] * 2 + (P[8] % 2) /\ P[8] = c
  <2>1. \A n \in Nat : n = (n \div 2) * 2 + (n % 2)
    BY Halves
  <2>2. /\ c \div 128 \in Nat /\ c \div 64 \in Nat /\ c \div 32 \in Nat /\ c \div 16 \in Nat
        /\ c \div 8 \in Nat /\ c \div 4 \in Nat /\ c \div 2 \in Nat /\ c \in Nat
    OBVIOUS
  <2>3. c \div 128 = (c \div 128) % 2
    OBVIOUS
  <2>4. (c \div 64) \div 2 = c \div 128
    OBVIOUS
  <2>5. (c \div 32) \div 2 = c \div 64
    OBVIOUS
  <2>6. (c \div 16) \div 2 = c \div 32
    OBVIOUS
  <2>7. (c \div 8) \div 2 = c \div 16
    OBVIOUS
  <2>8. (c \div 4) \div 2 = c \div 8
    OBVIOUS
  <2>9. (c \div 2) \div 2 = c \div 4
    OBVIOUS
  <2>10. /\ P[1] \in Nat /\ P[2] \in Nat /\ P[3] \in Nat /\ P[4] \in Nat
         /\ P[5] \in Nat /\ P[6] \in Nat /\ P[7] \in Nat /\ P[8] \in Nat
         /\ P[1] = P[1] % 2 /\ P[8] = c
         /\ P[2] \div 2 = P[1] /\ P[3] \div 2 = P[2] /\ P[4] \div 2 = P[3] /\ P[5] \div 2 = P[4]
         /\ P[6] \div 2 = P[5] /\ P[7] \div 2 = P[6] /\ P[8] \div 2 = P[7]
    BY <1>3, <2>2, <2>3, <2>4, <2>5, <2>6, <2>7, <2>8, <2>9
  <2> QED
    BY <2>1, <2>10
<1>7. \A k \in 1 .. 8 : P[k] \in Nat
  BY <1>1, <1>6, Zenon
<1>8. \A k \in 1 .. 8 : bit[k] \in 0 .. 1 /\ 48 + bit[k] \in 0 .. 255
  <2>1. \A n \in Nat : n % 2 \in 0 .. 1 /\ 48 + (n % 2) \in 0 .. 255
    OBVIOUS
  <2>2. ASSUME NEW k \in 1 .. 8
        PROVE  bit[k] \in 0 .. 1 /\ 48 + bit[k] \in 0 .. 255
    <3>1. PICK n \in Nat : n = P[k]
      BY <1>7
    <3>2. bit[k] = n % 2
      BY <1>12, <3>1
    <3> QED
      BY <2>1, <3>2
  <2> QED
    BY <2>2, Zenon
<1>9. P[1] = bit[1] /\ \A k \in 1 .. 7 : P[k + 1] = P[k] * 2 + bit[k + 1]
  <2>1. \A k \in 1 .. 7 : k \in {1, 2, 3, 4, 5, 6, 7} /\ k + 1 \in 1 .. 8 /\ 1 \in 1 .. 8
    OBVIOUS
  <2>2. /\ 1 + 1 = 2 /\ 2 + 1 = 3 /\ 3 + 1 = 4 /\ 4 + 1 = 5
        /\ 5 + 1 = 6 /\ 6 + 1 = 7 /\ 7 + 1 = 8
    OBVIOUS
  <2>3. \A k \in 1 .. 7 : P[k + 1] = P[k] * 2 + (P[k + 1] % 2)
    BY <1>6, <2>1, <2>2
  <2>4. 1 \in 1 .. 8
    OBVIOUS
  <2>5. P[1] = bit[1]
    BY <1>6, <1>12, <2>4
  <2> QED
    BY <1>12, <2>1, <2>3, <2>5
<1>10. /\ s \in Seq(0 .. 255) /\ Len(s) = 9 /\ s[1] = 98
       /\ \A k \in 1 .. 8 : s[k + 1] = 48 + bit[k]
  <2>1. PICK t : t = [k \in 1 .. 8 |-> 48 + bit[k]]
    OBVIOUS
  <2>2. t \in [1 .. 8 -> 0 .. 255] /\ \A k \in 1 .. 8 : t[k] = 48 + bit[k]
    BY <1>8, <2>1
  <2>3. PICK x \in 0 .. 255 : x = 98
    OBVIOUS
  <2>4. PICK n \in Nat : n = 8 /\ n + 1 = 9
    OBVIOUS
  <2>5. t \in [1 .. n -> 0 .. 255] /\ s = <<x>> \o t
    BY <1>4, <2>1, <2>2, <2>3, <2>4
  <2>6. s \in Seq(0 .. 255) /\ Len(s) = n + 1 /\ s[1] = x /\ \A k \in 1 .. n : s[k + 1] = t[k]
    BY <2>5, TextGrows
  <2> QED
    BY <2>2, <2>3, <2>4, <2>6
<1>11. Prints(s, c)
  <2>1. P[8] = c
    BY <1>6
  <2>2. BinText(s, bit)
    BY <1>8, <1>10, Zenon DEF BinText
  <2>3. Doubles(P, bit)
    BY <1>9, Zenon DEF Doubles
  <2>4. P[8] \in 0 .. 255
    BY <2>1
  <2> QED
    BY <2>1, <2>2, <2>3, <2>4, <1>10, BinarySpells, Zenon
<1> QED
  BY <1>5, <1>11, Zenon

\* Two texts, each followed by a blank.
TwoTexts(s, T, U) ==
  /\ Len(s) = Len(T) + Len(U) + 2
  /\ \A k \in 1 .. Len(T) : s[k] = T[k]
  /\ s[Len(T) + 1] = 32
  /\ \A k \in 1 .. Len(U) : s[Len(T) + 1 + k] = U[k]
  /\ s[Len(T) + Len(U) + 2] = 32

LEMMA BlankFollows ==
  ASSUME NEW S, NEW x \in S, NEW T \in Seq(S)
  PROVE  \A t : t = T \o <<x>> =>
           /\ t \in Seq(S) /\ Len(t) = Len(T) + 1 /\ t[Len(T) + 1] = x
           /\ \A k \in 1 .. Len(T) : t[k] = T[k]
OBVIOUS

LEMMA PrintedTwo ==
  ASSUME NEW S, 32 \in S, NEW T \in Seq(S), NEW U \in Seq(S)
  PROVE  \A s : s = (T \o <<32>>) \o (U \o <<32>>) => s \in Seq(S) /\ TwoTexts(s, T, U)
<1> SUFFICES ASSUME NEW s, s = (T \o << 32 >>) \o (U \o << 32 >>)
             PROVE  s \in Seq(S) /\ TwoTexts(s, T, U)
  OBVIOUS
<1>1. PICK x \in S : x = 32
  OBVIOUS
<1>2. PICK t, u : t = T \o <<x>> /\ u = U \o <<x>>
  OBVIOUS
<1>3. /\ t \in Seq(S) /\ Len(t) = Len(T) + 1 /\ t[Len(T) + 1] = x
      /\ \A k \in 1 .. Len(T) : t[k] = T[k]
      /\ u \in Seq(S) /\ Len(u) = Len(U) + 1 /\ u[Len(U) + 1] = x
      /\ \A k \in 1 .. Len(U) : u[k] = U[k]
  <2>1. /\ t \in Seq(S) /\ Len(t) = Len(T) + 1 /\ t[Len(T) + 1] = x
        /\ \A k \in 1 .. Len(T) : t[k] = T[k]
    BY <1>2, BlankFollows
  <2>2. /\ u \in Seq(S) /\ Len(u) = Len(U) + 1 /\ u[Len(U) + 1] = x
        /\ \A k \in 1 .. Len(U) : u[k] = U[k]
    BY <1>2, BlankFollows
  <2> QED
    BY <2>1, <2>2
<1>4. s = t \o u
  BY <1>1, <1>2
<1>5. s \in Seq(S) /\ Len(s) = Len(t) + Len(u)
  BY <1>3, <1>4, ConcatProperties
<1>6. /\ \A k \in 1 .. Len(t) : s[k] = t[k]
      /\ \A k \in 1 .. Len(u) : s[Len(t) + k] = u[k]
  BY <1>3, <1>4
<1>7. Len(T) \in Nat /\ Len(U) \in Nat
  OBVIOUS
<1>8. /\ Len(s) = Len(T) + Len(U) + 2
      /\ \A k \in 1 .. Len(T) : k \in 1 .. Len(t)
      /\ Len(T) + 1 \in 1 .. Len(t)
      /\ \A k \in 1 .. Len(U) : k \in 1 .. Len(u)
      /\ Len(U) + 1 \in 1 .. Len(u) /\ Len(t) + (Len(U) + 1) = Len(T) + Len(U) + 2
  BY <1>3, <1>5, <1>7
<1>9. /\ \A k \in 1 .. Len(T) : s[k] = T[k]
      /\ s[Len(T) + 1] = x
      /\ \A k \in 1 .. Len(U) : s[Len(T) + 1 + k] = U[k]
      /\ s[Len(T) + Len(U) + 2] = x
  BY <1>3, <1>6, <1>8, Zenon
<1> QED
  BY <1>1, <1>5, <1>8, <1>9, Zenon DEF TwoTexts

\* The two texts are the parts of the line.
LEMMA TextsAreParts ==
  ASSUME NEW S, NEW s \in Seq(S), NEW T \in Seq(S), NEW U \in Seq(S), TwoTexts(s, T, U)
  PROVE  /\ SubSeq(s, 0 + 1, Len(T)) = T
         /\ SubSeq(s, (Len(T) + 1) + 1, Len(T) + 1 + Len(U)) = U
<1>1. Len(T) \in Nat /\ Len(U) \in Nat /\ Len(s) = Len(T) + Len(U) + 2
  BY DEF TwoTexts
<1>2. SubSeq(s, 0 + 1, Len(T)) = T
  <2> DEFINE a == 0
             b == Len(T)
             u == SubSeq(s, a + 1, b)
  <2>1. /\ a \in Nat /\ b \in Nat /\ a <= b /\ b <= Len(s) /\ b - a = Len(T)
    BY <1>1
  <2>6. \A k \in 1 .. Len(T) : a + k = k
    BY <1>1
  <2>2. u \in Seq(S) /\ Len(u) = b - a /\ \A k \in 1 .. b - a : u[k] = s[a + k]
    <3> HIDE DEF a, b
    <3> QED
      BY <2>1, PartIs, Zenon
  <2>3. \A k \in 1 .. Len(T) : s[k] = T[k]
    BY DEF TwoTexts
  <2> HIDE DEF u, a, b
  <2>4. \A k \in 1 .. Len(u) : u[k] = T[k]
    BY <2>1, <2>2, <2>3, <2>6
  <2>5. u = T
    BY <2>1, <2>2, <2>4, SeqEqual
  <2> QED
    BY <2>5 DEF u, a, b
<1>3. SubSeq(s, (Len(T) + 1) + 1, Len(T) + 1 + Len(U)) = U
  <2> DEFINE a == Len(T) + 1
             b == Len(T) + 1 + Len(U)
             u == SubSeq(s, a + 1, b)
  <2>1. a \in Nat /\ b \in Nat /\ a <= b /\ b <= Len(s) /\ b - a = Len(U)
    BY <1>1
  <2>2. u \in Seq(S) /\ Len(u) = b - a /\ \A k \in 1 .. b - a : u[k] = s[a + k]
    <3> HIDE DEF a, b
    <3> QED
      BY <2>1, PartIs, Zenon
  <2>3. \A k \in 1 .. Len(U) : s[a + k] = U[k]
    BY DEF TwoTexts
  <2> HIDE DEF u, a, b
  <2>4. \A k \in 1 .. Len(u) : u[k] = U[k]
    BY <2>1, <2>2, <2>3, Zenon
  <2>5. u = U
    BY <2>1, <2>2, <2>4, SeqEqual
  <2> QED
    BY <2>5 DEF u, a, b
<1> QED
  BY <1>2, <1>3

\* They are its words.
LEMMA TextsAreWords ==
  ASSUME NEW S, NEW s \in Seq(S), NEW T \in Seq(S), NEW U \in Seq(S), TwoTexts(s, T, U),
         Len(T) > 0, \A k \in 1 .. Len(T) : T[k] \notin Blanks,
         Len(U) > 0, \A k \in 1 .. Len(U) : U[k] \notin Blanks
  PROVE  WordsOf(s) = {<<0, Len(T)>>, <<Len(T) + 1, Len(T) + 1 + Len(U)>>}
<1>1. PICK n \in Nat, m \in Nat : n = Len(T) /\ m = Len(U)
  OBVIOUS
<1>2. n > 0 /\ m > 0 /\ Len(s) = n + m + 2
  BY <1>1 DEF TwoTexts
<1>3. /\ \A k \in 1 .. n : s[k] \notin Blanks
      /\ \A k \in 1 .. m : s[n + 1 + k] \notin Blanks
      /\ s[n + 1] \in Blanks /\ s[n + m + 2] \in Blanks
  <2>1. 32 \in Blanks
    BY DEF Blanks
  <2> QED
    BY <1>1, <2>1, Zenon DEF TwoTexts
<1>4. \A k \in n + 2 .. n + m + 1 : s[k] \notin Blanks
  <2>1. \A k \in n + 2 .. n + m + 1 : k - (n + 1) \in 1 .. m /\ n + 1 + (k - (n + 1)) = k
    BY <1>2
  <2> QED
    BY <1>3, <2>1, Zenon
<1>5. ASSUME NEW a, NEW b, IsWord(s, a, b)
      PROVE  (a = 0 /\ b = n) \/ (a = n + 1 /\ b = n + 1 + m)
  <2>1. /\ a \in 0 .. n + m + 2 /\ b \in 0 .. n + m + 2 /\ a < b
        /\ \A k \in a + 1 .. b : s[k] \notin Blanks
        /\ a = 0 \/ s[a] \in Blanks
        /\ b = n + m + 2 \/ s[b + 1] \in Blanks
    BY <1>2, <1>5 DEF IsWord
  <2>2. ~(n + 1 \in a + 1 .. b) /\ ~(n + m + 2 \in a + 1 .. b)
    BY <1>3, <2>1, Zenon
  <2>3. a = 0 \/ a = n + 1 \/ a = n + m + 2
    <3>1. \A k \in 0 .. n + m + 2 : k = 0 \/ k \in 1 .. n \/ k = n + 1 \/ k \in n + 2 .. n + m + 1 \/ k = n + m + 2
      BY <1>2
    <3> QED
      BY <1>3, <1>4, <2>1, <3>1, Zenon
  <2>4. b # n + m + 2
    BY <1>2, <2>1, <2>2
  <2>5. b + 1 = n + 1 \/ b + 1 = n + m + 2
    <3>1. \A k \in 0 .. n + m + 2 : k = n + m + 2 \/ k + 1 \in 1 .. n \/ k + 1 = n + 1 \/ k + 1 \in n + 2 .. n + m + 1 \/ k + 1 = n + m + 2
      BY <1>2
    <3> QED
      BY <1>3, <1>4, <2>1, <2>4, <3>1, Zenon
  <2> QED
    BY <1>2, <2>1, <2>2, <2>3, <2>4, <2>5
<1>6. IsWord(s, 0, n) /\ IsWord(s, n + 1, n + 1 + m)
  <2>1. /\ 0 \in 0 .. n + m + 2 /\ n \in 0 .. n + m + 2 /\ n + 1 \in 0 .. n + m + 2
        /\ n + 1 + m \in 0 .. n + m + 2 /\ 0 < n /\ n + 1 < n + 1 + m
        /\ (n + 1 + m) + 1 = n + m + 2
        /\ \A k \in 0 + 1 .. n : k \in 1 .. n
        /\ \A k \in (n + 1) + 1 .. n + 1 + m : k \in n + 2 .. n + m + 1
    BY <1>2
  <2> QED
    BY <1>2, <1>3, <1>4, <2>1, Zenon DEF IsWord
<1>7. ASSUME NEW w \in WordsOf(s)
      PROVE  w = <<0, n>> \/ w = <<n + 1, n + 1 + m>>
  <2>1. PICK a, b : w = <<a, b>> /\ IsWord(s, a, b)
    <3>1. w \in (0 .. Len(s)) \X (0 .. Len(s)) /\ IsWord(s, w[1], w[2])
      BY DEF WordsOf, IsWord
    <3>2. w = <<w[1], w[2]>>
      BY <3>1
    <3> QED
      BY <3>1, <3>2, Zenon
  <2>2. (a = 0 /\ b = n) \/ (a = n + 1 /\ b = n + 1 + m)
    BY <1>5, <2>1, Zenon
  <2> QED
    BY <2>1, <2>2
<1>8. <<0, n>> \in WordsOf(s) /\ <<n + 1, n + 1 + m>> \in WordsOf(s)
  BY <1>6, WordsAre, Zenon
<1>9. WordsOf(s) = {<<0, n>>, <<n + 1, n + 1 + m>>}
  BY <1>7, <1>8, Zenon
<1> QED
  BY <1>1, <1>9, Zenon

\* So they are the first two that are reported.
\* What EveryWordOnce says of the entries ws.
Listed(ws) ==
  /\ Len(ws) \in Nat
  /\ \A k \in 1 .. Len(ws) : ws[k].from \in Nat /\ ws[k].upto \in Nat
  /\ \A j, k \in Full(ws) : j < k => ws[j].upto < ws[k].from
  /\ \A k \in 1 .. Len(ws) : k \in Full(ws) \/ k = Len(ws)

AreFirst(ws, n, m) ==
  /\ 1 \in 1 .. Len(ws) /\ 2 \in 1 .. Len(ws)
  /\ ws[1].from = 0 /\ ws[1].upto = n
  /\ ws[2].from = n + 1 /\ ws[2].upto = n + 1 + m

LEMMA FirstTwo ==
  ASSUME NEW n \in Nat, NEW m \in Nat, n > 0, m > 0, NEW ws, Listed(ws),
         Reported(ws) = {<<0, n>>, <<n + 1, n + 1 + m>>}
  PROVE  AreFirst(ws, n, m)
<1>0. /\ Len(ws) \in Nat
      /\ \A k \in 1 .. Len(ws) : ws[k].from \in Nat /\ ws[k].upto \in Nat
      /\ \A j, k \in Full(ws) : j < k => ws[j].upto < ws[k].from
      /\ \A k \in 1 .. Len(ws) : k \in Full(ws) \/ k = Len(ws)
  BY Zenon DEF Listed
<1>1. ASSUME NEW k \in Full(ws)
      PROVE  /\ k \in 1 .. Len(ws)
             /\ \/ ws[k].from = 0 /\ ws[k].upto = n
                \/ ws[k].from = n + 1 /\ ws[k].upto = n + 1 + m
  <2>1. <<ws[k].from, ws[k].upto>> \in {<<0, n>>, <<n + 1, n + 1 + m>>}
    BY Zenon DEF Reported
  <2>2. k \in 1 .. Len(ws)
    BY DEF Full
  <2>3. \A a, b, c, d : <<a, b>> = <<c, d>> => a = c /\ b = d
    OBVIOUS
  <2> QED
    BY <2>1, <2>2, <2>3, Zenon
<1>2. PICK p \in Full(ws), q \in Full(ws) :
        ws[p].from = 0 /\ ws[p].upto = n /\ ws[q].from = n + 1 /\ ws[q].upto = n + 1 + m
  <2>1. <<0, n>> \in Reported(ws) /\ <<n + 1, n + 1 + m>> \in Reported(ws)
    BY Zenon
  <2>2. PICK p \in Full(ws) : <<0, n>> = <<ws[p].from, ws[p].upto>>
    BY <2>1, Zenon DEF Reported
  <2>3. PICK q \in Full(ws) : <<n + 1, n + 1 + m>> = <<ws[q].from, ws[q].upto>>
    BY <2>1, Zenon DEF Reported
  <2>4. \A a, b, c, d : <<a, b>> = <<c, d>> => a = c /\ b = d
    OBVIOUS
  <2> QED
    BY <2>2, <2>3, <2>4, Zenon
<1>3. p \in 1 .. Len(ws) /\ q \in 1 .. Len(ws)
  BY <1>1
<1>4. p < q
  <2>1. p # q
    BY <1>2
  <2>2. ~(q < p)
    <3>1. q < p => n + 1 + m < 0
      BY <1>0, <1>2, Zenon
    <3> QED
      BY <3>1
  <2> QED
    BY <1>0, <1>3, <2>1, <2>2
<1>5. p = 1
  <2>1. SUFFICES ASSUME p # 1 PROVE FALSE
    OBVIOUS
  <2>2. 1 \in 1 .. Len(ws) /\ 1 # Len(ws) /\ 1 < p
    BY <1>0, <1>3, <1>4, <2>1
  <2>3. 1 \in Full(ws)
    BY <1>0, <2>2, Zenon
  <2>4. ws[1].upto < 0 /\ ws[1].upto \in Nat
    BY <1>0, <1>2, <2>2, <2>3, Zenon
  <2> QED
    BY <2>4
<1>6. q = 2
  <2>1. SUFFICES ASSUME q # 2 PROVE FALSE
    OBVIOUS
  <2>2. 2 \in 1 .. Len(ws) /\ 2 # Len(ws) /\ 2 < q /\ p < 2
    BY <1>0, <1>3, <1>4, <1>5, <2>1
  <2>3. 2 \in Full(ws)
    BY <1>0, <2>2, Zenon
  <2>4. n < ws[2].from /\ ws[2].upto < n + 1
    BY <1>0, <1>2, <2>2, <2>3, Zenon
  <2> QED
    BY <1>1, <2>3, <2>4
<1> QED
  BY <1>2, <1>3, <1>5, <1>6, Zenon DEF AreFirst

\* The line is still the one that was printed, if it was.
Source == dump = <<>> \/ \E d \in Dumps : dump = <<d>> /\ line = Printed(d)

LEMMA SourceHolds == Spec => []Source
<1>1. Init => Source
  BY DEF Init, Source
<1>2. Source /\ [Next]_vars => Source'
  <2>1. SUFFICES ASSUME Source, [Next]_vars PROVE Source'
    OBVIOUS
  <2>2. dump' = dump /\ line' = line
    BY <2>1 DEF Next, vars, Tok, ParseNumber, ReadPrefix, ReadDigit, NoDigit, Parsed, Number, String, Report, EndOfLine, Done
  <2> QED
    BY <2>1, <2>2, Zenon DEF Source
<1> QED
  BY <1>1, <1>2, PTL DEF Spec

\* What is printed in the three output modes.
LEMMA OutputRead ==
  ASSUME NEW mode \in {"BIN", "DEC", "0x8"}, NEW c \in 0 .. 255
  PROVE  \E T : Prints(T, c) /\ BusOut(mode, c) = T \o <<32>>
<1>1. CASE mode = "BIN"
  <2>1. BusOut(mode, c) = PutBin(c) \o <<32>>
    BY <1>1 DEF BusOut
  <2> QED
    BY <2>1, BinaryRead, Zenon
<1>2. CASE mode = "DEC"
  <2>1. BusOut(mode, c) = PutDec(c) \o <<32>>
    BY <1>2 DEF BusOut
  <2> QED
    BY <2>1, DecimalRead, Zenon
<1>3. CASE mode = "0x8"
  <2>1. BusOut(mode, c) = Put0x8(c) \o <<32>>
    BY <1>3 DEF BusOut
  <2> QED
    BY <2>1, HexadecimalRead, Zenon
<1> QED
  BY <1>1, <1>2, <1>3

\* Every two bytes that the program prints in binary, in decimal or with 0x are
\* the numbers it reads when that text is given back to it as a line.
THEOREM PrintedIsReadBack == Spec => []ReadsBack
<1>1. ASSUME TypeOK, EveryWordOnce, Judging, Source PROVE ReadsBack
  <2>1. SUFFICES ASSUME pc = "done", dump # <<>>, dump[1].mode \in {"BIN", "DEC", "0x8"}
                 PROVE  \A k \in 1 .. 2 : words[k].value = dump[1].bytes[k]
    BY DEF ReadsBack
  <2>2. PICK d \in Dumps : dump = <<d>> /\ line = Printed(d)
    BY <1>1, <2>1 DEF Source
  <2>3. dump[1] = d /\ d.mode \in {"BIN", "DEC", "0x8"}
    BY <2>1, <2>2
  <2>4. PICK a \in 0 .. 255, b \in 0 .. 255 : a = d.bytes[1] /\ b = d.bytes[2]
    BY ParseAssumption
  <2>5. PICK T : Prints(T, a) /\ BusOut(d.mode, a) = T \o <<32>>
    BY <2>3, OutputRead, Zenon
  <2>6. PICK U : Prints(U, b) /\ BusOut(d.mode, b) = U \o <<32>>
    BY <2>3, OutputRead, Zenon
  <2>7. PICK S : S = 0 .. 255
    OBVIOUS
  <2>8. /\ T \in Seq(S) /\ Len(T) > 0 /\ \A k \in 1 .. Len(T) : T[k] \notin Blanks
        /\ U \in Seq(S) /\ Len(U) > 0 /\ \A k \in 1 .. Len(U) : U[k] \notin Blanks
        /\ Spells(T, a) /\ Spells(U, b)
    BY <2>5, <2>6, <2>7, Zenon DEF Prints
  <2>9. PICK s : s = line
    OBVIOUS
  <2>10. s = (T \o <<32>>) \o (U \o <<32>>)
    BY <2>2, <2>4, <2>5, <2>6, <2>9, Zenon DEF Printed
  <2>11. s \in Seq(S) /\ TwoTexts(s, T, U)
    <3>1. 32 \in S
      BY <2>7
    <3> QED
      BY <2>8, <2>10, <3>1, PrintedTwo, Zenon
  <2>12. PICK n \in Nat, m \in Nat : n = Len(T) /\ m = Len(U)
    BY <2>8
  <2>13. WordsOf(s) = {<<0, n>>, <<n + 1, n + 1 + m>>}
    <3>1. WordsOf(s) = {<<0, Len(T)>>, <<Len(T) + 1, Len(T) + 1 + Len(U)>>}
      BY <2>8, <2>11, TextsAreWords
    <3> QED
      BY <2>12, <3>1, Zenon
  <2>14. SubSeq(s, 0 + 1, n) = T /\ SubSeq(s, (n + 1) + 1, n + 1 + m) = U
    <3>1. /\ SubSeq(s, 0 + 1, Len(T)) = T
          /\ SubSeq(s, (Len(T) + 1) + 1, Len(T) + 1 + Len(U)) = U
      BY <2>8, <2>11, TextsAreParts
    <3> QED
      BY <2>12, <3>1, Zenon
  <2>15. PICK ws : ws = words
    OBVIOUS
  <2>16. /\ Len(ws) \in Nat
         /\ \A k \in 1 .. Len(ws) : ws[k].from \in Nat /\ ws[k].upto \in Nat
    <3>1. words \in Seq(Entry)
      BY <1>1 DEF TypeOK, Entry
    <3>2. Len(words) \in Nat /\ \A k \in 1 .. Len(words) : words[k] \in Entry
      BY <3>1
    <3>3. Len(line) \in Nat
      BY <1>1 DEF TypeOK
    <3>4. \A r \in Entry : r.from \in Nat /\ r.upto \in Nat
      BY <3>3 DEF Entry
    <3> QED
      BY <2>15, <3>2, <3>4, Zenon
  <2>17. /\ Reported(ws) = WordsOf(s)
         /\ \A j, k \in Full(ws) : j < k => ws[j].upto < ws[k].from
         /\ \A k \in 1 .. Len(ws) : k \in Full(ws) \/ k = Len(ws)
    BY <1>1, <2>1, <2>9, <2>15, Zenon DEF EveryWordOnce, Reported, Full
  <2>18. n > 0 /\ m > 0
    BY <2>8, <2>12
  <2>19. /\ 1 \in 1 .. Len(ws) /\ 2 \in 1 .. Len(ws)
         /\ ws[1].from = 0 /\ ws[1].upto = n
         /\ ws[2].from = n + 1 /\ ws[2].upto = n + 1 + m
    <3>1. Reported(ws) = {<<0, n>>, <<n + 1, n + 1 + m>>}
      BY <2>13, <2>17, Zenon
    <3>2. Listed(ws)
      BY <2>16, <2>17, Zenon DEF Listed
    <3>3. n \in Nat /\ m \in Nat
      BY <2>12
    <3>4. AreFirst(ws, n, m)
      BY <2>18, <3>1, <3>2, <3>3, FirstTwo
    <3> QED
      BY <3>4, Zenon DEF AreFirst
  <2>20. \A k \in 1 .. Len(ws) : Right(SubSeq(s, ws[k].from + 1, ws[k].upto), ws[k].value)
    BY <1>1, <2>9, <2>15, Zenon DEF Judging
  <2>21. Right(T, ws[1].value) /\ Right(U, ws[2].value)
    BY <2>14, <2>19, <2>20, Zenon
  <2>22. ws[1].value = a /\ ws[2].value = b
    BY <2>8, <2>21, Zenon DEF Spells
  <2>23. \A k \in 1 .. 2 : k = 1 \/ k = 2
    OBVIOUS
  <2> QED
    BY <2>3, <2>4, <2>15, <2>22, <2>23, Zenon
<1>2. TypeOK /\ EveryWordOnce /\ Judging /\ Source => ReadsBack
  BY <1>1
<1> QED
  BY <1>2, ParseTypes, WordsOnce, JudgingHolds, SourceHolds, PTL
=============================================================================
