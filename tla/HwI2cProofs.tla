---------------------------- MODULE HwI2cProofs -----------------------------
(***************************************************************************)
(* Proofs about HwI2c: for every number of bits, every set of bytes and     *)
(* every address of the slave.                                              *)
(***************************************************************************)
EXTENDS HwI2c, SequenceTheorems, TLAPS

USE BitsAssumption, BytesAssumption, OwnAssumption

\* The n last statements of a program, and the first of them.
Suffix(P, n) == [i \in 1 .. n |-> P[Len(P) - n + i]]
Statement(P, n) == P[Len(P) - n + 1]

-----------------------------------------------------------------------------
(* Sequences *)

LEMMA SuffixIs ==
  ASSUME NEW P \in Seq(Ops), NEW n \in Nat, n <= Len(P)
  PROVE  Suffix(P, n) \in Seq(Ops) /\ Len(Suffix(P, n)) = n
<1>1. Len(P) \in Nat /\ \A i \in 1 .. Len(P) : P[i] \in Ops
  BY LenProperties, ElementOfSeq
<1>2. \A i \in 1 .. n : Len(P) - n + i \in 1 .. Len(P)
  BY <1>1
<1>3. Suffix(P, n) \in [1 .. n -> Ops]
  BY <1>1, <1>2 DEF Suffix
<1>4. Suffix(P, n) \in Seq(Ops)
  BY <1>3, SeqDef
<1> QED
  BY <1>3, <1>4, LenProperties

\* What is left of a program after another statement.
LEMMA Advance ==
  ASSUME NEW P \in Seq(Ops), NEW n \in Nat, n <= Len(P)
  PROVE  /\ Suffix(P, n) \in Seq(Ops) /\ Len(Suffix(P, n)) = n
         /\ n = 0 <=> Suffix(P, n) = <<>>
         /\ n > 0 => /\ Head(Suffix(P, n)) = Statement(P, n)
                     /\ Tail(Suffix(P, n)) = Suffix(P, n - 1)
<1>1. Suffix(P, n) \in Seq(Ops) /\ Len(Suffix(P, n)) = n /\ Len(P) \in Nat
  BY SuffixIs, LenProperties
<1>2. n = 0 <=> Suffix(P, n) = <<>>
  BY <1>1, EmptySeq
<1>3. ASSUME n > 0
      PROVE  /\ Head(Suffix(P, n)) = Statement(P, n)
             /\ Tail(Suffix(P, n)) = Suffix(P, n - 1)
  <2>1. Suffix(P, n)[1] = Statement(P, n)
    BY <1>3 DEF Suffix, Statement
  <2>2. Head(Suffix(P, n)) = Suffix(P, n)[1]
    BY <1>1, <1>3
  <2>3. /\ Tail(Suffix(P, n)) \in Seq(Ops) /\ Len(Tail(Suffix(P, n))) = n - 1
        /\ \A i \in 1 .. n - 1 : Tail(Suffix(P, n))[i] = Suffix(P, n)[i + 1]
    BY <1>1, <1>2, <1>3, HeadTailProperties
  <2>4. \A i \in 1 .. n - 1 : Suffix(P, n)[i + 1] = Suffix(P, n - 1)[i]
    <3>1. \A l \in Nat, i \in 1 .. n - 1 : i + 1 \in 1 .. n /\ l - n + (i + 1) = l - (n - 1) + i
      BY <1>3
    <3> QED
      BY <1>1, <3>1, Zenon DEF Suffix
  <2>5. Suffix(P, n - 1) \in Seq(Ops) /\ Len(Suffix(P, n - 1)) = n - 1
    <3>1. n - 1 \in Nat /\ n - 1 <= Len(P)
      BY <1>1, <1>3
    <3> QED
      BY <3>1, SuffixIs
  <2>6. Tail(Suffix(P, n)) = Suffix(P, n - 1)
    BY <2>3, <2>4, <2>5, SeqEqual
  <2> QED
    BY <2>1, <2>2, <2>6
<1> QED
  BY <1>1, <1>2, <1>3

\* The statements of two programs, one after the other, counted from the end.
LEMMA Appended ==
  ASSUME NEW P \in Seq(Ops), NEW Q \in Seq(Ops)
  PROVE  /\ P \o Q \in Seq(Ops) /\ Len(P \o Q) = Len(P) + Len(Q)
         /\ \A n \in 1 .. Len(Q) : Statement(P \o Q, n) = Statement(Q, n)
         /\ \A n \in 1 .. Len(P) : Statement(P \o Q, Len(Q) + n) = Statement(P, n)
<1>1. Len(P) \in Nat /\ Len(Q) \in Nat
  OBVIOUS
<1>2. /\ P \o Q \in Seq(Ops) /\ Len(P \o Q) = Len(P) + Len(Q)
      /\ \A i \in 1 .. Len(P) : (P \o Q)[i] = P[i]
      /\ \A i \in Len(P) + 1 .. Len(P) + Len(Q) : (P \o Q)[i] = Q[i - Len(P)]
  BY ConcatProperties
<1>3. ASSUME NEW n \in 1 .. Len(Q)
      PROVE  Statement(P \o Q, n) = Statement(Q, n)
  <2>1. Len(P \o Q) - n + 1 \in Len(P) + 1 .. Len(P) + Len(Q)
    BY <1>1, <1>2
  <2>2. Len(P \o Q) - n + 1 - Len(P) = Len(Q) - n + 1
    BY <1>1, <1>2
  <2> QED
    BY <1>2, <2>1, <2>2 DEF Statement
<1>4. ASSUME NEW n \in 1 .. Len(P)
      PROVE  Statement(P \o Q, Len(Q) + n) = Statement(P, n)
  <2>1. Len(P \o Q) - (Len(Q) + n) + 1 = Len(P) - n + 1 /\ Len(P) - n + 1 \in 1 .. Len(P)
    BY <1>1, <1>2
  <2> QED
    BY <1>2, <2>1 DEF Statement
<1> QED
  BY <1>2, <1>3, <1>4

-----------------------------------------------------------------------------
(* The programs *)

\* A sequence that is written out.
LEMMA Literals ==
  /\ <<>> \in Seq(Ops) /\ Len(<<>>) = 0
  /\ \A a \in Ops : <<a>> \in Seq(Ops) /\ Len(<<a>>) = 1 /\ Statement(<<a>>, 1) = a
  /\ \A a, b \in Ops : /\ <<a, b>> \in Seq(Ops) /\ Len(<<a, b>>) = 2
                       /\ Statement(<<a, b>>, 1) = b /\ Statement(<<a, b>>, 2) = a
  /\ \A a, b, c \in Ops :
       /\ <<a, b, c>> \in Seq(Ops) /\ Len(<<a, b, c>>) = 3
       /\ Statement(<<a, b, c>>, 1) = c /\ Statement(<<a, b, c>>, 2) = b
       /\ Statement(<<a, b, c>>, 3) = a
  /\ \A a, b, c, d, e \in Ops :
       /\ <<a, b, c, d, e>> \in Seq(Ops) /\ Len(<<a, b, c, d, e>>) = 5
       /\ Statement(<<a, b, c, d, e>>, 1) = e /\ Statement(<<a, b, c, d, e>>, 2) = d
       /\ Statement(<<a, b, c, d, e>>, 3) = c /\ Statement(<<a, b, c, d, e>>, 4) = b
       /\ Statement(<<a, b, c, d, e>>, 5) = a
<1>1. <<>> \in Seq(Ops) /\ Len(<<>>) = 0
  BY EmptySeq
<1>2. \A a \in Ops : <<a>> \in Seq(Ops) /\ Len(<<a>>) = 1 /\ Statement(<<a>>, 1) = a
  BY DEF Statement
<1>3. \A a, b \in Ops : /\ <<a, b>> \in Seq(Ops) /\ Len(<<a, b>>) = 2
                        /\ Statement(<<a, b>>, 1) = b /\ Statement(<<a, b>>, 2) = a
  BY DEF Statement
<1>4. \A a, b, c \in Ops :
        /\ <<a, b, c>> \in Seq(Ops) /\ Len(<<a, b, c>>) = 3
        /\ Statement(<<a, b, c>>, 1) = c /\ Statement(<<a, b, c>>, 2) = b
        /\ Statement(<<a, b, c>>, 3) = a
  BY DEF Statement
<1>5. \A a, b, c, d, e \in Ops :
        /\ <<a, b, c, d, e>> \in Seq(Ops) /\ Len(<<a, b, c, d, e>>) = 5
        /\ Statement(<<a, b, c, d, e>>, 1) = e /\ Statement(<<a, b, c, d, e>>, 2) = d
        /\ Statement(<<a, b, c, d, e>>, 3) = c /\ Statement(<<a, b, c, d, e>>, 4) = b
        /\ Statement(<<a, b, c, d, e>>, 5) = a
  BY DEF Statement
<1> QED
  BY <1>1, <1>2, <1>3, <1>4, <1>5

LEMMA ReadBitIs ==
  /\ ReadBit \in Seq(Ops) /\ Len(ReadBit) = 6
  /\ Statement(ReadBit, 6) = "cli" /\ Statement(ReadBit, 5) = "sda_hi"
  /\ Statement(ReadBit, 4) = "scl_hi" /\ Statement(ReadBit, 3) = "sample"
  /\ Statement(ReadBit, 2) = "scl_low" /\ Statement(ReadBit, 1) = "sei"
<1>1. ReadBit \in Seq(Ops) /\ Len(ReadBit) = 6
  BY DEF ReadBit, Ops
<1> QED
  BY <1>1 DEF ReadBit, Statement

LEMMA MasterStopIs ==
  /\ MasterStop \in Seq(Ops) /\ Len(MasterStop) = 7
  /\ Statement(MasterStop, 7) = "cli" /\ Statement(MasterStop, 6) = "scl_low"
  /\ Statement(MasterStop, 5) = "sda_low" /\ Statement(MasterStop, 4) = "scl_hi"
  /\ Statement(MasterStop, 3) = "sda_hi" /\ Statement(MasterStop, 2) = "unhold"
  /\ Statement(MasterStop, 1) = "sei"
<1>1. MasterStop \in Seq(Ops) /\ Len(MasterStop) = 7
  BY DEF MasterStop, Ops
<1> QED
  BY <1>1 DEF MasterStop, Statement

AllBits == [1 .. Bits -> BOOLEAN]

\* The loop of write_byte: three statements for each bit.
LEMMA ClockOutIs ==
  ASSUME NEW b \in AllBits
  PROVE  /\ ClockOut(b) \in Seq(Ops) /\ Len(ClockOut(b)) = 3 * Bits
         /\ \A j \in 1 .. Bits :
              /\ Statement(ClockOut(b), 3 * (Bits - j + 1)) = IF b[j] THEN "sda_hi" ELSE "sda_low"
              /\ Statement(ClockOut(b), 3 * (Bits - j + 1) - 1) = "scl_hi"
              /\ Statement(ClockOut(b), 3 * (Bits - j + 1) - 2) = "scl_low"
<1> DEFINE op(k) == CASE k % 3 = 1 -> IF b[(k + 2) \div 3] THEN "sda_hi" ELSE "sda_low"
                      [] k % 3 = 2 -> "scl_hi"
                      [] OTHER -> "scl_low"
<1>1. Bits \in Nat /\ Bits >= 2 /\ 3 * Bits \in Nat
  OBVIOUS
<1>2. b \in Seq(BOOLEAN) /\ Len(b) = Bits
  <2>1. b \in Seq(BOOLEAN)
    BY <1>1, SeqDef DEF AllBits
  <2> QED
    BY <1>1, <2>1, LenProperties DEF AllBits
<1>3. ClockOut(b) = [k \in 1 .. 3 * Bits |-> op(k)]
  BY <1>2 DEF ClockOut
<1>4. \A k : op(k) \in Ops
  BY DEF Ops
<1> HIDE DEF op
<1>5. ClockOut(b) \in [1 .. 3 * Bits -> Ops]
  BY <1>3, <1>4
<1>6. ClockOut(b) \in Seq(Ops)
  BY <1>1, <1>5, SeqDef
<1>7. Len(ClockOut(b)) = 3 * Bits
  BY <1>1, <1>5, <1>6, LenProperties
<1>8. ASSUME NEW j \in 1 .. Bits
      PROVE  /\ Statement(ClockOut(b), 3 * (Bits - j + 1)) = op(3 * j - 2)
             /\ Statement(ClockOut(b), 3 * (Bits - j + 1) - 1) = op(3 * j - 1)
             /\ Statement(ClockOut(b), 3 * (Bits - j + 1) - 2) = op(3 * j)
  <2>1. /\ 3 * Bits - 3 * (Bits - j + 1) + 1 = 3 * j - 2
        /\ 3 * Bits - (3 * (Bits - j + 1) - 1) + 1 = 3 * j - 1
        /\ 3 * Bits - (3 * (Bits - j + 1) - 2) + 1 = 3 * j
        /\ 3 * j - 2 \in 1 .. 3 * Bits /\ 3 * j - 1 \in 1 .. 3 * Bits /\ 3 * j \in 1 .. 3 * Bits
    BY <1>1
  <2> QED
    BY <1>3, <1>7, <2>1, Zenon DEF Statement
<1>9. ASSUME NEW j \in 1 .. Bits
      PROVE  /\ op(3 * j - 2) = IF b[j] THEN "sda_hi" ELSE "sda_low"
             /\ op(3 * j - 1) = "scl_hi"
             /\ op(3 * j) = "scl_low"
  <2>1. /\ (3 * j - 2) % 3 = 1 /\ ((3 * j - 2) + 2) \div 3 = j
        /\ (3 * j - 1) % 3 = 2 /\ (3 * j) % 3 = 0
    BY <1>1
  <2>2. op(3 * j - 2) = IF b[j] THEN "sda_hi" ELSE "sda_low"
    BY <2>1 DEF op
  <2>3. op(3 * j - 1) = "scl_hi"
    BY <2>1 DEF op
  <2>4. op(3 * j) = "scl_low"
    BY <2>1 DEF op
  <2> QED
    BY <2>2, <2>3, <2>4
<1> QED
  BY <1>6, <1>7, <1>8, <1>9

\* Program P sends byte b and reads the acknowledgement before its last T
\* statements.
Sends(P, b, T) ==
  /\ Statement(P, T + 3 * Bits + 8) = "cli"
  /\ \A j \in 1 .. Bits :
       /\ Statement(P, T + 7 + 3 * (Bits - j + 1)) = IF b[j] THEN "sda_hi" ELSE "sda_low"
       /\ Statement(P, T + 6 + 3 * (Bits - j + 1)) = "scl_hi"
       /\ Statement(P, T + 5 + 3 * (Bits - j + 1)) = "scl_low"
  /\ Statement(P, T + 7) = "sei"
  /\ Statement(P, T + 6) = "cli" /\ Statement(P, T + 5) = "sda_hi"
  /\ Statement(P, T + 4) = "scl_hi" /\ Statement(P, T + 3) = "sample"
  /\ Statement(P, T + 2) = "scl_low" /\ Statement(P, T + 1) = "sei"

LEMMA WriteByteIs ==
  ASSUME NEW b \in AllBits
  PROVE  /\ WriteByte(b) \in Seq(Ops) /\ Len(WriteByte(b)) = 3 * Bits + 2
         /\ Statement(WriteByte(b), 3 * Bits + 2) = "cli" /\ Statement(WriteByte(b), 1) = "sei"
         /\ \A j \in 1 .. Bits :
              /\ Statement(WriteByte(b), 1 + 3 * (Bits - j + 1))
                   = IF b[j] THEN "sda_hi" ELSE "sda_low"
              /\ Statement(WriteByte(b), 3 * (Bits - j + 1)) = "scl_hi"
              /\ Statement(WriteByte(b), 3 * (Bits - j + 1) - 1) = "scl_low"
<1> DEFINE C == ClockOut(b)
           L == <<"cli">> \o C
<1>1. /\ C \in Seq(Ops) /\ Len(C) = 3 * Bits
      /\ \A j \in 1 .. Bits :
           /\ Statement(C, 3 * (Bits - j + 1)) = IF b[j] THEN "sda_hi" ELSE "sda_low"
           /\ Statement(C, 3 * (Bits - j + 1) - 1) = "scl_hi"
           /\ Statement(C, 3 * (Bits - j + 1) - 2) = "scl_low"
  BY ClockOutIs
<1>2. /\ <<"cli">> \in Seq(Ops) /\ Len(<<"cli">>) = 1 /\ Statement(<<"cli">>, 1) = "cli"
      /\ <<"sei">> \in Seq(Ops) /\ Len(<<"sei">>) = 1 /\ Statement(<<"sei">>, 1) = "sei"
  <2>1. "cli" \in Ops /\ "sei" \in Ops
    BY DEF Ops
  <2> QED
    BY <2>1, Literals
<1> HIDE DEF C
<1>3. /\ L \in Seq(Ops) /\ Len(L) = 1 + 3 * Bits
      /\ \A n \in 1 .. 3 * Bits : Statement(L, n) = Statement(C, n)
      /\ \A n \in 1 .. 1 : Statement(L, 3 * Bits + n) = Statement(<<"cli">>, n)
  <2>1. /\ L \in Seq(Ops) /\ Len(L) = Len(<<"cli">>) + Len(C)
        /\ \A n \in 1 .. Len(C) : Statement(L, n) = Statement(C, n)
        /\ \A n \in 1 .. Len(<<"cli">>) : Statement(L, Len(C) + n) = Statement(<<"cli">>, n)
    BY <1>1, <1>2, Appended, ZenonT(60)
  <2> QED
    BY <1>1, <1>2, <2>1, Zenon
<1> HIDE DEF L
<1>4. WriteByte(b) = L \o <<"sei">>
  BY DEF WriteByte, L, C
<1>5. /\ L \o <<"sei">> \in Seq(Ops) /\ Len(L \o <<"sei">>) = (1 + 3 * Bits) + 1
      /\ \A n \in 1 .. 1 : Statement(L \o <<"sei">>, n) = Statement(<<"sei">>, n)
      /\ \A n \in 1 .. 1 + 3 * Bits : Statement(L \o <<"sei">>, 1 + n) = Statement(L, n)
  <2> DEFINE S == L \o <<"sei">>
  <2>1. /\ S \in Seq(Ops) /\ Len(S) = Len(L) + Len(<<"sei">>)
        /\ \A n \in 1 .. Len(<<"sei">>) : Statement(S, n) = Statement(<<"sei">>, n)
        /\ \A n \in 1 .. Len(L) : Statement(S, Len(<<"sei">>) + n) = Statement(L, n)
    BY <1>2, <1>3, Appended, Zenon
  <2> QED
    BY <1>2, <1>3, <2>1, Zenon
<1>6. ASSUME NEW n \in 1 .. 3 * Bits
      PROVE  Statement(WriteByte(b), 1 + n) = Statement(C, n)
  <2>1. n \in 1 .. 1 + 3 * Bits
    OBVIOUS
  <2> QED
    BY <1>3, <1>4, <1>5, <2>1
<1>7. Statement(WriteByte(b), 3 * Bits + 2) = "cli"
  <2>1. 1 + 3 * Bits \in 1 .. 1 + 3 * Bits /\ 1 + (1 + 3 * Bits) = 3 * Bits + 2
    OBVIOUS
  <2>2. Statement(WriteByte(b), 3 * Bits + 2) = Statement(L, 1 + 3 * Bits)
    BY <1>4, <1>5, <2>1
  <2>3. Statement(L, 3 * Bits + 1) = "cli"
    BY <1>2, <1>3
  <2>4. 3 * Bits + 1 = 1 + 3 * Bits
    OBVIOUS
  <2> QED
    BY <2>2, <2>3, <2>4
<1>8. ASSUME NEW j \in 1 .. Bits
      PROVE  /\ Statement(WriteByte(b), 1 + 3 * (Bits - j + 1))
                  = IF b[j] THEN "sda_hi" ELSE "sda_low"
             /\ Statement(WriteByte(b), 3 * (Bits - j + 1)) = "scl_hi"
             /\ Statement(WriteByte(b), 3 * (Bits - j + 1) - 1) = "scl_low"
  <2> DEFINE u == 3 * (Bits - j + 1)
  <2>1. /\ u \in 1 .. 3 * Bits /\ u - 1 \in 1 .. 3 * Bits /\ u - 2 \in 1 .. 3 * Bits
        /\ 1 + (u - 1) = u /\ 1 + (u - 2) = u - 1
    OBVIOUS
  <2>2. /\ Statement(WriteByte(b), 1 + u) = Statement(C, u)
        /\ Statement(WriteByte(b), 1 + (u - 1)) = Statement(C, u - 1)
        /\ Statement(WriteByte(b), 1 + (u - 2)) = Statement(C, u - 2)
    BY <1>6, <2>1
  <2> QED
    BY <1>1, <2>1, <2>2
<1>9. Statement(WriteByte(b), 1) = "sei"
  BY <1>2, <1>4, <1>5
<1>10. Len(WriteByte(b)) = 3 * Bits + 2
  BY <1>4, <1>5
<1> QED
  BY <1>4, <1>5, <1>7, <1>8, <1>9, <1>10

\* A byte is sent by the statements between X and Y.
Sending(X, b, Y) == X \o WriteByte(b) \o ReadBit \o Y

LEMMA SendsIs ==
  \A b \in AllBits, X, Y \in Seq(Ops) :
    /\ Sending(X, b, Y) \in Seq(Ops) /\ Len(Sending(X, b, Y)) = Len(X) + Len(Y) + 3 * Bits + 8
    /\ Sends(Sending(X, b, Y), b, Len(Y))
    /\ \A n \in 1 .. Len(Y) : Statement(Sending(X, b, Y), n) = Statement(Y, n)
    /\ \A n \in 1 .. Len(X) :
         Statement(Sending(X, b, Y), Len(Y) + 3 * Bits + 8 + n) = Statement(X, n)
<1> SUFFICES ASSUME NEW b \in AllBits, NEW X \in Seq(Ops), NEW Y \in Seq(Ops)
    PROVE  /\ Sending(X, b, Y) \in Seq(Ops)
           /\ Len(Sending(X, b, Y)) = Len(X) + Len(Y) + 3 * Bits + 8
           /\ Sends(Sending(X, b, Y), b, Len(Y))
           /\ \A n \in 1 .. Len(Y) : Statement(Sending(X, b, Y), n) = Statement(Y, n)
           /\ \A n \in 1 .. Len(X) :
                Statement(Sending(X, b, Y), Len(Y) + 3 * Bits + 8 + n) = Statement(X, n)
  BY ZenonT(60)
<1> DEFINE P == Sending(X, b, Y)
<1> DEFINE W == WriteByte(b)
           Q == X \o W
           R == Q \o ReadBit
           T == Len(Y)
<1>1. T \in Nat /\ Len(X) \in Nat /\ 3 * Bits \in Nat
  OBVIOUS
<1>2. W \in Seq(Ops) /\ Len(W) = 3 * Bits + 2
  BY WriteByteIs
<1> HIDE DEF W
<1>3. /\ Q \in Seq(Ops) /\ Len(Q) = Len(X) + (3 * Bits + 2)
      /\ \A n \in 1 .. 3 * Bits + 2 : Statement(Q, n) = Statement(W, n)
      /\ \A n \in 1 .. Len(X) : Statement(Q, (3 * Bits + 2) + n) = Statement(X, n)
  <2>1. /\ Q \in Seq(Ops) /\ Len(Q) = Len(X) + Len(W)
        /\ \A n \in 1 .. Len(W) : Statement(Q, n) = Statement(W, n)
        /\ \A n \in 1 .. Len(X) : Statement(Q, Len(W) + n) = Statement(X, n)
    BY <1>2, Appended, Zenon
  <2> QED
    BY <1>2, <2>1, Zenon
<1> HIDE DEF Q
<1>4. /\ R \in Seq(Ops) /\ Len(R) = Len(Q) + 6
      /\ \A n \in 1 .. 6 : Statement(R, n) = Statement(ReadBit, n)
      /\ \A n \in 1 .. Len(Q) : Statement(R, 6 + n) = Statement(Q, n)
  <2>1. /\ R \in Seq(Ops) /\ Len(R) = Len(Q) + Len(ReadBit)
        /\ \A n \in 1 .. Len(ReadBit) : Statement(R, n) = Statement(ReadBit, n)
        /\ \A n \in 1 .. Len(Q) : Statement(R, Len(ReadBit) + n) = Statement(Q, n)
    BY <1>3, ReadBitIs, Appended, Zenon
  <2> QED
    BY ReadBitIs, <2>1, Zenon
<1> HIDE DEF R
<1>5. /\ P \in Seq(Ops) /\ Len(P) = Len(R) + T
      /\ \A n \in 1 .. T : Statement(P, n) = Statement(Y, n)
      /\ \A n \in 1 .. Len(R) : Statement(P, T + n) = Statement(R, n)
  <2>1. P = R \o Y
    BY DEF Sending, R, Q, W
  <2>2. /\ R \o Y \in Seq(Ops) /\ Len(R \o Y) = Len(R) + Len(Y)
        /\ \A n \in 1 .. Len(Y) : Statement(R \o Y, n) = Statement(Y, n)
        /\ \A n \in 1 .. Len(R) : Statement(R \o Y, Len(Y) + n) = Statement(R, n)
    BY <1>4, Appended, Zenon
  <2> QED
    BY <2>1, <2>2, Zenon
<1> HIDE DEF P
<1>6. \A n \in 1 .. 6 : Statement(P, T + n) = Statement(ReadBit, n)
  <2>1. \A n \in 1 .. 6 : n \in 1 .. Len(R)
    BY <1>1, <1>3, <1>4
  <2> QED
    BY <1>4, <1>5, <2>1, Zenon
<1>7. ASSUME NEW n \in 1 .. 3 * Bits + 2
      PROVE  Statement(P, T + (6 + n)) = Statement(W, n)
  <2>1. n \in 1 .. Len(Q) /\ 6 + n \in 1 .. Len(R)
    BY <1>1, <1>3, <1>4
  <2> QED
    BY <1>3, <1>4, <1>5, <2>1
<1>8. ASSUME NEW n \in 1 .. Len(X)
      PROVE  Statement(P, T + 3 * Bits + 8 + n) = Statement(X, n)
  <2>1. /\ (3 * Bits + 2) + n \in 1 .. Len(Q) /\ 6 + ((3 * Bits + 2) + n) \in 1 .. Len(R)
        /\ T + (6 + ((3 * Bits + 2) + n)) = T + 3 * Bits + 8 + n
    BY <1>1, <1>3, <1>4
  <2>2. Statement(P, T + (6 + ((3 * Bits + 2) + n))) = Statement(R, 6 + ((3 * Bits + 2) + n))
    BY <1>5, <2>1
  <2>3. Statement(R, 6 + ((3 * Bits + 2) + n)) = Statement(Q, (3 * Bits + 2) + n)
    BY <1>4, <2>1
  <2> QED
    BY <1>3, <2>1, <2>2, <2>3
<1>9. Sends(P, b, T)
  <2>1. /\ Statement(P, T + 6) = "cli" /\ Statement(P, T + 5) = "sda_hi"
        /\ Statement(P, T + 4) = "scl_hi" /\ Statement(P, T + 3) = "sample"
        /\ Statement(P, T + 2) = "scl_low" /\ Statement(P, T + 1) = "sei"
    BY <1>6, ReadBitIs
  <2>2. /\ Statement(W, 3 * Bits + 2) = "cli" /\ Statement(W, 1) = "sei"
        /\ \A j \in 1 .. Bits :
              /\ Statement(W, 1 + 3 * (Bits - j + 1)) = IF b[j] THEN "sda_hi" ELSE "sda_low"
              /\ Statement(W, 3 * (Bits - j + 1)) = "scl_hi"
              /\ Statement(W, 3 * (Bits - j + 1) - 1) = "scl_low"
    BY WriteByteIs DEF W
  <2>3. Statement(P, T + 3 * Bits + 8) = "cli" /\ Statement(P, T + 7) = "sei"
    <3>1. /\ 3 * Bits + 2 \in 1 .. 3 * Bits + 2 /\ 1 \in 1 .. 3 * Bits + 2
          /\ T + (6 + (3 * Bits + 2)) = T + 3 * Bits + 8 /\ T + (6 + 1) = T + 7
      BY <1>1
    <3>2. /\ Statement(P, T + (6 + (3 * Bits + 2))) = "cli"
          /\ Statement(P, T + (6 + 1)) = "sei"
      BY <1>7, <2>2, <3>1
    <3> QED
      BY <3>1, <3>2
  <2>4. ASSUME NEW j \in 1 .. Bits
        PROVE  /\ Statement(P, T + 7 + 3 * (Bits - j + 1))
                    = IF b[j] THEN "sda_hi" ELSE "sda_low"
               /\ Statement(P, T + 6 + 3 * (Bits - j + 1)) = "scl_hi"
               /\ Statement(P, T + 5 + 3 * (Bits - j + 1)) = "scl_low"
    <3> DEFINE u == 3 * (Bits - j + 1)
    <3>1. /\ 1 + u \in 1 .. 3 * Bits + 2 /\ u \in 1 .. 3 * Bits + 2 /\ u - 1 \in 1 .. 3 * Bits + 2
          /\ T + (6 + (1 + u)) = T + 7 + u /\ T + (6 + u) = T + 6 + u
          /\ T + (6 + (u - 1)) = T + 5 + u
      BY <1>1
    <3>2. /\ Statement(P, T + (6 + (1 + u))) = Statement(W, 1 + u)
          /\ Statement(P, T + (6 + u)) = Statement(W, u)
          /\ Statement(P, T + (6 + (u - 1))) = Statement(W, u - 1)
      BY <1>7, <3>1
    <3> QED
      BY <2>2, <3>1, <3>2
  <2> QED
    BY <2>1, <2>3, <2>4 DEF Sends
<1>10. Len(P) = Len(X) + Len(Y) + 3 * Bits + 8
  BY <1>1, <1>3, <1>4, <1>5
<1> QED
  BY <1>5, <1>8, <1>9, <1>10, Zenon DEF P

\* It makes a START condition before that, after a repeated START if the bus is
\* held, and remembers that it holds the bus.
Starts(P, held, b, T) ==
  /\ Sends(P, b, T)
  /\ Statement(P, T + 3 * Bits + 9) = "hold" /\ Statement(P, T + 3 * Bits + 10) = "scl_low"
  /\ Statement(P, T + 3 * Bits + 11) = "sda_low"
  /\ held => /\ Statement(P, T + 3 * Bits + 12) = "scl_hi"
             /\ Statement(P, T + 3 * Bits + 13) = "sda_hi"
             /\ Statement(P, T + 3 * Bits + 14) = "cli"
  /\ ~held => Statement(P, T + 3 * Bits + 12) = "cli"

StartLength(held) == 3 * Bits + IF held THEN 14 ELSE 12

Prefix(held) ==
  <<"cli">> \o (IF held THEN <<"sda_hi", "scl_hi">> ELSE <<>>) \o <<"sda_low", "scl_low", "hold">>

LEMMA PrefixIs ==
  ASSUME NEW held \in BOOLEAN
  PROVE  /\ Prefix(held) \in Seq(Ops) /\ Len(Prefix(held)) = IF held THEN 6 ELSE 4
         /\ Statement(Prefix(held), 1) = "hold" /\ Statement(Prefix(held), 2) = "scl_low"
         /\ Statement(Prefix(held), 3) = "sda_low"
         /\ held => /\ Statement(Prefix(held), 4) = "scl_hi"
                    /\ Statement(Prefix(held), 5) = "sda_hi"
                    /\ Statement(Prefix(held), 6) = "cli"
         /\ ~held => Statement(Prefix(held), 4) = "cli"
<1> DEFINE A == IF held THEN <<"sda_hi", "scl_hi">> ELSE <<>>
           B == <<"sda_low", "scl_low", "hold">>
           X == <<"cli">>
           L == X \o A
<1>1. /\ X \in Seq(Ops) /\ Len(X) = 1 /\ Statement(X, 1) = "cli"
      /\ B \in Seq(Ops) /\ Len(B) = 3
      /\ Statement(B, 1) = "hold" /\ Statement(B, 2) = "scl_low" /\ Statement(B, 3) = "sda_low"
      /\ held => /\ A \in Seq(Ops) /\ Len(A) = 2
                 /\ Statement(A, 1) = "scl_hi" /\ Statement(A, 2) = "sda_hi"
      /\ ~held => A \in Seq(Ops) /\ Len(A) = 0
  <2>1. \A o \in {"cli", "sda_low", "scl_low", "hold", "sda_hi", "scl_hi"} : o \in Ops
    BY DEF Ops
  <2> QED
    BY <2>1, Literals
<1>2. Prefix(held) = L \o B
  BY DEF Prefix
<1> HIDE DEF A, B, X
<1>3. /\ L \in Seq(Ops) /\ Len(L) = Len(X) + Len(A)
      /\ \A n \in 1 .. Len(A) : Statement(L, n) = Statement(A, n)
      /\ \A n \in 1 .. Len(X) : Statement(L, Len(A) + n) = Statement(X, n)
  BY <1>1, Appended, Zenon
<1> HIDE DEF L
<1>4. /\ L \o B \in Seq(Ops) /\ Len(L \o B) = Len(L) + Len(B)
      /\ \A n \in 1 .. Len(B) : Statement(L \o B, n) = Statement(B, n)
      /\ \A n \in 1 .. Len(L) : Statement(L \o B, Len(B) + n) = Statement(L, n)
  BY <1>1, <1>3, Appended, Zenon
<1>5. CASE held
  <2>1. Len(A) = 2 /\ Len(L) = 3 /\ Len(Prefix(held)) = 6
    <3>1. Len(A) = 2 /\ Len(X) = 1 /\ Len(B) = 3
      BY <1>1, <1>5
    <3>2. Len(L) = 1 + 2
      BY <1>3, <3>1, Zenon
    <3>3. Len(Prefix(held)) = (1 + 2) + 3
      BY <1>2, <1>4, <3>1, <3>2, Zenon
    <3> QED
      BY <3>1, <3>2, <3>3
  <2>2. /\ Statement(L, 1) = "scl_hi" /\ Statement(L, 2) = "sda_hi"
        /\ Statement(L, 2 + 1) = "cli"
    BY <1>1, <1>3, <1>5, <2>1
  <2>3. \A n \in 1 .. 3 : Statement(Prefix(held), 3 + n) = Statement(L, n)
    BY <1>1, <1>2, <1>4, <2>1, Zenon
  <2>4. \A n \in 1 .. 3 : Statement(Prefix(held), n) = Statement(B, n)
    BY <1>1, <1>2, <1>4, Zenon
  <2> QED
    BY <1>1, <1>2, <1>4, <1>5, <2>1, <2>2, <2>3, <2>4
<1>6. CASE ~held
  BY <1>1, <1>2, <1>3, <1>4, <1>6
<1> QED
  BY <1>5, <1>6

\* A program that starts a transfer and goes on with Y.
LEMMA StartsIs ==
  \A held \in BOOLEAN, b \in AllBits, Y \in Seq(Ops) :
    /\ MasterStart(held, b) \o Y \in Seq(Ops)
    /\ Len(MasterStart(held, b) \o Y) = Len(Y) + StartLength(held)
    /\ Starts(MasterStart(held, b) \o Y, held, b, Len(Y))
    /\ \A n \in 1 .. Len(Y) : Statement(MasterStart(held, b) \o Y, n) = Statement(Y, n)
<1> SUFFICES ASSUME NEW held \in BOOLEAN, NEW b \in AllBits, NEW Y \in Seq(Ops)
    PROVE  /\ MasterStart(held, b) \o Y \in Seq(Ops)
           /\ Len(MasterStart(held, b) \o Y) = Len(Y) + StartLength(held)
           /\ Starts(MasterStart(held, b) \o Y, held, b, Len(Y))
           /\ \A n \in 1 .. Len(Y) : Statement(MasterStart(held, b) \o Y, n) = Statement(Y, n)
  BY Zenon
<1> DEFINE P == MasterStart(held, b) \o Y
<1> DEFINE X == Prefix(held)
           T == Len(Y)
<1>1. P = Sending(X, b, Y)
  BY DEF MasterStart, Prefix, Sending
<1>2. T \in Nat /\ 3 * Bits \in Nat
  OBVIOUS
<1>3. /\ X \in Seq(Ops) /\ Len(X) = IF held THEN 6 ELSE 4
      /\ Statement(X, 1) = "hold" /\ Statement(X, 2) = "scl_low" /\ Statement(X, 3) = "sda_low"
      /\ held => /\ Statement(X, 4) = "scl_hi" /\ Statement(X, 5) = "sda_hi"
                 /\ Statement(X, 6) = "cli"
      /\ ~held => Statement(X, 4) = "cli"
  BY PrefixIs
<1> HIDE DEF X, P
<1>4. /\ P \in Seq(Ops) /\ Len(P) = Len(X) + T + 3 * Bits + 8
      /\ Sends(P, b, T)
      /\ \A n \in 1 .. T : Statement(P, n) = Statement(Y, n)
      /\ \A n \in 1 .. Len(X) : Statement(P, T + 3 * Bits + 8 + n) = Statement(X, n)
  <2> DEFINE S == Sending(X, b, Y)
  <2>1. /\ S \in Seq(Ops) /\ Len(S) = Len(X) + Len(Y) + 3 * Bits + 8
        /\ Sends(S, b, Len(Y))
        /\ \A n \in 1 .. Len(Y) : Statement(S, n) = Statement(Y, n)
        /\ \A n \in 1 .. Len(X) : Statement(S, Len(Y) + 3 * Bits + 8 + n) = Statement(X, n)
    BY <1>3, SendsIs
  <2> QED
    BY <1>1, <2>1, Zenon
<1>5. Len(P) = T + StartLength(held)
  <2>1. CASE held
    BY <1>2, <1>3, <1>4, <2>1 DEF StartLength
  <2>2. CASE ~held
    BY <1>2, <1>3, <1>4, <2>2 DEF StartLength
  <2> QED
    BY <2>1, <2>2
<1>6. /\ T + 3 * Bits + 8 + 1 = T + 3 * Bits + 9 /\ T + 3 * Bits + 8 + 2 = T + 3 * Bits + 10
      /\ T + 3 * Bits + 8 + 3 = T + 3 * Bits + 11 /\ T + 3 * Bits + 8 + 4 = T + 3 * Bits + 12
      /\ T + 3 * Bits + 8 + 5 = T + 3 * Bits + 13 /\ T + 3 * Bits + 8 + 6 = T + 3 * Bits + 14
  BY <1>2
<1>7. /\ Statement(P, T + 3 * Bits + 9) = "hold" /\ Statement(P, T + 3 * Bits + 10) = "scl_low"
      /\ Statement(P, T + 3 * Bits + 11) = "sda_low"
  <2>1. 1 \in 1 .. Len(X) /\ 2 \in 1 .. Len(X) /\ 3 \in 1 .. Len(X)
    BY <1>3
  <2> QED
    BY <1>3, <1>4, <1>6, <2>1, Zenon
<1>8. ASSUME held
      PROVE  /\ Statement(P, T + 3 * Bits + 12) = "scl_hi"
             /\ Statement(P, T + 3 * Bits + 13) = "sda_hi"
             /\ Statement(P, T + 3 * Bits + 14) = "cli"
  <2>1. 4 \in 1 .. Len(X) /\ 5 \in 1 .. Len(X) /\ 6 \in 1 .. Len(X)
    BY <1>3, <1>8
  <2> QED
    BY <1>3, <1>4, <1>6, <1>8, <2>1, Zenon
<1>9. ASSUME ~held
      PROVE  Statement(P, T + 3 * Bits + 12) = "cli"
  <2>1. 4 \in 1 .. Len(X)
    BY <1>3, <1>9
  <2> QED
    BY <1>3, <1>4, <1>6, <1>9, <2>1, Zenon
<1>10. Starts(P, held, b, T)
  BY <1>4, <1>7, <1>8, <1>9, Zenon DEF Starts
<1> QED
  BY <1>4, <1>5, <1>10, Zenon DEF P

\* The START byte of bus_clear: the address 0 and the read bit.
StartByte == [i \in 1 .. Bits |-> i = Bits]

Stops(P) == \A n \in 1 .. 7 : Statement(P, n) = Statement(MasterStop, n)

LEMMA StartIs ==
  ASSUME NEW held \in BOOLEAN, NEW b \in AllBits
  PROVE  /\ MasterStart(held, b) \in Seq(Ops) /\ Len(MasterStart(held, b)) = StartLength(held)
         /\ Starts(MasterStart(held, b), held, b, 0)
<1> DEFINE M == MasterStart(held, b)
<1>1. /\ M \o <<>> \in Seq(Ops) /\ Len(M \o <<>>) = Len(<<>>) + StartLength(held)
      /\ Starts(M \o <<>>, held, b, Len(<<>>))
  <2>1. <<>> \in Seq(Ops)
    BY Literals
  <2> QED
    BY <2>1, StartsIs, Zenon
<1>2. M \in Seq(Ops)
  <2>1. WriteByte(b) \in Seq(Ops) /\ ReadBit \in Seq(Ops) /\ Prefix(held) \in Seq(Ops)
    BY WriteByteIs, ReadBitIs, PrefixIs
  <2>2. M = (Prefix(held) \o WriteByte(b)) \o ReadBit
    BY Zenon DEF MasterStart, Prefix
  <2>3. Prefix(held) \o WriteByte(b) \in Seq(Ops)
    BY <2>1, Appended, Zenon
  <2> QED
    BY <2>1, <2>2, <2>3, Appended, Zenon
<1> HIDE DEF M
<1>3. M \o <<>> = M
  BY <1>2, ConcatEmptySeq, Zenon
<1>4. Len(<<>>) = 0 /\ 0 + StartLength(held) = StartLength(held)
  BY DEF StartLength
<1>5. Len(M) = StartLength(held)
  BY <1>1, <1>3, <1>4, Zenon
<1>6. Starts(M, held, b, 0)
  BY <1>1, <1>3, <1>4, Zenon
<1> QED
  BY <1>2, <1>5, <1>6 DEF M

LEMMA StartByteIs == StartByte \in AllBits
BY DEF StartByte, AllBits

LEMMA ClearIs ==
  ASSUME NEW held \in BOOLEAN
  PROVE  /\ BusClear(held) \in Seq(Ops) /\ Len(BusClear(held)) = 7 + StartLength(held)
         /\ Starts(BusClear(held), held, StartByte, 7)
         /\ Stops(BusClear(held))
<1>1. BusClear(held) = MasterStart(held, StartByte) \o MasterStop
  BY DEF BusClear, StartByte
<1>2. /\ BusClear(held) \in Seq(Ops)
      /\ Len(BusClear(held)) = Len(MasterStop) + StartLength(held)
      /\ Starts(BusClear(held), held, StartByte, Len(MasterStop))
      /\ \A n \in 1 .. Len(MasterStop) : Statement(BusClear(held), n) = Statement(MasterStop, n)
  <2> DEFINE M == MasterStart(held, StartByte) \o MasterStop
  <2>1. /\ M \in Seq(Ops) /\ Len(M) = Len(MasterStop) + StartLength(held)
        /\ Starts(M, held, StartByte, Len(MasterStop))
        /\ \A n \in 1 .. Len(MasterStop) : Statement(M, n) = Statement(MasterStop, n)
    BY StartByteIs, MasterStopIs, StartsIs
  <2> QED
    BY <1>1, <2>1, Zenon
<1> QED
  BY <1>2, MasterStopIs, Zenon DEF Stops

LEMMA OpenIs ==
  /\ Open \in Seq(Ops) /\ Len(Open) = 3 * Bits + 22
  /\ Starts(Open, FALSE, StartByte, 7)
  /\ Stops(Open)
  /\ Statement(Open, 3 * Bits + 22) = "sda_hi" /\ Statement(Open, 3 * Bits + 21) = "scl_hi"
  /\ Statement(Open, 3 * Bits + 20) = "unhold"
<1> DEFINE X == <<"sda_hi", "scl_hi", "unhold">>
           C == BusClear(FALSE)
<1>1. /\ X \in Seq(Ops) /\ Len(X) = 3
      /\ Statement(X, 1) = "unhold" /\ Statement(X, 2) = "scl_hi" /\ Statement(X, 3) = "sda_hi"
  <2>1. "sda_hi" \in Ops /\ "scl_hi" \in Ops /\ "unhold" \in Ops
    BY DEF Ops
  <2> QED
    BY <2>1, Literals
<1>2. /\ C \in Seq(Ops) /\ Len(C) = 3 * Bits + 19
      /\ Starts(C, FALSE, StartByte, 7) /\ Stops(C)
  <2>1. 7 + StartLength(FALSE) = 3 * Bits + 19
    BY DEF StartLength
  <2> QED
    BY <2>1, ClearIs
<1>3. Open = X \o C
  BY DEF Open
<1> HIDE DEF X, C
<1>4. /\ Open \in Seq(Ops) /\ Len(Open) = Len(X) + Len(C)
      /\ \A n \in 1 .. Len(C) : Statement(Open, n) = Statement(C, n)
      /\ \A n \in 1 .. Len(X) : Statement(Open, Len(C) + n) = Statement(X, n)
  BY <1>1, <1>2, <1>3, Appended, Zenon
<1>5. \A n \in 1 .. 3 * Bits + 19 : Statement(Open, n) = Statement(C, n)
  BY <1>2, <1>4, Zenon
<1>6. /\ Statement(Open, 3 * Bits + 22) = "sda_hi" /\ Statement(Open, 3 * Bits + 21) = "scl_hi"
      /\ Statement(Open, 3 * Bits + 20) = "unhold" /\ Len(Open) = 3 * Bits + 22
  <2>1. /\ (3 * Bits + 19) + 3 = 3 * Bits + 22 /\ (3 * Bits + 19) + 2 = 3 * Bits + 21
        /\ (3 * Bits + 19) + 1 = 3 * Bits + 20 /\ 3 + (3 * Bits + 19) = 3 * Bits + 22
        /\ 1 \in 1 .. 3 /\ 2 \in 1 .. 3 /\ 3 \in 1 .. 3
    OBVIOUS
  <2>2. /\ Statement(Open, (3 * Bits + 19) + 3) = Statement(X, 3)
        /\ Statement(Open, (3 * Bits + 19) + 2) = Statement(X, 2)
        /\ Statement(Open, (3 * Bits + 19) + 1) = Statement(X, 1)
    BY <1>1, <1>2, <1>4, <2>1, Zenon
  <2> QED
    BY <1>1, <1>2, <1>4, <2>1, <2>2
<1>7. Stops(Open)
  <2>1. \A n \in 1 .. 7 : n \in 1 .. 3 * Bits + 19
    OBVIOUS
  <2> QED
    BY <1>2, <1>5, <2>1, Zenon DEF Stops
<1>8. Starts(Open, FALSE, StartByte, 7)
  <2>1. /\ \A n \in 8 .. 15 : n \in 1 .. 3 * Bits + 19
        /\ 7 + 3 * Bits + 8 \in 1 .. 3 * Bits + 19 /\ 7 + 3 * Bits + 9 \in 1 .. 3 * Bits + 19
        /\ 7 + 3 * Bits + 10 \in 1 .. 3 * Bits + 19 /\ 7 + 3 * Bits + 11 \in 1 .. 3 * Bits + 19
        /\ 7 + 3 * Bits + 12 \in 1 .. 3 * Bits + 19
        /\ \A j \in 1 .. Bits : /\ 7 + 7 + 3 * (Bits - j + 1) \in 1 .. 3 * Bits + 19
                                /\ 7 + 6 + 3 * (Bits - j + 1) \in 1 .. 3 * Bits + 19
                                /\ 7 + 5 + 3 * (Bits - j + 1) \in 1 .. 3 * Bits + 19
        /\ 7 + 7 \in 1 .. 3 * Bits + 19 /\ 7 + 6 \in 1 .. 3 * Bits + 19
        /\ 7 + 5 \in 1 .. 3 * Bits + 19 /\ 7 + 4 \in 1 .. 3 * Bits + 19
        /\ 7 + 3 \in 1 .. 3 * Bits + 19 /\ 7 + 2 \in 1 .. 3 * Bits + 19
        /\ 7 + 1 \in 1 .. 3 * Bits + 19
    OBVIOUS
  <2>2. Sends(Open, StartByte, 7)
    BY <1>2, <1>5, <2>1, ZenonT(60) DEF Starts, Sends
  <2> QED
    BY <1>2, <1>5, <2>1, <2>2, Zenon DEF Starts
<1> QED
  BY <1>4, <1>6, <1>7, <1>8

LEMMA TxIs ==
  ASSUME NEW b \in AllBits
  PROVE  /\ MasterTx(b) \in Seq(Ops) /\ Len(MasterTx(b)) = 3 * Bits + 10
         /\ Sends(MasterTx(b), b, 1)
         /\ Statement(MasterTx(b), 3 * Bits + 10) = "cli" /\ Statement(MasterTx(b), 1) = "sei"
<1>1. /\ <<"cli">> \in Seq(Ops) /\ Len(<<"cli">>) = 1 /\ Statement(<<"cli">>, 1) = "cli"
      /\ <<"sei">> \in Seq(Ops) /\ Len(<<"sei">>) = 1 /\ Statement(<<"sei">>, 1) = "sei"
  <2>1. "cli" \in Ops /\ "sei" \in Ops
    BY DEF Ops
  <2> QED
    BY <2>1, Literals
<1>2. MasterTx(b) = Sending(<<"cli">>, b, <<"sei">>)
  BY DEF MasterTx, Sending
<1>3. /\ MasterTx(b) \in Seq(Ops)
      /\ Len(MasterTx(b)) = Len(<<"cli">>) + Len(<<"sei">>) + 3 * Bits + 8
      /\ Sends(MasterTx(b), b, Len(<<"sei">>))
      /\ \A n \in 1 .. Len(<<"sei">>) : Statement(MasterTx(b), n) = Statement(<<"sei">>, n)
      /\ \A n \in 1 .. Len(<<"cli">>) :
           Statement(MasterTx(b), Len(<<"sei">>) + 3 * Bits + 8 + n) = Statement(<<"cli">>, n)
  <2> DEFINE S == Sending(<<"cli">>, b, <<"sei">>)
  <2>1. /\ S \in Seq(Ops) /\ Len(S) = Len(<<"cli">>) + Len(<<"sei">>) + 3 * Bits + 8
        /\ Sends(S, b, Len(<<"sei">>))
        /\ \A n \in 1 .. Len(<<"sei">>) : Statement(S, n) = Statement(<<"sei">>, n)
        /\ \A n \in 1 .. Len(<<"cli">>) :
             Statement(S, Len(<<"sei">>) + 3 * Bits + 8 + n) = Statement(<<"cli">>, n)
    <3>1. <<"cli">> \in Seq(Ops) /\ <<"sei">> \in Seq(Ops)
      BY <1>1
    <3> HIDE DEF S
    <3> QED
      BY <3>1, SendsIs DEF S
  <2> QED
    BY <1>2, <2>1, Zenon
<1>4. /\ 1 \in 1 .. 1 /\ 1 + 1 + 3 * Bits + 8 = 3 * Bits + 10
      /\ 1 + 3 * Bits + 8 + 1 = 3 * Bits + 10
  OBVIOUS
<1> QED
  BY <1>1, <1>3, <1>4, ZenonT(60)

-----------------------------------------------------------------------------
(* The program that reads *)

\* Program P reads a byte, bit by bit, and answers it.
Reads(P, ack) ==
  /\ Statement(P, 6 * Bits + 6) = "cli"
  /\ \A j \in 1 .. Bits :
       /\ Statement(P, 5 + 6 * (Bits - j + 1)) = "cli"
       /\ Statement(P, 4 + 6 * (Bits - j + 1)) = "sda_hi"
       /\ Statement(P, 3 + 6 * (Bits - j + 1)) = "scl_hi"
       /\ Statement(P, 2 + 6 * (Bits - j + 1)) = "sample"
       /\ Statement(P, 1 + 6 * (Bits - j + 1)) = "scl_low"
       /\ Statement(P, 6 * (Bits - j + 1)) = "sei"
  /\ Statement(P, 5) = IF ack THEN "sda_low" ELSE "sda_hi"
  /\ Statement(P, 4) = "scl_hi" /\ Statement(P, 3) = "scl_low"
  /\ Statement(P, 2) = "sda_hi" /\ Statement(P, 1) = "sei"

LEMMA RepeatIs ==
  /\ Repeat(ReadBit, Bits) \in Seq(Ops) /\ Len(Repeat(ReadBit, Bits)) = 6 * Bits
  /\ \A j \in 1 .. Bits :
       /\ Statement(Repeat(ReadBit, Bits), 6 * (Bits - j + 1)) = "cli"
       /\ Statement(Repeat(ReadBit, Bits), 6 * (Bits - j + 1) - 1) = "sda_hi"
       /\ Statement(Repeat(ReadBit, Bits), 6 * (Bits - j + 1) - 2) = "scl_hi"
       /\ Statement(Repeat(ReadBit, Bits), 6 * (Bits - j + 1) - 3) = "sample"
       /\ Statement(Repeat(ReadBit, Bits), 6 * (Bits - j + 1) - 4) = "scl_low"
       /\ Statement(Repeat(ReadBit, Bits), 6 * (Bits - j + 1) - 5) = "sei"
<1> DEFINE R == Repeat(ReadBit, Bits)
           op(k) == ReadBit[((k - 1) % 6) + 1]
<1>1. Bits \in Nat /\ Bits >= 2 /\ 6 * Bits \in Nat /\ Bits * 6 = 6 * Bits
  OBVIOUS
<1>2. R = [k \in 1 .. 6 * Bits |-> op(k)]
  BY <1>1, ReadBitIs DEF Repeat
<1>3. \A k \in 1 .. 6 * Bits : op(k) \in Ops
  <2>1. \A k \in Nat \ {0} : ((k - 1) % 6) + 1 \in 1 .. 6
    OBVIOUS
  <2>2. \A k \in 1 .. 6 * Bits : k \in Nat \ {0}
    OBVIOUS
  <2> QED
    BY <2>1, <2>2, ReadBitIs, ElementOfSeq
<1> HIDE DEF op
<1>4. R \in [1 .. 6 * Bits -> Ops]
  BY <1>2, <1>3
<1> HIDE DEF R
<1>5. R \in Seq(Ops)
  BY <1>1, <1>4, SeqDef
<1>6. Len(R) = 6 * Bits
  BY <1>1, <1>4, <1>5, LenProperties
<1>7. ASSUME NEW j \in 1 .. Bits, NEW r \in 0 .. 5
      PROVE  Statement(R, 6 * (Bits - j + 1) - r) = ReadBit[r + 1]
  <2>1. /\ 6 * Bits - (6 * (Bits - j + 1) - r) + 1 = 6 * (j - 1) + r + 1
        /\ 6 * (j - 1) + r + 1 \in 1 .. 6 * Bits
        /\ ((6 * (j - 1) + r + 1) - 1) % 6 = r
    BY <1>1
  <2>2. Statement(R, 6 * (Bits - j + 1) - r) = op(6 * (j - 1) + r + 1)
    BY <1>2, <1>6, <2>1, Zenon DEF Statement
  <2>3. op(6 * (j - 1) + r + 1) = ReadBit[r + 1]
    BY <2>1, Zenon DEF op
  <2> QED
    BY <2>2, <2>3
<1>8. /\ ReadBit[1] = "cli" /\ ReadBit[2] = "sda_hi" /\ ReadBit[3] = "scl_hi"
      /\ ReadBit[4] = "sample" /\ ReadBit[5] = "scl_low" /\ ReadBit[6] = "sei"
  BY DEF ReadBit
<1>9. ASSUME NEW j \in 1 .. Bits
      PROVE  /\ Statement(R, 6 * (Bits - j + 1)) = "cli"
             /\ Statement(R, 6 * (Bits - j + 1) - 1) = "sda_hi"
             /\ Statement(R, 6 * (Bits - j + 1) - 2) = "scl_hi"
             /\ Statement(R, 6 * (Bits - j + 1) - 3) = "sample"
             /\ Statement(R, 6 * (Bits - j + 1) - 4) = "scl_low"
             /\ Statement(R, 6 * (Bits - j + 1) - 5) = "sei"
  <2>1. /\ 6 * (Bits - j + 1) - 0 = 6 * (Bits - j + 1)
        /\ 0 + 1 = 1 /\ 1 + 1 = 2 /\ 2 + 1 = 3 /\ 3 + 1 = 4 /\ 4 + 1 = 5 /\ 5 + 1 = 6
        /\ 0 \in 0 .. 5 /\ 1 \in 0 .. 5 /\ 2 \in 0 .. 5 /\ 3 \in 0 .. 5 /\ 4 \in 0 .. 5
        /\ 5 \in 0 .. 5
    BY <1>1
  <2> DEFINE u == 6 * (Bits - j + 1)
  <2>2. /\ Statement(R, u - 0) = ReadBit[0 + 1] /\ Statement(R, u - 1) = ReadBit[1 + 1]
        /\ Statement(R, u - 2) = ReadBit[2 + 1] /\ Statement(R, u - 3) = ReadBit[3 + 1]
        /\ Statement(R, u - 4) = ReadBit[4 + 1] /\ Statement(R, u - 5) = ReadBit[5 + 1]
    BY <1>7, <2>1, Zenon
  <2> QED
    BY <1>8, <2>1, <2>2
<1> QED
  BY <1>5, <1>6, <1>9 DEF R

LEMMA RxIs ==
  ASSUME NEW ack \in BOOLEAN
  PROVE  /\ MasterRx(ack) \in Seq(Ops) /\ Len(MasterRx(ack)) = 6 * Bits + 6
         /\ Reads(MasterRx(ack), ack)
<1> DEFINE X == <<"cli">>
           a == IF ack THEN "sda_low" ELSE "sda_hi"
           Y == <<a, "scl_hi", "scl_low", "sda_hi", "sei">>
           R == Repeat(ReadBit, Bits)
           L == X \o R
           P == MasterRx(ack)
<1>1. /\ X \in Seq(Ops) /\ Len(X) = 1 /\ Statement(X, 1) = "cli"
      /\ Y \in Seq(Ops) /\ Len(Y) = 5
      /\ Statement(Y, 1) = "sei" /\ Statement(Y, 2) = "sda_hi" /\ Statement(Y, 3) = "scl_low"
      /\ Statement(Y, 4) = "scl_hi" /\ Statement(Y, 5) = a
  <2>1. /\ "cli" \in Ops /\ a \in Ops /\ "scl_hi" \in Ops /\ "scl_low" \in Ops
        /\ "sda_hi" \in Ops /\ "sei" \in Ops
    BY DEF Ops
  <2> HIDE DEF a
  <2> QED
    BY <2>1, Literals
<1>2. P = L \o Y
  BY DEF MasterRx
<1>3. /\ R \in Seq(Ops) /\ Len(R) = 6 * Bits
      /\ \A j \in 1 .. Bits :
           /\ Statement(R, 6 * (Bits - j + 1)) = "cli"
           /\ Statement(R, 6 * (Bits - j + 1) - 1) = "sda_hi"
           /\ Statement(R, 6 * (Bits - j + 1) - 2) = "scl_hi"
           /\ Statement(R, 6 * (Bits - j + 1) - 3) = "sample"
           /\ Statement(R, 6 * (Bits - j + 1) - 4) = "scl_low"
           /\ Statement(R, 6 * (Bits - j + 1) - 5) = "sei"
  BY RepeatIs
<1> HIDE DEF X, Y, R, P, a
<1>4. /\ L \in Seq(Ops) /\ Len(L) = Len(X) + Len(R)
      /\ \A n \in 1 .. Len(R) : Statement(L, n) = Statement(R, n)
      /\ \A n \in 1 .. Len(X) : Statement(L, Len(R) + n) = Statement(X, n)
  BY <1>1, <1>3, Appended, Zenon
<1> HIDE DEF L
<1>5. /\ P \in Seq(Ops) /\ Len(P) = Len(L) + Len(Y)
      /\ \A n \in 1 .. Len(Y) : Statement(P, n) = Statement(Y, n)
      /\ \A n \in 1 .. Len(L) : Statement(P, Len(Y) + n) = Statement(L, n)
  <2>1. /\ L \o Y \in Seq(Ops) /\ Len(L \o Y) = Len(L) + Len(Y)
        /\ \A n \in 1 .. Len(Y) : Statement(L \o Y, n) = Statement(Y, n)
        /\ \A n \in 1 .. Len(L) : Statement(L \o Y, Len(Y) + n) = Statement(L, n)
    BY <1>1, <1>4, Appended, Zenon
  <2> QED
    BY <1>2, <2>1, Zenon
<1>6. Len(L) = 6 * Bits + 1 /\ Len(P) = 6 * Bits + 6
  BY <1>1, <1>3, <1>4, <1>5
<1>7. /\ Statement(P, 5) = a /\ Statement(P, 4) = "scl_hi" /\ Statement(P, 3) = "scl_low"
      /\ Statement(P, 2) = "sda_hi" /\ Statement(P, 1) = "sei"
  BY <1>1, <1>5
<1>8. Statement(P, 6 * Bits + 6) = "cli"
  <2>1. /\ 6 * Bits + 1 \in 1 .. 6 * Bits + 1 /\ 5 + (6 * Bits + 1) = 6 * Bits + 6
        /\ 1 \in 1 .. 1
    OBVIOUS
  <2>2. Statement(P, 5 + (6 * Bits + 1)) = Statement(L, 6 * Bits + 1)
    BY <1>1, <1>5, <1>6, <2>1, Zenon
  <2>3. Statement(L, 6 * Bits + 1) = "cli"
    BY <1>1, <1>3, <1>4, <2>1, Zenon
  <2> QED
    BY <2>1, <2>2, <2>3
<1>9. ASSUME NEW n \in 1 .. 6 * Bits
      PROVE  Statement(P, 5 + n) = Statement(R, n)
  <2>1. n \in 1 .. 6 * Bits + 1
    OBVIOUS
  <2> QED
    BY <1>1, <1>3, <1>4, <1>5, <1>6, <2>1, Zenon
<1>10. ASSUME NEW j \in 1 .. Bits
       PROVE  /\ Statement(P, 5 + 6 * (Bits - j + 1)) = "cli"
              /\ Statement(P, 4 + 6 * (Bits - j + 1)) = "sda_hi"
              /\ Statement(P, 3 + 6 * (Bits - j + 1)) = "scl_hi"
              /\ Statement(P, 2 + 6 * (Bits - j + 1)) = "sample"
              /\ Statement(P, 1 + 6 * (Bits - j + 1)) = "scl_low"
              /\ Statement(P, 6 * (Bits - j + 1)) = "sei"
  <2> DEFINE u == 6 * (Bits - j + 1)
  <2>1. /\ u \in 1 .. 6 * Bits /\ u - 1 \in 1 .. 6 * Bits /\ u - 2 \in 1 .. 6 * Bits
        /\ u - 3 \in 1 .. 6 * Bits /\ u - 4 \in 1 .. 6 * Bits /\ u - 5 \in 1 .. 6 * Bits
        /\ 5 + (u - 1) = 4 + u /\ 5 + (u - 2) = 3 + u /\ 5 + (u - 3) = 2 + u
        /\ 5 + (u - 4) = 1 + u /\ 5 + (u - 5) = u
    OBVIOUS
  <2>2. /\ Statement(R, u) = "cli" /\ Statement(R, u - 1) = "sda_hi"
        /\ Statement(R, u - 2) = "scl_hi" /\ Statement(R, u - 3) = "sample"
        /\ Statement(R, u - 4) = "scl_low" /\ Statement(R, u - 5) = "sei"
    BY <1>3
  <2> HIDE DEF u
  <2>3. /\ Statement(P, 5 + u) = "cli" /\ Statement(P, 4 + u) = "sda_hi"
        /\ Statement(P, 3 + u) = "scl_hi" /\ Statement(P, 2 + u) = "sample"
        /\ Statement(P, 1 + u) = "scl_low" /\ Statement(P, u) = "sei"
    BY <1>9, <2>1, <2>2, Zenon
  <2> QED
    BY <2>3 DEF u
<1>11. Reads(P, ack)
  BY <1>7, <1>8, <1>10, Zenon DEF Reads, a
<1> QED
  BY <1>5, <1>6, <1>11 DEF P

-----------------------------------------------------------------------------
(* What is true before each statement.  The slave is known by what it has   *)
(* seen of the frame, so the wires, the slave and the data sampled so far   *)
(* are a function of the place in the program, but for the answers of the   *)
(* slave and the SCL it may hold.                                           *)

\* A slave that holds SCL only where the driver looks at it again.
Gentle == StretchAt \subseteq {"slaveAck", "sendData"}

\* Well-formed transactions, and no reset in between.
Textbook == Callers = "textbook" /\ Resets = FALSE /\ Gentle

First(b, k) == [i \in 1 .. k |-> b[i]]

Idling == slave.role \in {"off", "recv"} /\ slave.n = 0 /\ slave.sda /\ slave.scl

\* Between two frames, between two transfers, and wherever a START may come.
Quiet == ~mScl /\ busy /\ clocks = 0 /\ Idling
Free == mSda /\ mScl /\ ~busy /\ clocks = 0 /\ Idling /\ slave.role = "off"
Ready == mSda /\ mScl /\ clocks = 0 /\ Idling

\* After the START condition, and before the STOP condition.
Begun ==
  /\ ~mSda /\ mScl /\ busy /\ clocks = -1
  /\ slave.role = "addr" /\ slave.n = -1 /\ slave.sda /\ slave.scl /\ slave.bits = <<>>
Ending == ~mSda /\ mScl /\ busy /\ clocks = 0 /\ Idling

\* Bit j of byte b: SCL low, SDA set, SCL high.
BitLow(b, role, j) ==
  /\ ~mScl /\ busy /\ clocks = j - 1 /\ data = <<>>
  /\ slave.role = role /\ slave.n = j - 1 /\ slave.sda /\ slave.scl
  /\ slave.bits = First(b, j - 1)
BitSet(b, role, j) == BitLow(b, role, j) /\ (mSda <=> b[j])
BitHigh(b, role, j) ==
  /\ mScl /\ busy /\ clocks = j - 1 /\ data = <<>> /\ (mSda <=> b[j])
  /\ slave.role = role /\ slave.n = j - 1 /\ slave.sda /\ slave.scl
  /\ slave.bits = First(b, j)

\* The acknowledgement: the slave that was addressed gives it, or nobody does.
Acking(b, role) ==
  \/ /\ slave.role = role /\ slave.n = Bits /\ ~slave.sda
     /\ slave.bits = b /\ slave.last = b
     /\ role = "addr" => Front(b) = Own
  \/ slave.role = "off" /\ slave.n = 0 /\ slave.sda /\ slave.scl
AckLow(b, role) == ~mScl /\ busy /\ clocks = Bits /\ data = <<>> /\ Acking(b, role)
AckHigh(b, role) == mScl /\ mSda /\ busy /\ clocks = Bits /\ data = <<>> /\ Acking(b, role)
AckRead(b, role) ==
  mScl /\ mSda /\ slave.scl /\ busy /\ clocks = Bits /\ data = <<slave.sda>> /\ Acking(b, role)

\* The slave sends its next byte, or waits for it.
Serving == slave.role = "send" /\ slave.n = 0 /\ slave.bits \in Bytes /\ (slave.sda <=> slave.bits[1])
Hearing == slave.role = "recv" /\ slave.n = 0 /\ slave.bits = <<>> /\ slave.sda /\ slave.scl
Gone == slave.role = "off" /\ slave.n = 0 /\ slave.sda /\ slave.scl

Answered(b, role) ==
  /\ ~mScl /\ mSda /\ busy /\ clocks = 0
  /\ \/ /\ data = <<FALSE>> /\ slave.last = b
        /\ role = "addr" => Front(b) = Own
        /\ (role = "addr" /\ Last(b)) => Serving
        /\ ~(role = "addr" /\ Last(b)) => Hearing
     \/ data = <<TRUE>> /\ Gone

\* m statements of start, or of the part of tx that is like it, are left.
SendPlace(b, role, m) ==
  \/ m = 3 * Bits + 8 /\ BitLow(b, role, 1)
  \/ \E j \in 1 .. Bits : \/ m = 7 + 3 * (Bits - j + 1) /\ BitLow(b, role, j)
                          \/ m = 6 + 3 * (Bits - j + 1) /\ BitSet(b, role, j)
                          \/ m = 5 + 3 * (Bits - j + 1) /\ BitHigh(b, role, j)
  \/ m \in 5 .. 7 /\ AckLow(b, role)
  \/ m = 4 /\ AckLow(b, role) /\ mSda
  \/ m = 3 /\ AckHigh(b, role)
  \/ m = 2 /\ AckRead(b, role)
  \/ m \in 0 .. 1 /\ Answered(b, role)

StartPlace(held, b, m) ==
  \/ /\ data = <<>>
     /\ \/ held /\ m \in {3 * Bits + 13, 3 * Bits + 14} /\ Quiet
        \/ held /\ m = 3 * Bits + 12 /\ Quiet /\ mSda
        \/ ~held /\ m = 3 * Bits + 12 /\ Ready
        \/ m = 3 * Bits + 11 /\ Ready
        \/ m = 3 * Bits + 10 /\ Begun
        \/ m = 3 * Bits + 9 /\ BitLow(b, "addr", 1)
  \/ hold /\ SendPlace(b, "addr", m)

StopPlace(n) ==
  \/ n \in 5 .. 7 /\ hold /\ Quiet
  \/ n = 4 /\ hold /\ Quiet /\ ~mSda
  \/ n = 3 /\ hold /\ Ending
  \/ n = 2 /\ Free
  \/ n \in 0 .. 1 /\ ~hold /\ Free

TxPlace(b, n) ==
  /\ hold
  /\ \/ n = 3 * Bits + 10 /\ BitLow(b, "recv", 1)
     \/ n >= 1 /\ SendPlace(b, "recv", n - 1)
     \/ n = 0 /\ Answered(b, "recv")

ClearPlace(held, n) ==
  \/ n >= 8 /\ StartPlace(held, StartByte, n - 7)
  \/ data = <<TRUE>> /\ StopPlace(n)

OpenPlace(n) ==
  \/ n = 3 * Bits + 22 /\ data = <<>> /\ (Ready \/ Quiet)
  \/ n = 3 * Bits + 21 /\ data = <<>> /\ (Ready \/ Quiet) /\ mSda
  \/ n = 3 * Bits + 20 /\ data = <<>> /\ Ready
  \/ ClearPlace(FALSE, n)

\* Bit j that the slave sends: SCL low, SCL let go, sampled.
ReadLow(j) ==
  /\ ~mScl /\ busy /\ clocks = j - 1
  /\ slave.role = "send" /\ slave.n = j - 1 /\ slave.bits \in Bytes
  /\ slave.sda <=> slave.bits[j]
  /\ slave.scl \/ j = 1
  /\ data = First(slave.bits, j - 1)
ReadHigh(j) ==
  /\ mScl /\ mSda /\ busy /\ clocks = j - 1
  /\ slave.role = "send" /\ slave.n = j - 1 /\ slave.bits \in Bytes
  /\ slave.sda <=> slave.bits[j]
  /\ slave.scl \/ j = 1
  /\ data = First(slave.bits, j - 1)
ReadDone(j) ==
  /\ mScl /\ mSda /\ busy /\ clocks = j - 1
  /\ slave.role = "send" /\ slave.n = j - 1 /\ slave.bits \in Bytes /\ slave.scl
  /\ data = First(slave.bits, j)

\* All bits are read, and the answer is given, and the slave has it.
ReadAll ==
  /\ ~mScl /\ busy /\ clocks = Bits
  /\ slave.role = "send" /\ slave.n = Bits /\ slave.sda /\ slave.scl
  /\ slave.bits \in Bytes /\ slave.last = slave.bits /\ data = slave.bits
Answering(ack) ==
  /\ mScl /\ busy /\ clocks = Bits /\ (mSda <=> ~ack) /\ (slave.heard <=> ack)
  /\ slave.role = "send" /\ slave.n = Bits /\ slave.sda /\ slave.scl
  /\ slave.bits \in Bytes /\ slave.last = slave.bits /\ data = slave.bits
Heard(ack) ==
  /\ ~mScl /\ busy /\ clocks = 0 /\ data = slave.last /\ data \in Bytes
  /\ ack => Serving
  /\ ~ack => Gone

RxPlace(ack, n) ==
  \/ n = 6 * Bits + 6 /\ ReadLow(1)
  \/ \E j \in 1 .. Bits :
       \/ n = 5 + 6 * (Bits - j + 1) /\ ReadLow(j)
       \/ n = 4 + 6 * (Bits - j + 1) /\ ReadLow(j)
       \/ n = 3 + 6 * (Bits - j + 1) /\ ReadLow(j) /\ mSda
       \/ n = 2 + 6 * (Bits - j + 1) /\ ReadHigh(j)
       \/ n = 1 + 6 * (Bits - j + 1) /\ ReadDone(j)
       \/ n = 6 * (Bits - j + 1) /\ IF j < Bits THEN ReadLow(j + 1) ELSE ReadAll
  \/ n = 5 /\ ReadAll
  \/ n = 4 /\ ReadAll /\ (mSda <=> ~ack)
  \/ n = 3 /\ Answering(ack)
  \/ n = 2 /\ Heard(ack)
  \/ n \in 0 .. 1 /\ Heard(ack) /\ mSda

\* The program of the running call, and where it is.
Program(held) ==
  CASE call.op = "start" -> MasterStart(held, call.byte)
    [] call.op = "tx" -> MasterTx(call.byte)
    [] call.op = "rx" -> MasterRx(call.ack)
    [] call.op = "stop" -> MasterStop
    [] call.op = "clear" -> BusClear(held)
    [] call.op = "open" -> Open
    [] OTHER -> <<>>

Place(held, n) ==
  \/ call.op = "none" /\ n = 0 /\ data = <<>> /\ ~hold /\ Free
  \/ call.op = "start" /\ call.byte \in Bytes /\ StartPlace(held, call.byte, n)
  \/ call.op = "tx" /\ call.byte \in Bytes /\ TxPlace(call.byte, n)
  \/ call.op = "rx" /\ call.ack \in BOOLEAN /\ hold /\ RxPlace(call.ack, n)
  \/ call.op = "stop" /\ data = <<>> /\ StopPlace(n)
  \/ call.op = "clear" /\ ClearPlace(held, n)
  \/ call.op = "open" /\ OpenPlace(n)

Running ==
  \E held \in BOOLEAN :
    /\ Len(prog) <= Len(Program(held))
    /\ prog = Suffix(Program(held), Len(prog))
    /\ Place(held, Len(prog))

\* The slave as a record, and the byte it sends.
SlaveIs == slave \in SlaveStates /\ (slave.role = "send" => slave.bits \in Bytes)

WiresAre == mSda \in BOOLEAN /\ mScl \in BOOLEAN /\ SlaveIs

-----------------------------------------------------------------------------
(* The wires *)

\* While SCL is low, or is made low once more, there is no edge.
LEMMA DriveLow ==
  ASSUME ~mScl, NEW x \in BOOLEAN, NEW y \in BOOLEAN, Drive(x, y), ~y \/ ~slave.scl
  PROVE  UNCHANGED <<slave, busy, clocks>>
<1>1. ~Scl /\ ~(y /\ slave.scl)
  BY DEF Scl
<1> QED
  BY <1>1, Zenon DEF Drive, Edge

\* SCL rises.
LEMMA DriveRise ==
  ASSUME SlaveIs, ~mScl, slave.scl, NEW x \in BOOLEAN, Drive(x, TRUE)
  PROVE  slave' = Sampled(slave, x /\ slave.sda) /\ UNCHANGED <<busy, clocks>>
<1>1. ~Scl /\ (TRUE /\ slave.scl)
  BY DEF Scl
<1>2. slave' = Sampled([slave EXCEPT !.scl = TRUE], x /\ slave.sda) /\ UNCHANGED <<busy, clocks>>
  BY <1>1, Zenon DEF Drive, Edge
<1>3. [slave EXCEPT !.scl = TRUE] = slave
  BY DEF SlaveIs, SlaveStates
<1> QED
  BY <1>2, <1>3, Zenon

\* SCL falls.
LEMMA DriveFall ==
  ASSUME mScl, slave.scl, NEW x \in BOOLEAN, Drive(x, FALSE)
  PROVE  slave' \in Fell(slave) /\ clocks' = (clocks + 1) % (Bits + 1) /\ busy' = busy
<1>1. Scl /\ ~(FALSE /\ slave.scl)
  BY DEF Scl
<1> QED
  BY <1>1, Zenon DEF Drive, Edge

\* SDA changes while SCL is high, or does not.
LEMMA DriveStart ==
  ASSUME mScl, slave.scl, mSda, slave.sda, Drive(FALSE, mScl)
  PROVE  slave' = Started(slave) /\ busy' = TRUE /\ clocks' = -1
<1>1. Scl /\ Sda /\ (mScl /\ slave.scl) /\ ~(FALSE /\ slave.sda)
  BY DEF Scl, Sda
<1> QED
  BY <1>1, Zenon DEF Drive, Edge

LEMMA DriveStop ==
  ASSUME mScl, slave.scl, ~mSda, slave.sda, Drive(TRUE, mScl)
  PROVE  slave' = Released(slave) /\ busy' = FALSE /\ clocks' = 0
<1>1. Scl /\ ~Sda /\ (mScl /\ slave.scl) /\ (TRUE /\ slave.sda)
  BY DEF Scl, Sda
<1> QED
  BY <1>1, Zenon DEF Drive, Edge

LEMMA DriveSame ==
  ASSUME WiresAre, mScl, slave.scl, NEW x \in BOOLEAN, x <=> mSda, Drive(x, TRUE)
  PROVE  UNCHANGED <<slave, busy, clocks>>
<1>1. Scl /\ (TRUE /\ slave.scl)
  BY DEF Scl
<1>2. Sda <=> (x /\ slave.sda)
  BY DEF Sda
<1>3. Scl = (TRUE /\ slave.scl)
  <2>1. slave.scl \in BOOLEAN /\ mScl \in BOOLEAN
    BY DEF WiresAre, SlaveIs, SlaveStates
  <2> QED
    BY <1>1, <2>1, Zenon DEF Scl
<1>4. Sda = (x /\ slave.sda)
  <2>1. slave.sda \in BOOLEAN /\ mSda \in BOOLEAN
    BY DEF WiresAre, SlaveIs, SlaveStates
  <2> QED
    BY <1>2, <2>1, Zenon DEF Sda
<1> QED
  BY <1>1, <1>2, <1>3, <1>4, Zenon DEF Drive, Edge

-----------------------------------------------------------------------------
(* The slave at an edge *)

\* What the slave's record keeps of its type when a field changes.
LEMMA SlaveRecords ==
  \A s \in SlaveStates, n \in -1 .. Bits, d \in BOOLEAN, b \in Seq(BOOLEAN) :
    /\ [s EXCEPT !.n = n] \in SlaveStates
    /\ [s EXCEPT !.last = b] \in SlaveStates
    /\ [s EXCEPT !.bits = b] \in SlaveStates
    /\ [s EXCEPT !.heard = d] \in SlaveStates
    /\ [s EXCEPT !.scl = d] \in SlaveStates
    /\ [s EXCEPT !.sda = d] \in SlaveStates
<1> SUFFICES ASSUME NEW s \in SlaveStates, NEW n \in -1 .. Bits, NEW d \in BOOLEAN,
                    NEW b \in Seq(BOOLEAN)
    PROVE  /\ [s EXCEPT !.n = n] \in SlaveStates
           /\ [s EXCEPT !.last = b] \in SlaveStates
           /\ [s EXCEPT !.bits = b] \in SlaveStates
           /\ [s EXCEPT !.heard = d] \in SlaveStates
           /\ [s EXCEPT !.scl = d] \in SlaveStates
           /\ [s EXCEPT !.sda = d] \in SlaveStates
  BY Zenon
<1>1. [s EXCEPT !.n = n] \in SlaveStates
  BY DEF SlaveStates
<1>2. [s EXCEPT !.last = b] \in SlaveStates
  BY DEF SlaveStates
<1>3. [s EXCEPT !.bits = b] \in SlaveStates
  BY DEF SlaveStates
<1>4. [s EXCEPT !.heard = d] \in SlaveStates
  BY DEF SlaveStates
<1>5. [s EXCEPT !.scl = d] \in SlaveStates
  BY DEF SlaveStates
<1>6. [s EXCEPT !.sda = d] \in SlaveStates
  BY DEF SlaveStates
<1> QED
  BY <1>1, <1>2, <1>3, <1>4, <1>5, <1>6

LEMMA StartedIs ==
  ASSUME SlaveIs, slave' = Started(slave)
  PROVE  /\ SlaveIs'
         /\ slave'.role = "addr" /\ slave'.n = -1 /\ slave'.sda /\ slave'.bits = <<>>
         /\ slave'.scl = slave.scl
<1>1. slave' = [slave EXCEPT !.role = "addr", !.n = -1, !.sda = TRUE, !.bits = <<>>]
  BY DEF Started
<1>2. -1 \in -1 .. Bits /\ <<>> \in Seq(BOOLEAN) /\ slave \in SlaveStates
  BY EmptySeq DEF SlaveIs
<1>3. slave' \in SlaveStates
  BY <1>1, <1>2 DEF SlaveStates
<1>4. /\ slave'.role = "addr" /\ slave'.n = -1 /\ slave'.bits = <<>>
      /\ slave'.scl = slave.scl
  BY <1>1, <1>2 DEF SlaveStates
<1>5. slave'.sda
  BY <1>1, <1>2 DEF SlaveStates
<1> QED
  BY <1>3, <1>4, <1>5 DEF SlaveIs

LEMMA ReleasedIs ==
  ASSUME SlaveIs, slave' = Released(slave)
  PROVE  /\ SlaveIs'
         /\ slave'.role = "off" /\ slave'.n = 0 /\ slave'.sda /\ slave'.bits = <<>>
         /\ slave'.scl = slave.scl /\ slave'.last = slave.last
<1>1. slave' = [slave EXCEPT !.role = "off", !.n = 0, !.sda = TRUE, !.bits = <<>>]
  BY DEF Released
<1>2. 0 \in -1 .. Bits /\ <<>> \in Seq(BOOLEAN) /\ slave \in SlaveStates
  BY EmptySeq DEF SlaveIs
<1>3. slave' \in SlaveStates
  BY <1>1, <1>2 DEF SlaveStates
<1>4. /\ slave'.role = "off" /\ slave'.n = 0 /\ slave'.bits = <<>>
      /\ slave'.scl = slave.scl /\ slave'.last = slave.last
  BY <1>1, <1>2 DEF SlaveStates
<1>5. slave'.sda
  BY <1>1, <1>2 DEF SlaveStates
<1> QED
  BY <1>3, <1>4, <1>5 DEF SlaveIs

\* It samples a bit if it receives, the answer if it has sent, and else nothing.
LEMMA SampledBit ==
  ASSUME SlaveIs, slave.role \in {"addr", "recv"}, slave.n < Bits, NEW x \in BOOLEAN,
         slave' = Sampled(slave, x)
  PROVE  /\ SlaveIs' /\ slave'.bits = Append(slave.bits, x)
         /\ slave'.role = slave.role /\ slave'.n = slave.n /\ slave'.sda = slave.sda
         /\ slave'.scl = slave.scl /\ slave'.last = slave.last
<1>1. slave' = [slave EXCEPT !.bits = Append(@, x)]
  BY Zenon DEF Sampled
<1>2. slave.bits \in Seq(BOOLEAN)
  BY DEF SlaveIs, SlaveStates
<1>3. Append(slave.bits, x) \in Seq(BOOLEAN)
  BY <1>2
<1> HIDE DEF SlaveIs
<1> QED
  BY <1>1, <1>3 DEF SlaveIs, SlaveStates

LEMMA SampledAnswer ==
  ASSUME SlaveIs, slave.role = "send", slave.n = Bits, NEW x \in BOOLEAN,
         slave' = Sampled(slave, x)
  PROVE  /\ SlaveIs' /\ (slave'.heard <=> ~x)
         /\ slave'.role = slave.role /\ slave'.n = slave.n /\ slave'.sda = slave.sda
         /\ slave'.scl = slave.scl /\ slave'.last = slave.last /\ slave'.bits = slave.bits
<1>1. slave' = [slave EXCEPT !.heard = ~x]
  BY Zenon DEF Sampled
<1>2. (~x) \in BOOLEAN
  BY Zenon
<1> QED
  BY <1>1, <1>2 DEF SlaveIs, SlaveStates

LEMMA Unsampled ==
  ASSUME NEW s, NEW x, ~(s.role \in {"addr", "recv"} /\ s.n < Bits),
         ~(s.role = "send" /\ s.n = Bits)
  PROVE  Sampled(s, x) = s
BY Zenon DEF Sampled

\* The states after a falling edge, but for the SCL that it may hold.
After(s) ==
  LET level == IF s.role = "send" THEN s.bits[s.n + 2] ELSE s.sda
  IN IF s.role = "off" THEN {s}
     ELSE CASE s.n < Bits - 1 -> {[s EXCEPT !.n = @ + 1, !.sda = level]}
            [] s.n = Bits - 1 -> AckSlot(s)
            [] OTHER -> NextByte(s)

LEMMA FellIs ==
  ASSUME NEW v \in Fell(slave)
  PROVE  \E u \in After(slave) :
           v = u \/ (v = [u EXCEPT !.scl = FALSE] /\ Slot(u) \in StretchAt)
<1>1. Fell(slave) = After(slave) \cup
                    {[t EXCEPT !.scl = FALSE] : t \in {u \in After(slave) : Slot(u) \in StretchAt}}
  BY Zenon DEF Fell, After
<1> QED
  BY <1>1, Zenon

\* The slots where SCL is not held.
LEMMA FellFree ==
  ASSUME Gentle, NEW u, After(slave) = {u},
         Slot(u) \notin {"slaveAck", "sendData"}, NEW v \in Fell(slave)
  PROVE  v = u
<1>1. PICK w \in After(slave) : v = w \/ Slot(w) \in StretchAt
  BY FellIs, Zenon
<1> QED
  BY <1>1, Zenon DEF Gentle

\* It is out of the transfer.
LEMMA FellOff ==
  ASSUME Gentle, slave.role = "off", slave' \in Fell(slave)
  PROVE  slave' = slave
<1>1. After(slave) = {slave}
  BY Zenon DEF After
<1>2. Slot(slave) = "none"
  BY DEF Slot
<1> QED
  BY <1>1, <1>2, FellFree

\* It has received a bit of a byte that goes on, or the START condition.
LEMMA FellBit ==
  ASSUME Gentle, SlaveIs, slave.role \in {"addr", "recv"}, slave.n < Bits - 1,
         slave.role = "recv" => slave.n >= 0, slave' \in Fell(slave)
  PROVE  /\ SlaveIs' /\ slave'.n = slave.n + 1
         /\ slave'.role = slave.role /\ slave'.sda = slave.sda
         /\ slave'.scl = slave.scl /\ slave'.last = slave.last /\ slave'.bits = slave.bits
<1> DEFINE u == [slave EXCEPT !.n = @ + 1, !.sda = slave.sda]
<1>1. After(slave) = {u}
  <2>1. slave.role # "off" /\ slave.role # "send"
    OBVIOUS
  <2>2. After(slave) = CASE slave.n < Bits - 1 -> {u}
                         [] slave.n = Bits - 1 -> AckSlot(slave)
                         [] OTHER -> NextByte(slave)
    BY <2>1, Zenon DEF After
  <2> HIDE DEF u
  <2> QED
    BY <2>2
<1>2. slave.n \in -1 .. Bits /\ slave.n + 1 \in -1 .. Bits
  BY DEF SlaveIs, SlaveStates
<1>3. u.role = slave.role /\ u.n = slave.n + 1
  BY DEF SlaveIs, SlaveStates
<1>4. Slot(u) = "none"
  BY <1>2, <1>3 DEF Slot
<1>5. slave' = u
  BY <1>1, <1>4, FellFree
<1> QED
  BY <1>2, <1>5 DEF SlaveIs, SlaveStates

\* It has sent a bit of a byte that goes on.
LEMMA FellRead ==
  ASSUME Gentle, SlaveIs, slave.role = "send", slave.n < Bits - 1, slave.n >= 0,
         slave' \in Fell(slave)
  PROVE  /\ SlaveIs' /\ slave'.n = slave.n + 1 /\ slave'.sda = slave.bits[slave.n + 2]
         /\ slave'.role = "send"
         /\ slave'.scl = slave.scl /\ slave'.last = slave.last /\ slave'.bits = slave.bits
<1> DEFINE u == [slave EXCEPT !.n = @ + 1, !.sda = slave.bits[slave.n + 2]]
<1>1. After(slave) = {u}
  <2>1. slave.role # "off"
    OBVIOUS
  <2>2. After(slave) = CASE slave.n < Bits - 1 -> {u}
                         [] slave.n = Bits - 1 -> AckSlot(slave)
                         [] OTHER -> NextByte(slave)
    BY <2>1, Zenon DEF After
  <2> HIDE DEF u
  <2> QED
    BY <2>2
<1>2. slave.n \in -1 .. Bits /\ slave.n + 1 \in -1 .. Bits /\ slave.n + 2 \in 1 .. Bits
  BY DEF SlaveIs, SlaveStates
<1>3. slave.bits[slave.n + 2] \in BOOLEAN
  BY <1>2 DEF SlaveIs
<1>4. u.role = slave.role /\ u.n = slave.n + 1
  BY DEF SlaveIs, SlaveStates
<1>5. Slot(u) = "none"
  BY <1>2, <1>4 DEF Slot
<1>6. slave' = u
  BY <1>1, <1>5, FellFree
<1> QED
  BY <1>2, <1>3, <1>6 DEF SlaveIs, SlaveStates

\* It has received a byte: it acknowledges, perhaps late, or is out.
LEMMA FellAck ==
  ASSUME Gentle, SlaveIs, slave.role \in {"addr", "recv"}, slave.n = Bits - 1,
         slave' \in Fell(slave)
  PROVE  /\ SlaveIs'
         /\ \/ /\ slave'.role = slave.role /\ slave'.n = Bits /\ ~slave'.sda
               /\ slave'.bits = slave.bits /\ slave'.last = slave.bits
               /\ slave.role = "addr" => Front(slave.bits) = Own
            \/ /\ slave'.role = "off" /\ slave'.n = 0 /\ slave'.sda
               /\ slave'.scl = slave.scl
<1> DEFINE t == [slave EXCEPT !.n = Bits, !.last = slave.bits]
           u == [t EXCEPT !.sda = FALSE]
<1>0. /\ t \in SlaveStates /\ t.role = slave.role /\ t.n = Bits
      /\ t.bits = slave.bits /\ t.last = slave.bits
  <2>1. t \in SlaveStates
    <3>1. Bits \in -1 .. Bits /\ slave.bits \in Seq(BOOLEAN)
      BY DEF SlaveIs, SlaveStates
    <3> QED
      BY <3>1 DEF SlaveIs, SlaveStates
  <2>2. /\ t.role = slave.role /\ t.n = Bits
        /\ t.bits = slave.bits /\ t.last = slave.bits
    BY DEF SlaveIs, SlaveStates
  <2> QED
    BY <2>1, <2>2
<1>1. After(slave) = AckSlot(slave)
  BY DEF After
<1>2. \A w \in AckSlot(slave) :
        \/ w = Released(slave)
        \/ w = u /\ (slave.role = "recv" \/ Front(slave.bits) = Own)
  BY DEF AckSlot
<1>3. PICK w \in AckSlot(slave) :
        slave' = w \/ (slave' = [w EXCEPT !.scl = FALSE] /\ Slot(w) \in StretchAt)
  BY <1>1, FellIs, Zenon
<1>4. CASE w = Released(slave)
  <2>1. w.role = "off"
    BY <1>4 DEF Released, SlaveIs, SlaveStates
  <2>2. Slot(w) = "none"
    BY <2>1 DEF Slot
  <2>3. slave' = Released(slave)
    BY <1>3, <1>4, <2>2 DEF Gentle
  <2> QED
    BY <2>3, ReleasedIs
<1>5. CASE w = u /\ (slave.role = "recv" \/ Front(slave.bits) = Own)
  <2> HIDE DEF t
  <2>1. /\ u \in SlaveStates /\ u.role = slave.role /\ u.n = Bits /\ ~u.sda
        /\ u.bits = slave.bits /\ u.last = slave.bits
    <3>1. u \in SlaveStates
      BY <1>0 DEF SlaveStates
    <3>2. /\ u.role = slave.role /\ u.n = Bits
          /\ u.bits = slave.bits /\ u.last = slave.bits
      BY <1>0 DEF SlaveStates
    <3>3. ~u.sda
      BY <1>0 DEF SlaveStates
    <3> QED
      BY <3>1, <3>2, <3>3
  <2>2. /\ [u EXCEPT !.scl = FALSE] \in SlaveStates /\ [u EXCEPT !.scl = FALSE].role = u.role
        /\ [u EXCEPT !.scl = FALSE].n = u.n /\ [u EXCEPT !.scl = FALSE].sda = u.sda
        /\ [u EXCEPT !.scl = FALSE].bits = u.bits /\ [u EXCEPT !.scl = FALSE].last = u.last
    BY <2>1 DEF SlaveStates
  <2> HIDE DEF u
  <2>3. slave' = u \/ slave' = [u EXCEPT !.scl = FALSE]
    BY <1>3, <1>5, Zenon
  <2>4. slave.role # "send"
    OBVIOUS
  <2> QED
    BY <1>5, <2>1, <2>2, <2>3, <2>4 DEF SlaveIs
<1> QED
  BY <1>2, <1>4, <1>5

\* It has sent a byte.
LEMMA FellLast ==
  ASSUME Gentle, SlaveIs, slave.role = "send", slave.n = Bits - 1, slave' \in Fell(slave)
  PROVE  /\ SlaveIs' /\ slave'.role = "send" /\ slave'.n = Bits /\ slave'.sda
         /\ slave'.scl = slave.scl /\ slave'.last = slave.bits /\ slave'.bits = slave.bits
<1> DEFINE t == [slave EXCEPT !.n = Bits, !.last = slave.bits]
           u == [t EXCEPT !.sda = TRUE]
<1>1. After(slave) = {u}
  BY DEF After, AckSlot
<1>2. /\ u \in SlaveStates /\ u.role = "send" /\ u.n = Bits /\ u.sda /\ u.scl = slave.scl
      /\ u.bits = slave.bits /\ u.last = slave.bits
  <2>1. t \in SlaveStates
    <3>1. Bits \in -1 .. Bits /\ slave.bits \in Seq(BOOLEAN)
      BY DEF SlaveIs, SlaveStates
    <3> QED
      BY <3>1 DEF SlaveIs, SlaveStates
  <2>2. /\ t.role = "send" /\ t.n = Bits /\ t.scl = slave.scl
        /\ t.bits = slave.bits /\ t.last = slave.bits
    BY DEF SlaveIs, SlaveStates
  <2> HIDE DEF t
  <2>3. u \in SlaveStates
    BY <2>1 DEF SlaveStates
  <2>4. /\ u.role = "send" /\ u.n = Bits /\ u.scl = slave.scl
        /\ u.bits = slave.bits /\ u.last = slave.bits
    BY <2>1, <2>2 DEF SlaveStates
  <2>5. u.sda
    BY <2>1 DEF SlaveStates
  <2> QED
    BY <2>3, <2>4, <2>5
<1> HIDE DEF u
<1>3. Slot(u) = "masterAck"
  BY <1>2 DEF Slot
<1>4. slave' = u
  BY <1>1, <1>3, FellFree
<1> QED
  BY <1>2, <1>4 DEF SlaveIs

\* The frame is over: the slave sends, or receives, or is out.
LEMMA FellServing ==
  ASSUME Gentle, SlaveIs, slave.n = Bits, slave' \in Fell(slave),
         (slave.role = "send" /\ slave.heard) \/ (slave.role = "addr" /\ Last(slave.bits))
  PROVE  SlaveIs' /\ Serving' /\ slave'.last = slave.last
<1> DEFINE u(b) == [slave EXCEPT !.role = "send", !.n = 0, !.bits = b, !.sda = b[1]]
<1>1. After(slave) = NextByte(slave)
  BY DEF After
<1>2. NextByte(slave) = {u(b) : b \in Bytes}
  BY DEF NextByte
<1>3. ASSUME NEW b \in Bytes
      PROVE  /\ u(b) \in SlaveStates /\ u(b).role = "send" /\ u(b).n = 0
             /\ u(b).bits = b /\ u(b).sda = b[1] /\ u(b).last = slave.last
  <2>1. b[1] \in BOOLEAN /\ 0 \in -1 .. Bits
    OBVIOUS
  <2>2. b \in Seq(BOOLEAN)
    BY SeqDef
  <2>3. u(b) \in SlaveStates
    BY <2>1, <2>2 DEF SlaveIs, SlaveStates
  <2>4. u(b).role = "send" /\ u(b).n = 0 /\ u(b).bits = b /\ u(b).last = slave.last
    BY <2>1, <2>2 DEF SlaveIs, SlaveStates
  <2>5. u(b).sda = b[1]
    BY <2>1, <2>2 DEF SlaveIs, SlaveStates
  <2> QED
    BY <2>3, <2>4, <2>5
<1> HIDE DEF u
<1>4. PICK b \in Bytes : slave' = u(b) \/ slave' = [u(b) EXCEPT !.scl = FALSE]
  <2>1. PICK w \in NextByte(slave) : slave' = w \/ slave' = [w EXCEPT !.scl = FALSE]
    BY <1>1, FellIs, Zenon
  <2>2. PICK b \in Bytes : w = u(b)
    BY <1>2, <2>1
  <2> QED
    BY <2>1, <2>2, Zenon
<1>5. /\ slave' \in SlaveStates /\ slave'.role = "send" /\ slave'.n = 0
      /\ slave'.bits = b /\ slave'.sda = b[1] /\ slave'.last = slave.last
  <2>1. CASE slave' = u(b)
    BY <1>3, <2>1
  <2>2. CASE slave' = [u(b) EXCEPT !.scl = FALSE]
    <3> DEFINE w == u(b)
    <3>1. /\ w \in SlaveStates /\ w.role = "send" /\ w.n = 0
          /\ w.bits = b /\ w.sda = b[1] /\ w.last = slave.last
      BY <1>3
    <3>2. slave' = [w EXCEPT !.scl = FALSE]
      BY <2>2
    <3> HIDE DEF w
    <3>3. slave' \in SlaveStates
      BY <3>1, <3>2 DEF SlaveStates
    <3>4. slave'.role = w.role /\ slave'.n = w.n /\ slave'.bits = w.bits /\ slave'.last = w.last
      BY <3>1, <3>2 DEF SlaveStates
    <3>5. slave'.sda = w.sda
      BY <3>1, <3>2 DEF SlaveStates
    <3> QED
      BY <3>1, <3>3, <3>4, <3>5
  <2> QED
    BY <1>4, <2>1, <2>2
<1> QED
  BY <1>5 DEF SlaveIs, Serving

LEMMA FellHearing ==
  ASSUME Gentle, SlaveIs, slave.n = Bits, slave' \in Fell(slave), slave.scl,
         slave.role = "recv" \/ (slave.role = "addr" /\ ~Last(slave.bits))
  PROVE  SlaveIs' /\ Hearing' /\ slave'.last = slave.last
<1> DEFINE u == [slave EXCEPT !.role = "recv", !.n = 0, !.bits = <<>>, !.sda = TRUE]
<1>1. After(slave) = {u}
  <2>1. After(slave) = NextByte(slave)
    BY DEF After
  <2>2. slave.role # "send" /\ ~(slave.role = "addr" /\ Last(slave.bits))
    OBVIOUS
  <2>3. NextByte(slave) = {u}
    BY <2>2, Zenon DEF NextByte
  <2> QED
    BY <2>1, <2>3
<1>2. /\ u \in SlaveStates /\ u.role = "recv" /\ u.n = 0 /\ u.sda /\ u.scl = slave.scl
      /\ u.bits = <<>> /\ u.last = slave.last
  <2>1. <<>> \in Seq(BOOLEAN) /\ 0 \in -1 .. Bits
    BY EmptySeq
  <2> QED
    BY <2>1 DEF SlaveIs, SlaveStates
<1> HIDE DEF u
<1>3. Slot(u) = "recvData"
  BY <1>2 DEF Slot
<1>4. slave' = u
  BY <1>1, <1>3, FellFree
<1> QED
  BY <1>2, <1>4 DEF SlaveIs, Hearing

LEMMA FellGone ==
  ASSUME Gentle, SlaveIs, slave.n = Bits, slave' \in Fell(slave), slave.scl,
         slave.role = "send" /\ ~slave.heard
  PROVE  SlaveIs' /\ Gone' /\ slave'.last = slave.last
<1>1. After(slave) = {Released(slave)}
  BY DEF After, NextByte
<1>2. Slot(Released(slave)) = "none"
  <2>1. Released(slave).role = "off"
    BY DEF Released, SlaveIs, SlaveStates
  <2> QED
    BY <2>1 DEF Slot
<1>3. slave' = Released(slave)
  BY <1>1, <1>2, FellFree
<1> QED
  BY <1>3, ReleasedIs DEF Gone

-----------------------------------------------------------------------------
(* What a step leaves alone *)

\* The wires and the data stay, but the slave may let SCL go.
Kept ==
  /\ UNCHANGED <<mSda, mScl, data, busy, clocks>>
  /\ slave'.role = slave.role /\ slave'.n = slave.n /\ slave'.sda = slave.sda
  /\ slave'.bits = slave.bits /\ slave'.last = slave.last /\ slave'.heard = slave.heard
  /\ slave.scl => slave'.scl

LEMMA KeptWires ==
  ASSUME UNCHANGED <<wires, data>>
  PROVE  Kept
BY Zenon DEF wires, Kept

LEMMA KeptQuiet ==
  ASSUME Kept
  PROVE  /\ Quiet => Quiet' /\ (mSda => mSda') /\ (~mSda => ~mSda')
         /\ Free => Free'
         /\ Ready => Ready'
         /\ Begun => Begun'
         /\ Ending => Ending'
BY Zenon DEF Kept, Quiet, Free, Ready, Begun, Ending, Idling

LEMMA KeptBits ==
  ASSUME Kept
  PROVE  \A b, role, j : /\ BitLow(b, role, j) => BitLow(b, role, j)'
                         /\ BitSet(b, role, j) => BitSet(b, role, j)'
                         /\ BitHigh(b, role, j) => BitHigh(b, role, j)'
BY ZenonT(60) DEF Kept, BitLow, BitSet, BitHigh

LEMMA KeptAcks ==
  ASSUME Kept
  PROVE  \A b, role : /\ AckLow(b, role) => AckLow(b, role)'
                      /\ AckHigh(b, role) => AckHigh(b, role)'
                      /\ AckRead(b, role) => AckRead(b, role)'
                      /\ Answered(b, role) => Answered(b, role)'
<1>1. (Serving => Serving') /\ (Hearing => Hearing') /\ (Gone => Gone')
  BY Zenon DEF Kept, Serving, Hearing, Gone
<1>2. \A b, role : Acking(b, role) => Acking(b, role)'
  BY Zenon DEF Kept, Acking
<1>3. ASSUME NEW b, NEW role, Answered(b, role)
      PROVE  Answered(b, role)'
  <2>1. /\ UNCHANGED <<mSda, mScl, data, busy, clocks>> /\ slave'.last = slave.last
        /\ ~mScl /\ mSda /\ busy /\ clocks = 0
    BY <1>3, Zenon DEF Kept, Answered
  <2>2. CASE /\ data = <<FALSE>> /\ slave.last = b
             /\ role = "addr" => Front(b) = Own
             /\ role = "addr" /\ Last(b) /\ Serving
    BY <1>1, <2>1, <2>2, Zenon DEF Answered
  <2>3. CASE /\ data = <<FALSE>> /\ slave.last = b
             /\ role = "addr" => Front(b) = Own
             /\ ~(role = "addr" /\ Last(b)) /\ Hearing
    BY <1>1, <2>1, <2>3, Zenon DEF Answered
  <2>4. CASE data = <<TRUE>> /\ Gone
    BY <1>1, <2>1, <2>4, Zenon DEF Answered
  <2> QED
    BY <1>3, <2>2, <2>3, <2>4, Zenon DEF Answered
<1> QED
  BY <1>2, <1>3, Zenon DEF Kept, AckLow, AckHigh, AckRead

LEMMA KeptReads ==
  ASSUME Kept
  PROVE  /\ \A j : /\ ReadLow(j) => ReadLow(j)'
                   /\ ReadHigh(j) => ReadHigh(j)'
                   /\ ReadDone(j) => ReadDone(j)'
         /\ ReadAll => ReadAll'
         /\ \A ack : /\ Answering(ack) => Answering(ack)'
                     /\ Heard(ack) => Heard(ack)'
<1>1. (Serving => Serving') /\ (Gone => Gone')
  BY Zenon DEF Kept, Serving, Gone
<1>2. \A j : /\ ReadLow(j) => ReadLow(j)'
             /\ ReadHigh(j) => ReadHigh(j)'
             /\ ReadDone(j) => ReadDone(j)'
  BY Zenon DEF Kept, ReadLow, ReadHigh, ReadDone
<1>3. ReadAll => ReadAll'
  BY Zenon DEF Kept, ReadAll
<1>4. \A ack : Answering(ack) => Answering(ack)'
  BY Zenon DEF Kept, Answering
<1>5. ASSUME NEW ack, Heard(ack)
      PROVE  Heard(ack)'
  <2>1. /\ UNCHANGED <<mScl, data, busy, clocks>> /\ slave'.last = slave.last
        /\ ~mScl /\ busy /\ clocks = 0 /\ data = slave.last /\ data \in Bytes
    BY <1>5, Zenon DEF Kept, Heard
  <2>2. CASE ack /\ Serving
    BY <1>1, <2>1, <2>2, Zenon DEF Heard
  <2>3. CASE ~ack /\ Gone
    BY <1>1, <2>1, <2>3, Zenon DEF Heard
  <2> QED
    BY <1>5, <2>2, <2>3, Zenon DEF Heard
<1> QED
  BY <1>2, <1>3, <1>4, <1>5, Zenon

-----------------------------------------------------------------------------
(* From one place to the next *)

\* The first bits of a byte.
LEMMA FirstIs ==
  ASSUME NEW b \in AllBits
  PROVE  /\ b \in Seq(BOOLEAN) /\ Len(b) = Bits
         /\ First(b, 0) = <<>> /\ First(b, Bits) = b
         /\ \A j \in 0 .. Bits : First(b, j) \in Seq(BOOLEAN) /\ Len(First(b, j)) = j
         /\ \A j \in 1 .. Bits : First(b, j) = Append(First(b, j - 1), b[j])
<1>1. b \in Seq(BOOLEAN) /\ Len(b) = Bits
  <2>1. b \in Seq(BOOLEAN)
    BY SeqDef DEF AllBits
  <2> QED
    BY <2>1, LenProperties DEF AllBits
<1>2. ASSUME NEW j \in 0 .. Bits
      PROVE  First(b, j) \in Seq(BOOLEAN) /\ Len(First(b, j)) = j
  <2>1. First(b, j) \in [1 .. j -> BOOLEAN]
    BY DEF First, AllBits
  <2>2. First(b, j) \in Seq(BOOLEAN)
    BY <2>1, SeqDef
  <2> QED
    BY <2>1, <2>2, LenProperties
<1>3. First(b, 0) = <<>>
  BY <1>2, EmptySeq
<1>4. First(b, Bits) = b
  BY DEF First, AllBits
<1>5. ASSUME NEW j \in 1 .. Bits
      PROVE  First(b, j) = Append(First(b, j - 1), b[j])
  <2>1. /\ First(b, j - 1) \in Seq(BOOLEAN) /\ Len(First(b, j - 1)) = j - 1
        /\ First(b, j) \in Seq(BOOLEAN) /\ Len(First(b, j)) = j
    BY <1>2
  <2>2. b[j] \in BOOLEAN
    BY DEF AllBits
  <2> DEFINE A == Append(First(b, j - 1), b[j])
  <2>3. /\ A \in Seq(BOOLEAN) /\ Len(A) = j /\ A[j] = b[j]
        /\ \A i \in 1 .. j - 1 : A[i] = First(b, j - 1)[i]
    <3>1. /\ A \in Seq(BOOLEAN) /\ Len(A) = (j - 1) + 1
          /\ A[(j - 1) + 1] = b[j]
          /\ \A i \in 1 .. (j - 1) : A[i] = First(b, j - 1)[i]
      BY <2>1, <2>2, AppendProperties
    <3>2. (j - 1) + 1 = j
      OBVIOUS
    <3> QED
      BY <3>1, <3>2, Zenon
  <2> HIDE DEF A
  <2>4. \A i \in 1 .. j : A[i] = First(b, j)[i]
    <3>1. \A i \in 1 .. j : i = j \/ i \in 1 .. j - 1
      OBVIOUS
    <3>2. /\ \A i \in 1 .. j : First(b, j)[i] = b[i]
          /\ \A i \in 1 .. j - 1 : First(b, j - 1)[i] = b[i]
      BY DEF First
    <3>3. j \in 1 .. j
      OBVIOUS
    <3> QED
      BY <2>3, <3>1, <3>2, <3>3, ZenonT(60)
  <2> QED
    BY <2>1, <2>3, <2>4, SeqEqual DEF A
<1> QED
  BY <1>1, <1>2, <1>3, <1>4, <1>5

\* A bit of the byte that the master sends.
LEMMA BitLowSets ==
  ASSUME NEW b \in AllBits, NEW role, NEW j \in 1 .. Bits, BitLow(b, role, j),
         NEW x \in BOOLEAN, x <=> b[j], Drive(x, mScl), data' = data, WiresAre
  PROVE  BitSet(b, role, j)'
<1>1. mScl \in BOOLEAN /\ ~mScl
  BY DEF WiresAre, BitLow
<1>2. UNCHANGED <<slave, busy, clocks>>
  BY <1>1, DriveLow
<1>3. mSda' = x /\ mScl' = mScl
  BY DEF Drive
<1> QED
  BY <1>2, <1>3, Zenon DEF BitSet, BitLow

LEMMA BitSetRises ==
  ASSUME NEW b \in AllBits, NEW role \in {"addr", "recv"}, NEW j \in 1 .. Bits,
         BitSet(b, role, j), Drive(mSda, TRUE), data' = data, WiresAre
  PROVE  BitHigh(b, role, j)'
<1>1. ~mScl /\ slave.scl /\ slave.sda /\ mSda \in BOOLEAN /\ SlaveIs
  BY DEF WiresAre, BitSet, BitLow
<1>2. slave' = Sampled(slave, mSda /\ slave.sda) /\ UNCHANGED <<busy, clocks>>
  BY <1>1, DriveRise
<1>3. (mSda /\ slave.sda) = b[j] /\ (mSda /\ slave.sda) \in BOOLEAN
  <2>1. b[j] \in BOOLEAN
    BY DEF AllBits
  <2>2. mSda <=> b[j]
    BY DEF BitSet
  <2> QED
    BY <1>1, <2>1, <2>2, Zenon
<1>4. slave' = Sampled(slave, b[j]) /\ b[j] \in BOOLEAN
  BY <1>2, <1>3, Zenon
<1>5. slave.role \in {"addr", "recv"} /\ slave.n < Bits
  BY DEF BitSet, BitLow
<1>6. /\ slave'.bits = Append(slave.bits, b[j])
      /\ slave'.role = slave.role /\ slave'.n = slave.n /\ slave'.sda = slave.sda
      /\ slave'.scl = slave.scl
  BY <1>1, <1>4, <1>5, SampledBit
<1>7. slave'.bits = First(b, j)
  BY <1>6, FirstIs DEF BitSet, BitLow
<1>8. mSda' = mSda /\ mScl'
  BY Zenon DEF Drive
<1> QED
  BY <1>2, <1>6, <1>7, <1>8, Zenon DEF BitSet, BitLow, BitHigh

LEMMA BitHighFalls ==
  ASSUME Gentle, NEW b \in AllBits, NEW role \in {"addr", "recv"}, NEW j \in 1 .. Bits,
         BitHigh(b, role, j), Drive(mSda, FALSE), data' = data, WiresAre
  PROVE  IF j < Bits THEN BitLow(b, role, j + 1)' ELSE AckLow(b, role)'
<1>1. mScl /\ slave.scl /\ mSda \in BOOLEAN /\ SlaveIs
  BY DEF WiresAre, BitHigh
<1>2. slave' \in Fell(slave) /\ clocks' = (clocks + 1) % (Bits + 1) /\ busy' = busy
  BY <1>1, DriveFall
<1>3. ~mScl' /\ mSda' = mSda
  BY Zenon DEF Drive
<1>4. /\ clocks = j - 1 /\ slave.n = j - 1 /\ slave.role = role /\ slave.bits = First(b, j)
      /\ busy /\ data = <<>> /\ slave.sda /\ slave.role \in {"addr", "recv"}
  BY DEF BitHigh
<1>5. clocks' = j
  <2>1. clocks + 1 = j /\ j % (Bits + 1) = j
    BY <1>4
  <2> QED
    BY <1>2, <2>1
<1>6. CASE j < Bits
  <2>1. slave.n < Bits - 1 /\ slave.n >= 0
    BY <1>4, <1>6
  <2>2. /\ slave'.n = slave.n + 1 /\ slave'.role = slave.role /\ slave'.sda = slave.sda
        /\ slave'.scl = slave.scl /\ slave'.bits = slave.bits
    BY <1>1, <1>2, <1>4, <2>1, FellBit
  <2>3. slave.n + 1 = (j + 1) - 1 /\ j = (j + 1) - 1
    BY <1>4
  <2>4. BitLow(b, role, j + 1)'
    BY <1>1, <1>2, <1>3, <1>4, <1>5, <2>2, <2>3, Zenon DEF BitLow
  <2> QED
    BY <1>6, <2>4
<1>7. CASE j = Bits
  <2>1. slave.n = Bits - 1 /\ slave.bits = b
    BY <1>4, <1>7, FirstIs
  <2>2. \/ /\ slave'.role = slave.role /\ slave'.n = Bits /\ ~slave'.sda
           /\ slave'.bits = slave.bits /\ slave'.last = slave.bits
           /\ slave.role = "addr" => Front(slave.bits) = Own
        \/ /\ slave'.role = "off" /\ slave'.n = 0 /\ slave'.sda
           /\ slave'.scl = slave.scl
    BY <1>1, <1>2, <1>4, <2>1, FellAck
  <2>3. Acking(b, role)'
    BY <1>1, <1>4, <2>1, <2>2, Zenon DEF Acking
  <2>4. clocks' = Bits
    BY <1>5, <1>7
  <2>5. AckLow(b, role)'
    BY <1>2, <1>3, <1>4, <2>3, <2>4, Zenon DEF AckLow
  <2> QED
    BY <1>7, <2>5
<1> QED
  BY <1>6, <1>7

\* The acknowledgement.
LEMMA AckLowReleases ==
  ASSUME NEW b \in AllBits, NEW role, AckLow(b, role), Drive(TRUE, mScl), data' = data, WiresAre
  PROVE  AckLow(b, role)' /\ mSda'
<1>1. mScl \in BOOLEAN /\ ~mScl
  BY DEF WiresAre, AckLow
<1>2. UNCHANGED <<slave, busy, clocks>>
  BY <1>1, DriveLow
<1>3. mSda' = TRUE /\ mScl' = mScl
  BY Zenon DEF Drive
<1> QED
  BY <1>2, <1>3, Zenon DEF AckLow, Acking

LEMMA AckLowRises ==
  ASSUME NEW b \in AllBits, NEW role \in {"addr", "recv"}, AckLow(b, role), mSda,
         Drive(mSda, TRUE), data' = data, WiresAre
  PROVE  AckHigh(b, role)'
<1>1. ~mScl /\ SlaveIs /\ mSda \in BOOLEAN
  BY DEF WiresAre, AckLow
<1>2. UNCHANGED <<slave, busy, clocks>>
  <2>1. CASE slave.scl
    <3>1. slave' = Sampled(slave, mSda /\ slave.sda) /\ UNCHANGED <<busy, clocks>>
      BY <1>1, <2>1, DriveRise
    <3>2. /\ ~(slave.role \in {"addr", "recv"} /\ slave.n < Bits)
          /\ ~(slave.role = "send" /\ slave.n = Bits)
      BY DEF AckLow, Acking
    <3>3. Sampled(slave, mSda /\ slave.sda) = slave
      BY <3>2, Unsampled
    <3> QED
      BY <3>1, <3>3
  <2>2. CASE ~slave.scl
    BY <1>1, <2>2, DriveLow
  <2> QED
    BY <2>1, <2>2
<1>3. mSda' = mSda /\ mScl' = TRUE
  BY Zenon DEF Drive
<1> QED
  BY <1>2, <1>3, Zenon DEF AckLow, AckHigh, Acking

LEMMA AckHighSampled ==
  ASSUME NEW b \in AllBits, NEW role, AckHigh(b, role), Scl, data' = Append(data, Sda),
         UNCHANGED wires, WiresAre
  PROVE  AckRead(b, role)'
<1>1. slave.scl /\ mSda /\ slave.sda \in BOOLEAN /\ mSda \in BOOLEAN
  BY DEF Scl, AckHigh, WiresAre, SlaveIs, SlaveStates
<1>2. Sda = slave.sda
  BY <1>1, Zenon DEF Sda
<1>3. data' = <<slave.sda>>
  <2>1. data = <<>>
    BY DEF AckHigh
  <2>2. Append(<<>>, slave.sda) = <<slave.sda>>
    BY <1>1
  <2> QED
    BY <1>2, <2>1, <2>2
<1> QED
  BY <1>1, <1>3, Zenon DEF wires, AckHigh, AckRead, Acking

LEMMA AckReadFalls ==
  ASSUME Gentle, NEW b \in AllBits, NEW role \in {"addr", "recv"}, AckRead(b, role),
         Drive(mSda, FALSE), data' = data, WiresAre
  PROVE  Answered(b, role)'
<1>1. /\ mScl /\ mSda /\ slave.scl /\ busy /\ clocks = Bits /\ data = <<slave.sda>>
      /\ mSda \in BOOLEAN /\ SlaveIs /\ slave.sda \in BOOLEAN
  BY DEF WiresAre, AckRead, SlaveIs, SlaveStates
<1>2. slave' \in Fell(slave) /\ clocks' = (clocks + 1) % (Bits + 1) /\ busy' = busy
  BY <1>1, DriveFall
<1>3. mScl' = FALSE /\ mSda' = mSda
  BY Zenon DEF Drive
<1>4. clocks' = 0
  <2>1. (Bits + 1) % (Bits + 1) = 0
    OBVIOUS
  <2> QED
    BY <1>1, <1>2, <2>1
<1>5. CASE /\ slave.role = role /\ slave.n = Bits /\ ~slave.sda
           /\ slave.bits = b /\ slave.last = b
           /\ role = "addr" => Front(b) = Own
  <2>1. data' = <<FALSE>>
    <3>1. slave.sda = FALSE
      BY <1>1, <1>5, Zenon
    <3> QED
      BY <1>1, <3>1
  <2>2. CASE role = "addr" /\ Last(b)
    <3>1. Serving' /\ slave'.last = slave.last
      BY <1>1, <1>2, <1>5, <2>2, FellServing
    <3> QED
      BY <1>1, <1>2, <1>3, <1>4, <1>5, <2>1, <2>2, <3>1, Zenon DEF Answered
  <2>3. CASE ~(role = "addr" /\ Last(b))
    <3>1. slave.role = "recv" \/ (slave.role = "addr" /\ ~Last(slave.bits))
      BY <1>5, <2>3
    <3>2. Hearing' /\ slave'.last = slave.last
      BY <1>1, <1>2, <1>5, <3>1, FellHearing
    <3> QED
      BY <1>1, <1>2, <1>3, <1>4, <1>5, <2>1, <2>3, <3>2, Zenon DEF Answered
  <2> QED
    BY <2>2, <2>3
<1>6. CASE slave.role = "off" /\ slave.n = 0 /\ slave.sda /\ slave.scl
  <2>1. slave' = slave
    BY <1>2, <1>6, FellOff
  <2>2. data' = <<TRUE>>
    <3>1. slave.sda = TRUE
      BY <1>1, <1>6, Zenon
    <3> QED
      BY <1>1, <3>1
  <2> QED
    BY <1>1, <1>2, <1>3, <1>4, <1>6, <2>1, <2>2, Zenon DEF Answered, Gone
<1> QED
  BY <1>5, <1>6, Zenon DEF AckRead, Acking

\* The START condition, with the wires let go before it if the bus is held.
LEMMA QuietSets ==
  ASSUME Quiet, NEW x \in BOOLEAN, Drive(x, mScl), WiresAre
  PROVE  Quiet' /\ (mSda' <=> x)
<1>1. mScl \in BOOLEAN /\ ~mScl
  BY DEF WiresAre, Quiet
<1>2. UNCHANGED <<slave, busy, clocks>>
  BY <1>1, DriveLow
<1>3. mSda' = x /\ mScl' = mScl
  BY Zenon DEF Drive
<1> QED
  BY <1>2, <1>3, Zenon DEF Quiet, Idling

LEMMA QuietLow ==
  ASSUME Quiet, Drive(mSda, FALSE), WiresAre
  PROVE  Quiet'
<1>1. mSda \in BOOLEAN /\ ~mScl
  BY DEF WiresAre, Quiet
<1>2. UNCHANGED <<slave, busy, clocks>>
  BY <1>1, DriveLow
<1>3. mSda' = mSda /\ mScl' = FALSE
  BY Zenon DEF Drive
<1> QED
  BY <1>2, <1>3, Zenon DEF Quiet, Idling

LEMMA QuietRises ==
  ASSUME Quiet, Drive(mSda, TRUE), WiresAre
  PROVE  /\ mScl' /\ busy' /\ clocks' = 0 /\ Idling' /\ mSda' = mSda
<1>1. /\ mSda \in BOOLEAN /\ ~mScl /\ busy /\ clocks = 0 /\ SlaveIs
      /\ slave.role \in {"off", "recv"} /\ slave.n = 0 /\ slave.sda /\ slave.scl
  BY DEF WiresAre, Quiet, Idling
<1>2. slave' = Sampled(slave, mSda /\ slave.sda) /\ UNCHANGED <<busy, clocks>>
  BY <1>1, DriveRise
<1>3. mSda' = mSda /\ mScl' = TRUE
  BY Zenon DEF Drive
<1>4. Idling'
  <2>1. CASE slave.role = "off"
    <3>1. slave' = slave
      BY <1>2, <2>1, Unsampled
    <3> QED
      BY <1>1, <3>1, Zenon DEF Idling
  <2>2. CASE slave.role = "recv"
    <3>1. slave.n < Bits /\ (mSda /\ slave.sda) \in BOOLEAN
      <4>1. slave.sda \in BOOLEAN
        BY <1>1 DEF SlaveIs, SlaveStates
      <4>2. (mSda /\ slave.sda) \in BOOLEAN
        BY <1>1, <4>1, Zenon
      <4> QED
        BY <1>1, <4>2
    <3>2. /\ slave'.role = slave.role /\ slave'.n = slave.n /\ slave'.sda = slave.sda
          /\ slave'.scl = slave.scl
      BY <1>1, <1>2, <2>2, <3>1, SampledBit
    <3> QED
      BY <1>1, <3>2, Zenon DEF Idling
  <2> QED
    BY <1>1, <2>1, <2>2
<1> QED
  BY <1>1, <1>2, <1>3, <1>4, Zenon

LEMMA ReadyStarts ==
  ASSUME Ready, Drive(FALSE, mScl), WiresAre
  PROVE  Begun'
<1>1. mScl /\ slave.scl /\ mSda /\ slave.sda /\ SlaveIs
  BY DEF WiresAre, Ready, Idling
<1>2. slave' = Started(slave) /\ busy' = TRUE /\ clocks' = -1
  BY <1>1, DriveStart
<1>3. mSda' = FALSE /\ mScl' = mScl
  BY Zenon DEF Drive
<1>4. /\ slave'.role = "addr" /\ slave'.n = -1 /\ slave'.sda /\ slave'.bits = <<>>
      /\ slave'.scl = slave.scl
  BY <1>1, <1>2, StartedIs
<1> QED
  BY <1>1, <1>2, <1>3, <1>4, Zenon DEF Begun

LEMMA BegunFalls ==
  ASSUME Gentle, NEW b \in AllBits, Begun, Drive(mSda, FALSE), data = <<>>, data' = data, WiresAre
  PROVE  BitLow(b, "addr", 1)'
<1>1. /\ mScl /\ slave.scl /\ mSda \in BOOLEAN /\ SlaveIs /\ busy /\ clocks = -1
      /\ slave.role = "addr" /\ slave.n = -1 /\ slave.sda /\ slave.bits = <<>>
  BY DEF WiresAre, Begun
<1>2. slave' \in Fell(slave) /\ clocks' = (clocks + 1) % (Bits + 1) /\ busy' = busy
  BY <1>1, DriveFall
<1>3. mScl' = FALSE /\ mSda' = mSda
  BY Zenon DEF Drive
<1>4. clocks' = 1 - 1 /\ slave.n + 1 = 1 - 1 /\ slave.n < Bits - 1
  <2>1. (-1 + 1) % (Bits + 1) = 0 /\ -1 + 1 = 1 - 1 /\ 0 = 1 - 1
    OBVIOUS
  <2> QED
    BY <1>1, <1>2, <2>1
<1>5. /\ slave'.n = slave.n + 1 /\ slave'.role = slave.role /\ slave'.sda = slave.sda
      /\ slave'.scl = slave.scl /\ slave'.bits = slave.bits
  BY <1>1, <1>2, <1>4, FellBit
<1>6. First(b, 1 - 1) = <<>>
  <2>1. 1 - 1 = 0
    OBVIOUS
  <2> QED
    BY <2>1, FirstIs
<1> QED
  BY <1>1, <1>2, <1>3, <1>4, <1>5, <1>6, Zenon DEF BitLow

\* The STOP condition.
LEMMA EndingStops ==
  ASSUME Ending, Drive(TRUE, mScl), WiresAre
  PROVE  Free'
<1>1. mScl /\ slave.scl /\ ~mSda /\ slave.sda /\ SlaveIs
  BY DEF WiresAre, Ending, Idling
<1>2. slave' = Released(slave) /\ busy' = FALSE /\ clocks' = 0
  BY <1>1, DriveStop
<1>3. mSda' = TRUE /\ mScl' = mScl
  BY Zenon DEF Drive
<1>4. /\ slave'.role = "off" /\ slave'.n = 0 /\ slave'.sda /\ slave'.scl = slave.scl
  BY <1>1, <1>2, ReleasedIs
<1>5. slave'.role \in {"off", "recv"}
  BY <1>4
<1> QED
  BY <1>1, <1>2, <1>3, <1>4, <1>5, Zenon DEF Free, Idling

LEMMA ReadyStays ==
  ASSUME Ready, Drive(TRUE, TRUE), WiresAre
  PROVE  Ready'
<1>1. mScl /\ slave.scl /\ mSda
  BY DEF Ready, Idling
<1>2. UNCHANGED <<slave, busy, clocks>>
  BY <1>1, DriveSame
<1>3. mSda' = TRUE /\ mScl' = TRUE
  BY Zenon DEF Drive
<1> QED
  BY <1>2, <1>3, Zenon DEF Ready, Idling

\* A bit of the byte that the slave sends.
LEMMA ReadLowReleases ==
  ASSUME NEW j \in 1 .. Bits, ReadLow(j), Drive(TRUE, mScl), data' = data, WiresAre
  PROVE  ReadLow(j)' /\ mSda'
<1>1. mScl \in BOOLEAN /\ ~mScl
  BY DEF WiresAre, ReadLow
<1>2. UNCHANGED <<slave, busy, clocks>>
  BY <1>1, DriveLow
<1>3. mSda' = TRUE /\ mScl' = mScl
  BY Zenon DEF Drive
<1> QED
  BY <1>2, <1>3, Zenon DEF ReadLow

LEMMA ReadLowRises ==
  ASSUME NEW j \in 1 .. Bits, ReadLow(j), mSda, Drive(mSda, TRUE), data' = data, WiresAre
  PROVE  ReadHigh(j)'
<1>1. ~mScl /\ SlaveIs /\ mSda \in BOOLEAN /\ slave.role = "send" /\ slave.n = j - 1
  BY DEF WiresAre, ReadLow
<1>2. UNCHANGED <<slave, busy, clocks>>
  <2>1. CASE slave.scl
    <3>1. slave' = Sampled(slave, mSda /\ slave.sda) /\ UNCHANGED <<busy, clocks>>
      BY <1>1, <2>1, DriveRise
    <3>2. /\ ~(slave.role \in {"addr", "recv"} /\ slave.n < Bits)
          /\ ~(slave.role = "send" /\ slave.n = Bits)
      BY <1>1
    <3>3. Sampled(slave, mSda /\ slave.sda) = slave
      BY <3>2, Unsampled
    <3> QED
      BY <3>1, <3>3
  <2>2. CASE ~slave.scl
    BY <1>1, <2>2, DriveLow
  <2> QED
    BY <2>1, <2>2
<1>3. mSda' = mSda /\ mScl' = TRUE
  BY Zenon DEF Drive
<1> QED
  BY <1>2, <1>3, Zenon DEF ReadLow, ReadHigh

LEMMA ReadHighSampled ==
  ASSUME NEW j \in 1 .. Bits, ReadHigh(j), Scl, data' = Append(data, Sda), UNCHANGED wires, WiresAre
  PROVE  ReadDone(j)'
<1>1. /\ slave.scl /\ mSda /\ slave.sda \in BOOLEAN /\ mSda \in BOOLEAN
      /\ slave.bits \in AllBits /\ data = First(slave.bits, j - 1)
      /\ slave.sda <=> slave.bits[j]
  BY DEF Scl, ReadHigh, WiresAre, SlaveIs, SlaveStates, AllBits
<1>2. Sda = slave.bits[j]
  <2>1. slave.bits[j] \in BOOLEAN
    BY <1>1 DEF AllBits
  <2> QED
    BY <1>1, <2>1, Zenon DEF Sda
<1>3. data' = First(slave.bits, j)
  BY <1>1, <1>2, FirstIs
<1> QED
  BY <1>1, <1>3, Zenon DEF wires, ReadHigh, ReadDone

LEMMA ReadDoneFalls ==
  ASSUME Gentle, NEW j \in 1 .. Bits, ReadDone(j), Drive(mSda, FALSE), data' = data, WiresAre
  PROVE  IF j < Bits THEN ReadLow(j + 1)' ELSE ReadAll'
<1>1. /\ mScl /\ slave.scl /\ mSda \in BOOLEAN /\ SlaveIs /\ busy /\ clocks = j - 1
      /\ slave.role = "send" /\ slave.n = j - 1 /\ slave.bits \in Bytes /\ slave.bits \in AllBits
      /\ data = First(slave.bits, j)
  BY DEF WiresAre, ReadDone, AllBits
<1>2. slave' \in Fell(slave) /\ clocks' = (clocks + 1) % (Bits + 1) /\ busy' = busy
  BY <1>1, DriveFall
<1>3. mScl' = FALSE /\ mSda' = mSda
  BY Zenon DEF Drive
<1>4. clocks' = j
  <2>1. clocks + 1 = j /\ j % (Bits + 1) = j
    BY <1>1
  <2> QED
    BY <1>2, <2>1
<1>5. CASE j < Bits
  <2>1. slave.n < Bits - 1 /\ slave.n >= 0
    BY <1>1, <1>5
  <2>2. /\ slave'.n = slave.n + 1 /\ slave'.sda = slave.bits[slave.n + 2]
        /\ slave'.role = "send" /\ slave'.scl = slave.scl /\ slave'.bits = slave.bits
    BY <1>1, <1>2, <2>1, FellRead
  <2>3. slave.n + 1 = (j + 1) - 1 /\ j = (j + 1) - 1 /\ slave.n + 2 = j + 1
    BY <1>1
  <2>4. data' = First(slave.bits, (j + 1) - 1)
    BY <1>1, <2>3, Zenon
  <2>5. ReadLow(j + 1)'
    BY <1>1, <1>2, <1>3, <1>4, <2>2, <2>3, <2>4, Zenon DEF ReadLow
  <2> QED
    BY <1>5, <2>5
<1>6. CASE j = Bits
  <2>1. slave.n = Bits - 1 /\ data = slave.bits
    BY <1>1, <1>6, FirstIs
  <2>2. /\ slave'.role = "send" /\ slave'.n = Bits /\ slave'.sda
        /\ slave'.scl = slave.scl /\ slave'.last = slave.bits /\ slave'.bits = slave.bits
    BY <1>1, <1>2, <2>1, FellLast
  <2>3. clocks' = Bits
    BY <1>4, <1>6
  <2>4. ReadAll'
    BY <1>1, <1>2, <1>3, <2>1, <2>2, <2>3, Zenon DEF ReadAll
  <2> QED
    BY <1>6, <2>4
<1> QED
  BY <1>5, <1>6

\* The answer to a byte that the slave has sent.
LEMMA ReadAllSets ==
  ASSUME ReadAll, NEW x \in BOOLEAN, Drive(x, mScl), data' = data, WiresAre
  PROVE  ReadAll' /\ (mSda' <=> x)
<1>1. mScl \in BOOLEAN /\ ~mScl
  BY DEF WiresAre, ReadAll
<1>2. UNCHANGED <<slave, busy, clocks>>
  BY <1>1, DriveLow
<1>3. mSda' = x /\ mScl' = mScl
  BY Zenon DEF Drive
<1> QED
  BY <1>2, <1>3, Zenon DEF ReadAll

LEMMA ReadAllRises ==
  ASSUME NEW ack \in BOOLEAN, ReadAll, mSda <=> ~ack, Drive(mSda, TRUE), data' = data, WiresAre
  PROVE  Answering(ack)'
<1>1. /\ ~mScl /\ SlaveIs /\ mSda \in BOOLEAN /\ slave.scl /\ slave.sda
      /\ slave.role = "send" /\ slave.n = Bits
  BY DEF WiresAre, ReadAll
<1>2. slave' = Sampled(slave, mSda /\ slave.sda) /\ UNCHANGED <<busy, clocks>>
  BY <1>1, DriveRise
<1>3. (mSda /\ slave.sda) \in BOOLEAN
  BY Zenon
<1>4. /\ slave'.heard <=> ~(mSda /\ slave.sda)
      /\ slave'.role = slave.role /\ slave'.n = slave.n /\ slave'.sda = slave.sda
      /\ slave'.scl = slave.scl /\ slave'.last = slave.last /\ slave'.bits = slave.bits
  BY <1>1, <1>2, <1>3, SampledAnswer
<1>5. mSda' = mSda /\ mScl' = TRUE
  BY Zenon DEF Drive
<1>6. slave'.heard <=> ack
  BY <1>1, <1>4, Zenon
<1> QED
  BY <1>1, <1>2, <1>4, <1>5, <1>6, Zenon DEF ReadAll, Answering

LEMMA AnsweringFalls ==
  ASSUME Gentle, NEW ack \in BOOLEAN, Answering(ack), Drive(mSda, FALSE), data' = data, WiresAre
  PROVE  Heard(ack)'
<1>1. /\ mScl /\ slave.scl /\ mSda \in BOOLEAN /\ SlaveIs /\ busy /\ clocks = Bits
      /\ slave.role = "send" /\ slave.n = Bits /\ slave.bits \in Bytes
      /\ slave.last = slave.bits /\ data = slave.bits /\ (slave.heard <=> ack)
  BY DEF WiresAre, Answering
<1>2. slave' \in Fell(slave) /\ clocks' = (clocks + 1) % (Bits + 1) /\ busy' = busy
  BY <1>1, DriveFall
<1>3. mScl' = FALSE
  BY Zenon DEF Drive
<1>4. clocks' = 0
  <2>1. (Bits + 1) % (Bits + 1) = 0
    OBVIOUS
  <2> QED
    BY <1>1, <1>2, <2>1
<1>5. CASE ack
  <2>1. slave.role = "send" /\ slave.heard
    BY <1>1, <1>5
  <2>2. Serving' /\ slave'.last = slave.last
    BY <1>1, <1>2, <2>1, FellServing
  <2> QED
    BY <1>1, <1>2, <1>3, <1>4, <1>5, <2>2, Zenon DEF Heard
<1>6. CASE ~ack
  <2>1. slave.role = "send" /\ ~slave.heard
    BY <1>1, <1>6
  <2>2. Gone' /\ slave'.last = slave.last
    BY <1>1, <1>2, <2>1, FellGone
  <2> QED
    BY <1>1, <1>2, <1>3, <1>4, <1>6, <2>2, Zenon DEF Heard
<1> QED
  BY <1>5, <1>6

LEMMA HeardReleases ==
  ASSUME NEW ack \in BOOLEAN, Heard(ack), Drive(TRUE, mScl), data' = data, WiresAre
  PROVE  Heard(ack)' /\ mSda'
<1>1. mScl \in BOOLEAN /\ ~mScl
  BY DEF WiresAre, Heard
<1>2. UNCHANGED <<slave, busy, clocks>>
  BY <1>1, DriveLow
<1>3. mSda' = TRUE /\ mScl' = mScl
  BY Zenon DEF Drive
<1>4. (Serving => Serving') /\ (Gone => Gone')
  BY <1>2, Zenon DEF Serving, Gone
<1>5. ~mScl /\ busy /\ clocks = 0 /\ data = slave.last /\ data \in Bytes
  BY DEF Heard
<1>6. (ack => Serving) /\ (~ack => Gone)
  BY Zenon DEF Heard
<1> QED
  BY <1>2, <1>3, <1>4, <1>5, <1>6 DEF Heard

-----------------------------------------------------------------------------
(* The processor executes a statement *)

\* What statement op does, but for the program and the interrupts.
Did(op) ==
  /\ call' = call
  /\ op = "sda_hi" => Drive(TRUE, mScl) /\ UNCHANGED <<data, hold>>
  /\ op = "sda_low" => Drive(FALSE, mScl) /\ UNCHANGED <<data, hold>>
  /\ op = "scl_hi" => Drive(mSda, TRUE) /\ UNCHANGED <<data, hold>>
  /\ op = "scl_low" => Drive(mSda, FALSE) /\ UNCHANGED <<data, hold>>
  /\ op \in {"cli", "sei"} => UNCHANGED <<wires, data, hold>>
  /\ op = "hold" => hold' = TRUE /\ UNCHANGED <<wires, data>>
  /\ op = "unhold" => hold' = FALSE /\ UNCHANGED <<wires, data>>
  /\ op = "sample" => Scl /\ data' = Append(data, Sda) /\ UNCHANGED <<wires, hold>>
  /\ op \in {"cli", "sei", "hold", "unhold", "sample"} => astray' = astray

LEMMA ExecuteIs ==
  ASSUME Execute
  PROVE  prog # <<>> /\ prog' = Tail(prog) /\ Did(Head(prog))
<1>1. CASE SdaHi
  BY <1>1 DEF SdaHi, Take, Did
<1>2. CASE SdaLow
  BY <1>2 DEF SdaLow, Take, Did
<1>3. CASE SclHi
  BY <1>3 DEF SclHi, Take, Did
<1>4. CASE SclLow
  BY <1>4 DEF SclLow, Take, Did
<1>5. CASE Cli
  BY <1>5 DEF Cli, Take, Did
<1>6. CASE Sei
  BY <1>6 DEF Sei, Take, Did
<1>7. CASE Hold
  BY <1>7 DEF Hold, Take, Did
<1>8. CASE Unhold
  BY <1>8 DEF Unhold, Take, Did
<1>9. CASE Sample
  BY <1>9 DEF Sample, Take, Did
<1> QED
  BY <1>1, <1>2, <1>3, <1>4, <1>5, <1>6, <1>7, <1>8, <1>9 DEF Execute

LEMMA Executed ==
  ASSUME NEW P \in Seq(Ops), NEW n \in Nat, n <= Len(P), prog = Suffix(P, n), Execute
  PROVE  /\ n > 0 /\ Did(Statement(P, n))
         /\ prog' = Suffix(P, n - 1) /\ Len(prog') = n - 1
<1>1. prog # <<>> /\ prog' = Tail(prog) /\ Did(Head(prog))
  BY ExecuteIs
<1>2. n # 0
  BY <1>1, Advance
<1>3. n > 0
  BY <1>2
<1>4. Head(prog) = Statement(P, n) /\ Tail(prog) = Suffix(P, n - 1)
  BY <1>3, Advance
<1>5. Len(Suffix(P, n - 1)) = n - 1
  <2>1. n - 1 \in Nat /\ n - 1 <= Len(P)
    BY <1>3
  <2> QED
    BY <2>1, SuffixIs
<1> QED
  BY <1>1, <1>3, <1>4, <1>5, Zenon

LEMMA Masked ==
  ASSUME Did("cli") \/ Did("sei")
  PROVE  Kept /\ hold' = hold /\ UNCHANGED <<wires, data, call>>
<1>1. UNCHANGED <<wires, data, hold, call>>
  BY DEF Did
<1> QED
  BY <1>1, KeptWires

\* The statements that send a byte.
LEMMA SendStep ==
  ASSUME Gentle, WiresAre, NEW b \in AllBits, NEW role \in {"addr", "recv"},
         NEW P, NEW T \in Nat, Sends(P, b, T), NEW m \in 1 .. 3 * Bits + 8,
         SendPlace(b, role, m), Did(Statement(P, T + m))
  PROVE  SendPlace(b, role, m - 1)' /\ hold' = hold
<1>1. CASE m = 3 * Bits + 8 /\ BitLow(b, role, 1)
  <2>1. T + m = T + 3 * Bits + 8 /\ m - 1 = 7 + 3 * (Bits - 1 + 1) /\ 1 \in 1 .. Bits
    BY <1>1
  <2>2. Did("cli")
    BY <2>1, Zenon DEF Sends
  <2>3. BitLow(b, role, 1)' /\ hold' = hold
    BY <1>1, <2>2, Masked, KeptBits, Zenon
  <2> QED
    BY <2>1, <2>3, Zenon DEF SendPlace
<1>2. ASSUME NEW j \in 1 .. Bits, m = 7 + 3 * (Bits - j + 1), BitLow(b, role, j)
      PROVE  SendPlace(b, role, m - 1)' /\ hold' = hold
  <2>1. T + m = T + 7 + 3 * (Bits - j + 1) /\ m - 1 = 6 + 3 * (Bits - j + 1)
    BY <1>2
  <2>2. Did(IF b[j] THEN "sda_hi" ELSE "sda_low")
    BY <2>1, Zenon DEF Sends
  <2>3. b[j] \in BOOLEAN
    BY DEF AllBits
  <2>4. Drive(b[j], mScl) /\ data' = data /\ hold' = hold
    <3>1. CASE b[j] = TRUE
      BY <2>2, <3>1 DEF Did
    <3>2. CASE b[j] = FALSE
      BY <2>2, <3>2 DEF Did
    <3> QED
      BY <2>3, <3>1, <3>2
  <2>5. BitSet(b, role, j)'
    BY <1>2, <2>3, <2>4, BitLowSets
  <2> QED
    BY <2>1, <2>4, <2>5, Zenon DEF SendPlace
<1>3. ASSUME NEW j \in 1 .. Bits, m = 6 + 3 * (Bits - j + 1), BitSet(b, role, j)
      PROVE  SendPlace(b, role, m - 1)' /\ hold' = hold
  <2>1. T + m = T + 6 + 3 * (Bits - j + 1) /\ m - 1 = 5 + 3 * (Bits - j + 1)
    BY <1>3
  <2>2. Did("scl_hi")
    BY <2>1, Zenon DEF Sends
  <2>3. Drive(mSda, TRUE) /\ data' = data /\ hold' = hold
    BY <2>2 DEF Did
  <2>4. BitHigh(b, role, j)'
    BY <1>3, <2>3, BitSetRises
  <2> QED
    BY <2>1, <2>3, <2>4, Zenon DEF SendPlace
<1>4. ASSUME NEW j \in 1 .. Bits, m = 5 + 3 * (Bits - j + 1), BitHigh(b, role, j)
      PROVE  SendPlace(b, role, m - 1)' /\ hold' = hold
  <2>1. T + m = T + 5 + 3 * (Bits - j + 1)
    BY <1>4
  <2>2. Did("scl_low")
    BY <2>1, Zenon DEF Sends
  <2>3. Drive(mSda, FALSE) /\ data' = data /\ hold' = hold
    BY <2>2 DEF Did
  <2>4. IF j < Bits THEN BitLow(b, role, j + 1)' ELSE AckLow(b, role)'
    BY <1>4, <2>3, BitHighFalls
  <2>5. CASE j < Bits
    <3>1. j + 1 \in 1 .. Bits /\ m - 1 = 7 + 3 * (Bits - (j + 1) + 1)
      BY <1>4, <2>5
    <3>2. BitLow(b, role, j + 1)'
      BY <2>4, <2>5
    <3> QED
      BY <2>3, <3>1, <3>2, Zenon DEF SendPlace
  <2>6. CASE ~(j < Bits)
    <3>1. m - 1 \in 5 .. 7
      BY <1>4, <2>6
    <3>2. AckLow(b, role)'
      BY <2>4, <2>6
    <3> QED
      BY <2>3, <3>1, <3>2, Zenon DEF SendPlace
  <2> QED
    BY <2>5, <2>6
<1>5. CASE m = 7 /\ AckLow(b, role)
  <2>1. T + m = T + 7 /\ m - 1 \in 5 .. 7
    BY <1>5
  <2>2. Did("sei")
    BY <2>1, Zenon DEF Sends
  <2>3. AckLow(b, role)' /\ hold' = hold
    BY <1>5, <2>2, Masked, KeptAcks, Zenon
  <2> QED
    BY <2>1, <2>3, Zenon DEF SendPlace
<1>6. CASE m = 6 /\ AckLow(b, role)
  <2>1. T + m = T + 6 /\ m - 1 \in 5 .. 7
    BY <1>6
  <2>2. Did("cli")
    BY <2>1, Zenon DEF Sends
  <2>3. AckLow(b, role)' /\ hold' = hold
    BY <1>6, <2>2, Masked, KeptAcks, Zenon
  <2> QED
    BY <2>1, <2>3, Zenon DEF SendPlace
<1>7. CASE m = 5 /\ AckLow(b, role)
  <2>1. T + m = T + 5 /\ m - 1 = 4
    BY <1>7
  <2>2. Did("sda_hi")
    BY <2>1, Zenon DEF Sends
  <2>3. Drive(TRUE, mScl) /\ data' = data /\ hold' = hold
    BY <2>2 DEF Did
  <2>4. AckLow(b, role)' /\ mSda'
    BY <1>7, <2>3, AckLowReleases
  <2> QED
    BY <2>1, <2>3, <2>4, Zenon DEF SendPlace
<1>8. CASE m = 4 /\ AckLow(b, role) /\ mSda
  <2>1. T + m = T + 4 /\ m - 1 = 3
    BY <1>8
  <2>2. Did("scl_hi")
    BY <2>1, Zenon DEF Sends
  <2>3. Drive(mSda, TRUE) /\ data' = data /\ hold' = hold
    BY <2>2 DEF Did
  <2>4. AckHigh(b, role)'
    BY <1>8, <2>3, AckLowRises
  <2> QED
    BY <2>1, <2>3, <2>4, Zenon DEF SendPlace
<1>9. CASE m = 3 /\ AckHigh(b, role)
  <2>1. T + m = T + 3 /\ m - 1 = 2
    BY <1>9
  <2>2. Did("sample")
    BY <2>1, Zenon DEF Sends
  <2>3. Scl /\ data' = Append(data, Sda) /\ UNCHANGED wires /\ hold' = hold
    BY <2>2 DEF Did
  <2>4. AckRead(b, role)'
    BY <1>9, <2>3, AckHighSampled
  <2> QED
    BY <2>1, <2>3, <2>4, Zenon DEF SendPlace
<1>10. CASE m = 2 /\ AckRead(b, role)
  <2>1. T + m = T + 2 /\ m - 1 \in 0 .. 1
    BY <1>10
  <2>2. Did("scl_low")
    BY <2>1, Zenon DEF Sends
  <2>3. Drive(mSda, FALSE) /\ data' = data /\ hold' = hold
    BY <2>2 DEF Did
  <2>4. Answered(b, role)'
    BY <1>10, <2>3, AckReadFalls
  <2> QED
    BY <2>1, <2>3, <2>4, Zenon DEF SendPlace
<1>11. CASE m = 1 /\ Answered(b, role)
  <2>1. T + m = T + 1 /\ m - 1 \in 0 .. 1
    BY <1>11
  <2>2. Did("sei")
    BY <2>1, Zenon DEF Sends
  <2>3. Answered(b, role)' /\ hold' = hold
    BY <1>11, <2>2, Masked, KeptAcks, Zenon
  <2> QED
    BY <2>1, <2>3, Zenon DEF SendPlace
<1>12. (m \in 5 .. 7 => m = 7 \/ m = 6 \/ m = 5) /\ (m \in 0 .. 1 => m = 1)
  OBVIOUS
<1> QED
  BY <1>1, <1>2, <1>3, <1>4, <1>5, <1>6, <1>7, <1>8, <1>9, <1>10, <1>11, <1>12, Zenon
  DEF SendPlace

\* The statements that make a START condition and send a byte.
LEMMA StartStep ==
  ASSUME Gentle, WiresAre, NEW held \in BOOLEAN, NEW b \in AllBits,
         NEW P, NEW T \in Nat, Starts(P, held, b, T), NEW m \in 1 .. StartLength(held),
         StartPlace(held, b, m), Did(Statement(P, T + m))
  PROVE  StartPlace(held, b, m - 1)'
<1> DEFINE B == 3 * Bits
<1>1. B \in Nat /\ B >= 6
  OBVIOUS
<1>2. CASE data = <<>> /\ held /\ m = B + 14 /\ Quiet
  <2>1. T + m = T + B + 14 /\ m - 1 = B + 13
    BY <1>1, <1>2
  <2>2. Did("cli")
    BY <1>2, <2>1, Zenon DEF Starts
  <2>3. Quiet' /\ data' = data
    BY <1>2, <2>2, Masked, KeptQuiet
  <2>4. m - 1 \in {B + 13, B + 14}
    BY <2>1
  <2> QED
    BY <1>2, <2>3, <2>4, Zenon DEF StartPlace
<1>3. CASE data = <<>> /\ held /\ m = B + 13 /\ Quiet
  <2>1. T + m = T + B + 13 /\ m - 1 = B + 12
    BY <1>1, <1>3
  <2>2. Did("sda_hi")
    BY <1>3, <2>1, Zenon DEF Starts
  <2>3. Drive(TRUE, mScl) /\ data' = data
    BY <2>2 DEF Did
  <2>4. Quiet' /\ mSda'
    BY <1>3, <2>3, QuietSets
  <2> QED
    BY <1>3, <2>1, <2>3, <2>4, Zenon DEF StartPlace
<1>4. CASE data = <<>> /\ held /\ m = B + 12 /\ Quiet /\ mSda
  <2>1. T + m = T + B + 12 /\ m - 1 = B + 11
    BY <1>1, <1>4
  <2>2. Did("scl_hi")
    BY <1>4, <2>1, Zenon DEF Starts
  <2>3. Drive(mSda, TRUE) /\ data' = data
    BY <2>2 DEF Did
  <2>4. Ready'
    BY <1>4, <2>3, QuietRises DEF Ready
  <2> QED
    BY <1>4, <2>1, <2>3, <2>4, Zenon DEF StartPlace
<1>5. CASE data = <<>> /\ ~held /\ m = B + 12 /\ Ready
  <2>1. T + m = T + B + 12 /\ m - 1 = B + 11
    BY <1>1, <1>5
  <2>2. Did("cli")
    BY <1>5, <2>1, Zenon DEF Starts
  <2>3. Ready' /\ data' = data
    BY <1>5, <2>2, Masked, KeptQuiet
  <2> QED
    BY <1>5, <2>1, <2>3, Zenon DEF StartPlace
<1>6. CASE data = <<>> /\ m = B + 11 /\ Ready
  <2>1. T + m = T + B + 11 /\ m - 1 = B + 10
    BY <1>1, <1>6
  <2>2. Did("sda_low")
    BY <2>1, Zenon DEF Starts
  <2>3. Drive(FALSE, mScl) /\ data' = data
    BY <2>2 DEF Did
  <2>4. Begun'
    BY <1>6, <2>3, ReadyStarts
  <2> QED
    BY <1>6, <2>1, <2>3, <2>4, Zenon DEF StartPlace
<1>7. CASE data = <<>> /\ m = B + 10 /\ Begun
  <2>1. T + m = T + B + 10 /\ m - 1 = B + 9
    BY <1>1, <1>7
  <2>2. Did("scl_low")
    BY <2>1, Zenon DEF Starts
  <2>3. Drive(mSda, FALSE) /\ data' = data
    BY <2>2 DEF Did
  <2>4. BitLow(b, "addr", 1)'
    BY <1>7, <2>3, BegunFalls
  <2> QED
    BY <1>7, <2>1, <2>3, <2>4, Zenon DEF StartPlace
<1>8. CASE data = <<>> /\ m = B + 9 /\ BitLow(b, "addr", 1)
  <2>1. T + m = T + B + 9 /\ m - 1 = B + 8
    BY <1>1, <1>8
  <2>2. Did("hold")
    BY <2>1, Zenon DEF Starts
  <2>3. hold' = TRUE /\ UNCHANGED <<wires, data>>
    BY <2>2 DEF Did
  <2>4. BitLow(b, "addr", 1)'
    BY <1>8, <2>3, KeptWires, KeptBits, Zenon
  <2> QED
    BY <2>1, <2>3, <2>4, Zenon DEF StartPlace, SendPlace
<1>9. CASE hold /\ SendPlace(b, "addr", m)
  <2>1. m \in 1 .. B + 8
    BY <1>9, <1>1 DEF SendPlace
  <2>2. Sends(P, b, T)
    BY DEF Starts
  <2>3. SendPlace(b, "addr", m - 1)' /\ hold' = hold
    BY <1>9, <2>1, <2>2, SendStep
  <2> QED
    BY <1>9, <2>3, Zenon DEF StartPlace
<1>10. m \in {B + 13, B + 14} => m = B + 13 \/ m = B + 14
  BY Zenon
<1> QED
  BY <1>2, <1>3, <1>4, <1>5, <1>6, <1>7, <1>8, <1>9, <1>10, Zenon DEF StartPlace

\* The statements that make a STOP condition.
LEMMA StopStep ==
  ASSUME Gentle, WiresAre, NEW P, Stops(P), NEW n \in 1 .. 7,
         StopPlace(n), Did(Statement(P, n))
  PROVE  StopPlace(n - 1)' /\ data' = data
<1>1. /\ Statement(P, 7) = "cli" /\ Statement(P, 6) = "scl_low" /\ Statement(P, 5) = "sda_low"
      /\ Statement(P, 4) = "scl_hi" /\ Statement(P, 3) = "sda_hi" /\ Statement(P, 2) = "unhold"
      /\ Statement(P, 1) = "sei"
  BY MasterStopIs DEF Stops
<1>2. CASE n = 7 /\ hold /\ Quiet
  <2>1. n - 1 \in 5 .. 7 /\ Did("cli")
    BY <1>1, <1>2
  <2>2. Quiet' /\ data' = data /\ hold' = hold
    BY <1>2, <2>1, Masked, KeptQuiet
  <2> QED
    BY <1>2, <2>1, <2>2, Zenon DEF StopPlace
<1>3. CASE n = 6 /\ hold /\ Quiet
  <2>1. n - 1 \in 5 .. 7 /\ Did("scl_low")
    BY <1>1, <1>3
  <2>2. Drive(mSda, FALSE) /\ data' = data /\ hold' = hold
    BY <2>1 DEF Did
  <2>3. Quiet'
    BY <1>3, <2>2, QuietLow
  <2> QED
    BY <1>3, <2>1, <2>2, <2>3, Zenon DEF StopPlace
<1>4. CASE n = 5 /\ hold /\ Quiet
  <2>1. n - 1 = 4 /\ Did("sda_low")
    BY <1>1, <1>4
  <2>2. Drive(FALSE, mScl) /\ data' = data /\ hold' = hold
    BY <2>1 DEF Did
  <2>3. Quiet' /\ ~mSda'
    BY <1>4, <2>2, QuietSets
  <2> QED
    BY <1>4, <2>1, <2>2, <2>3, Zenon DEF StopPlace
<1>5. CASE n = 4 /\ hold /\ Quiet /\ ~mSda
  <2>1. n - 1 = 3 /\ Did("scl_hi")
    BY <1>1, <1>5
  <2>2. Drive(mSda, TRUE) /\ data' = data /\ hold' = hold
    BY <2>1 DEF Did
  <2>3. Ending'
    BY <1>5, <2>2, QuietRises DEF Ending
  <2> QED
    BY <1>5, <2>1, <2>2, <2>3, Zenon DEF StopPlace
<1>6. CASE n = 3 /\ hold /\ Ending
  <2>1. n - 1 = 2 /\ Did("sda_hi")
    BY <1>1, <1>6
  <2>2. Drive(TRUE, mScl) /\ data' = data
    BY <2>1 DEF Did
  <2>3. Free'
    BY <1>6, <2>2, EndingStops
  <2> QED
    BY <2>1, <2>2, <2>3, Zenon DEF StopPlace
<1>7. CASE n = 2 /\ Free
  <2>1. n - 1 \in 0 .. 1 /\ Did("unhold")
    BY <1>1, <1>7
  <2>2. hold' = FALSE /\ UNCHANGED <<wires, data>>
    BY <2>1 DEF Did
  <2>3. Free'
    BY <1>7, <2>2, KeptWires, KeptQuiet, Zenon
  <2> QED
    BY <2>1, <2>2, <2>3, Zenon DEF StopPlace
<1>8. CASE n = 1 /\ ~hold /\ Free
  <2>1. n - 1 \in 0 .. 1 /\ Did("sei")
    BY <1>1, <1>8
  <2>2. Free' /\ data' = data /\ hold' = hold
    BY <1>8, <2>1, Masked, KeptQuiet
  <2> QED
    BY <1>8, <2>1, <2>2, Zenon DEF StopPlace
<1>9. (n \in 5 .. 7 => n = 7 \/ n = 6 \/ n = 5) /\ (n \in 0 .. 1 => n = 1)
  OBVIOUS
<1> QED
  BY <1>2, <1>3, <1>4, <1>5, <1>6, <1>7, <1>8, <1>9, Zenon DEF StopPlace

\* The statements of master_tx.
LEMMA TxStep ==
  ASSUME Gentle, WiresAre, NEW b \in AllBits, NEW n \in 1 .. 3 * Bits + 10,
         TxPlace(b, n), Did(Statement(MasterTx(b), n))
  PROVE  TxPlace(b, n - 1)'
<1> DEFINE P == MasterTx(b)
<1>1. /\ Sends(P, b, 1) /\ Statement(P, 3 * Bits + 10) = "cli" /\ Statement(P, 1) = "sei"
  BY TxIs
<1>2. CASE n = 3 * Bits + 10 /\ BitLow(b, "recv", 1)
  <2>1. Did("cli")
    BY <1>1, <1>2
  <2>2. BitLow(b, "recv", 1)' /\ hold' = hold
    BY <1>2, <2>1, Masked, KeptBits, Zenon
  <2>3. n - 1 >= 1 /\ (n - 1) - 1 = 3 * Bits + 8
    BY <1>2
  <2> QED
    BY <2>2, <2>3, Zenon DEF TxPlace, SendPlace
<1>3. CASE SendPlace(b, "recv", n - 1)
  <2>1. n - 1 \in 0 .. 3 * Bits + 8
    <3>1. n - 1 <= 3 * Bits + 8
      BY <1>3 DEF SendPlace
    <3> QED
      BY <3>1
  <2>2. CASE n - 1 >= 1
    <3>1. n - 1 \in 1 .. 3 * Bits + 8 /\ 1 + (n - 1) = n
      BY <2>1, <2>2
    <3> DEFINE m == n - 1
    <3>2. Did(Statement(P, 1 + m))
      BY <3>1
    <3>3. m \in 1 .. 3 * Bits + 8 /\ SendPlace(b, "recv", m)
      BY <1>3, <3>1
    <3> HIDE DEF m
    <3>4. SendPlace(b, "recv", m - 1)' /\ hold' = hold
      <4> HIDE DEF P
      <4> QED
        BY <1>1, <3>2, <3>3, SendStep
    <3> QED
      BY <2>2, <3>4 DEF TxPlace, m
  <2>3. CASE n = 1
    <3>1. n - 1 = 0
      BY <2>3
    <3>2. Answered(b, "recv")
      BY <1>3, <3>1 DEF SendPlace
    <3>3. Did("sei")
      BY <1>1, <2>3
    <3>4. Answered(b, "recv")' /\ hold' = hold
      BY <3>2, <3>3, Masked, KeptAcks, Zenon
    <3> QED
      BY <3>1, <3>4, Zenon DEF TxPlace
  <2>4. n - 1 >= 1 \/ n = 1
    OBVIOUS
  <2> QED
    BY <2>2, <2>3, <2>4
<1> QED
  BY <1>2, <1>3 DEF TxPlace

\* The address 0 is nobody's, so nobody acknowledges the START byte.
LEMMA NotOwn == Front(StartByte) # Own
<1> SUFFICES ASSUME Front(StartByte) = Own
    PROVE  FALSE
  OBVIOUS
<1>1. PICK i \in 1 .. (Bits - 1) : Own[i]
  BY OwnAssumption
<1>2. StartByte \in Seq(BOOLEAN) /\ Len(StartByte) = Bits
  BY StartByteIs, FirstIs
<1>3. Front(StartByte)[i] = StartByte[i]
  BY <1>2 DEF Front
<1>4. ~StartByte[i]
  <2>1. i \in 1 .. Bits /\ i # Bits
    OBVIOUS
  <2> QED
    BY <2>1, Zenon DEF StartByte
<1> QED
  BY <1>1, <1>3, <1>4

LEMMA NoAnswer ==
  ASSUME NEW held, StartPlace(held, StartByte, 1)
  PROVE  hold /\ data = <<TRUE>> /\ Quiet
<1>1. hold /\ SendPlace(StartByte, "addr", 1)
  <2>1. /\ 1 \notin {3 * Bits + 13, 3 * Bits + 14} /\ 1 # 3 * Bits + 12 /\ 1 # 3 * Bits + 11
        /\ 1 # 3 * Bits + 10 /\ 1 # 3 * Bits + 9
    OBVIOUS
  <2> QED
    BY <2>1, Zenon DEF StartPlace
<1>2. Answered(StartByte, "addr")
  <2>1. \A j \in 1 .. Bits : /\ 1 # 7 + 3 * (Bits - j + 1)
                             /\ 1 # 6 + 3 * (Bits - j + 1)
                             /\ 1 # 5 + 3 * (Bits - j + 1)
    OBVIOUS
  <2>2. /\ 1 # 3 * Bits + 8 /\ 1 \notin 5 .. 7 /\ 1 # 4 /\ 1 # 3 /\ 1 # 2
    OBVIOUS
  <2> QED
    BY <1>1, <2>1, <2>2, Zenon DEF SendPlace
<1>3. data = <<TRUE>> /\ Quiet
  BY <1>2, NotOwn, Zenon DEF Answered, Gone, Quiet, Idling
<1> QED
  BY <1>1, <1>3

\* The statements of bus_clear: a START byte and a STOP condition.
LEMMA ClearStep ==
  ASSUME Gentle, WiresAre, NEW held \in BOOLEAN,
         NEW P, Starts(P, held, StartByte, 7), Stops(P), NEW n \in 1 .. 7 + StartLength(held),
         ClearPlace(held, n), Did(Statement(P, n))
  PROVE  ClearPlace(held, n - 1)'
<1>1. StartLength(held) \in Nat /\ StartLength(held) >= 1
  BY DEF StartLength
<1>2. CASE n >= 9 /\ StartPlace(held, StartByte, n - 7)
  <2> DEFINE m == n - 7
  <2>1. m \in 1 .. StartLength(held) /\ 7 + m = n /\ n - 1 >= 8 /\ (n - 1) - 7 = m - 1
    BY <1>1, <1>2
  <2>2. Did(Statement(P, 7 + m)) /\ StartPlace(held, StartByte, m)
    BY <1>2, <2>1
  <2> HIDE DEF m
  <2>3. StartPlace(held, StartByte, m - 1)'
    BY <2>1, <2>2, StartByteIs, StartStep
  <2> QED
    BY <2>1, <2>3, Zenon DEF ClearPlace
<1>3. CASE n = 8 /\ StartPlace(held, StartByte, n - 7)
  <2>1. n - 7 = 1 /\ n - 1 = 7 /\ 7 \in 5 .. 7 /\ 7 + 1 = 8
    BY <1>3
  <2>2. hold /\ data = <<TRUE>> /\ Quiet
    BY <1>3, <2>1, NoAnswer
  <2>3. Did("sei")
    <3>1. Statement(P, 7 + 1) = "sei"
      BY DEF Starts, Sends
    <3> QED
      BY <1>3, <2>1, <3>1
  <2>4. Quiet' /\ data' = data /\ hold' = hold
    BY <2>2, <2>3, Masked, KeptQuiet
  <2> QED
    BY <2>1, <2>2, <2>4, Zenon DEF ClearPlace, StopPlace
<1>4. CASE data = <<TRUE>> /\ StopPlace(n)
  <2>1. n \in 1 .. 7
    BY <1>4 DEF StopPlace
  <2>2. StopPlace(n - 1)' /\ data' = data
    BY <1>4, <2>1, StopStep
  <2> QED
    BY <1>4, <2>2, Zenon DEF ClearPlace
<1>5. n >= 8 => n = 8 \/ n >= 9
  OBVIOUS
<1> QED
  BY <1>2, <1>3, <1>4, <1>5 DEF ClearPlace

LEMMA ClearRange ==
  ASSUME NEW n \in Nat \ {0}, ClearPlace(FALSE, n)
  PROVE  n \in 1 .. 7 + StartLength(FALSE)
<1> DEFINE B == 3 * Bits
<1>1. 7 + StartLength(FALSE) = B + 19
  BY DEF StartLength
<1>2. CASE n >= 8 /\ StartPlace(FALSE, StartByte, n - 7)
  <2>1. n - 7 <= B + 12
    BY <1>2 DEF StartPlace, SendPlace
  <2>2. n \in 1 .. B + 19
    BY <2>1
  <2> QED
    BY <1>1, <2>2, Zenon
<1>3. CASE StopPlace(n)
  <2>1. n <= 7
    BY <1>3 DEF StopPlace
  <2>2. n \in 1 .. B + 19
    BY <2>1
  <2> QED
    BY <1>1, <2>2, Zenon
<1> QED
  BY <1>2, <1>3 DEF ClearPlace

\* The statements of bus_i2c_open.
LEMMA OpenStep ==
  ASSUME Gentle, WiresAre, NEW n \in 1 .. 3 * Bits + 22,
         OpenPlace(n), Did(Statement(Open, n))
  PROVE  OpenPlace(n - 1)'
<1> DEFINE B == 3 * Bits
<1>1. /\ Starts(Open, FALSE, StartByte, 7) /\ Stops(Open)
      /\ Statement(Open, B + 22) = "sda_hi" /\ Statement(Open, B + 21) = "scl_hi"
      /\ Statement(Open, B + 20) = "unhold"
  BY OpenIs
<1>2. CASE n = B + 22 /\ data = <<>> /\ (Ready \/ Quiet)
  <2>1. Did("sda_hi") /\ n - 1 = B + 21
    BY <1>1, <1>2
  <2>2. Drive(TRUE, mScl) /\ data' = data
    BY <2>1 DEF Did
  <2>3. CASE Ready
    <3>1. mScl = TRUE
      BY <2>3 DEF WiresAre, Ready
    <3>2. Ready'
      BY <2>2, <2>3, <3>1, ReadyStays
    <3>3. mSda'
      BY <3>2 DEF Ready
    <3> QED
      BY <1>2, <2>1, <2>2, <3>2, <3>3, Zenon DEF OpenPlace
  <2>4. CASE Quiet
    <3>1. Quiet' /\ mSda'
      BY <2>2, <2>4, QuietSets
    <3> QED
      BY <1>2, <2>1, <2>2, <3>1, Zenon DEF OpenPlace
  <2> QED
    BY <1>2, <2>3, <2>4
<1>3. CASE n = B + 21 /\ data = <<>> /\ (Ready \/ Quiet) /\ mSda
  <2>1. Did("scl_hi") /\ n - 1 = B + 20
    BY <1>1, <1>3
  <2>2. Drive(mSda, TRUE) /\ data' = data
    BY <2>1 DEF Did
  <2>3. CASE Ready
    <3>1. mSda = TRUE
      BY <1>3 DEF WiresAre
    <3>2. Ready'
      BY <2>2, <2>3, <3>1, ReadyStays
    <3> QED
      BY <1>3, <2>1, <2>2, <3>2, Zenon DEF OpenPlace, Ready
  <2>4. CASE Quiet
    <3>1. Ready'
      BY <1>3, <2>2, <2>4, QuietRises DEF Ready
    <3> QED
      BY <1>3, <2>1, <2>2, <3>1, Zenon DEF OpenPlace
  <2> QED
    BY <1>3, <2>3, <2>4
<1>4. CASE n = B + 20 /\ data = <<>> /\ Ready
  <2>1. Did("unhold") /\ n - 1 >= 8 /\ (n - 1) - 7 = B + 12
    BY <1>1, <1>4
  <2>2. UNCHANGED <<wires, data>>
    BY <2>1 DEF Did
  <2>3. Ready'
    BY <1>4, <2>2, KeptWires, KeptQuiet, Zenon
  <2> QED
    BY <1>4, <2>1, <2>2, <2>3, Zenon DEF OpenPlace, ClearPlace, StartPlace
<1>5. CASE ClearPlace(FALSE, n)
  <2>1. n \in 1 .. 7 + StartLength(FALSE)
    <3>1. n \in Nat \ {0}
      OBVIOUS
    <3> QED
      BY <1>5, <3>1, ClearRange, Zenon
  <2>2. ClearPlace(FALSE, n - 1)'
    BY <1>1, <1>5, <2>1, ClearStep
  <2> QED
    BY <2>2, Zenon DEF OpenPlace
<1> QED
  BY <1>2, <1>3, <1>4, <1>5 DEF OpenPlace

\* The statements of master_rx.
LEMMA RxStep ==
  ASSUME Gentle, WiresAre, NEW ack \in BOOLEAN, NEW P, Reads(P, ack),
         NEW n \in 1 .. 6 * Bits + 6, RxPlace(ack, n), Did(Statement(P, n))
  PROVE  RxPlace(ack, n - 1)' /\ hold' = hold
<1>1. CASE n = 6 * Bits + 6 /\ ReadLow(1)
  <2>1. n - 1 = 5 + 6 * (Bits - 1 + 1) /\ 1 \in 1 .. Bits
    BY <1>1
  <2>2. Did("cli")
    BY <1>1, Zenon DEF Reads
  <2>3. ReadLow(1)' /\ hold' = hold
    BY <1>1, <2>2, Masked, KeptReads, Zenon
  <2> QED
    BY <2>1, <2>3, Zenon DEF RxPlace
<1>2. ASSUME NEW j \in 1 .. Bits, n = 5 + 6 * (Bits - j + 1), ReadLow(j)
      PROVE  RxPlace(ack, n - 1)' /\ hold' = hold
  <2>1. n - 1 = 4 + 6 * (Bits - j + 1)
    BY <1>2
  <2>2. Did("cli")
    BY <1>2, Zenon DEF Reads
  <2>3. ReadLow(j)' /\ hold' = hold
    BY <1>2, <2>2, Masked, KeptReads, Zenon
  <2> QED
    BY <2>1, <2>3, Zenon DEF RxPlace
<1>3. ASSUME NEW j \in 1 .. Bits, n = 4 + 6 * (Bits - j + 1), ReadLow(j)
      PROVE  RxPlace(ack, n - 1)' /\ hold' = hold
  <2>1. n - 1 = 3 + 6 * (Bits - j + 1)
    BY <1>3
  <2>2. Did("sda_hi")
    BY <1>3, Zenon DEF Reads
  <2>3. Drive(TRUE, mScl) /\ data' = data /\ hold' = hold
    BY <2>2 DEF Did
  <2>4. ReadLow(j)' /\ mSda'
    BY <1>3, <2>3, ReadLowReleases
  <2> QED
    BY <2>1, <2>3, <2>4, Zenon DEF RxPlace
<1>4. ASSUME NEW j \in 1 .. Bits, n = 3 + 6 * (Bits - j + 1), ReadLow(j), mSda
      PROVE  RxPlace(ack, n - 1)' /\ hold' = hold
  <2>1. n - 1 = 2 + 6 * (Bits - j + 1)
    BY <1>4
  <2>2. Did("scl_hi")
    BY <1>4, Zenon DEF Reads
  <2>3. Drive(mSda, TRUE) /\ data' = data /\ hold' = hold
    BY <2>2 DEF Did
  <2>4. ReadHigh(j)'
    BY <1>4, <2>3, ReadLowRises
  <2> QED
    BY <2>1, <2>3, <2>4, Zenon DEF RxPlace
<1>5. ASSUME NEW j \in 1 .. Bits, n = 2 + 6 * (Bits - j + 1), ReadHigh(j)
      PROVE  RxPlace(ack, n - 1)' /\ hold' = hold
  <2>1. n - 1 = 1 + 6 * (Bits - j + 1)
    BY <1>5
  <2>2. Did("sample")
    BY <1>5, Zenon DEF Reads
  <2>3. Scl /\ data' = Append(data, Sda) /\ UNCHANGED wires /\ hold' = hold
    BY <2>2 DEF Did
  <2>4. ReadDone(j)'
    BY <1>5, <2>3, ReadHighSampled
  <2> QED
    BY <2>1, <2>3, <2>4, Zenon DEF RxPlace
<1>6. ASSUME NEW j \in 1 .. Bits, n = 1 + 6 * (Bits - j + 1), ReadDone(j)
      PROVE  RxPlace(ack, n - 1)' /\ hold' = hold
  <2>1. n - 1 = 6 * (Bits - j + 1)
    BY <1>6
  <2>2. Did("scl_low")
    BY <1>6, Zenon DEF Reads
  <2>3. Drive(mSda, FALSE) /\ data' = data /\ hold' = hold
    BY <2>2 DEF Did
  <2>4. IF j < Bits THEN ReadLow(j + 1)' ELSE ReadAll'
    BY <1>6, <2>3, ReadDoneFalls
  <2> QED
    BY <2>1, <2>3, <2>4, Zenon DEF RxPlace
<1>7. ASSUME NEW j \in 1 .. Bits, n = 6 * (Bits - j + 1), j < Bits, ReadLow(j + 1)
      PROVE  RxPlace(ack, n - 1)' /\ hold' = hold
  <2>1. j + 1 \in 1 .. Bits /\ n - 1 = 5 + 6 * (Bits - (j + 1) + 1)
    BY <1>7
  <2>2. Did("sei")
    BY <1>7, Zenon DEF Reads
  <2>3. ReadLow(j + 1)' /\ hold' = hold
    BY <1>7, <2>2, Masked, KeptReads, Zenon
  <2> QED
    BY <2>1, <2>3, Zenon DEF RxPlace
<1>8. ASSUME NEW j \in 1 .. Bits, n = 6 * (Bits - j + 1), ~(j < Bits), ReadAll
      PROVE  RxPlace(ack, n - 1)' /\ hold' = hold
  <2>1. n - 1 = 5
    BY <1>8
  <2>2. Did("sei")
    BY <1>8, Zenon DEF Reads
  <2>3. ReadAll' /\ hold' = hold
    BY <1>8, <2>2, Masked, KeptReads, Zenon
  <2> QED
    BY <2>1, <2>3, Zenon DEF RxPlace
<1>9. CASE n = 5 /\ ReadAll
  <2>1. n - 1 = 4
    BY <1>9
  <2>2. Did(IF ack THEN "sda_low" ELSE "sda_hi")
    BY <1>9, Zenon DEF Reads
  <2>3. ASSUME ack
        PROVE  Drive(FALSE, mScl) /\ data' = data /\ hold' = hold
    BY <2>2, <2>3 DEF Did
  <2>4. ASSUME ~ack
        PROVE  Drive(TRUE, mScl) /\ data' = data /\ hold' = hold
    BY <2>2, <2>4 DEF Did
  <2>5. ReadAll' /\ (mSda' <=> ~ack) /\ hold' = hold
    BY <1>9, <2>3, <2>4, ReadAllSets
  <2> QED
    BY <2>1, <2>5, Zenon DEF RxPlace
<1>10. CASE n = 4 /\ ReadAll /\ (mSda <=> ~ack)
  <2>1. n - 1 = 3
    BY <1>10
  <2>2. Did("scl_hi")
    BY <1>10, Zenon DEF Reads
  <2>3. Drive(mSda, TRUE) /\ data' = data /\ hold' = hold
    BY <2>2 DEF Did
  <2>4. Answering(ack)'
    BY <1>10, <2>3, ReadAllRises
  <2> QED
    BY <2>1, <2>3, <2>4, Zenon DEF RxPlace
<1>11. CASE n = 3 /\ Answering(ack)
  <2>1. n - 1 = 2
    BY <1>11
  <2>2. Did("scl_low")
    BY <1>11, Zenon DEF Reads
  <2>3. Drive(mSda, FALSE) /\ data' = data /\ hold' = hold
    BY <2>2 DEF Did
  <2>4. Heard(ack)'
    BY <1>11, <2>3, AnsweringFalls
  <2> QED
    BY <2>1, <2>3, <2>4, Zenon DEF RxPlace
<1>12. CASE n = 2 /\ Heard(ack)
  <2>1. n - 1 \in 0 .. 1
    BY <1>12
  <2>2. Did("sda_hi")
    BY <1>12, Zenon DEF Reads
  <2>3. Drive(TRUE, mScl) /\ data' = data /\ hold' = hold
    BY <2>2 DEF Did
  <2>4. Heard(ack)' /\ mSda'
    BY <1>12, <2>3, HeardReleases
  <2> QED
    BY <2>1, <2>3, <2>4, Zenon DEF RxPlace
<1>13. CASE n = 1 /\ Heard(ack) /\ mSda
  <2>1. n - 1 \in 0 .. 1
    BY <1>13
  <2>2. Did("sei")
    BY <1>13, Zenon DEF Reads
  <2>3. Heard(ack)' /\ mSda' = mSda /\ hold' = hold
    BY <1>13, <2>2, Masked, KeptReads, Zenon DEF Kept
  <2> QED
    BY <1>13, <2>1, <2>3, Zenon DEF RxPlace
<1>14. n \in 0 .. 1 => n = 1
  OBVIOUS
<1> QED
  BY <1>1, <1>2, <1>3, <1>4, <1>5, <1>6, <1>7, <1>8, <1>9, <1>10, <1>11, <1>12, <1>13, <1>14,
     Zenon DEF RxPlace

-----------------------------------------------------------------------------
(* Types of the wires and the slave, whoever calls the driver and wherever  *)
(* the slave holds SCL.                                                     *)

SlaveLike(s) == s \in SlaveStates /\ (s.role = "send" => s.bits \in Bytes)

LEMMA SampledTypes ==
  ASSUME NEW s, SlaveLike(s), NEW x \in BOOLEAN
  PROVE  SlaveLike(Sampled(s, x))
<1>1. CASE s.role \in {"addr", "recv"} /\ s.n < Bits
  <2>1. Sampled(s, x) = [s EXCEPT !.bits = Append(s.bits, x)]
    BY <1>1, Zenon DEF Sampled
  <2>2. s.bits \in Seq(BOOLEAN) /\ s \in SlaveStates
    BY DEF SlaveLike, SlaveStates
  <2>3. Append(s.bits, x) \in Seq(BOOLEAN)
    BY <2>2
  <2>4. [s EXCEPT !.bits = Append(s.bits, x)] \in SlaveStates
    BY <2>2, <2>3 DEF SlaveStates
  <2>5. [s EXCEPT !.bits = Append(s.bits, x)].role # "send"
    BY <1>1, <2>2 DEF SlaveStates
  <2> QED
    BY <2>1, <2>4, <2>5, Zenon DEF SlaveLike
<1>2. CASE s.role = "send" /\ s.n = Bits
  <2>1. Sampled(s, x) = [s EXCEPT !.heard = ~x]
    BY <1>2, Zenon DEF Sampled
  <2>2. s \in SlaveStates /\ (~x) \in BOOLEAN
    BY Zenon DEF SlaveLike
  <2>3. [s EXCEPT !.heard = ~x] \in SlaveStates
    BY <2>2 DEF SlaveStates
  <2>4. /\ [s EXCEPT !.heard = ~x].role = s.role /\ [s EXCEPT !.heard = ~x].bits = s.bits
    BY <2>2 DEF SlaveStates
  <2> QED
    BY <2>1, <2>3, <2>4, Zenon DEF SlaveLike
<1>3. CASE ~(s.role \in {"addr", "recv"} /\ s.n < Bits) /\ ~(s.role = "send" /\ s.n = Bits)
  BY <1>3, Unsampled
<1> QED
  BY <1>1, <1>2, <1>3

LEMMA SclTypes ==
  ASSUME NEW s, SlaveLike(s), NEW x \in BOOLEAN
  PROVE  SlaveLike([s EXCEPT !.scl = x])
<1>1. [s EXCEPT !.scl = x] \in SlaveStates
  BY DEF SlaveLike, SlaveStates
<1>2. [s EXCEPT !.scl = x].role = s.role /\ [s EXCEPT !.scl = x].bits = s.bits
  BY DEF SlaveLike, SlaveStates
<1> QED
  BY <1>1, <1>2 DEF SlaveLike

LEMMA AfterTypes ==
  ASSUME SlaveIs, NEW u \in After(slave)
  PROVE  SlaveLike(u)
<1>1. slave \in SlaveStates /\ slave.n \in -1 .. Bits /\ slave.bits \in Seq(BOOLEAN)
  BY DEF SlaveIs, SlaveStates
<1>2. CASE slave.role = "off"
  BY <1>2 DEF SlaveIs, After, SlaveLike
<1>3. CASE slave.role # "off" /\ slave.n < Bits - 1
  <2> DEFINE level == IF slave.role = "send" THEN slave.bits[slave.n + 2] ELSE slave.sda
  <2>1. slave.n + 1 \in -1 .. Bits /\ slave.n + 2 \in 1 .. Bits
    BY <1>1, <1>3
  <2>2. level \in BOOLEAN
    <3>1. CASE slave.role = "send"
      BY <2>1, <3>1 DEF SlaveIs
    <3>2. CASE slave.role # "send"
      BY <3>2 DEF SlaveIs, SlaveStates
    <3> QED
      BY <3>1, <3>2
  <2>3. After(slave) = CASE slave.n < Bits - 1 -> {[slave EXCEPT !.n = @ + 1, !.sda = level]}
                         [] slave.n = Bits - 1 -> AckSlot(slave)
                         [] OTHER -> NextByte(slave)
    BY <1>3, Zenon DEF After
  <2> HIDE DEF level
  <2>4. u = [slave EXCEPT !.n = slave.n + 1, !.sda = level]
    BY <1>3, <2>3
  <2>5. u \in SlaveStates
    BY <1>1, <2>1, <2>2, <2>4 DEF SlaveStates
  <2>6. u.role = slave.role /\ u.bits = slave.bits
    BY <1>1, <2>4 DEF SlaveStates
  <2> QED
    BY <2>5, <2>6 DEF SlaveLike, SlaveIs
<1>4. CASE slave.role # "off" /\ slave.n = Bits - 1
  <2> DEFINE t == [slave EXCEPT !.n = Bits, !.last = slave.bits]
  <2>1. After(slave) = AckSlot(slave)
    BY <1>4 DEF After
  <2>2. u = Released(slave) \/ u = [t EXCEPT !.sda = FALSE] \/ u = [t EXCEPT !.sda = TRUE]
    BY <2>1 DEF AckSlot
  <2>3. t \in SlaveStates
    <3>1. Bits \in -1 .. Bits
      OBVIOUS
    <3> QED
      BY <1>1, <3>1 DEF SlaveStates
  <2>4. t.role = slave.role /\ t.bits = slave.bits
    BY <1>1 DEF SlaveStates
  <2> HIDE DEF t
  <2>5. CASE u = Released(slave)
    <3>1. 0 \in -1 .. Bits /\ <<>> \in Seq(BOOLEAN)
      BY EmptySeq
    <3>2. u \in SlaveStates
      BY <1>1, <2>5, <3>1 DEF Released, SlaveStates
    <3>3. u.role = "off"
      BY <1>1, <2>5 DEF Released, SlaveStates
    <3> QED
      BY <3>2, <3>3 DEF SlaveLike
  <2>6. ASSUME NEW d \in BOOLEAN, u = [t EXCEPT !.sda = d]
        PROVE  SlaveLike(u)
    <3>1. u \in SlaveStates
      BY <2>3, <2>6 DEF SlaveStates
    <3>2. u.role = t.role /\ u.bits = t.bits
      BY <2>3, <2>6 DEF SlaveStates
    <3> QED
      BY <2>4, <3>1, <3>2 DEF SlaveLike, SlaveIs
  <2> QED
    BY <2>2, <2>5, <2>6
<1>5. CASE slave.role # "off" /\ slave.n = Bits
  <2>1. After(slave) = NextByte(slave)
    BY <1>5 DEF After
  <2>2. 0 \in -1 .. Bits /\ <<>> \in Seq(BOOLEAN)
    BY EmptySeq
  <2>3. \/ u = Released(slave)
        \/ \E b \in Bytes :
             u = [slave EXCEPT !.role = "send", !.n = 0, !.bits = b, !.sda = b[1]]
        \/ u = [slave EXCEPT !.role = "recv", !.n = 0, !.bits = <<>>, !.sda = TRUE]
    <3> DEFINE a == slave.role = "send" /\ ~slave.heard
               c == slave.role = "send" \/ (slave.role = "addr" /\ Last(slave.bits))
    <3>1. CASE a
      <4>1. NextByte(slave) = {Released(slave)}
        BY <3>1, Zenon DEF NextByte
      <4> QED
        BY <2>1, <4>1
    <3>2. CASE ~a /\ c
      <4> DEFINE g(b) == [slave EXCEPT !.role = "send", !.n = 0, !.bits = b, !.sda = b[1]]
      <4>1. NextByte(slave) = {g(b) : b \in Bytes}
        BY <3>2, Zenon DEF NextByte
      <4> HIDE DEF g
      <4>2. \E b \in Bytes : u = g(b)
        BY <2>1, <4>1
      <4> QED
        BY <4>2, Zenon DEF g
    <3>3. CASE ~a /\ ~c
      <4>1. NextByte(slave) = {[slave EXCEPT !.role = "recv", !.n = 0, !.bits = <<>>, !.sda = TRUE]}
        BY <3>3, Zenon DEF NextByte
      <4> QED
        BY <2>1, <4>1
    <3> QED
      BY <3>1, <3>2, <3>3
  <2>4. CASE u = Released(slave)
    <3>1. u \in SlaveStates
      BY <1>1, <2>2, <2>4 DEF Released, SlaveStates
    <3>2. u.role = "off"
      BY <1>1, <2>4 DEF Released, SlaveStates
    <3> QED
      BY <3>1, <3>2 DEF SlaveLike
  <2>5. ASSUME NEW b \in Bytes,
               u = [slave EXCEPT !.role = "send", !.n = 0, !.bits = b, !.sda = b[1]]
        PROVE  SlaveLike(u)
    <3>1. b[1] \in BOOLEAN
      OBVIOUS
    <3>2. b \in Seq(BOOLEAN)
      BY SeqDef
    <3>3. u \in SlaveStates
      BY <1>1, <2>2, <2>5, <3>1, <3>2 DEF SlaveStates
    <3>4. u.bits = b
      BY <1>1, <2>5 DEF SlaveStates
    <3> QED
      BY <3>3, <3>4 DEF SlaveLike
  <2>6. CASE u = [slave EXCEPT !.role = "recv", !.n = 0, !.bits = <<>>, !.sda = TRUE]
    <3>1. u \in SlaveStates
      BY <1>1, <2>2, <2>6 DEF SlaveStates
    <3>2. u.role = "recv"
      BY <1>1, <2>6 DEF SlaveStates
    <3> QED
      BY <3>1, <3>2 DEF SlaveLike
  <2> QED
    BY <2>3, <2>4, <2>5, <2>6
<1> QED
  BY <1>1, <1>2, <1>3, <1>4, <1>5

LEMMA DriveTypes ==
  ASSUME WiresAre, NEW x \in BOOLEAN, NEW y \in BOOLEAN, Drive(x, y)
  PROVE  WiresAre'
<1>1. mSda' \in BOOLEAN /\ mScl' \in BOOLEAN /\ Edge(x /\ slave.sda, y /\ slave.scl)
  BY DEF Drive
<1>2. SlaveIs /\ SlaveLike(slave)
  BY DEF WiresAre, SlaveIs, SlaveLike
<1>3. SlaveIs' <=> SlaveLike(slave')
  BY DEF SlaveIs, SlaveLike
<1>4. CASE slave' = Started(slave) \/ slave' = Released(slave)
  BY <1>1, <1>2, <1>4, StartedIs, ReleasedIs DEF WiresAre
<1>5. CASE slave' = Sampled([slave EXCEPT !.scl = TRUE], x /\ slave.sda)
  <2>1. (x /\ slave.sda) \in BOOLEAN
    BY <1>2, Zenon
  <2>2. SlaveLike([slave EXCEPT !.scl = TRUE])
    BY <1>2, SclTypes
  <2>3. SlaveLike(slave')
    BY <1>5, <2>1, <2>2, SampledTypes
  <2> QED
    BY <1>1, <1>3, <2>3 DEF WiresAre
<1>6. CASE slave' \in Fell(slave)
  <2>1. PICK u \in After(slave) : slave' = u \/ slave' = [u EXCEPT !.scl = FALSE]
    BY <1>6, FellIs, Zenon
  <2>2. SlaveLike(u)
    BY <1>2, <2>1, AfterTypes
  <2>3. SlaveLike(slave')
    BY <2>1, <2>2, SclTypes
  <2> QED
    BY <1>1, <1>3, <2>3 DEF WiresAre
<1>7. CASE slave' = slave
  BY <1>1, <1>2, <1>3, <1>7 DEF WiresAre
<1> QED
  BY <1>1, <1>4, <1>5, <1>6, <1>7, Zenon DEF Edge

LEMMA ReleaseTypes ==
  ASSUME WiresAre, ReleaseScl
  PROVE  WiresAre'
<1>1. SlaveLike(slave) /\ UNCHANGED <<mSda, mScl>> /\ mSda \in BOOLEAN /\ mScl \in BOOLEAN
  BY DEF WiresAre, SlaveIs, SlaveLike, ReleaseScl
<1>2. Sda \in BOOLEAN
  BY Zenon DEF Sda
<1>3. SlaveLike([slave EXCEPT !.scl = TRUE])
  BY <1>1, SclTypes
<1>4. SlaveLike(Sampled([slave EXCEPT !.scl = TRUE], Sda))
  BY <1>2, <1>3, SampledTypes
<1>5. SlaveLike(slave')
  BY <1>3, <1>4, Zenon DEF ReleaseScl
<1> QED
  BY <1>1, <1>5 DEF WiresAre, SlaveIs, SlaveLike

-----------------------------------------------------------------------------
(* What the wires show of a step *)

\* SCL moves within a transfer, and SDA while SCL is low or between two frames.
Lawful(op) ==
  /\ op = "scl_low" => busy
  /\ op = "scl_hi" => busy \/ mScl
  /\ op = "sda_hi" => ~mScl \/ mSda \/ (busy /\ clocks = 0)
  /\ op = "sda_low" => ~mScl \/ clocks = 0

ProtocolStep == [Protocol!Next]_(Protocol!vars)

LEMMA StillProtocol ==
  ASSUME UNCHANGED wires
  PROVE  ProtocolStep
<1>1. Sda' = Sda /\ Scl' = Scl /\ busy' = busy /\ clocks' = clocks
  BY DEF wires, Sda, Scl
<1> QED
  BY <1>1, Zenon DEF ProtocolStep, Protocol!vars

LEMMA SampledWires ==
  ASSUME NEW s \in SlaveStates, NEW x
  PROVE  Sampled(s, x).sda = s.sda /\ Sampled(s, x).scl = s.scl
<1>1. CASE s.role \in {"addr", "recv"} /\ s.n < Bits
  <2>1. Sampled(s, x) = [s EXCEPT !.bits = Append(s.bits, x)]
    BY <1>1, Zenon DEF Sampled
  <2> QED
    BY <2>1 DEF SlaveStates
<1>2. CASE s.role = "send" /\ s.n = Bits
  <2>1. Sampled(s, x) = [s EXCEPT !.heard = ~x]
    BY <1>2, Zenon DEF Sampled
  <2> QED
    BY <2>1 DEF SlaveStates
<1>3. CASE ~(s.role \in {"addr", "recv"} /\ s.n < Bits) /\ ~(s.role = "send" /\ s.n = Bits)
  BY <1>3, Unsampled
<1> QED
  BY <1>1, <1>2, <1>3

LEMMA ReleaseProtocol ==
  ASSUME WiresAre, ReleaseScl, mScl => busy
  PROVE  ProtocolStep
<1>1. /\ UNCHANGED <<mSda, mScl, busy, clocks>> /\ ~slave.scl /\ slave \in SlaveStates
  BY DEF ReleaseScl, WiresAre, SlaveIs
<1> DEFINE r == [slave EXCEPT !.scl = TRUE]
<1>2. r \in SlaveStates
  BY <1>1 DEF SlaveStates
<1>3. r.sda = slave.sda
  BY <1>1 DEF SlaveStates
<1>4. r.scl
  BY <1>1 DEF SlaveStates
<1>5. slave' = r \/ slave' = Sampled(r, Sda)
  BY Zenon DEF ReleaseScl
<1> HIDE DEF r
<1>6. slave'.sda = slave.sda /\ slave'.scl
  BY <1>2, <1>3, <1>4, <1>5, SampledWires
<1>7. Sda' = Sda /\ ~Scl /\ Sda' \in BOOLEAN /\ busy' = busy /\ clocks' = clocks
  BY <1>1, <1>6, Zenon DEF Sda, Scl
<1>8. CASE mScl
  <2>1. Scl' /\ busy
    BY <1>1, <1>6, <1>8, Zenon DEF Scl
  <2> QED
    BY <1>7, <2>1, Zenon DEF ProtocolStep, Protocol!Next, Protocol!ClockRise
<1>9. CASE ~mScl
  <2>1. ~Scl'
    BY <1>1, <1>9, Zenon DEF Scl
  <2> QED
    BY <1>7, <2>1, Zenon DEF ProtocolStep, Protocol!Next, Protocol!SetData
<1> QED
  BY <1>8, <1>9

\* No edge: SCL stays, and SDA too unless SCL is low.
LEMMA Unmoved ==
  ASSUME NEW x, NEW y, Drive(x, y), Scl = (y /\ slave.scl), Scl => Sda = (x /\ slave.sda)
  PROVE  ProtocolStep
<1>1. mSda' = x /\ mScl' = y /\ Edge(x /\ slave.sda, y /\ slave.scl)
  BY DEF Drive
<1>2. UNCHANGED <<slave, busy, clocks>>
  BY <1>1, Zenon DEF Edge
<1>3. Scl' = Scl /\ Sda' = (x /\ slave.sda)
  BY <1>1, <1>2 DEF Scl, Sda
<1>4. Sda' \in BOOLEAN
  BY <1>3, Zenon
<1>5. CASE Scl
  BY <1>2, <1>3, <1>5, Zenon DEF ProtocolStep, Protocol!vars
<1>6. CASE ~Scl
  BY <1>2, <1>3, <1>4, <1>6, Zenon DEF ProtocolStep, Protocol!Next, Protocol!SetData
<1> QED
  BY <1>5, <1>6

LEMMA LawfulStep ==
  ASSUME WiresAre, WiresAre', NEW op \in Ops, Did(op), Lawful(op)
  PROVE  ProtocolStep
<1>1. /\ mSda \in BOOLEAN /\ mScl \in BOOLEAN /\ SlaveIs /\ slave \in SlaveStates
      /\ slave.sda \in BOOLEAN /\ slave.scl \in BOOLEAN
  BY DEF WiresAre, SlaveIs, SlaveStates
<1>2. CASE op \in {"cli", "sei", "hold", "unhold", "sample"}
  <2>1. UNCHANGED wires
    BY <1>2 DEF Did
  <2> QED
    BY <2>1, StillProtocol
<1>3. CASE op = "scl_low"
  <2>1. Drive(mSda, FALSE) /\ busy
    BY <1>3 DEF Did, Lawful
  <2>2. CASE Scl
    <3>1. mScl /\ slave.scl
      BY <2>2 DEF Scl
    <3>2. clocks' = (clocks + 1) % (Bits + 1) /\ busy' = busy
      BY <1>1, <2>1, <3>1, DriveFall
    <3>3. ~Scl' /\ Sda' \in BOOLEAN
      BY <2>1, Zenon DEF Drive, Scl, Sda
    <3> QED
      BY <2>1, <2>2, <3>2, <3>3, Zenon DEF ProtocolStep, Protocol!Next, Protocol!ClockFall
  <2>3. CASE ~Scl
    <3>1. Scl = (FALSE /\ slave.scl)
      BY <2>3, Zenon DEF Scl
    <3> QED
      BY <2>1, <2>3, <3>1, Unmoved
  <2> QED
    BY <2>2, <2>3
<1>4. CASE op = "scl_hi"
  <2>1. Drive(mSda, TRUE) /\ (busy \/ mScl)
    BY <1>4 DEF Did, Lawful
  <2>2. CASE mScl \/ ~slave.scl
    <3>1. Scl = (TRUE /\ slave.scl)
      BY <1>1, <2>2, Zenon DEF Scl
    <3>2. Sda = (mSda /\ slave.sda)
      BY DEF Sda
    <3> QED
      BY <2>1, <3>1, <3>2, Unmoved
  <2>3. CASE ~mScl /\ slave.scl
    <3>1. slave' = Sampled(slave, mSda /\ slave.sda) /\ UNCHANGED <<busy, clocks>>
      BY <1>1, <2>1, <2>3, DriveRise
    <3>2. slave'.sda = slave.sda /\ slave'.scl = slave.scl
      BY <1>1, <3>1, SampledWires
    <3>3. mSda' = mSda /\ mScl' = TRUE
      BY <2>1 DEF Drive
    <3>4. ~Scl /\ Scl' /\ Sda' = Sda /\ busy
      BY <2>1, <2>3, <3>2, <3>3, Zenon DEF Scl, Sda
    <3> QED
      BY <3>1, <3>4, Zenon DEF ProtocolStep, Protocol!Next, Protocol!ClockRise
  <2> QED
    BY <2>2, <2>3
<1>5. Scl = (mScl /\ slave.scl) /\ Sda = (mSda /\ slave.sda)
  BY DEF Scl, Sda
<1>6. CASE op = "sda_hi"
  <2>1. Drive(TRUE, mScl) /\ (~mScl \/ mSda \/ (busy /\ clocks = 0))
    BY <1>6 DEF Did, Lawful
  <2>2. CASE ~Scl \/ mSda \/ ~slave.sda
    <3>1. Scl => Sda = (TRUE /\ slave.sda)
      BY <1>1, <1>5, <2>2, Zenon
    <3> QED
      BY <1>5, <2>1, <3>1, Unmoved
  <2>3. CASE Scl /\ ~mSda /\ slave.sda
    <3>1. mScl /\ slave.scl /\ busy /\ clocks = 0
      BY <2>1, <2>3 DEF Scl
    <3>2. slave' = Released(slave) /\ busy' = FALSE /\ clocks' = 0
      BY <2>1, <2>3, <3>1, DriveStop
    <3>3. slave'.sda /\ slave'.scl = slave.scl
      BY <1>1, <3>2, ReleasedIs
    <3>4. mSda' = TRUE /\ mScl' = mScl
      BY <2>1 DEF Drive
    <3>5. Scl' /\ Sda' /\ ~Sda
      BY <2>3, <3>1, <3>3, <3>4, Zenon DEF Scl, Sda
    <3> QED
      BY <2>3, <3>1, <3>2, <3>5, Zenon DEF ProtocolStep, Protocol!Next, Protocol!StopCondition
  <2> QED
    BY <2>2, <2>3
<1>7. CASE op = "sda_low"
  <2>1. Drive(FALSE, mScl) /\ (~mScl \/ clocks = 0)
    BY <1>7 DEF Did, Lawful
  <2>2. CASE ~Scl \/ ~mSda \/ ~slave.sda
    <3>1. Scl => Sda = (FALSE /\ slave.sda)
      BY <1>1, <1>5, <2>2, Zenon
    <3> QED
      BY <1>5, <2>1, <3>1, Unmoved
  <2>3. CASE Scl /\ mSda /\ slave.sda
    <3>1. mScl /\ slave.scl /\ clocks = 0
      BY <2>1, <2>3 DEF Scl
    <3>2. slave' = Started(slave) /\ busy' = TRUE /\ clocks' = -1
      BY <2>1, <2>3, <3>1, DriveStart
    <3>3. slave'.scl = slave.scl
      BY <1>1, <3>2, StartedIs
    <3>4. mSda' = FALSE /\ mScl' = mScl
      BY <2>1 DEF Drive
    <3>5. Scl' /\ ~Sda' /\ Sda
      BY <2>3, <3>1, <3>3, <3>4, Zenon DEF Scl, Sda
    <3> QED
      BY <2>3, <3>1, <3>2, <3>5, Zenon DEF ProtocolStep, Protocol!Next, Protocol!StartCondition
  <2> QED
    BY <2>2, <2>3
<1> QED
  BY <1>2, <1>3, <1>4, <1>6, <1>7 DEF Ops

LEMMA Lawfuls ==
  /\ busy /\ ~mScl => \A op : Lawful(op)
  /\ busy => Lawful("scl_low") /\ Lawful("scl_hi")
  /\ Lawful("cli") /\ Lawful("sei") /\ Lawful("hold") /\ Lawful("unhold") /\ Lawful("sample")
BY DEF Lawful

LEMMA SendLawful ==
  ASSUME NEW b \in AllBits, NEW role,
         NEW P, NEW T \in Nat, Sends(P, b, T), NEW m \in 1 .. 3 * Bits + 8,
         SendPlace(b, role, m)
  PROVE  Lawful(Statement(P, T + m))
<1>1. \A j : BitLow(b, role, j) \/ BitSet(b, role, j) => busy /\ ~mScl
  BY Zenon DEF BitLow, BitSet
<1>2. AckLow(b, role) \/ Answered(b, role) => busy /\ ~mScl
  BY Zenon DEF AckLow, Answered
<1>3. ASSUME NEW j \in 1 .. Bits, m = 5 + 3 * (Bits - j + 1), BitHigh(b, role, j)
      PROVE  Lawful(Statement(P, T + m))
  <2>1. T + m = T + 5 + 3 * (Bits - j + 1)
    BY <1>3
  <2>2. Statement(P, T + m) = "scl_low"
    BY <2>1, Zenon DEF Sends
  <2>3. busy
    BY <1>3 DEF BitHigh
  <2> QED
    BY <2>2, <2>3, Lawfuls, Zenon
<1>4. CASE m = 3 /\ AckHigh(b, role)
  <2>1. Statement(P, T + m) = "sample"
    BY <1>4 DEF Sends
  <2> QED
    BY <2>1, Lawfuls, Zenon
<1>5. CASE m = 2 /\ AckRead(b, role)
  <2>1. Statement(P, T + m) = "scl_low" /\ busy
    BY <1>5 DEF Sends, AckRead
  <2> QED
    BY <2>1, Lawfuls, Zenon
<1> QED
  BY <1>1, <1>2, <1>3, <1>4, <1>5, Lawfuls, Zenon DEF SendPlace

LEMMA StartLawful ==
  ASSUME NEW held \in BOOLEAN, NEW b \in AllBits,
         NEW P, NEW T \in Nat, Starts(P, held, b, T), NEW m \in 1 .. StartLength(held),
         StartPlace(held, b, m)
  PROVE  Lawful(Statement(P, T + m))
<1> DEFINE B == 3 * Bits
<1>1. (Quiet => busy /\ ~mScl) /\ (BitLow(b, "addr", 1) => busy /\ ~mScl)
  BY Zenon DEF Quiet, BitLow
<1>2. CASE ~held /\ m = B + 12
  <2>1. T + m = T + 3 * Bits + 12
    BY <1>2
  <2>2. Statement(P, T + m) = "cli"
    BY <1>2, <2>1, Zenon DEF Starts
  <2> QED
    BY <2>2, Lawfuls, Zenon
<1>3. CASE m = B + 11 /\ Ready
  <2>1. T + m = T + 3 * Bits + 11
    BY <1>3
  <2>2. Statement(P, T + m) = "sda_low"
    BY <2>1, Zenon DEF Starts
  <2>3. clocks = 0
    BY <1>3 DEF Ready
  <2> QED
    BY <2>2, <2>3 DEF Lawful
<1>4. CASE m = B + 10 /\ Begun
  <2>1. T + m = T + 3 * Bits + 10
    BY <1>4
  <2>2. Statement(P, T + m) = "scl_low" /\ busy
    BY <1>4, <2>1, Zenon DEF Starts, Begun
  <2> QED
    BY <2>2, Lawfuls, Zenon
<1>5. CASE SendPlace(b, "addr", m)
  <2>1. m \in 1 .. B + 8
    BY <1>5 DEF SendPlace
  <2> QED
    BY <1>5, <2>1, SendLawful DEF Starts
<1> QED
  BY <1>1, <1>2, <1>3, <1>4, <1>5, Lawfuls, Zenon DEF StartPlace

LEMMA StopLawful ==
  ASSUME NEW P, Stops(P), NEW n \in 1 .. 7, StopPlace(n)
  PROVE  Lawful(Statement(P, n))
<1>1. /\ Statement(P, 3) = "sda_hi" /\ Statement(P, 2) = "unhold" /\ Statement(P, 1) = "sei"
  BY MasterStopIs DEF Stops
<1>2. Quiet => busy /\ ~mScl
  BY DEF Quiet
<1>3. CASE n = 3 /\ Ending
  <2>1. busy /\ clocks = 0
    BY <1>3 DEF Ending
  <2> QED
    BY <1>1, <1>3, <2>1 DEF Lawful
<1>4. CASE n = 2 \/ n = 1
  BY <1>1, <1>4, Lawfuls
<1>5. n \in 0 .. 1 => n = 1
  OBVIOUS
<1> QED
  BY <1>2, <1>3, <1>4, <1>5, Lawfuls, Zenon DEF StopPlace

LEMMA TxLawful ==
  ASSUME NEW b \in AllBits, NEW n \in 1 .. 3 * Bits + 10, TxPlace(b, n)
  PROVE  Lawful(Statement(MasterTx(b), n))
<1>1. Sends(MasterTx(b), b, 1) /\ Statement(MasterTx(b), 1) = "sei"
  BY TxIs
<1>2. CASE BitLow(b, "recv", 1)
  <2>1. busy /\ ~mScl
    BY <1>2 DEF BitLow
  <2> QED
    BY <2>1, Lawfuls, Zenon
<1>3. CASE n = 1
  BY <1>1, <1>3, Lawfuls
<1>4. CASE n # 1 /\ SendPlace(b, "recv", n - 1)
  <2> DEFINE m == n - 1
  <2>1. m \in 1 .. 3 * Bits + 8 /\ 1 + m = n
    <3>1. n - 1 <= 3 * Bits + 8
      BY <1>4 DEF SendPlace
    <3> QED
      BY <1>4, <3>1
  <2>2. SendPlace(b, "recv", m)
    BY <1>4
  <2> HIDE DEF m
  <2>3. Lawful(Statement(MasterTx(b), 1 + m))
    BY <1>1, <2>1, <2>2, SendLawful
  <2> QED
    BY <2>1, <2>3
<1> QED
  BY <1>2, <1>3, <1>4 DEF TxPlace

LEMMA ClearLawful ==
  ASSUME NEW held \in BOOLEAN, NEW P, Starts(P, held, StartByte, 7), Stops(P),
         NEW n \in 1 .. 7 + StartLength(held), ClearPlace(held, n)
  PROVE  Lawful(Statement(P, n))
<1>1. StartLength(held) \in Nat
  BY DEF StartLength
<1>2. CASE n >= 8 /\ StartPlace(held, StartByte, n - 7)
  <2> DEFINE m == n - 7
  <2>1. m \in 1 .. StartLength(held) /\ 7 + m = n /\ StartPlace(held, StartByte, m)
    BY <1>1, <1>2
  <2> HIDE DEF m
  <2>2. Lawful(Statement(P, 7 + m))
    BY <2>1, StartByteIs, StartLawful
  <2> QED
    BY <2>1, <2>2
<1>3. CASE StopPlace(n)
  <2>1. n \in 1 .. 7
    BY <1>3 DEF StopPlace
  <2> QED
    BY <1>3, <2>1, StopLawful
<1> QED
  BY <1>2, <1>3 DEF ClearPlace

LEMMA RxLawful ==
  ASSUME NEW ack \in BOOLEAN, NEW P, Reads(P, ack),
         NEW n \in 1 .. 6 * Bits + 6, RxPlace(ack, n)
  PROVE  Lawful(Statement(P, n))
<1>1. \A j : ReadLow(j) => busy /\ ~mScl
  BY Zenon DEF ReadLow
<1>2. (ReadAll => busy /\ ~mScl) /\ (Heard(ack) => busy /\ ~mScl)
  BY Zenon DEF ReadAll, Heard
<1>3. ASSUME NEW j \in 1 .. Bits, n = 2 + 6 * (Bits - j + 1)
      PROVE  Lawful(Statement(P, n))
  <2>1. Statement(P, n) = "sample"
    BY <1>3, Zenon DEF Reads
  <2> QED
    BY <2>1, Lawfuls, Zenon
<1>4. ASSUME NEW j \in 1 .. Bits, n = 1 + 6 * (Bits - j + 1), ReadDone(j)
      PROVE  Lawful(Statement(P, n))
  <2>1. Statement(P, n) = "scl_low" /\ busy
    BY <1>4, Zenon DEF Reads, ReadDone
  <2> QED
    BY <2>1, Lawfuls, Zenon
<1>5. CASE n = 3 /\ Answering(ack)
  <2>1. Statement(P, n) = "scl_low" /\ busy
    BY <1>5, Zenon DEF Reads, Answering
  <2> QED
    BY <2>1, Lawfuls, Zenon
<1>6. (busy /\ ~mScl) => Lawful(Statement(P, n))
  BY Lawfuls, Zenon
<1>7. ASSUME NEW j \in 1 .. Bits, IF j < Bits THEN ReadLow(j + 1) ELSE ReadAll
      PROVE  busy /\ ~mScl
  BY <1>1, <1>2, <1>7
<1> QED
  BY <1>1, <1>2, <1>3, <1>4, <1>5, <1>6, <1>7, Zenon DEF RxPlace

LEMMA OpenLawful ==
  ASSUME WiresAre, NEW n \in 1 .. 3 * Bits + 22, OpenPlace(n)
  PROVE  Lawful(Statement(Open, n))
<1> DEFINE B == 3 * Bits
<1>1. /\ Starts(Open, FALSE, StartByte, 7) /\ Stops(Open)
      /\ Statement(Open, B + 22) = "sda_hi" /\ Statement(Open, B + 21) = "scl_hi"
      /\ Statement(Open, B + 20) = "unhold"
  BY OpenIs
<1>2. Quiet => busy /\ ~mScl
  BY DEF Quiet
<1>3. CASE n = B + 22 /\ Ready
  <2>1. mSda
    BY <1>3 DEF Ready
  <2> QED
    BY <1>1, <1>3, <2>1 DEF Lawful
<1>4. CASE n = B + 21 /\ Ready
  <2>1. mScl
    BY <1>4 DEF Ready
  <2> QED
    BY <1>1, <1>4, <2>1 DEF Lawful
<1>5. CASE n = B + 20
  BY <1>1, <1>5, Lawfuls
<1>6. CASE ClearPlace(FALSE, n)
  <2>1. n \in 1 .. 7 + StartLength(FALSE)
    <3>1. n \in Nat \ {0}
      OBVIOUS
    <3> QED
      BY <1>6, <3>1, ClearRange, Zenon
  <2> QED
    BY <1>1, <1>6, <2>1, ClearLawful
<1> QED
  BY <1>2, <1>3, <1>4, <1>5, <1>6, Lawfuls, Zenon DEF OpenPlace

-----------------------------------------------------------------------------
(* The slave lets SCL go *)

LEMMA PlaceKept ==
  ASSUME Kept, hold' = hold, call' = call, NEW held, NEW n, Place(held, n)
  PROVE  Place(held, n)'
<1>1. \A b, role, m : SendPlace(b, role, m) => SendPlace(b, role, m)'
  <2> SUFFICES ASSUME NEW b, NEW role, NEW m, SendPlace(b, role, m)
        PROVE  SendPlace(b, role, m)'
    BY Zenon
  <2>1. mSda => mSda'
    BY DEF Kept
  <2> QED
    BY <2>1, KeptBits, KeptAcks, Zenon DEF SendPlace
<1>2. \A b, m : StartPlace(held, b, m) => StartPlace(held, b, m)'
  BY <1>1, KeptQuiet, KeptBits, Zenon DEF StartPlace, Kept
<1>3. \A m : StopPlace(m) => StopPlace(m)'
  BY KeptQuiet, Zenon DEF StopPlace
<1>4. \A b, m : TxPlace(b, m) => TxPlace(b, m)'
  BY <1>1, KeptBits, KeptAcks, Zenon DEF TxPlace
<1>5. \A m : ClearPlace(held, m) => ClearPlace(held, m)'
  BY <1>2, <1>3, Zenon DEF ClearPlace, Kept
<1>6. \A b, m : StartPlace(FALSE, b, m) => StartPlace(FALSE, b, m)'
  BY <1>1, KeptQuiet, KeptBits, Zenon DEF StartPlace, Kept
<1>7. \A m : ClearPlace(FALSE, m) => ClearPlace(FALSE, m)'
  BY <1>3, <1>6, Zenon DEF ClearPlace, Kept
<1>8. \A m : OpenPlace(m) => OpenPlace(m)'
  BY <1>7, KeptQuiet, Zenon DEF OpenPlace, Kept
<1>9. \A ack, m : RxPlace(ack, m) => RxPlace(ack, m)'
  <2> SUFFICES ASSUME NEW ack, NEW m, RxPlace(ack, m)
        PROVE  RxPlace(ack, m)'
    BY Zenon
  <2>1. (mSda => mSda') /\ ((mSda <=> ~ack) => (mSda' <=> ~ack))
    BY DEF Kept
  <2>2. \A j : (IF j < Bits THEN ReadLow(j + 1) ELSE ReadAll)
                  => (IF j < Bits THEN ReadLow(j + 1) ELSE ReadAll)'
    BY KeptReads, Zenon
  <2> QED
    BY <2>1, <2>2, KeptReads, Zenon DEF RxPlace
<1>10. data' = data
  BY DEF Kept
<1> QED
  BY <1>2, <1>3, <1>4, <1>5, <1>8, <1>9, <1>10, KeptQuiet, Zenon DEF Place

\* SCL is held only where the slave does not sample SDA as it rises.
Still ==
  \/ slave.scl
  \/ /\ ~(slave.role \in {"addr", "recv"} /\ slave.n < Bits)
     /\ ~(slave.role = "send" /\ slave.n = Bits)

LEMMA PlaceStill ==
  ASSUME NEW held, NEW n, Place(held, n)
  PROVE  Still
<1>1. Quiet \/ Free \/ Ready \/ Begun \/ Ending => Still
  BY Zenon DEF Quiet, Free, Ready, Begun, Ending, Idling, Still
<1>2. \A b, role, j : BitLow(b, role, j) \/ BitSet(b, role, j) \/ BitHigh(b, role, j) => Still
  BY Zenon DEF BitLow, BitSet, BitHigh, Still
<1>3. (Serving => Still) /\ (Hearing => Still) /\ (Gone => Still)
  BY DEF Serving, Hearing, Gone, Still
<1>4. \A b : \A role \in {"addr", "recv"} :
        Acking(b, role) \/ AckLow(b, role) \/ AckHigh(b, role) \/ AckRead(b, role) => Still
  <2>1. \A b : \A role \in {"addr", "recv"} : Acking(b, role) => Still
    BY DEF Acking, Still
  <2> QED
    BY <2>1, Zenon DEF AckLow, AckHigh, AckRead
<1>5. \A b, role : Answered(b, role) => Still
  BY <1>3, Zenon DEF Answered
<1>6. \A j \in 1 .. Bits : ReadLow(j) \/ ReadHigh(j) \/ ReadDone(j) => Still
  BY DEF ReadLow, ReadHigh, ReadDone, Still
<1>7. ReadAll => Still
  BY DEF ReadAll, Still
<1>8. \A ack : Answering(ack) \/ Heard(ack) => Still
  BY <1>3, Zenon DEF Answering, Heard, Still
<1>9. \A b, m : \A role \in {"addr", "recv"} : SendPlace(b, role, m) => Still
  BY <1>2, <1>4, <1>5, ZenonT(60) DEF SendPlace
<1>10. \A b, h, m : StartPlace(h, b, m) => Still
  BY <1>1, <1>2, <1>9, Zenon DEF StartPlace
<1>11. \A m : StopPlace(m) => Still
  BY <1>1, Zenon DEF StopPlace
<1>12. \A b, m : TxPlace(b, m) => Still
  BY <1>2, <1>5, <1>9, Zenon DEF TxPlace
<1>13. \A h, m : ClearPlace(h, m) => Still
  BY <1>10, <1>11, Zenon DEF ClearPlace
<1>14. \A m : OpenPlace(m) => Still
  BY <1>1, <1>13, Zenon DEF OpenPlace
<1>15. \A ack, m : RxPlace(ack, m) => Still
  <2> SUFFICES ASSUME NEW ack, NEW m, RxPlace(ack, m)
        PROVE  Still
    BY Zenon
  <2>1. 1 \in 1 .. Bits /\ \A j \in 1 .. Bits : j < Bits => j + 1 \in 1 .. Bits
    OBVIOUS
  <2>2. \A j \in 1 .. Bits : (IF j < Bits THEN ReadLow(j + 1) ELSE ReadAll) => Still
    BY <1>6, <1>7, <2>1
  <2> QED
    BY <1>6, <1>7, <1>8, <2>1, <2>2, Zenon DEF RxPlace
<1> QED
  BY <1>1, <1>10, <1>11, <1>12, <1>13, <1>14, <1>15, Zenon DEF Place

LEMMA ReleaseKept ==
  ASSUME WiresAre, Still, ReleaseScl
  PROVE  Kept /\ UNCHANGED <<prog, call, hold>>
<1>1. /\ UNCHANGED <<mSda, mScl, prog, call, data, hold, busy, clocks>>
      /\ ~slave.scl /\ slave \in SlaveStates
  BY DEF ReleaseScl, WiresAre, SlaveIs
<1> DEFINE r == [slave EXCEPT !.scl = TRUE]
<1>2. /\ r.role = slave.role /\ r.n = slave.n /\ r.bits = slave.bits /\ r.last = slave.last
  BY <1>1 DEF SlaveStates
<1>3. r.sda = slave.sda /\ r.heard = slave.heard
  BY <1>1 DEF SlaveStates
<1>4. r.scl
  BY <1>1 DEF SlaveStates
<1>5. slave' = r \/ slave' = Sampled(r, Sda)
  BY Zenon DEF ReleaseScl
<1> HIDE DEF r
<1>6. Sampled(r, Sda) = r
  BY <1>1, <1>2, Unsampled DEF Still
<1> QED
  BY <1>1, <1>2, <1>3, <1>4, <1>5, <1>6 DEF Kept

-----------------------------------------------------------------------------
(* A step of the running call *)

\* What a statement does to the place, and what the wires show of it.
Stepped(held, P, n) ==
  /\ Place(held, n - 1)'
  /\ Lawful(Statement(P, n))

LEMMA ProgramIs ==
  ASSUME NEW held \in BOOLEAN, NEW n, Place(held, n)
  PROVE  Program(held) \in Seq(Ops)
<1>1. \A b \in Bytes : b \in AllBits
  BY DEF AllBits
<1>2. CASE call.op = "none"
  <2>1. Program(held) = <<>>
    BY <1>2 DEF Program
  <2> QED
    BY <2>1, Literals
<1>3. CASE call.op = "start" /\ call.byte \in Bytes
  <2>1. Program(held) = MasterStart(held, call.byte)
    BY <1>3 DEF Program
  <2> QED
    BY <1>1, <1>3, <2>1, StartIs
<1>4. CASE call.op = "tx" /\ call.byte \in Bytes
  <2>1. Program(held) = MasterTx(call.byte)
    BY <1>4 DEF Program
  <2> QED
    BY <1>1, <1>4, <2>1, TxIs
<1>5. CASE call.op = "rx" /\ call.ack \in BOOLEAN
  <2>1. Program(held) = MasterRx(call.ack)
    BY <1>5 DEF Program
  <2> QED
    BY <1>5, <2>1, RxIs
<1>6. CASE call.op = "stop"
  <2>1. Program(held) = MasterStop
    BY <1>6 DEF Program
  <2> QED
    BY <2>1, MasterStopIs
<1>7. CASE call.op = "clear"
  <2>1. Program(held) = BusClear(held)
    BY <1>7 DEF Program
  <2> QED
    BY <2>1, ClearIs
<1>8. CASE call.op = "open"
  <2>1. Program(held) = Open
    BY <1>8 DEF Program
  <2> QED
    BY <2>1, OpenIs
<1> QED
  BY <1>2, <1>3, <1>4, <1>5, <1>6, <1>7, <1>8, Zenon DEF Place

LEMMA PlaceStep ==
  ASSUME Gentle, WiresAre, NEW held \in BOOLEAN, NEW n \in 1 .. Len(Program(held)),
         Place(held, n), Did(Statement(Program(held), n))
  PROVE  Stepped(held, Program(held), n)
<1>1. \A b \in Bytes : b \in AllBits
  BY DEF AllBits
<1>2. call' = call
  BY DEF Did
<1>3. CASE call.op = "none"
  <2>1. Program(held) = <<>>
    BY <1>3 DEF Program
  <2>2. n \in 1 .. 0
    BY <2>1, Literals
  <2> QED
    BY <2>2
<1>4. CASE call.op = "start" /\ call.byte \in Bytes /\ StartPlace(held, call.byte, n)
  <2>1. PICK b \in Bytes : b = call.byte
    BY <1>4
  <2> DEFINE P == MasterStart(held, b)
  <2>2. Program(held) = P
    BY <1>4, <2>1 DEF Program
  <2>3. b \in AllBits /\ StartPlace(held, b, n)
    BY <1>1, <1>4, <2>1, Zenon
  <2>4. Len(P) = StartLength(held) /\ Starts(P, held, b, 0)
    BY <2>3, StartIs
  <2> HIDE DEF P
  <2>5. n \in 1 .. StartLength(held) /\ 0 + n = n
    BY <2>2, <2>4
  <2>6. Did(Statement(P, 0 + n))
    BY <2>2, <2>5
  <2>7. Lawful(Statement(P, 0 + n))
    BY <2>3, <2>4, <2>5, StartLawful
  <2>8. StartPlace(held, b, n - 1)'
    BY <2>3, <2>4, <2>5, <2>6, StartStep
  <2>9. b = call.byte'
    BY <1>2, <2>1
  <2> QED
    BY <1>2, <1>4, <2>2, <2>5, <2>7, <2>8, <2>9, Zenon DEF Stepped, Place
<1>5. CASE call.op = "tx" /\ call.byte \in Bytes /\ TxPlace(call.byte, n)
  <2>1. PICK b \in Bytes : b = call.byte
    BY <1>5
  <2>2. Program(held) = MasterTx(b)
    BY <1>5, <2>1 DEF Program
  <2>3. b \in AllBits /\ TxPlace(b, n)
    BY <1>1, <1>5, <2>1, Zenon
  <2>4. n \in 1 .. 3 * Bits + 10
    BY <2>2, <2>3, TxIs
  <2>5. Did(Statement(MasterTx(b), n))
    BY <2>2
  <2>6. Lawful(Statement(MasterTx(b), n))
    BY <2>3, <2>4, TxLawful
  <2>7. TxPlace(b, n - 1)'
    BY <2>3, <2>4, <2>5, TxStep
  <2>8. b = call.byte'
    BY <1>2, <2>1
  <2> QED
    BY <1>2, <1>5, <2>2, <2>6, <2>7, <2>8, Zenon DEF Stepped, Place
<1>6. CASE call.op = "rx" /\ call.ack \in BOOLEAN /\ hold /\ RxPlace(call.ack, n)
  <2>1. PICK ack \in BOOLEAN : ack = call.ack
    BY <1>6
  <2> DEFINE P == MasterRx(ack)
  <2>2. Program(held) = P
    BY <1>6, <2>1 DEF Program
  <2>3. RxPlace(ack, n)
    BY <1>6, <2>1, Zenon
  <2>4. Len(P) = 6 * Bits + 6 /\ Reads(P, ack)
    BY RxIs
  <2> HIDE DEF P
  <2>5. n \in 1 .. 6 * Bits + 6 /\ Did(Statement(P, n))
    BY <2>2, <2>4
  <2>6. Lawful(Statement(P, n))
    BY <2>3, <2>4, <2>5, RxLawful
  <2>7. RxPlace(ack, n - 1)' /\ hold' = hold
    BY <2>3, <2>4, <2>5, RxStep
  <2>8. ack = call.ack'
    BY <1>2, <2>1
  <2> QED
    BY <1>2, <1>6, <2>2, <2>6, <2>7, <2>8, Zenon DEF Stepped, Place
<1>7. CASE call.op = "stop" /\ data = <<>> /\ StopPlace(n)
  <2>1. Program(held) = MasterStop
    BY <1>7 DEF Program
  <2>2. Stops(MasterStop) /\ n \in 1 .. 7 /\ Did(Statement(MasterStop, n))
    BY <2>1, MasterStopIs DEF Stops
  <2>3. Lawful(Statement(MasterStop, n))
    BY <1>7, <2>2, StopLawful
  <2>4. StopPlace(n - 1)' /\ data' = data
    BY <1>7, <2>2, StopStep
  <2> QED
    BY <1>2, <1>7, <2>1, <2>3, <2>4, Zenon DEF Stepped, Place
<1>8. CASE call.op = "clear" /\ ClearPlace(held, n)
  <2> DEFINE P == BusClear(held)
  <2>1. Program(held) = P
    BY <1>8 DEF Program
  <2>2. Len(P) = 7 + StartLength(held) /\ Starts(P, held, StartByte, 7) /\ Stops(P)
    BY ClearIs
  <2> HIDE DEF P
  <2>3. n \in 1 .. 7 + StartLength(held) /\ Did(Statement(P, n))
    BY <2>1, <2>2
  <2>4. Lawful(Statement(P, n))
    BY <1>8, <2>2, <2>3, ClearLawful
  <2>5. ClearPlace(held, n - 1)'
    BY <1>8, <2>2, <2>3, ClearStep
  <2> QED
    BY <1>2, <1>8, <2>1, <2>4, <2>5, Zenon DEF Stepped, Place
<1>9. CASE call.op = "open" /\ OpenPlace(n)
  <2>1. Program(held) = Open
    BY <1>9 DEF Program
  <2>2. n \in 1 .. 3 * Bits + 22 /\ Did(Statement(Open, n))
    BY <2>1, OpenIs
  <2>3. Lawful(Statement(Open, n))
    BY <1>9, <2>2, OpenLawful
  <2>4. OpenPlace(n - 1)'
    BY <1>9, <2>2, OpenStep
  <2> QED
    BY <1>2, <1>9, <2>1, <2>3, <2>4, Zenon DEF Stepped, Place
<1> QED
  BY <1>3, <1>4, <1>5, <1>6, <1>7, <1>8, <1>9, Zenon DEF Place

-----------------------------------------------------------------------------
(* Between two calls *)

\* What bus_i2c.c believes of the bus and the slave is so.
Settled ==
  /\ Peer \in {"none", "writing", "reading", "done"}
  /\ Peer = "none" => Free /\ ~hold
  /\ Peer # "none" => hold /\ ~mScl /\ mSda /\ busy /\ clocks = 0
  /\ Peer = "writing" => Hearing
  /\ Peer = "reading" => Serving
  /\ Peer = "done" => Gone
  /\ call.op \in {"start", "tx"} /\ Acked => slave.last = call.byte
  /\ call.op = "rx" => slave.last = data

LEMMA PeerIs ==
  /\ call.op \in {"none", "stop", "clear", "open"} => Peer = "none"
  /\ call.op = "start" /\ Acked /\ Last(call.byte) => Peer = "reading"
  /\ call.op = "start" /\ Acked /\ ~Last(call.byte) => Peer = "writing"
  /\ call.op = "start" /\ ~Acked => Peer = "done"
  /\ call.op = "tx" /\ Acked => Peer = "writing"
  /\ call.op = "tx" /\ ~Acked => Peer = "done"
  /\ call.op = "rx" /\ call.ack => Peer = "reading"
  /\ call.op = "rx" /\ ~call.ack => Peer = "done"
<1>1. call.op \in {"none", "stop", "clear", "open"} => Peer = "none"
  BY DEF Peer
<1>2. CASE call.op = "start"
  <2>1. CASE Acked
    BY <1>2, <2>1 DEF Peer
  <2>2. CASE ~Acked
    BY <1>2, <2>2 DEF Peer
  <2> QED
    BY <1>1, <1>2, <2>1, <2>2
<1>3. CASE call.op = "tx"
  <2>1. CASE Acked
    BY <1>3, <2>1 DEF Peer
  <2>2. CASE ~Acked
    BY <1>3, <2>2 DEF Peer
  <2> QED
    BY <1>1, <1>3, <2>1, <2>2
<1>4. CASE call.op = "rx"
  <2>1. CASE call.ack
    BY <1>4, <2>1 DEF Peer
  <2>2. CASE ~call.ack
    BY <1>4, <2>2 DEF Peer
  <2> QED
    BY <1>1, <1>4, <2>1, <2>2
<1> QED
  BY <1>1, <1>2, <1>3, <1>4

LEMMA Answers ==
  ASSUME NEW b, NEW role, Answered(b, role), slave.sda \in BOOLEAN
  PROVE  /\ ~mScl /\ mSda /\ busy /\ clocks = 0
         /\ Acked => /\ slave.last = b
                     /\ role = "addr" /\ Last(b) => Serving
                     /\ ~(role = "addr" /\ Last(b)) => Hearing
         /\ ~Acked => Gone
<1>1. <<TRUE>> # <<FALSE>>
  <2>1. <<TRUE>>[1] = TRUE /\ <<FALSE>>[1] = FALSE
    OBVIOUS
  <2> QED
    BY <2>1
<1> QED
  BY <1>1, Zenon DEF Answered, Acked

LEMMA Arrived ==
  ASSUME NEW held, Place(held, 0), WiresAre
  PROVE  Settled
<1>1. slave.sda \in BOOLEAN
  BY DEF WiresAre, SlaveIs, SlaveStates
<1>2. StopPlace(0) => ~hold /\ Free
  BY DEF StopPlace
<1>3. \A h, b, m : m = 0 /\ StartPlace(h, b, m) => hold /\ SendPlace(b, "addr", 0)
  BY DEF StartPlace
<1>4. \A b, role : SendPlace(b, role, 0) => Answered(b, role)
  <2>1. \A j \in 1 .. Bits : /\ 0 # 7 + 3 * (Bits - j + 1)
                             /\ 0 # 6 + 3 * (Bits - j + 1)
                             /\ 0 # 5 + 3 * (Bits - j + 1)
    OBVIOUS
  <2>2. /\ 0 # 3 * Bits + 8 /\ 0 \notin 5 .. 7 /\ 0 # 4 /\ 0 # 3 /\ 0 # 2
    OBVIOUS
  <2> QED
    BY <2>1, <2>2, Zenon DEF SendPlace
<1>5. \A h : ClearPlace(h, 0) => ~hold /\ Free
  <2>1. ~(0 >= 8)
    OBVIOUS
  <2> QED
    BY <1>2, <2>1, Zenon DEF ClearPlace
<1>6. OpenPlace(0) => ~hold /\ Free
  <2>1. 0 # 3 * Bits + 22 /\ 0 # 3 * Bits + 21 /\ 0 # 3 * Bits + 20
    OBVIOUS
  <2> QED
    BY <1>5, <2>1, Zenon DEF OpenPlace
<1>7. CASE call.op \in {"none", "stop", "clear", "open"}
  <2>1. Free /\ ~hold
    BY <1>2, <1>5, <1>6, <1>7 DEF Place
  <2>2. Peer = "none"
    BY <1>7, PeerIs
  <2>3. call.op \notin {"start", "tx"} /\ call.op # "rx"
    BY <1>7
  <2> QED
    BY <2>1, <2>2, <2>3 DEF Settled
<1>8. CASE call.op = "start"
  <2>1. hold /\ Answered(call.byte, "addr")
    <3>1. StartPlace(held, call.byte, 0)
      BY <1>8 DEF Place
    <3> QED
      BY <1>3, <1>4, <3>1, Zenon
  <2>2. /\ ~mScl /\ mSda /\ busy /\ clocks = 0
        /\ Acked => /\ slave.last = call.byte
                    /\ Last(call.byte) => Serving
                    /\ ~Last(call.byte) => Hearing
        /\ ~Acked => Gone
    BY <1>1, <2>1, Answers
  <2>3. /\ Acked /\ Last(call.byte) => Peer = "reading"
        /\ Acked /\ ~Last(call.byte) => Peer = "writing"
        /\ ~Acked => Peer = "done"
    BY <1>8, PeerIs
  <2>4. call.op # "rx"
    BY <1>8
  <2> QED
    BY <2>1, <2>2, <2>3, <2>4 DEF Settled
<1>9. CASE call.op = "tx"
  <2>1. hold /\ Answered(call.byte, "recv")
    <3>1. TxPlace(call.byte, 0)
      BY <1>9 DEF Place
    <3>2. 0 # 3 * Bits + 10 /\ ~(0 >= 1)
      OBVIOUS
    <3> QED
      BY <3>1, <3>2, Zenon DEF TxPlace
  <2>2. /\ ~mScl /\ mSda /\ busy /\ clocks = 0
        /\ Acked => slave.last = call.byte /\ Hearing
        /\ ~Acked => Gone
    BY <1>1, <2>1, Answers
  <2>3. /\ Acked => Peer = "writing"
        /\ ~Acked => Peer = "done"
    BY <1>9, PeerIs
  <2>4. call.op # "rx"
    BY <1>9
  <2> QED
    BY <2>1, <2>2, <2>3, <2>4 DEF Settled
<1>10. CASE call.op = "rx"
  <2>1. call.ack \in BOOLEAN /\ hold /\ RxPlace(call.ack, 0)
    BY <1>10 DEF Place
  <2>2. Heard(call.ack) /\ mSda
    <3>1. \A j \in 1 .. Bits : /\ 0 # 5 + 6 * (Bits - j + 1) /\ 0 # 4 + 6 * (Bits - j + 1)
                               /\ 0 # 3 + 6 * (Bits - j + 1) /\ 0 # 2 + 6 * (Bits - j + 1)
                               /\ 0 # 1 + 6 * (Bits - j + 1) /\ 0 # 6 * (Bits - j + 1)
      OBVIOUS
    <3>2. 0 # 6 * Bits + 6 /\ 0 # 5 /\ 0 # 4 /\ 0 # 3 /\ 0 # 2
      OBVIOUS
    <3> QED
      BY <2>1, <3>1, <3>2, Zenon DEF RxPlace
  <2>3. /\ ~mScl /\ busy /\ clocks = 0 /\ slave.last = data
        /\ call.ack => Serving
        /\ ~call.ack => Gone
    BY <2>2 DEF Heard
  <2>4. /\ call.ack => Peer = "reading"
        /\ ~call.ack => Peer = "done"
    BY <1>10, PeerIs
  <2>5. call.op \notin {"start", "tx"}
    BY <1>10
  <2> QED
    BY <2>1, <2>2, <2>3, <2>4, <2>5 DEF Settled
<1> QED
  BY <1>7, <1>8, <1>9, <1>10, Zenon DEF Place

LEMMA Whole ==
  ASSUME NEW P \in Seq(Ops)
  PROVE  Suffix(P, Len(P)) = P
<1>1. Len(P) \in Nat
  OBVIOUS
<1>2. Suffix(P, Len(P)) \in Seq(Ops) /\ Len(Suffix(P, Len(P))) = Len(P)
  BY <1>1, SuffixIs
<1>3. \A i \in 1 .. Len(P) : Suffix(P, Len(P))[i] = P[i]
  BY <1>1 DEF Suffix
<1> QED
  BY <1>2, <1>3, SeqEqual

LEMMA Begins ==
  ASSUME NEW held \in BOOLEAN, NEW P \in Seq(Ops), prog' = P,
         Program(held)' = P, NEW n, n = Len(P), Place(held, n)'
  PROVE  Running'
<1>1. prog' = Suffix(P, Len(P)) /\ Len(P) <= Len(P)
  BY Whole
<1>2. Len(prog)' <= Len(Program(held))' /\ prog' = Suffix(Program(held), Len(prog))'
  BY <1>1, Zenon
<1>3. Place(held, Len(prog))'
  BY Zenon
<1> QED
  BY <1>2, <1>3, Zenon DEF Running

-----------------------------------------------------------------------------
(* A call *)

\* Where each call of a well-formed transaction finds the wires and the slave.
LEMMA Permitted ==
  ASSUME Callers # "careless", Settled
  PROVE  /\ \A op \in {"start", "clear", "open"} : MayCall(op) =>
              \/ (Free /\ ~hold /\ Peer = "none")
              \/ (Quiet /\ hold /\ Peer # "reading")
              \/ (Callers = "aborting" /\ Peer = "reading" /\ Serving /\ hold /\ ~mScl)
         /\ MayCall("stop") => Quiet /\ hold
         /\ MayCall("tx") => Quiet /\ Hearing /\ hold
         /\ MayCall("rx") => Serving /\ hold /\ ~mScl /\ busy /\ clocks = 0
<1>1. /\ Peer \in {"none", "writing", "reading", "done"}
      /\ Peer = "none" => Free /\ ~hold
      /\ Peer # "none" => hold /\ ~mScl /\ busy /\ clocks = 0
      /\ Peer = "writing" => Hearing
      /\ Peer = "reading" => Serving
      /\ Peer = "done" => Gone
  BY DEF Settled
<1>2. (Hearing \/ Gone) /\ ~mScl /\ busy /\ clocks = 0 => Quiet
  BY DEF Hearing, Gone, Quiet, Idling
<1>3. Peer \in {"writing", "done"} => Quiet /\ hold
  BY <1>1, <1>2
<1>4. \A op \in {"start", "clear", "open"} : MayCall(op) =>
        Peer \in {"none", "writing", "done"} \/ (Callers = "aborting" /\ Peer = "reading")
  BY <1>1 DEF MayCall
<1>6. MayCall("stop") => Peer \in {"writing", "done"}
  BY <1>1 DEF MayCall
<1>7. MayCall("tx") => Peer = "writing"
  BY <1>1 DEF MayCall
<1>8. MayCall("rx") => Peer = "reading"
  BY <1>1 DEF MayCall
<1>9. Peer \in {"none", "writing", "done"} =>
        (Free /\ ~hold /\ Peer = "none") \/ (Quiet /\ hold /\ Peer # "reading")
  BY <1>1, <1>3
<1>10. Peer = "reading" => Serving /\ hold /\ ~mScl /\ busy /\ clocks = 0
  BY <1>1
<1>11. Peer = "writing" => Quiet /\ Hearing /\ hold
  BY <1>1, <1>3
<1> QED
  BY <1>3, <1>4, <1>6, <1>7, <1>8, <1>9, <1>10, <1>11, Zenon

\* A call leaves the wires and the slave alone.
LEMMA Called ==
  ASSUME NEW op, NEW byte, NEW ack, NEW P, Call(op, byte, ack, P)
  PROVE  /\ MayCall(op) /\ prog' = P /\ data' = <<>> /\ hold' = hold
         /\ call'.op = op /\ call'.byte = byte /\ call'.ack = ack
         /\ Free => Free'
         /\ Quiet => Quiet'
         /\ Quiet /\ Hearing => Quiet' /\ Hearing'
         /\ Serving => Serving'
         /\ ~mScl /\ busy /\ clocks = 0 => ~mScl' /\ busy' /\ clocks' = 0
<1>1. /\ MayCall(op) /\ prog' = P /\ data' = <<>> /\ UNCHANGED <<wires, hold>>
      /\ call' = [op |-> op, byte |-> byte, ack |-> ack]
  BY DEF Call
<1>2. UNCHANGED <<mSda, mScl, slave, busy, clocks>>
  BY <1>1, Zenon DEF wires
<1> QED
  BY <1>1, <1>2 DEF Free, Quiet, Idling, Hearing, Serving

\* A START is sent to a bus that is free, or again to a bus that is held.
LEMMA Restarts ==
  ASSUME NEW held \in BOOLEAN, NEW b, data' = <<>>, (Free' /\ ~held) \/ (Quiet' /\ held)
  PROVE  StartPlace(held, b, StartLength(held))'
<1>1. CASE held
  <2>1. StartLength(held) = 3 * Bits + 14 /\ 3 * Bits + 14 \in {3 * Bits + 13, 3 * Bits + 14}
    BY <1>1 DEF StartLength
  <2>2. Quiet'
    BY <1>1
  <2> QED
    BY <1>1, <2>1, <2>2, Zenon DEF StartPlace
<1>2. CASE ~held
  <2>1. StartLength(held) = 3 * Bits + 12
    BY <1>2 DEF StartLength
  <2>2. Free'
    BY <1>2
  <2>3. Ready'
    BY <2>2 DEF Free, Ready
  <2> QED
    BY <1>2, <2>1, <2>3, Zenon DEF StartPlace
<1> QED
  BY <1>1, <1>2

LEMMA StartRuns ==
  ASSUME (Free /\ ~hold) \/ (Quiet /\ hold), hold \in BOOLEAN, CallStart
  PROVE  Running'
<1>1. PICK b \in Bytes : Call("start", b, FALSE, MasterStart(hold, b))
  BY DEF CallStart
<1>2. PICK held \in BOOLEAN : held = hold
  OBVIOUS
<1> DEFINE P == MasterStart(held, b)
<1>3. Call("start", b, FALSE, P)
  BY <1>1, <1>2
<1>4. P \in Seq(Ops) /\ Len(P) = StartLength(held)
  <2>1. b \in AllBits
    BY DEF AllBits
  <2> QED
    BY <2>1, StartIs
<1> HIDE DEF P
<1>5. /\ MayCall("start") /\ prog' = P /\ data' = <<>>
      /\ call'.op = "start" /\ call'.byte = b
      /\ (Free => Free') /\ (Quiet => Quiet')
  BY <1>3, Called, Zenon
<1>6. (Free' /\ ~held) \/ (Quiet' /\ held)
  <2>1. held <=> hold
    BY <1>2
  <2> QED
    BY <1>5, <2>1, Zenon
<1>7. StartPlace(held, b, StartLength(held))'
  BY <1>5, <1>6, Restarts
<1>8. Place(held, StartLength(held))'
  <2>1. call.op' = "start" /\ b = call.byte'
    BY <1>5
  <2> QED
    BY <1>7, <2>1, Zenon DEF Place
<1>9. Program(held)' = P
  <2>1. (CASE call.op = "start" -> MasterStart(held, call.byte)
           [] call.op = "tx" -> MasterTx(call.byte)
           [] call.op = "rx" -> MasterRx(call.ack)
           [] call.op = "stop" -> MasterStop
           [] call.op = "clear" -> BusClear(held)
           [] call.op = "open" -> Open
           [] OTHER -> <<>>)' = MasterStart(held, b)
    BY <1>5
  <2> QED
    BY <2>1 DEF Program, P
<1>10. PICK n : n = StartLength(held)
  OBVIOUS
<1>11. Place(held, n)' /\ n = Len(P)
  BY <1>4, <1>8, <1>10, Zenon
<1> QED
  BY <1>4, <1>5, <1>9, <1>11, Begins


LEMMA TxRuns ==
  ASSUME Callers # "careless", Settled, CallTx
  PROVE  Running'
<1>1. PICK b \in Bytes : Call("tx", b, FALSE, MasterTx(b))
  BY DEF CallTx
<1> DEFINE P == MasterTx(b)
<1>2. b \in AllBits
  BY DEF AllBits
<1>3. P \in Seq(Ops) /\ Len(P) = 3 * Bits + 10
  BY <1>2, TxIs
<1> HIDE DEF P
<1>4. Call("tx", b, FALSE, P)
  BY <1>1 DEF P
<1>5. /\ prog' = P /\ data' = <<>> /\ hold'
      /\ call'.op = "tx" /\ call'.byte = b
      /\ Quiet' /\ Hearing'
  BY <1>4, Called, Permitted, Zenon
<1>6. BitLow(b, "recv", 1)'
  <2>1. First(b, 0) = <<>>
    BY <1>2, FirstIs
  <2>2. First(b, 1 - 1) = <<>> /\ 1 - 1 = 0
    BY <2>1
  <2> QED
    BY <1>5, <2>2 DEF BitLow, Quiet, Hearing
<1>7. PICK n : n = 3 * Bits + 10
  OBVIOUS
<1>8. Place(FALSE, n)'
  <2>1. call.op' = "tx" /\ b = call.byte'
    BY <1>5
  <2>2. TxPlace(b, n)'
    BY <1>5, <1>6, <1>7, Zenon DEF TxPlace
  <2> QED
    BY <2>1, <2>2, Zenon DEF Place
<1>9. Program(FALSE)' = P
  <2>1. (CASE call.op = "start" -> MasterStart(FALSE, call.byte)
           [] call.op = "tx" -> MasterTx(call.byte)
           [] call.op = "rx" -> MasterRx(call.ack)
           [] call.op = "stop" -> MasterStop
           [] call.op = "clear" -> BusClear(FALSE)
           [] call.op = "open" -> Open
           [] OTHER -> <<>>)' = MasterTx(b)
    BY <1>5
  <2> QED
    BY <2>1 DEF Program, P
<1> QED
  BY <1>3, <1>5, <1>7, <1>8, <1>9, Begins

LEMMA RxRuns ==
  ASSUME Callers # "careless", Settled, CallRx
  PROVE  Running'
<1>1. PICK ack \in BOOLEAN : Call("rx", <<>>, ack, MasterRx(ack))
  BY DEF CallRx
<1> DEFINE P == MasterRx(ack)
<1>2. P \in Seq(Ops) /\ Len(P) = 6 * Bits + 6
  BY RxIs
<1> HIDE DEF P
<1>3. Call("rx", <<>>, ack, P)
  BY <1>1 DEF P
<1>4. /\ prog' = P /\ data' = <<>> /\ hold'
      /\ call'.op = "rx" /\ call'.ack = ack
      /\ Serving' /\ ~mScl' /\ busy' /\ clocks' = 0
  BY <1>3, Called, Permitted, Zenon
<1>5. ReadLow(1)'
  <2>1. slave'.bits \in AllBits
    BY <1>4 DEF Serving, AllBits
  <2>2. First(slave'.bits, 0) = <<>>
    BY <2>1, FirstIs
  <2>3. First(slave'.bits, 1 - 1) = <<>> /\ 1 - 1 = 0
    BY <2>2
  <2>4. First(slave.bits, 1 - 1)' = <<>>
    BY <2>3 DEF First
  <2> QED
    BY <1>4, <2>3, <2>4, Zenon DEF ReadLow, Serving
<1>6. PICK n : n = 6 * Bits + 6
  OBVIOUS
<1>7. Place(FALSE, n)'
  <2>1. call.op' = "rx" /\ ack = call.ack'
    BY <1>4
  <2>2. RxPlace(ack, n)'
    BY <1>5, <1>6, Zenon DEF RxPlace
  <2> QED
    BY <1>4, <2>1, <2>2, Zenon DEF Place
<1>8. Program(FALSE)' = P
  <2>1. (CASE call.op = "start" -> MasterStart(FALSE, call.byte)
           [] call.op = "tx" -> MasterTx(call.byte)
           [] call.op = "rx" -> MasterRx(call.ack)
           [] call.op = "stop" -> MasterStop
           [] call.op = "clear" -> BusClear(FALSE)
           [] call.op = "open" -> Open
           [] OTHER -> <<>>)' = MasterRx(ack)
    BY <1>4
  <2> QED
    BY <2>1 DEF Program, P
<1> QED
  BY <1>2, <1>4, <1>6, <1>7, <1>8, Begins

LEMMA StopRuns ==
  ASSUME Callers # "careless", Settled, CallStop
  PROVE  Running'
<1> DEFINE P == MasterStop
<1>1. P \in Seq(Ops) /\ Len(P) = 7
  BY MasterStopIs
<1> HIDE DEF P
<1>2. Call("stop", <<>>, FALSE, P)
  BY DEF CallStop, P
<1>3. /\ prog' = P /\ data' = <<>> /\ hold' /\ call'.op = "stop" /\ Quiet'
  BY <1>2, Called, Permitted, Zenon
<1>4. PICK n \in 5 .. 7 : n = 7
  OBVIOUS
<1>5. Place(FALSE, n)'
  <2>1. StopPlace(n)'
    BY <1>3, <1>4, Zenon DEF StopPlace
  <2> QED
    BY <1>3, <2>1, Zenon DEF Place
<1>6. Program(FALSE)' = P
  BY <1>3 DEF Program, P
<1> QED
  BY <1>1, <1>3, <1>4, <1>5, <1>6, Begins

LEMMA ClearRuns ==
  ASSUME (Free /\ ~hold) \/ (Quiet /\ hold), hold \in BOOLEAN, CallClear
  PROVE  Running'
<1>1. PICK held \in BOOLEAN : held = hold
  OBVIOUS
<1> DEFINE P == BusClear(held)
<1>2. P \in Seq(Ops) /\ Len(P) = 7 + StartLength(held)
  BY ClearIs
<1>3. Call("clear", <<>>, FALSE, P)
  BY <1>1 DEF CallClear
<1> HIDE DEF P
<1>4. /\ prog' = P /\ data' = <<>> /\ call'.op = "clear"
      /\ (Free => Free') /\ (Quiet => Quiet')
  BY <1>3, Called, Zenon
<1>5. (Free' /\ ~held) \/ (Quiet' /\ held)
  <2>1. held <=> hold
    BY <1>1
  <2> QED
    BY <1>4, <2>1, Zenon
<1>6. StartPlace(held, StartByte, StartLength(held))'
  BY <1>4, <1>5, Restarts
<1>7. PICK n : n = 7 + StartLength(held)
  OBVIOUS
<1>8. n >= 8 /\ n - 7 = StartLength(held)
  BY <1>7 DEF StartLength
<1>9. Place(held, n)'
  <2>1. ClearPlace(held, n)'
    BY <1>6, <1>8, Zenon DEF ClearPlace
  <2> QED
    BY <1>4, <2>1, Zenon DEF Place
<1>10. Program(held)' = P
  BY <1>4 DEF Program, P
<1> QED
  BY <1>2, <1>4, <1>7, <1>9, <1>10, Begins

LEMMA OpenRuns ==
  ASSUME (Free /\ ~hold) \/ (Quiet /\ hold), CallOpen
  PROVE  Running'
<1> DEFINE P == Open
<1>1. P \in Seq(Ops) /\ Len(P) = 3 * Bits + 22
  BY OpenIs
<1> HIDE DEF P
<1>2. Call("open", <<>>, FALSE, P)
  BY DEF CallOpen, P
<1>3. /\ MayCall("open") /\ prog' = P /\ data' = <<>> /\ call'.op = "open"
      /\ (Free => Free') /\ (Quiet => Quiet')
  BY <1>2, Called, Zenon
<1>4. Ready' \/ Quiet'
  <2>1. Free' \/ Quiet'
    BY <1>3
  <2> QED
    BY <2>1 DEF Free, Ready
<1>5. PICK n : n = 3 * Bits + 22
  OBVIOUS
<1>6. Place(FALSE, n)'
  <2>1. OpenPlace(n)'
    BY <1>3, <1>4, <1>5, Zenon DEF OpenPlace
  <2> QED
    BY <1>3, <2>1, Zenon DEF Place
<1>7. Program(FALSE)' = P
  BY <1>3 DEF Program, P
<1> QED
  BY <1>1, <1>3, <1>5, <1>6, <1>7, Begins


-----------------------------------------------------------------------------
(* What every place says of the data and the transfer *)

LEMMA PlaceData ==
  ASSUME WiresAre, NEW held, NEW n, Place(held, n)
  PROVE  data \in Seq(BOOLEAN) /\ Len(data) <= Bits
<1> DEFINE Fits(d) == d \in Seq(BOOLEAN) /\ Len(d) <= Bits
<1>1. Fits(<<>>)
  BY EmptySeq
<1>2. \A x \in BOOLEAN : Fits(<<x>>)
  OBVIOUS
<1>3. ASSUME NEW b \in Bytes
      PROVE  Fits(b) /\ \A j \in 0 .. Bits : Fits(First(b, j))
  <2>1. b \in AllBits
    BY DEF AllBits
  <2>2. /\ b \in Seq(BOOLEAN) /\ Len(b) = Bits
        /\ \A j \in 0 .. Bits : First(b, j) \in Seq(BOOLEAN) /\ Len(First(b, j)) = j
    BY <2>1, FirstIs
  <2> QED
    BY <2>2
<1>4. slave.sda \in BOOLEAN
  BY DEF WiresAre, SlaveIs, SlaveStates
<1>5. \A j \in 1 .. Bits : j \in 0 .. Bits /\ j - 1 \in 0 .. Bits
  OBVIOUS
<1>6. 1 \in 1 .. Bits /\ \A j \in 1 .. Bits : j < Bits => j + 1 \in 1 .. Bits
  OBVIOUS
<1> HIDE DEF Fits
<1>7. Fits(<<TRUE>>) /\ Fits(<<FALSE>>) /\ Fits(<<slave.sda>>)
  BY <1>2, <1>4
<1>8. \A b, role, m : SendPlace(b, role, m) => Fits(data)
  <2>1. \A b, role, j : BitLow(b, role, j) \/ BitSet(b, role, j) \/ BitHigh(b, role, j) => Fits(data)
    BY <1>1, <1>7, Zenon DEF BitLow, BitSet, BitHigh
  <2>2. \A b, role : AckLow(b, role) \/ AckHigh(b, role) \/ AckRead(b, role) => Fits(data)
    BY <1>1, <1>7, Zenon DEF AckLow, AckHigh, AckRead
  <2>3. \A b, role : Answered(b, role) => Fits(data)
    BY <1>1, <1>7, Zenon DEF Answered
  <2> QED
    BY <2>1, <2>2, <2>3, ZenonT(60) DEF SendPlace
<1>9. \A h, b, m : StartPlace(h, b, m) => Fits(data)
  BY <1>1, <1>8, Zenon DEF StartPlace
<1>10. \A b, m : TxPlace(b, m) => Fits(data)
  BY <1>1, <1>7, <1>8, Zenon DEF TxPlace, BitLow, Answered
<1>11. \A h, m : ClearPlace(h, m) => Fits(data)
  BY <1>7, <1>9, Zenon DEF ClearPlace
<1>12. \A m : OpenPlace(m) => Fits(data)
  BY <1>1, <1>11, Zenon DEF OpenPlace
<1>13. \A j \in 1 .. Bits : ReadLow(j) \/ ReadHigh(j) \/ ReadDone(j) => Fits(data)
  BY <1>3, <1>5, Zenon DEF ReadLow, ReadHigh, ReadDone
<1>14. ReadAll => Fits(data)
  BY <1>3, Zenon DEF ReadAll
<1>15. \A ack : Answering(ack) \/ Heard(ack) => Fits(data)
  BY <1>3, Zenon DEF Answering, Heard
<1>16. \A ack, m : RxPlace(ack, m) => Fits(data)
  <2>1. \A j \in 1 .. Bits : (IF j < Bits THEN ReadLow(j + 1) ELSE ReadAll) => Fits(data)
    BY <1>6, <1>13, <1>14
  <2> QED
    BY <1>6, <1>13, <1>14, <1>15, <2>1, Zenon DEF RxPlace
<1> QED
  <2>1. Fits(data)
    BY <1>1, <1>9, <1>10, <1>11, <1>12, <1>16, Zenon DEF Place
  <2> QED
    BY <2>1 DEF Fits

\* The slave holds SCL only within a transfer.
LEMMA PlaceBusy ==
  ASSUME NEW held, NEW n, Place(held, n), ~slave.scl
  PROVE  busy
<1>1. ~Quiet /\ ~Free /\ ~Ready /\ ~Begun /\ ~Ending
  BY Zenon DEF Quiet, Free, Ready, Begun, Ending, Idling
<1>2. \A b, role, m : SendPlace(b, role, m) => busy
  <2>1. \A b, role, j : BitLow(b, role, j) \/ BitSet(b, role, j) \/ BitHigh(b, role, j) => busy
    BY Zenon DEF BitLow, BitSet, BitHigh
  <2>2. \A b, role : AckLow(b, role) \/ AckHigh(b, role) \/ AckRead(b, role) => busy
    BY Zenon DEF AckLow, AckHigh, AckRead
  <2>3. \A b, role : Answered(b, role) => busy
    BY Zenon DEF Answered
  <2> QED
    BY <2>1, <2>2, <2>3, ZenonT(60) DEF SendPlace
<1>3. \A h, b, m : StartPlace(h, b, m) => busy
  BY <1>1, <1>2, Zenon DEF StartPlace, BitLow
<1>4. \A m : ~StopPlace(m)
  BY <1>1, Zenon DEF StopPlace
<1>5. \A b, m : TxPlace(b, m) => busy
  BY <1>2, Zenon DEF TxPlace, BitLow, Answered
<1>6. \A h, m : ClearPlace(h, m) => busy
  BY <1>3, <1>4, Zenon DEF ClearPlace
<1>7. \A m : OpenPlace(m) => busy
  BY <1>1, <1>6, Zenon DEF OpenPlace
<1>8. \A j : ReadLow(j) \/ ReadHigh(j) \/ ReadDone(j) => busy
  BY DEF ReadLow, ReadHigh, ReadDone
<1>9. ReadAll => busy
  BY DEF ReadAll
<1>10. \A ack : Answering(ack) \/ Heard(ack) => busy
  BY DEF Answering, Heard
<1>11. \A ack, m : RxPlace(ack, m) => busy
  <2>1. \A j : (IF j < Bits THEN ReadLow(j + 1) ELSE ReadAll) => busy
    BY <1>8, <1>9
  <2> QED
    BY <1>8, <1>9, <1>10, <2>1, Zenon DEF RxPlace
<1> QED
  BY <1>1, <1>3, <1>4, <1>5, <1>6, <1>7, <1>11, Zenon DEF Place


-----------------------------------------------------------------------------
(* The inductive invariant *)

CallOps == {"none", "start", "tx", "rx", "stop", "clear", "open", "reset"}

Registers ==
  /\ hold \in BOOLEAN /\ ie \in BOOLEAN
  /\ busy \in BOOLEAN /\ clocks \in -1 .. Bits /\ astray \in BOOLEAN
  /\ call \in [op : CallOps, byte : Bytes \cup {<<>>}, ack : BOOLEAN]

IInv == WiresAre /\ Registers /\ Running

LEMMA Count ==
  ASSUME NEW c \in -1 .. Bits
  PROVE  (c + 1) % (Bits + 1) \in -1 .. Bits
<1>1. CASE c = Bits
  <2>1. (Bits + 1) % (Bits + 1) = 0
    OBVIOUS
  <2> QED
    BY <1>1, <2>1
<1>2. CASE c \in -1 .. Bits - 1
  <2>1. c + 1 \in 0 .. Bits
    BY <1>2
  <2>2. \A d \in 0 .. Bits : d % (Bits + 1) = d
    OBVIOUS
  <2> QED
    BY <2>1, <2>2
<1> QED
  BY <1>1, <1>2

LEMMA DriveCounts ==
  ASSUME Registers, NEW x, NEW y, Drive(x, y)
  PROVE  busy' \in BOOLEAN /\ clocks' \in -1 .. Bits /\ astray' \in BOOLEAN
<1>1. /\ busy \in BOOLEAN /\ clocks \in -1 .. Bits /\ astray \in BOOLEAN
  BY DEF Registers
<1>2. -1 \in -1 .. Bits /\ 0 \in -1 .. Bits
  OBVIOUS
<1>3. (clocks + 1) % (Bits + 1) \in -1 .. Bits
  BY <1>1, Count
<1>4. TRUE \in BOOLEAN /\ FALSE \in BOOLEAN
  OBVIOUS
<1> QED
  BY <1>1, <1>2, <1>3, <1>4, Zenon DEF Drive, Edge

\* Whatever statement is executed, and whoever calls.
LEMMA DidTypes ==
  ASSUME WiresAre, Registers, NEW op \in Ops, Did(op), ie' \in BOOLEAN
  PROVE  WiresAre' /\ Registers'
<1>1. /\ mSda \in BOOLEAN /\ mScl \in BOOLEAN /\ TRUE \in BOOLEAN /\ FALSE \in BOOLEAN
      /\ hold \in BOOLEAN /\ call' = call
      /\ call \in [op : CallOps, byte : Bytes \cup {<<>>}, ack : BOOLEAN]
  BY DEF WiresAre, Registers, Did
<1>2. ASSUME NEW x \in BOOLEAN, NEW y \in BOOLEAN, Drive(x, y), hold' = hold
      PROVE  WiresAre' /\ Registers'
  <2>1. WiresAre' /\ busy' \in BOOLEAN /\ clocks' \in -1 .. Bits /\ astray' \in BOOLEAN
    BY <1>2, DriveTypes, DriveCounts
  <2> QED
    BY <1>1, <1>2, <2>1 DEF Registers
<1>3. ASSUME UNCHANGED <<wires, astray>>, hold' \in BOOLEAN
      PROVE  WiresAre' /\ Registers'
  <2>1. UNCHANGED <<mSda, mScl, slave, busy, clocks>>
    BY <1>3, Zenon DEF wires
  <2> QED
    BY <1>1, <1>3, <2>1 DEF WiresAre, SlaveIs, Registers
<1>4. CASE op \in {"sda_hi", "sda_low", "scl_hi", "scl_low"}
  <2>1. CASE op = "sda_hi"
    <3>1. Drive(TRUE, mScl) /\ hold' = hold
      BY <2>1 DEF Did
    <3> QED
      BY <1>1, <1>2, <3>1, Zenon
  <2>2. CASE op = "sda_low"
    <3>1. Drive(FALSE, mScl) /\ hold' = hold
      BY <2>2 DEF Did
    <3> QED
      BY <1>1, <1>2, <3>1, Zenon
  <2>3. CASE op = "scl_hi"
    <3>1. Drive(mSda, TRUE) /\ hold' = hold
      BY <2>3 DEF Did
    <3> QED
      BY <1>1, <1>2, <3>1, Zenon
  <2>4. CASE op = "scl_low"
    <3>1. Drive(mSda, FALSE) /\ hold' = hold
      BY <2>4 DEF Did
    <3> QED
      BY <1>1, <1>2, <3>1, Zenon
  <2> QED
    BY <1>4, <2>1, <2>2, <2>3, <2>4
<1>5. CASE op \in {"cli", "sei", "hold", "unhold", "sample"}
  <2>1. UNCHANGED <<wires, astray>> /\ hold' \in BOOLEAN
    BY <1>1, <1>5 DEF Did
  <2> QED
    BY <1>3, <2>1
<1> QED
  BY <1>4, <1>5 DEF Ops

LEMMA ExecuteTypes ==
  ASSUME Registers, Execute
  PROVE  ie' \in BOOLEAN
BY DEF Registers, Execute, SdaHi, SdaLow, SclHi, SclLow, Cli, Sei, Hold, Unhold, Sample

\* The processor executes a statement.
LEMMA ExecuteKeeps ==
  ASSUME Textbook, IInv, Execute
  PROVE  IInv' /\ ProtocolStep
<1>1. WiresAre /\ Registers /\ Running
  BY DEF IInv
<1>2. PICK held \in BOOLEAN :
        /\ Len(prog) <= Len(Program(held))
        /\ prog = Suffix(Program(held), Len(prog))
        /\ Place(held, Len(prog))
  BY <1>1 DEF Running
<1>3. PICK P : P = Program(held)
  OBVIOUS
<1>4. P \in Seq(Ops)
  BY <1>2, <1>3, ProgramIs
<1>5. prog # <<>>
  BY ExecuteIs
<1>6. Len(prog) \in Nat
  <2>1. Program(held) = P
    BY <1>3
  <2> QED
    BY <1>2, <1>4, <2>1
<1>7. PICK n \in Nat : n = Len(prog)
  BY <1>6
<1>8. n <= Len(P) /\ prog = Suffix(P, n) /\ Place(held, n)
  BY <1>2, <1>3, <1>7
<1>9. n > 0 /\ Did(Statement(P, n)) /\ prog' = Suffix(P, n - 1) /\ Len(prog') = n - 1
  BY <1>4, <1>8, Executed
<1>10. n \in 1 .. Len(P) /\ Len(P) \in Nat
  BY <1>4, <1>8, <1>9
<1>11. Stepped(held, P, n)
  BY <1>1, <1>3, <1>8, <1>9, <1>10, PlaceStep DEF Textbook
<1>12. Place(held, n - 1)' /\ Lawful(Statement(P, n))
  BY <1>11 DEF Stepped
<1>13. Statement(P, n) \in Ops
  <2>1. Len(P) - n + 1 \in 1 .. Len(P)
    BY <1>10
  <2> QED
    BY <1>4, <2>1, ElementOfSeq DEF Statement
<1>14. WiresAre' /\ Registers'
  BY <1>1, <1>9, <1>13, ExecuteTypes, DidTypes
<1>15. ProtocolStep
  BY <1>1, <1>9, <1>12, <1>13, <1>14, LawfulStep
<1>16. Program(held)' = P
  <2>1. call' = call
    BY <1>9 DEF Did
  <2> QED
    BY <1>3, <2>1 DEF Program
<1>17. Running'
  <2>1. PICK m : m = n - 1
    OBVIOUS
  <2>2. Place(held, m)'
    BY <1>12, <2>1
  <2>3. Len(prog') = m /\ prog' = Suffix(P, m) /\ m <= Len(P)
    BY <1>9, <1>10, <2>1
  <2>4. Place(held, Len(prog))'
    BY <2>2, <2>3, Zenon
  <2>5. Len(prog)' <= Len(Program(held))' /\ prog' = Suffix(Program(held), Len(prog))'
    BY <1>16, <2>3, Zenon DEF Suffix
  <2> QED
    BY <2>4, <2>5, Zenon DEF Running
<1> QED
  BY <1>14, <1>15, <1>17 DEF IInv


\* When a call has returned, it is at the end of its program.
LEMMA Returns ==
  ASSUME IInv, Returned
  PROVE  Settled
<1>1. PICK held \in BOOLEAN : Place(held, Len(prog))
  BY DEF IInv, Running
<1>2. Len(prog) = 0
  BY DEF Returned
<1>3. Place(held, 0) /\ WiresAre
  BY <1>1, <1>2 DEF IInv
<1> QED
  BY <1>3, Arrived

\* The caller calls.
LEMMA CallTypes ==
  ASSUME WiresAre, Registers,
         CallStart \/ CallTx \/ CallRx \/ CallStop \/ CallClear \/ CallOpen
  PROVE  Returned /\ UNCHANGED <<wires, hold>> /\ WiresAre' /\ Registers'
<1>1. PICK op \in CallOps, byte \in Bytes \cup {<<>>}, ack \in BOOLEAN : \E P : Call(op, byte, ack, P)
  <2>1. \A b \in Bytes : b \in Bytes \cup {<<>>}
    OBVIOUS
  <2>2. <<>> \in Bytes \cup {<<>>} /\ TRUE \in BOOLEAN /\ FALSE \in BOOLEAN
    OBVIOUS
  <2>3. /\ "start" \in CallOps /\ "tx" \in CallOps /\ "rx" \in CallOps
        /\ "stop" \in CallOps /\ "clear" \in CallOps /\ "open" \in CallOps
    BY DEF CallOps
  <2> QED
    BY <2>1, <2>2, <2>3, Zenon DEF CallStart, CallTx, CallRx, CallStop, CallClear, CallOpen
<1>2. /\ Returned /\ UNCHANGED <<wires, hold, ie>>
      /\ call' = [op |-> op, byte |-> byte, ack |-> ack]
      /\ astray' = (astray \/ (op = "start" /\ Peer = "reading"))
  BY <1>1 DEF Call
<1>3. UNCHANGED <<mSda, mScl, slave, busy, clocks>>
  BY <1>2, Zenon DEF wires
<1>4. WiresAre' /\ Registers'
  BY <1>2, <1>3 DEF WiresAre, SlaveIs, Registers
<1> QED
  BY <1>2, <1>4

LEMMA CallKeeps ==
  ASSUME Textbook, IInv, CallStart \/ CallTx \/ CallRx \/ CallStop \/ CallClear \/ CallOpen
  PROVE  IInv' /\ UNCHANGED wires
<1>1. WiresAre /\ Registers /\ hold \in BOOLEAN
  BY DEF IInv, Registers
<1>3. Returned /\ UNCHANGED <<wires, hold>> /\ WiresAre' /\ Registers'
  BY <1>1, CallTypes
<1>6. Settled
  BY <1>3, Returns
<1>7. Callers = "textbook"
  BY DEF Textbook
<1>8. ASSUME CallStart \/ CallClear \/ CallOpen
      PROVE  Running'
  <2>1. \E op \in {"start", "clear", "open"} : MayCall(op)
    BY <1>8 DEF CallStart, CallClear, CallOpen, Call
  <2>2. (Free /\ ~hold) \/ (Quiet /\ hold)
    BY <1>6, <1>7, <2>1, Permitted
  <2> QED
    BY <1>1, <1>8, <2>2, StartRuns, ClearRuns, OpenRuns
<1>9. Running'
  BY <1>1, <1>6, <1>7, <1>8, TxRuns, RxRuns, StopRuns
<1> QED
  BY <1>3, <1>9, Zenon DEF IInv

\* The slave lets SCL go.
LEMMA ReleaseKeeps ==
  ASSUME IInv, ReleaseScl
  PROVE  IInv' /\ ProtocolStep
<1>1. WiresAre /\ Registers /\ Running /\ ~slave.scl
  BY DEF IInv, ReleaseScl
<1>2. PICK held \in BOOLEAN :
        /\ Len(prog) <= Len(Program(held))
        /\ prog = Suffix(Program(held), Len(prog))
        /\ Place(held, Len(prog))
  BY <1>1 DEF Running
<1>3. Still /\ busy
  BY <1>1, <1>2, PlaceStill, PlaceBusy
<1>4. Kept /\ UNCHANGED <<prog, call, hold>>
  BY <1>1, <1>3, ReleaseKept
<1>5. WiresAre' /\ ProtocolStep
  BY <1>1, <1>3, ReleaseTypes, ReleaseProtocol
<1>6. UNCHANGED <<call, hold, ie, busy, clocks, astray>>
  BY DEF ReleaseScl
<1>7. Registers'
  BY <1>1, <1>6 DEF Registers
<1>8. Running'
  <2>1. PICK n : n = Len(prog)
    OBVIOUS
  <2>2. Place(held, n)'
    BY <1>2, <1>4, <2>1, PlaceKept
  <2>3. Len(prog)' = n /\ Program(held)' = Program(held) /\ prog' = prog
    BY <1>4, <2>1 DEF Program
  <2>4. Place(held, Len(prog))'
    BY <2>2, <2>3, Zenon
  <2>5. Len(prog)' <= Len(Program(held))' /\ prog' = Suffix(Program(held), Len(prog))'
    BY <1>2, <2>1, <2>3, Zenon DEF Suffix
  <2> QED
    BY <2>4, <2>5, Zenon DEF Running
<1> QED
  BY <1>5, <1>7, <1>8 DEF IInv

LEMMA StutterKeeps ==
  ASSUME IInv, UNCHANGED vars
  PROVE  IInv' /\ UNCHANGED wires
<1>1. UNCHANGED <<mSda, mScl, slave, prog, call, data, hold, ie, busy, clocks, astray>>
  BY Zenon DEF vars
<1>2. UNCHANGED wires
  BY <1>1, Zenon DEF wires
<1>3. WiresAre' /\ Registers'
  BY <1>1 DEF IInv, WiresAre, SlaveIs, Registers
<1>4. PICK held \in BOOLEAN :
        /\ Len(prog) <= Len(Program(held))
        /\ prog = Suffix(Program(held), Len(prog))
        /\ Place(held, Len(prog))
  BY DEF IInv, Running
<1>5. Running'
  <2>1. PICK n : n = Len(prog)
    OBVIOUS
  <2>2. Kept
    BY <1>1, <1>2, KeptWires
  <2>3. Place(held, n)'
    BY <1>1, <1>4, <2>1, <2>2, PlaceKept
  <2>4. Len(prog)' = n /\ Program(held)' = Program(held) /\ prog' = prog
    BY <1>1, <2>1 DEF Program
  <2>5. Place(held, Len(prog))'
    BY <2>3, <2>4, Zenon
  <2>6. Len(prog)' <= Len(Program(held))' /\ prog' = Suffix(Program(held), Len(prog))'
    BY <1>4, <2>1, <2>4, Zenon DEF Suffix
  <2> QED
    BY <2>5, <2>6, Zenon DEF Running
<1> QED
  BY <1>2, <1>3, <1>5 DEF IInv

LEMMA NextKeeps ==
  ASSUME Textbook, IInv, [Next]_vars
  PROVE  IInv' /\ ProtocolStep
<1>1. CASE CallStart \/ CallTx \/ CallRx \/ CallStop \/ CallClear \/ CallOpen
  BY <1>1, CallKeeps, StillProtocol
<1>2. CASE CpuReset
  BY <1>2 DEF CpuReset, Textbook
<1>3. CASE Execute
  BY <1>3, ExecuteKeeps
<1>4. CASE Poll \/ UNCHANGED vars
  BY <1>4, StutterKeeps, StillProtocol DEF Poll
<1>5. CASE ReleaseScl
  BY <1>5, ReleaseKeeps
<1> QED
  BY <1>1, <1>2, <1>3, <1>4, <1>5 DEF Next

LEMMA InitStarts ==
  ASSUME Init
  PROVE  IInv /\ Protocol!Init
<1>1. /\ mSda = TRUE /\ mScl = TRUE /\ slave = Idle /\ prog = <<>>
      /\ call = [op |-> "none", byte |-> <<>>, ack |-> FALSE]
      /\ data = <<>> /\ hold = FALSE /\ ie = TRUE /\ busy = FALSE /\ clocks = 0
      /\ astray = FALSE
  BY DEF Init
<1>2. /\ slave.role = "off" /\ slave.n = 0 /\ slave.sda = TRUE /\ slave.scl = TRUE
      /\ slave.bits = <<>>
  BY <1>1 DEF Idle
<1>3. slave \in SlaveStates
  <2>1. <<>> \in Seq(BOOLEAN)
    BY EmptySeq
  <2> QED
    BY <1>1, <2>1 DEF Idle, SlaveStates
<1>4. WiresAre
  BY <1>1, <1>2, <1>3 DEF WiresAre, SlaveIs
<1>5. Registers
  <2>1. "none" \in CallOps /\ <<>> \in Bytes \cup {<<>>} /\ FALSE \in BOOLEAN
    BY DEF CallOps
  <2>2. call \in [op : CallOps, byte : Bytes \cup {<<>>}, ack : BOOLEAN]
    BY <1>1, <2>1
  <2>3. clocks \in -1 .. Bits
    BY <1>1
  <2>4. hold \in BOOLEAN /\ ie \in BOOLEAN /\ busy \in BOOLEAN /\ astray \in BOOLEAN
    BY <1>1, Zenon
  <2> QED
    BY <2>2, <2>3, <2>4 DEF Registers
<1>6. Running
  <2>1. Free
    BY <1>1, <1>2 DEF Free, Idling
  <2>2. call.op = "none"
    BY <1>1
  <2>3. PICK n : n = 0
    OBVIOUS
  <2>4. Place(FALSE, n)
    BY <1>1, <2>1, <2>2, <2>3 DEF Place
  <2>5. Program(FALSE) = <<>>
    BY <2>2 DEF Program
  <2>6. <<>> \in Seq(Ops) /\ Len(<<>>) = 0
    BY Literals
  <2>7. Suffix(<<>>, 0) = <<>>
    BY <2>6, Whole, Zenon
  <2>8. Len(prog) = n /\ Len(prog) <= Len(Program(FALSE)) /\ prog = Suffix(Program(FALSE), Len(prog))
    <3>1. prog = Program(FALSE) /\ Len(prog) = 0 /\ Len(prog) = n
      BY <1>1, <2>3, <2>5, <2>6, Zenon
    <3>2. prog = Suffix(Program(FALSE), Len(prog))
      BY <1>1, <2>5, <2>6, <2>7, Zenon
    <3>3. \A l : l = 0 => l <= l
      OBVIOUS
    <3> QED
      BY <3>1, <3>2, <3>3, Zenon
  <2> QED
    BY <2>4, <2>8, Zenon DEF Running
<1>7. Protocol!Init
  <2>1. Sda = TRUE /\ Scl = TRUE
    BY <1>1, <1>2 DEF Sda, Scl
  <2> QED
    BY <1>1, <2>1 DEF Protocol!Init
<1> QED
  BY <1>4, <1>5, <1>6, <1>7 DEF IInv


\* IInv is the inductive invariant: the running call is at a place of its
\* program that fits the wires, the slave and the data sampled so far.
THEOREM HwI2cInvariant ==
  ASSUME Textbook
  PROVE  Spec => []IInv
<1>1. Init => IInv
  BY InitStarts
<1>2. IInv /\ [Next]_vars => IInv'
  BY NextKeeps
<1> QED
  BY <1>1, <1>2, PTL DEF Spec

-----------------------------------------------------------------------------
(* Theorems *)

LEMMA Typed ==
  ASSUME IInv
  PROVE  TypeOK
<1>1. WiresAre /\ Registers
  BY DEF IInv
<1>2. PICK held \in BOOLEAN :
        /\ Len(prog) <= Len(Program(held))
        /\ prog = Suffix(Program(held), Len(prog))
        /\ Place(held, Len(prog))
  BY DEF IInv, Running
<1>3. data \in Seq(BOOLEAN) /\ Len(data) <= Bits
  BY <1>1, <1>2, PlaceData
<1>4. prog \in Seq(Ops)
  <2>1. Program(held) \in Seq(Ops)
    BY <1>2, ProgramIs
  <2>2. PICK n : n = Len(prog)
    OBVIOUS
  <2> QED
    BY <1>2, <2>1, <2>2, SuffixIs
<1> QED
  BY <1>1, <1>3, <1>4 DEF TypeOK, WiresAre, SlaveIs, Registers, CallOps

\* The registers, the wires, the slave and the rest of the running call have
\* their types, whatever the well-formed transactions (hw_i2c.c).
THEOREM HwI2cTypes ==
  ASSUME Textbook
  PROVE  Spec => []TypeOK
<1>1. IInv => TypeOK
  BY Typed
<1> QED
  BY <1>1, HwI2cInvariant, PTL

\* When a call has returned, hold_bus says what the wires say: it is set exactly
\* within a transfer, and outside of one both wires are high and the slave is
\* out of every transfer (hw_i2c.c:240-250, 263-269).
THEOREM HwI2cHolds ==
  ASSUME Textbook
  PROVE  Spec => []HoldTracksBus
<1>1. ASSUME IInv, Returned
      PROVE  (hold <=> busy) /\ (~hold => Sda /\ Scl /\ slave.role = "off")
  <2>1. /\ Peer = "none" => Free /\ ~hold
        /\ Peer # "none" => hold /\ busy
    BY <1>1, Returns DEF Settled
  <2>2. Free => ~busy /\ Sda /\ Scl /\ slave.role = "off"
    BY DEF Free, Idling, Sda, Scl
  <2> QED
    BY <2>1, <2>2, Zenon
<1>2. IInv => HoldTracksBus
  BY <1>1, Zenon DEF HoldTracksBus
<1> QED
  BY <1>2, HwI2cInvariant, PTL

\* What a call returned is true of the slave: it receives the next byte when
\* bus_i2c.c believes it may send one, and sends it when bus_i2c.c must read.
THEOREM HwI2cPeer ==
  ASSUME Textbook
  PROVE  Spec => []PeerListens
<1>1. ASSUME IInv, Returned
      PROVE  /\ Peer = "writing" => slave.role = "recv" /\ slave.n = 0
             /\ Peer = "reading" => slave.role = "send" /\ slave.n = 0
  BY <1>1, Returns DEF Settled, Hearing, Serving
<1>2. IInv => PeerListens
  BY <1>1, Zenon DEF PeerListens
<1> QED
  BY <1>2, HwI2cInvariant, PTL

\* The bytes arrive, both ways: the acknowledged byte is the one the slave
\* received, and the byte read is the one it sent (hw_i2c.c:278-296, 389-392).
THEOREM HwI2cDelivers ==
  ASSUME Textbook
  PROVE  Spec => []Delivered
<1>1. ASSUME IInv, Returned
      PROVE  /\ call.op \in {"start", "tx"} /\ Acked => slave.last = call.byte
             /\ call.op = "rx" => slave.last = data
  BY <1>1, Returns DEF Settled
<1>2. IInv => Delivered
  BY <1>1, Zenon DEF Delivered
<1> QED
  BY <1>2, HwI2cInvariant, PTL

\* The driver and the slave keep to the I2C protocol on the wires: START and
\* STOP conditions between whole frames, and SDA constant while SCL is high
\* (hw_i2c.h).  The statements implement I2cProtocol.
THEOREM HwI2cFollowsProtocol ==
  ASSUME Textbook
  PROVE  Spec => FollowsProtocol
<1>1. Init => Protocol!Init
  BY InitStarts
<1>2. IInv /\ [Next]_vars => ProtocolStep
  BY NextKeeps
<1>3. IInv /\ [Next]_vars => [Protocol!Next]_(Protocol!vars)
  BY <1>2 DEF ProtocolStep
<1> QED
  BY <1>1, <1>3, HwI2cInvariant, PTL DEF Spec, FollowsProtocol, Protocol!Spec

-----------------------------------------------------------------------------
(* A read that is broken off, and a reset of the processor.  The slave may be *)
(* sending when bus_clear or bus_i2c_open comes.  If the first bit it sends   *)
(* is a 0, there is no START condition; it sends on, one bit ahead of the     *)
(* driver's START byte, takes the last bit of that, a 1, for the answer to    *)
(* its byte, and is out of the transfer before the STOP condition.            *)

\* Reads may be broken off and the processor reset; the slave holds SCL only
\* before its acknowledgement.
Breaking == Callers \in {"textbook", "aborting"} /\ StretchAt \subseteq {"slaveAck"}

\* The slave sends, although the driver begins a transfer.
LateLow == ~mScl /\ Serving /\ slave.scl
LateHigh == mScl /\ mSda /\ Serving /\ slave.scl
LateZero == mScl /\ ~mSda /\ slave.role = "send" /\ slave.n = 0 /\ ~slave.sda /\ slave.scl

\* It is j bits ahead of the START condition that it did not see.
Lag(j) ==
  ~mScl /\ slave.role = "send" /\ slave.n = j /\ slave.scl /\ (j = Bits => slave.sda)
LagHigh(j) ==
  mScl /\ slave.role = "send" /\ slave.n = j /\ slave.scl /\ (j = Bits => ~slave.heard)

\* n statements of bus_clear are left, and the slave did not see the START.
LagPlace(held, n) ==
  \/ /\ data = <<>>
     /\ \/ held /\ n \in {3 * Bits + 20, 3 * Bits + 21} /\ LateLow
        \/ held /\ n = 3 * Bits + 19 /\ LateLow /\ mSda
        \/ ~held /\ n = 3 * Bits + 19 /\ LateHigh
        \/ n = 3 * Bits + 18 /\ LateHigh
        \/ n = 3 * Bits + 17 /\ LateZero
        \/ n = 3 * Bits + 16 /\ Lag(1)
        \/ n = 3 * Bits + 15 /\ hold /\ Lag(1)
        \/ /\ hold
           /\ \E j \in 1 .. Bits :
                \/ n = 14 + 3 * (Bits - j + 1) /\ Lag(j)
                \/ n = 13 + 3 * (Bits - j + 1) /\ Lag(j) /\ (mSda <=> j = Bits)
                \/ n = 12 + 3 * (Bits - j + 1) /\ LagHigh(j)
        \/ n \in 12 .. 14 /\ hold /\ ~mScl /\ Gone
        \/ n = 11 /\ hold /\ ~mScl /\ mSda /\ Gone
        \/ n = 10 /\ hold /\ mScl /\ mSda /\ Gone
  \/ /\ data = <<TRUE>> /\ hold
     /\ \/ n = 9 /\ mScl /\ mSda /\ Gone
        \/ n \in 5 .. 8 /\ ~mScl /\ Gone
        \/ n = 4 /\ ~mScl /\ ~mSda /\ Gone
        \/ n = 3 /\ mScl /\ ~mSda /\ Gone

\* The processor has been reset.
ResetPlace == data = <<>> /\ ~hold /\ mSda /\ mScl /\ (Ready \/ LateHigh)

\* The place of a call in any of this; the STOP condition of a bus_clear may also
\* be the first condition that a slave which drifted (see below) has heard.
AnyPlace(held, n) ==
  \/ Place(held, n)
  \/ call.op = "clear" /\ LagPlace(held, n)
  \/ call.op = "open" /\ LagPlace(FALSE, n)
  \/ /\ call.op = "open" /\ data = <<>>
     /\ \/ n \in 3 * Bits + 20 .. 3 * Bits + 22 /\ LateHigh
        \/ n = 3 * Bits + 22 /\ LateLow
        \/ n = 3 * Bits + 21 /\ LateLow /\ mSda
  \/ call.op = "reset" /\ n = 0 /\ ResetPlace
  \/ call.op \in {"clear", "open"} /\ n \in 0 .. 2 /\ StopPlace(n)

Steady == slave.role = "send" => slave.scl

-----------------------------------------------------------------------------
(* A read that is broken off with a START the slave does not see, because it  *)
(* sends a 0.  What the driver does is then for it clocks and answers of its  *)
(* bytes, until a START or a STOP condition comes where it sends a 1, or it   *)
(* is out of the transfer: all that is known is where the driver's wires are. *)

\* The slave in that time.
Drifting == slave.role = "send" \/ Gone

\* m statements of start, or of the part of tx that is like it, are left.
BlindSend(m) ==
  \/ m = 3 * Bits + 8 /\ ~mScl
  \/ \E j \in 1 .. Bits :
       \/ m = 7 + 3 * (Bits - j + 1) /\ ~mScl
       \/ m = 6 + 3 * (Bits - j + 1) /\ ~mScl
       \/ m = 5 + 3 * (Bits - j + 1) /\ mScl
  \/ m \in 5 .. 7 /\ ~mScl
  \/ m = 4 /\ ~mScl /\ mSda
  \/ m \in 2 .. 3 /\ mScl /\ mSda
  \/ m \in 0 .. 1 /\ ~mScl /\ mSda

BlindStart(held, m) ==
  \/ /\ data = <<>>
     /\ \/ held /\ m \in {3 * Bits + 13, 3 * Bits + 14} /\ ~mScl
        \/ held /\ m = 3 * Bits + 12 /\ ~mScl /\ mSda
        \/ ~held /\ m = 3 * Bits + 12 /\ mScl /\ mSda
        \/ m = 3 * Bits + 11 /\ mScl /\ mSda
        \/ m = 3 * Bits + 10 /\ mScl
        \/ m = 3 * Bits + 9 /\ ~mScl
  \/ hold /\ BlindSend(m)

BlindStop(n) ==
  \/ n \in 5 .. 7 /\ ~mScl
  \/ n = 4 /\ ~mScl /\ ~mSda
  \/ n = 3 /\ mScl /\ ~mSda
  \/ n = 2 /\ mScl /\ mSda
  \/ n \in 0 .. 1 /\ ~hold /\ mScl /\ mSda

BlindTx(n) ==
  /\ hold
  /\ \/ n = 3 * Bits + 10 /\ ~mScl
     \/ n >= 1 /\ BlindSend(n - 1)
     \/ n = 0 /\ ~mScl /\ mSda

BlindRx(n) ==
  \/ n = 6 * Bits + 6 /\ ~mScl
  \/ \E j \in 1 .. Bits :
       \/ n = 5 + 6 * (Bits - j + 1) /\ ~mScl
       \/ n = 4 + 6 * (Bits - j + 1) /\ ~mScl
       \/ n = 3 + 6 * (Bits - j + 1) /\ ~mScl
       \/ n = 2 + 6 * (Bits - j + 1) /\ mScl
       \/ n = 1 + 6 * (Bits - j + 1) /\ mScl
       \/ n = 6 * (Bits - j + 1) /\ ~mScl
  \/ n \in 4 .. 5 /\ ~mScl
  \/ n = 3 /\ mScl
  \/ n = 2 /\ ~mScl
  \/ n \in 0 .. 1 /\ ~mScl /\ mSda

BlindClear(held, n) ==
  \/ n >= 8 /\ BlindStart(held, n - 7)
  \/ BlindStop(n)

BlindOpen(n) ==
  \/ n \in 3 * Bits + 21 .. 3 * Bits + 22 /\ data = <<>> /\ mSda
  \/ n = 3 * Bits + 20 /\ data = <<>> /\ mSda /\ mScl
  \/ BlindClear(FALSE, n)

BlindPlace(held, n) ==
  \/ call.op = "start" /\ call.byte \in Bytes /\ BlindStart(held, n)
  \/ call.op = "tx" /\ call.byte \in Bytes /\ BlindTx(n)
  \/ call.op = "rx" /\ call.ack \in BOOLEAN /\ hold /\ BlindRx(n)
  \/ call.op = "stop" /\ data = <<>> /\ BlindStop(n)
  \/ call.op = "clear" /\ BlindClear(held, n)
  \/ call.op = "open" /\ BlindOpen(n)
  \/ call.op = "reset" /\ n = 0 /\ ~hold /\ mSda /\ mScl

\* The slave goes on drifting, and hears of no condition on the wires.
Drifts == astray' = astray /\ Drifting'
Lost == StretchAt \subseteq {"slaveAck"} /\ WiresAre /\ Steady /\ Drifting

-----------------------------------------------------------------------------
(* The inductive invariant *)

Placed(held, n) ==
  IF astray THEN Drifting /\ BlindPlace(held, n) ELSE AnyPlace(held, n)

RunningOn ==
  \E held \in BOOLEAN :
    /\ Len(prog) <= Len(Program(held))
    /\ prog = Suffix(Program(held), Len(prog))
    /\ Placed(held, Len(prog))

BInv == WiresAre /\ Steady /\ Registers /\ RunningOn

-----------------------------------------------------------------------------
(* The slave that sends, at the driver's edges *)

LEMMA KeptLate ==
  ASSUME Kept
  PROVE  /\ LateLow => LateLow'
         /\ LateHigh => LateHigh'
         /\ LateZero => LateZero'
         /\ Gone => Gone'
         /\ \A j : (Lag(j) => Lag(j)') /\ (LagHigh(j) => LagHigh(j)')
<1>1. (Serving => Serving') /\ (Gone => Gone')
  BY Zenon DEF Kept, Serving, Gone
<1>2. (LateLow => LateLow') /\ (LateHigh => LateHigh')
  BY <1>1, Zenon DEF Kept, LateLow, LateHigh
<1>3. LateZero => LateZero'
  BY Zenon DEF Kept, LateZero
<1>4. \A j : (Lag(j) => Lag(j)') /\ (LagHigh(j) => LagHigh(j)')
  BY Zenon DEF Kept, Lag, LagHigh
<1> QED
  BY <1>1, <1>2, <1>3, <1>4

\* SDA changes while SCL is low.
LEMMA LateSets ==
  ASSUME ~mScl, NEW x \in BOOLEAN, Drive(x, mScl), WiresAre
  PROVE  /\ mSda' = x /\ ~mScl' /\ slave' = slave
         /\ LateLow => LateLow'
         /\ Gone => Gone'
         /\ \A j : Lag(j) => Lag(j)'
<1>1. mScl \in BOOLEAN
  BY DEF WiresAre
<1>2. slave' = slave
  BY <1>1, DriveLow
<1>3. mSda' = x /\ mScl' = mScl
  BY Zenon DEF Drive
<1>4. (Serving => Serving') /\ (Gone => Gone')
  BY <1>2, Zenon DEF Serving, Gone
<1> QED
  BY <1>2, <1>3, <1>4, Zenon DEF LateLow, Lag

\* SCL rises: a slave that sends a bit, or is out, does not mind.
LEMMA LateRises ==
  ASSUME ~mScl, slave.scl, NEW x \in BOOLEAN, Drive(x, TRUE), WiresAre,
         (slave.role = "send" /\ slave.n # Bits) \/ slave.role = "off"
  PROVE  mSda' = x /\ mScl' /\ slave' = slave
<1>1. SlaveIs
  BY DEF WiresAre
<1>2. slave' = Sampled(slave, x /\ slave.sda)
  BY <1>1, DriveRise
<1>3. Sampled(slave, x /\ slave.sda) = slave
  BY Unsampled
<1>4. mSda' = x /\ mScl' = TRUE
  BY Zenon DEF Drive
<1> QED
  BY <1>2, <1>3, <1>4

\* SCL falls: the slave is one bit further.
LEMMA LateFalls ==
  ASSUME Gentle, WiresAre, mScl, slave.scl, slave.role = "send",
         NEW j \in 0 .. Bits - 1, slave.n = j, Drive(mSda, FALSE)
  PROVE  Lag(j + 1)'
<1>1. SlaveIs /\ mSda \in BOOLEAN
  BY DEF WiresAre
<1>2. slave' \in Fell(slave)
  BY <1>1, DriveFall
<1>3. ~mScl'
  BY Zenon DEF Drive
<1>4. CASE j < Bits - 1
  <2>1. slave.n < Bits - 1 /\ slave.n >= 0 /\ slave.n + 1 = j + 1 /\ j + 1 # Bits
    BY <1>4
  <2>2. slave'.n = slave.n + 1 /\ slave'.role = "send" /\ slave'.scl = slave.scl
    BY <1>1, <1>2, <2>1, FellRead
  <2> QED
    BY <1>3, <2>1, <2>2, Zenon DEF Lag
<1>5. CASE j = Bits - 1
  <2>1. slave'.n = Bits /\ slave'.role = "send" /\ slave'.scl = slave.scl /\ slave'.sda
    BY <1>1, <1>2, <1>5, FellLast
  <2>2. j + 1 = Bits
    BY <1>5
  <2> QED
    BY <1>3, <2>1, <2>2, Zenon DEF Lag
<1> QED
  BY <1>4, <1>5

\* The driver's SDA comes to the slave as a bit of its own or as the answer.
LEMMA LagRises ==
  ASSUME WiresAre, NEW j \in 1 .. Bits, Lag(j), mSda <=> j = Bits, Drive(mSda, TRUE)
  PROVE  LagHigh(j)'
<1>1. SlaveIs /\ mSda \in BOOLEAN /\ slave.sda \in BOOLEAN
  BY DEF WiresAre, SlaveIs, SlaveStates
<1>2. ~mScl /\ slave.role = "send" /\ slave.n = j /\ slave.scl
  BY DEF Lag
<1>3. mScl'
  BY Zenon DEF Drive
<1>4. CASE j = Bits
  <2>1. mSda /\ slave.sda
    BY <1>4 DEF Lag
  <2>2. slave' = Sampled(slave, mSda /\ slave.sda)
    BY <1>1, <1>2, DriveRise
  <2>3. (mSda /\ slave.sda) = TRUE
    BY <1>1, <2>1
  <2>4. slave' = Sampled(slave, TRUE)
    BY <2>2, <2>3
  <2>5. /\ slave'.heard <=> ~TRUE
        /\ slave'.role = slave.role /\ slave'.n = slave.n /\ slave'.scl = slave.scl
    BY <1>1, <1>2, <1>4, <2>4, SampledAnswer
  <2> QED
    BY <1>2, <1>3, <2>5, Zenon DEF LagHigh
<1>5. CASE j # Bits
  <2>1. slave' = slave
    BY <1>1, <1>2, <1>5, LateRises
  <2> QED
    BY <1>2, <1>3, <1>5, <2>1, Zenon DEF LagHigh
<1> QED
  BY <1>4, <1>5

\* Not answered, it is out of the transfer.
LEMMA LagEnds ==
  ASSUME Gentle, WiresAre, LagHigh(Bits), Drive(mSda, FALSE)
  PROVE  ~mScl' /\ Gone'
<1>1. SlaveIs /\ mSda \in BOOLEAN
  BY DEF WiresAre
<1>2. mScl /\ slave.role = "send" /\ slave.n = Bits /\ slave.scl /\ ~slave.heard
  BY DEF LagHigh
<1>3. slave' \in Fell(slave)
  BY <1>1, <1>2, DriveFall
<1>4. Gone'
  BY <1>1, <1>2, <1>3, FellGone
<1>5. ~mScl'
  BY Zenon DEF Drive
<1> QED
  BY <1>4, <1>5

LEMMA GoneFalls ==
  ASSUME Gentle, WiresAre, Gone, mScl, Drive(mSda, FALSE)
  PROVE  ~mScl' /\ Gone'
<1>1. SlaveIs /\ mSda \in BOOLEAN /\ slave.scl /\ slave.role = "off"
  BY DEF WiresAre, Gone
<1>2. slave' \in Fell(slave)
  BY <1>1, DriveFall
<1>3. slave' = slave
  BY <1>1, <1>2, FellOff
<1>4. ~mScl'
  BY Zenon DEF Drive
<1> QED
  BY <1>3, <1>4, Zenon DEF Gone

\* And sees the STOP condition.
LEMMA GoneStops ==
  ASSUME WiresAre, Gone, mScl, ~mSda, Drive(TRUE, mScl)
  PROVE  Free'
<1>1. mScl /\ slave.scl /\ slave.sda /\ SlaveIs
  BY DEF WiresAre, Gone
<1>2. slave' = Released(slave) /\ busy' = FALSE /\ clocks' = 0
  BY <1>1, DriveStop
<1>3. mSda' = TRUE /\ mScl' = mScl
  BY Zenon DEF Drive
<1>4. /\ slave'.role = "off" /\ slave'.n = 0 /\ slave'.sda /\ slave'.scl = slave.scl
  BY <1>1, <1>2, ReleasedIs
<1>5. slave'.role \in {"off", "recv"}
  BY <1>4
<1> QED
  BY <1>1, <1>2, <1>3, <1>4, <1>5, Zenon DEF Free, Idling

\* The START condition is one exactly if the slave sends a 1.
LEMMA LateStarts ==
  ASSUME WiresAre, LateHigh, Drive(FALSE, mScl)
  PROVE  Begun' \/ LateZero'
<1>1. /\ mScl /\ mSda /\ slave.scl /\ SlaveIs /\ mScl \in BOOLEAN
      /\ slave.role = "send" /\ slave.n = 0 /\ slave.sda \in BOOLEAN
  BY DEF WiresAre, LateHigh, Serving, SlaveIs, SlaveStates
<1>2. mSda' = FALSE /\ mScl' = mScl
  BY Zenon DEF Drive
<1>3. CASE slave.sda
  <2>1. slave' = Started(slave) /\ busy' = TRUE /\ clocks' = -1
    BY <1>1, <1>3, DriveStart
  <2>2. /\ slave'.role = "addr" /\ slave'.n = -1 /\ slave'.sda /\ slave'.bits = <<>>
        /\ slave'.scl = slave.scl
    BY <1>1, <2>1, StartedIs
  <2>3. Begun'
    BY <1>1, <1>2, <2>1, <2>2, Zenon DEF Begun
  <2> QED
    BY <2>3
<1>4. CASE ~slave.sda
  <2>1. Scl = (mScl /\ slave.scl)
    BY DEF Scl
  <2>2. Sda = (FALSE /\ slave.sda)
    BY <1>1, <1>4 DEF Sda
  <2>3. slave' = slave
    BY <1>1, <2>1, <2>2, Zenon DEF Drive, Edge
  <2> QED
    BY <1>1, <1>2, <1>4, <2>3, Zenon DEF LateZero
<1> QED
  BY <1>3, <1>4

LEMMA LateStays ==
  ASSUME WiresAre, LateHigh, Drive(TRUE, TRUE)
  PROVE  LateHigh'
<1>1. mScl /\ slave.scl /\ mSda
  BY DEF LateHigh
<1>2. slave' = slave
  BY <1>1, DriveSame
<1>3. mSda' = TRUE /\ mScl' = TRUE
  BY Zenon DEF Drive
<1>4. Serving => Serving'
  BY <1>2, Zenon DEF Serving
<1> QED
  BY <1>1, <1>2, <1>3, <1>4, Zenon DEF LateHigh


-----------------------------------------------------------------------------
(* A slave that sends lets SCL go *)

LEMMA AfterScl ==
  ASSUME SlaveIs, NEW u \in After(slave)
  PROVE  u.scl = slave.scl
<1>1. slave \in SlaveStates
  BY DEF SlaveIs
<1>2. CASE slave.role = "off"
  BY <1>2, Zenon DEF After
<1>3. CASE slave.role # "off" /\ slave.n < Bits - 1
  <2> DEFINE level == IF slave.role = "send" THEN slave.bits[slave.n + 2] ELSE slave.sda
             v == [slave EXCEPT !.n = @ + 1, !.sda = level]
  <2>1. u = v
    <3>1. After(slave) = CASE slave.n < Bits - 1 -> {v}
                           [] slave.n = Bits - 1 -> AckSlot(slave)
                           [] OTHER -> NextByte(slave)
      BY <1>3, Zenon DEF After
    <3> HIDE DEF v
    <3> QED
      BY <1>3, <3>1
  <2> HIDE DEF level
  <2> QED
    BY <1>1, <2>1 DEF SlaveStates
<1>4. Released(slave).scl = slave.scl
  BY <1>1 DEF Released, SlaveStates
<1>5. CASE slave.role # "off" /\ slave.n = Bits - 1
  <2> DEFINE t == [slave EXCEPT !.n = Bits, !.last = slave.bits]
  <2>1. u \in AckSlot(slave)
    BY <1>5 DEF After
  <2>2. PICK d : u = Released(slave) \/ u = [t EXCEPT !.sda = d]
    BY <2>1 DEF AckSlot
  <2>3. CASE u = Released(slave)
    BY <1>4, <2>3
  <2>4. CASE u = [t EXCEPT !.sda = d]
    BY <1>1, <2>4 DEF SlaveStates
  <2> QED
    BY <2>2, <2>3, <2>4
<1>6. CASE slave.role # "off" /\ ~(slave.n < Bits - 1) /\ slave.n # Bits - 1
  <2>1. u \in NextByte(slave)
    BY <1>6, Zenon DEF After
  <2>2. \/ u = Released(slave)
        \/ \E b \in Bytes :
             u = [slave EXCEPT !.role = "send", !.n = 0, !.bits = b, !.sda = b[1]]
        \/ u = [slave EXCEPT !.role = "recv", !.n = 0, !.bits = <<>>, !.sda = TRUE]
    BY <2>1 DEF NextByte
  <2>3. CASE u = Released(slave)
    BY <1>4, <2>3
  <2>4. CASE \E b \in Bytes :
               u = [slave EXCEPT !.role = "send", !.n = 0, !.bits = b, !.sda = b[1]]
    <3>1. PICK b \in Bytes :
            u = [slave EXCEPT !.role = "send", !.n = 0, !.bits = b, !.sda = b[1]]
      BY <2>4
    <3> QED
      BY <1>1, <3>1 DEF SlaveStates
  <2>5. CASE u = [slave EXCEPT !.role = "recv", !.n = 0, !.bits = <<>>, !.sda = TRUE]
    BY <1>1, <2>5 DEF SlaveStates
  <2> QED
    BY <2>2, <2>3, <2>4, <2>5
<1> QED
  BY <1>2, <1>3, <1>5, <1>6

LEMMA DriveSteady ==
  ASSUME StretchAt \subseteq {"slaveAck"}, WiresAre, Steady,
         NEW x \in BOOLEAN, NEW y \in BOOLEAN, Drive(x, y)
  PROVE  Steady'
<1>1. SlaveIs /\ slave \in SlaveStates /\ Edge(x /\ slave.sda, y /\ slave.scl)
  BY DEF WiresAre, SlaveIs, Drive
<1>2. CASE slave' = Started(slave) \/ slave' = Released(slave)
  BY <1>1, <1>2, StartedIs, ReleasedIs DEF Steady
<1>3. CASE slave' = Sampled([slave EXCEPT !.scl = TRUE], x /\ slave.sda)
  <2> DEFINE r == [slave EXCEPT !.scl = TRUE]
  <2>1. r \in SlaveStates
    BY <1>1 DEF SlaveStates
  <2>2. r.scl
    BY <1>1 DEF SlaveStates
  <2>3. slave' = Sampled(r, x /\ slave.sda)
    BY <1>3
  <2> HIDE DEF r
  <2>4. slave'.scl = r.scl
    BY <2>1, <2>3, SampledWires
  <2> QED
    BY <2>2, <2>4 DEF Steady
<1>4. CASE Scl /\ slave' \in Fell(slave)
  <2>1. PICK u \in After(slave) :
          slave' = u \/ (slave' = [u EXCEPT !.scl = FALSE] /\ Slot(u) \in StretchAt)
    BY <1>4, FellIs, Zenon
  <2>2. u.scl = slave.scl /\ SlaveLike(u)
    BY <1>1, <2>1, AfterScl, AfterTypes
  <2>3. CASE slave' = u
    BY <1>4, <2>2, <2>3 DEF Scl, Steady
  <2>4. CASE slave' = [u EXCEPT !.scl = FALSE] /\ Slot(u) = "slaveAck"
    <3>1. slave'.role = u.role
      BY <2>2, <2>4 DEF SlaveLike, SlaveStates
    <3>2. u.role # "send"
      BY <2>4 DEF Slot
    <3> QED
      BY <3>1, <3>2 DEF Steady
  <2> QED
    BY <2>1, <2>3, <2>4
<1>5. CASE slave' = slave
  BY <1>5 DEF Steady
<1> QED
  BY <1>1, <1>2, <1>3, <1>4, <1>5, Zenon DEF Edge

LEMMA DidSteady ==
  ASSUME StretchAt \subseteq {"slaveAck"}, WiresAre, Steady, NEW op \in Ops, Did(op)
  PROVE  Steady'
<1>1. mSda \in BOOLEAN /\ mScl \in BOOLEAN /\ TRUE \in BOOLEAN /\ FALSE \in BOOLEAN
  BY DEF WiresAre
<1>2. CASE op = "sda_hi"
  <2>1. Drive(TRUE, mScl)
    BY <1>2 DEF Did
  <2> QED
    BY <1>1, <2>1, DriveSteady, Zenon
<1>3. CASE op = "sda_low"
  <2>1. Drive(FALSE, mScl)
    BY <1>3 DEF Did
  <2> QED
    BY <1>1, <2>1, DriveSteady, Zenon
<1>4. CASE op = "scl_hi"
  <2>1. Drive(mSda, TRUE)
    BY <1>4 DEF Did
  <2> QED
    BY <1>1, <2>1, DriveSteady, Zenon
<1>5. CASE op = "scl_low"
  <2>1. Drive(mSda, FALSE)
    BY <1>5 DEF Did
  <2> QED
    BY <1>1, <2>1, DriveSteady, Zenon
<1>6. CASE op \in {"cli", "sei", "hold", "unhold", "sample"}
  <2>1. UNCHANGED wires
    BY <1>6 DEF Did
  <2>2. slave' = slave
    BY <2>1, Zenon DEF wires
  <2> QED
    BY <2>2 DEF Steady
<1> QED
  BY <1>2, <1>3, <1>4, <1>5, <1>6 DEF Ops


-----------------------------------------------------------------------------
(* The statements of bus_clear with a slave that sends *)

LEMMA LagStep ==
  ASSUME Gentle, WiresAre, NEW held \in BOOLEAN,
         NEW P, Starts(P, held, StartByte, 7), Stops(P), NEW n \in Nat,
         LagPlace(held, n), Did(Statement(P, n))
  PROVE  LagPlace(held, n - 1)' \/ ClearPlace(held, n - 1)'
<1> DEFINE B == 3 * Bits
<1>1. mSda \in BOOLEAN /\ mScl \in BOOLEAN
  BY DEF WiresAre
<1>2. /\ Statement(P, B + 16) = "hold" /\ Statement(P, B + 17) = "scl_low"
      /\ Statement(P, B + 18) = "sda_low"
      /\ held => /\ Statement(P, B + 19) = "scl_hi"
                 /\ Statement(P, B + 20) = "sda_hi"
                 /\ Statement(P, B + 21) = "cli"
      /\ ~held => Statement(P, B + 19) = "cli"
      /\ Statement(P, B + 15) = "cli"
  <2>1. /\ 7 + 3 * Bits + 9 = B + 16 /\ 7 + 3 * Bits + 10 = B + 17
        /\ 7 + 3 * Bits + 11 = B + 18 /\ 7 + 3 * Bits + 12 = B + 19
        /\ 7 + 3 * Bits + 13 = B + 20 /\ 7 + 3 * Bits + 14 = B + 21
        /\ 7 + 3 * Bits + 8 = B + 15
    OBVIOUS
  <2> QED
    BY <2>1, Zenon DEF Starts, Sends
<1>3. /\ \A j \in 1 .. Bits :
           /\ Statement(P, 14 + 3 * (Bits - j + 1)) = IF StartByte[j] THEN "sda_hi" ELSE "sda_low"
           /\ Statement(P, 13 + 3 * (Bits - j + 1)) = "scl_hi"
           /\ Statement(P, 12 + 3 * (Bits - j + 1)) = "scl_low"
      /\ Statement(P, 14) = "sei" /\ Statement(P, 13) = "cli" /\ Statement(P, 12) = "sda_hi"
      /\ Statement(P, 11) = "scl_hi" /\ Statement(P, 10) = "sample"
      /\ Statement(P, 9) = "scl_low" /\ Statement(P, 8) = "sei"
  <2>1. /\ 7 + 7 = 14 /\ 7 + 6 = 13 /\ 7 + 5 = 12 /\ 7 + 4 = 11 /\ 7 + 3 = 10 /\ 7 + 2 = 9
        /\ 7 + 1 = 8
    OBVIOUS
  <2>2. Sends(P, StartByte, 7)
    BY DEF Starts
  <2>3. /\ Statement(P, 14) = "sei" /\ Statement(P, 13) = "cli" /\ Statement(P, 12) = "sda_hi"
        /\ Statement(P, 11) = "scl_hi" /\ Statement(P, 10) = "sample"
        /\ Statement(P, 9) = "scl_low" /\ Statement(P, 8) = "sei"
    BY <2>1, <2>2, Zenon DEF Sends
  <2>4. ASSUME NEW j \in 1 .. Bits
        PROVE  /\ Statement(P, 14 + 3 * (Bits - j + 1))
                    = IF StartByte[j] THEN "sda_hi" ELSE "sda_low"
               /\ Statement(P, 13 + 3 * (Bits - j + 1)) = "scl_hi"
               /\ Statement(P, 12 + 3 * (Bits - j + 1)) = "scl_low"
    <3> DEFINE u == 3 * (Bits - j + 1)
    <3>1. 7 + 7 + u = 14 + u /\ 7 + 6 + u = 13 + u /\ 7 + 5 + u = 12 + u
      OBVIOUS
    <3>2. /\ Statement(P, 7 + 7 + u) = IF StartByte[j] THEN "sda_hi" ELSE "sda_low"
          /\ Statement(P, 7 + 6 + u) = "scl_hi"
          /\ Statement(P, 7 + 5 + u) = "scl_low"
      BY <2>2, Zenon DEF Sends
    <3> QED
      BY <3>1, <3>2, Zenon
  <2> QED
    BY <2>3, <2>4
<1>4. /\ Statement(P, 7) = "cli" /\ Statement(P, 6) = "scl_low" /\ Statement(P, 5) = "sda_low"
      /\ Statement(P, 4) = "scl_hi" /\ Statement(P, 3) = "sda_hi"
  BY MasterStopIs DEF Stops
<1>5. CASE data = <<>> /\ held /\ n = B + 21 /\ LateLow
  <2>1. n - 1 \in {B + 20, B + 21} /\ Did("cli")
    BY <1>2, <1>5
  <2>2. LateLow' /\ data' = <<>>
    BY <1>5, <2>1, Masked, KeptLate
  <2> QED
    BY <1>5, <2>1, <2>2, Zenon DEF LagPlace
<1>6. CASE data = <<>> /\ held /\ n = B + 20 /\ LateLow
  <2>1. n - 1 = B + 19 /\ Did("sda_hi")
    BY <1>2, <1>6
  <2>2. Drive(TRUE, mScl) /\ data' = <<>>
    BY <1>6, <2>1 DEF Did
  <2>3. LateLow' /\ mSda'
    BY <1>6, <2>2, LateSets DEF LateLow
  <2> QED
    BY <1>6, <2>1, <2>2, <2>3, Zenon DEF LagPlace
<1>7. CASE data = <<>> /\ held /\ n = B + 19 /\ LateLow /\ mSda
  <2>1. n - 1 = B + 18 /\ Did("scl_hi")
    BY <1>2, <1>7
  <2>2. Drive(mSda, TRUE) /\ data' = <<>>
    BY <1>7, <2>1 DEF Did
  <2>3. ~mScl /\ slave.scl /\ slave.role = "send" /\ slave.n # Bits
    BY <1>7 DEF LateLow, Serving
  <2>4. mSda' = mSda /\ mScl' /\ slave' = slave
    BY <1>1, <2>2, <2>3, LateRises
  <2>5. LateHigh'
    BY <1>7, <2>4, Zenon DEF LateLow, LateHigh, Serving
  <2> QED
    BY <2>1, <2>2, <2>5, Zenon DEF LagPlace
<1>8. CASE data = <<>> /\ ~held /\ n = B + 19 /\ LateHigh
  <2>1. n - 1 = B + 18 /\ Did("cli")
    BY <1>2, <1>8
  <2>2. LateHigh' /\ data' = <<>>
    BY <1>8, <2>1, Masked, KeptLate
  <2> QED
    BY <2>1, <2>2, Zenon DEF LagPlace
<1>9. CASE data = <<>> /\ n = B + 18 /\ LateHigh
  <2>1. n - 1 = B + 17 /\ n - 1 >= 8 /\ (n - 1) - 7 = 3 * Bits + 10 /\ Did("sda_low")
    BY <1>2, <1>9
  <2>2. Drive(FALSE, mScl) /\ data' = <<>>
    BY <1>9, <2>1 DEF Did
  <2>3. Begun' \/ LateZero'
    BY <1>9, <2>2, LateStarts
  <2>4. CASE Begun'
    BY <2>1, <2>2, <2>4, Zenon DEF ClearPlace, StartPlace
  <2>5. CASE LateZero'
    BY <2>1, <2>2, <2>5, Zenon DEF LagPlace
  <2> QED
    BY <2>3, <2>4, <2>5
<1>10. CASE data = <<>> /\ n = B + 17 /\ LateZero
  <2>1. n - 1 = B + 16 /\ Did("scl_low") /\ 0 \in 0 .. Bits - 1
    BY <1>2, <1>10
  <2>2. Drive(mSda, FALSE) /\ data' = <<>>
    BY <1>10, <2>1 DEF Did
  <2>3. Lag(0 + 1)'
    BY <1>10, <2>1, <2>2, LateFalls DEF LateZero
  <2>4. 0 + 1 = 1
    OBVIOUS
  <2> QED
    BY <2>1, <2>2, <2>3, <2>4, Zenon DEF LagPlace
<1>11. CASE data = <<>> /\ n = B + 16 /\ Lag(1)
  <2>1. n - 1 = B + 15 /\ Did("hold")
    BY <1>2, <1>11
  <2>2. hold' = TRUE /\ data' = <<>> /\ Kept
    BY <1>11, <2>1, KeptWires DEF Did
  <2>3. Lag(1)'
    BY <1>11, <2>2, KeptLate
  <2> QED
    BY <2>1, <2>2, <2>3, Zenon DEF LagPlace
<1>12. CASE data = <<>> /\ n = B + 15 /\ hold /\ Lag(1)
  <2>1. n - 1 = 14 + 3 * (Bits - 1 + 1) /\ 1 \in 1 .. Bits /\ Did("cli")
    BY <1>2, <1>12
  <2>2. Lag(1)' /\ data' = <<>> /\ hold'
    BY <1>12, <2>1, Masked, KeptLate
  <2> QED
    BY <2>1, <2>2, Zenon DEF LagPlace
<1>13. ASSUME NEW j \in 1 .. Bits, data = <<>>, hold, n = 14 + 3 * (Bits - j + 1), Lag(j)
       PROVE  LagPlace(held, n - 1)'
  <2>1. n - 1 = 13 + 3 * (Bits - j + 1)
    BY <1>13
  <2>2. StartByte[j] <=> j = Bits
    BY Zenon DEF StartByte
  <2>3. Did(IF j = Bits THEN "sda_hi" ELSE "sda_low")
    BY <1>3, <1>13, <2>2
  <2>4. Drive(j = Bits, mScl) /\ data' = <<>> /\ hold'
    <3>1. CASE j = Bits
      BY <1>13, <2>3, <3>1 DEF Did
    <3>2. CASE j # Bits
      BY <1>13, <2>3, <3>2 DEF Did
    <3> QED
      BY <3>1, <3>2
  <2>5. (j = Bits) \in BOOLEAN /\ ~mScl
    BY <1>13 DEF Lag
  <2>6. Lag(j)' /\ mSda' = (j = Bits)
    BY <1>13, <2>4, <2>5, LateSets
  <2> QED
    BY <2>1, <2>4, <2>6, Zenon DEF LagPlace
<1>14. ASSUME NEW j \in 1 .. Bits, data = <<>>, hold, n = 13 + 3 * (Bits - j + 1),
              Lag(j), mSda <=> j = Bits
       PROVE  LagPlace(held, n - 1)'
  <2>1. n - 1 = 12 + 3 * (Bits - j + 1) /\ Did("scl_hi")
    BY <1>3, <1>14
  <2>2. Drive(mSda, TRUE) /\ data' = <<>> /\ hold'
    BY <1>14, <2>1 DEF Did
  <2>3. LagHigh(j)'
    BY <1>14, <2>2, LagRises
  <2> QED
    BY <2>1, <2>2, <2>3, Zenon DEF LagPlace
<1>15. ASSUME NEW j \in 1 .. Bits, data = <<>>, hold, n = 12 + 3 * (Bits - j + 1), LagHigh(j)
       PROVE  LagPlace(held, n - 1)'
  <2>1. Did("scl_low")
    BY <1>3, <1>15
  <2>2. Drive(mSda, FALSE) /\ data' = <<>> /\ hold'
    BY <1>15, <2>1 DEF Did
  <2>3. CASE j = Bits
    <3>1. n - 1 = 14 /\ 14 \in 12 .. 14
      BY <1>15, <2>3
    <3>2. ~mScl' /\ Gone'
      BY <1>15, <2>2, <2>3, LagEnds
    <3> QED
      BY <2>2, <3>1, <3>2, Zenon DEF LagPlace
  <2>4. CASE j # Bits
    <3>1. j + 1 \in 1 .. Bits /\ j \in 0 .. Bits - 1 /\ n - 1 = 14 + 3 * (Bits - (j + 1) + 1)
      BY <1>15, <2>4
    <3>2. Lag(j + 1)'
      BY <1>15, <2>2, <3>1, LateFalls DEF LagHigh
    <3> QED
      BY <2>2, <3>1, <3>2, Zenon DEF LagPlace
  <2> QED
    BY <2>3, <2>4
<1>16. CASE data = <<>> /\ n \in 13 .. 14 /\ hold /\ ~mScl /\ Gone
  <2>1. n - 1 \in 12 .. 14 /\ (Did("cli") \/ Did("sei"))
    BY <1>3, <1>16
  <2>2. Kept /\ hold' /\ data' = <<>>
    BY <1>16, <2>1, Masked
  <2>3. Gone' /\ ~mScl'
    BY <1>16, <2>2, KeptLate DEF Kept
  <2> QED
    BY <2>1, <2>2, <2>3, Zenon DEF LagPlace
<1>17. CASE data = <<>> /\ n = 12 /\ hold /\ ~mScl /\ Gone
  <2>1. n - 1 = 11 /\ Did("sda_hi")
    BY <1>3, <1>17
  <2>2. Drive(TRUE, mScl) /\ data' = <<>> /\ hold'
    BY <1>17, <2>1 DEF Did
  <2>3. Gone' /\ ~mScl' /\ mSda'
    BY <1>17, <2>2, LateSets
  <2> QED
    BY <2>1, <2>2, <2>3, Zenon DEF LagPlace
<1>18. CASE data = <<>> /\ n = 11 /\ hold /\ ~mScl /\ mSda /\ Gone
  <2>1. n - 1 = 10 /\ Did("scl_hi")
    BY <1>3, <1>18
  <2>2. Drive(mSda, TRUE) /\ data' = <<>> /\ hold'
    BY <1>18, <2>1 DEF Did
  <2>3. mSda' = mSda /\ mScl' /\ slave' = slave
    BY <1>1, <1>18, <2>2, LateRises DEF Gone
  <2>4. Gone'
    BY <1>18, <2>3, Zenon DEF Gone
  <2> QED
    BY <1>18, <2>1, <2>2, <2>3, <2>4, Zenon DEF LagPlace
<1>19. CASE data = <<>> /\ n = 10 /\ hold /\ mScl /\ mSda /\ Gone
  <2>1. n - 1 = 9 /\ Did("sample")
    BY <1>3, <1>19
  <2>2. UNCHANGED <<wires, hold>> /\ data' = Append(data, Sda)
    BY <2>1 DEF Did
  <2>3. Sda = TRUE
    BY <1>1, <1>19 DEF Sda, Gone, WiresAre, SlaveIs, SlaveStates
  <2>4. data' = <<TRUE>>
    BY <1>19, <2>2, <2>3
  <2>5. hold' /\ mScl' /\ mSda' /\ Gone'
    BY <1>19, <2>2, Zenon DEF wires, Gone
  <2> QED
    BY <2>1, <2>4, <2>5, Zenon DEF LagPlace
<1>20. CASE data = <<TRUE>> /\ hold /\ n = 9 /\ mScl /\ mSda /\ Gone
  <2>1. n - 1 \in 5 .. 8 /\ Did("scl_low")
    BY <1>3, <1>20
  <2>2. Drive(mSda, FALSE) /\ data' = <<TRUE>> /\ hold'
    BY <1>20, <2>1 DEF Did
  <2>3. ~mScl' /\ Gone'
    BY <1>20, <2>2, GoneFalls
  <2> QED
    BY <2>1, <2>2, <2>3, Zenon DEF LagPlace
<1>21. CASE data = <<TRUE>> /\ hold /\ n \in 7 .. 8 /\ ~mScl /\ Gone
  <2>1. n - 1 \in 5 .. 8 /\ (Did("cli") \/ Did("sei"))
    <3>1. n = 7 \/ n = 8
      BY <1>21
    <3>2. CASE n = 7
      BY <1>4, <3>2
    <3>3. CASE n = 8
      BY <1>3, <3>3
    <3> QED
      BY <3>1, <3>2, <3>3
  <2>2. Kept /\ hold' /\ data' = <<TRUE>>
    BY <1>21, <2>1, Masked
  <2>3. Gone' /\ ~mScl'
    BY <1>21, <2>2, KeptLate DEF Kept
  <2> QED
    BY <2>1, <2>2, <2>3, Zenon DEF LagPlace
<1>22. CASE data = <<TRUE>> /\ hold /\ n = 6 /\ ~mScl /\ Gone
  <2>1. n - 1 \in 5 .. 8 /\ Did("scl_low")
    BY <1>4, <1>22
  <2>2. Drive(mSda, FALSE) /\ data' = <<TRUE>> /\ hold'
    BY <1>22, <2>1 DEF Did
  <2>3. slave' = slave
    BY <1>1, <1>22, <2>2, DriveLow
  <2>4. Gone' /\ ~mScl'
    BY <1>22, <2>2, <2>3, Zenon DEF Gone, Drive
  <2> QED
    BY <2>1, <2>2, <2>4, Zenon DEF LagPlace
<1>23. CASE data = <<TRUE>> /\ hold /\ n = 5 /\ ~mScl /\ Gone
  <2>1. n - 1 = 4 /\ Did("sda_low")
    BY <1>4, <1>23
  <2>2. Drive(FALSE, mScl) /\ data' = <<TRUE>> /\ hold'
    BY <1>23, <2>1 DEF Did
  <2>3. Gone' /\ ~mScl' /\ ~mSda'
    BY <1>23, <2>2, LateSets
  <2> QED
    BY <2>1, <2>2, <2>3, Zenon DEF LagPlace
<1>24. CASE data = <<TRUE>> /\ hold /\ n = 4 /\ ~mScl /\ ~mSda /\ Gone
  <2>1. n - 1 = 3 /\ Did("scl_hi")
    BY <1>4, <1>24
  <2>2. Drive(mSda, TRUE) /\ data' = <<TRUE>> /\ hold'
    BY <1>24, <2>1 DEF Did
  <2>3. mSda' = mSda /\ mScl' /\ slave' = slave
    BY <1>1, <1>24, <2>2, LateRises DEF Gone
  <2>4. Gone'
    BY <1>24, <2>3, Zenon DEF Gone
  <2> QED
    BY <1>24, <2>1, <2>2, <2>3, <2>4, Zenon DEF LagPlace
<1>25. CASE data = <<TRUE>> /\ hold /\ n = 3 /\ mScl /\ ~mSda /\ Gone
  <2>1. n - 1 = 2 /\ Did("sda_hi")
    BY <1>4, <1>25
  <2>2. Drive(TRUE, mScl) /\ data' = <<TRUE>>
    BY <1>25, <2>1 DEF Did
  <2>3. Free'
    BY <1>25, <2>2, GoneStops
  <2> QED
    BY <2>1, <2>2, <2>3, Zenon DEF ClearPlace, StopPlace
<1>26. /\ n \in {B + 20, B + 21} => n = B + 20 \/ n = B + 21
       /\ n \in 12 .. 14 => n = 12 \/ n \in 13 .. 14
       /\ n \in 5 .. 8 => n = 5 \/ n = 6 \/ n \in 7 .. 8
  OBVIOUS
<1> QED
  BY <1>5, <1>6, <1>7, <1>8, <1>9, <1>10, <1>11, <1>12, <1>13, <1>14, <1>15, <1>16, <1>17, <1>18,
     <1>19, <1>20, <1>21, <1>22, <1>23, <1>24, <1>25, <1>26, ZenonT(60) DEF LagPlace


-----------------------------------------------------------------------------
(* The steps of the driver while the slave drifts *)

LEMMA AfterBit ==
  ASSUME SlaveIs, slave.role # "off", slave.n < Bits - 1, NEW u \in After(slave)
  PROVE  u = [slave EXCEPT !.n = @ + 1,
                !.sda = IF slave.role = "send" THEN slave.bits[slave.n + 2] ELSE slave.sda]
<1> DEFINE level == IF slave.role = "send" THEN slave.bits[slave.n + 2] ELSE slave.sda
           v == [slave EXCEPT !.n = @ + 1, !.sda = level]
<1>1. After(slave) = CASE slave.n < Bits - 1 -> {v}
                       [] slave.n = Bits - 1 -> AckSlot(slave)
                       [] OTHER -> NextByte(slave)
  BY Zenon DEF After
<1>2. slave.n # Bits - 1
  BY DEF SlaveIs, SlaveStates
<1>3. u = v
  <2> HIDE DEF v
  <2> QED
    BY <1>1, <1>2, Zenon
<1> QED
  BY <1>3

LEMMA DriftFalls ==
  ASSUME SlaveIs, Drifting, slave.scl, StretchAt \subseteq {"slaveAck"}, slave' \in Fell(slave)
  PROVE  Drifting'
<1>1. slave \in SlaveStates
  BY DEF SlaveIs
<1>2. CASE Gone
  <2>1. slave' = slave
    BY <1>1, <1>2, FellOff DEF Gone, Gentle, SlaveIs
  <2> QED
    BY <1>2, <2>1, Zenon DEF Drifting, Gone
<1>3. CASE slave.role = "send"
  <2>1. PICK u \in After(slave) :
          slave' = u \/ (slave' = [u EXCEPT !.scl = FALSE] /\ Slot(u) \in StretchAt)
    BY FellIs, Zenon
  <2>0. u \in After(slave)
    BY <2>1, Zenon
  <2>2. u.scl = slave.scl /\ SlaveLike(u)
    BY <2>1, AfterScl, AfterTypes
  <2>3. u.role = "send" \/ u = Released(slave)
    <3>1. CASE slave.n < Bits - 1
      <4> DEFINE level == IF slave.role = "send" THEN slave.bits[slave.n + 2] ELSE slave.sda
                 v == [slave EXCEPT !.n = @ + 1, !.sda = level]
      <4>1. slave.role # "off"
        BY <1>3
      <4>2. u = v
        BY <2>0, <3>1, <4>1, AfterBit
      <4> HIDE DEF level
      <4> QED
        BY <1>1, <1>3, <4>2 DEF SlaveStates
    <3>2. CASE slave.n = Bits - 1
      <4> DEFINE t == [slave EXCEPT !.n = Bits, !.last = slave.bits]
      <4>1. u = [t EXCEPT !.sda = TRUE]
        BY <1>3, <2>1, <3>2 DEF After, AckSlot
      <4> QED
        BY <1>1, <1>3, <4>1 DEF SlaveStates
    <3>3. CASE ~(slave.n < Bits - 1) /\ slave.n # Bits - 1
      <4>1. u \in NextByte(slave)
        BY <1>3, <2>1, <3>3, Zenon DEF After
      <4>2. \/ u = Released(slave)
            \/ \E b \in Bytes :
                 u = [slave EXCEPT !.role = "send", !.n = 0, !.bits = b, !.sda = b[1]]
        BY <1>3, <4>1 DEF NextByte
      <4> QED
        BY <1>1, <4>2 DEF SlaveStates
    <3> QED
      BY <3>1, <3>2, <3>3
  <2>4. Slot(u) # "slaveAck"
    <3>1. CASE u.role = "send"
      BY <3>1 DEF Slot
    <3>2. CASE u = Released(slave)
      <4>1. u.role = "off"
        BY <1>1, <3>2 DEF Released, SlaveStates
      <4> QED
        BY <4>1 DEF Slot
    <3> QED
      BY <2>3, <3>1, <3>2
  <2>5. slave' = u
    BY <2>1, <2>4
  <2>6. CASE u.role = "send"
    BY <2>5, <2>6 DEF Drifting
  <2>7. CASE u = Released(slave)
    <3>1. slave' = Released(slave)
      BY <2>5, <2>7
    <3> QED
      BY <3>1, ReleasedIs DEF Drifting, Gone
  <2> QED
    BY <2>3, <2>6, <2>7
<1> QED
  BY <1>2, <1>3 DEF Drifting

\* A change of the driver's wires: an edge of SCL, a condition, or nothing.
LEMMA DriftDrive ==
  ASSUME Lost, NEW x \in BOOLEAN, NEW y \in BOOLEAN, Drive(x, y)
  PROVE  /\ mSda' = x /\ mScl' = y
         /\ \/ Drifts
            \/ mScl /\ y /\ mSda /\ ~x /\ slave.sda /\ Begun' /\ ~astray'
            \/ mScl /\ y /\ ~mSda /\ x /\ slave.sda /\ Free' /\ ~astray'
<1>1. /\ SlaveIs /\ slave \in SlaveStates /\ Edge(x /\ slave.sda, y /\ slave.scl)
      /\ StretchAt \subseteq {"slaveAck"} /\ Drifting
      /\ mSda \in BOOLEAN /\ mScl \in BOOLEAN
  BY DEF Lost, WiresAre, SlaveIs, Drive
<1>2. mSda' = x /\ mScl' = y
  BY Zenon DEF Drive
<1>3. slave.scl /\ slave.sda \in BOOLEAN
  <2>1. slave.role = "send" => slave.scl
    BY Zenon DEF Lost, Steady
  <2>2. slave.sda \in BOOLEAN
    BY <1>1 DEF SlaveStates
  <2> QED
    BY <1>1, <2>1, <2>2 DEF Drifting, Gone
<1>4. CASE /\ Scl /\ (y /\ slave.scl) /\ Sda /\ ~(x /\ slave.sda)
           /\ slave' = Started(slave) /\ busy' = TRUE /\ clocks' = -1 /\ astray' = FALSE
  <2>1. mScl /\ y /\ mSda /\ ~x /\ slave.sda
    BY <1>4 DEF Scl, Sda
  <2>2. /\ slave'.role = "addr" /\ slave'.n = -1 /\ slave'.sda /\ slave'.bits = <<>>
        /\ slave'.scl = slave.scl
    BY <1>1, <1>4, StartedIs
  <2>3. Begun'
    BY <1>2, <1>3, <1>4, <2>1, <2>2, Zenon DEF Begun
  <2> QED
    BY <1>2, <1>4, <2>1, <2>3
<1>5. CASE /\ Scl /\ (y /\ slave.scl) /\ ~Sda /\ (x /\ slave.sda)
           /\ slave' = Released(slave) /\ busy' = FALSE /\ clocks' = 0 /\ astray' = FALSE
  <2>1. mScl /\ y /\ ~mSda /\ x /\ slave.sda
    BY <1>5 DEF Scl, Sda
  <2>2. slave'.role = "off" /\ slave'.n = 0 /\ slave'.sda /\ slave'.scl = slave.scl
    BY <1>1, <1>5, ReleasedIs
  <2>3. slave'.role \in {"off", "recv"}
    BY <2>2
  <2>4. Free'
    BY <1>2, <1>3, <1>5, <2>1, <2>2, <2>3, Zenon DEF Free, Idling
  <2> QED
    BY <1>2, <1>5, <2>1, <2>4
<1>6. CASE /\ slave' = Sampled([slave EXCEPT !.scl = TRUE], x /\ slave.sda)
           /\ UNCHANGED <<busy, clocks, astray>>
  <2>1. [slave EXCEPT !.scl = TRUE] = slave
    BY <1>1, <1>3 DEF SlaveStates
  <2>2. slave' = Sampled(slave, x /\ slave.sda)
    BY <1>6, <2>1
  <2>3. CASE slave.role = "send" /\ slave.n = Bits
    <3> DEFINE level == x /\ slave.sda
    <3>1. level \in BOOLEAN /\ slave' = Sampled(slave, level)
      BY <1>3, <2>2
    <3> HIDE DEF level
    <3>2. slave'.role = "send"
      BY <1>1, <2>3, <3>1, SampledAnswer
    <3> QED
      BY <1>2, <1>6, <3>2 DEF Drifts, Drifting
  <2>4. CASE slave.role = "off" \/ (slave.role = "send" /\ slave.n # Bits)
    <3>1. slave' = slave
      BY <1>1, <2>2, <2>4, Unsampled
    <3>2. Drifting'
      BY <1>1, <3>1, Zenon DEF Drifting, Gone
    <3> QED
      BY <1>2, <1>6, <3>2 DEF Drifts
  <2> QED
    BY <1>1, <2>3, <2>4 DEF Drifting, Gone
<1>7. CASE slave' \in Fell(slave) /\ UNCHANGED <<busy, astray>>
  BY <1>1, <1>2, <1>3, <1>7, DriftFalls DEF Drifts
<1>8. CASE UNCHANGED <<slave, busy, clocks, astray>>
  <2>1. Drifting'
    BY <1>1, <1>8, Zenon DEF Drifting, Gone
  <2> QED
    BY <1>2, <1>8, <2>1 DEF Drifts
<1> QED
  BY <1>1, <1>4, <1>5, <1>6, <1>7, <1>8, Zenon DEF Edge

\* A statement, in that time.
LEMMA DriftDid ==
  ASSUME Lost, NEW op \in Ops, Did(op)
  PROVE  /\ op # "sample" => data' = data
         /\ op \notin {"hold", "unhold"} => hold' = hold
         /\ op = "hold" => hold' = TRUE
         /\ op = "unhold" => hold' = FALSE
         /\ op = "scl_hi" => Drifts /\ mScl' = TRUE /\ mSda' = mSda
         /\ op = "scl_low" => Drifts /\ mScl' = FALSE /\ mSda' = mSda
         /\ op = "sda_hi" => /\ mSda' = TRUE /\ mScl' = mScl
                             /\ mSda \/ ~mScl => Drifts
                             /\ Drifts \/ (Free' /\ ~astray')
         /\ op = "sda_low" => /\ mSda' = FALSE /\ mScl' = mScl
                              /\ ~mScl => Drifts
                              /\ Drifts \/ (Begun' /\ ~astray')
         /\ op \in {"cli", "sei", "hold", "unhold", "sample"} =>
              Drifts /\ mSda' = mSda /\ mScl' = mScl
<1>1. mSda \in BOOLEAN /\ mScl \in BOOLEAN
  BY DEF Lost, WiresAre
<1>2. CASE op = "scl_hi"
  <2>1. Drive(mSda, TRUE) /\ UNCHANGED <<data, hold>>
    BY <1>2 DEF Did
  <2>2. mSda' = mSda /\ mScl' = TRUE /\ Drifts
    BY <1>1, <2>1, DriftDrive
  <2> QED
    BY <1>2, <2>1, <2>2
<1>3. CASE op = "scl_low"
  <2>1. Drive(mSda, FALSE) /\ UNCHANGED <<data, hold>>
    BY <1>3 DEF Did
  <2>2. mSda' = mSda /\ mScl' = FALSE /\ Drifts
    BY <1>1, <2>1, DriftDrive
  <2> QED
    BY <1>3, <2>1, <2>2
<1>4. CASE op = "sda_hi"
  <2>1. Drive(TRUE, mScl) /\ UNCHANGED <<data, hold>>
    BY <1>4 DEF Did
  <2>2. /\ mSda' = TRUE /\ mScl' = mScl /\ (mSda \/ ~mScl => Drifts)
        /\ Drifts \/ (Free' /\ ~astray')
    BY <1>1, <2>1, DriftDrive
  <2> QED
    BY <1>4, <2>1, <2>2
<1>5. CASE op = "sda_low"
  <2>1. Drive(FALSE, mScl) /\ UNCHANGED <<data, hold>>
    BY <1>5 DEF Did
  <2>2. /\ mSda' = FALSE /\ mScl' = mScl /\ (~mScl => Drifts)
        /\ Drifts \/ (Begun' /\ ~astray')
    BY <1>1, <2>1, DriftDrive
  <2> QED
    BY <1>5, <2>1, <2>2
<1>6. CASE op \in {"cli", "sei", "hold", "unhold", "sample"}
  <2>1. /\ UNCHANGED wires /\ astray' = astray /\ (op # "sample" => data' = data)
        /\ op \notin {"hold", "unhold"} => hold' = hold
        /\ op = "hold" => hold' = TRUE
        /\ op = "unhold" => hold' = FALSE
    BY <1>6 DEF Did
  <2>2. mSda' = mSda /\ mScl' = mScl /\ slave' = slave
    BY <2>1, Zenon DEF wires
  <2>3. Drifts
    BY <2>1, <2>2 DEF Drifts, Drifting, Gone, Lost
  <2> QED
    BY <1>6, <2>1, <2>2, <2>3
<1> QED
  BY <1>2, <1>3, <1>4, <1>5, <1>6 DEF Ops

LEMMA BlindSendStep ==
  ASSUME Lost, NEW b \in AllBits, NEW P, NEW T \in Nat, Sends(P, b, T),
         NEW m \in 1 .. 3 * Bits + 8, BlindSend(m), Did(Statement(P, T + m))
  PROVE  Drifts /\ BlindSend(m - 1)' /\ hold' = hold
<1>0. {"cli", "sei", "scl_hi", "scl_low", "sda_hi", "sda_low", "sample"} \subseteq Ops
  BY DEF Ops
<1>1. CASE m = 3 * Bits + 8 /\ ~mScl
  <2>1. T + m = T + 3 * Bits + 8 /\ m - 1 = 7 + 3 * (Bits - 1 + 1) /\ 1 \in 1 .. Bits
    BY <1>1
  <2>2. Did("cli")
    BY <2>1, Zenon DEF Sends
  <2>3. Drifts /\ mScl' = mScl /\ hold' = hold
    BY <1>0, <2>2, DriftDid
  <2> QED
    BY <1>1, <2>1, <2>3, Zenon DEF BlindSend
<1>2. ASSUME NEW j \in 1 .. Bits, m = 7 + 3 * (Bits - j + 1), ~mScl
      PROVE  Drifts /\ BlindSend(m - 1)' /\ hold' = hold
  <2>1. T + m = T + 7 + 3 * (Bits - j + 1) /\ m - 1 = 6 + 3 * (Bits - j + 1)
    BY <1>2
  <2>2. Did(IF b[j] THEN "sda_hi" ELSE "sda_low")
    BY <2>1, Zenon DEF Sends
  <2>3. Did("sda_hi") \/ Did("sda_low")
    BY <2>2
  <2>4. Drifts /\ mScl' = mScl /\ hold' = hold
    BY <1>0, <1>2, <2>3, DriftDid
  <2> QED
    BY <1>2, <2>1, <2>4, Zenon DEF BlindSend
<1>3. ASSUME NEW j \in 1 .. Bits, m = 6 + 3 * (Bits - j + 1)
      PROVE  Drifts /\ BlindSend(m - 1)' /\ hold' = hold
  <2>1. T + m = T + 6 + 3 * (Bits - j + 1) /\ m - 1 = 5 + 3 * (Bits - j + 1)
    BY <1>3
  <2>2. Did("scl_hi")
    BY <2>1, Zenon DEF Sends
  <2>3. Drifts /\ mScl' = TRUE /\ hold' = hold
    BY <1>0, <2>2, DriftDid
  <2> QED
    BY <2>1, <2>3, Zenon DEF BlindSend
<1>4. ASSUME NEW j \in 1 .. Bits, m = 5 + 3 * (Bits - j + 1)
      PROVE  Drifts /\ BlindSend(m - 1)' /\ hold' = hold
  <2>1. T + m = T + 5 + 3 * (Bits - j + 1)
    BY <1>4
  <2>2. Did("scl_low")
    BY <2>1, Zenon DEF Sends
  <2>3. Drifts /\ ~mScl' /\ hold' = hold
    BY <1>0, <2>2, DriftDid
  <2>4. CASE j < Bits
    <3>1. j + 1 \in 1 .. Bits /\ m - 1 = 7 + 3 * (Bits - (j + 1) + 1)
      BY <1>4, <2>4
    <3> QED
      BY <2>3, <3>1, Zenon DEF BlindSend
  <2>5. CASE ~(j < Bits)
    <3>1. m - 1 \in 5 .. 7
      BY <1>4, <2>5
    <3> QED
      BY <2>3, <3>1, Zenon DEF BlindSend
  <2> QED
    BY <2>4, <2>5
<1>5. CASE m \in 6 .. 7 /\ ~mScl
  <2>1. (m = 7 => T + m = T + 7) /\ (m = 6 => T + m = T + 6) /\ (m = 7 \/ m = 6) /\ m - 1 \in 5 .. 7
    BY <1>5
  <2>2. Did("sei") \/ Did("cli")
    BY <2>1, Zenon DEF Sends
  <2>3. Drifts /\ mScl' = mScl /\ hold' = hold
    BY <1>0, <2>2, DriftDid
  <2> QED
    BY <1>5, <2>1, <2>3, Zenon DEF BlindSend
<1>6. CASE m = 5 /\ ~mScl
  <2>1. T + m = T + 5 /\ m - 1 = 4
    BY <1>6
  <2>2. Did("sda_hi")
    BY <2>1, Zenon DEF Sends
  <2>3. Drifts /\ mScl' = mScl /\ mSda' = TRUE /\ hold' = hold
    BY <1>0, <1>6, <2>2, DriftDid
  <2> QED
    BY <1>6, <2>1, <2>3, Zenon DEF BlindSend
<1>7. CASE m = 4 /\ mSda
  <2>1. T + m = T + 4 /\ m - 1 \in 2 .. 3
    BY <1>7
  <2>2. Did("scl_hi")
    BY <2>1, Zenon DEF Sends
  <2>3. Drifts /\ mScl' = TRUE /\ mSda' = mSda /\ hold' = hold
    BY <1>0, <2>2, DriftDid
  <2> QED
    BY <1>7, <2>1, <2>3, Zenon DEF BlindSend
<1>8. CASE m = 3 /\ mScl /\ mSda
  <2>1. T + m = T + 3 /\ m - 1 \in 2 .. 3
    BY <1>8
  <2>2. Did("sample")
    BY <2>1, Zenon DEF Sends
  <2>3. Drifts /\ mScl' = mScl /\ mSda' = mSda /\ hold' = hold
    BY <1>0, <2>2, DriftDid
  <2> QED
    BY <1>8, <2>1, <2>3, Zenon DEF BlindSend
<1>9. CASE m = 2 /\ mSda
  <2>1. T + m = T + 2 /\ m - 1 \in 0 .. 1
    BY <1>9
  <2>2. Did("scl_low")
    BY <2>1, Zenon DEF Sends
  <2>3. Drifts /\ ~mScl' /\ mSda' = mSda /\ hold' = hold
    BY <1>0, <2>2, DriftDid
  <2> QED
    BY <1>9, <2>1, <2>3, Zenon DEF BlindSend
<1>10. CASE m = 1 /\ ~mScl /\ mSda
  <2>1. T + m = T + 1 /\ m - 1 \in 0 .. 1
    BY <1>10
  <2>2. Did("sei")
    BY <2>1, Zenon DEF Sends
  <2>3. Drifts /\ mScl' = mScl /\ mSda' = mSda /\ hold' = hold
    BY <1>0, <2>2, DriftDid
  <2> QED
    BY <1>10, <2>1, <2>3, Zenon DEF BlindSend
<1>11. /\ m \in 5 .. 7 => m \in 6 .. 7 \/ m = 5
       /\ (m \in 2 .. 3 => m = 3 \/ m = 2) /\ (m \in 0 .. 1 => m = 1)
  OBVIOUS
<1> QED
  BY <1>1, <1>2, <1>3, <1>4, <1>5, <1>6, <1>7, <1>8, <1>9, <1>10, <1>11, Zenon DEF BlindSend

LEMMA BlindStartStep ==
  ASSUME Lost, NEW held \in BOOLEAN, NEW b \in AllBits, NEW P, NEW T \in Nat,
         Starts(P, held, b, T), NEW m \in 1 .. StartLength(held), BlindStart(held, m),
         Did(Statement(P, T + m))
  PROVE  \/ Drifts /\ BlindStart(held, m - 1)'
         \/ m - 1 = 3 * Bits + 10 /\ ~astray' /\ StartPlace(held, b, m - 1)'
<1>0. {"cli", "scl_hi", "scl_low", "sda_hi", "sda_low", "hold"} \subseteq Ops
  BY DEF Ops
<1>1. CASE held /\ m = 3 * Bits + 14 /\ ~mScl /\ data = <<>>
  <2>1. T + m = T + 3 * Bits + 14 /\ m - 1 \in {3 * Bits + 13, 3 * Bits + 14}
    BY <1>1
  <2>2. Did("cli")
    BY <1>1, <2>1, Zenon DEF Starts
  <2>3. Drifts /\ mScl' = mScl /\ data' = data
    BY <1>0, <2>2, DriftDid
  <2> QED
    BY <1>1, <2>1, <2>3, Zenon DEF BlindStart
<1>2. CASE held /\ m = 3 * Bits + 13 /\ ~mScl /\ data = <<>>
  <2>1. T + m = T + 3 * Bits + 13 /\ m - 1 = 3 * Bits + 12
    BY <1>2
  <2>2. Did("sda_hi")
    BY <1>2, <2>1, Zenon DEF Starts
  <2>3. Drifts /\ mScl' = mScl /\ mSda' = TRUE /\ data' = data
    BY <1>0, <1>2, <2>2, DriftDid
  <2> QED
    BY <1>2, <2>1, <2>3, Zenon DEF BlindStart
<1>3. CASE held /\ m = 3 * Bits + 12 /\ mSda /\ data = <<>>
  <2>1. T + m = T + 3 * Bits + 12 /\ m - 1 = 3 * Bits + 11
    BY <1>3
  <2>2. Did("scl_hi")
    BY <1>3, <2>1, Zenon DEF Starts
  <2>3. Drifts /\ mScl' = TRUE /\ mSda' = mSda /\ data' = data
    BY <1>0, <2>2, DriftDid
  <2> QED
    BY <1>3, <2>1, <2>3, Zenon DEF BlindStart
<1>4. CASE ~held /\ m = 3 * Bits + 12 /\ mScl /\ mSda /\ data = <<>>
  <2>1. T + m = T + 3 * Bits + 12 /\ m - 1 = 3 * Bits + 11
    BY <1>4
  <2>2. Did("cli")
    BY <1>4, <2>1, Zenon DEF Starts
  <2>3. Drifts /\ mScl' = mScl /\ mSda' = mSda /\ data' = data
    BY <1>0, <2>2, DriftDid
  <2> QED
    BY <1>4, <2>1, <2>3, Zenon DEF BlindStart
<1>5. CASE m = 3 * Bits + 11 /\ mScl /\ data = <<>>
  <2>1. T + m = T + 3 * Bits + 11 /\ m - 1 = 3 * Bits + 10
    BY <1>5
  <2>2. Did("sda_low")
    BY <2>1, Zenon DEF Starts
  <2>3. (Drifts \/ (Begun' /\ ~astray')) /\ mScl' = mScl /\ data' = data
    BY <1>0, <2>2, DriftDid
  <2>4. CASE Drifts
    BY <1>5, <2>1, <2>3, <2>4, Zenon DEF BlindStart
  <2>5. CASE Begun' /\ ~astray'
    BY <1>5, <2>1, <2>3, <2>5, Zenon DEF StartPlace
  <2> QED
    BY <2>3, <2>4, <2>5
<1>6. CASE m = 3 * Bits + 10 /\ data = <<>>
  <2>1. T + m = T + 3 * Bits + 10 /\ m - 1 = 3 * Bits + 9
    BY <1>6
  <2>2. Did("scl_low")
    BY <2>1, Zenon DEF Starts
  <2>3. Drifts /\ mScl' = FALSE /\ data' = data
    BY <1>0, <2>2, DriftDid
  <2> QED
    BY <1>6, <2>1, <2>3, Zenon DEF BlindStart
<1>7. CASE m = 3 * Bits + 9 /\ ~mScl /\ data = <<>>
  <2>1. T + m = T + 3 * Bits + 9 /\ m - 1 = 3 * Bits + 8
    BY <1>7
  <2>2. Did("hold")
    BY <2>1, Zenon DEF Starts
  <2>3. Drifts /\ mScl' = mScl /\ hold' = TRUE
    BY <1>0, <2>2, DriftDid
  <2> QED
    BY <1>7, <2>1, <2>3, Zenon DEF BlindStart, BlindSend
<1>8. CASE hold /\ BlindSend(m)
  <2>1. m \in 1 .. 3 * Bits + 8
    <3>1. m <= 3 * Bits + 8
      BY <1>8 DEF BlindSend
    <3>2. m >= 1 /\ m \in Int
      BY DEF StartLength
    <3> QED
      BY <3>1, <3>2
  <2>2. Drifts /\ BlindSend(m - 1)' /\ hold' = hold
    BY <1>8, <2>1, BlindSendStep DEF Starts
  <2> QED
    BY <1>8, <2>2, Zenon DEF BlindStart
<1>9. m \in {3 * Bits + 13, 3 * Bits + 14} => m = 3 * Bits + 14 \/ m = 3 * Bits + 13
  OBVIOUS
<1> QED
  BY <1>1, <1>2, <1>3, <1>4, <1>5, <1>6, <1>7, <1>8, <1>9, Zenon DEF BlindStart

LEMMA BlindStopStep ==
  ASSUME Lost, NEW P, Stops(P), NEW n \in 1 .. 7, BlindStop(n), Did(Statement(P, n))
  PROVE  /\ data' = data
         /\ \/ Drifts /\ BlindStop(n - 1)'
            \/ n - 1 = 2 /\ ~astray' /\ StopPlace(n - 1)'
<1>0. {"cli", "sei", "scl_hi", "scl_low", "sda_hi", "sda_low", "unhold"} \subseteq Ops
  BY DEF Ops
<1>1. /\ Statement(P, 7) = "cli" /\ Statement(P, 6) = "scl_low" /\ Statement(P, 5) = "sda_low"
      /\ Statement(P, 4) = "scl_hi" /\ Statement(P, 3) = "sda_hi" /\ Statement(P, 2) = "unhold"
      /\ Statement(P, 1) = "sei"
  BY MasterStopIs DEF Stops
<1>2. CASE n = 7 /\ ~mScl
  <2>1. n - 1 \in 5 .. 7 /\ Did("cli")
    BY <1>1, <1>2
  <2>2. Drifts /\ mScl' = mScl /\ data' = data
    BY <1>0, <2>1, DriftDid
  <2> QED
    BY <1>2, <2>1, <2>2, Zenon DEF BlindStop
<1>3. CASE n = 6
  <2>1. n - 1 \in 5 .. 7 /\ Did("scl_low")
    BY <1>1, <1>3
  <2>2. Drifts /\ mScl' = FALSE /\ data' = data
    BY <1>0, <2>1, DriftDid
  <2> QED
    BY <2>1, <2>2, Zenon DEF BlindStop
<1>4. CASE n = 5 /\ ~mScl
  <2>1. n - 1 = 4 /\ Did("sda_low")
    BY <1>1, <1>4
  <2>2. Drifts /\ mScl' = mScl /\ mSda' = FALSE /\ data' = data
    BY <1>0, <1>4, <2>1, DriftDid
  <2> QED
    BY <1>4, <2>1, <2>2, Zenon DEF BlindStop
<1>5. CASE n = 4 /\ ~mSda
  <2>1. n - 1 = 3 /\ Did("scl_hi")
    BY <1>1, <1>5
  <2>2. Drifts /\ mScl' = TRUE /\ mSda' = mSda /\ data' = data
    BY <1>0, <2>1, DriftDid
  <2> QED
    BY <1>5, <2>1, <2>2, Zenon DEF BlindStop
<1>6. CASE n = 3 /\ mScl
  <2>1. n - 1 = 2 /\ Did("sda_hi")
    BY <1>1, <1>6
  <2>2. /\ mScl' = mScl /\ mSda' = TRUE /\ data' = data
        /\ Drifts \/ (Free' /\ ~astray')
    BY <1>0, <2>1, DriftDid
  <2>3. CASE Drifts
    BY <1>6, <2>1, <2>2, <2>3, Zenon DEF BlindStop
  <2>4. CASE Free' /\ ~astray'
    BY <2>1, <2>2, <2>4, Zenon DEF StopPlace
  <2> QED
    BY <2>2, <2>3, <2>4
<1>7. CASE n = 2 /\ mScl /\ mSda
  <2>1. n - 1 \in 0 .. 1 /\ Did("unhold")
    BY <1>1, <1>7
  <2>2. Drifts /\ mScl' = mScl /\ mSda' = mSda /\ hold' = FALSE /\ data' = data
    BY <1>0, <2>1, DriftDid
  <2> QED
    BY <1>7, <2>1, <2>2, Zenon DEF BlindStop
<1>8. CASE n = 1 /\ ~hold /\ mScl /\ mSda
  <2>1. n - 1 \in 0 .. 1 /\ Did("sei")
    BY <1>1, <1>8
  <2>2. Drifts /\ mScl' = mScl /\ mSda' = mSda /\ hold' = hold /\ data' = data
    BY <1>0, <2>1, DriftDid
  <2> QED
    BY <1>8, <2>1, <2>2, Zenon DEF BlindStop
<1>9. (n \in 5 .. 7 => n = 7 \/ n = 6 \/ n = 5) /\ (n \in 0 .. 1 => n = 1)
  OBVIOUS
<1> QED
  BY <1>2, <1>3, <1>4, <1>5, <1>6, <1>7, <1>8, <1>9, Zenon DEF BlindStop

LEMMA BlindTxStep ==
  ASSUME Lost, NEW b \in AllBits, NEW n \in 1 .. 3 * Bits + 10, BlindTx(n),
         Did(Statement(MasterTx(b), n))
  PROVE  Drifts /\ BlindTx(n - 1)'
<1> DEFINE P == MasterTx(b)
<1>0. {"cli", "sei"} \subseteq Ops
  BY DEF Ops
<1>1. Sends(P, b, 1) /\ Statement(P, 3 * Bits + 10) = "cli" /\ Statement(P, 1) = "sei"
  BY TxIs
<1>2. CASE n = 3 * Bits + 10 /\ ~mScl /\ hold
  <2>1. Did("cli") /\ n - 1 >= 1 /\ (n - 1) - 1 = 3 * Bits + 8
    BY <1>1, <1>2
  <2>2. Drifts /\ mScl' = mScl /\ hold' = hold
    BY <1>0, <2>1, DriftDid
  <2> QED
    BY <1>2, <2>1, <2>2, Zenon DEF BlindTx, BlindSend
<1>3. CASE hold /\ BlindSend(n - 1) /\ n - 1 >= 1
  <2> DEFINE m == n - 1
  <2>1. n - 1 <= 3 * Bits + 8
    BY <1>3 DEF BlindSend
  <2>2. m \in 1 .. 3 * Bits + 8 /\ 1 + m = n
    BY <1>3, <2>1
  <2>3. Did(Statement(P, 1 + m)) /\ BlindSend(m)
    BY <1>3, <2>2
  <2> HIDE DEF m
  <2>4. Drifts /\ BlindSend(m - 1)' /\ hold' = hold
    <3> HIDE DEF P
    <3> QED
      BY <1>1, <2>2, <2>3, BlindSendStep
  <2> QED
    BY <1>3, <2>4 DEF BlindTx, m
<1>4. CASE hold /\ BlindSend(n - 1) /\ n = 1
  <2>1. n - 1 = 0 /\ Did("sei")
    BY <1>1, <1>4
  <2>2. ~mScl /\ mSda
    BY <1>4, <2>1 DEF BlindSend
  <2>3. Drifts /\ mScl' = mScl /\ mSda' = mSda /\ hold' = hold
    BY <1>0, <2>1, DriftDid
  <2> QED
    BY <1>4, <2>1, <2>2, <2>3, Zenon DEF BlindTx
<1>5. (n - 1 >= 1 \/ n = 1) /\ n # 0
  OBVIOUS
<1> QED
  BY <1>2, <1>3, <1>4, <1>5, Zenon DEF BlindTx

LEMMA BlindRxStep ==
  ASSUME Lost, NEW ack \in BOOLEAN, NEW P, Reads(P, ack), NEW n \in 1 .. 6 * Bits + 6,
         BlindRx(n), Did(Statement(P, n))
  PROVE  Drifts /\ BlindRx(n - 1)' /\ hold' = hold
<1>0. {"cli", "sei", "scl_hi", "scl_low", "sda_hi", "sda_low", "sample"} \subseteq Ops
  BY DEF Ops
<1>1. CASE n = 6 * Bits + 6 /\ ~mScl
  <2>1. n - 1 = 5 + 6 * (Bits - 1 + 1) /\ 1 \in 1 .. Bits
    BY <1>1
  <2>2. Did("cli")
    BY <1>1, Zenon DEF Reads
  <2>3. Drifts /\ mScl' = mScl /\ hold' = hold
    BY <1>0, <2>2, DriftDid
  <2> QED
    BY <1>1, <2>1, <2>3, Zenon DEF BlindRx
<1>2. ASSUME NEW j \in 1 .. Bits, n = 5 + 6 * (Bits - j + 1), ~mScl
      PROVE  Drifts /\ BlindRx(n - 1)' /\ hold' = hold
  <2>1. n - 1 = 4 + 6 * (Bits - j + 1)
    BY <1>2
  <2>2. Did("cli")
    BY <1>2, Zenon DEF Reads
  <2>3. Drifts /\ mScl' = mScl /\ hold' = hold
    BY <1>0, <2>2, DriftDid
  <2> QED
    BY <1>2, <2>1, <2>3, Zenon DEF BlindRx
<1>3. ASSUME NEW j \in 1 .. Bits, n = 4 + 6 * (Bits - j + 1), ~mScl
      PROVE  Drifts /\ BlindRx(n - 1)' /\ hold' = hold
  <2>1. n - 1 = 3 + 6 * (Bits - j + 1)
    BY <1>3
  <2>2. Did("sda_hi")
    BY <1>3, Zenon DEF Reads
  <2>3. Drifts /\ mScl' = mScl /\ hold' = hold
    BY <1>0, <1>3, <2>2, DriftDid
  <2> QED
    BY <1>3, <2>1, <2>3, Zenon DEF BlindRx
<1>4. ASSUME NEW j \in 1 .. Bits, n = 3 + 6 * (Bits - j + 1)
      PROVE  Drifts /\ BlindRx(n - 1)' /\ hold' = hold
  <2>1. n - 1 = 2 + 6 * (Bits - j + 1)
    BY <1>4
  <2>2. Did("scl_hi")
    BY <1>4, Zenon DEF Reads
  <2>3. Drifts /\ mScl' = TRUE /\ hold' = hold
    BY <1>0, <2>2, DriftDid
  <2> QED
    BY <1>4, <2>1, <2>3, Zenon DEF BlindRx
<1>5. ASSUME NEW j \in 1 .. Bits, n = 2 + 6 * (Bits - j + 1), mScl
      PROVE  Drifts /\ BlindRx(n - 1)' /\ hold' = hold
  <2>1. n - 1 = 1 + 6 * (Bits - j + 1)
    BY <1>5
  <2>2. Did("sample")
    BY <1>5, Zenon DEF Reads
  <2>3. Drifts /\ mScl' = mScl /\ hold' = hold
    BY <1>0, <2>2, DriftDid
  <2> QED
    BY <1>5, <2>1, <2>3, Zenon DEF BlindRx
<1>6. ASSUME NEW j \in 1 .. Bits, n = 1 + 6 * (Bits - j + 1)
      PROVE  Drifts /\ BlindRx(n - 1)' /\ hold' = hold
  <2>1. n - 1 = 6 * (Bits - j + 1)
    BY <1>6
  <2>2. Did("scl_low")
    BY <1>6, Zenon DEF Reads
  <2>3. Drifts /\ mScl' = FALSE /\ hold' = hold
    BY <1>0, <2>2, DriftDid
  <2> QED
    BY <1>6, <2>1, <2>3, Zenon DEF BlindRx
<1>7. ASSUME NEW j \in 1 .. Bits, n = 6 * (Bits - j + 1), ~mScl
      PROVE  Drifts /\ BlindRx(n - 1)' /\ hold' = hold
  <2>1. Did("sei")
    BY <1>7, Zenon DEF Reads
  <2>2. Drifts /\ mScl' = mScl /\ hold' = hold
    BY <1>0, <2>1, DriftDid
  <2>3. CASE j < Bits
    <3>1. j + 1 \in 1 .. Bits /\ n - 1 = 5 + 6 * (Bits - (j + 1) + 1)
      BY <1>7, <2>3
    <3> QED
      BY <1>7, <2>2, <3>1, Zenon DEF BlindRx
  <2>4. CASE ~(j < Bits)
    <3>1. n - 1 \in 4 .. 5
      BY <1>7, <2>4
    <3> QED
      BY <1>7, <2>2, <3>1, Zenon DEF BlindRx
  <2> QED
    BY <2>3, <2>4
<1>8. CASE n = 5 /\ ~mScl
  <2>1. n - 1 \in 4 .. 5
    BY <1>8
  <2>2. Did(IF ack THEN "sda_low" ELSE "sda_hi")
    BY <1>8, Zenon DEF Reads
  <2>3. Did("sda_hi") \/ Did("sda_low")
    BY <2>2
  <2>4. Drifts /\ mScl' = mScl /\ hold' = hold
    BY <1>0, <1>8, <2>3, DriftDid
  <2> QED
    BY <1>8, <2>1, <2>4, Zenon DEF BlindRx
<1>9. CASE n = 4
  <2>1. n - 1 = 3 /\ Did("scl_hi")
    BY <1>9 DEF Reads
  <2>2. Drifts /\ mScl' = TRUE /\ hold' = hold
    BY <1>0, <2>1, DriftDid
  <2> QED
    BY <2>1, <2>2, Zenon DEF BlindRx
<1>10. CASE n = 3
  <2>1. n - 1 = 2 /\ Did("scl_low")
    BY <1>10 DEF Reads
  <2>2. Drifts /\ mScl' = FALSE /\ hold' = hold
    BY <1>0, <2>1, DriftDid
  <2> QED
    BY <2>1, <2>2, Zenon DEF BlindRx
<1>11. CASE n = 2 /\ ~mScl
  <2>1. n - 1 \in 0 .. 1 /\ Did("sda_hi")
    BY <1>11 DEF Reads
  <2>2. Drifts /\ mScl' = mScl /\ mSda' = TRUE /\ hold' = hold
    BY <1>0, <1>11, <2>1, DriftDid
  <2> QED
    BY <1>11, <2>1, <2>2, Zenon DEF BlindRx
<1>12. CASE n = 1 /\ ~mScl /\ mSda
  <2>1. n - 1 \in 0 .. 1 /\ Did("sei")
    BY <1>12 DEF Reads
  <2>2. Drifts /\ mScl' = mScl /\ mSda' = mSda /\ hold' = hold
    BY <1>0, <2>1, DriftDid
  <2> QED
    BY <1>12, <2>1, <2>2, Zenon DEF BlindRx
<1>13. (n \in 4 .. 5 => n = 5 \/ n = 4) /\ (n \in 0 .. 1 => n = 1)
  OBVIOUS
<1> QED
  BY <1>1, <1>2, <1>3, <1>4, <1>5, <1>6, <1>7, <1>8, <1>9, <1>10, <1>11, <1>12, <1>13, Zenon
  DEF BlindRx

-----------------------------------------------------------------------------
(* The steps of the broken-off reads and resets *)

LEMMA BreakingIs ==
  ASSUME Breaking
  PROVE  Gentle /\ Callers # "careless" /\ StretchAt \subseteq {"slaveAck"}
BY DEF Breaking, Gentle

LEMMA AnyPlaceKept ==
  ASSUME Kept, hold' = hold, call' = call, NEW held, NEW n, AnyPlace(held, n)
  PROVE  AnyPlace(held, n)'
<1>1. data' = data /\ mSda' = mSda /\ mScl' = mScl
  BY DEF Kept
<1>2. Place(held, n) => Place(held, n)'
  BY PlaceKept
<1>3. \A h : LagPlace(h, n) => LagPlace(h, n)'
  BY <1>1, KeptLate, ZenonT(60) DEF LagPlace
<1>4. ResetPlace => ResetPlace'
  BY <1>1, KeptLate, KeptQuiet, Zenon DEF ResetPlace
<1>5. (LateHigh => LateHigh') /\ (LateLow => LateLow')
  BY KeptLate
<1>6. StopPlace(n) => StopPlace(n)'
  BY <1>1, KeptQuiet, Zenon DEF StopPlace
<1> QED
  BY <1>1, <1>2, <1>3, <1>4, <1>5, <1>6, Zenon DEF AnyPlace

\* A call whose byte or answer is among those it can have.
Sound ==
  /\ call.op \in CallOps \ {"none"}
  /\ call.op \in {"start", "tx"} => call.byte \in Bytes
  /\ call.op = "rx" => call.ack \in BOOLEAN

LEMMA SoundProgram ==
  ASSUME Sound, NEW held \in BOOLEAN
  PROVE  Program(held) \in Seq(Ops)
<1>1. \A b \in Bytes : b \in AllBits
  BY DEF AllBits
<1>2. CASE call.op = "start"
  <2>1. Program(held) = MasterStart(held, call.byte)
    BY <1>2 DEF Program
  <2> QED
    BY <1>1, <1>2, <2>1, StartIs DEF Sound
<1>3. CASE call.op = "tx"
  <2>1. Program(held) = MasterTx(call.byte)
    BY <1>3 DEF Program
  <2> QED
    BY <1>1, <1>3, <2>1, TxIs DEF Sound
<1>4. CASE call.op = "rx"
  <2>1. Program(held) = MasterRx(call.ack)
    BY <1>4 DEF Program
  <2> QED
    BY <1>4, <2>1, RxIs DEF Sound
<1>5. CASE call.op = "stop"
  <2>1. Program(held) = MasterStop
    BY <1>5 DEF Program
  <2> QED
    BY <2>1, MasterStopIs
<1>6. CASE call.op = "clear"
  <2>1. Program(held) = BusClear(held)
    BY <1>6 DEF Program
  <2> QED
    BY <2>1, ClearIs
<1>7. CASE call.op = "open"
  <2>1. Program(held) = Open
    BY <1>7 DEF Program
  <2> QED
    BY <2>1, OpenIs
<1>8. CASE call.op = "reset"
  <2>1. Program(held) = <<>>
    BY <1>8 DEF Program
  <2> QED
    BY <2>1, Literals
<1> QED
  BY <1>2, <1>3, <1>4, <1>5, <1>6, <1>7, <1>8 DEF Sound, CallOps

LEMMA PlacedProgramIs ==
  ASSUME NEW held \in BOOLEAN, NEW n, Placed(held, n)
  PROVE  Program(held) \in Seq(Ops)
<1>1. CASE Place(held, n)
  BY <1>1, ProgramIs
<1>2. CASE call.op \in {"clear", "open", "reset"}
  <2>1. Sound
    BY <1>2 DEF Sound, CallOps
  <2> QED
    BY <2>1, SoundProgram
<1>3. CASE BlindPlace(held, n)
  <2>1. Sound
    BY <1>3 DEF BlindPlace, Sound, CallOps
  <2> QED
    BY <2>1, SoundProgram
<1> QED
  BY <1>1, <1>2, <1>3, Zenon DEF Placed, AnyPlace

\* A program is at its beginning, or goes on.
LEMMA GoesOn ==
  ASSUME NEW held \in BOOLEAN, NEW P \in Seq(Ops), NEW n \in Nat, n <= Len(P),
         Program(held)' = P, prog' = Suffix(P, n), Placed(held, n)'
  PROVE  RunningOn'
<1>1. Len(prog') = n
  BY SuffixIs
<1>2. Len(prog)' <= Len(Program(held))' /\ prog' = Suffix(Program(held), Len(prog))'
  BY <1>1, Zenon DEF Suffix
<1>3. Placed(held, Len(prog))'
  BY <1>1, Zenon
<1> QED
  BY <1>2, <1>3, Zenon DEF RunningOn

LEMMA RunsOn == Running /\ ~astray => RunningOn
BY Zenon DEF Running, RunningOn, Placed, AnyPlace

LEMMA RunsOnNext ==
  ASSUME Running', ~astray'
  PROVE  RunningOn'
<1>1. (Running /\ ~astray)' => RunningOn'
  BY RunsOn, PTL
<1> QED
  BY <1>1

\* The statements of bus_i2c_open before those of bus_clear.
LEMMA LateOpenStep ==
  ASSUME WiresAre, NEW n \in 3 * Bits + 20 .. 3 * Bits + 22, data = <<>>, LateHigh,
         Did(Statement(Open, n))
  PROVE  /\ data' = <<>> /\ LateHigh'
         /\ n - 1 \in 3 * Bits + 20 .. 3 * Bits + 22 \/ n - 1 = 3 * Bits + 19
<1>1. n = 3 * Bits + 22 \/ n = 3 * Bits + 21 \/ n = 3 * Bits + 20
  OBVIOUS
<1>2. n - 1 \in 3 * Bits + 20 .. 3 * Bits + 22 \/ n - 1 = 3 * Bits + 19
  OBVIOUS
<1>3. mSda = TRUE /\ mScl = TRUE
  BY DEF LateHigh, WiresAre
<1>4. CASE n = 3 * Bits + 22
  <2>1. Did("sda_hi")
    BY <1>4, OpenIs
  <2>2. Drive(TRUE, TRUE) /\ data' = <<>>
    BY <1>3, <2>1 DEF Did
  <2> QED
    BY <1>2, <2>2, LateStays
<1>5. CASE n = 3 * Bits + 21
  <2>1. Did("scl_hi")
    BY <1>5, OpenIs
  <2>2. Drive(TRUE, TRUE) /\ data' = <<>>
    BY <1>3, <2>1 DEF Did
  <2> QED
    BY <1>2, <2>2, LateStays
<1>6. CASE n = 3 * Bits + 20
  <2>1. Did("unhold")
    BY <1>6, OpenIs
  <2>2. UNCHANGED <<wires, data>>
    BY <2>1 DEF Did
  <2>3. LateHigh'
    BY <2>2, KeptWires, KeptLate
  <2> QED
    BY <1>2, <2>2, <2>3
<1> QED
  BY <1>1, <1>4, <1>5, <1>6

\* The same amid a read, where the slave waits for SCL.
LEMMA AmidOpenStep ==
  ASSUME WiresAre, LateLow, data = <<>>, NEW n,
         n = 3 * Bits + 22 \/ (n = 3 * Bits + 21 /\ mSda), Did(Statement(Open, n))
  PROVE  /\ data' = <<>>
         /\ \/ n - 1 = 3 * Bits + 21 /\ LateLow' /\ mSda'
            \/ n - 1 \in 3 * Bits + 20 .. 3 * Bits + 22 /\ LateHigh'
<1>1. ~mScl /\ mSda \in BOOLEAN /\ TRUE \in BOOLEAN
  BY DEF LateLow, WiresAre
<1>2. CASE n = 3 * Bits + 22
  <2>1. Did("sda_hi")
    BY <1>2, OpenIs
  <2>2. Drive(TRUE, mScl) /\ data' = <<>>
    BY <2>1 DEF Did
  <2>3. LateLow' /\ mSda' = TRUE
    BY <1>1, <2>2, LateSets
  <2> QED
    BY <1>2, <2>2, <2>3
<1>3. CASE n = 3 * Bits + 21 /\ mSda
  <2>1. Did("scl_hi")
    BY <1>3, OpenIs
  <2>2. Drive(mSda, TRUE) /\ data' = <<>>
    BY <2>1 DEF Did
  <2>3. slave.scl /\ slave.role = "send" /\ slave.n # Bits
    BY DEF LateLow, Serving
  <2>4. mSda' = mSda /\ mScl' /\ slave' = slave
    BY <1>1, <2>2, <2>3, LateRises
  <2>5. LateHigh'
    BY <1>3, <2>4, Zenon DEF LateLow, LateHigh, Serving
  <2> QED
    BY <1>3, <2>2, <2>5
<1> QED
  BY <1>2, <1>3

LEMMA AnyPlaceStep ==
  ASSUME Gentle, WiresAre, NEW held \in BOOLEAN, NEW n \in 1 .. Len(Program(held)),
         AnyPlace(held, n), Did(Statement(Program(held), n))
  PROVE  AnyPlace(held, n - 1)'
<1>1. call' = call /\ n \in Nat
  BY DEF Did
<1>2. CASE Place(held, n)
  BY <1>2, PlaceStep DEF Stepped, AnyPlace
<1>3. CASE call.op = "clear" /\ LagPlace(held, n)
  <2> DEFINE P == BusClear(held)
  <2>1. Program(held) = P
    BY <1>3 DEF Program
  <2>2. Starts(P, held, StartByte, 7) /\ Stops(P)
    BY ClearIs
  <2> HIDE DEF P
  <2>3. Did(Statement(P, n))
    BY <2>1
  <2>4. LagPlace(held, n - 1)' \/ ClearPlace(held, n - 1)'
    BY <1>1, <1>3, <2>2, <2>3, LagStep
  <2> QED
    BY <1>1, <1>3, <2>4, Zenon DEF AnyPlace, Place
<1>4. CASE call.op = "open" /\ LagPlace(FALSE, n)
  <2>1. Program(held) = Open
    BY <1>4 DEF Program
  <2>2. Starts(Open, FALSE, StartByte, 7) /\ Stops(Open)
    BY OpenIs
  <2>3. Did(Statement(Open, n))
    BY <2>1
  <2>4. LagPlace(FALSE, n - 1)' \/ ClearPlace(FALSE, n - 1)'
    BY <1>1, <1>4, <2>2, <2>3, LagStep
  <2> QED
    BY <1>1, <1>4, <2>4, Zenon DEF AnyPlace, Place, OpenPlace
<1>5. CASE call.op = "open" /\ n \in 3 * Bits + 20 .. 3 * Bits + 22 /\ data = <<>> /\ LateHigh
  <2>1. Program(held) = Open
    BY <1>5 DEF Program
  <2>2. Did(Statement(Open, n))
    BY <2>1
  <2>3. /\ data' = <<>> /\ LateHigh'
        /\ n - 1 \in 3 * Bits + 20 .. 3 * Bits + 22 \/ n - 1 = 3 * Bits + 19
    BY <1>5, <2>2, LateOpenStep
  <2>4. CASE n - 1 \in 3 * Bits + 20 .. 3 * Bits + 22
    BY <1>1, <1>5, <2>3, <2>4, Zenon DEF AnyPlace
  <2>5. CASE n - 1 = 3 * Bits + 19
    <3>1. LagPlace(FALSE, n - 1)'
      BY <2>3, <2>5, Zenon DEF LagPlace
    <3> QED
      BY <1>1, <1>5, <3>1, Zenon DEF AnyPlace
  <2> QED
    BY <2>3, <2>4, <2>5
<1>6. CASE /\ call.op = "open" /\ data = <<>> /\ LateLow
           /\ n = 3 * Bits + 22 \/ (n = 3 * Bits + 21 /\ mSda)
  <2>1. Program(held) = Open
    BY <1>6 DEF Program
  <2>2. Did(Statement(Open, n))
    BY <2>1
  <2>3. /\ data' = <<>>
        /\ \/ n - 1 = 3 * Bits + 21 /\ LateLow' /\ mSda'
           \/ n - 1 \in 3 * Bits + 20 .. 3 * Bits + 22 /\ LateHigh'
    BY <1>6, <2>2, AmidOpenStep
  <2> QED
    BY <1>1, <1>6, <2>3, Zenon DEF AnyPlace
<1>7. CASE call.op \in {"clear", "open"} /\ n \in 0 .. 2 /\ StopPlace(n)
  <2>1. n \in 1 .. 7 /\ n - 1 \in 0 .. 2
    BY <1>7
  <2>2. Stops(Program(held))
    <3>1. CASE call.op = "clear"
      <4>1. Program(held) = BusClear(held)
        BY <3>1 DEF Program
      <4> QED
        BY <4>1, ClearIs
    <3>2. CASE call.op = "open"
      <4>1. Program(held) = Open
        BY <3>2 DEF Program
      <4> QED
        BY <4>1, OpenIs
    <3> QED
      BY <1>7, <3>1, <3>2
  <2>3. PICK P : P = Program(held)
    OBVIOUS
  <2>4. Stops(P) /\ Did(Statement(P, n))
    BY <2>2, <2>3
  <2>5. StopPlace(n - 1)'
    BY <1>7, <2>1, <2>4, StopStep
  <2> QED
    BY <1>1, <1>7, <2>1, <2>5, Zenon DEF AnyPlace
<1>8. ~(call.op = "reset" /\ n = 0)
  OBVIOUS
<1> QED
  BY <1>2, <1>3, <1>4, <1>5, <1>6, <1>7, <1>8, Zenon DEF AnyPlace

\* bus_clear while the slave drifts, and bus_i2c_open.
LEMMA BlindClearStep ==
  ASSUME Lost, NEW held \in BOOLEAN, NEW P, Starts(P, held, StartByte, 7), Stops(P),
         NEW n \in 1 .. 7 + StartLength(held), BlindClear(held, n), Did(Statement(P, n))
  PROVE  \/ Drifts /\ BlindClear(held, n - 1)'
         \/ ~astray' /\ ClearPlace(held, n - 1)'
         \/ ~astray' /\ n - 1 \in 0 .. 2 /\ StopPlace(n - 1)'
<1>1. CASE n >= 8 /\ BlindStart(held, n - 7)
  <2> DEFINE m == n - 7
  <2>1. m \in 1 .. StartLength(held) /\ 7 + m = n
    BY <1>1 DEF StartLength
  <2>2. Did(Statement(P, 7 + m)) /\ BlindStart(held, m)
    BY <1>1, <2>1
  <2>3. (n - 1) - 7 = m - 1
    BY <2>1
  <2>4. m - 1 = 3 * Bits + 10 => n - 1 >= 8
    BY <2>1
  <2> HIDE DEF m
  <2>5. \/ Drifts /\ BlindStart(held, m - 1)'
        \/ m - 1 = 3 * Bits + 10 /\ ~astray' /\ StartPlace(held, StartByte, m - 1)'
    BY <2>1, <2>2, StartByteIs, BlindStartStep
  <2>6. CASE Drifts /\ BlindStart(held, m - 1)'
    <3>1. CASE n - 1 >= 8
      BY <2>3, <2>6, <3>1, Zenon DEF BlindClear
    <3>2. CASE n = 8
      <4>1. m - 1 = 0 /\ n - 1 \in 5 .. 7
        BY <2>1, <3>2
      <4>2. BlindStart(held, 0)'
        BY <2>6, <4>1, Zenon
      <4>3. ~mScl'
        BY <4>2 DEF BlindStart, BlindSend
      <4> QED
        BY <2>6, <4>1, <4>3, Zenon DEF BlindClear, BlindStop
    <3>3. n - 1 >= 8 \/ n = 8
      BY <1>1
    <3> QED
      BY <3>1, <3>2, <3>3
  <2>7. CASE m - 1 = 3 * Bits + 10 /\ ~astray' /\ StartPlace(held, StartByte, m - 1)'
    BY <2>3, <2>4, <2>7, Zenon DEF ClearPlace
  <2> QED
    BY <2>5, <2>6, <2>7
<1>2. CASE BlindStop(n)
  <2>1. n \in 1 .. 7 /\ 2 \in 0 .. 2
    <3>1. n <= 7 /\ n >= 1
      BY <1>2 DEF BlindStop, StartLength
    <3> QED
      BY <3>1
  <2>2. \/ Drifts /\ BlindStop(n - 1)'
        \/ n - 1 = 2 /\ ~astray' /\ StopPlace(n - 1)'
    BY <1>2, <2>1, BlindStopStep
  <2> QED
    BY <2>1, <2>2, Zenon DEF BlindClear
<1> QED
  BY <1>1, <1>2 DEF BlindClear

LEMMA BlindOpenStep ==
  ASSUME Lost, NEW n \in 1 .. 3 * Bits + 22, BlindOpen(n), Did(Statement(Open, n))
  PROVE  \/ Drifts /\ BlindOpen(n - 1)'
         \/ ~astray' /\ ClearPlace(FALSE, n - 1)'
         \/ ~astray' /\ n - 1 \in 0 .. 2 /\ StopPlace(n - 1)'
<1>0. {"scl_hi", "sda_hi", "unhold"} \subseteq Ops
  BY DEF Ops
<1>1. CASE n = 3 * Bits + 22 /\ data = <<>> /\ mSda
  <2>1. n - 1 \in 3 * Bits + 21 .. 3 * Bits + 22 /\ Did("sda_hi")
    BY <1>1, OpenIs
  <2>2. Drifts /\ mSda' = TRUE /\ data' = data
    BY <1>0, <1>1, <2>1, DriftDid
  <2> QED
    BY <1>1, <2>1, <2>2, Zenon DEF BlindOpen
<1>2. CASE n = 3 * Bits + 21 /\ data = <<>> /\ mSda
  <2>1. n - 1 = 3 * Bits + 20 /\ Did("scl_hi")
    BY <1>2, OpenIs
  <2>2. Drifts /\ mSda' = mSda /\ mScl' = TRUE /\ data' = data
    BY <1>0, <2>1, DriftDid
  <2> QED
    BY <1>2, <2>1, <2>2, Zenon DEF BlindOpen
<1>3. CASE n = 3 * Bits + 20 /\ data = <<>> /\ mSda /\ mScl
  <2>1. n - 1 >= 8 /\ (n - 1) - 7 = 3 * Bits + 12 /\ Did("unhold")
    BY <1>3, OpenIs
  <2>2. Drifts /\ mSda' = mSda /\ mScl' = mScl /\ data' = data
    BY <1>0, <2>1, DriftDid
  <2> QED
    BY <1>3, <2>1, <2>2, Zenon DEF BlindOpen, BlindClear, BlindStart
<1>4. CASE BlindClear(FALSE, n)
  <2>1. n \in 1 .. 7 + StartLength(FALSE)
    <3>1. n <= 3 * Bits + 19
      BY <1>4 DEF BlindClear, BlindStart, BlindSend, BlindStop
    <3> QED
      BY <3>1 DEF StartLength
  <2>2. Starts(Open, FALSE, StartByte, 7) /\ Stops(Open)
    BY OpenIs
  <2>3. \/ Drifts /\ BlindClear(FALSE, n - 1)'
        \/ ~astray' /\ ClearPlace(FALSE, n - 1)'
        \/ ~astray' /\ n - 1 \in 0 .. 2 /\ StopPlace(n - 1)'
    BY <1>4, <2>1, <2>2, BlindClearStep
  <2> QED
    BY <2>3, Zenon DEF BlindOpen
<1>5. n \in 3 * Bits + 21 .. 3 * Bits + 22 => n = 3 * Bits + 22 \/ n = 3 * Bits + 21
  OBVIOUS
<1> QED
  BY <1>1, <1>2, <1>3, <1>4, <1>5, Zenon DEF BlindOpen

LEMMA BlindPlaceStep ==
  ASSUME Lost, NEW held \in BOOLEAN, NEW n \in 1 .. Len(Program(held)), BlindPlace(held, n),
         Did(Statement(Program(held), n))
  PROVE  \/ Drifts /\ BlindPlace(held, n - 1)'
         \/ ~astray' /\ AnyPlace(held, n - 1)'
<1>1. \A b \in Bytes : b \in AllBits
  BY DEF AllBits
<1>2. call' = call
  BY DEF Did
<1>3. CASE call.op = "start" /\ call.byte \in Bytes /\ BlindStart(held, n)
  <2>1. PICK b \in Bytes : b = call.byte
    BY <1>3
  <2> DEFINE P == MasterStart(held, b)
  <2>2. Program(held) = P
    BY <1>3, <2>1 DEF Program
  <2>3. b \in AllBits
    BY <1>1, <2>1, Zenon
  <2>4. Len(P) = StartLength(held) /\ Starts(P, held, b, 0)
    BY <2>3, StartIs
  <2> HIDE DEF P
  <2>5. n \in 1 .. StartLength(held) /\ 0 + n = n
    BY <2>2, <2>4
  <2>6. Did(Statement(P, 0 + n))
    BY <2>2, <2>5
  <2>7. \/ Drifts /\ BlindStart(held, n - 1)'
        \/ n - 1 = 3 * Bits + 10 /\ ~astray' /\ StartPlace(held, b, n - 1)'
    BY <1>3, <2>3, <2>4, <2>5, <2>6, BlindStartStep
  <2>8. b = call.byte'
    BY <1>2, <2>1
  <2> QED
    BY <1>2, <1>3, <2>7, <2>8, Zenon DEF BlindPlace, AnyPlace, Place
<1>4. CASE call.op = "tx" /\ call.byte \in Bytes /\ BlindTx(n)
  <2>1. PICK b \in Bytes : b = call.byte
    BY <1>4
  <2>2. Program(held) = MasterTx(b)
    BY <1>4, <2>1 DEF Program
  <2>3. b \in AllBits
    BY <1>1, <2>1, Zenon
  <2>4. n \in 1 .. 3 * Bits + 10
    BY <2>2, <2>3, TxIs
  <2>5. Did(Statement(MasterTx(b), n))
    BY <2>2
  <2>6. Drifts /\ BlindTx(n - 1)'
    BY <1>4, <2>3, <2>4, <2>5, BlindTxStep
  <2> QED
    BY <1>2, <1>4, <2>6, Zenon DEF BlindPlace
<1>5. CASE call.op = "rx" /\ call.ack \in BOOLEAN /\ hold /\ BlindRx(n)
  <2>1. PICK ack \in BOOLEAN : ack = call.ack
    BY <1>5
  <2> DEFINE P == MasterRx(ack)
  <2>2. Program(held) = P
    BY <1>5, <2>1 DEF Program
  <2>3. Len(P) = 6 * Bits + 6 /\ Reads(P, ack)
    BY RxIs
  <2> HIDE DEF P
  <2>4. n \in 1 .. 6 * Bits + 6 /\ Did(Statement(P, n))
    BY <2>2, <2>3
  <2>5. Drifts /\ BlindRx(n - 1)' /\ hold' = hold
    BY <1>5, <2>3, <2>4, BlindRxStep
  <2> QED
    BY <1>2, <1>5, <2>5, Zenon DEF BlindPlace
<1>6. CASE call.op = "stop" /\ data = <<>> /\ BlindStop(n)
  <2>1. Program(held) = MasterStop
    BY <1>6 DEF Program
  <2>2. Stops(MasterStop) /\ n \in 1 .. 7 /\ Did(Statement(MasterStop, n))
    BY <2>1, MasterStopIs DEF Stops
  <2>3. /\ data' = data
        /\ \/ Drifts /\ BlindStop(n - 1)'
           \/ n - 1 = 2 /\ ~astray' /\ StopPlace(n - 1)'
    BY <1>6, <2>2, BlindStopStep
  <2> QED
    BY <1>2, <1>6, <2>3, Zenon DEF BlindPlace, AnyPlace, Place
<1>7. CASE call.op = "clear" /\ BlindClear(held, n)
  <2> DEFINE P == BusClear(held)
  <2>1. Program(held) = P
    BY <1>7 DEF Program
  <2>2. Len(P) = 7 + StartLength(held) /\ Starts(P, held, StartByte, 7) /\ Stops(P)
    BY ClearIs
  <2> HIDE DEF P
  <2>3. n \in 1 .. 7 + StartLength(held) /\ Did(Statement(P, n))
    BY <2>1, <2>2
  <2>4. \/ Drifts /\ BlindClear(held, n - 1)'
        \/ ~astray' /\ ClearPlace(held, n - 1)'
        \/ ~astray' /\ n - 1 \in 0 .. 2 /\ StopPlace(n - 1)'
    BY <1>7, <2>2, <2>3, BlindClearStep
  <2> QED
    BY <1>2, <1>7, <2>4, Zenon DEF BlindPlace, AnyPlace, Place
<1>8. CASE call.op = "open" /\ BlindOpen(n)
  <2>1. Program(held) = Open
    BY <1>8 DEF Program
  <2>2. n \in 1 .. 3 * Bits + 22 /\ Did(Statement(Open, n))
    BY <2>1, OpenIs
  <2>3. \/ Drifts /\ BlindOpen(n - 1)'
        \/ ~astray' /\ ClearPlace(FALSE, n - 1)'
        \/ ~astray' /\ n - 1 \in 0 .. 2 /\ StopPlace(n - 1)'
    BY <1>8, <2>2, BlindOpenStep
  <2> QED
    BY <1>2, <1>8, <2>3, Zenon DEF BlindPlace, AnyPlace, Place, OpenPlace
<1>9. n # 0
  OBVIOUS
<1> QED
  BY <1>3, <1>4, <1>5, <1>6, <1>7, <1>8, <1>9, Zenon DEF BlindPlace

\* The edges after a START in vain end its time at most.
LEMMA AstrayEnds ==
  ASSUME NEW op \in Ops, Did(op)
  PROVE  astray' = astray \/ astray' = FALSE
<1>1. \A x, y : Drive(x, y) => astray' = astray \/ astray' = FALSE
  BY Zenon DEF Drive, Edge
<1> QED
  BY <1>1 DEF Did, Ops

LEMMA PlacedStep ==
  ASSUME StretchAt \subseteq {"slaveAck"}, Gentle, WiresAre, Steady, Registers,
         NEW held \in BOOLEAN, NEW n \in 1 .. Len(Program(held)),
         Program(held) \in Seq(Ops), Placed(held, n), Did(Statement(Program(held), n))
  PROVE  Placed(held, n - 1)'
<1>1. astray \in BOOLEAN
  BY DEF Registers
<1>2. CASE astray
  <2>1. Drifting /\ BlindPlace(held, n)
    BY <1>2 DEF Placed
  <2>2. \/ Drifts /\ BlindPlace(held, n - 1)'
        \/ ~astray' /\ AnyPlace(held, n - 1)'
    BY <2>1, BlindPlaceStep DEF Lost
  <2> QED
    BY <1>2, <2>2 DEF Drifts, Placed
<1>3. CASE ~astray
  <2>1. AnyPlace(held, n)
    BY <1>3 DEF Placed
  <2>2. AnyPlace(held, n - 1)'
    BY <2>1, AnyPlaceStep
  <2>3. ~astray'
    <3>1. Statement(Program(held), n) \in Ops
      <4>1. Len(Program(held)) - n + 1 \in 1 .. Len(Program(held))
        OBVIOUS
      <4> QED
        BY <4>1, ElementOfSeq DEF Statement
    <3> QED
      BY <1>1, <1>3, <3>1, AstrayEnds
  <2> QED
    BY <2>2, <2>3 DEF Placed
<1> QED
  BY <1>2, <1>3

LEMMA ExecuteGoesOn ==
  ASSUME Breaking, BInv, Execute
  PROVE  BInv'
<1>1. WiresAre /\ Steady /\ Registers /\ RunningOn
  BY DEF BInv
<1>2. PICK held \in BOOLEAN :
        /\ Len(prog) <= Len(Program(held))
        /\ prog = Suffix(Program(held), Len(prog))
        /\ Placed(held, Len(prog))
  BY <1>1 DEF RunningOn
<1>3. PICK P : P = Program(held)
  OBVIOUS
<1>4. P \in Seq(Ops)
  BY <1>2, <1>3, PlacedProgramIs
<1>5. prog # <<>>
  BY ExecuteIs
<1>6. Len(prog) \in Nat
  <2>1. Program(held) = P
    BY <1>3
  <2> QED
    BY <1>2, <1>4, <2>1
<1>7. PICK n \in Nat : n = Len(prog)
  BY <1>6
<1>8. n <= Len(P) /\ prog = Suffix(P, n) /\ Placed(held, n)
  BY <1>2, <1>3, <1>7
<1>9. n > 0 /\ Did(Statement(P, n)) /\ prog' = Suffix(P, n - 1) /\ Len(prog') = n - 1
  BY <1>4, <1>8, Executed
<1>10. n \in 1 .. Len(P) /\ Len(P) \in Nat
  BY <1>4, <1>8, <1>9
<1>11. Placed(held, n - 1)'
  BY <1>1, <1>3, <1>4, <1>8, <1>9, <1>10, BreakingIs, PlacedStep
<1>12. Statement(P, n) \in Ops
  <2>1. Len(P) - n + 1 \in 1 .. Len(P)
    BY <1>10
  <2> QED
    BY <1>4, <2>1, ElementOfSeq DEF Statement
<1>13. WiresAre' /\ Registers'
  BY <1>1, <1>9, <1>12, ExecuteTypes, DidTypes
<1>14. Steady'
  BY <1>1, <1>9, <1>12, BreakingIs, DidSteady
<1>15. Program(held)' = P
  <2>1. call' = call
    BY <1>9 DEF Did
  <2> QED
    BY <1>3, <2>1 DEF Program
<1>16. RunningOn'
  <2>1. PICK m \in Nat : m = n - 1
    BY <1>10
  <2>2. Placed(held, m)' /\ prog' = Suffix(P, m) /\ m <= Len(P)
    BY <1>9, <1>10, <1>11, <2>1
  <2> QED
    BY <1>4, <1>15, <2>2, GoesOn
<1> QED
  BY <1>13, <1>14, <1>16 DEF BInv

\* When a call has returned, or after a reset.
LEMMA ReturnsOn ==
  ASSUME BInv, Returned, ~astray
  PROVE  (Settled /\ call.op # "reset") \/ (call.op = "reset" /\ ResetPlace)
<1>1. PICK held \in BOOLEAN : Placed(held, Len(prog))
  BY DEF BInv, RunningOn
<1>2. Len(prog) = 0
  BY DEF Returned
<1>3. AnyPlace(held, 0) /\ WiresAre
  BY <1>1, <1>2 DEF BInv, Placed
<1>4. CASE Place(held, 0)
  <2>1. Settled
    BY <1>3, <1>4, Arrived
  <2>2. call.op # "reset"
    BY <1>4 DEF Place
  <2> QED
    BY <2>1, <2>2
<1>5. \A h : ~LagPlace(h, 0)
  <2>1. /\ 0 \notin {3 * Bits + 20, 3 * Bits + 21} /\ 0 # 3 * Bits + 19 /\ 0 # 3 * Bits + 18
        /\ 0 # 3 * Bits + 17 /\ 0 # 3 * Bits + 16 /\ 0 # 3 * Bits + 15
        /\ 0 \notin 12 .. 14 /\ 0 # 11 /\ 0 # 10 /\ 0 # 9 /\ 0 \notin 5 .. 8 /\ 0 # 4 /\ 0 # 3
    OBVIOUS
  <2>2. \A j \in 1 .. Bits : /\ 0 # 14 + 3 * (Bits - j + 1)
                             /\ 0 # 13 + 3 * (Bits - j + 1)
                             /\ 0 # 12 + 3 * (Bits - j + 1)
    OBVIOUS
  <2> QED
    BY <2>1, <2>2, Zenon DEF LagPlace
<1>6. 0 \notin 3 * Bits + 20 .. 3 * Bits + 22 /\ 0 # 3 * Bits + 22 /\ 0 # 3 * Bits + 21
  OBVIOUS
<1>7. CASE call.op \in {"clear", "open"} /\ StopPlace(0)
  <2>1. Peer = "none" /\ call.op # "reset"
    BY <1>7, PeerIs
  <2>2. Free /\ ~hold
    BY <1>7 DEF StopPlace
  <2>3. call.op \notin {"start", "tx"} /\ call.op # "rx"
    BY <1>7
  <2> QED
    BY <2>1, <2>2, <2>3 DEF Settled
<1> QED
  BY <1>3, <1>4, <1>5, <1>6, <1>7, Zenon DEF AnyPlace

\* And when it has returned while the slave drifts: SDA is let go, and SCL unless
\* the driver holds the bus.
Adrift ==
  /\ astray /\ Drifting /\ mSda /\ (hold => ~mScl) /\ (~hold => mScl)
  /\ call.op \in {"start", "tx", "rx"} => hold

LEMMA ReturnsAdrift ==
  ASSUME BInv, Returned, astray
  PROVE  Adrift
<1>1. PICK held \in BOOLEAN : Placed(held, Len(prog))
  BY DEF BInv, RunningOn
<1>2. Len(prog) = 0
  BY DEF Returned
<1>3. BlindPlace(held, 0) /\ Drifting
  BY <1>1, <1>2 DEF Placed
<1>4. \A h : BlindStart(h, 0) => hold /\ mSda /\ ~mScl
  BY DEF BlindStart, BlindSend
<1>5. BlindStop(0) => ~hold /\ mSda /\ mScl
  BY DEF BlindStop
<1>6. BlindTx(0) => hold /\ mSda /\ ~mScl
  BY DEF BlindTx, BlindSend
<1>7. BlindRx(0) => mSda /\ ~mScl
  BY DEF BlindRx
<1>8. \A h : BlindClear(h, 0) => BlindStop(0)
  BY DEF BlindClear
<1>9. BlindOpen(0) => BlindStop(0)
  <2>1. 0 \notin 3 * Bits + 21 .. 3 * Bits + 22 /\ 0 # 3 * Bits + 20
    OBVIOUS
  <2> QED
    BY <1>8, <2>1, Zenon DEF BlindOpen
<1>10. \/ hold /\ mSda /\ ~mScl
       \/ ~hold /\ mSda /\ mScl /\ call.op \notin {"start", "tx", "rx"}
  BY <1>3, <1>4, <1>5, <1>6, <1>7, <1>8, <1>9 DEF BlindPlace
<1> QED
  BY <1>3, <1>10 DEF Adrift


\* A read is broken off: bus_clear begins while the slave sends.
LEMMA LateClearRuns ==
  ASSUME Serving, slave.scl, ~mScl, hold, hold \in BOOLEAN, ~astray, CallClear
  PROVE  RunningOn'
<1> DEFINE P == BusClear(TRUE)
<1>1. P \in Seq(Ops) /\ Len(P) = 3 * Bits + 21
  <2>1. 7 + StartLength(TRUE) = 3 * Bits + 21
    BY DEF StartLength
  <2> QED
    BY <2>1, ClearIs
<1>2. hold = TRUE
  OBVIOUS
<1>3. Call("clear", <<>>, FALSE, P)
  BY <1>2 DEF CallClear
<1> HIDE DEF P
<1>4. /\ prog' = P /\ data' = <<>> /\ call'.op = "clear" /\ UNCHANGED wires /\ ~astray'
  BY <1>3 DEF Call
<1>5. slave' = slave /\ mScl' = mScl
  BY <1>4, Zenon DEF wires
<1>6. LateLow'
  BY <1>5, Zenon DEF LateLow, Serving
<1>7. PICK n \in Nat : n = 3 * Bits + 21
  OBVIOUS
<1>8. Placed(TRUE, n)'
  <2>1. n \in {3 * Bits + 20, 3 * Bits + 21}
    BY <1>7
  <2>2. LagPlace(TRUE, n)'
    BY <1>4, <1>6, <2>1, Zenon DEF LagPlace
  <2>3. call.op' = "clear"
    BY <1>4
  <2> QED
    BY <1>4, <2>2, <2>3, Zenon DEF Placed, AnyPlace
<1>9. Program(TRUE)' = P
  BY <1>4 DEF Program, P
<1>10. prog' = Suffix(P, n) /\ n <= Len(P)
  BY <1>1, <1>4, <1>7, Whole
<1> QED
  BY <1>1, <1>7, <1>8, <1>9, <1>10, GoesOn

\* bus_i2c_open after a reset, or amid a read.
LEMMA LateOpenRuns ==
  ASSUME ResetPlace \/ LateLow, ~astray, CallOpen
  PROVE  RunningOn'
<1> DEFINE P == Open
<1>1. P \in Seq(Ops) /\ Len(P) = 3 * Bits + 22
  BY OpenIs
<1> HIDE DEF P
<1>2. Call("open", <<>>, FALSE, P)
  BY DEF CallOpen, P
<1>3. /\ prog' = P /\ data' = <<>> /\ call'.op = "open" /\ UNCHANGED wires /\ ~astray'
  BY <1>2 DEF Call
<1>4. UNCHANGED <<mSda, mScl, slave, busy, clocks>>
  BY <1>3, Zenon DEF wires
<1>5. Ready' \/ LateHigh' \/ LateLow'
  <2>1. CASE Ready
    BY <1>4, <2>1, Zenon DEF Ready, Idling
  <2>2. CASE LateHigh
    BY <1>4, <2>2, Zenon DEF LateHigh, Serving
  <2>3. CASE LateLow
    BY <1>4, <2>3, Zenon DEF LateLow, Serving
  <2> QED
    BY <2>1, <2>2, <2>3 DEF ResetPlace
<1>6. PICK n \in Nat : n = 3 * Bits + 22
  OBVIOUS
<1>7. AnyPlace(FALSE, n)'
  <2>1. call.op' = "open" /\ n \in 3 * Bits + 20 .. 3 * Bits + 22
    BY <1>3, <1>6
  <2>2. CASE Ready'
    BY <1>3, <1>6, <2>1, <2>2, Zenon DEF AnyPlace, Place, OpenPlace
  <2>3. CASE LateHigh'
    BY <1>3, <1>6, <2>1, <2>3, Zenon DEF AnyPlace
  <2>4. CASE LateLow'
    BY <1>3, <1>6, <2>1, <2>4, Zenon DEF AnyPlace
  <2> QED
    BY <1>5, <2>2, <2>3, <2>4
<1>8. Program(FALSE)' = P
  BY <1>3 DEF Program, P
<1>9. prog' = Suffix(P, n) /\ n <= Len(P)
  BY <1>1, <1>3, <1>6, Whole
<1>10. Placed(FALSE, n)'
  BY <1>3, <1>7, Zenon DEF Placed
<1> QED
  BY <1>1, <1>6, <1>8, <1>9, <1>10, GoesOn

\* A START that a slave which sends, or drifts, may not notice.
LEMMA AdriftStarts ==
  ASSUME NEW held \in BOOLEAN, (held /\ ~mScl') \/ (~held /\ mScl' /\ mSda'),
         data' = <<>>
  PROVE  BlindStart(held, StartLength(held))' /\ BlindClear(held, 7 + StartLength(held))'
<1>1. CASE held
  <2>1. StartLength(held) \in {3 * Bits + 13, 3 * Bits + 14}
    BY <1>1 DEF StartLength
  <2>2. BlindStart(held, StartLength(held))'
    BY <1>1, <2>1, Zenon DEF BlindStart
  <2>3. 7 + StartLength(held) >= 8 /\ (7 + StartLength(held)) - 7 = StartLength(held)
    BY DEF StartLength
  <2> QED
    BY <2>2, <2>3, Zenon DEF BlindClear
<1>2. CASE ~held
  <2>1. StartLength(held) = 3 * Bits + 12
    BY <1>2 DEF StartLength
  <2>2. BlindStart(held, StartLength(held))'
    BY <1>2, <2>1, Zenon DEF BlindStart
  <2>3. 7 + StartLength(held) >= 8 /\ (7 + StartLength(held)) - 7 = StartLength(held)
    BY DEF StartLength
  <2> QED
    BY <2>2, <2>3, Zenon DEF BlindClear
<1> QED
  BY <1>1, <1>2

\* Calls while the slave drifts; the first is a START amid a read.
LEMMA StartsAdrift ==
  ASSUME NEW b \in Bytes, Call("start", b, FALSE, MasterStart(hold, b)), hold \in BOOLEAN,
         Drifting, astray', (hold /\ ~mScl) \/ (~hold /\ mScl /\ mSda)
  PROVE  RunningOn'
<1>1. PICK held \in BOOLEAN : held = hold
  OBVIOUS
<1> DEFINE P == MasterStart(held, b)
<1>2. P \in Seq(Ops) /\ Len(P) = StartLength(held)
  <2>1. b \in AllBits
    BY DEF AllBits
  <2> QED
    BY <2>1, StartIs
<1>3. prog' = P
  BY <1>1 DEF Call
<1>4. /\ data' = <<>> /\ call'.op = "start" /\ call'.byte = b /\ UNCHANGED wires
  BY DEF Call
<1>5. Program(held)' = P
  <2>1. (CASE call.op = "start" -> MasterStart(held, call.byte)
           [] call.op = "tx" -> MasterTx(call.byte)
           [] call.op = "rx" -> MasterRx(call.ack)
           [] call.op = "stop" -> MasterStop
           [] call.op = "clear" -> BusClear(held)
           [] call.op = "open" -> Open
           [] OTHER -> <<>>)' = MasterStart(held, b)
    BY <1>4
  <2> QED
    BY <2>1 DEF Program
<1> HIDE DEF P
<1>6. mSda' = mSda /\ mScl' = mScl /\ slave' = slave
  BY <1>4, Zenon DEF wires
<1>7. PICK n \in Nat : n = StartLength(held)
  BY DEF StartLength
<1>8. BlindStart(held, n)'
  <2>1. (held /\ ~mScl') \/ (~held /\ mScl' /\ mSda')
    BY <1>1, <1>6
  <2>2. BlindStart(held, StartLength(held))'
    BY <1>4, <2>1, AdriftStarts
  <2> QED
    BY <1>7, <2>2, Zenon
<1>9. Placed(held, n)'
  <2>1. Drifting'
    BY <1>6, Zenon DEF Drifting, Gone
  <2>2. call.op' = "start" /\ call.byte' \in Bytes
    BY <1>4
  <2> QED
    BY <1>8, <2>1, <2>2, Zenon DEF Placed, BlindPlace
<1>10. prog' = Suffix(P, n) /\ n <= Len(P)
  BY <1>2, <1>3, <1>7, Whole
<1> QED
  BY <1>2, <1>5, <1>7, <1>9, <1>10, GoesOn

LEMMA ClearsAdrift ==
  ASSUME Adrift, CallClear, hold \in BOOLEAN
  PROVE  RunningOn'
<1>1. PICK held \in BOOLEAN : held = hold
  OBVIOUS
<1> DEFINE P == BusClear(held)
<1>2. P \in Seq(Ops) /\ Len(P) = 7 + StartLength(held)
  BY ClearIs
<1>3. Call("clear", <<>>, FALSE, P)
  BY <1>1 DEF CallClear
<1> HIDE DEF P
<1>4. /\ prog' = P /\ data' = <<>> /\ call'.op = "clear" /\ UNCHANGED wires /\ astray'
  BY <1>3 DEF Call, Adrift
<1>5. Program(held)' = P
  BY <1>4 DEF Program, P
<1>6. mSda' = mSda /\ mScl' = mScl /\ slave' = slave
  BY <1>4, Zenon DEF wires
<1>7. PICK n \in Nat : n = 7 + StartLength(held)
  BY DEF StartLength
<1>8. BlindClear(held, n)'
  <2>1. (held /\ ~mScl') \/ (~held /\ mScl' /\ mSda')
    BY <1>1, <1>6 DEF Adrift
  <2>2. BlindClear(held, 7 + StartLength(held))'
    BY <1>4, <2>1, AdriftStarts
  <2> QED
    BY <1>7, <2>2, Zenon
<1>9. Placed(held, n)'
  <2>1. Drifting'
    BY <1>6, Zenon DEF Adrift, Drifting, Gone
  <2>2. call.op' = "clear"
    BY <1>4
  <2> QED
    BY <1>4, <1>8, <2>1, <2>2, Zenon DEF Placed, BlindPlace
<1>10. prog' = Suffix(P, n) /\ n <= Len(P)
  BY <1>2, <1>4, <1>7, Whole
<1> QED
  BY <1>2, <1>5, <1>7, <1>9, <1>10, GoesOn

\* A call whose statements begin at a place of the slave's drifting.
LEMMA BeginsAdrift ==
  ASSUME Adrift, NEW P \in Seq(Ops), NEW n \in Nat, n = Len(P), prog' = P,
         Program(FALSE)' = P, UNCHANGED wires, astray', BlindPlace(FALSE, n)'
  PROVE  RunningOn'
<1>1. slave' = slave
  BY Zenon DEF wires
<1>2. Drifting'
  BY <1>1, Zenon DEF Adrift, Drifting, Gone
<1>3. Placed(FALSE, n)'
  BY <1>2, Zenon DEF Placed
<1>4. prog' = Suffix(P, n) /\ n <= Len(P)
  BY Whole
<1> QED
  BY <1>3, <1>4, GoesOn

LEMMA OpensAdrift ==
  ASSUME Adrift, CallOpen
  PROVE  RunningOn'
<1> DEFINE P == Open
<1>1. P \in Seq(Ops) /\ Len(P) = 3 * Bits + 22
  BY OpenIs
<1> HIDE DEF P
<1>2. Call("open", <<>>, FALSE, P)
  BY DEF CallOpen, P
<1>3. /\ prog' = P /\ data' = <<>> /\ call'.op = "open" /\ UNCHANGED wires /\ astray'
  BY <1>2 DEF Call, Adrift
<1>4. mSda'
  BY <1>3, Zenon DEF wires, Adrift
<1>5. PICK n \in Nat : n = 3 * Bits + 22
  OBVIOUS
<1>6. n \in 3 * Bits + 21 .. 3 * Bits + 22 /\ call.op' = "open"
  BY <1>3, <1>5
<1>7. BlindPlace(FALSE, n)'
  BY <1>3, <1>4, <1>6, Zenon DEF BlindPlace, BlindOpen
<1>8. Program(FALSE)' = P
  BY <1>3 DEF Program, P
<1> QED
  BY <1>1, <1>3, <1>5, <1>7, <1>8, BeginsAdrift

LEMMA StopsAdrift ==
  ASSUME Adrift, hold, CallStop
  PROVE  RunningOn'
<1> DEFINE P == MasterStop
<1>1. P \in Seq(Ops) /\ Len(P) = 7
  BY MasterStopIs
<1> HIDE DEF P
<1>2. Call("stop", <<>>, FALSE, P)
  BY DEF CallStop, P
<1>3. /\ prog' = P /\ data' = <<>> /\ call'.op = "stop" /\ UNCHANGED wires /\ astray'
  BY <1>2 DEF Call, Adrift
<1>4. ~mScl'
  BY <1>3, Zenon DEF wires, Adrift
<1>5. PICK n \in Nat : n = 7
  OBVIOUS
<1>6. n \in 5 .. 7 /\ call.op' = "stop"
  BY <1>3, <1>5
<1>7. BlindPlace(FALSE, n)'
  BY <1>3, <1>4, <1>6, Zenon DEF BlindPlace, BlindStop
<1>8. Program(FALSE)' = P
  BY <1>3 DEF Program, P
<1> QED
  BY <1>1, <1>3, <1>5, <1>7, <1>8, BeginsAdrift

LEMMA RxAdrift ==
  ASSUME Adrift, hold, CallRx
  PROVE  RunningOn'
<1>1. PICK ack \in BOOLEAN : Call("rx", <<>>, ack, MasterRx(ack))
  BY DEF CallRx
<1> DEFINE P == MasterRx(ack)
<1>2. P \in Seq(Ops) /\ Len(P) = 6 * Bits + 6
  BY RxIs
<1> HIDE DEF P
<1>3. Call("rx", <<>>, ack, P)
  BY <1>1 DEF P
<1>4. /\ prog' = P /\ call'.op = "rx" /\ call'.ack = ack /\ UNCHANGED wires /\ astray' /\ hold'
  BY <1>3 DEF Call, Adrift
<1>5. ~mScl'
  BY <1>4, Zenon DEF wires, Adrift
<1>6. PICK n \in Nat : n = 6 * Bits + 6
  OBVIOUS
<1>7. BlindPlace(FALSE, n)'
  <2>1. call.op' = "rx" /\ call.ack' \in BOOLEAN
    BY <1>4
  <2> QED
    BY <1>4, <1>5, <1>6, <2>1, Zenon DEF BlindPlace, BlindRx
<1>8. Program(FALSE)' = P
  <2>1. (CASE call.op = "start" -> MasterStart(FALSE, call.byte)
           [] call.op = "tx" -> MasterTx(call.byte)
           [] call.op = "rx" -> MasterRx(call.ack)
           [] call.op = "stop" -> MasterStop
           [] call.op = "clear" -> BusClear(FALSE)
           [] call.op = "open" -> Open
           [] OTHER -> <<>>)' = MasterRx(ack)
    BY <1>4
  <2> QED
    BY <2>1 DEF Program, P
<1> QED
  BY <1>2, <1>4, <1>6, <1>7, <1>8, BeginsAdrift

LEMMA TxAdrift ==
  ASSUME Adrift, hold, CallTx
  PROVE  RunningOn'
<1>1. PICK b \in Bytes : Call("tx", b, FALSE, MasterTx(b))
  BY DEF CallTx
<1> DEFINE P == MasterTx(b)
<1>2. P \in Seq(Ops) /\ Len(P) = 3 * Bits + 10
  <2>1. b \in AllBits
    BY DEF AllBits
  <2> QED
    BY <2>1, TxIs
<1> HIDE DEF P
<1>3. Call("tx", b, FALSE, P)
  BY <1>1 DEF P
<1>4. /\ prog' = P /\ call'.op = "tx" /\ call'.byte = b /\ UNCHANGED wires /\ astray' /\ hold'
  BY <1>3 DEF Call, Adrift
<1>5. ~mScl'
  BY <1>4, Zenon DEF wires, Adrift
<1>6. PICK n \in Nat : n = 3 * Bits + 10
  OBVIOUS
<1>7. BlindPlace(FALSE, n)'
  <2>1. call.op' = "tx" /\ call.byte' \in Bytes
    BY <1>4
  <2> QED
    BY <1>4, <1>5, <1>6, <2>1, Zenon DEF BlindPlace, BlindTx
<1>8. Program(FALSE)' = P
  <2>1. (CASE call.op = "start" -> MasterStart(FALSE, call.byte)
           [] call.op = "tx" -> MasterTx(call.byte)
           [] call.op = "rx" -> MasterRx(call.ack)
           [] call.op = "stop" -> MasterStop
           [] call.op = "clear" -> BusClear(FALSE)
           [] call.op = "open" -> Open
           [] OTHER -> <<>>)' = MasterTx(b)
    BY <1>4
  <2> QED
    BY <2>1 DEF Program, P
<1> QED
  BY <1>2, <1>4, <1>6, <1>7, <1>8, BeginsAdrift


LEMMA CallGoesOn ==
  ASSUME Breaking, BInv, CallStart \/ CallTx \/ CallRx \/ CallStop \/ CallClear \/ CallOpen
  PROVE  BInv'
<1>1. WiresAre /\ Steady /\ Registers /\ hold \in BOOLEAN /\ astray \in BOOLEAN
      /\ Callers # "careless"
  BY BreakingIs DEF BInv, Registers
<1>2. Returned /\ UNCHANGED <<wires, hold>> /\ WiresAre' /\ Registers'
  BY <1>1, CallTypes
<1>3. Steady'
  <2>1. slave' = slave
    BY <1>2, Zenon DEF wires
  <2> QED
    BY <1>1, <2>1 DEF Steady
<1>4. CASE ~astray /\ Settled
  <2>1. Serving => slave.scl /\ Drifting
    BY <1>1 DEF Steady, Serving, Drifting
  <2>2. ASSUME CallStart
        PROVE  RunningOn'
    <3>1. PICK b \in Bytes : Call("start", b, FALSE, MasterStart(hold, b))
      BY <2>2 DEF CallStart
    <3>2. MayCall("start") /\ astray' = (astray \/ Peer = "reading")
      BY <3>1 DEF Call
    <3>3. CASE Peer = "reading"
      <4>1. Serving /\ hold /\ ~mScl
        BY <1>4, <3>3 DEF Settled
      <4> QED
        BY <1>1, <2>1, <3>1, <3>2, <3>3, <4>1, StartsAdrift
    <3>4. CASE Peer # "reading"
      <4>1. (Free /\ ~hold) \/ (Quiet /\ hold)
        BY <1>1, <1>4, <3>2, <3>4, Permitted
      <4>2. ~astray'
        BY <1>4, <3>2, <3>4
      <4> QED
        BY <1>1, <2>2, <4>1, <4>2, StartRuns, RunsOnNext
    <3> QED
      BY <3>3, <3>4
  <2>3. ASSUME CallClear \/ CallOpen
        PROVE  RunningOn'
    <3>1. ~astray'
      BY <1>4, <2>3 DEF CallClear, CallOpen, Call
    <3>2. (CallClear => MayCall("clear")) /\ (CallOpen => MayCall("open"))
      BY DEF CallClear, CallOpen, Call
    <3>3. CASE (Free /\ ~hold) \/ (Quiet /\ hold)
      BY <1>1, <2>3, <3>1, <3>3, ClearRuns, OpenRuns, RunsOnNext
    <3>4. CASE Serving /\ hold /\ ~mScl
      <4>1. LateLow
        BY <2>1, <3>4 DEF LateLow
      <4> QED
        BY <1>1, <1>4, <2>1, <2>3, <3>4, <4>1, LateClearRuns, LateOpenRuns
    <3> QED
      BY <1>1, <1>4, <2>3, <3>2, <3>3, <3>4, Permitted
  <2>4. ASSUME CallTx \/ CallRx \/ CallStop
        PROVE  RunningOn'
    <3>1. ~astray'
      BY <1>4, <2>4 DEF CallTx, CallRx, CallStop, Call
    <3> QED
      BY <1>1, <1>4, <2>4, <3>1, TxRuns, RxRuns, StopRuns, RunsOnNext
  <2>5. RunningOn'
    BY <2>2, <2>3, <2>4
  <2> QED
    BY <1>2, <1>3, <2>5 DEF BInv
<1>5. CASE ~astray /\ call.op = "reset" /\ ResetPlace
  <2>1. Peer = "closed"
    BY <1>5 DEF Peer
  <2>2. \A op \in {"start", "tx", "rx", "stop", "clear"} : ~MayCall(op)
    BY <1>1, <2>1 DEF MayCall
  <2>3. ~CallStart /\ ~CallTx /\ ~CallRx /\ ~CallStop /\ ~CallClear
    BY <2>2 DEF CallStart, CallTx, CallRx, CallStop, CallClear, Call
  <2>4. RunningOn'
    BY <1>5, <2>3, LateOpenRuns
  <2> QED
    BY <1>2, <1>3, <2>4 DEF BInv
<1>6. CASE astray
  <2> SUFFICES RunningOn'
    BY <1>2, <1>3 DEF BInv
  <2>1. Adrift
    BY <1>2, <1>6, ReturnsAdrift
  <2>2. CASE CallStart
    <3>1. PICK b \in Bytes : Call("start", b, FALSE, MasterStart(hold, b))
      BY <2>2 DEF CallStart
    <3>2. astray'
      BY <1>6, <3>1 DEF Call
    <3>3. Drifting
      BY <2>1 DEF Adrift
    <3>4. (hold /\ ~mScl) \/ (~hold /\ mScl /\ mSda)
      BY <1>1, <2>1 DEF Adrift
    <3>5. hold \in BOOLEAN
      BY <1>1
    <3> QED
      BY <3>1, <3>2, <3>3, <3>4, <3>5, StartsAdrift
  <2>3. ASSUME CallTx \/ CallRx \/ CallStop
        PROVE  hold
    <3>1. MayCall("tx") \/ MayCall("rx") \/ MayCall("stop")
      BY <2>3 DEF CallTx, CallRx, CallStop, Call
    <3>2. Peer \in {"writing", "reading", "done"}
      BY <1>1, <3>1 DEF MayCall
    <3>3. call.op \in {"start", "tx", "rx"}
      <4>1. call.op \in CallOps
        BY <1>1 DEF Registers
      <4>2. call.op = "reset" => Peer = "closed"
        BY DEF Peer
      <4>3. call.op \in {"none", "stop", "clear", "open"} => Peer = "none"
        BY PeerIs
      <4> QED
        BY <3>2, <4>1, <4>2, <4>3 DEF CallOps
    <3> QED
      BY <2>1, <3>3 DEF Adrift
  <2>4. hold \in BOOLEAN
    BY <1>1
  <2>5. CASE CallTx
    BY <2>1, <2>3, <2>5, TxAdrift
  <2>6. CASE CallRx
    BY <2>1, <2>3, <2>6, RxAdrift
  <2>7. CASE CallStop
    BY <2>1, <2>3, <2>7, StopsAdrift
  <2>8. CASE CallClear
    BY <2>1, <2>4, <2>8, ClearsAdrift
  <2>9. CASE CallOpen
    BY <2>1, <2>9, OpensAdrift
  <2> QED
    BY <2>2, <2>5, <2>6, <2>7, <2>8, <2>9
<1> QED
  BY <1>1, <1>2, <1>4, <1>5, <1>6, ReturnsOn

\* The reset finds the wires as a call or another reset left them.
LEMMA ResetGoesOn ==
  ASSUME Breaking, BInv, CpuReset
  PROVE  BInv'
<1>1. WiresAre /\ Steady /\ Registers
  BY DEF BInv
<1>2. /\ Returned /\ Drive(TRUE, TRUE) /\ hold' = FALSE /\ ie' = TRUE /\ data' = <<>>
      /\ call' = [op |-> "reset", byte |-> <<>>, ack |-> FALSE] /\ prog' = prog
  BY DEF CpuReset
<1>3. TRUE \in BOOLEAN /\ FALSE \in BOOLEAN
  OBVIOUS
<1>4. WiresAre' /\ Steady'
  BY <1>1, <1>2, <1>3, BreakingIs, DriveTypes, DriveSteady
<1>5. Registers'
  <2>1. busy' \in BOOLEAN /\ clocks' \in -1 .. Bits /\ astray' \in BOOLEAN
    BY <1>1, <1>2, DriveCounts
  <2>2. "reset" \in CallOps /\ <<>> \in Bytes \cup {<<>>}
    BY DEF CallOps
  <2>3. call' \in [op : CallOps, byte : Bytes \cup {<<>>}, ack : BOOLEAN]
    BY <1>2, <2>2
  <2> QED
    BY <1>2, <2>1, <2>3 DEF Registers
<1>6. mSda' = TRUE /\ mScl' = TRUE
  BY <1>2, Zenon DEF Drive
<1>7. ASSUME ~astray
      PROVE  (Ready' \/ LateHigh') /\ ~astray'
  <2>0. ~astray'
    BY <1>2, <1>7, Zenon DEF Drive, Edge
  <2>1. CASE Free \/ Ready
    <3>1. Ready
      BY <2>1 DEF Free, Ready
    <3> QED
      BY <1>1, <1>2, <2>0, <3>1, ReadyStays
  <2>2. CASE LateHigh
    BY <1>1, <1>2, <2>0, <2>2, LateStays
  <2>3. CASE Quiet /\ mSda
    <3>1. Drive(mSda, TRUE)
      <4>1. mSda = TRUE
        BY <1>1, <2>3 DEF WiresAre
      <4> QED
        BY <1>2, <4>1
    <3>2. mScl' /\ clocks' = 0 /\ Idling'
      BY <1>1, <2>3, <3>1, QuietRises
    <3> QED
      BY <1>6, <2>0, <3>2, Zenon DEF Ready
  <2>4. CASE Serving /\ ~mScl
    <3>1. slave.scl /\ slave.role = "send" /\ slave.n # Bits
      BY <1>1, <2>4 DEF Steady, Serving
    <3>2. slave' = slave
      BY <1>1, <1>2, <1>3, <2>4, <3>1, LateRises
    <3> QED
      BY <1>6, <2>0, <2>4, <3>1, <3>2, Zenon DEF LateHigh, Serving
  <2>5. CASE Settled
    <3>1. CASE Peer = "none"
      BY <1>2, <2>1, <2>5, <3>1 DEF Settled
    <3>2. CASE Peer = "reading"
      BY <2>4, <2>5, <3>2 DEF Settled
    <3>3. CASE Peer \in {"writing", "done"}
      <4>1. Quiet /\ mSda
        BY <2>5, <3>3 DEF Settled, Hearing, Gone, Quiet, Idling
      <4> QED
        BY <2>3, <4>1
    <3> QED
      BY <2>5, <3>1, <3>2, <3>3 DEF Settled
  <2> QED
    BY <1>2, <1>7, <2>1, <2>2, <2>5, ReturnsOn DEF ResetPlace
<1>8. ASSUME astray
      PROVE  Drifting' /\ astray'
  <2>1. Adrift
    BY <1>2, <1>8, ReturnsAdrift
  <2>2. Lost
    BY <1>1, <2>1, BreakingIs DEF Lost, Adrift
  <2>3. Drifts
    BY <1>2, <1>3, <2>1, <2>2, DriftDrive DEF Adrift
  <2> QED
    BY <1>8, <2>3 DEF Drifts
<1>9. RunningOn'
  <2>1. PICK n \in Nat : n = 0
    OBVIOUS
  <2>2. call.op' = "reset" /\ astray \in BOOLEAN
    BY <1>1, <1>2 DEF Registers
  <2>3. Placed(FALSE, n)'
    <3>1. CASE ~astray
      <4>1. AnyPlace(FALSE, n)'
        BY <1>2, <1>6, <1>7, <2>1, <2>2, <3>1, Zenon DEF AnyPlace, ResetPlace
      <4> QED
        BY <1>7, <3>1, <4>1, Zenon DEF Placed
    <3>2. CASE astray
      BY <1>2, <1>6, <1>8, <2>1, <2>2, <3>2, Zenon DEF Placed, BlindPlace
    <3> QED
      BY <3>1, <3>2
  <2>4. Program(FALSE)' = <<>>
    BY <2>2 DEF Program
  <2>5. <<>> \in Seq(Ops) /\ Len(<<>>) = 0
    BY Literals
  <2>6. prog' = Suffix(<<>>, n) /\ n <= Len(<<>>)
    <3>1. prog' = <<>>
      BY <1>2 DEF Returned
    <3>2. Suffix(<<>>, 0) = <<>>
      BY <2>5, Whole, Zenon
    <3> QED
      BY <2>1, <2>5, <3>1, <3>2
  <2> QED
    BY <2>1, <2>3, <2>4, <2>5, <2>6, GoesOn
<1> QED
  BY <1>4, <1>5, <1>9 DEF BInv

\* A step that leaves the program and its place alone.
LEMMA StaysOn ==
  ASSUME RunningOn, UNCHANGED <<prog, call, hold, astray>>, Kept, astray => UNCHANGED slave
  PROVE  RunningOn'
<1>1. PICK held \in BOOLEAN :
        /\ Len(prog) <= Len(Program(held))
        /\ prog = Suffix(Program(held), Len(prog))
        /\ Placed(held, Len(prog))
  BY DEF RunningOn
<1>2. PICK n : n = Len(prog)
  OBVIOUS
<1>3. Placed(held, n)'
  <2>1. CASE ~astray
    BY <1>1, <1>2, <2>1, AnyPlaceKept DEF Placed
  <2>2. CASE astray
    <3>0. slave' = slave /\ data' = data /\ call' = call
      BY <2>2 DEF Kept
    <3>1. /\ mSda => mSda'
          /\ ~mSda => ~mSda'
          /\ mScl => mScl'
          /\ ~mScl => ~mScl'
          /\ hold => hold'
          /\ ~hold => ~hold'
          /\ astray'
      BY <2>2 DEF Kept
    <3>2. Drifting /\ BlindPlace(held, n)
      BY <1>1, <1>2, <2>2 DEF Placed
    <3>3. Drifting'
      BY <3>0, <3>2, Zenon DEF Drifting, Gone
    <3>4. \A m : BlindSend(m) => BlindSend(m)'
      BY <3>1, Zenon DEF BlindSend
    <3>5. \A h, m : BlindStart(h, m) => BlindStart(h, m)'
      BY <3>0, <3>1, <3>4, Zenon DEF BlindStart
    <3>6. \A m : BlindStop(m) => BlindStop(m)'
      BY <3>1, Zenon DEF BlindStop
    <3>7. \A m : BlindTx(m) => BlindTx(m)'
      BY <3>1, <3>4, Zenon DEF BlindTx
    <3>8. \A m : BlindRx(m) => BlindRx(m)'
      BY <3>1, Zenon DEF BlindRx
    <3>9. \A h, m : BlindClear(h, m) => BlindClear(h, m)'
      BY <3>5, <3>6, Zenon DEF BlindClear
    <3>10. \A m : BlindOpen(m) => BlindOpen(m)'
      BY <3>0, <3>1, <3>9, Zenon DEF BlindOpen
    <3>11. BlindPlace(held, n)'
      BY <3>0, <3>1, <3>2, <3>5, <3>6, <3>7, <3>8, <3>9, <3>10, Zenon DEF BlindPlace
    <3> QED
      BY <3>1, <3>3, <3>11, Zenon DEF Placed
  <2> QED
    BY <2>1, <2>2
<1>4. Len(prog)' = n /\ Program(held)' = Program(held) /\ prog' = prog
  BY <1>2 DEF Program
<1>5. Placed(held, Len(prog))'
  BY <1>3, <1>4, Zenon
<1>6. Len(prog)' <= Len(Program(held))' /\ prog' = Suffix(Program(held), Len(prog))'
  BY <1>1, <1>2, <1>4, Zenon DEF Suffix
<1> QED
  BY <1>5, <1>6, Zenon DEF RunningOn

LEMMA ReleaseGoesOn ==
  ASSUME BInv, ReleaseScl
  PROVE  BInv'
<1>1. WiresAre /\ Steady /\ Registers /\ RunningOn /\ ~slave.scl
  BY DEF BInv, ReleaseScl
<1>2. PICK held \in BOOLEAN : Placed(held, Len(prog))
  BY <1>1 DEF RunningOn
<1>3. PICK n : n = Len(prog)
  OBVIOUS
<1>4. ~astray /\ AnyPlace(held, n)
  <2>1. ~Drifting
    BY <1>1 DEF Drifting, Gone, Steady
  <2> QED
    BY <1>2, <1>3, <2>1 DEF Placed
<1>5. Still
  <2>1. \A h, m : ~LagPlace(h, m)
    <3>1. \A j : ~Lag(j) /\ ~LagHigh(j)
      BY <1>1 DEF Lag, LagHigh
    <3>2. ~LateLow /\ ~LateHigh /\ ~LateZero /\ ~Gone
      BY <1>1 DEF LateLow, LateHigh, LateZero, Gone
    <3> QED
      BY <3>1, <3>2, Zenon DEF LagPlace
  <2>2. ~LateHigh /\ ~LateLow /\ ~ResetPlace
    BY <1>1 DEF ResetPlace, LateHigh, LateLow, Ready, Idling
  <2>3. \A m \in 0 .. 2 : ~StopPlace(m)
    <3>1. ~Free
      BY <1>1 DEF Free, Idling
    <3>2. \A m \in 0 .. 2 : m \notin 5 .. 7 /\ m # 4 /\ m # 3
      OBVIOUS
    <3> QED
      BY <3>1, <3>2, Zenon DEF StopPlace
  <2>4. Place(held, n)
    BY <1>4, <2>1, <2>2, <2>3, Zenon DEF AnyPlace
  <2> QED
    BY <2>4, PlaceStill
<1>6. Kept /\ UNCHANGED <<prog, call, hold>>
  BY <1>1, <1>5, ReleaseKept
<1>7. WiresAre'
  BY <1>1, ReleaseTypes
<1>8. Steady'
  BY <1>1, <1>6 DEF Steady, Kept
<1>9. UNCHANGED <<call, hold, ie, busy, clocks, astray>> /\ Registers'
  <2>1. UNCHANGED <<call, hold, ie, busy, clocks, astray>>
    BY DEF ReleaseScl
  <2> QED
    BY <1>1, <2>1 DEF Registers
<1>10. RunningOn'
  BY <1>1, <1>4, <1>6, <1>9, StaysOn
<1> QED
  BY <1>7, <1>8, <1>9, <1>10 DEF BInv

LEMMA NextGoesOn ==
  ASSUME Breaking, BInv, [Next]_vars
  PROVE  BInv'
<1>1. CASE CallStart \/ CallTx \/ CallRx \/ CallStop \/ CallClear \/ CallOpen
  BY <1>1, CallGoesOn
<1>2. CASE CpuReset
  BY <1>2, ResetGoesOn
<1>3. CASE Execute
  BY <1>3, ExecuteGoesOn
<1>4. CASE Poll \/ UNCHANGED vars
  <2>1. UNCHANGED <<mSda, mScl, slave, prog, call, data, hold, ie, busy, clocks, astray>>
    BY <1>4, Zenon DEF Poll, vars
  <2>2. Kept
    BY <2>1, Zenon DEF Kept
  <2>3. RunningOn'
    BY <2>1, <2>2, StaysOn DEF BInv
  <2>4. WiresAre' /\ Steady' /\ Registers'
    BY <2>1 DEF BInv, WiresAre, SlaveIs, Steady, Registers
  <2> QED
    BY <2>3, <2>4 DEF BInv
<1>5. CASE ReleaseScl
  BY <1>5, ReleaseGoesOn
<1> QED
  BY <1>1, <1>2, <1>3, <1>4, <1>5 DEF Next

\* BInv is the inductive invariant of broken-off reads and resets.
THEOREM HwI2cBreakingInvariant ==
  ASSUME Breaking
  PROVE  Spec => []BInv
<1>1. Init => BInv
  <2> SUFFICES ASSUME Init
      PROVE  BInv
    OBVIOUS
  <2>1. IInv
    BY InitStarts
  <2>2. slave.role # "send" /\ ~astray
    BY DEF Init, Idle
  <2> QED
    BY <2>1, <2>2, RunsOn DEF IInv, BInv, Steady
<1>2. BInv /\ [Next]_vars => BInv'
  BY NextGoesOn
<1> QED
  BY <1>1, <1>2, PTL DEF Spec

\* When bus_clear or bus_i2c_open returns, both wires are high and the slave is
\* out of every transfer, whatever it was sending when a read was broken off or
\* the processor was reset (hw_i2c.h:54, hw_i2c.c:174-178).  The exception is a
\* read broken off with a START ('[' and an address amid a read) after which
\* there was no START or STOP condition: the slave may then still be sending.
THEOREM HwI2cClears ==
  ASSUME Breaking
  PROVE  Spec => []ClearFreesTheBus
<1>1. ASSUME BInv, Returned, call.op \in {"clear", "open"}, ~astray
      PROVE  Sda /\ Scl /\ slave.role = "off"
  <2>1. Settled
    BY <1>1, ReturnsOn
  <2>2. Peer = "none"
    BY <1>1, PeerIs
  <2>3. Free
    BY <2>1, <2>2 DEF Settled
  <2> QED
    BY <2>3 DEF Free, Idling, Sda, Scl
<1>2. BInv => ClearFreesTheBus
  BY <1>1, Zenon DEF ClearFreesTheBus
<1> QED
  BY <1>2, HwI2cBreakingInvariant, PTL

\* What a call returns stays true of the slave, and the bytes arrive, also when
\* reads are broken off by clearing, by opening the mode again or by a START,
\* and when the processor is reset.  The exception is, again, the time from a
\* START amid a read to the next condition on the wires: the driver may then take
\* bits of the slave's for the acknowledgement of an address.  From that
\* condition on everything holds as before.
THEOREM HwI2cBreakingDelivers ==
  ASSUME Breaking
  PROVE  Spec => [](astray \/ (PeerListens /\ Delivered))
<1>1. ASSUME BInv, Returned, ~astray
      PROVE  /\ Peer = "writing" => slave.role = "recv" /\ slave.n = 0
             /\ Peer = "reading" => slave.role = "send" /\ slave.n = 0
             /\ call.op \in {"start", "tx"} /\ Acked => slave.last = call.byte
             /\ call.op = "rx" => slave.last = data
  <2>1. CASE Settled
    BY <2>1 DEF Settled, Hearing, Serving
  <2>2. CASE call.op = "reset"
    <3>1. Peer = "closed"
      BY <2>2 DEF Peer
    <3> QED
      BY <2>2, <3>1
  <2> QED
    BY <1>1, <2>1, <2>2, ReturnsOn
<1>2. BInv => astray \/ (PeerListens /\ Delivered)
  BY <1>1, Zenon DEF PeerListens, Delivered
<1> QED
  BY <1>2, HwI2cBreakingInvariant, PTL

=============================================================================
