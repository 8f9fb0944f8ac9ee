--------------------------- MODULE CommandsProofs ---------------------------
(***************************************************************************)
(* Proofs about Commands for every alphabet, every table of command names   *)
(* and lines of every length: types, so that handle_command never gets an   *)
(* empty word, that only functions are called which the bus has, and that a *)
(* line calls what it means.                                                *)
(***************************************************************************)
EXTENDS Commands, SequenceTheorems, WellFoundedInduction, TLAPS

Character == Alphabet \ Separators
CallType == [op : Ops, n : Nat]

\* What may be called while b is the bus.
Allowed(b) == {"BadCmd"} \cup Functions(b)

\* While a line is read its bus is the one it began with, and before its first
\* word and its first bracket it has called nothing.
Undone == scan # "idle" => bus = wasBus /\ (firstToken => calls = <<>>)

IInv == TypeOK /\ Undone /\ NoNullCall

-----------------------------------------------------------------------------
(* Numbers *)

\* What induction over the natural numbers rests on here.
LEMMA Least ==
  ASSUME NEW T \in SUBSET Nat, T # {}
  PROVE  \E m \in T : \A n \in T : m <= n
<1> DEFINE Less == {p \in Nat \X Nat : p[1] < p[2]}
<1>1. IsWellFoundedOn(Less, Nat)
  BY NatLessThanWellFounded, Zenon DEF OpToRel
<1>2. \A n \in Nat, m \in Nat : <<n, m>> \in Less <=> n < m
  OBVIOUS
<1> HIDE DEF Less
<1>3. PICK m \in T : \A n \in T : ~ (<<n, m>> \in Less)
  BY <1>1, WFMin, Zenon
<1>4. ASSUME NEW n \in T PROVE m <= n
  <2>1. n \in Nat /\ m \in Nat
    OBVIOUS
  <2>2. ~(n < m)
    BY <1>2, <1>3, <2>1, Zenon
  <2> QED
    BY <2>1, <2>2
<1> QED
  BY <1>4

\* The values of the first digits of w, up to the one of m digits.
Values(g, w, m) == g = [n \in 0 .. m |-> IF n = 0 THEN 0 ELSE 10 * g[n - 1] + Digit[w[n]]]

LEMMA NumberOfIs ==
  ASSUME NEW w
  PROVE  NumberOf(w) = (CHOOSE g : Values(g, w, Len(w)))[Len(w)]
BY DEF NumberOf, Values

\* There are such values for every number of digits: else there is a least
\* number without, and one more step makes them.
LEMMA ValuesExist ==
  ASSUME NEW w, NEW m \in Nat
  PROVE  \E g : Values(g, w, m)
<1> DEFINE T == {k \in Nat : ~ \E g : Values(g, w, k)}
<1>1. SUFFICES ASSUME T # {} PROVE FALSE
  OBVIOUS
<1>2. T \in SUBSET Nat
  OBVIOUS
<1>3. PICK k \in T : \A n \in T : k <= n
  <2> HIDE DEF T
  <2> QED BY <1>1, <1>2, Least
<1>4. k # 0
  <2> DEFINE g == [n \in 0 .. 0 |-> 0]
  <2>1. Values(g, w, 0)
    BY DEF Values
  <2> QED BY <2>1
<1>5. PICK g : Values(g, w, k - 1)
  <2>1. k - 1 \in Nat /\ k - 1 \notin T
    BY <1>3, <1>4
  <2> QED BY <2>1
<1>6. \E h : Values(h, w, k)
  <2> DEFINE h == [n \in 0 .. k |-> IF n = k THEN 10 * g[k - 1] + Digit[w[k]] ELSE g[n]]
  <2>1. \A n \in 0 .. k - 1 : h[n] = g[n]
    BY <1>3
  <2>2. ASSUME NEW n \in 0 .. k
        PROVE  h[n] = IF n = 0 THEN 0 ELSE 10 * h[n - 1] + Digit[w[n]]
    <3>1. CASE n = k
      BY <3>1, <1>4, <2>1
    <3>2. CASE n # k
      <4>1. n \in 0 .. k - 1 /\ (n # 0 => n - 1 \in 0 .. k - 1)
        BY <3>2
      <4>2. g[n] = IF n = 0 THEN 0 ELSE 10 * g[n - 1] + Digit[w[n]]
        BY <1>5, <4>1, Zenon DEF Values
      <4> QED
        BY <2>1, <4>1, <4>2
    <3> QED BY <3>1, <3>2
  <2>3. h = [n \in 0 .. k |-> h[n]]
    OBVIOUS
  <2> HIDE DEF h
  <2>4. Values(h, w, k)
    BY <2>2, <2>3, Zenon DEF Values
  <2> QED BY <2>4
<1> QED
  BY <1>3, <1>6

\* The value of a numeral is a number, however long it is.
LEMMA NumbersAreNatural ==
  ASSUME NEW S, NEW w \in Seq(S), IsNumber(w)
  PROVE  NumberOf(w) \in Nat
<1>1. Len(w) \in Nat
  OBVIOUS
<1>2. PICK g : Values(g, w, Len(w)) /\ NumberOf(w) = g[Len(w)]
  BY <1>1, ValuesExist, NumberOfIs
<1>3. \A n \in 1 .. Len(w) : Digit[w[n]] \in Nat
  BY ValuesAssumption DEF IsNumber
<1> DEFINE T == {k \in 0 .. Len(w) : g[k] \notin Nat}
<1>4. SUFFICES ASSUME T # {} PROVE FALSE
  BY <1>1, <1>2
<1>5. T \in SUBSET Nat
  OBVIOUS
<1>6. PICK k \in T : \A n \in T : k <= n
  <2> HIDE DEF T
  <2> QED BY <1>4, <1>5, Least
<1>7. g[k] = IF k = 0 THEN 0 ELSE 10 * g[k - 1] + Digit[w[k]]
  BY <1>2, <1>6, Zenon DEF Values
<1>8. k # 0
  BY <1>6, <1>7
<1>9. k - 1 \in 0 .. Len(w) /\ k - 1 \notin T /\ k \in 1 .. Len(w)
  BY <1>1, <1>6, <1>8
<1>10. g[k - 1] \in Nat
  BY <1>9
<1> QED
  BY <1>3, <1>6, <1>7, <1>8, <1>9, <1>10

-----------------------------------------------------------------------------
(* Words *)

\* The count behind a word is a number, and the word in front of it is one of
\* the same characters.
LEMMA FirstSplitSplits ==
  ASSUME NEW w \in Seq(Character), Splits(w) # {}
  PROVE  /\ FirstSplit(w) \in 2 .. Len(w)
         /\ IsNumber(SubSeq(w, FirstSplit(w) + 1, Len(w)))
<1>1. Splits(w) \in SUBSET Nat
  BY DEF Splits
<1>2. \E i \in Splits(w) : \A j \in Splits(w) : i <= j
  BY <1>1, Least
<1>3. FirstSplit(w) \in Splits(w)
  BY <1>2, Zenon DEF FirstSplit
<1>4. /\ FirstSplit(w) \in 1 .. Len(w) /\ 1 < FirstSplit(w)
      /\ IsNumber(SubSeq(w, FirstSplit(w) + 1, Len(w)))
  BY <1>3 DEF Splits, Split
<1> QED
  BY <1>4

LEMMA Parting ==
  ASSUME NEW w \in Seq(Character)
  PROVE  Body(w) \in Seq(Character) /\ Repeat(w) \in Nat
<1>1. CASE Splits(w) = {}
  BY <1>1 DEF Body, Repeat
<1>2. CASE Splits(w) # {}
  <2> DEFINE f == FirstSplit(w)
  <2>1. f \in 2 .. Len(w) /\ IsNumber(SubSeq(w, f + 1, Len(w))) /\ Len(w) \in Nat
    BY <1>2, FirstSplitSplits
  <2> HIDE DEF f
  <2>2. SubSeq(w, f + 1, Len(w)) \in Seq(Character) /\ SubSeq(w, 1, f - 1) \in Seq(Character)
    BY <2>1
  <2>3. NumberOf(SubSeq(w, f + 1, Len(w))) \in Nat
    BY <2>1, <2>2, NumbersAreNatural
  <2> QED
    BY <1>2, <2>2, <2>3 DEF Body, Repeat, f
<1> QED
  BY <1>1, <1>2

-----------------------------------------------------------------------------
(* Calls *)

\* What a bus can be asked to do, by name.
LEMMA BusFunctions ==
  ASSUME NEW b \in Buses
  PROVE  /\ Functions(b) \subseteq Ops
         /\ b # "none" => {"open", "close", "start", "stop", "write", "read", "command"} \subseteq Functions(b)
         /\ b = "none" => Functions(b) = {}
BY DEF Buses, Functions, Ops

\* A list of calls of one kind, as handle_command's loop makes it.
LEMMA RepeatedCalls ==
  ASSUME NEW m \in Nat, NEW n \in Nat, NEW op \in Ops
  PROVE  /\ Times(m, Call(op, n)) \in Seq(CallType)
         /\ \A i \in 1 .. Len(Times(m, Call(op, n))) : Times(m, Call(op, n))[i].op = op
<1>1. Call(op, n) \in CallType /\ Call(op, n).op = op
  BY DEF Call, CallType
<1>2. Times(m, Call(op, n)) = [i \in 1 .. m |-> Call(op, n)]
  BY DEF Times
<1> QED
  BY <1>1, <1>2

\* Lists whose calls are all of some set, and what is put together from them.
Uses(s, ops) == s \in Seq(CallType) /\ \A i \in 1 .. Len(s) : s[i].op \in ops

LEMMA OneCall ==
  ASSUME NEW op \in Ops, NEW ops, op \in ops
  PROVE  Uses(<<Call(op, 0)>>, ops)
<1>1. Call(op, 0) \in CallType /\ Call(op, 0).op = op
  BY DEF Call, CallType
<1> QED
  BY <1>1 DEF Uses

LEMMA NoCalls ==
  ASSUME NEW ops
  PROVE  Uses(<<>>, ops)
<1>1. <<>> \in Seq(CallType)
  BY EmptySeq
<1> QED
  BY <1>1 DEF Uses

LEMMA MoreCalls ==
  ASSUME NEW ops, NEW s, NEW t, Uses(s, ops), Uses(t, ops)
  PROVE  Uses(s \o t, ops)
<1>1. s \in Seq(CallType) /\ t \in Seq(CallType)
  BY DEF Uses
<1>2. /\ s \o t \in Seq(CallType) /\ Len(s \o t) = Len(s) + Len(t)
      /\ Len(s) \in Nat /\ Len(t) \in Nat
      /\ \A i \in 1 .. Len(s) + Len(t) :
           (s \o t)[i] = IF i <= Len(s) THEN s[i] ELSE t[i - Len(s)]
  BY <1>1
<1>3. ASSUME NEW i \in 1 .. Len(s \o t)
      PROVE  (s \o t)[i].op \in ops
  <2>1. CASE i <= Len(s)
    BY <1>2, <2>1 DEF Uses
  <2>2. CASE ~(i <= Len(s))
    <3>1. i - Len(s) \in 1 .. Len(t)
      BY <1>2, <2>2
    <3> QED
      BY <1>2, <2>2, <3>1 DEF Uses
  <2> QED
    BY <2>1, <2>2
<1> QED
  BY <1>2, <1>3 DEF Uses

\* A word calls functions of its bus alone, whatever it is.
LEMMA WordsCall ==
  ASSUME NEW w \in Seq(Character), bus \in Buses, duplex \in BOOLEAN
  PROVE  Uses(WordCalls(w), Allowed(bus))
<1>1. Body(w) \in Seq(Character) /\ Repeat(w) \in Nat
  BY Parting
<1>2. "BadCmd" \in Ops /\ "BadCmd" \in Allowed(bus)
  BY DEF Ops, Allowed
<1>3. Uses(BadCmd, Allowed(bus))
  BY <1>2, OneCall DEF BadCmd
<1>4. ASSUME NEW op \in Functions(bus), NEW n \in Nat
      PROVE  Uses(Times(Repeat(w), Call(op, n)), Allowed(bus))
  <2>1. op \in Ops /\ op \in Allowed(bus)
    BY BusFunctions DEF Allowed
  <2> QED
    BY <1>1, <2>1, RepeatedCalls DEF Uses
<1>5. Uses(BusCommand(w), Allowed(bus))
  <2>1. CASE bus = "none"
    BY <1>3, <2>1 DEF BusCommand
  <2>2. CASE bus # "none"
    <3>1. "command" \in Ops /\ "command" \in Allowed(bus)
      BY <2>2, BusFunctions DEF Ops, Allowed
    <3>2. Uses(<<Call("command", 0)>>, Allowed(bus))
      BY <3>1, OneCall
    <3>3. BusCommand(w) = <<Call("command", 0)>> \o <<>> \/ BusCommand(w) = <<Call("command", 0)>> \o BadCmd
      BY <2>2 DEF BusCommand
    <3>4. Uses(<<Call("command", 0)>> \o <<>>, Allowed(bus))
      BY <3>2, NoCalls, MoreCalls, Zenon
    <3>5. Uses(<<Call("command", 0)>> \o BadCmd, Allowed(bus))
      BY <1>3, <3>2, MoreCalls, Zenon
    <3> QED
      BY <3>3, <3>4, <3>5, Zenon
  <2> QED
    BY <2>1, <2>2
<1>6. CASE IsNumber(Body(w)) /\ Transfer(w) \in Functions(bus)
  <2>1. NumberOf(Body(w)) % 256 \in Nat
    BY <1>1, <1>6, NumbersAreNatural
  <2> QED
    BY <1>4, <1>6, <2>1 DEF WordCalls
<1>7. CASE ~IsNumber(Body(w)) /\ "read" \in Functions(bus) /\ Body(w) = <<"r">>
  BY <1>4, <1>7 DEF WordCalls
<1>8. CASE WordCalls(w) = BadCmd \/ WordCalls(w) = BusCommand(w)
  BY <1>3, <1>5, <1>8
<1> QED
  BY <1>6, <1>7, <1>8 DEF WordCalls

-----------------------------------------------------------------------------
(* Steps *)

LEMMA NothingFits == Len(<<>>) <= MaxLine
<1>1. Len(<<>>) = 0
  OBVIOUS
<1> QED
  BY <1>1, MaxLineAssumption

\* Nothing called yet is nothing wrong.
LEMMA NothingCalled ==
  ASSUME NEW b
  PROVE  \A i \in 1 .. Len(<<>>) : <<>>[i].op = b
<1>1. 1 .. Len(<<>>) = {}
  OBVIOUS
<1> QED
  BY <1>1

LEMMA InitIInv == Init => IInv
<1> SUFFICES ASSUME Init
             PROVE  IInv
  OBVIOUS
<1>1. /\ bus = "none" /\ duplex = FALSE /\ scan = "idle" /\ word = <<>>
      /\ firstToken = TRUE /\ ahead = "" /\ calls = <<>> /\ line = <<>>
      /\ wasDuplex = FALSE /\ wasBus = "none"
  BY DEF Init
<1>2. word \in Seq(Character) /\ line \in Seq(Alphabet) /\ calls \in Seq(CallType)
  BY <1>1, EmptySeq
<1>3. Len(line) <= MaxLine
  BY <1>1, NothingFits, Zenon
<1>4. TypeOK
  BY <1>1, <1>2, <1>3 DEF TypeOK, Character, CallType, Buses, Scans
<1>5. Undone
  BY <1>1 DEF Undone
<1>6. NoNullCall
  BY <1>1, NothingCalled, Zenon DEF NoNullCall
<1> QED
  BY <1>4, <1>5, <1>6 DEF IInv

\* Reading a character makes the line longer by it, or looks at one again.
LEMMA ReadTypes ==
  ASSUME TypeOK, NEW c \in Alphabet, Read(c)
  PROVE  line' \in Seq(Alphabet) /\ Len(line') <= MaxLine
<1>1. CASE ahead = ""
  <2>1. Len(line) < MaxLine /\ line' = Append(line, c)
    BY <1>1 DEF Read
  <2>2. line \in Seq(Alphabet) /\ Len(line) \in Nat
    <3>1. line \in Seq(Alphabet)
      BY DEF TypeOK
    <3> QED
      BY <3>1
  <2>3. line' \in Seq(Alphabet) /\ Len(line') = Len(line) + 1
    BY <2>1, <2>2
  <2> QED
    BY <2>1, <2>2, <2>3, MaxLineAssumption
<1>2. CASE ahead # ""
  <2>1. line' = line
    BY <1>2 DEF Read
  <2> QED
    BY <2>1 DEF TypeOK
<1> QED
  BY <1>1, <1>2


\* A line gets longer by calls that the bus allows.
LEMMA CallsGrow ==
  ASSUME IInv, scan # "idle", NEW s, Uses(s, Allowed(bus)), calls' = calls \o s,
         UNCHANGED <<bus, wasBus>>
  PROVE  calls' \in Seq(CallType) /\ NoNullCall'
<1>1. calls \in Seq(CallType) /\ s \in Seq(CallType)
  BY DEF IInv, TypeOK, CallType, Uses
<1>2. /\ calls' \in Seq(CallType) /\ Len(calls') = Len(calls) + Len(s)
      /\ Len(calls) \in Nat /\ Len(s) \in Nat
      /\ \A i \in 1 .. Len(calls) + Len(s) :
           calls'[i] = IF i <= Len(calls) THEN calls[i] ELSE s[i - Len(calls)]
  BY <1>1
<1>3. ASSUME NEW i \in 1 .. Len(calls')
      PROVE  \/ calls'[i].op = "BadCmd"
             \/ calls'[i].op \in Functions(bus)
             \/ calls'[i].op = "close" /\ calls'[i].op \in Functions(wasBus)
  <2>1. CASE i <= Len(calls)
    BY <1>2, <2>1 DEF IInv, NoNullCall
  <2>2. CASE ~(i <= Len(calls))
    <3>1. i - Len(calls) \in 1 .. Len(s)
      BY <1>2, <2>2
    <3>2. calls'[i].op \in Allowed(bus)
      BY <1>2, <2>2, <3>1 DEF Uses
    <3> QED
      BY <3>2 DEF Allowed
  <2> QED
    BY <2>1, <2>2
<1>4. NoNullCall'
  BY <1>3 DEF NoNullCall
<1> QED
  BY <1>2, <1>4

LEMMA BeginKeeps == IInv /\ Begin => IInv'
<1> SUFFICES ASSUME IInv, Begin
             PROVE  IInv'
  OBVIOUS
<1>1. /\ scan' = "searching" /\ word' = <<>> /\ firstToken' = TRUE /\ ahead' = ""
      /\ calls' = <<>> /\ line' = <<>> /\ wasDuplex' = duplex /\ wasBus' = bus
      /\ UNCHANGED <<bus, duplex>>
  BY DEF Begin
<1>2. word' \in Seq(Character) /\ line' \in Seq(Alphabet) /\ calls' \in Seq(CallType)
  BY <1>1, EmptySeq
<1>3. Len(line') <= MaxLine
  BY <1>1, NothingFits, Zenon
<1>4. TypeOK'
  BY <1>1, <1>2, <1>3 DEF IInv, TypeOK, Character, CallType, Scans
<1>5. Undone'
  BY <1>1 DEF Undone
<1>6. NoNullCall'
  BY <1>1, NothingCalled, Zenon DEF NoNullCall
<1> QED
  BY <1>4, <1>5, <1>6 DEF IInv

\* The scanner between words: a bracket may call the bus.
LEMMA SearchingKeeps == IInv /\ Searching => IInv'
<1> SUFFICES ASSUME IInv, Searching
             PROVE  IInv'
  OBVIOUS
<1>1. scan = "searching" /\ ahead' = "" /\ UNCHANGED <<wasDuplex, wasBus>>
  BY DEF Searching
<1>2. /\ bus \in Buses /\ wasBus \in Buses /\ duplex \in BOOLEAN /\ wasDuplex \in BOOLEAN
      /\ word \in Seq(Character) /\ calls \in Seq(CallType) /\ firstToken \in BOOLEAN
      /\ bus = wasBus
  BY <1>1 DEF IInv, TypeOK, Undone, Character, CallType
<1>3. CASE SkipBlank \/ Comment
  <2>1. /\ scan' \in {"searching", "idle"} /\ UNCHANGED <<bus, duplex, word, firstToken, calls>>
        /\ Read(" ") \/ Read("#")
    BY <1>1, <1>3 DEF SkipBlank, Comment
  <2>2. line' \in Seq(Alphabet) /\ Len(line') <= MaxLine
    BY <2>1, ReadTypes, AlphabetAssumption DEF IInv
  <2>3. TypeOK'
    BY <1>1, <1>2, <2>1, <2>2 DEF TypeOK, Character, CallType, Scans
  <2>4. Undone' /\ NoNullCall'
    BY <1>1, <2>1 DEF IInv, Undone, NoNullCall
  <2> QED
    BY <2>3, <2>4 DEF IInv
<1>4. ASSUME NEW c \in Alphabet, OpenBracket(c) \/ CloseBracket(c)
      PROVE  IInv'
  <2>1. PICK op \in {"start", "stop"} :
          calls' = IF op \in Functions(bus) THEN Append(calls, Call(op, 0)) ELSE calls
    BY <1>4 DEF OpenBracket, CloseBracket
  <2>2. /\ Read(c) /\ firstToken' = FALSE /\ UNCHANGED <<bus, scan, word>>
        /\ duplex' \in BOOLEAN
    BY <1>2, <1>4 DEF OpenBracket, CloseBracket
  <2>3. calls' \in Seq(CallType) /\ NoNullCall'
    <3>1. CASE op \in Functions(bus)
      <4>1. op \in Ops /\ op \in Allowed(bus)
        BY <3>1 DEF Ops, Allowed
      <4>2. Uses(<<Call(op, 0)>>, Allowed(bus))
        BY <4>1, OneCall
      <4>3. calls' = calls \o <<Call(op, 0)>>
        BY <1>2, <2>1, <3>1
      <4>4. scan # "idle"
        BY <1>1
      <4> QED
        BY <1>1, <2>2, <4>2, <4>3, <4>4, CallsGrow
    <3>2. CASE op \notin Functions(bus)
      <4>1. calls' = calls
        BY <2>1, <3>2
      <4> QED
        BY <1>1, <1>2, <2>2, <4>1 DEF IInv, NoNullCall
    <3> QED
      BY <3>1, <3>2
  <2>4. line' \in Seq(Alphabet) /\ Len(line') <= MaxLine
    BY <2>2, ReadTypes DEF IInv
  <2>5. TypeOK'
    BY <1>1, <1>2, <2>2, <2>3, <2>4 DEF TypeOK, Character, CallType, Scans
  <2>6. Undone'
    BY <1>1, <1>2, <2>2 DEF Undone
  <2> QED
    BY <2>3, <2>5, <2>6 DEF IInv
<1>5. ASSUME NEW c \in Alphabet, BeginToken(c)
      PROVE  IInv'
  <2>1. /\ c \in Character /\ Read(c) /\ scan' = "inToken" /\ word' = <<c>>
        /\ UNCHANGED <<bus, duplex, firstToken, calls>>
    BY <1>5 DEF BeginToken, Character
  <2>2. line' \in Seq(Alphabet) /\ Len(line') <= MaxLine
    BY <2>1, ReadTypes DEF IInv
  <2>3. word' \in Seq(Character) /\ word' # <<>>
    BY <2>1
  <2>4. TypeOK'
    BY <1>1, <1>2, <2>1, <2>2, <2>3 DEF TypeOK, Character, CallType, Scans
  <2>5. Undone' /\ NoNullCall'
    BY <1>1, <2>1 DEF IInv, Undone, NoNullCall
  <2> QED
    BY <2>4, <2>5 DEF IInv
<1> QED
  BY <1>3, <1>4, <1>5 DEF Searching

LEMMA InTokenKeeps ==
  ASSUME IInv, NEW c \in Alphabet, InToken(c)
  PROVE  IInv'
<1>1. /\ c \in Character /\ Read(c) /\ word' = Append(word, c)
      /\ UNCHANGED <<bus, duplex, scan, firstToken, ahead, calls, wasDuplex, wasBus>>
  BY DEF InToken, Character
<1>2. line' \in Seq(Alphabet) /\ Len(line') <= MaxLine
  BY <1>1, ReadTypes DEF IInv
<1>3. word \in Seq(Character)
  BY DEF IInv, TypeOK, Character
<1>4. word' \in Seq(Character) /\ word' # <<>>
  BY <1>1, <1>3
<1>5. TypeOK'
  BY <1>1, <1>2, <1>4 DEF IInv, TypeOK, Character
<1>6. Undone' /\ NoNullCall'
  BY <1>1 DEF IInv, Undone, NoNullCall
<1> QED
  BY <1>5, <1>6 DEF IInv

\* bus_init calls close of the bus that is left and open of the one entered; the
\* line has called nothing before.
LEMMA SwitchCalls ==
  ASSUME NEW b \in {"spi", "i2c"}, bus \in Buses, calls = <<>>, bus = wasBus,
         UNCHANGED wasBus, Switch(b)
  PROVE  calls' \in Seq(CallType) /\ bus' \in Buses /\ NoNullCall'
<1>1. bus' = b /\ b \in Buses /\ b # "none"
  BY DEF Switch, Buses
<1>2. "open" \in Functions(b) /\ "open" \in Ops /\ "close" \in Ops
  BY <1>1, BusFunctions DEF Ops
<1> DEFINE opening == <<Call("open", 0)>>
           closing == <<Call("close", 0)>>
<1>3. CASE bus = "none"
  <2>1. calls' = opening
    <3>1. calls' = (<<>> \o <<>>) \o opening
      BY <1>3 DEF Switch
    <3> QED
      BY <3>1
  <2>2. Uses(opening, Allowed(b))
    BY <1>2, OneCall DEF Allowed
  <2>3. calls' \in Seq(CallType) /\ \A i \in 1 .. Len(calls') : calls'[i].op \in Allowed(b)
    BY <2>1, <2>2 DEF Uses
  <2> QED
    BY <1>1, <2>3 DEF NoNullCall, Allowed
<1>4. CASE bus # "none"
  <2> DEFINE ops == {"close", "open"}
  <2>1. calls' = (<<>> \o closing) \o opening
    BY <1>4 DEF Switch
  <2>2. "close" \in Functions(wasBus)
    BY <1>4, BusFunctions
  <2>3. Uses(closing, ops) /\ Uses(opening, ops) /\ Uses(<<>>, ops)
    BY <1>2, OneCall, NoCalls
  <2> HIDE DEF closing, opening, ops
  <2>4. Uses(calls', ops)
    BY <2>1, <2>3, MoreCalls, Zenon
  <2>5. calls' \in Seq(CallType)
    BY <2>4, Zenon DEF Uses
  <2>6. \A i \in 1 .. Len(calls') : calls'[i].op = "open" \/ calls'[i].op = "close"
    BY <2>4 DEF Uses, ops
  <2>7. NoNullCall'
    BY <1>1, <1>2, <2>2, <2>6 DEF NoNullCall
  <2> QED
    BY <1>1, <2>5, <2>7
<1> QED
  BY <1>3, <1>4

\* A word enters a bus, or calls the one that there is.
LEMMA HandleCommandKeeps ==
  ASSUME IInv, scan = "inToken", NEW next \in {"searching", "idle"}, HandleCommand(next),
         line' \in Seq(Alphabet), Len(line') <= MaxLine, ahead' \in Separators \cup {""}
  PROVE  IInv'
<1>1. /\ firstToken' = FALSE /\ word' = <<>> /\ UNCHANGED <<duplex, wasDuplex, wasBus>>
  BY DEF HandleCommand
<1>2. /\ bus \in Buses /\ wasBus \in Buses /\ duplex \in BOOLEAN /\ wasDuplex \in BOOLEAN
      /\ word \in Seq(Character) /\ calls \in Seq(CallType) /\ bus = wasBus
      /\ firstToken => calls = <<>>
  BY DEF IInv, TypeOK, Undone, Character, CallType
<1>3. word' \in Seq(Character)
  BY <1>1, EmptySeq
<1>4. ASSUME bus' \in Buses, calls' \in Seq(CallType), NoNullCall', scan' \in {"searching", "idle"},
             scan' = "searching" => bus' = bus
      PROVE  IInv'
  <2>1. TypeOK'
    BY <1>1, <1>2, <1>3, <1>4 DEF TypeOK, Character, CallType, Scans
  <2>2. Undone'
    BY <1>1, <1>2, <1>4 DEF Undone
  <2> QED
    BY <1>4, <2>1, <2>2 DEF IInv
<1>5. CASE IsGlobal(word) /\ Switch(BusOf[Body(word)[1]]) /\ scan' = "idle"
  <2>1. firstToken /\ Body(word)[1] \in Names
    BY <1>5 DEF IsGlobal
  <2>2. BusOf[Body(word)[1]] \in {"spi", "i2c"}
    BY <2>1, ValuesAssumption
  <2>3. calls' \in Seq(CallType) /\ bus' \in Buses /\ NoNullCall'
    BY <1>1, <1>2, <1>5, <2>1, <2>2, SwitchCalls
  <2> QED
    BY <1>4, <1>5, <2>3
<1>6. CASE calls' = calls \o WordCalls(word) /\ scan' = next /\ UNCHANGED bus
  <2>1. Uses(WordCalls(word), Allowed(bus))
    BY <1>2, WordsCall
  <2>2. calls' \in Seq(CallType) /\ NoNullCall'
    <3>1. scan # "idle" /\ UNCHANGED <<bus, wasBus>>
      BY <1>1, <1>6
    <3>2. PICK s : s = WordCalls(word)
      OBVIOUS
    <3> QED
      BY <1>6, <2>1, <3>1, <3>2, CallsGrow
  <2> QED
    BY <1>2, <1>4, <1>6, <2>2
<1> QED
  BY <1>5, <1>6 DEF HandleCommand

LEMMA EndTokenKeeps ==
  ASSUME IInv, NEW c \in Alphabet, EndToken(c)
  PROVE  IInv'
<1>1. /\ scan = "inToken" /\ c \in Separators /\ Read(c) /\ ahead' = c
      /\ HandleCommand("searching")
  BY DEF EndToken
<1>2. line' \in Seq(Alphabet) /\ Len(line') <= MaxLine
  BY <1>1, ReadTypes DEF IInv
<1> QED
  BY <1>1, <1>2, HandleCommandKeeps

LEMMA EndOfLineKeeps == IInv /\ EndOfLine => IInv'
<1> SUFFICES ASSUME IInv, EndOfLine
             PROVE  IInv'
  OBVIOUS
<1>1. ahead = "" /\ UNCHANGED <<ahead, line>>
  BY DEF EndOfLine
<1>2. CASE scan = "searching" /\ scan' = "idle"
             /\ UNCHANGED <<bus, duplex, word, firstToken, calls, wasDuplex, wasBus>>
  <2>1. TypeOK'
    BY <1>1, <1>2 DEF IInv, TypeOK, Scans
  <2>2. Undone' /\ NoNullCall'
    BY <1>2 DEF IInv, Undone, NoNullCall
  <2> QED
    BY <2>1, <2>2 DEF IInv
<1>3. CASE scan = "inToken" /\ HandleCommand("idle")
  <2>1. line' \in Seq(Alphabet) /\ Len(line') <= MaxLine /\ ahead' \in Separators \cup {""}
    BY <1>1 DEF IInv, TypeOK
  <2> QED
    BY <1>3, <2>1, HandleCommandKeeps
<1> QED
  BY <1>2, <1>3 DEF EndOfLine

LEMMA NextKeeps == IInv /\ [Next]_vars => IInv'
<1> SUFFICES ASSUME IInv, [Next]_vars
             PROVE  IInv'
  OBVIOUS
<1>1. CASE Begin \/ Searching \/ EndOfLine
  BY <1>1, BeginKeeps, SearchingKeeps, EndOfLineKeeps
<1>2. CASE \E c \in Alphabet : InToken(c) \/ EndToken(c)
  BY <1>2, InTokenKeeps, EndTokenKeeps
<1>3. CASE UNCHANGED vars
  BY <1>3 DEF vars, IInv, TypeOK, Undone, NoNullCall
<1> QED
  BY <1>1, <1>2, <1>3 DEF Next

LEMMA InvariantHolds == Spec => []IInv
<1>1. Init => IInv
  BY InitIInv
<1>2. IInv /\ [Next]_vars => IInv'
  BY NextKeeps
<1> QED
  BY <1>1, <1>2, PTL DEF Spec

\* Types, for lines of every length: handle_command (commands.c:51) never gets
\* an empty word, which parse_number would take for 0, and every count and value
\* that it finds is a number.
THEOREM CommandTypes == Spec => []TypeOK
<1>1. IInv => TypeOK
  BY DEF IInv
<1> QED
  BY <1>1, InvariantHolds, PTL

\* No null pointer is called (commands.c:78-116, bus.c:11-20): bus_i2c has no
\* xact and no bus is there at first, whatever was typed before.
THEOREM NoNullIsCalled == Spec => []NoNullCall
<1>1. IInv => NoNullCall
  BY DEF IInv
<1> QED
  BY <1>1, InvariantHolds, PTL

-----------------------------------------------------------------------------
(* What a line means, item by item *)

\* What the item that ends at j means, if there is one.
ItemAt(s, j, b, before) == ItemMeaning(s, CHOOSE i \in Beginnings(s, j) : TRUE, j, b, before)

\* The meanings of the first parts of s, up to the one of m characters.
Meanings(g, s, b, before, m) ==
  g = [j \in 0 .. m |->
         IF j = 0 THEN <<>>
         ELSE IF Beginnings(s, j) = {} THEN g[j - 1]
         ELSE g[j - 1] \o ItemAt(s, j, b, before)]

LEMMA MeaningIs ==
  ASSUME NEW s, NEW b, NEW before
  PROVE  Meaning(s, b, before) = (CHOOSE g : Meanings(g, s, b, before, Len(s)))[Len(s)]
BY DEF Meaning, Meanings, ItemAt

LEMMA MeaningsExist ==
  ASSUME NEW s, NEW b, NEW before, NEW m \in Nat
  PROVE  \E g : Meanings(g, s, b, before, m)
<1> DEFINE T == {k \in Nat : ~ \E g : Meanings(g, s, b, before, k)}
<1>1. SUFFICES ASSUME T # {} PROVE FALSE
  OBVIOUS
<1>2. T \in SUBSET Nat
  OBVIOUS
<1>3. PICK k \in T : \A n \in T : k <= n
  <2> HIDE DEF T
  <2> QED BY <1>1, <1>2, Least
<1>4. k # 0
  <2> DEFINE g == [j \in 0 .. 0 |-> <<>>]
  <2>1. Meanings(g, s, b, before, 0)
    BY DEF Meanings
  <2> QED BY <2>1
<1>5. PICK g : Meanings(g, s, b, before, k - 1)
  <2>1. k - 1 \in Nat /\ k - 1 \notin T
    BY <1>3, <1>4
  <2> QED BY <2>1
<1>6. \E h : Meanings(h, s, b, before, k)
  <2> DEFINE last == IF Beginnings(s, k) = {} THEN g[k - 1] ELSE g[k - 1] \o ItemAt(s, k, b, before)
             h == [j \in 0 .. k |-> IF j = k THEN last ELSE g[j]]
  <2>1. \A j \in 0 .. k - 1 : h[j] = g[j]
    BY <1>3
  <2>2. ASSUME NEW j \in 0 .. k
        PROVE  h[j] = IF j = 0 THEN <<>>
                      ELSE IF Beginnings(s, j) = {} THEN h[j - 1]
                      ELSE h[j - 1] \o ItemAt(s, j, b, before)
    <3>1. CASE j = k
      <4>1. h[j - 1] = g[j - 1] /\ h[j] = last /\ j # 0
        BY <3>1, <1>4, <2>1
      <4> QED
        BY <3>1, <4>1
    <3>2. CASE j # k
      <4>1. j \in 0 .. k - 1 /\ (j # 0 => j - 1 \in 0 .. k - 1)
        BY <3>2
      <4>2. g[j] = IF j = 0 THEN <<>>
                   ELSE IF Beginnings(s, j) = {} THEN g[j - 1]
                   ELSE g[j - 1] \o ItemAt(s, j, b, before)
        BY <1>5, <4>1, Zenon DEF Meanings
      <4> HIDE DEF h
      <4> QED
        BY <2>1, <4>1, <4>2
    <3> QED BY <3>1, <3>2
  <2>3. h = [j \in 0 .. k |-> h[j]]
    OBVIOUS
  <2> HIDE DEF h
  <2>4. Meanings(h, s, b, before, k)
    BY <2>2, <2>3, Zenon DEF Meanings
  <2> QED BY <2>4
<1> QED
  BY <1>3, <1>6

\* The same item, if one, ends at j in both lines.
SameAt(s, t, j, b, before) ==
  /\ Beginnings(t, j) = Beginnings(s, j)
  /\ Beginnings(s, j) # {} => ItemAt(t, j, b, before) = ItemAt(s, j, b, before)

\* A line that goes on after s with one item at most, at its end.
OneItemMore(s, t, b, before) ==
  /\ Len(s) \in Nat /\ Len(t) \in Nat /\ Len(s) < Len(t)
  /\ \A j \in 1 .. Len(s) : SameAt(s, t, j, b, before)
  /\ \A j \in Len(s) + 1 .. Len(t) - 1 : Beginnings(t, j) = {}

OneItemMeans(s, t, b, before) ==
  Meaning(t, b, before) =
    IF Beginnings(t, Len(t)) = {} THEN Meaning(s, b, before)
    ELSE Meaning(s, b, before) \o ItemAt(t, Len(t), b, before)

LEMMA ItemsEnd ==
  ASSUME NEW s, NEW t, NEW b, NEW before, OneItemMore(s, t, b, before)
  PROVE  OneItemMeans(s, t, b, before)
<1>0. /\ Len(s) \in Nat /\ Len(t) \in Nat /\ Len(s) < Len(t)
      /\ \A j \in 1 .. Len(s) : SameAt(s, t, j, b, before)
      /\ \A j \in Len(s) + 1 .. Len(t) - 1 : Beginnings(t, j) = {}
  BY Zenon DEF OneItemMore
<1>1. PICK n \in Nat, m \in Nat : n = Len(s) /\ m = Len(t)
  BY <1>0
<1>2. n < m
  BY <1>0, <1>1
<1>3. PICK g : Meanings(g, s, b, before, n) /\ Meaning(s, b, before) = g[n]
  BY <1>1, MeaningIs, MeaningsExist
<1>4. PICK h : Meanings(h, t, b, before, m) /\ Meaning(t, b, before) = h[m]
  BY <1>1, MeaningIs, MeaningsExist
<1>5. ASSUME NEW j \in 0 .. n
      PROVE  g[j] = IF j = 0 THEN <<>>
                    ELSE IF Beginnings(s, j) = {} THEN g[j - 1]
                    ELSE g[j - 1] \o ItemAt(s, j, b, before)
  BY <1>3, Zenon DEF Meanings
<1>6. ASSUME NEW j \in 0 .. m
      PROVE  h[j] = IF j = 0 THEN <<>>
                    ELSE IF Beginnings(t, j) = {} THEN h[j - 1]
                    ELSE h[j - 1] \o ItemAt(t, j, b, before)
  BY <1>4, Zenon DEF Meanings
<1>7. \A j \in 0 .. n : h[j] = g[j]
  <2> DEFINE T == {k \in 0 .. n : h[k] # g[k]}
  <2>1. SUFFICES ASSUME T # {} PROVE FALSE
    OBVIOUS
  <2>2. T \in SUBSET Nat
    OBVIOUS
  <2>3. PICK k \in T : \A i \in T : k <= i
    <3> HIDE DEF T
    <3> QED BY <2>1, <2>2, Least
  <2>4. k \in 0 .. n /\ k \in 0 .. m /\ h[k] # g[k]
    BY <1>2, <2>3
  <2>5. k # 0
    BY <1>5, <1>6, <2>4, Zenon
  <2>6. k \in 1 .. n /\ k - 1 \in 0 .. n /\ k - 1 \notin T
    BY <2>3, <2>4, <2>5
  <2>7. h[k - 1] = g[k - 1]
    BY <2>6
  <2>8. SameAt(s, t, k, b, before)
    BY <1>0, <1>1, <2>6, Zenon
  <2> QED
    BY <1>5, <1>6, <2>4, <2>5, <2>7, <2>8, Zenon DEF SameAt
<1>8. \A j \in n .. m - 1 : h[j] = g[n]
  <2> DEFINE T == {k \in n .. m - 1 : h[k] # g[n]}
  <2>1. SUFFICES ASSUME T # {} PROVE FALSE
    OBVIOUS
  <2>2. T \in SUBSET Nat
    OBVIOUS
  <2>3. PICK k \in T : \A i \in T : k <= i
    <3> HIDE DEF T
    <3> QED BY <2>1, <2>2, Least
  <2>4. k \in n .. m - 1 /\ k \in 0 .. m /\ h[k] # g[n]
    BY <2>3
  <2>5. k # n
    <3>1. n \in 0 .. n
      OBVIOUS
    <3> QED
      BY <1>7, <2>4, <3>1, Zenon
  <2>6. k \in n + 1 .. m - 1 /\ k # 0 /\ k - 1 \in n .. m - 1 /\ k - 1 \notin T
    BY <2>3, <2>4, <2>5
  <2>7. h[k - 1] = g[n]
    BY <2>6
  <2>8. Beginnings(t, k) = {}
    BY <1>0, <1>1, <2>6, Zenon
  <2> QED
    BY <1>6, <2>4, <2>6, <2>7, <2>8, Zenon
<1>9. m \in 0 .. m /\ m # 0 /\ m - 1 \in n .. m - 1
  BY <1>2
<1>10. h[m] = IF Beginnings(t, m) = {} THEN g[n] ELSE g[n] \o ItemAt(t, m, b, before)
  BY <1>6, <1>8, <1>9, Zenon
<1> QED
  BY <1>1, <1>3, <1>4, <1>10, Zenon DEF OneItemMeans

-----------------------------------------------------------------------------
(* A line and its continuation *)

\* t begins with s, and no word runs from s into the rest of t.
GoesOn(s, t) ==
  /\ Len(s) \in Nat /\ Len(t) \in Nat /\ Len(s) <= Len(t)
  /\ \A k \in 1 .. Len(s) : t[k] = s[k]
  /\ \/ Len(s) = 0 \/ Len(t) = Len(s)
     \/ t[Len(s) + 1] \in Separators \/ s[Len(s)] \in Separators

LEMMA SameItems ==
  ASSUME NEW s, NEW t, GoesOn(s, t), NEW j \in 1 .. Len(s), NEW i \in 1 .. j
  PROVE  IsItem(t, i, j) <=> IsItem(s, i, j)
<1>1. Len(s) \in Nat /\ Len(t) \in Nat /\ Len(s) <= Len(t)
  BY DEF GoesOn
<1>2. \A k \in 1 .. Len(s) : t[k] = s[k]
  BY DEF GoesOn
<1>3. i \in 1 .. Len(s) /\ j \in i .. j /\ \A k \in i .. j : k \in 1 .. Len(s)
  BY <1>1
<1>4. t[i] = s[i] /\ t[j] = s[j] /\ \A k \in i .. j : t[k] = s[k]
  BY <1>2, <1>3
<1>5. i # 1 => t[i - 1] = s[i - 1]
  BY <1>1, <1>2
<1>6. (i = j /\ t[i] \in Brackets) <=> (i = j /\ s[i] \in Brackets)
  BY <1>4
<1>7. (i = 1 \/ t[i - 1] \in Separators) <=> (i = 1 \/ s[i - 1] \in Separators)
  BY <1>5
<1>8. s[j] \notin Separators =>
        ((j = Len(t) \/ t[j + 1] \in Separators) <=> (j = Len(s) \/ s[j + 1] \in Separators))
  <2>1. CASE j = Len(s)
    BY <1>1, <2>1 DEF GoesOn
  <2>2. CASE j # Len(s)
    <3>1. j + 1 \in 1 .. Len(s) /\ j # Len(t)
      BY <1>1, <2>2
    <3> QED
      BY <1>2, <2>2, <3>1
  <2> QED
    BY <2>1, <2>2
<1> QED
  BY <1>3, <1>4, <1>6, <1>7, <1>8, Zenon DEF IsItem

LEMMA SameBeginnings ==
  ASSUME NEW s, NEW t, GoesOn(s, t), NEW j \in 1 .. Len(s)
  PROVE  Beginnings(t, j) = Beginnings(s, j)
BY SameItems, Zenon DEF Beginnings

\* A set of positions that is not empty has a last one.
LEMMA Greatest ==
  ASSUME NEW n \in Nat, NEW D \in SUBSET (1 .. n), D # {}
  PROVE  \E m \in D : \A k \in D : k <= m
<1> DEFINE T == {k \in Nat : n - k \in D}
<1>1. PICK d \in D : TRUE
  OBVIOUS
<1>2. d \in 1 .. n /\ n - d \in Nat /\ n - (n - d) = d
  OBVIOUS
<1>3. T \in SUBSET Nat /\ T # {}
  BY <1>1, <1>2
<1>4. PICK j \in T : \A k \in T : j <= k
  <2> HIDE DEF T
  <2> QED BY <1>3, Least
<1>5. ASSUME NEW k \in D PROVE k <= n - j
  <2>1. k \in 1 .. n /\ n - k \in Nat /\ n - (n - k) = k
    OBVIOUS
  <2>2. n - k \in T
    BY <2>1
  <2>3. j <= n - k /\ j \in Nat
    BY <1>4, <2>2
  <2> QED
    BY <2>1, <2>3
<1>6. n - j \in D
  BY <1>4
<1> QED
  BY <1>5, <1>6

Decides(c) == c \in {"{", "]", "}"}
Deciding(s, i) == {k \in 1 .. i - 1 : Decides(s[k])}
LastOf(D) == CHOOSE k \in D : \A j \in D : j <= k

LEMMA DuplexIs ==
  ASSUME NEW s, NEW i, NEW before
  PROVE  DuplexAt(s, i, before) =
           IF Deciding(s, i) = {} THEN before ELSE s[LastOf(Deciding(s, i))] = "{"
BY DEF DuplexAt, Decides, Deciding, LastOf

LEMMA LastIsIn ==
  ASSUME NEW s, NEW i \in Nat \ {0}, Deciding(s, i) # {}
  PROVE  LastOf(Deciding(s, i)) \in Deciding(s, i)
<1>1. i - 1 \in Nat
  OBVIOUS
<1>3. Deciding(s, i) \in SUBSET (1 .. i - 1)
  BY Zenon DEF Deciding
<1>2. \E m \in Deciding(s, i) : \A k \in Deciding(s, i) : k <= m
  BY <1>1, <1>3, Greatest
<1> QED
  BY <1>2, Zenon DEF LastOf

LEMMA SameDuplex ==
  ASSUME NEW s, NEW t, NEW before, GoesOn(s, t), NEW i \in 1 .. Len(s) + 1
  PROVE  DuplexAt(t, i, before) = DuplexAt(s, i, before)
<1>1. Len(s) \in Nat /\ \A k \in 1 .. Len(s) : t[k] = s[k]
  BY DEF GoesOn
<1>2. \A k \in 1 .. i - 1 : t[k] = s[k]
  BY <1>1
<1>3. Deciding(t, i) = Deciding(s, i)
  BY <1>2 DEF Deciding
<1>4. CASE Deciding(s, i) = {}
  BY <1>3, <1>4, DuplexIs, Zenon
<1>5. CASE Deciding(s, i) # {}
  <2>1. i \in Nat \ {0}
    BY <1>1
  <2>2. LastOf(Deciding(s, i)) \in 1 .. i - 1
    BY <1>5, <2>1, LastIsIn DEF Deciding
  <2>3. t[LastOf(Deciding(s, i))] = s[LastOf(Deciding(s, i))]
    BY <1>2, <2>2
  <2> QED
    BY <1>3, <1>5, <2>3, DuplexIs, Zenon
<1> QED
  BY <1>4, <1>5

\* What the character at n does to the duplex flag.
LEMMA DuplexNext ==
  ASSUME NEW s, NEW before, NEW n \in Nat \ {0}
  PROVE  DuplexAt(s, n + 1, before) =
           IF Decides(s[n]) THEN s[n] = "{" ELSE DuplexAt(s, n, before)
<1>1. CASE Decides(s[n])
  <2>4. (n + 1) - 1 = n /\ n \in 1 .. n
    OBVIOUS
  <2>5. Deciding(s, n + 1) = {k \in 1 .. n : Decides(s[k])}
    BY <2>4, Zenon DEF Deciding
  <2>1. n \in Deciding(s, n + 1) /\ \A k \in Deciding(s, n + 1) : k \in 1 .. n
    BY <1>1, <2>4, <2>5, Zenon
  <2>2. LastOf(Deciding(s, n + 1)) = n
    <3> DEFINE D == Deciding(s, n + 1)
    <3>1. \A k \in D : k <= n /\ k \in Int
      BY <2>1
    <3>2. ASSUME NEW k \in D, \A j \in D : j <= k
          PROVE  k = n
      <4>1. n <= k /\ k <= n /\ k \in Int
        BY <2>1, <3>1, <3>2
      <4> QED
        BY <4>1
    <3> HIDE DEF D
    <3>3. n \in D
      BY <2>1 DEF D
    <3>4. LastOf(D) = n
      BY <3>1, <3>2, <3>3 DEF LastOf
    <3> QED
      BY <3>4 DEF D
  <2>3. Deciding(s, n + 1) # {}
    BY <2>1
  <2> QED
    BY <1>1, <2>2, <2>3, DuplexIs, Zenon
<1>2. CASE ~Decides(s[n])
  <2>2. (n + 1) - 1 = n /\ \A k \in 1 .. n : k = n \/ k \in 1 .. n - 1
    OBVIOUS
  <2>3. \A k \in 1 .. n - 1 : k \in 1 .. n
    OBVIOUS
  <2>1. Deciding(s, n + 1) = Deciding(s, n)
    BY <1>2, <2>2, <2>3, Zenon DEF Deciding
  <2> QED
    BY <1>2, <2>1, DuplexIs, Zenon
<1> QED
  BY <1>1, <1>2

LEMMA DuplexFirst ==
  ASSUME NEW s, NEW before
  PROVE  DuplexAt(s, 1, before) = before
<1>1. Deciding(s, 1) = {}
  BY DEF Deciding
<1> QED
  BY <1>1, DuplexIs, Zenon

\* The same text twice.
LEMMA SameText ==
  ASSUME NEW S, NEW s \in Seq(S), NEW t \in Seq(S), GoesOn(s, t),
         NEW j \in 1 .. Len(s), NEW i \in 1 .. j
  PROVE  SubSeq(t, i, j) = SubSeq(s, i, j)
<1>1. Len(s) \in Nat /\ Len(t) \in Nat /\ Len(s) <= Len(t) /\ \A k \in 1 .. Len(s) : t[k] = s[k]
  BY DEF GoesOn
<1>2. \A k \in 1 .. j - i + 1 : t[i + k - 1] = s[i + k - 1]
  BY <1>1
<1>3. SubSeq(t, i, j) = [k \in 1 .. j - i + 1 |-> t[i + k - 1]]
  BY <1>1
<1>4. SubSeq(s, i, j) = [k \in 1 .. j - i + 1 |-> s[i + k - 1]]
  BY <1>1
<1> QED
  BY <1>2, <1>3, <1>4

LEMMA SameMeanings ==
  ASSUME NEW S, NEW s \in Seq(S), NEW t \in Seq(S), NEW b, NEW before, GoesOn(s, t)
  PROVE  \A j \in 1 .. Len(s) : SameAt(s, t, j, b, before)
<1> SUFFICES ASSUME NEW j \in 1 .. Len(s)
             PROVE  SameAt(s, t, j, b, before)
  OBVIOUS
<1>1. Beginnings(t, j) = Beginnings(s, j)
  BY SameBeginnings, Zenon
<1>2. ASSUME NEW i \in Beginnings(s, j)
      PROVE  ItemMeaning(t, i, j, b, before) = ItemMeaning(s, i, j, b, before)
  <2>1. i \in 1 .. j
    BY DEF Beginnings
  <2>2. i \in 1 .. Len(s) /\ i \in 1 .. Len(s) + 1
    BY <2>1
  <2>3. t[i] = s[i]
    BY <2>2 DEF GoesOn
  <2>4. SubSeq(t, i, j) = SubSeq(s, i, j)
    BY <2>1, SameText
  <2>5. DuplexAt(t, i, before) = DuplexAt(s, i, before)
    BY <2>2, SameDuplex
  <2> QED
    BY <2>3, <2>4, <2>5, Zenon DEF ItemMeaning
<1> QED
  BY <1>1, <1>2, Zenon DEF SameAt, ItemAt

-----------------------------------------------------------------------------
(* A word and its count *)

\* The places of its colons, but for one in front.
Colons(w) == {i \in 2 .. Len(w) : w[i] = ":"}
DigitsBehind(w, a) == \A i \in a + 1 .. Len(w) : w[i] \in Digits

LEMMA PartsAre ==
  ASSUME NEW w
  PROVE  Parts(w) =
           IF Colons(w) = {} THEN [body |-> w, count |-> 1]
           ELSE LET at == CHOOSE i \in Colons(w) : TRUE
                IN  IF Colons(w) = {at} /\ DigitsBehind(w, at)
                      THEN [body |-> SubSeq(w, 1, at - 1), count |-> NumberOf(SubSeq(w, at + 1, Len(w)))]
                    ELSE [body |-> <<":">>, count |-> 0]
BY DEF Parts, Colons, DigitsBehind

\* Some text behind a place is a number exactly if its characters are digits.
LEMMA NumberBehind ==
  ASSUME NEW S, NEW w \in Seq(S), NEW a \in 1 .. Len(w)
  PROVE  IsNumber(SubSeq(w, a + 1, Len(w))) <=> DigitsBehind(w, a)
<1>1. PICK u : u = SubSeq(w, a + 1, Len(w))
  OBVIOUS
<1>2. Len(w) \in Nat /\ a \in Nat /\ a <= Len(w)
  OBVIOUS
<1>3. Len(u) = Len(w) - a /\ \A k \in 1 .. Len(w) - a : u[k] = w[a + k]
  BY <1>1, <1>2
<1>4. \A i \in a + 1 .. Len(w) : i - a \in 1 .. Len(w) - a /\ a + (i - a) = i
  BY <1>2
<1>5. \A k \in 1 .. Len(w) - a : a + k \in a + 1 .. Len(w)
  BY <1>2
<1>6. IsNumber(u) <=> DigitsBehind(w, a)
  BY <1>3, <1>4, <1>5, Zenon DEF IsNumber, DigitsBehind
<1> QED
  BY <1>1, <1>6, Zenon

LEMMA SplitsAre ==
  ASSUME NEW S, NEW w \in Seq(S)
  PROVE  /\ \A i : i \in Splits(w) <=> i \in Colons(w) /\ DigitsBehind(w, i)
         /\ (\E i \in 2 .. Len(w) : w[i] = ":") <=> Colons(w) # {}
<1>1. \A i : i \in 2 .. Len(w) <=> i \in 1 .. Len(w) /\ 1 < i
  OBVIOUS
<1>2. ASSUME NEW i
      PROVE  i \in Splits(w) <=> i \in Colons(w) /\ DigitsBehind(w, i)
  <2>1. CASE i \in 1 .. Len(w)
    <3>1. IsNumber(SubSeq(w, i + 1, Len(w))) <=> DigitsBehind(w, i)
      BY <2>1, NumberBehind
    <3> QED
      BY <1>1, <2>1, <3>1, Zenon DEF Splits, Split, Colons
  <2>2. CASE i \notin 1 .. Len(w)
    BY <1>1, <2>2, Zenon DEF Splits, Split, Colons
  <2> QED
    BY <2>1, <2>2
<1>3. (\E i \in 2 .. Len(w) : w[i] = ":") <=> Colons(w) # {}
  BY Zenon DEF Colons
<1> QED
  BY <1>2, <1>3

\* Where a count begins there is no digit.
LEMMA ColonIsNoDigit == ":" \notin Digits /\ "r" \notin Digits /\ ":" \notin Names
BY AlphabetAssumption

\* A word either has the same parts for the code and its meaning, or more
\* colons than one before its count, or something else behind its colon.
Unsplit(w) == Parts(w).body = <<":">> /\ \E i \in 2 .. Len(Body(w)) : Body(w)[i] = ":"
SamePart(w) == Parts(w).body = Body(w) /\ Parts(w).count = Repeat(w)

LEMMA PartsAgree ==
  ASSUME NEW w \in Seq(Character)
  PROVE  SamePart(w) \/ Unsplit(w)
<1>1. Len(w) \in Nat
  OBVIOUS
<1>2. /\ \A i : i \in Splits(w) <=> i \in Colons(w) /\ DigitsBehind(w, i)
      /\ (\E i \in 2 .. Len(w) : w[i] = ":") <=> Colons(w) # {}
  BY SplitsAre
<1>3. CASE Colons(w) = {}
  <2>1. Splits(w) = {} /\ ~ \E i \in 2 .. Len(w) : w[i] = ":"
    BY <1>2, <1>3, Zenon
  <2>2. Body(w) = w /\ Repeat(w) = 1
    BY <2>1, Zenon DEF Body, Repeat
  <2>3. Parts(w) = [body |-> w, count |-> 1]
    BY <1>3, PartsAre, Zenon
  <2> QED
    BY <2>2, <2>3 DEF SamePart
<1>4. CASE Colons(w) # {}
  <2>1. PICK at : at = CHOOSE i \in Colons(w) : TRUE
    OBVIOUS
  <2>2. at \in Colons(w)
    BY <1>4, <2>1
  <2>3. CASE Colons(w) = {at} /\ DigitsBehind(w, at)
    <3>1. at \in Splits(w) /\ \A i \in Splits(w) : i = at
      BY <1>2, <2>2, <2>3
    <3>2. FirstSplit(w) = at
      <4>1. at <= at
        BY <2>2 DEF Colons
      <4> QED
        BY <3>1, <4>1 DEF FirstSplit
    <3>3. Splits(w) # {}
      BY <3>1
    <3>4. Body(w) = SubSeq(w, 1, at - 1) /\ Repeat(w) = NumberOf(SubSeq(w, at + 1, Len(w)))
      BY <3>2, <3>3, Zenon DEF Body, Repeat
    <3>6. \A x, y : [body |-> x, count |-> y].body = x /\ [body |-> x, count |-> y].count = y
      OBVIOUS
    <3>5. Parts(w) = [body |-> SubSeq(w, 1, at - 1), count |-> NumberOf(SubSeq(w, at + 1, Len(w)))]
      BY <1>4, <2>1, <2>3, PartsAre, Zenon
    <3> QED
      BY <3>4, <3>5, <3>6, Zenon DEF SamePart
  <2>4. CASE ~(Colons(w) = {at} /\ DigitsBehind(w, at))
    <3>1. Parts(w) = [body |-> <<":">>, count |-> 0]
      BY <1>4, <2>1, <2>4, PartsAre, Zenon
    <3>2. CASE Splits(w) = {}
      <4>1. Body(w) = w
        BY <3>2, Zenon DEF Body
      <4>2. \E i \in 2 .. Len(w) : w[i] = ":"
        BY <1>2, <1>4, Zenon
      <4> QED
        BY <3>1, <4>1, <4>2 DEF Unsplit
    <3>3. CASE Splits(w) # {}
      <4> DEFINE f == FirstSplit(w)
      <4>1. f \in Splits(w)
        <5>1. Splits(w) \in SUBSET Nat
          BY DEF Splits
        <5>2. \E i \in Splits(w) : \A j \in Splits(w) : i <= j
          BY <3>3, <5>1, Least
        <5> QED
          BY <5>2, Zenon DEF FirstSplit
      <4>2. Body(w) = SubSeq(w, 1, f - 1)
        BY <3>3, Zenon DEF Body
      <4> HIDE DEF f
      <4>3. f \in Colons(w) /\ DigitsBehind(w, f)
        BY <1>2, <4>1, Zenon
      <4>4. PICK a \in Colons(w) : a # f
        <5>1. Colons(w) # {f}
          BY <2>2, <2>4, <4>3
        <5> QED
          BY <4>3, <5>1
      <4>5. a \in 2 .. Len(w) /\ w[a] = ":" /\ f \in 2 .. Len(w)
        BY <4>3, <4>4 DEF Colons
      <4>6. ~(a \in f + 1 .. Len(w))
        BY <4>3, <4>5, ColonIsNoDigit, Zenon DEF DigitsBehind
      <4>7. a \in 2 .. f - 1
        BY <4>4, <4>5, <4>6
      <4>8. f - 1 \in 1 .. Len(w)
        BY <4>5
      <4>9. Len(SubSeq(w, 1, f - 1)) = f - 1 /\ SubSeq(w, 1, f - 1)[a] = w[a]
        BY <4>7, <4>8
      <4>10. \E i \in 2 .. Len(Body(w)) : Body(w)[i] = ":"
        BY <4>2, <4>5, <4>7, <4>9
      <4> QED
        BY <3>1, <4>10 DEF Unsplit
    <3> QED
      BY <3>2, <3>3
  <2> QED
    BY <2>3, <2>4
<1> QED
  BY <1>3, <1>4

\* A word that is no number, no letter alone and no command.
LEMMA UnsplitWords ==
  ASSUME NEW w, Unsplit(w)
  PROVE  /\ ~IsNumber(Body(w)) /\ ~IsNumber(Parts(w).body)
         /\ Body(w) # <<"r">> /\ Body(w) # <<"s">> /\ Len(Body(w)) # 1
         /\ Parts(w).body # <<"r">> /\ Parts(w).body # <<"s">>
<1>1. PICK i \in 2 .. Len(Body(w)) : Body(w)[i] = ":"
  BY DEF Unsplit
<1>2. PICK d : d = Body(w)
  OBVIOUS
<1>3. i \in 2 .. Len(d) /\ d[i] = ":"
  BY <1>1, <1>2
<1>4. ~IsNumber(d)
  <2>1. i \in 1 .. Len(d)
    BY <1>3
  <2> QED
    BY <1>3, <2>1, ColonIsNoDigit, Zenon DEF IsNumber
<1>5. Len(d) # 1
  BY <1>3
<1>6. d # <<"r">> /\ d # <<"s">>
  BY <1>5
<1>7. Parts(w).body = <<":">>
  BY DEF Unsplit
<1>8. ~IsNumber(<<":">>)
  <2>1. 1 \in 1 .. Len(<<":">>) /\ <<":">>[1] = ":"
    OBVIOUS
  <2> QED
    BY <2>1, ColonIsNoDigit DEF IsNumber
<1> QED
  BY <1>2, <1>4, <1>5, <1>6, <1>7, <1>8

\* What handle_command calls for a word is what the word means.
LEMMA WordsMean ==
  ASSUME NEW w \in Seq(Character), bus \in Buses, duplex \in BOOLEAN
  PROVE  WordMeaning(w, bus, duplex) = WordCalls(w)
<1> DEFINE body == Parts(w).body
           count == Parts(w).count
           isRead == body = <<"r">> /\ bus # "none"
           isScan == body = <<"s">> /\ bus = "i2c"
           transfer == CASE bus = "none" -> BadCmd
                         [] bus = "i2c" /\ duplex -> BadCmd
                         [] OTHER -> Times(count, Call(IF duplex THEN "xact" ELSE "write", NumberOf(body) % 256))
           command == <<Call("command", 0)>>
<1>1. WordMeaning(w, bus, duplex) =
        CASE IsNumber(body) -> transfer
          [] isRead -> Times(count, Call("read", 0))
          [] isScan -> command
          [] ~IsNumber(body) /\ ~isRead /\ ~isScan /\ bus # "none" -> command \o BadCmd
          [] OTHER -> BadCmd
  BY Zenon DEF WordMeaning
<1>2. bus = "none" \/ bus = "spi" \/ bus = "i2c"
  BY DEF Buses
<1>3. ~(IsNumber(body) /\ (isRead \/ isScan))
  <2>1. ~IsNumber(<<"r">>) /\ ~IsNumber(<<"s">>)
    <3>1. "s" \notin Digits /\ "r" \notin Digits
      BY AlphabetAssumption
    <3>2. \A c : 1 \in 1 .. Len(<<c>>) /\ <<c>>[1] = c
      OBVIOUS
    <3> QED
      BY <3>1, <3>2, Zenon DEF IsNumber
  <2> QED
    BY <2>1, Zenon
<1>4. ~(isRead /\ isScan)
  <2>1. <<"r">> # <<"s">>
    OBVIOUS
  <2> QED
    BY <2>1
<1>5. command \o <<>> = command
  OBVIOUS
<1>6. CASE SamePart(w)
  <2>1. body = Body(w) /\ count = Repeat(w)
    BY <1>6 DEF SamePart
  <2> HIDE DEF body, count, command
  <2>2. CASE IsNumber(body)
    <3>1. WordMeaning(w, bus, duplex) = transfer
      BY <1>1, <1>3, <2>2
    <3>2. WordCalls(w) = IF Transfer(w) \in Functions(bus)
                          THEN Times(count, Call(Transfer(w), NumberOf(body) % 256)) ELSE BadCmd
      BY <2>1, <2>2, Zenon DEF WordCalls
    <3>3. transfer = IF Transfer(w) \in Functions(bus)
                       THEN Times(count, Call(Transfer(w), NumberOf(body) % 256)) ELSE BadCmd
      BY <1>2 DEF Transfer, Functions
    <3> QED
      BY <3>1, <3>2, <3>3, Zenon
  <2>3. CASE ~IsNumber(body) /\ body = <<"r">>
    <3>1. WordCalls(w) = IF "read" \in Functions(bus) THEN Times(count, Call("read", 0)) ELSE BadCmd
      BY <2>1, <2>3, Zenon DEF WordCalls
    <3>2. "read" \in Functions(bus) <=> bus # "none"
      BY <1>2 DEF Functions
    <3>3. CASE bus # "none"
      BY <1>1, <1>4, <2>3, <3>1, <3>2, <3>3
    <3>4. CASE bus = "none"
      BY <1>1, <2>3, <3>1, <3>2, <3>4
    <3> QED
      BY <3>3, <3>4
  <2>4. CASE ~IsNumber(body) /\ body # <<"r">>
    <3>1. WordCalls(w) = BusCommand(w)
      BY <2>1, <2>4, Zenon DEF WordCalls
    <3>2. BusCommand(w) = IF bus = "none" THEN BadCmd
                           ELSE command \o (IF bus = "i2c" /\ body = <<"s">> THEN <<>> ELSE BadCmd)
      BY <2>1, Zenon DEF BusCommand, command
    <3>3. CASE bus = "none"
      BY <1>1, <2>4, <3>1, <3>2, <3>3
    <3>4. CASE bus # "none" /\ isScan
      BY <1>1, <1>4, <1>5, <2>4, <3>1, <3>2, <3>4
    <3>5. CASE bus # "none" /\ ~isScan
      BY <1>1, <2>4, <3>1, <3>2, <3>5
    <3> QED
      BY <3>3, <3>4, <3>5
  <2> QED
    BY <2>2, <2>3, <2>4
<1>7. CASE Unsplit(w)
  <2>1. /\ ~IsNumber(Body(w)) /\ ~IsNumber(body)
        /\ Body(w) # <<"r">> /\ Body(w) # <<"s">>
        /\ body # <<"r">> /\ body # <<"s">>
    BY <1>7, UnsplitWords
  <2>2. WordCalls(w) = IF bus = "none" THEN BadCmd ELSE command \o BadCmd
    BY <2>1, Zenon DEF WordCalls, BusCommand
  <2> HIDE DEF body, count, command
  <2>3. WordMeaning(w, bus, duplex) = IF bus = "none" THEN BadCmd ELSE command \o BadCmd
    BY <1>1, <2>1
  <2> QED
    BY <2>2, <2>3, Zenon
<1> QED
  BY <1>6, <1>7, PartsAgree

\* handle_global_command and the meaning agree on which word is a name.
LEMMA NamesAgree ==
  ASSUME NEW w \in Seq(Character), NEW n \in Names
  PROVE  Parts(w).body = <<n>> <=> Len(Body(w)) = 1 /\ Body(w)[1] = n
<1>1. CASE SamePart(w)
  <2>1. Body(w) \in Seq(Character) /\ Parts(w).body = Body(w)
    BY <1>1, Parting DEF SamePart
  <2>2. \A u \in Seq(Character) : u = <<n>> <=> Len(u) = 1 /\ u[1] = n
    OBVIOUS
  <2> QED
    BY <2>1, <2>2
<1>2. CASE Unsplit(w)
  <2>1. Len(Body(w)) # 1 /\ Parts(w).body = <<":">>
    BY <1>2, UnsplitWords DEF Unsplit
  <2>2. <<":">> # <<n>>
    BY ColonIsNoDigit
  <2> QED
    BY <2>1, <2>2, Zenon
<1> QED
  BY <1>1, <1>2, PartsAgree

-----------------------------------------------------------------------------
(* What the scanner has done so far *)

AtCut(s) == s = <<>> \/ s[Len(s)] \in Separators

\* The text s, read to its end on the bus b, has called cs, if it enters no bus.
Searched(s, cs, full, first, b, before) ==
  /\ \A k \in 1 .. Len(s) : s[k] # "#"
  /\ cs = Meaning(s, b, before)
  /\ Entering(s) = {}
  /\ full = DuplexAt(s, Len(s) + 1, before)
  /\ first <=> \A k \in 1 .. Len(s) : s[k] = " "

LEMMA NothingSearched ==
  ASSUME NEW b, NEW before
  PROVE  Searched(<<>>, <<>>, before, TRUE, b, before)
<1>1. PICK s : s = <<>>
  OBVIOUS
<1>2. Len(s) = 0 /\ 1 .. Len(s) = {} /\ Len(s) + 1 = 1
  BY <1>1
<1>3. Meaning(s, b, before) = <<>>
  <2>1. PICK g : Meanings(g, s, b, before, 0) /\ Meaning(s, b, before) = g[0]
    <3>1. 0 \in Nat
      OBVIOUS
    <3> QED
      BY <1>2, <3>1, MeaningIs, MeaningsExist
  <2>2. 0 \in 0 .. 0
    OBVIOUS
  <2> QED
    BY <2>1, <2>2, Zenon DEF Meanings
<1>4. Entering(s) = {}
  BY <1>2, Zenon DEF Entering
<1>5. DuplexAt(s, Len(s) + 1, before) = before
  BY <1>2, DuplexFirst, Zenon
<1>6. Searched(s, <<>>, before, TRUE, b, before)
  BY <1>2, <1>3, <1>4, <1>5, Zenon DEF Searched
<1> QED
  BY <1>1, <1>6, Zenon

\* One more character.
Adds(s, c, t) == t = Append(s, c)

LEMMA OneMoreCharacter ==
  ASSUME NEW s \in Seq(Alphabet), NEW c \in Alphabet, NEW t, Adds(s, c, t)
  PROVE  /\ t \in Seq(Alphabet) /\ Len(s) \in Nat /\ Len(t) = Len(s) + 1 /\ t[Len(t)] = c
         /\ \A k \in 1 .. Len(s) : t[k] = s[k]
BY DEF Adds

\* A command name that a continuation has is that of an item behind.
NameBehind(s, t, n) ==
  \E j \in Len(s) + 1 .. Len(t) : \E i \in Beginnings(t, j) :
    (\A k \in 1 .. i - 1 : t[k] = " ") /\ Parts(SubSeq(t, i, j)).body = <<n>>

LEMMA NamesBehind ==
  ASSUME NEW S, NEW s \in Seq(S), NEW t \in Seq(S), GoesOn(s, t), Entering(s) = {}, NEW n \in Entering(t)
  PROVE  NameBehind(s, t, n)
<1>1. n \in Names
  BY DEF Entering
<1>2. PICK j \in 1 .. Len(t) : \E i \in Beginnings(t, j) :
        (\A k \in 1 .. i - 1 : t[k] = " ") /\ Parts(SubSeq(t, i, j)).body = <<n>>
  BY Zenon DEF Entering
<1>3. PICK i \in Beginnings(t, j) :
        (\A k \in 1 .. i - 1 : t[k] = " ") /\ Parts(SubSeq(t, i, j)).body = <<n>>
  BY <1>2
<1>4. CASE j \in 1 .. Len(s)
  <2>1. i \in Beginnings(s, j) /\ i \in 1 .. j
    BY <1>4, SameBeginnings DEF Beginnings
  <2>2. \A k \in 1 .. i - 1 : k \in 1 .. Len(s)
    BY <1>4, <2>1
  <2>3. \A k \in 1 .. i - 1 : s[k] = " "
    BY <1>3, <2>2 DEF GoesOn
  <2>4. SubSeq(t, i, j) = SubSeq(s, i, j)
    BY <1>4, <2>1, SameText
  <2>5. Parts(SubSeq(s, i, j)).body = <<n>>
    BY <1>3, <2>4
  <2>6. n \in Entering(s)
    BY <1>1, <1>4, <2>1, <2>3, <2>5, Zenon DEF Entering
  <2> QED
    BY <2>6
<1>5. CASE j \notin 1 .. Len(s)
  <2>1. j \in Len(s) + 1 .. Len(t)
    BY <1>5 DEF GoesOn
  <2> QED
    BY <1>3, <2>1, Zenon DEF NameBehind
<1> QED
  BY <1>4, <1>5

\* A separator: a bracket is an item of its own, a blank is none.
LEMMA SeparatorEnds ==
  ASSUME NEW s \in Seq(Alphabet), NEW c \in Separators, NEW t, Adds(s, c, t), c \in Alphabet
  PROVE  /\ GoesOn(s, t)
         /\ c \in Brackets => Beginnings(t, Len(t)) = {Len(t)}
         /\ c \notin Brackets => Beginnings(t, Len(t)) = {}
<1>1. /\ t \in Seq(Alphabet) /\ Len(s) \in Nat /\ Len(t) = Len(s) + 1 /\ t[Len(t)] = c
      /\ \A k \in 1 .. Len(s) : t[k] = s[k]
  BY OneMoreCharacter
<1>2. GoesOn(s, t)
  BY <1>1 DEF GoesOn
<1>3. ASSUME NEW i \in 1 .. Len(t)
      PROVE  IsItem(t, i, Len(t)) <=> i = Len(t) /\ c \in Brackets
  <2>1. Len(t) \in i .. Len(t)
    BY <1>1
  <2>2. ~ \A k \in i .. Len(t) : t[k] \notin Separators
    BY <1>1, <2>1, Zenon
  <2>3. (i = Len(t) /\ t[i] \in Brackets) <=> (i = Len(t) /\ c \in Brackets)
    BY <1>1, Zenon
  <2> QED
    BY <2>2, <2>3, Zenon DEF IsItem
<1>4. Len(t) \in 1 .. Len(t)
  BY <1>1
<1>5. c \in Brackets => Beginnings(t, Len(t)) = {Len(t)}
  BY <1>3, <1>4, Zenon DEF Beginnings
<1>6. c \notin Brackets => Beginnings(t, Len(t)) = {}
  BY <1>3, Zenon DEF Beginnings
<1> QED
  BY <1>2, <1>5, <1>6

\* What a bracket means.
BracketCalls(c, b) ==
  IF b = "none" THEN <<>> ELSE <<Call(IF c \in {"[", "{"} THEN "start" ELSE "stop", 0)>>

LEMMA SearchedSeparator ==
  ASSUME NEW s \in Seq(Alphabet), NEW c \in Separators \ {"#"}, c \in Alphabet, NEW t, Adds(s, c, t),
         NEW cs, NEW full, NEW first, NEW b, NEW before, Searched(s, cs, full, first, b, before)
  PROVE  Searched(t, IF c = " " THEN cs ELSE cs \o BracketCalls(c, b),
                  IF Decides(c) THEN c = "{" ELSE full, first /\ c = " ", b, before)
<1>1. /\ t \in Seq(Alphabet) /\ Len(s) \in Nat /\ Len(t) = Len(s) + 1 /\ t[Len(t)] = c
      /\ \A k \in 1 .. Len(s) : t[k] = s[k]
  BY OneMoreCharacter
<1>2. /\ GoesOn(s, t)
      /\ c \in Brackets => Beginnings(t, Len(t)) = {Len(t)}
      /\ c \notin Brackets => Beginnings(t, Len(t)) = {}
  BY SeparatorEnds
<1>3. c \in Brackets <=> c # " "
  BY DEF Separators, Brackets
<1>4. \A k \in 1 .. Len(t) : k \in 1 .. Len(s) \/ k = Len(t)
  BY <1>1
<1>5. \A k \in 1 .. Len(t) : t[k] # "#"
  BY <1>1, <1>4, Zenon DEF Searched
<1>6. (first /\ c = " ") <=> \A k \in 1 .. Len(t) : t[k] = " "
  <2>1. Len(t) \in 1 .. Len(t) /\ \A k \in 1 .. Len(s) : k \in 1 .. Len(t)
    BY <1>1
  <2> QED
    BY <1>1, <1>4, <2>1, Zenon DEF Searched
<1>7. DuplexAt(t, Len(t) + 1, before) = IF Decides(c) THEN c = "{" ELSE full
  <2>1. Len(t) \in Nat \ {0} /\ Len(t) \in 1 .. Len(s) + 1
    BY <1>1
  <2>2. DuplexAt(t, Len(t) + 1, before) = IF Decides(t[Len(t)]) THEN t[Len(t)] = "{" ELSE DuplexAt(t, Len(t), before)
    BY <2>1, DuplexNext, Zenon
  <2>3. DuplexAt(t, Len(t), before) = DuplexAt(s, Len(t), before)
    BY <1>2, <2>1, SameDuplex
  <2>4. DuplexAt(s, Len(t), before) = full
    BY <1>1 DEF Searched
  <2> QED
    BY <1>1, <2>2, <2>3, <2>4, Zenon
<1>8. Meaning(t, b, before) = IF c = " " THEN cs ELSE cs \o BracketCalls(c, b)
  <2>1. \A j \in 1 .. Len(s) : SameAt(s, t, j, b, before)
    BY <1>1, <1>2, SameMeanings
  <2>2. \A j \in Len(s) + 1 .. Len(t) - 1 : Beginnings(t, j) = {}
    BY <1>1
  <2>3. Len(s) \in Nat /\ Len(t) \in Nat /\ Len(s) < Len(t)
    BY <1>1
  <2>4. Meaning(t, b, before) =
          IF Beginnings(t, Len(t)) = {} THEN Meaning(s, b, before)
          ELSE Meaning(s, b, before) \o ItemAt(t, Len(t), b, before)
    <3>1. OneItemMore(s, t, b, before)
      BY <2>1, <2>2, <2>3, Zenon DEF OneItemMore
    <3> QED
      <4>1. OneItemMeans(s, t, b, before)
        BY <3>1, ItemsEnd
      <4> QED
        BY <4>1, Zenon DEF OneItemMeans
  <2>5. Meaning(s, b, before) = cs
    BY DEF Searched
  <2>6. CASE c = " "
    BY <1>2, <1>3, <2>4, <2>5, <2>6, Zenon
  <2>7. CASE c # " "
    <3>1. Beginnings(t, Len(t)) = {Len(t)} /\ c \in Brackets
      BY <1>2, <1>3, <2>7, Zenon
    <3>2. (CHOOSE i \in Beginnings(t, Len(t)) : TRUE) = Len(t)
      BY <3>1
    <3>3. ItemAt(t, Len(t), b, before) = BracketCalls(c, b)
      BY <1>1, <3>1, <3>2, Zenon DEF ItemAt, ItemMeaning, BracketCalls
    <3>4. Beginnings(t, Len(t)) # {}
      BY <3>1
    <3> QED
      BY <2>4, <2>5, <2>7, <3>3, <3>4, Zenon
  <2> QED
    BY <2>6, <2>7
<1>9. Entering(t) = {}
  <2>1. SUFFICES ASSUME NEW n \in Entering(t) PROVE FALSE
    OBVIOUS
  <2>2. Entering(s) = {}
    BY DEF Searched
  <2>3. PICK j \in Len(s) + 1 .. Len(t) : \E i \in Beginnings(t, j) :
          (\A k \in 1 .. i - 1 : t[k] = " ") /\ Parts(SubSeq(t, i, j)).body = <<n>>
    <3>1. t \in Seq(Alphabet)
      BY <1>1
    <3>2. NameBehind(s, t, n)
      BY <1>2, <2>2, <3>1, NamesBehind
    <3> QED
      BY <3>2, Zenon DEF NameBehind
  <2>4. PICK i \in Beginnings(t, j) : Parts(SubSeq(t, i, j)).body = <<n>>
    BY <2>3, Zenon
  <2>5. j = Len(t)
    BY <1>1
  <2>6. c \in Brackets /\ i = Len(t)
    BY <1>2, <2>4, <2>5
  <2>7. SubSeq(t, i, j) = <<c>>
    <3>1. PICK e \in Nat \ {0} : e = Len(t) /\ t[e] = c
      BY <1>1
    <3>2. PICK u : u = SubSeq(t, e, e)
      OBVIOUS
    <3>3. u \in Seq(Alphabet) /\ Len(u) = 1 /\ u[1] = c
      BY <1>1, <3>1, <3>2
    <3>4. u = <<c>>
      BY <3>3
    <3> QED
      BY <2>5, <2>6, <3>1, <3>2, <3>4
  <2>8. Parts(<<c>>).body = <<c>>
    <3>1. Colons(<<c>>) = {}
      BY DEF Colons
    <3>2. Parts(<<c>>) = [body |-> <<c>>, count |-> 1]
      BY <3>1, PartsAre, Zenon
    <3> QED
      BY <3>2
  <2>9. n = c
    BY <2>4, <2>7, <2>8
  <2>10. n \in Names /\ c \notin Names
    BY AlphabetAssumption DEF Entering
  <2> QED
    BY <2>9, <2>10
<1> QED
  BY <1>5, <1>6, <1>7, <1>8, <1>9, Zenon DEF Searched

\* A word w after the text s.
AddsWord(s, w, t) == t = s \o w /\ AtCut(s) /\ Len(w) > 0

LEMMA WordAdded ==
  ASSUME NEW s \in Seq(Alphabet), NEW w \in Seq(Character), NEW t, AddsWord(s, w, t)
  PROVE  /\ t \in Seq(Alphabet)
         /\ Len(s) \in Nat /\ Len(w) \in Nat /\ Len(w) > 0 /\ Len(t) = Len(s) + Len(w)
         /\ \A k \in 1 .. Len(s) : t[k] = s[k]
         /\ \A k \in Len(s) + 1 .. Len(t) : t[k] \in Character
         /\ Len(s) = 0 \/ s[Len(s)] \in Separators
         /\ SubSeq(t, Len(s) + 1, Len(t)) = w
<1>1. Len(s) \in Nat /\ Len(w) \in Nat /\ Len(w) > 0
  BY DEF AddsWord
<1>2. w \in Seq(Alphabet) /\ t = s \o w
  BY DEF AddsWord, Character
<1>3. /\ t \in Seq(Alphabet) /\ Len(t) = Len(s) + Len(w)
      /\ \A k \in 1 .. Len(s) + Len(w) : t[k] = IF k <= Len(s) THEN s[k] ELSE w[k - Len(s)]
  BY <1>2, ConcatProperties
<1>4. \A k \in 1 .. Len(s) : t[k] = s[k]
  BY <1>1, <1>3
<1>5. \A k \in Len(s) + 1 .. Len(t) : k - Len(s) \in 1 .. Len(w) /\ k \in 1 .. Len(s) + Len(w) /\ ~(k <= Len(s))
  BY <1>1, <1>3
<1>6. \A k \in Len(s) + 1 .. Len(t) : t[k] = w[k - Len(s)]
  BY <1>3, <1>5
<1>7. \A k \in Len(s) + 1 .. Len(t) : t[k] \in Character
  BY <1>5, <1>6
<1>8. Len(s) = 0 \/ s[Len(s)] \in Separators
  <2>1. s = <<>> => Len(s) = 0
    OBVIOUS
  <2> QED
    BY <2>1, Zenon DEF AddsWord, AtCut
<1>9. SubSeq(t, Len(s) + 1, Len(t)) = w
  <2>1. PICK n \in Nat, m \in Nat : n = Len(s) /\ m = Len(w)
    BY <1>1
  <2>2. Len(t) = n + m /\ m > 0
    BY <1>1, <1>3, <2>1
  <2>3. PICK u : u = SubSeq(t, n + 1, n + m)
    OBVIOUS
  <2>4. n + 1 \in 1 .. Len(t) + 1 /\ n + m \in n .. Len(t)
    BY <2>2
  <2>5. /\ u \in Seq(Alphabet) /\ Len(u) = m
        /\ \A k \in 1 .. m : u[k] = t[n + k]
    <3>1. u = [k \in 1 .. (n + m) - (n + 1) + 1 |-> t[(n + 1) + k - 1]]
      BY <1>3, <2>2, <2>3
    <3>2. (n + m) - (n + 1) + 1 = m /\ \A k \in 1 .. m : (n + 1) + k - 1 = n + k
      OBVIOUS
    <3>3. \A k \in 1 .. m : n + k \in 1 .. Len(t)
      BY <2>2
    <3>4. \A k \in 1 .. m : t[n + k] \in Alphabet
      <4>1. \A e \in 1 .. Len(t) : t[e] \in Alphabet
        <5>1. t \in Seq(Alphabet)
          BY <1>3
        <5> QED
          BY <5>1
      <4> QED
        BY <3>3, <4>1, Zenon
    <3>5. u = [k \in 1 .. m |-> t[n + k]]
      <4> DEFINE f == [k \in 1 .. m |-> t[(n + 1) + k - 1]]
      <4>1. \A k \in 1 .. m : f[k] = t[n + k]
        BY <3>2
      <4>2. u = [k \in 1 .. m |-> t[(n + 1) + k - 1]]
        BY <3>1, <3>2, Zenon
      <4> QED
        BY <4>1, <4>2, Zenon
    <3> QED
      BY <3>4, <3>5
  <2>6. \A k \in 1 .. m : n + k \in Len(s) + 1 .. Len(t) /\ (n + k) - Len(s) = k
    BY <2>1, <2>2
  <2>7. \A k \in 1 .. m : u[k] = w[k]
    BY <1>6, <2>5, <2>6, Zenon
  <2>8. u = w
    BY <1>2, <2>1, <2>5, <2>7, SeqEqual
  <2> QED
    BY <2>1, <2>2, <2>3, <2>8
<1> QED
  BY <1>1, <1>3, <1>4, <1>7, <1>8, <1>9

LEMMA WordEnds ==
  ASSUME NEW s \in Seq(Alphabet), NEW w \in Seq(Character), NEW t, AddsWord(s, w, t)
  PROVE  /\ GoesOn(s, t)
         /\ \A j \in Len(s) + 1 .. Len(t) - 1 : Beginnings(t, j) = {}
         /\ Beginnings(t, Len(t)) = {Len(s) + 1}
<1>1. /\ Len(s) \in Nat /\ Len(w) \in Nat /\ Len(w) > 0 /\ Len(t) = Len(s) + Len(w)
      /\ \A k \in 1 .. Len(s) : t[k] = s[k]
      /\ Len(s) = 0 \/ s[Len(s)] \in Separators
  BY WordAdded
<1>2. \A k \in Len(s) + 1 .. Len(t) : t[k] \notin Separators /\ t[k] \notin Brackets
  <2>1. \A k \in Len(s) + 1 .. Len(t) : t[k] \in Character
    BY WordAdded
  <2>2. \A c \in Character : c \notin Separators /\ c \notin Brackets
    BY DEF Character, Separators
  <2> QED
    BY <2>1, <2>2, Zenon
<1>3. GoesOn(s, t)
  BY <1>1 DEF GoesOn
<1>4. ASSUME NEW j \in Len(s) + 1 .. Len(t) - 1, NEW i \in 1 .. j
      PROVE  ~IsItem(t, i, j)
  <2>1. j \in Len(s) + 1 .. Len(t) /\ j + 1 \in Len(s) + 1 .. Len(t) /\ j # Len(t)
    BY <1>1
  <2> QED
    BY <1>2, <2>1, Zenon DEF IsItem
<1>5. ASSUME NEW i \in 1 .. Len(t)
      PROVE  IsItem(t, i, Len(t)) <=> i = Len(s) + 1
  <2>1. Len(t) \in Len(s) + 1 .. Len(t)
    BY <1>1
  <2>2. CASE i = Len(s) + 1
    <3>1. i = 1 \/ t[i - 1] \in Separators
      <4>1. CASE Len(s) = 0
        BY <2>2, <4>1
      <4>2. CASE Len(s) # 0
        <5>1. Len(s) \in 1 .. Len(s) /\ i - 1 = Len(s)
          BY <1>1, <2>2, <4>2
        <5> QED
          BY <1>1, <4>2, <5>1, Zenon
      <4> QED
        BY <4>1, <4>2
    <3>2. \A k \in i .. Len(t) : t[k] \notin Separators
      BY <1>2, <2>2, Zenon
    <3> QED
      BY <2>2, <3>1, <3>2, Zenon DEF IsItem
  <2>3. CASE i \in 1 .. Len(s)
    <3>1. Len(s) \in i .. Len(t) /\ Len(s) \in 1 .. Len(s) /\ Len(s) # 0 /\ i # Len(s) + 1
      BY <1>1, <2>3
    <3>2. t[Len(s)] \in Separators
      BY <1>1, <3>1, Zenon
    <3> QED
      BY <1>2, <2>1, <3>1, <3>2, Zenon DEF IsItem
  <2>4. CASE i \in Len(s) + 2 .. Len(t)
    <3>1. i - 1 \in Len(s) + 1 .. Len(t) /\ i # 1 /\ i # Len(s) + 1
      BY <1>1, <2>4
    <3> QED
      BY <1>2, <2>1, <3>1, Zenon DEF IsItem
  <2>5. i = Len(s) + 1 \/ i \in 1 .. Len(s) \/ i \in Len(s) + 2 .. Len(t)
    BY <1>1
  <2> QED
    BY <2>2, <2>3, <2>4, <2>5
<1>6. \A j \in Len(s) + 1 .. Len(t) - 1 : Beginnings(t, j) = {}
  BY <1>4, Zenon DEF Beginnings
<1>7. Beginnings(t, Len(t)) = {Len(s) + 1}
  <2>1. Len(s) + 1 \in 1 .. Len(t)
    BY <1>1
  <2> QED
    BY <1>5, <2>1, Zenon DEF Beginnings
<1> QED
  BY <1>3, <1>6, <1>7

\* A word that enters no bus.
Harmless(w, first) == first => \A n \in Names : Parts(w).body # <<n>>

LEMMA SearchedWord ==
  ASSUME NEW s \in Seq(Alphabet), NEW w \in Seq(Character), NEW t, AddsWord(s, w, t),
         NEW cs, NEW full, NEW first, NEW b, NEW before, Searched(s, cs, full, first, b, before),
         Harmless(w, first)
  PROVE  Searched(t, cs \o WordMeaning(w, b, full), full, FALSE, b, before)
<1>1. /\ t \in Seq(Alphabet)
      /\ Len(s) \in Nat /\ Len(w) \in Nat /\ Len(w) > 0 /\ Len(t) = Len(s) + Len(w)
      /\ \A k \in 1 .. Len(s) : t[k] = s[k]
      /\ SubSeq(t, Len(s) + 1, Len(t)) = w
  BY WordAdded
<1>2. \A k \in Len(s) + 1 .. Len(t) : t[k] \notin Separators /\ t[k] \notin Brackets
  <2>1. \A k \in Len(s) + 1 .. Len(t) : t[k] \in Character
    BY WordAdded
  <2>2. \A c \in Character : c \notin Separators /\ c \notin Brackets
    BY DEF Character, Separators
  <2> QED
    BY <2>1, <2>2, Zenon
<1>3. /\ GoesOn(s, t)
      /\ \A j \in Len(s) + 1 .. Len(t) - 1 : Beginnings(t, j) = {}
      /\ Beginnings(t, Len(t)) = {Len(s) + 1}
  BY WordEnds
<1>4. \A k \in 1 .. Len(t) : k \in 1 .. Len(s) \/ k \in Len(s) + 1 .. Len(t)
  BY <1>1
<1>5. "#" \in Separators /\ " " \in Separators
  BY DEF Separators
<1>6. \A k \in 1 .. Len(t) : t[k] # "#"
  BY <1>1, <1>2, <1>4, <1>5, Zenon DEF Searched
<1>7. Len(s) + 1 \in Len(s) + 1 .. Len(t) /\ Len(s) + 1 \in 1 .. Len(t) /\ Len(s) < Len(t) /\ Len(t) \in Nat
  BY <1>1
<1>8. ~ \A k \in 1 .. Len(t) : t[k] = " "
  BY <1>2, <1>5, <1>7, Zenon
<1>9. DuplexAt(s, Len(s) + 1, before) = full /\ DuplexAt(t, Len(s) + 1, before) = full
  <2>1. DuplexAt(s, Len(s) + 1, before) = full
    BY Zenon DEF Searched
  <2>2. Len(s) + 1 \in 1 .. Len(s) + 1
    BY <1>1
  <2>3. DuplexAt(t, Len(s) + 1, before) = DuplexAt(s, Len(s) + 1, before)
    BY <1>3, <2>2, SameDuplex
  <2> QED
    BY <2>1, <2>3
<1>10. DuplexAt(t, Len(t) + 1, before) = full
  <2>1. \A k \in Len(s) + 1 .. Len(t) : ~Decides(t[k])
    <3>1. \A c : Decides(c) => c \in Separators
      BY DEF Decides, Separators, Brackets
    <3> QED
      BY <1>2, <3>1, Zenon
  <2>2. \A k \in 1 .. (Len(t) + 1) - 1 : k \in 1 .. (Len(s) + 1) - 1 \/ k \in Len(s) + 1 .. Len(t)
    BY <1>1
  <2>3. \A k \in 1 .. (Len(s) + 1) - 1 : k \in 1 .. (Len(t) + 1) - 1
    BY <1>1
  <2>4. Deciding(t, Len(t) + 1) = Deciding(t, Len(s) + 1)
    BY <2>1, <2>2, <2>3, Zenon DEF Deciding
  <2>5. DuplexAt(t, Len(t) + 1, before) = DuplexAt(t, Len(s) + 1, before)
    BY <2>4, DuplexIs, Zenon
  <2> QED
    BY <1>9, <2>5
<1>11. Meaning(t, b, before) = cs \o WordMeaning(w, b, full)
  <2>1. \A j \in 1 .. Len(s) : SameAt(s, t, j, b, before)
    BY <1>1, <1>3, SameMeanings
  <2>2. OneItemMore(s, t, b, before)
    BY <1>1, <1>3, <1>7, <2>1, Zenon DEF OneItemMore
  <2>3. OneItemMeans(s, t, b, before)
    BY <2>2, ItemsEnd
  <2>4. Beginnings(t, Len(t)) # {} /\ (CHOOSE i \in Beginnings(t, Len(t)) : TRUE) = Len(s) + 1
    BY <1>3
  <2>5. ItemAt(t, Len(t), b, before) = ItemMeaning(t, Len(s) + 1, Len(t), b, before)
    BY <2>4, Zenon DEF ItemAt
  <2>6. ItemMeaning(t, Len(s) + 1, Len(t), b, before) = WordMeaning(w, b, full)
    BY <1>1, <1>2, <1>7, <1>9, Zenon DEF ItemMeaning
  <2>7. Meaning(s, b, before) = cs
    BY Zenon DEF Searched
  <2> QED
    BY <2>3, <2>4, <2>5, <2>6, <2>7, Zenon DEF OneItemMeans
<1>12. Entering(t) = {}
  <2>1. SUFFICES ASSUME NEW n \in Entering(t) PROVE FALSE
    OBVIOUS
  <2>2. Entering(s) = {}
    BY Zenon DEF Searched
  <2>3. NameBehind(s, t, n)
    BY <1>1, <1>3, <2>2, NamesBehind
  <2>3a. PICK j \in Len(s) + 1 .. Len(t) : \E i \in Beginnings(t, j) :
          (\A k \in 1 .. i - 1 : t[k] = " ") /\ Parts(SubSeq(t, i, j)).body = <<n>>
    BY <2>3, Zenon DEF NameBehind
  <2>4. PICK i \in Beginnings(t, j) :
          (\A k \in 1 .. i - 1 : t[k] = " ") /\ Parts(SubSeq(t, i, j)).body = <<n>>
    BY <2>3a, Zenon
  <2>5. j = Len(t)
    <3>1. j \in Len(s) + 1 .. Len(t) - 1 \/ j = Len(t)
      <4>1. \A k \in Len(s) + 1 .. Len(t) : k \in Len(s) + 1 .. Len(t) - 1 \/ k = Len(t)
        <5>1. Len(s) \in Nat /\ Len(t) \in Nat
          BY <1>1, <1>7
        <5> QED
          BY <5>1
      <4> QED
        BY <2>3a, <4>1, Zenon
    <3> QED
      BY <1>3, <2>3a, <2>4, <3>1, Zenon
  <2>6. i = Len(s) + 1
    BY <1>3, <2>4, <2>5
  <2>7. Parts(w).body = <<n>>
    BY <1>1, <2>4, <2>5, <2>6
  <2>8. first
    <3>1. \A k \in 1 .. Len(s) : k \in 1 .. i - 1
      BY <1>1, <2>6
    <3>2. \A k \in 1 .. Len(s) : s[k] = " "
      BY <1>1, <2>4, <3>1, Zenon
    <3> QED
      BY <3>2, Zenon DEF Searched
  <2>9. n \in Names
    BY DEF Entering
  <2> QED
    BY <2>7, <2>8, <2>9, Zenon DEF Harmless
<1> QED
  BY <1>6, <1>8, <1>10, <1>11, <1>12, Zenon DEF Searched

\* A text and at most separators after it.
Closes(t, u) ==
  /\ u \in Seq(Alphabet) /\ GoesOn(t, u)
  /\ \A k \in Len(t) + 1 .. Len(u) : u[k] \in Separators

LEMMA ClosesItself ==
  ASSUME NEW t \in Seq(Alphabet)
  PROVE  Closes(t, t)
<1>1. Len(t) \in Nat
  OBVIOUS
<1>2. \A k \in Len(t) + 1 .. Len(t) : t[k] \in Separators
  BY <1>1
<1>3. GoesOn(t, t)
  BY <1>1 DEF GoesOn
<1> QED
  BY <1>2, <1>3, Zenon DEF Closes

LEMMA ClosedByOne ==
  ASSUME NEW t \in Seq(Alphabet), NEW c \in Separators, c \in Alphabet, NEW u, Adds(t, c, u)
  PROVE  Closes(t, u)
<1>1. /\ u \in Seq(Alphabet) /\ Len(t) \in Nat /\ Len(u) = Len(t) + 1 /\ u[Len(u)] = c
      /\ \A k \in 1 .. Len(t) : u[k] = t[k]
  BY OneMoreCharacter
<1>2. \A k \in Len(t) + 1 .. Len(u) : k = Len(u)
  BY <1>1
<1>3. \A k \in Len(t) + 1 .. Len(u) : u[k] \in Separators
  BY <1>1, <1>2, Zenon
<1>4. GoesOn(t, u)
  BY SeparatorEnds
<1> QED
  BY <1>1, <1>3, <1>4, Zenon DEF Closes

\* A first word that names a bus, and what it enters.
Blank(s) == \A k \in 1 .. Len(s) : s[k] = " "
Naming(w, n) == Parts(w).body = <<n>>
Enters(s, w, t, n, u) == AddsWord(s, w, t) /\ Blank(s) /\ Naming(w, n) /\ Closes(t, u)

LEMMA WordEnters ==
  ASSUME NEW s \in Seq(Alphabet), NEW w \in Seq(Character), NEW n \in Names,
         NEW t, NEW u, Enters(s, w, t, n, u)
  PROVE  Entering(u) = {n}
<1>0. AddsWord(s, w, t) /\ Blank(s) /\ Naming(w, n) /\ Closes(t, u)
  BY DEF Enters
<1>1. /\ t \in Seq(Alphabet)
      /\ Len(s) \in Nat /\ Len(w) \in Nat /\ Len(w) > 0 /\ Len(t) = Len(s) + Len(w)
      /\ \A k \in 1 .. Len(s) : t[k] = s[k]
      /\ \A k \in Len(s) + 1 .. Len(t) : t[k] \in Character
      /\ SubSeq(t, Len(s) + 1, Len(t)) = w
  BY <1>0, WordAdded
<1>2. /\ u \in Seq(Alphabet) /\ GoesOn(t, u) /\ Len(u) \in Nat /\ Len(t) \in Nat /\ Len(t) <= Len(u)
      /\ \A k \in 1 .. Len(t) : u[k] = t[k]
      /\ \A k \in Len(t) + 1 .. Len(u) : u[k] \in Separators
  BY <1>0 DEF Closes, GoesOn
<1>2a. Len(s) \in Nat /\ Len(t) \in Nat /\ Len(u) \in Nat /\ Len(s) < Len(t) /\ Len(t) <= Len(u)
  <2>1. \A x \in Nat, y \in Nat : y > 0 => x < x + y
    OBVIOUS
  <2> QED
    BY <1>1, <1>2, <2>1, Zenon
<1>3. Len(s) + 1 \in 1 .. Len(t) /\ Len(t) \in 1 .. Len(u) /\ (Len(s) + 1) - 1 = Len(s)
  BY <1>2a
<1>4. \A k \in 1 .. Len(s) : u[k] = " "
  <2>1. \A k \in 1 .. Len(s) : k \in 1 .. Len(t)
    BY <1>2a
  <2> QED
    BY <1>0, <1>1, <1>2, <2>1, Zenon DEF Blank
<1>5. \A k \in Len(s) + 1 .. Len(t) : u[k] \notin Separators /\ u[k] \notin Brackets
  <2>1. \A k \in Len(s) + 1 .. Len(t) : k \in 1 .. Len(t)
    BY <1>2a
  <2>2. \A c \in Character : c \notin Separators /\ c \notin Brackets
    BY DEF Character, Separators
  <2> QED
    BY <1>1, <1>2, <2>1, <2>2, Zenon
<1>6. SubSeq(u, Len(s) + 1, Len(t)) = w
  <2>1. Len(t) \in 1 .. Len(t)
    BY <1>2a, <1>3
  <2>2. SubSeq(u, Len(s) + 1, Len(t)) = SubSeq(t, Len(s) + 1, Len(t))
    BY <1>1, <1>2, <1>3, <2>1, SameText, Zenon
  <2> QED
    BY <1>1, <2>2
<1>7. " " \in Separators /\ " " \notin Brackets
  BY DEF Separators, Brackets
<1>8. Len(s) + 1 \in Beginnings(u, Len(t))
  <2>1. Len(s) + 1 = 1 \/ u[(Len(s) + 1) - 1] \in Separators
    <3>1. Len(s) + 1 = 1 \/ Len(s) \in 1 .. Len(s)
      BY <1>2a
    <3> QED
      BY <1>3, <1>4, <1>7, <3>1, Zenon
  <2>2. Len(t) = Len(u) \/ u[Len(t) + 1] \in Separators
    <3>1. Len(t) = Len(u) \/ Len(t) + 1 \in Len(t) + 1 .. Len(u)
      BY <1>2a
    <3> QED
      BY <1>2, <3>1, Zenon
  <2>3. IsItem(u, Len(s) + 1, Len(t))
    BY <1>5, <2>1, <2>2, Zenon DEF IsItem
  <2> QED
    BY <1>3, <2>3, Zenon DEF Beginnings
<1>9. n \in Entering(u)
  <2>1. \A k \in 1 .. (Len(s) + 1) - 1 : u[k] = " "
    BY <1>3, <1>4, Zenon
  <2> QED
    BY <1>0, <1>3, <1>6, <1>8, <2>1, Zenon DEF Entering, Naming
<1>10. ASSUME NEW m \in Entering(u) PROVE m = n
  <2>1. PICK j \in 1 .. Len(u) : \E i \in Beginnings(u, j) :
          (\A k \in 1 .. i - 1 : u[k] = " ") /\ Naming(SubSeq(u, i, j), m)
    BY Zenon DEF Entering, Naming
  <2>2. PICK i \in Beginnings(u, j) :
          (\A k \in 1 .. i - 1 : u[k] = " ") /\ Naming(SubSeq(u, i, j), m)
    BY <2>1, Zenon DEF Naming
  <2>3. i \in 1 .. j /\ IsItem(u, i, j)
    BY <2>2, Zenon DEF Beginnings
  <2>4. i \in Nat /\ j \in Nat /\ 1 <= i /\ i <= j /\ j <= Len(u)
    <3>1. j \in 1 .. Len(u) /\ i \in 1 .. j
      BY <2>1, <2>3, Zenon
    <3> QED
      BY <1>2a, <3>1
  <2>5. i \in i .. j /\ j \in i .. j
    BY <2>4
  <2>6. i \notin 1 .. Len(s)
    <3>1. u[i] # " "
      BY <1>7, <2>3, <2>5, Zenon DEF IsItem
    <3> QED
      BY <1>4, <3>1, Zenon
  <2>7. ~(Len(s) + 1 \in 1 .. i - 1)
    <3>1. Len(s) + 1 \in Len(s) + 1 .. Len(t)
      BY <1>2a
    <3> QED
      BY <1>5, <1>7, <2>2, <3>1, Zenon
  <2>8. i = Len(s) + 1
    <3>1. Len(s) \in Nat
      BY <1>2a
    <3> QED
      BY <2>4, <2>6, <2>7, <3>1
  <2>9. /\ \A k \in i .. j : u[k] \notin Separators
        /\ j = Len(u) \/ u[j + 1] \in Separators
    <3>1. Len(s) + 1 \in Len(s) + 1 .. Len(t)
      BY <1>2a
    <3>2. u[i] \notin Brackets
      BY <1>5, <2>8, <3>1, Zenon
    <3> QED
      BY <2>3, <3>2, Zenon DEF IsItem
  <2>10. j = Len(t)
    <3>1. ~(j \in Len(t) + 1 .. Len(u))
      BY <1>2, <2>5, <2>9, Zenon
    <3>2. ~(j + 1 \in Len(s) + 1 .. Len(t))
      <4>1. SUFFICES ASSUME j + 1 \in Len(s) + 1 .. Len(t) PROVE FALSE
        OBVIOUS
      <4>2. j = Len(u)
        BY <1>5, <2>9, <4>1, Zenon
      <4> QED
        BY <1>2a, <2>4, <4>1, <4>2
    <3>3. Len(s) \in Nat /\ Len(t) \in Nat /\ Len(u) \in Nat
      BY <1>2a
    <3> QED
      BY <2>4, <2>8, <3>1, <3>2, <3>3
  <2>11. Naming(w, m)
    BY <1>6, <2>2, <2>8, <2>10, Zenon
  <2>12. <<m>> = <<n>>
    BY <1>0, <2>11, Zenon DEF Naming
  <2>13. <<m>>[1] = m /\ <<n>>[1] = n
    OBVIOUS
  <2> QED
    BY <2>12, <2>13, Zenon
<1> QED
  BY <1>9, <1>10

\* The text before the comment.
LEMMA AllCode ==
  ASSUME NEW s, \A k \in 1 .. Len(s) : s[k] # "#"
  PROVE  CodeOf(s) = s
BY DEF CodeOf

LEMMA CodeEnds ==
  ASSUME NEW s \in Seq(Alphabet), "#" \in Alphabet, NEW t, Adds(s, "#", t), \A k \in 1 .. Len(s) : s[k] # "#"
  PROVE  CodeOf(t) = s
<1>1. /\ t \in Seq(Alphabet) /\ Len(s) \in Nat /\ Len(t) = Len(s) + 1 /\ t[Len(t)] = "#"
      /\ \A k \in 1 .. Len(s) : t[k] = s[k]
  BY OneMoreCharacter
<1> DEFINE hashes == {k \in 1 .. Len(t) : t[k] = "#"}
<1>2. hashes = {Len(t)}
  <2>1. \A k \in 1 .. Len(t) : k \in 1 .. Len(s) \/ k = Len(t)
    BY <1>1
  <2>2. Len(t) \in 1 .. Len(t)
    BY <1>1
  <2> QED
    BY <1>1, <2>1, <2>2, Zenon
<1>3. (CHOOSE k \in hashes : \A j \in hashes : k <= j) = Len(t)
  <2> HIDE DEF hashes
  <2>1. Len(t) <= Len(t)
    BY <1>1
  <2> QED
    BY <1>2, <2>1
<1>4. CodeOf(t) = SubSeq(t, 1, Len(t) - 1)
  BY <1>2, <1>3 DEF CodeOf
<1>5. SubSeq(t, 1, Len(t) - 1) = s
  <2>1. Len(t) - 1 = Len(s)
    BY <1>1
  <2>2. PICK v : v = SubSeq(t, 1, Len(s))
    OBVIOUS
  <2>3. v = [k \in 1 .. Len(s) |-> t[k]]
    <3>1. t = Append(s, "#")
      BY DEF Adds
    <3>2. PICK m \in Nat : m = Len(s)
      BY <1>1
    <3>3. m \in 0 .. Len(t)
      BY <1>1, <3>2
    <3>4. v = SubSeq(t, 1, m)
      BY <2>2, <3>2
    <3>5. v = [k \in 1 .. m |-> t[k]]
      BY <1>1, <3>3, <3>4
    <3> QED
      BY <3>2, <3>5
  <2>4. v \in Seq(Alphabet) /\ Len(v) = Len(s) /\ \A k \in 1 .. Len(s) : v[k] = s[k]
    <3>1. \A k \in 1 .. Len(s) : s[k] \in Alphabet
      OBVIOUS
    <3>2. v = [k \in 1 .. Len(s) |-> s[k]]
      BY <1>1, <2>3, Zenon
    <3> QED
      BY <1>1, <3>1, <3>2
  <2>5. v = s
    BY <2>4, SeqEqual
  <2> QED
    BY <2>1, <2>2, <2>5
<1> QED
  BY <1>4, <1>5

\* A word is no comment.
LEMMA WordHasNone ==
  ASSUME NEW s \in Seq(Alphabet), NEW w \in Seq(Character), NEW t, AddsWord(s, w, t),
         \A k \in 1 .. Len(s) : s[k] # "#"
  PROVE  \A k \in 1 .. Len(t) : t[k] # "#"
<1>1. /\ Len(s) \in Nat /\ Len(w) \in Nat /\ Len(t) = Len(s) + Len(w)
      /\ \A k \in 1 .. Len(s) : t[k] = s[k]
      /\ \A k \in Len(s) + 1 .. Len(t) : t[k] \in Character
  BY WordAdded
<1>2. \A k \in 1 .. Len(t) : k \in 1 .. Len(s) \/ k \in Len(s) + 1 .. Len(t)
  BY <1>1
<1>3. "#" \notin Character
  BY DEF Character, Separators
<1> QED
  BY <1>1, <1>2, <1>3, Zenon

-----------------------------------------------------------------------------
(* The line that was read, and what has been called for it *)

Told(s) == Searched(s, calls, duplex, firstToken, wasBus, wasDuplex)
WillTell(s) == Searched(s, calls', duplex', firstToken', wasBus', wasDuplex')

\* Between words: a separator that ended a word is still to be read.
Between ==
  scan = "searching" =>
    \E s \in Seq(Alphabet) :
      /\ Told(s)
      /\ ahead = "" => line = s /\ AtCut(s)
      /\ ahead # "" => Adds(s, ahead, line)

\* In a word: the line is what was there before, and the word.
Within ==
  scan = "inToken" =>
    ahead = "" /\ \E s \in Seq(Alphabet) : Told(s) /\ AddsWord(s, word, line)

Scanned == Between /\ Within /\ LineMeaning

\* A line that names no bus and was read to its end.
LEMMA LineTold ==
  ASSUME NEW s, WillTell(s), bus' = wasBus', CodeOf(line') = s
  PROVE  LineMeaning'
<1>1. /\ calls' = Meaning(s, wasBus', wasDuplex') /\ Entering(s) = {}
      /\ duplex' = DuplexAt(s, Len(s) + 1, wasDuplex')
  BY Zenon DEF WillTell, Searched
<1> QED
  BY <1>1, Zenon DEF LineMeaning

\* Only at a cut is a character read that is not there already.
LEMMA ReadsOn ==
  ASSUME TypeOK, scan = "searching", Between, NEW c \in Alphabet, Read(c)
  PROVE  \E s \in Seq(Alphabet) :
           /\ Told(s) /\ Adds(s, c, line')
           /\ c \notin Separators => AtCut(s)
<1>1. PICK s \in Seq(Alphabet) :
        /\ Told(s)
        /\ ahead = "" => line = s /\ AtCut(s)
        /\ ahead # "" => Adds(s, ahead, line)
  BY Zenon DEF Between
<1>2. CASE ahead = ""
  <2>1. line' = Append(line, c)
    BY <1>2, Zenon DEF Read
  <2>2. Adds(s, c, line')
    BY <1>1, <1>2, <2>1, Zenon DEF Adds
  <2> QED
    BY <1>1, <1>2, <2>2, Zenon
<1>3. CASE ahead # ""
  <2>1. ahead = c /\ line' = line
    BY <1>3, Zenon DEF Read
  <2>2. Adds(s, c, line')
    BY <1>1, <1>3, <2>1, Zenon
  <2>3. c \in Separators
    BY <1>3, <2>1 DEF TypeOK
  <2> QED
    BY <1>1, <2>2, <2>3, Zenon
<1> QED
  BY <1>2, <1>3

\* Back between words, at a cut.
LEMMA BackBetween ==
  ASSUME NEW s \in Seq(Alphabet), NEW c \in Separators, c \in Alphabet, Adds(s, c, line'), ahead' = "",
         WillTell(line')
  PROVE  Between'
<1>1. line' \in Seq(Alphabet) /\ line'[Len(line')] = c
  BY OneMoreCharacter
<1>2. AtCut(line')
  BY <1>1, Zenon DEF AtCut
<1> QED
  BY <1>1, <1>2, Zenon DEF Between, Told, WillTell

LEMMA ScannedFirst == Init => Scanned
<1> SUFFICES ASSUME Init
             PROVE  Scanned
  OBVIOUS
<1>1. /\ bus = "none" /\ duplex = FALSE /\ scan = "idle" /\ calls = <<>> /\ line = <<>>
      /\ firstToken = TRUE /\ wasDuplex = FALSE /\ wasBus = "none"
  BY DEF Init
<1>2. Between /\ Within
  BY <1>1 DEF Between, Within
<1>3. Told(line)
  BY <1>1, NothingSearched, Zenon DEF Told
<1>4. CodeOf(line) = line
  BY <1>3, AllCode, Zenon DEF Told, Searched
<1>5. LineMeaning
  BY <1>1, <1>3, <1>4, Zenon DEF LineMeaning, Told, Searched
<1> QED
  BY <1>2, <1>5 DEF Scanned

LEMMA BeginScans == Begin => Scanned'
<1> SUFFICES ASSUME Begin
             PROVE  Scanned'
  OBVIOUS
<1>1. /\ scan' = "searching" /\ firstToken' = TRUE /\ ahead' = "" /\ calls' = <<>> /\ line' = <<>>
      /\ wasDuplex' = duplex /\ duplex' = duplex
  BY DEF Begin
<1>2. WillTell(line')
  BY <1>1, NothingSearched, Zenon DEF WillTell
<1>3. line' \in Seq(Alphabet) /\ AtCut(line')
  BY <1>1, EmptySeq DEF AtCut
<1>4. Between'
  BY <1>1, <1>2, <1>3, Zenon DEF Between, Told, WillTell
<1>5. Within' /\ LineMeaning'
  BY <1>1 DEF Within, LineMeaning
<1> QED
  BY <1>4, <1>5 DEF Scanned

LEMMA SkipBlankScans ==
  ASSUME IInv, Scanned, scan = "searching", ahead' = "", UNCHANGED <<wasDuplex, wasBus>>, SkipBlank
  PROVE  Scanned'
<1>1. Read(" ") /\ UNCHANGED <<bus, duplex, scan, word, firstToken, calls>>
  BY DEF SkipBlank
<1>2. " " \in Alphabet /\ " " \in Separators \ {"#"} /\ ~Decides(" ")
  BY AlphabetAssumption DEF Separators, Decides
<1>3. TypeOK /\ Between /\ firstToken \in BOOLEAN
  BY DEF IInv, Scanned, TypeOK
<1>4. PICK s \in Seq(Alphabet) : Told(s) /\ Adds(s, " ", line')
  BY <1>1, <1>2, <1>3, ReadsOn, Zenon
<1>5. WillTell(line')
  <2>1. Searched(line', IF " " = " " THEN calls ELSE calls \o BracketCalls(" ", wasBus),
                 IF Decides(" ") THEN " " = "{" ELSE duplex, firstToken /\ " " = " ", wasBus, wasDuplex)
    BY <1>2, <1>4, SearchedSeparator DEF Told
  <2>2. (firstToken /\ " " = " ") = firstToken
    BY <1>3
  <2>3. Searched(line', calls, duplex, firstToken, wasBus, wasDuplex)
    BY <1>2, <2>1, <2>2, Zenon
  <2> QED
    BY <1>1, <2>3, Zenon DEF WillTell
<1>6. Between'
  BY <1>2, <1>4, <1>5, BackBetween, Zenon
<1>7. Within' /\ LineMeaning'
  BY <1>1 DEF Within, LineMeaning
<1> QED
  BY <1>6, <1>7 DEF Scanned

LEMMA CommentScans ==
  ASSUME IInv, Scanned, scan = "searching", UNCHANGED <<wasDuplex, wasBus>>, Comment
  PROVE  Scanned'
<1>1. Read("#") /\ scan' = "idle" /\ UNCHANGED <<bus, duplex, word, firstToken, calls>>
  BY DEF Comment
<1>2. "#" \in Alphabet
  BY AlphabetAssumption
<1>3. TypeOK /\ Between /\ bus = wasBus
  BY DEF IInv, Scanned, Undone
<1>4. PICK s \in Seq(Alphabet) : Told(s) /\ Adds(s, "#", line')
  BY <1>1, <1>2, <1>3, ReadsOn, Zenon
<1>5. CodeOf(line') = s
  <2>1. \A k \in 1 .. Len(s) : s[k] # "#"
    BY <1>4, Zenon DEF Told, Searched
  <2> QED
    BY <1>2, <1>4, <2>1, CodeEnds, Zenon
<1>6. WillTell(s)
  BY <1>1, <1>4, Zenon DEF Told, WillTell
<1>7. LineMeaning'
  BY <1>1, <1>3, <1>5, <1>6, LineTold
<1>8. Between' /\ Within'
  BY <1>1 DEF Between, Within
<1> QED
  BY <1>7, <1>8 DEF Scanned

LEMMA AppendIs ==
  ASSUME NEW S, NEW s \in Seq(S), NEW e \in S
  PROVE  s \o <<e>> = Append(s, e) /\ Len(<<e>>) > 0
OBVIOUS

\* A bracket calls the bus that there is.
LEMMA BracketScans ==
  ASSUME IInv, Scanned, scan = "searching", ahead' = "", UNCHANGED <<wasDuplex, wasBus>>,
         NEW c \in Alphabet, OpenBracket(c) \/ CloseBracket(c)
  PROVE  Scanned'
<1>1. Read(c) /\ firstToken' = FALSE /\ UNCHANGED <<bus, scan, word>>
  BY DEF OpenBracket, CloseBracket
<1>2. c \in Separators \ {"#"} /\ c # " " /\ c \in Separators
  BY DEF OpenBracket, CloseBracket, Separators, Brackets
<1>3. /\ TypeOK /\ Between /\ bus = wasBus /\ bus \in Buses /\ duplex \in BOOLEAN
      /\ calls \in Seq(CallType)
  BY DEF IInv, Scanned, TypeOK, Undone, CallType
<1>4. PICK s \in Seq(Alphabet) : Told(s) /\ Adds(s, c, line')
  BY <1>1, <1>3, ReadsOn, Zenon
<1>5. calls' = calls \o BracketCalls(c, wasBus)
  <2>1. "start" \in Functions(bus) <=> bus # "none"
    BY <1>3, BusFunctions
  <2>2. "stop" \in Functions(bus) <=> bus # "none"
    BY <1>3, BusFunctions
  <2>3. CASE bus = "none"
    <3>1. calls' = calls
      BY <2>1, <2>2, <2>3 DEF OpenBracket, CloseBracket
    <3>2. BracketCalls(c, wasBus) = <<>>
      BY <1>3, <2>3, Zenon DEF BracketCalls
    <3>3. calls \o <<>> = calls
      BY <1>3, ConcatEmptySeq, Zenon
    <3> QED
      BY <1>3, <3>1, <3>2, <3>3, Zenon
  <2>4. CASE bus # "none"
    <3>1. PICK e : e = Call(IF c \in {"[", "{"} THEN "start" ELSE "stop", 0)
      OBVIOUS
    <3>2. calls' = Append(calls, e)
      <4>1. CASE OpenBracket(c)
        <5>1. c \in {"[", "{"} /\ calls' = Append(calls, Call("start", 0))
          BY <2>1, <2>4, <4>1, Zenon DEF OpenBracket
        <5> QED
          BY <3>1, <5>1, Zenon
      <4>2. CASE CloseBracket(c)
        <5>1. c \in {"]", "}"} /\ calls' = Append(calls, Call("stop", 0))
          BY <2>2, <2>4, <4>2, Zenon DEF CloseBracket
        <5>2. c \notin {"[", "{"}
          BY <5>1
        <5> QED
          BY <3>1, <5>1, <5>2, Zenon
      <4> QED
        BY <4>1, <4>2
    <3>3. BracketCalls(c, wasBus) = <<e>>
      BY <1>3, <2>4, <3>1, Zenon DEF BracketCalls
    <3>4. calls \o <<e>> = Append(calls, e)
      <4>1. e \in CallType
        BY <3>1 DEF Call, CallType, Ops
      <4> QED
        BY <1>3, <4>1, AppendIs, Zenon
    <3> QED
      BY <1>3, <3>2, <3>3, <3>4, Zenon
  <2> QED
    BY <2>3, <2>4
<1>6. duplex' = IF Decides(c) THEN c = "{" ELSE duplex
  BY <1>3 DEF OpenBracket, CloseBracket, Decides
<1>7. WillTell(line')
  <2>1. Searched(line', IF c = " " THEN calls ELSE calls \o BracketCalls(c, wasBus),
                 IF Decides(c) THEN c = "{" ELSE duplex, firstToken /\ c = " ", wasBus, wasDuplex)
    BY <1>2, <1>4, SearchedSeparator DEF Told
  <2>2. (firstToken /\ c = " ") = FALSE
    BY <1>2
  <2>3. Searched(line', calls', duplex', FALSE, wasBus, wasDuplex)
    BY <1>2, <1>5, <1>6, <2>1, <2>2, Zenon
  <2> QED
    BY <1>1, <2>3, Zenon DEF WillTell
<1>8. Between'
  BY <1>2, <1>4, <1>7, BackBetween, Zenon
<1>9. Within' /\ LineMeaning'
  BY <1>1 DEF Within, LineMeaning
<1> QED
  BY <1>8, <1>9 DEF Scanned

\* A word begins at a cut.
LEMMA BeginTokenScans ==
  ASSUME IInv, Scanned, scan = "searching", ahead' = "", UNCHANGED <<wasDuplex, wasBus>>,
         NEW c \in Alphabet, BeginToken(c)
  PROVE  Scanned'
<1>1. /\ c \notin Separators /\ Read(c) /\ scan' = "inToken" /\ word' = <<c>>
      /\ UNCHANGED <<bus, duplex, firstToken, calls>>
  BY DEF BeginToken
<1>2. TypeOK /\ Between
  BY DEF IInv, Scanned
<1>3. PICK s \in Seq(Alphabet) : Told(s) /\ Adds(s, c, line') /\ AtCut(s)
  BY <1>1, <1>2, ReadsOn, Zenon
<1>4. AddsWord(s, word', line')
  <2>1. s \o <<c>> = Append(s, c) /\ Len(<<c>>) > 0
    BY AppendIs, Zenon
  <2> QED
    BY <1>1, <1>3, <2>1, Zenon DEF AddsWord, Adds
<1>5. WillTell(s)
  BY <1>1, <1>3, Zenon DEF Told, WillTell
<1>6. Within'
  BY <1>4, <1>5, Zenon DEF Within, Told, WillTell
<1>7. Between' /\ LineMeaning'
  BY <1>1 DEF Between, LineMeaning
<1> QED
  BY <1>6, <1>7 DEF Scanned

LEMMA SearchingScans == IInv /\ Scanned /\ Searching => Scanned'
<1> SUFFICES ASSUME IInv, Scanned, Searching
             PROVE  Scanned'
  OBVIOUS
<1>1. scan = "searching" /\ ahead' = "" /\ UNCHANGED <<wasDuplex, wasBus>>
  BY DEF Searching
<1>2. CASE SkipBlank
  BY <1>1, <1>2, SkipBlankScans
<1>3. CASE Comment
  BY <1>1, <1>3, CommentScans
<1>4. ASSUME NEW c \in Alphabet, OpenBracket(c) \/ CloseBracket(c) PROVE Scanned'
  BY <1>1, <1>4, BracketScans
<1>5. ASSUME NEW c \in Alphabet, BeginToken(c) PROVE Scanned'
  BY <1>1, <1>5, BeginTokenScans
<1> QED
  BY <1>2, <1>3, <1>4, <1>5 DEF Searching

LEMMA InTokenScans ==
  ASSUME IInv, Scanned, NEW c \in Alphabet, InToken(c)
  PROVE  Scanned'
<1>1. /\ scan = "inToken" /\ c \in Character /\ Read(c) /\ word' = Append(word, c)
      /\ UNCHANGED <<bus, duplex, scan, firstToken, ahead, calls, wasDuplex, wasBus>>
  BY DEF InToken, Character
<1>2. Within /\ word \in Seq(Character)
  BY DEF IInv, TypeOK, Scanned, Character
<1>3. ahead = ""
  BY <1>1, <1>2, Zenon DEF Within
<1>4. PICK s \in Seq(Alphabet) : Told(s) /\ AddsWord(s, word, line)
  BY <1>1, <1>2, Zenon DEF Within
<1>5. line' = Append(line, c)
  BY <1>1, <1>3, Zenon DEF Read
<1>6. AddsWord(s, word', line')
  <2>1. \A w \in Seq(Alphabet) : Append(s \o w, c) = s \o Append(w, c) /\ Len(Append(w, c)) > 0
    <3>1. TAKE w \in Seq(Alphabet)
    <3>2. Append(s \o w, c) = (s \o w) \o <<c>> /\ Append(w, c) = w \o <<c>>
      OBVIOUS
    <3>3. Len(Append(w, c)) = Len(w) + 1 /\ Len(w) \in Nat
      OBVIOUS
    <3>4. (s \o w) \o <<c>> = s \o (w \o <<c>>)
      BY ConcatAssociative
    <3> QED
      BY <3>2, <3>3, <3>4
  <2>2. word \in Seq(Alphabet)
    BY <1>2 DEF Character
  <2>3. line = s \o word /\ AtCut(s)
    BY <1>4, Zenon DEF AddsWord
  <2> QED
    BY <1>1, <1>5, <2>1, <2>2, <2>3, Zenon DEF AddsWord
<1>7. WillTell(s)
  BY <1>1, <1>4, Zenon DEF Told, WillTell
<1>8. Within'
  BY <1>1, <1>3, <1>6, <1>7, Zenon DEF Within, Told, WillTell
<1>9. Between' /\ LineMeaning'
  BY <1>1 DEF Between, LineMeaning
<1> QED
  BY <1>8, <1>9 DEF Scanned

LEMMA NothingBefore ==
  ASSUME NEW b
  PROVE  <<>> \o (IF b = "none" THEN <<>> ELSE <<Call("close", 0)>>) = (IF b = "none" THEN <<>> ELSE <<Call("close", 0)>>)
<1> DEFINE q == IF b = "none" THEN <<>> ELSE <<Call("close", 0)>>
<1>1. q \in Seq(CallType)
  <2>1. <<>> \in Seq(CallType) /\ Call("close", 0) \in CallType
    BY EmptySeq DEF Call, CallType, Ops
  <2>2. <<Call("close", 0)>> \in Seq(CallType)
    BY <2>1
  <2> QED
    BY <2>1, <2>2
<1> HIDE DEF q
<1>2. <<>> \o q = q
  BY <1>1, ConcatEmptySeq, Zenon
<1> QED
  BY <1>2 DEF q

\* handle_command of the word that ends here, seen from the line up to it.
LEMMA NothingEntered ==
  ASSUME IInv, scan = "inToken", ~IsGlobal(word), HandleCommand("searching") \/ HandleCommand("idle"),
         NEW s \in Seq(Alphabet), Told(s), NEW t, AddsWord(s, word, t)
  PROVE  WillTell(t) /\ bus' = wasBus'
<1>1. /\ calls' = calls \o WordCalls(word) /\ firstToken' = FALSE
      /\ UNCHANGED <<bus, duplex, wasDuplex, wasBus>>
  BY DEF HandleCommand
<1>2. word \in Seq(Character) /\ bus \in Buses /\ duplex \in BOOLEAN /\ bus = wasBus
  BY DEF IInv, TypeOK, Undone, Character
<1>3. Harmless(word, firstToken)
  <2>1. SUFFICES ASSUME NEW n \in Names, firstToken, Parts(word).body = <<n>> PROVE FALSE
    BY Zenon DEF Harmless
  <2>2. Len(Body(word)) = 1 /\ Body(word)[1] = n
    BY <1>2, <2>1, NamesAgree, Zenon
  <2> QED
    BY <2>1, <2>2, Zenon DEF IsGlobal
<1>4. WordMeaning(word, wasBus, duplex) = WordCalls(word)
  BY <1>2, WordsMean, Zenon
<1>5. Searched(t, calls \o WordMeaning(word, wasBus, duplex), duplex, FALSE, wasBus, wasDuplex)
  BY <1>2, <1>3, SearchedWord, Zenon DEF Told
<1> QED
  BY <1>1, <1>2, <1>4, <1>5, Zenon DEF WillTell

LEMMA OneEntered ==
  ASSUME IInv, scan = "inToken", IsGlobal(word), Switch(BusOf[Body(word)[1]]),
         UNCHANGED <<duplex, wasDuplex, wasBus>>,
         NEW s \in Seq(Alphabet), Told(s), NEW t, AddsWord(s, word, t),
         NEW u, Closes(t, u), CodeOf(line') = u
  PROVE  LineMeaning'
<1>1. firstToken /\ Len(Body(word)) = 1 /\ Body(word)[1] \in Names
  BY DEF IsGlobal
<1>2. word \in Seq(Character) /\ bus = wasBus /\ calls = <<>>
  BY <1>1 DEF IInv, TypeOK, Undone, Character
<1>3. PICK n \in Names : n = Body(word)[1]
  BY <1>1
<1>4. Naming(word, n)
  BY <1>1, <1>2, <1>3, NamesAgree, Zenon DEF Naming
<1>5. Blank(s)
  BY <1>1, Zenon DEF Told, Searched, Blank
<1>6. Entering(u) = {n}
  <2>1. Enters(s, word, t, n, u)
    BY <1>4, <1>5, Zenon DEF Enters
  <2> QED
    BY <1>2, <1>3, <2>1, WordEnters, Zenon
<1>7. bus' = BusOf[n]
  BY <1>3, Zenon DEF Switch
<1>8. calls' = (IF wasBus' = "none" THEN <<>> ELSE <<Call("close", 0)>>) \o <<Call("open", 0)>>
  <2>1. calls' = <<>> \o (IF bus = "none" THEN <<>> ELSE <<Call("close", 0)>>) \o <<Call("open", 0)>>
    BY <1>2, Zenon DEF Switch
  <2> QED
    BY <1>2, <2>1, NothingBefore, Zenon
<1>9. duplex' = wasDuplex'
  <2>1. Deciding(s, Len(s) + 1) = {}
    <3>1. \A k \in 1 .. (Len(s) + 1) - 1 : k \in 1 .. Len(s)
      <4>1. Len(s) \in Nat
        OBVIOUS
      <4> QED
        BY <4>1
    <3>2. ~Decides(" ")
      BY DEF Decides
    <3> QED
      BY <1>5, <3>1, <3>2, Zenon DEF Deciding, Blank
  <2>2. DuplexAt(s, Len(s) + 1, wasDuplex) = wasDuplex
    BY <2>1, DuplexIs, Zenon
  <2>3. duplex = DuplexAt(s, Len(s) + 1, wasDuplex)
    BY Zenon DEF Told, Searched
  <2> QED
    BY <2>2, <2>3, Zenon
<1> QED
  BY <1>6, <1>7, <1>8, <1>9, Zenon DEF LineMeaning

LEMMA EndTokenScans ==
  ASSUME IInv, Scanned, NEW c \in Alphabet, EndToken(c)
  PROVE  Scanned'
<1>1. /\ scan = "inToken" /\ c \in Separators /\ Read(c) /\ ahead' = c
      /\ HandleCommand("searching")
  BY DEF EndToken
<1>2. Within /\ word \in Seq(Character) /\ c # ""
  BY <1>1 DEF IInv, TypeOK, Scanned, Character, Separators, Brackets
<1>3. ahead = ""
  BY <1>1, <1>2, Zenon DEF Within
<1>4. PICK s \in Seq(Alphabet) : Told(s) /\ AddsWord(s, word, line)
  BY <1>1, <1>2, Zenon DEF Within
<1>5. line \in Seq(Alphabet) /\ Adds(line, c, line')
  BY <1>1, <1>3, Zenon DEF IInv, TypeOK, Read, Adds
<1>6. CASE ~IsGlobal(word)
  <2>1. WillTell(line)
    BY <1>1, <1>4, <1>6, NothingEntered
  <2>2. scan' = "searching"
    BY <1>1, <1>6 DEF HandleCommand
  <2>3. Between'
    BY <1>1, <1>2, <1>5, <2>1, Zenon DEF Between, Told, WillTell
  <2>4. Within' /\ LineMeaning'
    BY <2>2 DEF Within, LineMeaning
  <2> QED
    BY <2>3, <2>4 DEF Scanned
<1>7. CASE IsGlobal(word)
  <2>1. /\ scan' = "idle" /\ Switch(BusOf[Body(word)[1]])
        /\ UNCHANGED <<duplex, wasDuplex, wasBus>>
    BY <1>1, <1>7 DEF HandleCommand
  <2>2. \A k \in 1 .. Len(line) : line[k] # "#"
    <3>1. \A k \in 1 .. Len(s) : s[k] # "#"
      BY <1>4, Zenon DEF Told, Searched
    <3> QED
      BY <1>2, <1>4, <3>1, WordHasNone
  <2>3. \E u : Closes(line, u) /\ CodeOf(line') = u
    <3>1. CASE c = "#"
      <4>1. "#" \in Alphabet
        BY AlphabetAssumption
      <4>2. CodeOf(line') = line
        BY <1>5, <2>2, <3>1, <4>1, CodeEnds, Zenon
      <4> QED
        BY <1>5, <4>2, ClosesItself, Zenon
    <3>2. CASE c # "#"
      <4>1. /\ Len(line) \in Nat /\ Len(line') = Len(line) + 1 /\ line'[Len(line')] = c
            /\ \A k \in 1 .. Len(line) : line'[k] = line[k]
        BY <1>5, OneMoreCharacter
      <4>2. \A k \in 1 .. Len(line') : k \in 1 .. Len(line) \/ k = Len(line')
        <5>1. Len(line) \in Nat /\ Len(line') = Len(line) + 1
          BY <4>1, Zenon
        <5> QED
          BY <5>1
      <4>3. \A k \in 1 .. Len(line') : line'[k] # "#"
        BY <2>2, <3>2, <4>1, <4>2, Zenon
      <4>4. CodeOf(line') = line'
        BY <4>3, AllCode, Zenon
      <4> QED
        BY <1>1, <1>5, <4>4, ClosedByOne, Zenon
    <3> QED
      BY <3>1, <3>2
  <2>4. LineMeaning'
    BY <1>1, <1>4, <1>7, <2>1, <2>3, OneEntered, Zenon
  <2>5. Between' /\ Within'
    BY <2>1 DEF Between, Within
  <2> QED
    BY <2>4, <2>5 DEF Scanned
<1> QED
  BY <1>6, <1>7

LEMMA EndOfLineScans == IInv /\ Scanned /\ EndOfLine => Scanned'
<1> SUFFICES ASSUME IInv, Scanned, EndOfLine
             PROVE  Scanned'
  OBVIOUS
<1>1. ahead = "" /\ line' = line /\ Between /\ Within
  BY DEF EndOfLine, Scanned
<1>2. CASE scan = "searching" /\ scan' = "idle"
             /\ UNCHANGED <<bus, duplex, word, firstToken, calls, wasDuplex, wasBus>>
  <2>1. Told(line)
    BY <1>1, <1>2, Zenon DEF Between
  <2>2. CodeOf(line') = line
    BY <1>1, <2>1, AllCode, Zenon DEF Told, Searched
  <2>3. bus' = wasBus' /\ WillTell(line)
    BY <1>2, <2>1 DEF IInv, Undone, Told, WillTell
  <2>4. LineMeaning'
    BY <2>2, <2>3, LineTold, Zenon
  <2>5. Between' /\ Within'
    BY <1>2 DEF Between, Within
  <2> QED
    BY <2>4, <2>5 DEF Scanned
<1>3. CASE scan = "inToken" /\ HandleCommand("idle")
  <2>1. PICK s \in Seq(Alphabet) : Told(s) /\ AddsWord(s, word, line)
    BY <1>1, <1>3, Zenon DEF Within
  <2>2. word \in Seq(Character) /\ line \in Seq(Alphabet)
    BY DEF IInv, TypeOK, Character
  <2>3. scan' = "idle" /\ UNCHANGED <<duplex, wasDuplex, wasBus>>
    BY <1>3 DEF HandleCommand
  <2>4. CodeOf(line') = line
    <3>1. \A k \in 1 .. Len(s) : s[k] # "#"
      BY <2>1, Zenon DEF Told, Searched
    <3>2. \A k \in 1 .. Len(line) : line[k] # "#"
      BY <2>1, <2>2, <3>1, WordHasNone
    <3> QED
      BY <1>1, <3>2, AllCode, Zenon
  <2>5. LineMeaning'
    <3>1. CASE ~IsGlobal(word)
      <4>1. WillTell(line) /\ bus' = wasBus'
        BY <1>3, <2>1, <3>1, NothingEntered
      <4> QED
        BY <2>4, <4>1, LineTold, Zenon
    <3>2. CASE IsGlobal(word)
      <4>1. Switch(BusOf[Body(word)[1]])
        BY <1>3, <3>2 DEF HandleCommand
      <4>2. Closes(line, line)
        BY <2>2, ClosesItself
      <4> QED
        BY <1>3, <2>1, <2>3, <2>4, <3>2, <4>1, <4>2, OneEntered, Zenon
    <3> QED
      BY <3>1, <3>2
  <2>6. Between' /\ Within'
    BY <2>3 DEF Between, Within
  <2> QED
    BY <2>5, <2>6 DEF Scanned
<1> QED
  BY <1>2, <1>3 DEF EndOfLine

LEMMA NextScans == IInv /\ Scanned /\ [Next]_vars => Scanned'
<1> SUFFICES ASSUME IInv, Scanned, [Next]_vars
             PROVE  Scanned'
  OBVIOUS
<1>1. CASE Begin \/ Searching \/ EndOfLine
  BY <1>1, BeginScans, SearchingScans, EndOfLineScans
<1>2. CASE \E c \in Alphabet : InToken(c) \/ EndToken(c)
  BY <1>2, InTokenScans, EndTokenScans
<1>3. CASE UNCHANGED vars
  BY <1>3 DEF vars, Scanned, Between, Within, Told, LineMeaning
<1> QED
  BY <1>1, <1>2, <1>3 DEF Next

\* A line calls what its words and brackets mean, in their order and each once,
\* and leaves behind the bus and the duplex flag that it says (commands.c:51,
\* commands.c:125): for lines of every length over every alphabet, however the
\* words are separated, so that no separator is lost or acted on twice where a
\* word ends at it.
THEOREM LineMeans == Spec => []LineMeaning
<1>1. Init => IInv /\ Scanned
  BY InitIInv, ScannedFirst
<1>2. IInv /\ Scanned /\ [Next]_vars => (IInv /\ Scanned)'
  BY NextKeeps, NextScans
<1>3. Scanned => LineMeaning
  BY DEF Scanned
<1> QED
  BY <1>1, <1>2, <1>3, PTL DEF Spec
=============================================================================
