------------------------------ MODULE LedProofs -------------------------------
(***************************************************************************)
(* Proofs about the LED.  First LedSequence, for every table of patterns:   *)
(* the step to come exists, and the 16-bit interpolation is exact.  Then    *)
(* LedTimer, for every size of the counter and every STEP_TIME: it          *)
(* implements LedSequence; two steps of a pattern are neither too close nor *)
(* too far apart although the counter is read in two halves; and the LED is *)
(* lit for as many ticks as the brightness says.                            *)
(***************************************************************************)
EXTENDS LedTimer, TLAPS

Steps == [dur : 1 .. 255, from : 0 .. 255, to : 0 .. 255]

\* What the assumption says of one pattern and of one of its steps.
LEMMA PatternFacts ==
  ASSUME NEW p \in DOMAIN Patterns
  PROVE  /\ Len(Patterns[p]) \in 1 .. 85
         /\ \A i \in 1 .. Len(Patterns[p]) : Patterns[p][i] \in Steps
<1>1. Len(Patterns[p]) \in 1 .. 85
  BY PatternsAssumption
<1>2. Patterns[p] \in Seq(Steps)
  BY PatternsAssumption DEF Steps
<1>3. \A i \in 1 .. Len(Patterns[p]) : Patterns[p][i] \in Steps
  BY <1>2
<1> QED
  BY <1>1, <1>3

\* The step after the one that is played, and the one after that.
LEMMA Successor ==
  ASSUME NEW n \in 1 .. 85, NEW i \in 0 .. n - 1
  PROVE  (i + 1) % n = IF i + 1 = n THEN 0 ELSE i + 1
<1>1. CASE i + 1 = n
  BY <1>1
<1>2. CASE i + 1 # n
  BY <1>2
<1> QED
  BY <1>1, <1>2

IInv == TypeOK /\ StepsInOrder

\* Arithmetic of an index.
LEMMA IndexBounds ==
  ASSUME NEW n \in 1 .. 85, NEW i \in 0 .. n - 1, NEW j,
         j = IF i + 1 = n THEN 0 ELSE i + 1
  PROVE  i \in 0 .. 84 /\ j \in 0 .. 84 /\ i + 1 \in 1 .. n /\ i < n
OBVIOUS

\* Loading a step that exists establishes the invariant.
LEMMA LoadKeeps ==
  ASSUME NEW p \in DOMAIN Patterns, NEW i \in 0 .. Len(Patterns[p]) - 1,
         LoadStep(p, i), seq' = p, current' = i, brightness' \in 0 .. 255
  PROVE  IInv'
<1> DEFINE n == Len(Patterns[p])
           step == Patterns[p][i + 1]
<1>1. n \in 1 .. 85 /\ i \in 0 .. n - 1
  BY PatternFacts
<1>2. step \in Steps
  <2>1. i + 1 \in 1 .. n
    BY <1>1
  <2> QED
    BY <2>1, PatternFacts
<1>3. step.dur \in 1 .. 255 /\ step.from \in 0 .. 255 /\ step.to \in 0 .. 255
  BY <1>2 DEF Steps
<1>4. step = [dur |-> step.dur, from |-> step.from, to |-> step.to]
  BY <1>2 DEF Steps
<1>5. /\ t' = 0 /\ dur' = step.dur /\ from' = step.from /\ to' = step.to
      /\ index' = (i + 1) % n
  BY DEF LoadStep
<1>6. index' = IF i + 1 = n THEN 0 ELSE i + 1
  BY <1>1, <1>5, Successor
<1>7. TypeOK'
  <2>1. index' \in 0 .. 84 /\ current' \in 0 .. 84
    <3> HIDE DEF n
    <3>1. i \in 0 .. 84 /\ index' \in 0 .. 84
      BY <1>1, <1>6, IndexBounds, Zenon
    <3> QED
      BY <3>1, Zenon
  <2>2. seq' \in DOMAIN Patterns
    OBVIOUS
  <2>3. t' \in 0 .. 255 /\ dur' \in 1 .. 255 /\ t' <= dur'
    <3>1. \A d \in 1 .. 255 : 0 \in 0 .. 255 /\ 0 <= d
      OBVIOUS
    <3> QED
      BY <1>3, <1>5, <3>1, Zenon
  <2>4. from' \in 0 .. 255 /\ to' \in 0 .. 255
    BY <1>3, <1>5, Zenon
  <2> QED
    BY <2>1, <2>2, <2>3, <2>4, Zenon DEF TypeOK
<1>8. StepsInOrder'
  <2>1. [dur |-> dur', from |-> from', to |-> to'] = step
    <3> HIDE DEF step
    <3> QED
      BY <1>4, <1>5, Zenon
  <2>2. Patterns[seq'][current' + 1] = step /\ Len(Patterns[seq']) = n
    BY Zenon
  <2>3. current' < n /\ index' = IF current' + 1 = n THEN 0 ELSE current' + 1
    BY <1>1, <1>6
  <2> QED
    BY <1>7, <2>1, <2>2, <2>3, Zenon DEF StepsInOrder, TypeOK
<1> QED
  BY <1>7, <1>8 DEF IInv

LEMMA InitIInv == Init => IInv
<1> SUFFICES ASSUME Init
             PROVE  IInv
  OBVIOUS
<1> DEFINE n == Len(Patterns[First])
           step == Patterns[First][InitStep + 1]
<1>1. First \in DOMAIN Patterns /\ n \in 1 .. 85
  <2>1. First \in DOMAIN Patterns
    BY PatternsAssumption
  <2> QED
    BY <2>1, PatternFacts
<1>2. InitStep \in 0 .. n - 1
  <2>1. \A m \in 1 .. 85 : 1 % m \in 0 .. m - 1
    OBVIOUS
  <2> QED
    BY <1>1, <2>1, Zenon DEF InitStep
<1>3. step \in Steps
  <2>1. InitStep + 1 \in 1 .. n
    BY <1>1, <1>2
  <2> QED
    BY <1>1, <2>1, PatternFacts
<1>4. step.dur \in 1 .. 255 /\ step.from \in 0 .. 255 /\ step.to \in 0 .. 255
  BY <1>3 DEF Steps
<1>5. step = [dur |-> step.dur, from |-> step.from, to |-> step.to]
  BY <1>3 DEF Steps
<1>6. /\ t = 0 /\ dur = step.dur /\ from = step.from /\ to = step.to
      /\ index = (InitStep + 1) % n /\ seq = First /\ current = InitStep /\ brightness = 255
  BY DEF Init
<1>7. index = IF InitStep + 1 = n THEN 0 ELSE InitStep + 1
  BY <1>1, <1>2, <1>6, Successor
<1>8. TypeOK
  <2>1. index \in 0 .. 84 /\ current \in 0 .. 84
    <3> HIDE DEF n
    <3>1. InitStep \in 0 .. 84 /\ index \in 0 .. 84
      BY <1>1, <1>2, <1>7, IndexBounds, Zenon
    <3> QED
      BY <1>6, <3>1, Zenon
  <2>2. seq \in DOMAIN Patterns
    BY <1>1, <1>6, Zenon
  <2>3. t \in 0 .. 255 /\ dur \in 1 .. 255 /\ t <= dur
    <3>1. \A d \in 1 .. 255 : 0 \in 0 .. 255 /\ 0 <= d
      OBVIOUS
    <3> QED
      BY <1>4, <1>6, <3>1, Zenon
  <2>4. from \in 0 .. 255 /\ to \in 0 .. 255
    BY <1>4, <1>6, Zenon
  <2>5. brightness \in 0 .. 255
    BY <1>6
  <2> QED
    BY <2>1, <2>2, <2>3, <2>4, <2>5, Zenon DEF TypeOK
<1>9. StepsInOrder
  <2>1. [dur |-> dur, from |-> from, to |-> to] = step
    <3> HIDE DEF step
    <3> QED
      BY <1>5, <1>6, Zenon
  <2>2. Patterns[seq][current + 1] = step /\ Len(Patterns[seq]) = n
    BY <1>6, Zenon
  <2>3. current < n /\ index = IF current + 1 = n THEN 0 ELSE current + 1
    BY <1>1, <1>2, <1>6, <1>7
  <2> QED
    BY <1>8, <2>1, <2>2, <2>3, Zenon DEF StepsInOrder, TypeOK
<1> QED
  BY <1>8, <1>9 DEF IInv

-----------------------------------------------------------------------------
(* The interpolation *)

\* A product of bytes is no larger than its second factor times 255.
LEMMA ByteProduct ==
  ASSUME NEW x \in 0 .. 255, NEW y \in 0 .. 255
  PROVE  x * y \in Nat /\ x * y <= 255 * y
OBVIOUS

\* Division rounds down.
LEMMA RoundsDown ==
  ASSUME NEW m \in Nat, NEW d \in 1 .. 255, m <= 255 * d
  PROVE  /\ m \div d \in 0 .. 255
         /\ (m \div d) * d <= m
         /\ m < (m \div d + 1) * d
OBVIOUS

\* No 16-bit product or sum of the interpolation overflows, and the quotient is
\* a byte.
LEMMA FadeExact ==
  ASSUME TypeOK, ~StepOver
  PROVE  /\ Fade \in 0 .. 255
         /\ Fade * dur <= from * dur + (to - from) * t
         /\ from * dur + (to - from) * t < (Fade + 1) * dur
<1>1. t \in 0 .. 255 /\ dur \in 1 .. 255 /\ dur - t \in 1 .. 255
  BY DEF TypeOK, StepOver
<1>2. from \in 0 .. 255 /\ to \in 0 .. 255
  BY DEF TypeOK
<1> DEFINE a == from * (dur - t)
           b == to * t
<1>3. a \in Nat /\ a <= 255 * (dur - t) /\ b \in Nat /\ b <= 255 * t
  BY <1>1, <1>2, ByteProduct
<1>4. a + b \in Nat /\ a + b <= 255 * dur /\ a < 65536 /\ b < 65536 /\ a + b < 65536
  BY <1>1, <1>3
<1>5. U16(dur - t) = dur - t /\ U16(a) = a /\ U16(b) = b /\ U16(a + b) = a + b
  BY <1>1, <1>3, <1>4 DEF U16
<1>6. Fade = (a + b) \div dur
  BY <1>5 DEF Fade
<1>7. from * dur + (to - from) * t = a + b
  BY <1>1, <1>2
<1>8. /\ (a + b) \div dur \in 0 .. 255
      /\ ((a + b) \div dur) * dur <= a + b
      /\ a + b < ((a + b) \div dur + 1) * dur
  <2> DEFINE m == a + b
  <2>1. m \in Nat /\ dur \in 1 .. 255
    BY <1>1, <1>4
  <2>2. m <= 255 * dur
    BY <1>4
  <2> HIDE DEF m
  <2>3. m \div dur \in 0 .. 255 /\ (m \div dur) * dur <= m /\ m < (m \div dur + 1) * dur
    BY <2>1, <2>2, RoundsDown, Zenon
  <2> QED
    BY <2>3, Zenon DEF m
<1> HIDE DEF a, b
<1> QED
  BY <1>6, <1>7, <1>8, Zenon

-----------------------------------------------------------------------------
(* The steps *)

LEMMA SetSeqKeeps ==
  ASSUME IInv, NEW p \in DOMAIN Patterns, SetSeq(p)
  PROVE  IInv'
<1>1. LoadStep(p, 0) /\ seq' = p /\ current' = 0 /\ brightness' = brightness
  BY DEF SetSeq
<1>2. 0 \in 0 .. Len(Patterns[p]) - 1
  <2>1. Len(Patterns[p]) \in 1 .. 85
    BY PatternFacts
  <2>2. \A n \in 1 .. 85 : 0 \in 0 .. n - 1
    OBVIOUS
  <2> QED
    BY <2>1, <2>2, Zenon
<1>3. brightness' \in 0 .. 255
  BY <1>1 DEF IInv, TypeOK
<1> QED
  BY <1>1, <1>2, <1>3, LoadKeeps

\* The step that seq_index announced is the one after the current.
LEMMA NextStepKeeps == IInv /\ NextStep => IInv'
<1> SUFFICES ASSUME IInv, NextStep
             PROVE  IInv'
  OBVIOUS
<1> DEFINE n == Len(Patterns[seq])
<1>1. seq \in DOMAIN Patterns /\ n \in 1 .. 85 /\ current \in 0 .. n - 1
  <2>1. seq \in DOMAIN Patterns
    BY DEF IInv, TypeOK
  <2>2. n \in 1 .. 85
    BY <2>1, PatternFacts
  <2> QED
    BY <2>1, <2>2 DEF IInv, TypeOK, StepsInOrder
<1>2. index = IF current + 1 = n THEN 0 ELSE current + 1
  BY DEF IInv, StepsInOrder
<1>3. index \in 0 .. n - 1
  BY <1>1, <1>2
<1>4. LoadStep(seq, index) /\ seq' = seq /\ brightness' = brightness /\ current' = index
  BY <1>2 DEF NextStep
<1>5. brightness' \in 0 .. 255
  BY <1>4 DEF IInv, TypeOK
<1> QED
  BY <1>1, <1>3, <1>4, <1>5, LoadKeeps

LEMMA FadeOnKeeps == IInv /\ FadeOn => IInv'
<1> SUFFICES ASSUME IInv, FadeOn
             PROVE  IInv'
  OBVIOUS
<1>1. /\ ~StepOver /\ brightness' = Fade % 256 /\ t' = (t + 1) % 256
      /\ UNCHANGED <<seq, index, dur, from, to, current>>
  BY DEF FadeOn
<1>2. t \in 0 .. 255 /\ dur \in 1 .. 255 /\ t < dur
  BY <1>1 DEF IInv, TypeOK, StepOver
<1>3. t' \in 0 .. 255 /\ t' <= dur
  BY <1>1, <1>2
<1>4. Fade \in 0 .. 255
  BY <1>1, FadeExact DEF IInv
<1>5. brightness' \in 0 .. 255
  BY <1>1, <1>4
<1>6. TypeOK'
  BY <1>1, <1>3, <1>5 DEF IInv, TypeOK
<1>7. StepsInOrder'
  BY <1>1, <1>6 DEF IInv, StepsInOrder, TypeOK
<1> QED
  BY <1>6, <1>7 DEF IInv

LEMMA NextKeeps == IInv /\ [Next]_vars => IInv'
<1> SUFFICES ASSUME IInv, [Next]_vars
             PROVE  IInv'
  OBVIOUS
<1>1. CASE UNCHANGED vars
  BY <1>1 DEF vars, IInv, TypeOK, StepsInOrder
<1>2. CASE Next
  BY <1>2, SetSeqKeeps, NextStepKeeps, FadeOnKeeps DEF Next, SeqTick
<1> QED
  BY <1>1, <1>2

\* The invariant holds of every behaviour, for every table of patterns.
LEMMA InvariantHolds == Spec => []IInv
<1>1. Init => IInv
  BY InitIInv
<1>2. IInv /\ [Next]_vars => IInv'
  BY NextKeeps
<1> QED
  BY <1>1, <1>2, PTL DEF Spec

\* The types: t stays a byte and never passes seq_dur (led.c:107, 133-138).
THEOREM LedTypes == Spec => []TypeOK
<1>1. IInv => TypeOK
  BY DEF IInv
<1> QED
  BY <1>1, InvariantHolds, PTL

\* The step played and the step announced belong to the pattern chosen last,
\* also right after the led command chose a shorter one (led.c:116-128).
THEOREM LedStepsInOrder == Spec => []StepsInOrder
<1>1. IInv => StepsInOrder
  BY DEF IInv
<1> QED
  BY <1>1, InvariantHolds, PTL

\* The 16-bit interpolation of led.c:137 is the exact one, rounded down, for
\* every table whose steps last 1 to 255 ticks.
THEOREM LedLinear == Spec => Linear
<1>1. IInv /\ [Next]_vars =>
        [t' = t + 1 =>
          /\ brightness' * dur <= from * dur + (to - from) * t
          /\ from * dur + (to - from) * t < (brightness' + 1) * dur]_vars
  <2> SUFFICES ASSUME IInv, [Next]_vars, ~UNCHANGED vars, t' = t + 1
               PROVE  /\ brightness' * dur <= from * dur + (to - from) * t
                      /\ from * dur + (to - from) * t < (brightness' + 1) * dur
    OBVIOUS
  <2>1. t \in 0 .. 255
    BY DEF IInv, TypeOK
  <2>2. \A p \in DOMAIN Patterns : ~SetSeq(p)
    BY <2>1 DEF SetSeq, LoadStep
  <2>3. ~NextStep
    BY <2>1 DEF NextStep, LoadStep
  <2>4. FadeOn
    BY <2>2, <2>3 DEF Next, SeqTick
  <2>5. ~StepOver /\ brightness' = Fade % 256
    BY <2>4 DEF FadeOn
  <2>6. Fade \in 0 .. 255
    BY <2>5, FadeExact DEF IInv
  <2>7. brightness' = Fade
    BY <2>5, <2>6
  <2> QED
    BY <2>5, <2>7, FadeExact DEF IInv
<1> QED
  BY <1>1, InvariantHolds, PTL DEF Spec, Linear

-----------------------------------------------------------------------------
(* The counter and the light *)

Size == Base * Highs

\* The counter when its low byte was read.
Seen == Base * high + low

TimerTypes ==
  /\ ticks \in 0 .. Size - 1 /\ stepTimer \in Nat /\ round \in 0 .. RoundTicks
  /\ pc \in {"loop", "compare", "step", "store"}
  /\ low \in 0 .. Base - 1 /\ high \in Nat /\ since \in Nat
  /\ wraps \in BOOLEAN /\ slow \in BOOLEAN

\* Not too early: while the time of the next step fits into the counter, it is
\* STEP_TIME ticks after the step before, or later.
NotEarly ==
  /\ ~wraps => stepTimer >= StepTime
  /\ pc \in {"loop", "compare"} /\ ~wraps /\ since <= Longest
       => since + stepTimer >= ticks + StepTime
  /\ pc = "compare" /\ ~wraps /\ since <= Longest => since + stepTimer >= Seen + StepTime
  /\ pc = "store" /\ since <= Longest => since + low >= ticks % Base

\* Not too late: a time that was neither misread nor overtaken by the counter is
\* close, and the comparison that is going on sees it when it has come.
NotLate ==
  /\ pc \in {"step", "store"} => since <= round
  /\ ~slow /\ pc \in {"compare", "store"} => Seen <= ticks /\ ticks <= Seen + round
  /\ ~slow /\ pc = "loop" =>
       stepTimer < ticks \/ since + stepTimer <= ticks + StepTime + RoundTicks
  /\ ~slow /\ pc = "compare" =>
       stepTimer < Seen \/ since + stepTimer <= ticks + StepTime + RoundTicks
  /\ ~slow /\ pc \in {"loop", "compare"} => since <= StepTime + 2 * RoundTicks + round

\* The light of a period so far: bit k of the brightness from tick 2^k to the
\* next power of two, and so many ticks before as the bits below say.
Place == ticks % Base
Bit(n, k) == (n \div k) % 2
LightTypes == lit \in BOOLEAN /\ steady \in BOOLEAN /\ onTicks \in Nat

Counted ==
  steady =>
    /\ \A k \in Powers : k <= Place /\ Place < 2 * k =>
         /\ lit <=> Bit(brightness, k) = 1
         /\ onTicks = (brightness % k) + (IF lit THEN Place - k + 1 ELSE 0)
    /\ DutyCycle

Pacing == TimerTypes /\ NotEarly /\ NotLate

-----------------------------------------------------------------------------
(* Arithmetic of the counter *)

LEMMA Bases == Base \in {2, 4, 8, 16, 32, 64, 128, 256}
<1>1. {2 ^ n : n \in 1 .. 8} = {2, 4, 8, 16, 32, 64, 128, 256}
  OBVIOUS
<1> QED
  BY <1>1, TimerAssumption

LEMMA PowersAre == Powers = {1, 2, 4, 8, 16, 32, 64, 128}
BY DEF Powers

LEMMA Sizes ==
  /\ Highs \in Nat /\ Highs >= 2 /\ StepTime \in Nat /\ RoundTicks \in Nat /\ RoundTicks >= 1
  /\ Size \in Nat /\ Size >= 4 /\ StepTime + 4 * RoundTicks < Size
<1>1. Highs \in Nat /\ Highs >= 2 /\ StepTime \in Nat /\ RoundTicks \in Nat /\ RoundTicks >= 1
  BY TimerAssumption
<1>2. \A b \in {2, 4, 8, 16, 32, 64, 128, 256}, h \in Nat :
        h >= 2 => b * h \in Nat /\ b * h >= 4
  OBVIOUS
<1>3. Size \in Nat /\ Size >= 4
  BY <1>1, <1>2, Bases DEF Size
<1>4. StepTime + 4 * RoundTicks < Size
  BY TimerAssumption DEF Size
<1> QED
  BY <1>1, <1>3, <1>4

\* The counter is its bytes.
LEMMA Bytes ==
  \A n \in Nat : /\ n \div Base \in Nat /\ n % Base \in 0 .. Base - 1
                 /\ Base * (n \div Base) + (n % Base) = n
<1>1. \A b \in {2, 4, 8, 16, 32, 64, 128, 256}, n \in Nat :
        /\ n \div b \in Nat /\ n % b \in 0 .. b - 1
        /\ b * (n \div b) + (n % b) = n
  OBVIOUS
<1> QED
  BY <1>1, Bases

\* A counter that has grown since its low byte was read does not read smaller.
LEMMA ReadsNoSmaller ==
  \A h \in Nat, l \in 0 .. Base - 1, n \in Nat :
    Base * h + l <= n => Base * h + l <= Base * (n \div Base) + l
<1>1. \A b \in {2, 4, 8, 16, 32, 64, 128, 256}, h \in Nat, n \in Nat :
        \A l \in 0 .. b - 1 : b * h + l <= n => b * h + l <= b * (n \div b) + l
  OBVIOUS
<1> QED
  BY <1>1, Bases

\* What a tick does to the counter and to its low byte.
LEMMA Ticking ==
  \A n \in 0 .. Size - 1 :
    /\ (n + 1) % Size \in 0 .. Size - 1
    /\ (n + 1) % Size # 0 => (n + 1) % Size = n + 1
    /\ ((n + 1) % Size) % Base = IF n % Base = Base - 1 THEN 0 ELSE (n % Base) + 1
<1>1. \A b \in {2, 4, 8, 16, 32, 64, 128, 256}, n \in Nat :
        (n + 1) % b = IF n % b = b - 1 THEN 0 ELSE (n % b) + 1
  OBVIOUS
<1>2. \A b \in {2, 4, 8, 16, 32, 64, 128, 256}, h \in Nat, n \in Nat :
        n + 1 = b * h => n % b = b - 1 /\ 0 % b = 0
  OBVIOUS
<1>3. \A s \in Nat \ {0} : \A n \in 0 .. s - 1 : (n + 1) % s = IF n + 1 = s THEN 0 ELSE n + 1
  OBVIOUS
<1> SUFFICES ASSUME NEW n \in 0 .. Size - 1
             PROVE  /\ (n + 1) % Size \in 0 .. Size - 1
                    /\ (n + 1) % Size # 0 => (n + 1) % Size = n + 1
                    /\ ((n + 1) % Size) % Base = IF n % Base = Base - 1 THEN 0 ELSE (n % Base) + 1
  OBVIOUS
<1>4. (n + 1) % Size = IF n + 1 = Size THEN 0 ELSE n + 1
  BY <1>3, Sizes
<1>5. n \in Nat
  BY Sizes
<1>6. CASE n + 1 = Size
  <2>1. (n + 1) % Size = 0
    BY <1>4, <1>6, Zenon
  <2>2. n % Base = Base - 1 /\ 0 % Base = 0
    BY <1>2, <1>5, <1>6, Bases, Sizes DEF Size
  <2> QED
    BY <2>1, <2>2, Sizes
<1>7. CASE n + 1 # Size
  <2>1. (n + 1) % Size = n + 1
    BY <1>4, <1>7, Zenon
  <2>2. (n + 1) % Base = IF n % Base = Base - 1 THEN 0 ELSE (n % Base) + 1
    BY <1>1, <1>5, Bases
  <2>3. n + 1 \in 0 .. Size - 1
    BY <1>7, Sizes
  <2> QED
    BY <2>1, <2>2, <2>3
<1> QED
  BY <1>6, <1>7

-----------------------------------------------------------------------------
(* The pace *)

LEMMA InitPaces == TimerInit => Pacing
<1> SUFFICES ASSUME TimerInit
             PROVE  Pacing
  OBVIOUS
<1>1. /\ ticks = 0 /\ stepTimer = 0 /\ pc = "loop" /\ low = 0 /\ round = 0
      /\ high = 0 /\ since = 0 /\ wraps = TRUE /\ slow = FALSE
  BY DEF TimerInit
<1>2. TimerTypes
  <2>1. 0 \in 0 .. Base - 1
    BY Bases
  <2>2. ticks \in 0 .. Size - 1 /\ stepTimer \in Nat /\ round \in 0 .. RoundTicks /\ since \in Nat
    BY <1>1, Sizes
  <2>3. wraps \in BOOLEAN /\ slow \in BOOLEAN
    BY <1>1, Zenon
  <2> QED
    BY <1>1, <2>1, <2>2, <2>3 DEF TimerTypes
<1>3. NotEarly /\ NotLate
  BY <1>1, Sizes DEF NotEarly, NotLate
<1> QED
  BY <1>2, <1>3 DEF Pacing

LEMMA TickPaces == Pacing /\ TickInterrupt => Pacing'
<1> SUFFICES ASSUME Pacing, TickInterrupt
             PROVE  Pacing'
  OBVIOUS
<1>1. /\ round < RoundTicks /\ round' = round + 1 /\ ticks' = (ticks + 1) % Size
      /\ since' = (IF since > Longest THEN since ELSE since + 1)
      /\ slow' = (slow \/ ticks' = 0)
      /\ UNCHANGED <<stepTimer, pc, low, high, wraps>>
  BY DEF TickInterrupt, reading, Size
<1>2. TimerTypes /\ NotEarly /\ NotLate
  BY DEF Pacing
<1>3. /\ ticks \in Nat /\ ticks' \in 0 .. Size - 1 /\ ticks' \in Nat
      /\ ticks' # 0 => ticks' = ticks + 1
  <2>1. ticks \in 0 .. Size - 1
    BY <1>2 DEF TimerTypes
  <2>2. /\ ticks' \in 0 .. Size - 1
        /\ ticks' # 0 => ticks' = ticks + 1
    BY <1>1, <2>1, Ticking
  <2> QED
    BY <2>1, <2>2, Sizes
<1>9. /\ ticks' % Base \in Nat /\ ticks' % Base <= (ticks % Base) + 1 /\ ticks % Base \in Nat
  <2>1. ticks \in 0 .. Size - 1
    BY <1>2 DEF TimerTypes
  <2>2. ticks' % Base = IF ticks % Base = Base - 1 THEN 0 ELSE (ticks % Base) + 1
    BY <1>1, <2>1, Ticking
  <2>3. ticks % Base \in 0 .. Base - 1
    BY <1>3, Bytes
  <2>4. \A r \in 0 .. Base - 1 : r \in Nat
    BY Bases
  <2> QED
    BY <2>2, <2>3, <2>4
<1>4. TimerTypes'
  BY <1>1, <1>2, <1>3, Sizes DEF TimerTypes
<1>5. Seen' = Seen /\ Seen \in Nat
  <2>1. \A h \in Nat : \A l \in 0 .. Base - 1 : Base * h + l \in Nat
    BY Bases
  <2> QED
    BY <1>1, <1>2, <2>1 DEF Seen, TimerTypes
<1>6. since \in Nat /\ since' \in Nat /\ stepTimer \in Nat /\ round \in Nat /\ low \in Nat
  <2>1. \A r \in 0 .. Base - 1 : r \in Nat
    BY Bases
  <2> QED
    BY <1>1, <1>2, <2>1, Sizes DEF TimerTypes
<1>7. NotEarly'
  <2>1. Longest \in Nat
    BY Sizes DEF Longest
  <2>2. since' <= Longest => since <= Longest /\ since' = since + 1
    BY <1>1, <1>6, <2>1
  <2>3. ~wraps => stepTimer >= StepTime
    BY <1>2 DEF NotEarly
  <2>4. pc \in {"loop", "compare"} /\ ~wraps /\ since' <= Longest
          => since' + stepTimer >= ticks' + StepTime
    <3>1. pc \in {"loop", "compare"} /\ ~wraps /\ since' <= Longest
            => since + stepTimer >= ticks + StepTime /\ since' = since + 1
      BY <1>2, <2>2, Zenon DEF NotEarly
    <3>2. \A s, m, n \in Nat : s + m >= n + StepTime => (s + 1) + m >= (n + 1) + StepTime
      BY Sizes
    <3>3. \A s, m \in Nat : m >= StepTime => s + m >= 0 + StepTime
      BY Sizes
    <3> QED
      BY <1>3, <1>6, <2>3, <3>1, <3>2, <3>3, Zenon
  <2>5. pc = "compare" /\ ~wraps /\ since' <= Longest => since' + stepTimer >= Seen + StepTime
    BY <1>2, <1>5, <1>6, <2>2, Sizes DEF NotEarly
  <2>6. pc = "store" /\ since' <= Longest => since' + low >= ticks' % Base
    BY <1>2, <1>9, <1>6, <2>2 DEF NotEarly
  <2> QED
    BY <1>1, <1>5, <2>3, <2>4, <2>5, <2>6 DEF NotEarly
<1>8. NotLate'
  <2>1. since' <= since + 1
    BY <1>1, <1>6
  <2>2. pc \in {"step", "store"} => since' <= round'
    BY <1>1, <1>2, <1>6, <2>1 DEF NotLate
  <2>3. ~slow' => ~slow /\ ticks' = ticks + 1
    BY <1>1, <1>3
  <2>4. ~slow' /\ pc \in {"compare", "store"} => Seen <= ticks' /\ ticks' <= Seen + round'
    BY <1>1, <1>2, <1>3, <1>5, <1>6, <2>3 DEF NotLate
  <2>8. \A s, r, m, n \in Nat : r <= s + 1 =>
          /\ s + m <= n + StepTime + RoundTicks => r + m <= (n + 1) + StepTime + RoundTicks
          /\ m < n => m < n + 1
    BY Sizes
  <2>5. ~slow' /\ pc = "loop" =>
          stepTimer < ticks' \/ since' + stepTimer <= ticks' + StepTime + RoundTicks
    <3>1. ~slow' /\ pc = "loop" =>
            stepTimer < ticks \/ since + stepTimer <= ticks + StepTime + RoundTicks
      BY <1>2, <2>3, Zenon DEF NotLate
    <3> QED
      BY <1>3, <1>6, <2>1, <2>3, <2>8, <3>1, Zenon
  <2>6. ~slow' /\ pc = "compare" =>
          stepTimer < Seen \/ since' + stepTimer <= ticks' + StepTime + RoundTicks
    <3>1. ~slow' /\ pc = "compare" =>
            stepTimer < Seen \/ since + stepTimer <= ticks + StepTime + RoundTicks
      BY <1>2, <2>3, Zenon DEF NotLate
    <3> QED
      BY <1>3, <1>6, <2>1, <2>3, <2>8, <3>1, Zenon
  <2>7. ~slow' /\ pc \in {"loop", "compare"} => since' <= StepTime + 2 * RoundTicks + round'
    BY <1>1, <1>2, <1>6, <2>1, <2>3, Sizes DEF NotLate
  <2> QED
    BY <1>1, <1>5, <2>2, <2>4, <2>5, <2>6, <2>7 DEF NotLate
<1> QED
  BY <1>4, <1>7, <1>8 DEF Pacing

LEMMA ReadPaces == Pacing /\ ReadLow => Pacing'
<1> SUFFICES ASSUME Pacing, ReadLow
             PROVE  Pacing'
  OBVIOUS
<1>1. /\ pc \in {"loop", "step"} /\ low' = ticks % Base /\ high' = ticks \div Base
      /\ pc' = (IF pc = "loop" THEN "compare" ELSE "store")
      /\ UNCHANGED <<ticks, stepTimer, round, since, wraps, slow>>
  BY DEF ReadLow, pace
<1>2. TimerTypes /\ NotEarly /\ NotLate
  BY DEF Pacing
<1>3. /\ ticks \in Nat /\ low' \in 0 .. Base - 1 /\ high' \in Nat /\ Seen' = ticks
      /\ low' = ticks' % Base /\ low' \in Nat
  <2>1. ticks \in Nat
    BY <1>2, Sizes DEF TimerTypes
  <2>2. \A r \in 0 .. Base - 1 : r \in Nat
    BY Bases
  <2> QED
    BY <1>1, <2>1, <2>2, Bytes DEF Seen
<1>4. TimerTypes'
  BY <1>1, <1>2, <1>3 DEF TimerTypes
<1>5. since \in Nat /\ stepTimer \in Nat /\ round \in Nat
  BY <1>2, Sizes DEF TimerTypes
<1>6. NotEarly'
  BY <1>1, <1>2, <1>3, <1>5, Sizes DEF NotEarly
<1>7. NotLate'
  BY <1>1, <1>2, <1>3, <1>5, Sizes DEF NotLate
<1> QED
  BY <1>4, <1>6, <1>7 DEF Pacing

\* What the second byte makes of the counter.
LEMMA Reading ==
  Pacing => /\ ticks \in Nat /\ Seen \in Nat /\ Read \in Nat
            /\ ~Torn => Read = Seen
            /\ Seen <= ticks => Seen <= Read
            /\ Base * (ticks \div Base) + (ticks % Base) = ticks
            /\ ticks \div Base \in Nat /\ ticks % Base \in Nat /\ low \in Nat
<1> SUFFICES ASSUME TimerTypes
             PROVE  /\ ticks \in Nat /\ Seen \in Nat /\ Read \in Nat
                    /\ ~Torn => Read = Seen
                    /\ Seen <= ticks => Seen <= Read
                    /\ Base * (ticks \div Base) + (ticks % Base) = ticks
                    /\ ticks \div Base \in Nat /\ ticks % Base \in Nat /\ low \in Nat
  BY DEF Pacing
<1>1. ticks \in Nat /\ high \in Nat /\ low \in 0 .. Base - 1
  BY Sizes DEF TimerTypes
<1>2. /\ Base * (ticks \div Base) + (ticks % Base) = ticks
      /\ ticks \div Base \in Nat /\ ticks % Base \in 0 .. Base - 1
  BY <1>1, Bytes
<1>3. \A h \in Nat : \A l \in 0 .. Base - 1 : l \in Nat /\ Base * h + l \in Nat
  BY Bases
<1>4. Seen \in Nat /\ Read \in Nat /\ low \in Nat /\ ticks % Base \in Nat
  BY <1>1, <1>2, <1>3 DEF Seen, Read
<1>5. ~Torn => Read = Seen
  BY DEF Torn, Read, Seen
<1>6. Seen <= ticks => Seen <= Read
  BY <1>1, ReadsNoSmaller DEF Seen, Read
<1> QED
  BY <1>1, <1>2, <1>4, <1>5, <1>6

LEMMA ComparePaces == Pacing /\ Compare => Pacing'
<1> SUFFICES ASSUME Pacing, Compare
             PROVE  Pacing'
  OBVIOUS
<1>1. pc = "compare" /\ round' = 0 /\ UNCHANGED <<ticks, stepTimer, low, high>>
  BY DEF Compare
<1>2. TimerTypes /\ NotEarly /\ NotLate
  BY DEF Pacing
<1>3. /\ Seen' = Seen /\ Seen \in Nat /\ Read \in Nat /\ ticks \in Nat
      /\ Seen <= ticks => Seen <= Read
  BY <1>1, Reading DEF Seen
<1>4. since \in Nat /\ stepTimer \in Nat /\ round \in Nat
  BY <1>2, Sizes DEF TimerTypes
<1>5. CASE Due
  <2>1. pc' = "step" /\ since' = 0 /\ slow' = FALSE /\ wraps' = wraps
    BY <1>5 DEF Compare, SeqStep
  <2>2. TimerTypes'
    <3>1. slow' \in BOOLEAN /\ wraps' \in BOOLEAN
      BY <1>2, <2>1, Zenon DEF TimerTypes
    <3>2. round' \in 0 .. RoundTicks /\ since' \in Nat
      BY <1>1, <2>1, Sizes
    <3> QED
      BY <1>1, <1>2, <2>1, <3>1, <3>2 DEF TimerTypes
  <2>3. NotEarly'
    BY <1>1, <1>2, <2>1 DEF NotEarly
  <2>4. NotLate'
    BY <1>1, <2>1 DEF NotLate
  <2> QED
    BY <2>2, <2>3, <2>4 DEF Pacing
<1>6. CASE ~Due
  <2>1. pc' = "loop" /\ UNCHANGED <<since, slow, wraps>>
    BY <1>6 DEF Compare, pace
  <2>2. TimerTypes'
    BY <1>1, <1>2, <2>1, Sizes DEF TimerTypes
  <2>3. NotEarly'
    BY <1>1, <1>2, <2>1 DEF NotEarly
  <2>4. Read <= stepTimer
    BY <1>3, <1>4, <1>6 DEF Due
  <2>5. ~slow => /\ Seen <= stepTimer /\ ticks <= Seen + round
                 /\ since + stepTimer <= ticks + StepTime + RoundTicks
    BY <1>1, <1>2, <1>3, <1>4, <2>4 DEF NotLate
  <2>6. round <= RoundTicks
    BY <1>2, Sizes DEF TimerTypes
  <2>7. ~slow => since <= StepTime + 2 * RoundTicks
    BY <1>3, <1>4, <2>5, <2>6, Sizes
  <2>8. NotLate'
    BY <1>1, <2>1, <2>5, <2>7, <1>4, Sizes DEF NotLate
  <2> QED
    BY <2>2, <2>3, <2>8 DEF Pacing
<1> QED
  BY <1>5, <1>6

LEMMA StorePaces == Pacing /\ Store => Pacing'
<1> SUFFICES ASSUME Pacing, Store
             PROVE  Pacing'
  OBVIOUS
<1>1. /\ pc = "store" /\ pc' = "loop" /\ stepTimer' = (Read + StepTime) % Size
      /\ wraps' = (Read + StepTime > Size - 1) /\ slow' = (slow \/ Torn)
      /\ UNCHANGED <<ticks, low, high, round, since>>
  BY DEF Store, Size, Top
<1>2. TimerTypes /\ NotEarly /\ NotLate
  BY DEF Pacing
<1>3. /\ ticks \in Nat /\ Seen \in Nat /\ Read \in Nat
      /\ ~Torn => Read = Seen
      /\ low \in Nat /\ ticks % Base \in Nat
  BY Reading
<1>4. since \in Nat /\ round \in Nat /\ round <= RoundTicks
  BY <1>2, Sizes DEF TimerTypes
<1>5. /\ stepTimer' \in Nat /\ stepTimer' <= Read + StepTime
      /\ ~wraps' => stepTimer' = Read + StepTime
  <2>1. \A s \in Nat \ {0}, n \in Nat :
          /\ n % s \in Nat /\ n % s <= n
          /\ ~(n > s - 1) => n % s = n
    OBVIOUS
  <2>2. Read + StepTime \in Nat /\ Size \in Nat \ {0}
    BY <1>3, Sizes
  <2> QED
    BY <1>1, <2>1, <2>2
<1>6. TimerTypes'
  BY <1>1, <1>2, <1>5 DEF TimerTypes
<1>7. since <= Longest => since + Read >= ticks
  <2>1. since <= Longest => since + low >= ticks % Base
    BY <1>1, <1>2 DEF NotEarly
  <2>2. Base * (ticks \div Base) + (ticks % Base) = ticks /\ ticks \div Base \in Nat
    BY Reading
  <2>3. \A m \in Nat : Base * m \in Nat
    BY Bases
  <2> QED
    BY <1>3, <1>4, <2>1, <2>2, <2>3 DEF Read
<1>8. NotEarly'
  <2>1. ~wraps' => stepTimer' >= StepTime
    BY <1>3, <1>5, Sizes
  <2>2. ~wraps' /\ since <= Longest => since + stepTimer' >= ticks + StepTime
    BY <1>3, <1>4, <1>5, <1>7, Sizes
  <2> QED
    BY <1>1, <2>1, <2>2 DEF NotEarly
<1>9. NotLate'
  <2>1. since <= round
    BY <1>1, <1>2 DEF NotLate
  <2>5. ~slow' => ~slow /\ ~Torn
    BY <1>1, Zenon
  <2>6. ~slow => Seen <= ticks
    BY <1>1, <1>2 DEF NotLate
  <2>2. ~slow' => stepTimer' <= ticks + StepTime
    BY <1>3, <1>5, <2>5, <2>6, Sizes
  <2>3. ~slow' => since + stepTimer' <= ticks + StepTime + RoundTicks
    <3>1. \A s, d, m, n \in Nat : s <= d /\ d <= RoundTicks /\ m <= n + StepTime
                                   => s + m <= n + StepTime + RoundTicks
      BY Sizes
    <3> QED
      BY <1>3, <1>4, <1>5, <2>1, <2>2, <3>1, Zenon
  <2>4. since <= StepTime + 2 * RoundTicks + round
    BY <1>4, <2>1, Sizes
  <2> QED
    BY <1>1, <2>1, <2>3, <2>4 DEF NotLate
<1> QED
  BY <1>6, <1>8, <1>9 DEF Pacing

-----------------------------------------------------------------------------
(* The light *)

\* The bits of the brightness: those below 2j are those below j and bit j.
LEMMA Bits ==
  \A j \in Powers, b \in 0 .. 255 :
    /\ b % j \in Nat
    /\ b % (2 * j) = (b % j) + (IF Bit(b, j) = 1 THEN j ELSE 0)
    /\ b % (2 * j) >= j <=> Bit(b, j) = 1
<1>1. \A j \in {1, 2, 4, 8, 16, 32, 64, 128}, b \in 0 .. 255 :
        /\ b % j \in Nat
        /\ b % (2 * j) = (b % j) + (IF (b \div j) % 2 = 1 THEN j ELSE 0)
        /\ b % (2 * j) >= j <=> (b \div j) % 2 = 1
  <2> SUFFICES ASSUME NEW j \in {1, 2, 4, 8, 16, 32, 64, 128}, NEW b \in 0 .. 255
               PROVE  /\ b % j \in Nat
                      /\ b % (2 * j) = (b % j) + (IF (b \div j) % 2 = 1 THEN j ELSE 0)
                      /\ b % (2 * j) >= j <=> (b \div j) % 2 = 1
    OBVIOUS
  <2>1. CASE j = 1
    BY <2>1
  <2>2. CASE j = 2
    BY <2>2
  <2>3. CASE j = 4
    BY <2>3
  <2>4. CASE j = 8
    BY <2>4
  <2>5. CASE j = 16
    BY <2>5
  <2>6. CASE j = 32
    BY <2>6
  <2>7. CASE j = 64
    BY <2>7
  <2>8. CASE j = 128
    BY <2>8
  <2> QED
    BY <2>1, <2>2, <2>3, <2>4, <2>5, <2>6, <2>7, <2>8
<1> QED
  BY <1>1, PowersAre DEF Bit

\* A power of two above 1 has another just below it, and none between it and
\* its double.
LEMMA Doubling ==
  /\ 1 \in Powers /\ 0 \notin Powers
  /\ \A k \in Powers : k \in Nat /\ k >= 1
  /\ \A k \in Powers : k > 1 => \E j \in Powers : k = 2 * j
  /\ \A k, n \in Powers : ~(k < n /\ n < 2 * k)
  /\ \E j \in Powers : Base = 2 * j /\ Base \div 2 = j
<1>1. \A k \in Powers : k > 1 => \E j \in Powers : k = 2 * j
  BY PowersAre
<1>2. \A k, n \in Powers : ~(k < n /\ n < 2 * k)
  BY PowersAre
<1>3. \E j \in Powers : Base = 2 * j /\ Base \div 2 = j
  BY PowersAre, Bases
<1>4. 1 \in Powers /\ 0 \notin Powers /\ \A k \in Powers : k \in Nat /\ k >= 1
  BY PowersAre
<1> QED
  BY <1>1, <1>2, <1>3, <1>4

Lighting == LightTypes /\ Counted

\* The light of one tick more.
LEMMA TickLights == IInv /\ Pacing /\ Lighting /\ TickInterrupt => Lighting'
<1> SUFFICES ASSUME IInv, Pacing, Lighting, TickInterrupt
             PROVE  Lighting'
  OBVIOUS
<1> DEFINE b == brightness
           p == ticks % Base
           q == ticks' % Base
<1>1. /\ lit' = Lit(q) /\ UNCHANGED vars
      /\ onTicks' = (IF q = 1 THEN 0 ELSE onTicks) + (IF lit' THEN 1 ELSE 0)
      /\ steady' = (steady \/ q = 1)
      /\ ticks' = (ticks + 1) % Size
  BY DEF TickInterrupt, Size
<1>2. b \in 0 .. 255 /\ b' = b
  BY <1>1 DEF IInv, TypeOK, vars
<1>3. p \in 0 .. Base - 1 /\ q = (IF p = Base - 1 THEN 0 ELSE p + 1) /\ p \in Nat /\ q \in Nat
  <2>1. ticks \in 0 .. Size - 1 /\ ticks \in Nat
    BY Sizes DEF Pacing, TimerTypes
  <2>2. p \in 0 .. Base - 1 /\ q = (IF p = Base - 1 THEN 0 ELSE p + 1)
    BY <1>1, <2>1, Ticking, Bytes
  <2>3. \A x \in 0 .. Base - 1 : x \in Nat /\ x + 1 \in Nat
    BY Bases
  <2> QED
    BY <2>2, <2>3
<1>4. lit \in BOOLEAN /\ steady \in BOOLEAN /\ onTicks \in Nat
  BY DEF Lighting, LightTypes
<1>5. /\ q \in Powers => (lit' <=> Bit(b, q) = 1)
      /\ q \notin Powers => (lit' <=> lit)
      /\ lit' \in BOOLEAN
  BY <1>1, <1>2, <1>4, Zenon DEF Lit, Bit, LitLate
<1>6. LightTypes'
  <2>1. onTicks' \in Nat
    BY <1>1, <1>4
  <2>2. steady' \in BOOLEAN
    BY <1>1, <1>4, Zenon
  <2> QED
    BY <1>5, <2>1, <2>2, Zenon DEF LightTypes
<1>7. ASSUME steady
      PROVE  \A k \in Powers : k <= p /\ p < 2 * k =>
               /\ lit <=> Bit(b, k) = 1
               /\ onTicks = (b % k) + (IF lit THEN p - k + 1 ELSE 0)
  BY <1>7 DEF Lighting, Counted, Place
<1> HIDE DEF b, p, q
<1>8. ASSUME steady', NEW k \in Powers, k <= q, q < 2 * k
      PROVE  /\ lit' <=> Bit(b, k) = 1
             /\ onTicks' = (b % k) + (IF lit' THEN q - k + 1 ELSE 0)
  <2>1. k \in Nat /\ k >= 1
    BY Doubling
  <2>2. CASE q = 1
    <3>1. k = 1
      BY <1>8, <2>1, <2>2
    <3>2. b % 1 = 0
      BY <1>2
    <3>3. lit' <=> Bit(b, k) = 1
      BY <1>5, <2>2, <3>1, Doubling
    <3>4. onTicks' = (IF lit' THEN 1 ELSE 0)
      BY <1>1, <2>2
    <3> QED
      BY <2>2, <3>1, <3>2, <3>3, <3>4
  <2>3. CASE q # 1
    <3>1. steady /\ q > 1 /\ p + 1 = q
      <4>1. steady
        BY <1>1, <1>8, <2>3, Zenon
      <4>2. q # 0
        BY <1>3, <1>8, <2>1
      <4> QED
        BY <1>3, <2>3, <4>1, <4>2
    <3>2. onTicks' = onTicks + (IF lit' THEN 1 ELSE 0)
      BY <1>1, <2>3
    <3>3. CASE q = k
      <4>1. PICK j \in Powers : k = 2 * j
        BY <3>1, <3>3, Doubling
      <4>2. j \in Nat /\ j <= p /\ p < 2 * j /\ p - j + 1 = j
        BY <1>3, <3>1, <3>3, <4>1, Doubling
      <4>3. /\ lit <=> Bit(b, j) = 1
            /\ onTicks = (b % j) + (IF lit THEN j ELSE 0)
        BY <1>7, <3>1, <4>2
      <4>4. b % k = (b % j) + (IF Bit(b, j) = 1 THEN j ELSE 0)
        BY <1>2, <4>1, Bits
      <4>5. onTicks = b % k
        BY <4>3, <4>4
      <4>6. q - k + 1 = 1
        BY <3>3, <2>1
      <4>7. lit' <=> Bit(b, k) = 1
        BY <1>5, <3>3
      <4>8. b % k \in Nat
        BY <1>2, Bits
      <4> QED
        BY <3>2, <4>5, <4>6, <4>7, <4>8
    <3>4. CASE q # k
      <4>1. k <= p /\ p < 2 * k /\ k < q
        BY <1>3, <1>8, <2>1, <3>1, <3>4
      <4>2. q \notin Powers
        BY <1>8, <4>1, Doubling
      <4>3. /\ lit <=> Bit(b, k) = 1
            /\ onTicks = (b % k) + (IF lit THEN p - k + 1 ELSE 0)
        BY <1>7, <3>1, <4>1
      <4>4. lit' <=> lit
        BY <1>5, <4>2
      <4>5. b % k \in Nat
        BY <1>2, Bits
      <4>6. (p - k + 1) + 1 = q - k + 1
        BY <1>3, <2>1, <3>1
      <4>7. p - k + 1 \in Int
        BY <1>3, <2>1
      <4>8. CASE lit
        BY <3>2, <4>3, <4>4, <4>5, <4>6, <4>7, <4>8
      <4>9. CASE ~lit
        BY <3>2, <4>3, <4>4, <4>5, <4>9
      <4> QED
        BY <4>8, <4>9
    <3> QED
      BY <3>3, <3>4
  <2> QED
    BY <2>2, <2>3
<1>9. ASSUME steady', q = 0
      PROVE  onTicks' = (b % Base) + (IF b % Base >= Base \div 2 THEN 1 ELSE 0)
  <2>1. PICK j \in Powers : Base = 2 * j /\ Base \div 2 = j
    BY Doubling
  <2>2. steady /\ q \notin Powers /\ q # 1
    <3>1. q # 1 /\ q \notin Powers
      BY <1>9, Doubling
    <3> QED
      BY <1>1, <1>9, <3>1, Zenon
  <2>3. p = 2 * j - 1 /\ j \in Nat /\ j >= 1 /\ j <= p /\ p < 2 * j /\ p - j + 1 = j
    <3>1. p = Base - 1
      BY <1>3, <1>9
    <3>2. Base = 2 * j /\ j \in Nat /\ j >= 1
      BY <2>1, Doubling
    <3> QED
      BY <3>1, <3>2
  <2>4. /\ lit <=> Bit(b, j) = 1
        /\ onTicks = (b % j) + (IF lit THEN j ELSE 0)
    BY <1>7, <2>2, <2>3
  <2>5. /\ b % Base = (b % j) + (IF Bit(b, j) = 1 THEN j ELSE 0)
        /\ b % Base >= j <=> Bit(b, j) = 1
    BY <1>2, <2>1, Bits
  <2>6. onTicks = b % Base
    BY <2>4, <2>5
  <2>7. onTicks' = onTicks + (IF lit' THEN 1 ELSE 0)
    BY <1>1, <2>2
  <2>8. lit' <=> b % Base >= Base \div 2
    BY <1>5, <2>1, <2>2, <2>4, <2>5
  <2> QED
    BY <2>6, <2>7, <2>8, Zenon
<1>10. Counted'
  BY <1>2, <1>8, <1>9, Zenon DEF Counted, DutyCycle, Place, b, p, q
<1> QED
  BY <1>6, <1>10 DEF Lighting

LEMMA MainLoopLights ==
  IInv /\ Pacing /\ Lighting /\ (MainLoop \/ \E n \in DOMAIN Patterns : LedCommand(n))
    => Lighting'
<1> SUFFICES ASSUME Lighting, MainLoop \/ \E n \in DOMAIN Patterns : LedCommand(n)
             PROVE  Lighting'
  OBVIOUS
<1>1. CASE UNCHANGED <<ticks, light, brightness>>
  BY <1>1 DEF Lighting, LightTypes, Counted, DutyCycle, Place, light
<1>2. CASE Compare /\ Due
  <2>1. /\ UNCHANGED <<ticks, lit, onTicks>>
        /\ steady' = (steady /\ brightness' = brightness)
    BY <1>2 DEF Compare, SeqStep
  <2>2. CASE brightness' = brightness
    <3>1. steady' = steady
      BY <2>1, <2>2, Zenon DEF Lighting, LightTypes
    <3> QED
      BY <2>1, <2>2, <3>1 DEF Lighting, LightTypes, Counted, DutyCycle, Place
  <2>3. CASE brightness' # brightness
    <3>1. steady' = FALSE
      BY <2>1, <2>3, Zenon
    <3> QED
      BY <2>1, <3>1 DEF Lighting, LightTypes, Counted
  <2> QED
    BY <2>2, <2>3
<1>3. CASE ReadLow \/ (Compare /\ ~Due) \/ Store
  BY <1>1, <1>3 DEF ReadLow, Compare, Store, light, vars
<1>4. CASE \E n \in DOMAIN Patterns : LedCommand(n)
  BY <1>1, <1>4 DEF LedCommand, SetSeq, timerVars, light
<1> QED
  BY <1>2, <1>3, <1>4 DEF MainLoop

-----------------------------------------------------------------------------
(* The theorems *)

LEMMA StepIsSequence == [TimerNext]_<<vars, timerVars>> => [Next]_vars
<1> SUFFICES ASSUME [TimerNext]_<<vars, timerVars>>
             PROVE  [Next]_vars
  OBVIOUS
<1>1. CASE UNCHANGED <<vars, timerVars>>
  BY <1>1
<1>2. CASE TickInterrupt \/ ReadLow \/ Store
  BY <1>2 DEF TickInterrupt, ReadLow, Store
<1>3. CASE Compare
  BY <1>3 DEF Compare, SeqStep, Next
<1>4. CASE \E p \in DOMAIN Patterns : LedCommand(p)
  BY <1>4 DEF LedCommand, Next
<1> QED
  BY <1>1, <1>2, <1>3, <1>4 DEF TimerNext, MainLoop

\* Whatever the timer and the reading of the counter do, the patterns go as
\* LedSequence says: led_seq_tick and led_set_seq are all that touches them
\* (led.c:94-141).
THEOREM TimerImplementsSequence == TimerSpec => Spec
<1>1. TimerInit => Init
  BY DEF TimerInit
<1> QED
  BY <1>1, StepIsSequence, PTL DEF TimerSpec, Spec

TimerInvariant == IInv /\ Pacing /\ Lighting

LEMMA TimerInitHolds == TimerInit => TimerInvariant
<1> SUFFICES ASSUME TimerInit
             PROVE  TimerInvariant
  OBVIOUS
<1>1. IInv
  BY InitIInv DEF TimerInit
<1>2. LightTypes /\ Counted
  BY DEF TimerInit, LightTypes, Counted
<1> QED
  BY <1>1, <1>2, InitPaces DEF TimerInvariant, Lighting

LEMMA TimerKeeps == TimerInvariant /\ [TimerNext]_<<vars, timerVars>> => TimerInvariant'
<1> SUFFICES ASSUME TimerInvariant, [TimerNext]_<<vars, timerVars>>
             PROVE  TimerInvariant'
  OBVIOUS
<1>1. IInv /\ Pacing /\ Lighting
  BY DEF TimerInvariant
<1>2. IInv'
  BY <1>1, StepIsSequence, NextKeeps
<1>3. CASE UNCHANGED <<vars, timerVars>>
  <2>1. Pacing'
    BY <1>1, <1>3
       DEF timerVars, reading, pace, Pacing, TimerTypes, NotEarly, NotLate, Seen
  <2>2. Lighting'
    BY <1>1, <1>3
       DEF timerVars, light, vars, Lighting, LightTypes, Counted, DutyCycle, Place
  <2> QED
    BY <1>2, <2>1, <2>2 DEF TimerInvariant
<1>4. CASE TickInterrupt
  BY <1>1, <1>2, <1>4, TickPaces, TickLights DEF TimerInvariant
<1>5. CASE MainLoop
  BY <1>1, <1>2, <1>5, ReadPaces, ComparePaces, StorePaces, MainLoopLights
     DEF TimerInvariant, MainLoop
<1>6. CASE \E p \in DOMAIN Patterns : LedCommand(p)
  <2>1. UNCHANGED timerVars
    BY <1>6 DEF LedCommand
  <2>2. Pacing'
    BY <1>1, <2>1
       DEF timerVars, reading, pace, Pacing, TimerTypes, NotEarly, NotLate, Seen
  <2> QED
    BY <1>1, <1>2, <1>6, <2>2, MainLoopLights DEF TimerInvariant
<1> QED
  BY <1>3, <1>4, <1>5, <1>6 DEF TimerNext

LEMMA TimerInvariantHolds == TimerSpec => []TimerInvariant
BY TimerInitHolds, TimerKeeps, PTL DEF TimerSpec

\* The steps of the patterns in the whole of led.c, whatever the timer does.
THEOREM TimerStepsInOrder == TimerSpec => []StepsInOrder
BY TimerImplementsSequence, LedStepsInOrder, PTL

\* The interpolation in the whole of led.c.
THEOREM TimerLinear == TimerSpec => Linear
BY TimerImplementsSequence, LedLinear, PTL

\* hw_led_tick shows each brightness for its number of ticks, whenever the
\* interrupt and led_seq_tick meet (hw_led.c:19-33).
THEOREM LedDutyCycle == TimerSpec => []DutyCycle
<1>1. TimerInvariant => DutyCycle
  <2> SUFFICES ASSUME Counted, steady
               PROVE  DutyCycle
    BY DEF TimerInvariant, Lighting, DutyCycle
  <2> QED
    BY DEF Counted
<1> QED
  BY <1>1, TimerInvariantHolds, PTL

\* led_tick paces the patterns (led.c:94-102), although the counter is read in
\* two halves (tick.c:26-36) and the interrupt comes between them.
THEOREM LedPaced == TimerSpec => Paced
<1>1. TimerInvariant /\ [TimerNext]_<<vars, timerVars>>
        => [beat' # beat => since > StepTime \/ Torn \/ wraps]_<<vars, timerVars>>
  <2> SUFFICES ASSUME Pacing, TimerNext, beat' # beat, ~Torn, ~wraps
               PROVE  since > StepTime
    BY DEF TimerInvariant
  <2>1. Compare /\ Due
    BY DEF TimerNext, TickInterrupt, MainLoop, ReadLow, Store, LedCommand, Compare,
           timerVars, pace
  <2>2. pc = "compare" /\ Read > stepTimer
    BY <2>1 DEF Compare, Due
  <2>3. Seen > stepTimer /\ Seen \in Nat
    BY <2>2, Reading
  <2>4. since <= Longest => since + stepTimer >= Seen + StepTime
    BY <2>2 DEF Pacing, NotEarly
  <2>5. since \in Nat /\ stepTimer \in Nat
    BY DEF Pacing, TimerTypes
  <2>6. Longest > StepTime /\ Longest \in Nat
    BY Sizes DEF Longest
  <2> QED
    BY <2>3, <2>4, <2>5, <2>6, Sizes
<1>2. TimerInvariant => (since > StepTime + 3 * RoundTicks => slow)
  <2> SUFFICES ASSUME Pacing, ~slow
               PROVE  since <= StepTime + 3 * RoundTicks
    BY Sizes DEF TimerInvariant, Pacing, TimerTypes
  <2>1. since \in Nat /\ round \in Nat /\ round <= RoundTicks
    BY Sizes DEF Pacing, TimerTypes
  <2>2. since <= round \/ since <= StepTime + 2 * RoundTicks + round
    BY DEF Pacing, TimerTypes, NotLate
  <2> QED
    BY <2>1, <2>2, Sizes
<1> QED
  BY <1>1, <1>2, TimerInvariantHolds, PTL DEF TimerSpec, Paced

=============================================================================
