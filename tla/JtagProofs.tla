----------------------------- MODULE JtagProofs -----------------------------
(* Proofs about Jtag, for every size of the buffer and every request that is *)
(* well formed: usbdev_jtag.c does not check its host (RequestsAssumption).  *)
EXTENDS Jtag, TLAPS

Clocking == pc \in Loops \cup Ends

\* A request as it travels: a part of a byte is only sent with the byte.
Sound(r) == r \in Sequenced /\ (r.extra > 0 => r.bytes > 0)

Types ==
  /\ connected \in BOOLEAN /\ configured \in BOOLEAN
  /\ toHost \in 0 .. 255 /\ pc \in {"in", "out"} \cup Loops \cup Ends
  /\ delay \in BOOLEAN
  /\ DOMAIN buf = Cells
  /\ trst \in BOOLEAN /\ srst \in BOOLEAN
  /\ sent \in Id /\ stale \in BOOLEAN

Queues ==
  /\ Sound(req)
  /\ outEp = <<>> \/ (\E r \in Sequenced : outEp = <<r>> /\ Sound(r))
  /\ inEp = <<>> \/ (\E r \in Sequenced : \E d : inEp = <<[req |-> r, data |-> d]>>)

\* The indices of jtag.c are determined by the number of clocks.
Indices ==
  /\ length \in 0 .. 4 * (Size - 1) /\ steps \in Nat
  /\ steps <= length \/ (steps = 1 /\ length = 0)
  /\ outIndex = (steps + 3) \div 4
  /\ inIndex \in 0 .. outIndex

\* Where the loop is: what it has to do, and has done.
Progress ==
  Clocking =>
    /\ req.cmd \in Tap
    /\ (pc \in {"emu", "end_emu"} <=> req.cmd = "TAP_OUTPUT_EMU")
    /\ length = Length(req)
    /\ inIndex = steps \div PerByte(req.cmd)
    /\ pc \in Loops => steps < length \/ (steps = 0 /\ length = 0)
    /\ pc \in Ends => steps = length \/ (steps = 1 /\ length = 0)
    /\ toHost = 0

\* The pairs still to be clocked are still there.
Unread ==
  Clocking =>
    /\ \A j \in outIndex .. req.bytes - 1 : buf[j + Offset + 1] = TapByte(req.id, j)
    /\ steps % 4 # 0 /\ length > 0 => outData = TapByte(req.id, outIndex - 1)

\* What was sampled is in the reply so far, and in in_data.
FullByte(id, k) == [i \in 1 .. 8 |-> <<id, 8 * k + i>>]
PartByte(id, k, m) == [i \in 1 .. 8 |-> IF i <= 8 - m THEN Zero ELSE <<id, 8 * k + i + m - 8>>]
Held == Width(req.cmd) * (steps % PerByte(req.cmd))

Samples ==
  Clocking =>
    /\ \A k \in 0 .. inIndex - 1 : buf[k] = FullByte(req.id, k)
    /\ inData = PartByte(req.id, inIndex, Held)

\* The reply that waits to be sent.
Ready ==
  (toHost > 0 /\ req.cmd \in Tap) =>
    /\ toHost = ReplySize(req)
    /\ \A k \in 0 .. toHost - 1 : buf[k] = ReplyByte(req, k)

IInv == Types /\ Queues /\ Indices /\ Progress /\ Unread /\ TapsAsSent /\ Samples /\ Ready /\ ReplyIsSampled


-----------------------------------------------------------------------------
(* Arithmetic *)

LEMMA LengthFacts ==
  ASSUME NEW r \in Sequenced, r.extra > 0 => r.bytes > 0
  PROVE  /\ Length(r) \in 0 .. 4 * (Size - 1)
         /\ Length(r) <= 4 * r.bytes
         /\ Length(r) > 0 <=> r.bytes > 0
<1>1. r.bytes \in 0 .. Size - 1 /\ r.extra \in 0 .. 3
  BY DEF Sequenced
<1> DEFINE b == r.bytes
           e == r.extra
<1>2. (4 * b - (IF e = 0 THEN 0 ELSE 4 - e)) \in 0 .. 1020
  BY <1>1, SizeAssumption
<1>3. Length(r) = 4 * b - (IF e = 0 THEN 0 ELSE 4 - e)
  BY <1>2 DEF Length
<1> QED
  BY <1>1, <1>3, SizeAssumption

\* The two loops: a level for each step and eight steps to a byte, or two and four.
LEMMA Widths ==
  \A c \in Tap : /\ Width(c) \in {1, 2}
                 /\ PerByte(c) = 8 \div Width(c)
                 /\ Width(c) = 1 => PerByte(c) = 8
                 /\ Width(c) = 2 => PerByte(c) = 4
                 /\ Width(c) = 2 <=> c = "TAP_OUTPUT_EMU"
BY DEF Tap, Width, PerByte

LEMMA OutIndexStep ==
  \A s \in Nat : (s + 4) \div 4 = ((s + 3) \div 4) + (IF s % 4 = 0 THEN 1 ELSE 0)
OBVIOUS

LEMMA OutIndexPair ==
  \A s \in Nat : 4 * (((s + 4) \div 4) - 1) + (s % 4) + 1 = s + 1
OBVIOUS

LEMMA InIndexStep ==
  \A s \in Nat, P \in {4, 8} :
    (s + 1) \div P = (s \div P) + (IF (s + 1) % P = 0 THEN 1 ELSE 0)
OBVIOUS

LEMMA InIndexBelow ==
  \A s \in Nat, P \in {4, 8} : s \div P \in 0 .. (s + 3) \div 4
OBVIOUS

LEMMA HeldStep ==
  \A s \in Nat :
    /\ (s + 1) % 8 = 0 => s % 8 = 7
    /\ (s + 1) % 8 # 0 => (s + 1) % 8 = (s % 8) + 1 /\ (s % 8) < 7
    /\ (s + 1) % 4 = 0 => s % 4 = 3
    /\ (s + 1) % 4 # 0 => (s + 1) % 4 = (s % 4) + 1 /\ (s % 4) < 3
    /\ 8 * (s \div 8) + (s % 8) = s
    /\ 4 * (s \div 4) + (s % 4) = s
<1>1. \A s \in Nat : (s + 1) % 8 = 0 => s % 8 = 7
  OBVIOUS
<1>2. \A s \in Nat : (s + 1) % 8 # 0 => (s + 1) % 8 = (s % 8) + 1 /\ (s % 8) < 7
  OBVIOUS
<1>3. \A s \in Nat : (s + 1) % 4 = 0 => s % 4 = 3
  OBVIOUS
<1>4. \A s \in Nat : (s + 1) % 4 # 0 => (s + 1) % 4 = (s % 4) + 1 /\ (s % 4) < 3
  OBVIOUS
<1>5. \A s \in Nat : 8 * (s \div 8) + (s % 8) = s
  OBVIOUS
<1>6. \A s \in Nat : 4 * (s \div 4) + (s % 4) = s
  OBVIOUS
<1> QED
  BY <1>1, <1>2, <1>3, <1>4, <1>5, <1>6, Zenon

LEMMA ReplySizes ==
  \A s \in Nat, P \in {4, 8} :
    (s + P - 1) \div P = (s \div P) + (IF s % P = 0 THEN 0 ELSE 1)
OBVIOUS

-----------------------------------------------------------------------------
(* Bytes of samples *)

\* A new sample comes in from above.
LEMMA ShiftByte ==
  \A id, k \in Nat, W \in {1, 2}, m \in Nat, n \in Nat :
    (m + W <= 8 /\ W * (n - 1) = 8 * k + m /\ inData = PartByte(id, k, m))
      => Shift(id, W, n) = PartByte(id, k, m + W)
<1> SUFFICES ASSUME NEW id \in Nat, NEW k \in Nat, NEW W \in {1, 2}, NEW m \in Nat, NEW n \in Nat,
                    m + W <= 8, W * (n - 1) = 8 * k + m, inData = PartByte(id, k, m)
             PROVE  Shift(id, W, n) = PartByte(id, k, m + W)
  OBVIOUS
<1>1. ASSUME NEW i \in 1 .. 8
      PROVE  Shift(id, W, n)[i] = PartByte(id, k, m + W)[i]
  <2>1. CASE i + W <= 8
    <3>1. Shift(id, W, n)[i] = PartByte(id, k, m)[i + W]
      BY <2>1 DEF Shift
    <3>2. PartByte(id, k, m)[i + W] = IF i + W <= 8 - m THEN Zero ELSE <<id, 8 * k + (i + W) + m - 8>>
      BY <2>1 DEF PartByte
    <3>3. PartByte(id, k, m + W)[i] = IF i <= 8 - (m + W) THEN Zero ELSE <<id, 8 * k + i + (m + W) - 8>>
      BY DEF PartByte
    <3>4. 8 * k + (i + W) + m - 8 = 8 * k + i + (m + W) - 8 /\ (i + W <= 8 - m <=> i <= 8 - (m + W))
      OBVIOUS
    <3> QED
      BY <3>1, <3>2, <3>3, <3>4
  <2>2. CASE ~(i + W <= 8)
    <3>1. Shift(id, W, n)[i] = <<id, W * (n - 1) + i + W - 8>>
      BY <2>2 DEF Shift
    <3>2. PartByte(id, k, m + W)[i] = <<id, 8 * k + i + (m + W) - 8>>
      BY <2>2 DEF PartByte
    <3>3. W * (n - 1) + i + W - 8 = 8 * k + i + (m + W) - 8
      OBVIOUS
    <3> QED
      BY <3>1, <3>2, <3>3
  <2> QED
    BY <2>1, <2>2
<1>2. /\ Shift(id, W, n) = [i \in 1 .. 8 |-> Shift(id, W, n)[i]]
      /\ PartByte(id, k, m + W) = [i \in 1 .. 8 |-> PartByte(id, k, m + W)[i]]
  BY DEF Shift, PartByte
<1> QED
  BY <1>1, <1>2, Zenon

LEMMA WholeByte ==
  ASSUME NEW id, NEW k \in Nat
  PROVE  PartByte(id, k, 8) = FullByte(id, k) /\ PartByte(id, k, 0) = Blank
<1>1. \A i \in 1 .. 8 : ~(i <= 8 - 8) /\ 8 * k + i + 8 - 8 = 8 * k + i /\ i <= 8 - 0
  OBVIOUS
<1> QED
  BY <1>1 DEF PartByte, FullByte, Blank

\* The last byte, moved down.
LEMMA DownByte ==
  ASSUME NEW id, NEW k \in Nat, NEW m \in 1 .. 8, inData = PartByte(id, k, m)
  PROVE  Down(m) = [i \in 1 .. 8 |-> IF i <= m THEN <<id, 8 * k + i>> ELSE Zero]
<1>1. ASSUME NEW i \in 1 .. 8, i <= m
      PROVE  inData[i + 8 - m] = <<id, 8 * k + i>>
  <2>1. i + 8 - m \in 1 .. 8 /\ ~(i + 8 - m <= 8 - m) /\ 8 * k + (i + 8 - m) + m - 8 = 8 * k + i
    BY <1>1
  <2> QED
    BY <2>1 DEF PartByte
<1> QED
  BY <1>1 DEF Down

-----------------------------------------------------------------------------
(* One clock *)

LEMMA StepIInv ==
  ASSUME IInv, NEW W \in {1, 2}, NEW end \in Ends, pc \in Loops, TapStep(W, end),
         W = Width(req.cmd), end = "end_emu" <=> W = 2
  PROVE  IInv'
<1> DEFINE P == 8 \div W
           k == inIndex
           in == Shift(req.id, W, steps + 1)
<1>1. /\ W \in {1, 2} /\ P \in {4, 8} /\ (W = 1 => P = 8) /\ (W = 2 => P = 4)
      /\ req.cmd \in Tap /\ PerByte(req.cmd) = P
  BY Widths DEF IInv, Progress, Clocking
<1> HIDE DEF P
<1>2. /\ steps \in Nat /\ length \in 0 .. 4 * (Size - 1) /\ length = Length(req)
      /\ outIndex = (steps + 3) \div 4 /\ k = steps \div P
      /\ steps < length \/ (steps = 0 /\ length = 0)
  BY <1>1 DEF IInv, Indices, Progress, Clocking
<1>3. /\ UNCHANGED <<connected, configured, outEp, inEp, toHost, req, delay, length, trst, srst, sent, waiting, taken, piped, stale>>
      /\ steps' = steps + 1 /\ tmsTdi' = Pair(outData')
      /\ outIndex' = IF steps % 4 = 0 THEN outIndex + 1 ELSE outIndex
      /\ outData' = IF steps % 4 = 0 THEN buf[DataFromHost(outIndex + 1)] ELSE outData
  BY DEF TapStep, usb, host
<1>4. IF (steps + 1) % P = 0
        THEN buf' = [buf EXCEPT ![k] = in] /\ inIndex' = k + 1 /\ inData' = Blank
        ELSE inData' = in /\ buf' = buf /\ inIndex' = k
  BY DEF TapStep, DataToHost, P
<1>5. pc' = (IF steps + 1 >= length THEN end ELSE pc)
  BY DEF TapStep, Over
<1>6. outIndex' = (steps' + 3) \div 4 /\ inIndex' = steps' \div P
  <2>1. (steps + 1) + 3 = steps + 4
    BY <1>2
  <2>2. outIndex' = (steps + 4) \div 4
    BY <1>2, <1>3, OutIndexStep
  <2>3. inIndex' = (steps + 1) \div P
    BY <1>1, <1>2, <1>4, InIndexStep
  <2> QED
    BY <1>3, <2>1, <2>2, <2>3
<1>7. steps' \in Nat /\ (steps' <= length \/ (steps' = 1 /\ length = 0))
  BY <1>2, <1>3, SizeAssumption
<1>8. inIndex' \in 0 .. outIndex'
  BY <1>1, <1>6, <1>7, InIndexBelow
<1>9. k \in 0 .. outIndex
  BY DEF IInv, Indices
<1>10. Indices'
  BY <1>2, <1>3, <1>6, <1>7, <1>8 DEF Indices
<1>11. Types'
  <2>1. DOMAIN buf' = Cells
    BY <1>4 DEF IInv, Types
  <2>2. pc' \in {"in", "out"} \cup Loops \cup Ends
    BY <1>5
  <2> QED
    BY <1>3, <2>1, <2>2 DEF IInv, Types
<1>12. Queues' /\ ReplyIsSampled'
  BY <1>3 DEF IInv, Queues, ReplyIsSampled
<1>13. Progress'
  <2>1. pc' \in {"emu", "end_emu"} <=> req.cmd = "TAP_OUTPUT_EMU"
    BY <1>1, <1>5, Widths DEF IInv, Progress, Clocking, Ends, Loops
  <2>2. pc' \in Loops => steps' < length
    BY <1>2, <1>3, <1>5, SizeAssumption DEF Loops, Ends
  <2>3. pc' \in Ends => steps' = length \/ (steps' = 1 /\ length = 0)
    BY <1>2, <1>3, <1>5, SizeAssumption DEF Loops, Ends
  <2> QED
    BY <1>1, <1>2, <1>3, <1>6, <2>1, <2>2, <2>3 DEF IInv, Progress, Clocking
<1>14. /\ \A j \in outIndex .. req.bytes - 1 : buf[j + Offset + 1] = TapByte(req.id, j)
       /\ steps % 4 # 0 /\ length > 0 => outData = TapByte(req.id, outIndex - 1)
  BY DEF IInv, Unread, Clocking
<1>15. req.bytes \in Nat /\ length <= 4 * req.bytes /\ (length > 0 <=> req.bytes > 0)
  BY <1>2, LengthFacts DEF IInv, Queues, Sound, Sequenced
<1>16. length > 0 => outData' = TapByte(req.id, outIndex' - 1)
  <2> SUFFICES ASSUME length > 0 PROVE outData' = TapByte(req.id, outIndex' - 1)
    OBVIOUS
  <2>1. CASE steps % 4 = 0
    <3>1. outIndex \in Nat /\ outIndex < req.bytes
      BY <1>2, <1>15, <2>1, SizeAssumption
    <3>2. outIndex' - 1 = outIndex /\ outIndex \in outIndex .. req.bytes - 1
      BY <1>3, <1>15, <2>1, <3>1
    <3>3. DataFromHost(outIndex + 1) = outIndex + Offset + 1
      BY <3>1, SizeAssumption DEF DataFromHost
    <3> QED
      BY <1>3, <1>14, <2>1, <3>2, <3>3
  <2>2. CASE steps % 4 # 0
    BY <1>3, <1>14, <2>2
  <2> QED
    BY <2>1, <2>2
<1>17. Unread'
  <2>1. ASSUME NEW j \in outIndex' .. req.bytes - 1
        PROVE  buf'[j + Offset + 1] = TapByte(req.id, j)
    <3>1. j \in outIndex .. req.bytes - 1 /\ j + Offset + 1 # k
      BY <1>3, <1>9, <1>15, SizeAssumption, <1>2
    <3>2. j + Offset + 1 \in DOMAIN buf
      <4>1. req.bytes \in 0 .. Size - 1 /\ outIndex \in Nat /\ DOMAIN buf = 0 .. Size + Offset - 1
        BY <1>2 DEF IInv, Types, Queues, Sound, Sequenced, Cells
      <4> QED
        BY <3>1, <4>1, SizeAssumption
    <3>3. buf'[j + Offset + 1] = buf[j + Offset + 1]
      BY <1>4, <3>1, <3>2
    <3> QED
      BY <1>14, <3>1, <3>3
  <2> QED
    BY <1>3, <1>16, <2>1 DEF Unread
<1>18. TapsAsSent'
  <2>1. length > 0 => tmsTdi' = <<req.id, steps'>>
    <3> SUFFICES ASSUME length > 0 PROVE tmsTdi' = <<req.id, steps + 1>>
      BY <1>3
    <3>1. (steps % 4) + 1 \in 1 .. 4
      BY <1>2
    <3>2. tmsTdi' = <<req.id, 4 * (outIndex' - 1) + ((steps % 4) + 1)>>
      BY <1>3, <1>16, <3>1 DEF Pair, TapByte
    <3>3. 4 * (outIndex' - 1) + ((steps % 4) + 1) = steps + 1
      <4>1. outIndex' = (steps + 4) \div 4
        BY <1>2, <1>3, <1>6
      <4> QED
        BY <1>2, <4>1, OutIndexPair
    <3> QED
      BY <3>2, <3>3
  <2> QED
    BY <1>3, <2>1 DEF TapsAsSent
<1>19. Samples'
  <2> DEFINE m == W * (steps % P)
  <2>1. /\ m \in Nat /\ m + W <= 8 /\ W * ((steps + 1) - 1) = 8 * k + m
        /\ (steps + 1) % P = 0 => m + W = 8
        /\ (steps + 1) % P # 0 => W * ((steps + 1) % P) = m + W
    <3>1. CASE W = 1
      BY <1>1, <1>2, <3>1, HeldStep
    <3>2. CASE W = 2
      BY <1>1, <1>2, <3>2, HeldStep
    <3> QED
      BY <3>1, <3>2
  <2>2. inData = PartByte(req.id, k, m) /\ \A i \in 0 .. k - 1 : buf[i] = FullByte(req.id, i)
    BY <1>1 DEF IInv, Samples, Clocking, Held
  <2>3. k \in Nat
    BY <1>9
  <2> HIDE DEF m
  <2>4. in = PartByte(req.id, k, m + W)
    <3>1. steps + 1 \in Nat
      BY <1>2
    <3>2. /\ req.id \in Nat /\ inIndex \in Nat /\ m \in Nat /\ m + W <= 8
          /\ W * ((steps + 1) - 1) = 8 * inIndex + m
          /\ inData = PartByte(req.id, inIndex, m)
      BY <2>1, <2>2, <2>3, BoundsAssumption DEF IInv, Queues, Sound, Sequenced, Id
    <3>3. Shift(req.id, W, steps + 1) = PartByte(req.id, inIndex, m + W)
      <4>1. CASE W = 1
        BY <3>1, <3>2, <4>1, ShiftByte
      <4>2. CASE W = 2
        BY <3>1, <3>2, <4>2, ShiftByte
      <4> QED
        BY <4>1, <4>2
    <3> QED
      BY <3>3, Zenon
  <2> HIDE DEF in, k
  <2>5. CASE (steps + 1) % P = 0
    <3>1. buf' = [buf EXCEPT ![k] = FullByte(req.id, k)] /\ inIndex' = k + 1
      BY <1>4, <2>1, <2>3, <2>4, <2>5, WholeByte
    <3>2. inData' = PartByte(req.id, inIndex', 0)
      BY <1>4, <2>3, <2>5, WholeByte
    <3>3. Held' = 0
      BY <1>1, <1>3, <2>5 DEF Held
    <3>4. k \in DOMAIN buf
      BY <1>2, <1>9, SizeAssumption DEF IInv, Types, Cells, k
    <3>5. \A i \in 0 .. inIndex' - 1 : buf'[i] = FullByte(req.id, i)
      BY <2>2, <2>3, <3>1, <3>4
    <3> QED
      BY <1>3, <3>2, <3>3, <3>5 DEF Samples
  <2>6. CASE (steps + 1) % P # 0
    <3>1. Held' = m + W
      BY <1>1, <1>3, <2>1, <2>6 DEF Held
    <3> QED
      BY <1>3, <1>4, <2>2, <2>4, <2>6, <3>1 DEF Samples
  <2> QED
    BY <2>5, <2>6
<1>20. Ready'
  BY <1>3 DEF IInv, Progress, Clocking, Ready
<1> QED
  BY <1>10, <1>11, <1>12, <1>13, <1>17, <1>18, <1>19, <1>20 DEF IInv

-----------------------------------------------------------------------------
(* The end of a loop: the reply is complete *)

LEMMA EndIInv ==
  ASSUME IInv, NEW W \in {1, 2}, NEW end \in Ends, TapEnd(end, W),
         W = Width(req.cmd), end = "end_emu" <=> W = 2
  PROVE  IInv'
<1> DEFINE P == 8 \div W
           m == W * (steps % P)
<1>0. pc \in Ends /\ pc \notin Loops /\ Clocking
  BY DEF TapEnd, Ends, Loops, Clocking
<1>1. /\ P \in {4, 8} /\ (W = 1 => P = 8) /\ (W = 2 => P = 4)
      /\ req.cmd \in Tap /\ PerByte(req.cmd) = P
  BY <1>0, Widths DEF IInv, Progress
<1>2. /\ steps \in Nat /\ length \in 0 .. 4 * (Size - 1) /\ length = Length(req)
      /\ inIndex = steps \div P /\ inIndex \in 0 .. outIndex /\ outIndex = (steps + 3) \div 4
      /\ steps = length \/ (steps = 1 /\ length = 0)
  BY <1>0, <1>1 DEF IInv, Indices, Progress
<1>3. /\ UNCHANGED <<connected, configured, outEp, inEp, req, delay, locals, trst, srst, sent, stale>>
      /\ pc' = "in"
  BY DEF TapEnd, usb, pins, host
<1>4. /\ buf' = IF steps % P = 0 THEN buf ELSE [buf EXCEPT ![inIndex] = Down(m)]
      /\ toHost' = ((length + P - 1) \div P) % 256
  BY DEF TapEnd, DataToHost
<1>5. inData = PartByte(req.id, inIndex, m) /\ \A i \in 0 .. inIndex - 1 : buf[i] = FullByte(req.id, i)
  BY <1>0, <1>1 DEF IInv, Samples, Held
<1> HIDE DEF P
<1>6. /\ m \in 0 .. 8 - W /\ (steps % P = 0 <=> m = 0) /\ W * steps = 8 * inIndex + m
  <2>1. CASE W = 1
    BY <1>1, <1>2, <2>1, HeldStep
  <2>2. CASE W = 2
    BY <1>1, <1>2, <2>2, HeldStep
  <2> QED
    BY <2>1, <2>2
<1> HIDE DEF m
<1>7. length + P - 1 \in Nat /\ (length + P - 1) \div P \in 0 .. 255
  BY <1>1, <1>2, SizeAssumption
<1>8. toHost' = (length + P - 1) \div P /\ toHost' = ReplySize(req)
  BY <1>1, <1>2, <1>4, <1>7 DEF ReplySize
<1>9. Types'
  <2>1. DOMAIN buf' = Cells
    BY <1>4 DEF IInv, Types
  <2>2. toHost' \in 0 .. 255
    BY <1>7, <1>8
  <2> QED
    BY <1>3, <2>1, <2>2 DEF IInv, Types
<1>10. ASSUME toHost' > 0, NEW j \in 0 .. toHost' - 1
       PROVE  buf'[j] = ReplyByte(req, j)
  <2>1. steps = length /\ length > 0
    BY <1>1, <1>2, <1>7, <1>8, <1>10
  <2>2. toHost' = inIndex + (IF steps % P = 0 THEN 0 ELSE 1)
    BY <1>1, <1>2, <1>8, <2>1, ReplySizes
  <2>3. \A i \in 1 .. 8 : 8 * j + i <= Width(req.cmd) * Length(req) <=> 8 * j + i <= 8 * inIndex + m
    BY <1>2, <1>6, <2>1
  <2>4. ReplyByte(req, j) = [i \in 1 .. 8 |-> IF 8 * j + i <= 8 * inIndex + m THEN <<req.id, 8 * j + i>> ELSE Zero]
    BY <2>3 DEF ReplyByte
  <2>5. j \in Nat /\ inIndex \in Nat /\ m \in 0 .. 8
    BY <1>2, <1>6, <1>7, <1>8
  <2>6. CASE j < inIndex
    <3>1. buf'[j] = FullByte(req.id, j)
      <4>1. j \in 0 .. inIndex - 1 /\ j # inIndex
        BY <2>5, <2>6
      <4>2. j \in DOMAIN buf
        BY <1>2, <2>5, <2>6, SizeAssumption DEF IInv, Types, Cells
      <4> QED
        BY <1>4, <1>5, <4>1, <4>2
    <3>2. \A i \in 1 .. 8 : 8 * j + i <= 8 * inIndex + m
      BY <2>5, <2>6
    <3> QED
      BY <2>4, <3>1, <3>2 DEF FullByte
  <2>7. CASE ~(j < inIndex)
    <3>1. j = inIndex /\ steps % P # 0 /\ m \in 1 .. 8
      BY <1>6, <2>2, <2>5, <2>7
    <3>2. j \in DOMAIN buf
      BY <1>2, <3>1, SizeAssumption DEF IInv, Types, Cells
    <3>3. buf'[j] = Down(m)
      BY <1>4, <3>1, <3>2
    <3>4. Down(m) = [i \in 1 .. 8 |-> IF i <= m THEN <<req.id, 8 * inIndex + i>> ELSE Zero]
      BY <1>5, <2>5, <3>1, DownByte
    <3>5. \A i \in 1 .. 8 : i <= m <=> 8 * j + i <= 8 * inIndex + m
      BY <2>5, <3>1
    <3> QED
      BY <2>4, <3>1, <3>3, <3>4, <3>5
  <2> QED
    BY <2>6, <2>7
<1>11. Ready'
  BY <1>3, <1>8, <1>10 DEF Ready
<1>12. ~Clocking'
  BY <1>3 DEF Clocking, Loops, Ends
<1>13. Indices' /\ Queues' /\ ReplyIsSampled'
  BY <1>3 DEF IInv, Indices, Queues, ReplyIsSampled, locals
<1>14. Progress' /\ Unread' /\ Samples'
  BY <1>12 DEF Progress, Unread, Samples
<1>15. TapsAsSent'
  BY <1>12 DEF TapsAsSent, Clocking
<1> QED
  BY <1>9, <1>11, <1>13, <1>14, <1>15 DEF IInv

-----------------------------------------------------------------------------
(* The other steps *)

LEMMA StoredDomain == ASSUME NEW r PROVE DOMAIN Stored(r) = Cells
BY DEF Stored

\* Outside the loops, only the reply that waits depends on the buffer.
LEMMA OutsideIInv ==
  ASSUME IInv, pc' \in {"in", "out"}, Types', Queues', UNCHANGED locals, Ready', ReplyIsSampled'
  PROVE  IInv'
<1>1. ~Clocking'
  BY DEF Clocking, Loops, Ends
<1>2. Indices'
  BY DEF IInv, Indices, locals
<1>3. Progress' /\ Unread' /\ Samples'
  BY <1>1 DEF Progress, Unread, Samples
<1>4. TapsAsSent'
  BY <1>1 DEF TapsAsSent, Clocking
<1> QED
  BY <1>2, <1>3, <1>4 DEF IInv

LEMMA TickIIn ==
  ASSUME IInv, TickIn PROVE IInv'
<1>1. Types'
  <2>1. UNCHANGED <<connected, configured, delay, buf, trst, srst, sent, stale>>
    BY DEF TickIn, pins, host
  <2>2. toHost' \in {toHost, 0} /\ pc' \in {"in", "out"}
    BY DEF TickIn
  <2> QED
    BY <2>1, <2>2 DEF IInv, Types
<1>2. CASE connected /\ configured /\ toHost > 0 /\ inEp = <<>>
  <2> DEFINE d == [i \in 0 .. toHost - 1 |-> buf[DataToHost(i)]]
  <2>1. inEp' = <<[req |-> req, data |-> d]>> /\ toHost' = 0 /\ UNCHANGED <<outEp, req, locals>> /\ pc' \in {"in", "out"}
    BY <1>2 DEF TickIn
  <2>2. req \in Sequenced
    BY DEF IInv, Queues, Sound
  <2>3. Queues'
    BY <2>1, <2>2 DEF IInv, Queues
  <2>4. Ready'
    BY <2>1 DEF Ready
  <2>5. req.cmd \in Tap => d = [j \in 0 .. ReplySize(req) - 1 |-> ReplyByte(req, j)]
    BY <1>2 DEF IInv, Ready, DataToHost
  <2> HIDE DEF d
  <2>6. /\ Len(inEp') = 1 /\ inEp'[1].req = req /\ inEp'[1].data = d
    BY <2>1
  <2>7. ReplyIsSampled'
    <3>1. \A i \in 1 .. Len(inEp') : i = 1
      BY <2>6
    <3> QED
      BY <2>5, <2>6, <3>1, Zenon DEF ReplyIsSampled
  <2> QED
    BY <1>1, <2>1, <2>3, <2>4, <2>7, OutsideIInv
<1>3. CASE ~(connected /\ configured /\ toHost > 0 /\ inEp = <<>>)
  <2>1. UNCHANGED <<outEp, inEp, toHost, buf, req, locals>> /\ pc' \in {"in", "out"}
    BY <1>3 DEF TickIn
  <2>2. Queues' /\ Ready' /\ ReplyIsSampled'
    BY <2>1 DEF IInv, Queues, Ready, ReplyIsSampled
  <2> QED
    BY <1>1, <2>1, <2>2, OutsideIInv
<1> QED
  BY <1>2, <1>3

LEMMA QuietIInv ==
  ASSUME IInv, Nothing \/ Empty PROVE IInv'
<1>1. Types'
  <2>1. UNCHANGED <<connected, configured, toHost, delay, buf, trst, srst, sent, stale>> /\ pc' = "in"
    BY DEF Nothing, Empty, usb, pins, host
  <2> QED
    BY <2>1 DEF IInv, Types
<1>2. UNCHANGED <<inEp, toHost, buf, req, locals>> /\ pc' \in {"in", "out"} /\ outEp' \in {outEp, <<>>}
  BY DEF Nothing, Empty, usb
<1>3. Queues' /\ Ready' /\ ReplyIsSampled'
  BY <1>2 DEF IInv, Queues, Ready, ReplyIsSampled
<1> QED
  BY <1>1, <1>2, <1>3, OutsideIInv

\* A request that is served at once.
LEMMA AtOnceIInv ==
  ASSUME IInv, NEW r, Receive(r), r.cmd \notin Tap, UNCHANGED locals, pc' = "in",
         toHost' \in {0, 1}, delay' \in BOOLEAN, trst' \in BOOLEAN, srst' \in BOOLEAN,
         DOMAIN buf' = Cells
  PROVE  IInv'
<1>1. req' = r /\ Sound(r) /\ outEp' = <<>> /\ UNCHANGED <<connected, configured, inEp, sent, stale>>
  BY DEF Receive, IInv, Queues, host
<1>2. Types'
  BY <1>1 DEF IInv, Types
<1>3. Queues' /\ Ready' /\ ReplyIsSampled'
  BY <1>1 DEF IInv, Queues, Ready, ReplyIsSampled
<1> QED
  BY <1>2, <1>3, OutsideIInv

LEMMA TapOutputIInv ==
  ASSUME IInv, NEW r, TapOutput(r) PROVE IInv'
<1>1. req' = r /\ Sound(r) /\ outEp' = <<>> /\ UNCHANGED <<connected, configured, inEp, sent, stale, delay, trst, srst>>
  BY DEF TapOutput, Receive, IInv, Queues, host, pins
<1>2. /\ buf' = Stored(r) /\ toHost' = 0 /\ length' = Length(r) /\ r.cmd \in Tap
      /\ steps' = 0 /\ outIndex' = 0 /\ inIndex' = 0 /\ inData' = Blank
      /\ pc' \in Loops /\ (pc' = "emu" <=> r.cmd = "TAP_OUTPUT_EMU")
  BY DEF TapOutput, Loops
<1>3. r \in Sequenced /\ Length(r) \in 0 .. 4 * (Size - 1)
  BY <1>1, LengthFacts DEF Sound
<1>4. Types'
  BY <1>1, <1>2, StoredDomain DEF IInv, Types
<1>5. Queues' /\ ReplyIsSampled' /\ Ready' /\ TapsAsSent'
  BY <1>1, <1>2 DEF IInv, Queues, ReplyIsSampled, Ready, TapsAsSent
<1>6. Indices'
  BY <1>2, <1>3, SizeAssumption DEF Indices
<1>7. pc' \notin Ends /\ (pc' \in {"emu", "end_emu"} <=> r.cmd = "TAP_OUTPUT_EMU")
  BY <1>2 DEF Loops, Ends
<1>8. PerByte(r.cmd) \in {4, 8}
  BY <1>2, Widths
<1>9. Progress'
  <2>1. inIndex' = steps' \div PerByte(r.cmd)
    BY <1>2, <1>8
  <2>2. length' = Length(r) /\ (steps' < length' \/ (steps' = 0 /\ length' = 0))
    BY <1>2, <1>3, SizeAssumption
  <2> QED
    BY <1>1, <1>2, <1>7, <2>1, <2>2 DEF Progress, Clocking
<1>10. Unread'
  <2>1. ASSUME NEW j \in 0 .. r.bytes - 1
        PROVE  Stored(r)[j + Offset + 1] = TapByte(r.id, j)
    <3>1. r.bytes \in 0 .. Size - 1
      BY <1>3 DEF Sequenced
    <3>2. /\ j + Offset + 1 \in Cells
          /\ j + Offset + 1 \in DataFromHost(1) .. DataFromHost(r.bytes)
          /\ (j + Offset + 1) - DataFromHost(1) = j
      BY <3>1, SizeAssumption DEF Cells, DataFromHost
    <3> QED
      BY <3>2 DEF Stored
  <2>2. steps' % 4 = 0
    BY <1>2
  <2> QED
    BY <1>1, <1>2, <2>1, <2>2 DEF Unread
<1>11. Samples'
  <2>1. Held' = 0
    <3>1. 0 % PerByte(r.cmd) = 0 /\ Width(r.cmd) \in {1, 2}
      BY <1>2, <1>8, Widths
    <3> QED
      BY <1>1, <1>2, <3>1 DEF Held
  <2>2. inData' = PartByte(r.id, 0, 0)
    BY <1>2, WholeByte
  <2>3. \A j \in 0 .. inIndex' - 1 : FALSE
    BY <1>2
  <2> QED
    BY <1>1, <1>2, <2>1, <2>2, <2>3 DEF Samples
<1> QED
  BY <1>4, <1>5, <1>6, <1>9, <1>10, <1>11 DEF IInv

LEMMA ServeIInv ==
  ASSUME IInv, NEW r, Serve(r) PROVE IInv'
<1>1. CASE TapOutput(r)
  BY <1>1, TapOutputIInv
<1>2. ASSUME NEW byte, Reply(r, byte)
      PROVE  Receive(r) /\ UNCHANGED locals /\ pc' = "in" /\ toHost' \in {0, 1} /\ DOMAIN buf' = Cells
  BY <1>2, StoredDomain DEF Reply
<1>3. Receive(r) => r.bit0 \in BOOLEAN /\ r.bit1 \in BOOLEAN
  BY DEF Receive, IInv, Queues, Sequenced
<1>4. delay \in BOOLEAN /\ trst \in BOOLEAN /\ srst \in BOOLEAN
  BY DEF IInv, Types
<1>5. CASE ReadInput(r)
  <2>1. r.cmd \notin Tap /\ UNCHANGED <<delay, trst, srst>>
    BY <1>5 DEF ReadInput, pins, Tap
  <2> QED
    BY <1>2, <1>4, <1>5, <2>1, AtOnceIInv DEF ReadInput
<1>6. CASE SetTrst(r)
  <2>1. r.cmd \notin Tap /\ UNCHANGED <<delay, srst>> /\ trst' = r.bit0 /\ Reply(r, Blank)
    BY <1>6 DEF SetTrst, Tap
  <2> QED
    BY <1>2, <1>3, <1>4, <2>1, AtOnceIInv
<1>7. CASE SetSrst(r)
  <2>1. r.cmd \notin Tap /\ UNCHANGED <<delay, trst>> /\ srst' = r.bit0 /\ Reply(r, Blank)
    BY <1>7 DEF SetSrst, Tap
  <2> QED
    BY <1>2, <1>3, <1>4, <2>1, AtOnceIInv
<1>8. CASE SetSrstTrst(r)
  <2>1. r.cmd \notin Tap /\ UNCHANGED delay /\ trst' = r.bit1 /\ srst' = r.bit0 /\ Reply(r, Blank)
    BY <1>8 DEF SetSrstTrst, Tap
  <2> QED
    BY <1>2, <1>3, <1>4, <2>1, AtOnceIInv
<1>9. CASE SetDelay(r)
  <2>1. r.cmd \notin Tap /\ UNCHANGED <<trst, srst>> /\ Reply(r, Blank)
    BY <1>9 DEF SetDelay, Tap, pins
  <2>2. delay' \in BOOLEAN
    BY <1>9 DEF SetDelay
  <2> QED
    BY <1>2, <1>4, <2>1, <2>2, AtOnceIInv
<1>10. CASE UnknownCommand(r)
  <2>1. /\ r.cmd \notin Tap /\ UNCHANGED <<delay, trst, srst, locals>> /\ Receive(r)
        /\ pc' = "in" /\ toHost' \in {0, 1} /\ DOMAIN buf' = Cells
    BY <1>10, StoredDomain DEF UnknownCommand, Tap, pins
  <2> QED
    BY <1>4, <2>1, AtOnceIInv
<1> QED
  BY <1>1, <1>5, <1>6, <1>7, <1>8, <1>9, <1>10 DEF Serve

LEMMA DeviceIInv ==
  ASSUME IInv, Device PROVE IInv'
<1>1. pc \in Loops \cup Ends =>
        /\ Width(req.cmd) \in {1, 2}
        /\ pc \in {"emu", "end_emu"} <=> Width(req.cmd) = 2
  BY Widths DEF IInv, Progress, Clocking
<1>2. CASE MaxSpeed \/ WithDelay
  <2>1. pc \in Loops /\ TapStep(1, "end") /\ Width(req.cmd) = 1
    BY <1>1, <1>2 DEF MaxSpeed, WithDelay, Loops
  <2> QED
    BY <2>1, StepIInv DEF Ends
<1>3. CASE Emu
  <2>1. pc \in Loops /\ TapStep(2, "end_emu") /\ Width(req.cmd) = 2
    BY <1>1, <1>3 DEF Emu, Loops
  <2> QED
    BY <2>1, StepIInv DEF Ends
<1>4. CASE OutputEnd
  <2>1. TapEnd("end", 1) /\ Width(req.cmd) = 1
    BY <1>1, <1>4 DEF OutputEnd, TapEnd, Ends
  <2> QED
    BY <2>1, EndIInv DEF Ends
<1>5. CASE OutputEmuEnd
  <2>1. TapEnd("end_emu", 2) /\ Width(req.cmd) = 2
    BY <1>1, <1>5 DEF OutputEmuEnd, TapEnd, Ends
  <2> QED
    BY <2>1, EndIInv DEF Ends
<1> QED
  BY <1>2, <1>3, <1>4, <1>5, TickIIn, QuietIInv, ServeIInv DEF Device

\* The cable and the host touch nothing that the device is at work on.
LEMMA OthersIInv ==
  ASSUME IInv, UNCHANGED <<buf, toHost, pc, req, locals>>, Types', Queues',
         inEp' \in {inEp, <<>>}, tmsTdi' = tmsTdi \/ pc = "in"
  PROVE  IInv'
<1>1. Indices' /\ Progress' /\ Unread' /\ Samples' /\ Ready'
  BY DEF IInv, Indices, Progress, Unread, Samples, Ready, Clocking, Held, locals
<1>2. TapsAsSent'
  BY DEF IInv, TapsAsSent, Loops, Ends, locals
<1>3. ReplyIsSampled'
  BY DEF IInv, ReplyIsSampled
<1> QED
  BY <1>1, <1>2, <1>3 DEF IInv

LEMMA CableIInv ==
  ASSUME IInv, Plug \/ Unplug \/ BusReset \/ ConfigurationChanged PROVE IInv'
<1>1. /\ UNCHANGED <<buf, toHost, pc, req, locals, delay, sent>>
      /\ inEp' \in {inEp, <<>>} /\ outEp' \in {outEp, <<>>}
      /\ tmsTdi' = tmsTdi \/ pc = "in"
  BY DEF Plug, Unplug, BusReset, ConfigurationChanged, GoneFromHost, host, pins
<1>2. Queues'
  BY <1>1 DEF IInv, Queues
<1>3. Types'
  <2>1. connected' \in BOOLEAN /\ configured' \in BOOLEAN
    BY DEF Plug, Unplug, BusReset, ConfigurationChanged, GoneFromHost, IInv, Types
  <2>2. trst' \in BOOLEAN /\ srst' \in BOOLEAN
    BY DEF Plug, Unplug, BusReset, ConfigurationChanged, GoneFromHost, IInv, Types, pins
  <2>3. stale' \in BOOLEAN
    BY DEF Plug, Unplug, BusReset, ConfigurationChanged, GoneFromHost, IInv, Types
  <2> QED
    BY <1>1, <2>1, <2>2, <2>3 DEF IInv, Types
<1> QED
  BY <1>1, <1>2, <1>3, OthersIInv

LEMMA HostTakesIInv ==
  ASSUME IInv, HostTakes PROVE IInv'
<1>1. /\ UNCHANGED <<buf, toHost, pc, req, locals, delay, sent, connected, configured, trst, srst, stale, outEp, tmsTdi>>
      /\ inEp' \in {inEp, <<>>}
  BY DEF HostTakes, pins
<1>2. Queues' /\ Types'
  BY <1>1 DEF IInv, Queues, Types
<1> QED
  BY <1>1, <1>2, OthersIInv

LEMMA HostSendsIInv ==
  ASSUME IInv, NEW r \in Requests, HostSends(r) PROVE IInv'
<1>1. UNCHANGED <<buf, toHost, pc, req, locals, delay, connected, configured, trst, srst, stale, inEp, tmsTdi>>
  BY DEF HostSends, pins
<1>2. sent' \in Id /\ sent' = sent + 1
  BY BoundsAssumption DEF HostSends, IInv, Types, Id
<1>3. outEp' = <<Numbered(r, sent')>>
  BY <1>2 DEF HostSends
<1>4. Sound(Numbered(r, sent'))
  BY <1>2, RequestsAssumption DEF Sound, Sequenced, Numbered, Request
<1>5. Queues'
  BY <1>1, <1>3, <1>4 DEF IInv, Queues, Sound
<1>6. Types'
  BY <1>1, <1>2 DEF IInv, Types
<1> QED
  BY <1>1, <1>5, <1>6, OthersIInv

LEMMA InitIInv == Init => IInv
<1> SUFFICES ASSUME Init PROVE IInv
  OBVIOUS
<1>1. Types
  <2>1. DOMAIN buf = Cells
    BY DEF Init
  <2>2. sent \in Id /\ toHost \in 0 .. 255
    BY BoundsAssumption DEF Init, Id
  <2> QED
    BY <2>1, <2>2 DEF Init, Types
<1>2. Queues
  BY SizeAssumption, BoundsAssumption DEF Init, Queues, Sound, Sequenced, NoRequest, Id, Command
<1>3. Indices
  BY SizeAssumption DEF Init, Indices
<1>4. ~Clocking
  BY DEF Init, Clocking, Loops, Ends
<1>5. Progress /\ Unread /\ Samples
  BY <1>4 DEF Progress, Unread, Samples
<1>6. TapsAsSent /\ Ready /\ ReplyIsSampled
  BY <1>4 DEF TapsAsSent, Clocking, Ready, ReplyIsSampled, Init
<1> QED
  BY <1>1, <1>2, <1>3, <1>5, <1>6 DEF IInv

LEMMA NextIInv == IInv /\ [Next]_vars => IInv'
<1> SUFFICES ASSUME IInv, [Next]_vars PROVE IInv'
  OBVIOUS
<1>1. CASE UNCHANGED vars
  <2>1. UNCHANGED <<buf, toHost, pc, req, locals, delay, sent, connected, configured, trst, srst, stale, outEp, inEp, tmsTdi>>
    BY <1>1 DEF vars, usb, pins, host
  <2>2. Queues' /\ Types'
    BY <2>1 DEF IInv, Queues, Types
  <2> QED
    BY <2>1, <2>2, OthersIInv
<1> QED
  BY <1>1, DeviceIInv, CableIInv, HostTakesIInv, HostSendsIInv DEF Next

LEMMA Invariance == Spec => []IInv
BY InitIInv, NextIInv, PTL DEF Spec

-----------------------------------------------------------------------------
(* The theorems *)

\* The type invariant.  That the indices of jtag.c stay in usbBuffer rests on the
\* host's requests, which are assumed to fit into it; usbdev_jtag.c:176-177 reads
\* as much as a request says.
THEOREM JtagTypes == Spec => []TypeOK
<1>1. IInv => TypeOK
  <2> SUFFICES ASSUME IInv PROVE TypeOK
    OBVIOUS
  <2>1. Len(outEp) <= 1 /\ Len(inEp) <= 1 /\ req \in Sequenced
    <3>1. \A x : Len(<<x>>) = 1
      OBVIOUS
    <3>2. Len(outEp) \in {0, 1} /\ Len(inEp) \in {0, 1}
      BY <3>1 DEF IInv, Queues
    <3>3. \A n \in {0, 1} : n <= 1
      OBVIOUS
    <3>4. req \in Sequenced
      BY DEF IInv, Queues, Sound
    <3> QED
      BY <3>2, <3>3, <3>4, Zenon
  <2>2. /\ length \in 0 .. 4 * Size /\ steps \in 0 .. 4 * Size
        /\ steps <= length \/ steps = 1
    BY SizeAssumption DEF IInv, Indices
  <2>3. outIndex \in 0 .. Size - 1 /\ inIndex \in 0 .. Size - 1
    BY SizeAssumption DEF IInv, Indices
  <2> QED
    BY <2>1, <2>2, <2>3 DEF IInv, Types, TypeOK
<1> QED
  BY <1>1, Invariance, PTL

\* The reply is packed in place.  The loops of jtag.c fetch no byte behind those
\* that the request brought (one left by an earlier request, if it brought none);
\* the byte of the reply that is written next lies below the next one fetched,
\* with one level a clock or two; and the finished reply is no longer than the
\* request, for every request that its host was right to send.
InPlace ==
  /\ Clocking => /\ outIndex <= (IF req.bytes = 0 THEN 1 ELSE req.bytes)
                 /\ DataToHost(inIndex) < DataFromHost(outIndex + 1)
  /\ toHost > 0 /\ req.cmd \in Tap => toHost <= req.bytes

THEOREM JtagInPlace == Spec => []InPlace
<1>1. IInv => InPlace
  <2> SUFFICES ASSUME IInv PROVE InPlace
    OBVIOUS
  <2>1. req \in Sequenced /\ (req.extra > 0 => req.bytes > 0)
    BY DEF IInv, Queues, Sound
  <2>2. /\ req.bytes \in Nat /\ Length(req) \in Nat /\ Length(req) <= 4 * req.bytes
        /\ Length(req) > 0 <=> req.bytes > 0
    BY <2>1, LengthFacts, SizeAssumption DEF Sequenced
  <2>3. ASSUME Clocking
        PROVE  /\ outIndex <= (IF req.bytes = 0 THEN 1 ELSE req.bytes)
               /\ DataToHost(inIndex) < DataFromHost(outIndex + 1)
    <3>1. /\ length = Length(req) /\ steps \in Nat /\ outIndex = (steps + 3) \div 4
          /\ steps <= length \/ (steps = 1 /\ length = 0)
          /\ inIndex \in 0 .. outIndex
      BY <2>3 DEF IInv, Indices, Progress
    <3>2. outIndex <= (IF req.bytes = 0 THEN 1 ELSE req.bytes)
      BY <2>2, <3>1
    <3>3. DataToHost(inIndex) < DataFromHost(outIndex + 1)
      BY <3>1, SizeAssumption DEF DataToHost, DataFromHost
    <3> QED
      BY <3>2, <3>3
  <2>4. ASSUME toHost > 0, req.cmd \in Tap
        PROVE  toHost <= req.bytes
    <3>1. toHost = ReplySize(req) /\ PerByte(req.cmd) \in {4, 8}
      BY <2>4, Widths DEF IInv, Ready, PerByte, Width
    <3>2. \A n, b \in Nat, P \in {4, 8} : n <= 4 * b => (n + P - 1) \div P <= b
      OBVIOUS
    <3> QED
      BY <2>2, <3>1, <3>2 DEF ReplySize
  <2> QED
    BY <2>3, <2>4 DEF InPlace
<1> QED
  BY <1>1, Invariance, PTL

\* Every pair is clocked as the host sent it, although the reply is written over
\* the request while it is read.
THEOREM JtagTapsAsSent == Spec => []TapsAsSent
<1>1. IInv => TapsAsSent
  BY DEF IInv
<1> QED
  BY <1>1, Invariance, PTL

\* The reply that the host fetches is every level sampled, in order, for every
\* number of pairs and with and without the EMU line.
THEOREM JtagReplyIsSampled == Spec => []ReplyIsSampled
<1>1. IInv => ReplyIsSampled
  BY DEF IInv
<1> QED
  BY <1>1, Invariance, PTL


-----------------------------------------------------------------------------
(* The replies keep their order. *)

\* Requests and replies are numbered in the order they were sent: the host took
\* one, one waits to be taken, one is being made, one waits to be served.
Ordered ==
  /\ taken \in Nat /\ taken <= req.id /\ req.id <= sent
  /\ toHost > 0 \/ Clocking => taken < req.id
  /\ inEp # <<>> => taken < inEp[1].req.id /\ inEp[1].req.id <= req.id
  /\ inEp # <<>> /\ (toHost > 0 \/ Clocking) => inEp[1].req.id < req.id
  /\ outEp # <<>> => req.id < outEp[1].id /\ outEp[1].id <= sent

\* The reply to the request handled last is yet to be sent.
Active == toHost > 0 \/ (Clocking /\ Expects(req))

\* A host that waits for each reply has at most one request on its way, and
\* wherever that is, it is the one the host waits for.
Owed ==
  /\ piped \in BOOLEAN /\ waiting \in Seq(Nat)
  /\ ~configured => outEp = <<>> /\ inEp = <<>> /\ waiting = <<>>
  /\ ~stale /\ ~piped /\ configured =>
       /\ Active => waiting = <<req.id>>
       /\ inEp # <<>> => waiting = <<inEp[1].req.id>>
       /\ outEp # <<>> /\ Expects(outEp[1]) => waiting = <<outEp[1].id>>

\* What the invariant says of the places a request may be.
LEMMA Places ==
  ASSUME IInv
  PROVE  /\ toHost \in Nat /\ sent \in Nat /\ req.id \in Nat
         /\ stale \in BOOLEAN /\ configured \in BOOLEAN
         /\ Clocking => toHost = 0 /\ req.cmd \in Tap
         /\ outEp # <<>> => outEp[1].id \in Nat /\ outEp = <<outEp[1]>>
         /\ inEp # <<>> => inEp[1].req.id \in Nat /\ inEp = <<inEp[1]>>
<1>1. /\ toHost \in Nat /\ sent \in Nat /\ stale \in BOOLEAN /\ configured \in BOOLEAN
  BY BoundsAssumption DEF IInv, Types, Id
<1>2. \A r \in Sequenced : r.id \in Nat
  BY BoundsAssumption DEF Sequenced, Id
<1>3. req \in Sequenced
  BY DEF IInv, Queues, Sound
<1>4. Clocking => toHost = 0 /\ req.cmd \in Tap
  BY DEF IInv, Progress
<1>5. outEp # <<>> => outEp[1].id \in Nat /\ outEp = <<outEp[1]>>
  BY <1>2 DEF IInv, Queues
<1>6. inEp # <<>> => inEp[1].req.id \in Nat /\ inEp = <<inEp[1]>>
  BY <1>2 DEF IInv, Queues
<1> QED
  BY <1>1, <1>2, <1>3, <1>4, <1>5, <1>6

LEMMA TickInOrder ==
  ASSUME IInv, Ordered, Owed, TickIn PROVE Ordered' /\ Owed'
<1>1. /\ UNCHANGED <<configured, outEp, req, sent, waiting, taken, piped, stale>>
      /\ ~Clocking /\ ~Clocking'
  BY DEF TickIn, host, Clocking, Loops, Ends
<1>2. CASE connected /\ configured /\ toHost > 0 /\ inEp = <<>>
  <2>1. inEp' # <<>> /\ inEp'[1].req = req /\ toHost' = 0
    BY <1>2 DEF TickIn
  <2>2. Ordered'
    BY <1>1, <1>2, <2>1, Places DEF Ordered
  <2>3. Owed'
    BY <1>1, <1>2, <2>1 DEF Owed, Active
  <2> QED
    BY <2>2, <2>3
<1>3. CASE ~(connected /\ configured /\ toHost > 0 /\ inEp = <<>>)
  <2>1. UNCHANGED <<inEp, toHost>>
    BY <1>3 DEF TickIn
  <2> QED
    BY <1>1, <2>1 DEF Ordered, Owed, Active
<1> QED
  BY <1>2, <1>3

LEMMA QuietOrder ==
  ASSUME IInv, Ordered, Owed, Nothing \/ Empty PROVE Ordered' /\ Owed'
<1>1. /\ UNCHANGED <<configured, inEp, toHost, req, sent, waiting, taken, piped, stale>>
      /\ ~Clocking /\ ~Clocking' /\ outEp' \in {outEp, <<>>}
  BY DEF Nothing, Empty, usb, host, Clocking, Loops, Ends
<1> QED
  BY <1>1 DEF Ordered, Owed, Active

\* However a request is served: it becomes the one handled last, and a reply is
\* only made if the host expects one.
LEMMA ServeOrder ==
  ASSUME IInv, Ordered, Owed, NEW r, Serve(r) PROVE Ordered' /\ Owed'
<1>1. Receive(r)
  BY DEF Serve, TapOutput, ReadInput, SetTrst, SetSrst, SetSrstTrst, SetDelay, UnknownCommand, Reply
<1>2. /\ outEp # <<>> /\ outEp[1] = r /\ outEp' = <<>> /\ req' = r
      /\ UNCHANGED <<configured, inEp, sent, waiting, taken, piped, stale>>
      /\ ~Clocking
  BY <1>1 DEF Receive, host, Clocking, Loops, Ends
<1>3. toHost' \in {0, 1} /\ (Active' => Expects(r))
  <2>1. CASE TapOutput(r)
    BY <1>2, <2>1 DEF TapOutput, Active
  <2>2. CASE UnknownCommand(r)
    BY <2>2 DEF UnknownCommand, Active, Clocking, Loops, Ends
  <2>3. CASE ReadInput(r) \/ SetTrst(r) \/ SetSrst(r) \/ SetSrstTrst(r) \/ SetDelay(r)
    <3>1. Expects(r)
      BY <2>3 DEF ReadInput, SetTrst, SetSrst, SetSrstTrst, SetDelay, Expects, Tap
    <3>2. toHost' = 1
      BY <2>3 DEF ReadInput, SetTrst, SetSrst, SetSrstTrst, SetDelay, Reply
    <3> QED
      BY <3>1, <3>2
  <2> QED
    BY <2>1, <2>2, <2>3 DEF Serve
<1>4. Ordered'
  BY <1>2, <1>3, Places DEF Ordered
<1>5. Owed'
  BY <1>2, <1>3 DEF Owed
<1> QED
  BY <1>4, <1>5

LEMMA StepOrder ==
  ASSUME IInv, Ordered, Owed, MaxSpeed \/ WithDelay \/ Emu PROVE Ordered' /\ Owed'
<1>1. /\ UNCHANGED <<configured, outEp, inEp, toHost, req, sent, waiting, taken, piped, stale>>
      /\ Clocking /\ Clocking'
  BY DEF MaxSpeed, WithDelay, Emu, TapStep, usb, host, Clocking, Loops, Ends
<1> QED
  BY <1>1 DEF Ordered, Owed, Active

LEMMA EndOrder ==
  ASSUME IInv, Ordered, Owed, OutputEnd \/ OutputEmuEnd PROVE Ordered' /\ Owed'
<1>1. /\ UNCHANGED <<configured, outEp, inEp, req, sent, waiting, taken, piped, stale>>
      /\ Clocking /\ ~Clocking'
  BY DEF OutputEnd, OutputEmuEnd, TapEnd, usb, host, Clocking, Loops, Ends
<1>2. req.cmd \in Tap /\ toHost = 0
  BY <1>1, Places
<1>3. toHost' \in Nat /\ (toHost' > 0 => length > 0)
  <2>1. length \in Nat
    BY SizeAssumption DEF IInv, Indices
  <2>2. \A n \in Nat, P \in {4, 8} :
           ((n + P - 1) \div P) % 256 \in Nat /\ (((n + P - 1) \div P) % 256 > 0 => n > 0)
    OBVIOUS
  <2>3. \E P \in {4, 8} : toHost' = ((length + P - 1) \div P) % 256
    BY DEF OutputEnd, OutputEmuEnd, TapEnd
  <2> QED
    BY <2>1, <2>2, <2>3
<1>4. length > 0 => Expects(req)
  <2>1. length = Length(req) /\ Sound(req)
    BY <1>1 DEF IInv, Progress, Queues
  <2>2. Length(req) > 0 <=> req.bytes > 0
    BY <2>1, LengthFacts DEF Sound
  <2> QED
    BY <1>2, <2>1, <2>2 DEF Expects, Tap
<1>5. Ordered'
  BY <1>1, <1>3, Places DEF Ordered
<1>6. Owed'
  BY <1>1, <1>3, <1>4 DEF Owed, Active
<1> QED
  BY <1>5, <1>6

LEMMA CableOrder ==
  ASSUME IInv, Ordered, Owed, Plug \/ Unplug \/ BusReset \/ ConfigurationChanged
  PROVE  Ordered' /\ Owed'
<1>1. /\ UNCHANGED <<toHost, req, sent, taken, piped>>
      /\ Clocking' = Clocking
  BY DEF Plug, Unplug, BusReset, ConfigurationChanged, GoneFromHost, host, Clocking
<1>2. CASE Plug
  <2>1. UNCHANGED <<configured, outEp, inEp, waiting, stale>>
    BY <1>2 DEF Plug, host
  <2> QED
    BY <1>1, <2>1 DEF Ordered, Owed, Active
<1>3. CASE Unplug \/ BusReset
  <2>1. configured' = FALSE /\ outEp' = <<>> /\ inEp' = <<>> /\ waiting' = <<>>
    BY <1>3 DEF Unplug, BusReset, GoneFromHost
  <2>2. waiting' \in Seq(Nat)
    BY <2>1
  <2> QED
    BY <1>1, <2>1, <2>2 DEF Ordered, Owed
<1>4. CASE ConfigurationChanged
  <2>1. /\ UNCHANGED <<outEp, inEp, waiting>> /\ ~configured /\ ~Clocking
        /\ stale' = (stale \/ toHost > 0)
    BY <1>4 DEF ConfigurationChanged, host, Clocking, Loops, Ends
  <2> QED
    BY <1>1, <2>1, Places DEF Ordered, Owed, Active
<1> QED
  BY <1>2, <1>3, <1>4

LEMMA HostTakesOrder ==
  ASSUME IInv, Ordered, Owed, HostTakes PROVE Ordered' /\ Owed'
<1>1. /\ UNCHANGED <<configured, outEp, toHost, req, sent, piped, stale>>
      /\ Clocking' = Clocking /\ inEp # <<>> /\ inEp' = <<>> /\ taken' = inEp[1].req.id
      /\ waiting' = IF waiting = <<>> THEN <<>> ELSE Tail(waiting)
  BY DEF HostTakes, Clocking
<1>2. Ordered'
  BY <1>1, Places DEF Ordered
<1>3. ASSUME ~stale, ~piped, configured
      PROVE  /\ waiting' = <<>> /\ ~Active
             /\ ~(outEp # <<>> /\ Expects(outEp[1]))
  <2>1. waiting = <<inEp[1].req.id>>
    BY <1>1, <1>3 DEF Owed
  <2>2. waiting' = <<>>
    BY <1>1, <2>1
  <2>3. ~Active
    BY <1>1, <1>3, <2>1, Places DEF Owed, Ordered, Active
  <2>4. ~(outEp # <<>> /\ Expects(outEp[1]))
    BY <1>1, <1>3, <2>1, Places DEF Owed, Ordered
  <2> QED
    BY <2>2, <2>3, <2>4
<1>4. waiting' \in Seq(Nat)
  BY <1>1 DEF Owed
<1>5. Owed'
  BY <1>1, <1>3, <1>4 DEF Owed, Active
<1> QED
  BY <1>2, <1>5

LEMMA HostSendsOrder ==
  ASSUME IInv, Ordered, Owed, NEW r \in Requests, HostSends(r) PROVE Ordered' /\ Owed'
<1> DEFINE q == Numbered(r, sent + 1)
<1>1. /\ UNCHANGED <<configured, inEp, toHost, req, taken, stale>>
      /\ Clocking' = Clocking /\ configured /\ outEp' = <<q>> /\ sent' = sent + 1
      /\ waiting' = IF Expects(r) THEN Append(waiting, sent + 1) ELSE waiting
      /\ piped' = (piped \/ waiting # <<>>)
  BY DEF HostSends, Clocking
<1>2. q.id = sent + 1 /\ (Expects(q) <=> Expects(r))
  BY DEF Numbered, Expects
<1> HIDE DEF q
<1>3. outEp' # <<>> /\ outEp'[1] = q
  BY <1>1
<1>4. Ordered' /\ waiting' \in Seq(Nat)
  <2>1. sent + 1 \in Nat
    BY Places
  <2>2. waiting' \in Seq(Nat)
    BY <1>1, <2>1 DEF Owed
  <2> QED
    BY <1>1, <1>2, <1>3, <2>2, Places DEF Ordered
<1>5. CASE waiting = <<>>
  <2>1. waiting' = IF Expects(r) THEN <<sent + 1>> ELSE <<>>
    BY <1>1, <1>5
  <2>2. \A x : <<x>> # <<>>
    OBVIOUS
  <2>3. ~stale /\ ~piped => ~Active /\ inEp = <<>>
    BY <1>1, <1>5, <2>2 DEF Owed
  <2>4. piped' \in BOOLEAN /\ (piped' <=> piped)
    BY <1>1, <1>5 DEF Owed
  <2> QED
    BY <1>1, <1>2, <1>3, <1>4, <2>1, <2>3, <2>4 DEF Owed, Active
<1>6. CASE waiting # <<>>
  <2>1. piped' = TRUE
    BY <1>1, <1>6 DEF Owed
  <2> QED
    BY <1>1, <1>4, <2>1 DEF Owed
<1> QED
  BY <1>5, <1>6

LEMMA NextOrder == IInv /\ Ordered /\ Owed /\ [Next]_vars => Ordered' /\ Owed'
<1> SUFFICES ASSUME IInv, Ordered, Owed, [Next]_vars PROVE Ordered' /\ Owed'
  OBVIOUS
<1>1. CASE UNCHANGED vars
  BY <1>1 DEF vars, usb, host, Ordered, Owed, Active, Clocking
<1>2. CASE Device
  BY <1>2, TickInOrder, QuietOrder, ServeOrder, StepOrder, EndOrder DEF Device
<1> QED
  BY <1>1, <1>2, CableOrder, HostTakesOrder, HostSendsOrder DEF Next

LEMMA InitOrder == Init => Ordered /\ Owed
<1> SUFFICES ASSUME Init PROVE Ordered /\ Owed
  OBVIOUS
<1>1. /\ taken = 0 /\ req.id = 0 /\ sent = 0 /\ toHost = 0 /\ ~Clocking
      /\ outEp = <<>> /\ inEp = <<>> /\ waiting = <<>> /\ piped = FALSE
  BY DEF Init, Clocking, Loops, Ends, NoRequest
<1>2. Ordered
  BY <1>1 DEF Ordered
<1>3. <<>> \in Seq(Nat)
  OBVIOUS
<1>4. piped \in BOOLEAN /\ waiting \in Seq(Nat)
  BY <1>1, <1>3
<1>5. ~Active
  BY <1>1 DEF Active
<1>6. Owed
  BY <1>1, <1>4, <1>5, Zenon DEF Owed
<1> QED
  BY <1>2, <1>6

\* The replies on their way, as a sequence of at most two.
LEMMA PendingIs ==
  ASSUME IInv
  PROVE  Pending = (IF inEp = <<>> THEN <<>> ELSE <<inEp[1].req.id>>)
                   \o (IF Active THEN <<req.id>> ELSE <<>>)
<1>1. [i \in 1 .. Len(inEp) |-> inEp[i].req.id] = IF inEp = <<>> THEN <<>> ELSE <<inEp[1].req.id>>
  <2>1. CASE inEp = <<>>
    BY <2>1
  <2>2. CASE inEp # <<>>
    <3>1. inEp = <<inEp[1]>>
      BY <2>2, Places
    <3>2. Len(inEp) = 1
      BY <3>1
    <3>3. 1 .. 1 = {1}
      OBVIOUS
    <3>4. \A x, f : f = [i \in {1} |-> x] => f = <<x>>
      OBVIOUS
    <3>5. [i \in 1 .. Len(inEp) |-> inEp[i].req.id] = [i \in {1} |-> inEp[1].req.id]
      BY <3>2, <3>3
    <3> QED
      BY <2>2, <3>4, <3>5
  <2> QED
    BY <2>1, <2>2
<1> DEFINE a == [i \in 1 .. Len(inEp) |-> inEp[i].req.id]
           first == IF inEp = <<>> THEN <<>> ELSE <<inEp[1].req.id>>
           b == IF toHost > 0 THEN <<req.id>> ELSE <<>>
           c == IF pc \in Loops \cup Ends /\ Expects(req) THEN <<req.id>> ELSE <<>>
<1>2. Pending = (first \o b) \o c
  BY <1>1, Zenon DEF Pending
<1>3. first \in Seq(Nat) /\ <<req.id>> \in Seq(Nat)
  BY Places
<1>4. \A x \in Seq(Nat) : x \o <<>> = x
  OBVIOUS
<1>5. first \o <<req.id>> \in Seq(Nat)
  BY <1>3
<1>6. (b = <<req.id>> /\ c = <<>>) \/ (b = <<>> /\ c = <<req.id>>) \/ (b = <<>> /\ c = <<>>)
  BY Places DEF Clocking
<1>7. Active <=> (b = <<req.id>> \/ c = <<req.id>>)
  <2>1. <<req.id>> # <<>>
    OBVIOUS
  <2> QED
    BY <2>1 DEF Active, Clocking
<1>8. <<req.id>> # <<>>
  OBVIOUS
<1> HIDE DEF first, b, c
<1> QED
  BY <1>2, <1>3, <1>4, <1>5, <1>6, <1>7, <1>8 DEF first

LEMMA OrderFollows == IInv /\ Ordered /\ Owed => RepliesInOrder
<1> SUFFICES ASSUME IInv, Ordered, Owed PROVE RepliesInOrder
  OBVIOUS
<1> DEFINE m == inEp[1].req.id
           p == Pending
<1>1. \/ inEp = <<>> /\ ~Active /\ p = <<>>
      \/ inEp # <<>> /\ ~Active /\ p = <<m>>
      \/ inEp = <<>> /\ Active /\ p = <<req.id>>
      \/ inEp # <<>> /\ Active /\ Len(p) = 2 /\ p[1] = m /\ p[2] = req.id
  <2>1. <<m>> \o <<>> = <<m>> /\ <<>> \o <<req.id>> = <<req.id>> /\ <<>> \o <<>> = <<>>
    OBVIOUS
  <2>2. \A q : q = <<m>> \o <<req.id>> => Len(q) = 2 /\ q[1] = m /\ q[2] = req.id
    OBVIOUS
  <2> QED
    BY <2>1, <2>2, PendingIs
<1>2. /\ taken \in Nat /\ req.id \in Nat
      /\ inEp # <<>> => m \in Nat /\ taken < m
      /\ Active => taken < req.id
      /\ inEp # <<>> /\ Active => m < req.id
  BY Places DEF Ordered, Active
<1>3. ~stale /\ ~piped /\ configured =>
        /\ Active => waiting = <<req.id>>
        /\ inEp # <<>> => waiting = <<m>>
  BY DEF Owed
<1>4. waiting \in Seq(Nat)
  BY DEF Owed
<1> HIDE DEF m, p
<1>5. \A i \in 1 .. Len(p) : p[i] > (IF i = 1 THEN taken ELSE p[i - 1])
  BY <1>1, <1>2
<1>6. ASSUME ~stale, ~piped, configured PROVE IsPrefix(p, waiting)
  <2>1. CASE p = <<>>
    BY <1>4, <2>1 DEF IsPrefix
  <2>2. CASE p # <<>>
    <3>1. \A x : <<x>> # <<>>
      OBVIOUS
    <3>2. \E x : p = <<x>> /\ waiting = <<x>>
      <4>1. \A x, y : <<x>> = <<y>> => x = y
        OBVIOUS
      <4>2. ~(inEp # <<>> /\ Active)
        BY <1>2, <1>3, <1>6, <4>1
      <4> QED
        BY <1>1, <1>3, <1>6, <2>2, <4>2
    <3>3. \A x : IsPrefix(<<x>>, <<x>>)
      BY DEF IsPrefix
    <3> QED
      BY <3>2, <3>3
  <2> QED
    BY <2>1, <2>2
<1> QED
  BY <1>5, <1>6 DEF p, RepliesInOrder

\* No reply is sent twice or before an earlier one, and while the host waits for
\* each of its replies it is sent those it waits for, whenever the cable is
\* pulled, for every mix of requests and every number of them.
THEOREM JtagRepliesInOrder == Spec => []RepliesInOrder
BY Invariance, InitOrder, NextOrder, OrderFollows, PTL DEF Spec

=============================================================================
