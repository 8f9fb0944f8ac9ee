--------------------------- MODULE ConsoleProofs ----------------------------
(***************************************************************************)
(* What holds of the console for every keyboard, buffer size and burst: its *)
(* types, that no character is thrown away, that no line is executed below  *)
(* itself, and that keys are seen once.  The inductive invariant adds where *)
(* driver_tick may be while a line is pending and which mode belongs to     *)
(* which stack.                                                             *)
(***************************************************************************)
EXTENDS Console, SequenceTheorems, WellFoundedInduction, TLAPS

\* The part of the invariant that the operators of console.c maintain.
BufferTypes ==
  /\ mode \in {"LINE", "KEY"}
  /\ cmdbuf \in Seq(Char) /\ Len(cmdbuf) <= LineMax
  /\ gotLine \in BOOLEAN /\ gotKey \in BOOLEAN /\ lastKey \in Char
  /\ typed \in Seq(Char)
  /\ unread \in Nat

BuffersInv == BufferTypes /\ NothingThrown /\ KeyFresh

\* The rest of TypeOK.
ControlTypes ==
  /\ pc \in Steps
  /\ count \in 0 .. Burst /\ byte \in Char
  /\ polled \in Char /\ exitCount \in 0 .. Wrap - 1
  /\ plugged \in BOOLEAN /\ uart \in Char
  /\ queue \in Seq(Keys)

KeyFrames == Frames \ {"done"}

\* At most one activation: none or the one about to return in line mode, and
\* in key mode the one that waits.
StackInv ==
  \/ /\ calls = <<>> /\ mode = "LINE"
     /\ pc \notin {"execute", "finish", "poll", "polled"}
  \/ /\ calls = <<"done">> /\ mode = "LINE"
     /\ pc \in {"execute", "finish"}
  \/ /\ \E f \in KeyFrames : calls = <<f>>
     /\ mode = "KEY"
     /\ pc \notin {"execute", "finish"}

\* A finished line is executed before another character can be delivered.
PendingInv ==
  mode = "LINE" /\ gotLine =>
    pc \in {"usb", "cdcEnter", "cdc", "console", "execute", "finish", "wild"}

IInv == BuffersInv /\ ControlTypes /\ StackInv /\ PendingInv

-----------------------------------------------------------------------------
(* The stack *)

\* Stacks of one activation, the only ones there are.
LEMMA OneFrame ==
  ASSUME NEW f, NEW g
  PROVE  /\ <<f>> # <<>> /\ Len(<<f>>) = 1
         /\ Last(<<f>>) = f /\ Front(<<f>>) = <<>>
         /\ Append(<<>>, f) = <<f>>
         /\ [<<f>> EXCEPT ![Len(<<f>>)] = g] = <<g>>
<1>1. /\ <<f>> # <<>> /\ Len(<<f>>) = 1 /\ Append(<<>>, f) = <<f>>
  OBVIOUS
<1>2. Last(<<f>>) = f
  BY DEF Last
<1>3. Front(<<f>>) = <<>>
  BY DEF Front
<1>4. [<<f>> EXCEPT ![Len(<<f>>)] = g] = <<g>>
  OBVIOUS
<1> QED
  BY <1>1, <1>2, <1>3, <1>4

\* driver_tick returns to the top of the stack.
LEMMA ReturnGoes ==
  ASSUME NEW stack, Return(stack), exitCount \in 0 .. Wrap - 1
  PROVE  /\ pc' = IF stack = <<>> THEN "uart" ELSE "poll"
         /\ exitCount' \in 0 .. Wrap - 1
<1>1. Wrap \in Nat \ {0}
  BY BoundsAssumption
<1>2. CASE stack = <<>>
  BY <1>2 DEF Return, Goto
<1>3. CASE stack # <<>>
  <2>1. (exitCount + 1) % Wrap \in 0 .. Wrap - 1
    BY <1>1
  <2> QED
    BY <1>1, <1>3, <2>1 DEF Return, Goto
<1> QED
  BY <1>2, <1>3

-----------------------------------------------------------------------------
(* The operators of console.c *)

LEMMA EmptyLine == <<>> \in Seq(Char) /\ Len(<<>>) <= LineMax
<1>1. <<>> \in Seq(Char)
  BY EmptySeq
<1>2. Len(<<>>) <= LineMax
  BY BoundsAssumption
<1> QED
  BY <1>1, <1>2

\* console_rx_callback in line mode edits the line within its buffer.
LEMMA EditTypes ==
  ASSUME BufferTypes, NEW c \in Char, Edit(c)
  PROVE  cmdbuf' \in Seq(Char) /\ Len(cmdbuf') <= LineMax /\ gotLine' \in BOOLEAN
<1>1. gotLine' \in BOOLEAN
  BY DEF Edit
<1>2. CASE c = Enter
  <2>1. cmdbuf' = cmdbuf
    BY <1>2, KeysAssumption DEF Edit
  <2> QED
    BY <1>1, <2>1 DEF BufferTypes
<1>3. CASE c # Enter /\ c = Backspace
  <2>1. CASE cmdbuf = <<>>
    <3>1. cmdbuf' = cmdbuf
      BY <1>3, <2>1 DEF Edit
    <3> QED
      BY <1>1, <3>1 DEF BufferTypes
  <2>2. CASE cmdbuf # <<>>
    <3>1. cmdbuf' = SubSeq(cmdbuf, 1, Len(cmdbuf) - 1)
      BY <1>3, <2>2 DEF Edit, Front
    <3>2. Len(cmdbuf) \in Nat \ {0}
      BY <2>2 DEF BufferTypes
    <3>3. cmdbuf' \in Seq(Char) /\ Len(cmdbuf') = Len(cmdbuf) - 1
      <4>1. \A i \in 1 .. Len(cmdbuf) - 1 : cmdbuf[i] \in Char
        BY <3>2 DEF BufferTypes
      <4>2. 1 \in Int /\ Len(cmdbuf) - 1 \in Int
        BY <3>2
      <4>3. /\ SubSeq(cmdbuf, 1, Len(cmdbuf) - 1) \in Seq(Char)
            /\ Len(SubSeq(cmdbuf, 1, Len(cmdbuf) - 1)) =
                 IF 1 <= Len(cmdbuf) - 1 THEN Len(cmdbuf) - 1 - 1 + 1 ELSE 0
        BY <4>1, <4>2, SubSeqProperties
      <4>4. CASE 1 <= Len(cmdbuf) - 1
        BY <3>1, <3>2, <4>3, <4>4
      <4>5. CASE ~(1 <= Len(cmdbuf) - 1)
        <5>1. Len(SubSeq(cmdbuf, 1, Len(cmdbuf) - 1)) = 0
          <6>1. Len(cmdbuf) - 1 < 1
            BY <3>2, <4>5
          <6>2. SubSeq(cmdbuf, 1, Len(cmdbuf) - 1) = <<>>
            BY <4>2, <6>1, SubSeqEmpty
          <6>3. Len(<<>>) = 0
            OBVIOUS
          <6> QED
            BY <6>2, <6>3, Zenon
        <5>2. Len(cmdbuf) - 1 = 0
          <6>1. \A n \in Nat \ {0} : ~(1 <= n - 1) => n - 1 = 0
            OBVIOUS
          <6> QED
            BY <3>2, <4>5, <6>1
        <5>3. Len(cmdbuf') = 0
          BY <3>1, <5>1, Zenon
        <5>4. cmdbuf' \in Seq(Char)
          BY <3>1, <4>3, Zenon
        <5> QED
          BY <5>2, <5>3, <5>4
      <4> QED
        BY <4>4, <4>5
    <3> QED
      BY <1>1, <3>2, <3>3, BoundsAssumption DEF BufferTypes
  <2> QED
    BY <2>1, <2>2
<1>4. CASE c # Enter /\ c # Backspace
  <2>1. CASE Len(cmdbuf) < LineMax
    <3>1. cmdbuf' = Append(cmdbuf, c)
      BY <1>4, <2>1 DEF Edit
    <3>2. cmdbuf' \in Seq(Char) /\ Len(cmdbuf') = Len(cmdbuf) + 1
      BY <3>1 DEF BufferTypes
    <3> QED
      BY <1>1, <2>1, <3>2, BoundsAssumption DEF BufferTypes
  <2>2. CASE ~(Len(cmdbuf) < LineMax)
    BY <1>1, <1>4, <2>2 DEF Edit, BufferTypes
  <2> QED
    BY <2>1, <2>2
<1> QED
  BY <1>2, <1>3, <1>4

\* console_rx_callback, called when it said it is ready, keeps its promises.
LEMMA RxKeeps ==
  ASSUME BuffersInv, NEW c \in Char, RxReady, RxCallback(c)
  PROVE  BuffersInv' /\ mode' = mode
<1>1. CASE RxKey(c)
  <2>2. unread' \in Nat /\ unread' > 0
    BY <1>1 DEF RxKey, BuffersInv, BufferTypes
  <2>3. BufferTypes' /\ mode' = "KEY" /\ mode = "KEY" /\ gotKey'
    BY <1>1, <2>2 DEF RxKey, BuffersInv, BufferTypes
  <2> QED
    BY <2>2, <2>3 DEF BuffersInv, NothingThrown, KeyFresh
<1>2. CASE RxLine(c)
  <2>1. mode = "LINE" /\ mode' = "LINE" /\ ~gotLine
    BY <1>2 DEF RxLine, RxReady
  <2>2. Edit(c)
    BY <1>2, <2>1 DEF RxLine
  <2>3. typed' = Append(typed, c) /\ typed \in Seq(Char)
    BY <1>2 DEF RxLine, BuffersInv, BufferTypes
  <2>4. /\ typed' \in Seq(Char) /\ Len(typed') = Len(typed) + 1
        /\ \A i \in 1 .. Len(typed) : typed'[i] = typed[i]
        /\ typed'[Len(typed) + 1] = c
        /\ Len(typed) \in Nat
    BY <2>3, AppendProperties, LenProperties
  <2>5. cmdbuf' \in Seq(Char) /\ Len(cmdbuf') <= LineMax /\ gotLine' \in BOOLEAN
    BY <2>2, EditTypes DEF BuffersInv
  <2>6. BufferTypes'
    BY <1>2, <2>1, <2>4, <2>5 DEF RxLine, BuffersInv, BufferTypes
  <2>7. gotLine' <=> (c = Enter)
    BY <2>2 DEF Edit
  <2>8. \A i \in 1 .. Len(typed) : typed[i] # Enter
    BY <2>1 DEF BuffersInv, NothingThrown
  <2>9. \A i \in 1 .. Len(typed') : (typed'[i] = Enter) <=> (gotLine' /\ i = Len(typed'))
    <3> TAKE i \in 1 .. Len(typed')
    <3>1. CASE i = Len(typed')
      BY <2>4, <2>7, <3>1
    <3>2. CASE i # Len(typed')
      <4>1. i \in 1 .. Len(typed)
        BY <2>4, <3>2
      <4> QED
        BY <2>4, <2>8, <3>2, <4>1
    <3> QED
      BY <3>1, <3>2
  <2> QED
    BY <2>1, <2>6, <2>9 DEF BuffersInv, NothingThrown, KeyFresh
<1> QED
  BY <1>1, <1>2 DEF RxCallback

\* A change of mode, the end of a line and a poll keep the promises too.
LEMMA ModesKeep ==
  ASSUME BuffersInv
  PROVE  /\ SetLineMode => BuffersInv' /\ mode' = "LINE" /\ ~gotLine'
         /\ SetKeyMode => BuffersInv' /\ mode' = "KEY"
         /\ SetLineThenKeyMode => BuffersInv' /\ mode' = "KEY"
         /\ LineDone => BuffersInv' /\ mode' = mode /\ ~gotLine'
         /\ TakeKey => BuffersInv' /\ mode' = mode
<1>1. ASSUME typed' = <<>>, ~gotLine'
      PROVE  NothingThrown'
  BY <1>1 DEF NothingThrown
<1>2. SetLineMode => BuffersInv' /\ mode' = "LINE" /\ ~gotLine'
  <2> SUFFICES ASSUME SetLineMode
               PROVE  BuffersInv' /\ mode' = "LINE" /\ ~gotLine'
    OBVIOUS
  <2>1. mode' = "LINE" /\ ~gotLine' /\ cmdbuf' = <<>> /\ typed' = <<>> /\ gotLine' = FALSE
    BY DEF SetLineMode
  <2>2. <<>> \in Seq(Char) /\ Len(<<>>) <= LineMax
    BY EmptyLine
  <2>3. cmdbuf' \in Seq(Char) /\ Len(cmdbuf') <= LineMax /\ typed' \in Seq(Char)
    BY <2>1, <2>2, Zenon
  <2>4. BufferTypes'
    BY <2>1, <2>3 DEF SetLineMode, BuffersInv, BufferTypes
  <2> QED
    BY <1>1, <2>1, <2>4 DEF BuffersInv, KeyFresh
<1>3. SetKeyMode => BuffersInv' /\ mode' = "KEY"
  <2> SUFFICES ASSUME SetKeyMode
               PROVE  BuffersInv' /\ mode' = "KEY"
    OBVIOUS
  <2>1. /\ mode' = "KEY" /\ ~gotKey' /\ gotKey' = FALSE /\ unread' = 0
        /\ UNCHANGED <<cmdbuf, gotLine, lastKey, typed>>
    BY DEF SetKeyMode
  <2>2. BufferTypes'
    <3>1. gotKey' \in BOOLEAN
      BY <2>1, Zenon
    <3>2. unread' \in Nat /\ mode' \in {"LINE", "KEY"}
      BY <2>1
    <3>3. UNCHANGED <<cmdbuf, gotLine, lastKey, typed>>
      BY <2>1
    <3> QED
      BY <3>1, <3>2, <3>3 DEF BuffersInv, BufferTypes
  <2>3. NothingThrown'
    BY <2>1 DEF NothingThrown
  <2>4. KeyFresh'
    <3>1. ~gotKey'
      BY <2>1
    <3>2. ~(unread' > 0)
      BY <2>1
    <3> QED
      BY <3>1, <3>2, Zenon DEF KeyFresh
  <2> QED
    BY <2>1, <2>2, <2>3, <2>4 DEF BuffersInv
<1>4. SetLineThenKeyMode => BuffersInv' /\ mode' = "KEY"
  <2> SUFFICES ASSUME SetLineThenKeyMode
               PROVE  BuffersInv' /\ mode' = "KEY"
    OBVIOUS
  <2>1. mode' = "KEY" /\ cmdbuf' = <<>> /\ typed' = <<>>
    BY DEF SetLineThenKeyMode
  <2>2. <<>> \in Seq(Char) /\ Len(<<>>) <= LineMax
    BY EmptyLine
  <2>3. cmdbuf' \in Seq(Char) /\ Len(cmdbuf') <= LineMax /\ typed' \in Seq(Char)
    BY <2>1, <2>2, Zenon
  <2>4. /\ mode' = "KEY" /\ gotLine' = FALSE /\ gotKey' = FALSE
        /\ unread' = 0 /\ lastKey' = lastKey
    BY DEF SetLineThenKeyMode
  <2>5. BufferTypes'
    <3>1. gotLine' \in BOOLEAN /\ gotKey' \in BOOLEAN
      BY <2>4, Zenon
    <3>2. unread' \in Nat /\ mode' \in {"LINE", "KEY"}
      BY <2>4
    <3>3. lastKey' \in Char
      BY <2>4 DEF BuffersInv, BufferTypes
    <3> QED
      BY <2>3, <3>1, <3>2, <3>3, Zenon DEF BufferTypes
  <2> QED
    <3>1. NothingThrown'
      BY <2>4 DEF NothingThrown
    <3>2. KeyFresh'
      <4>1. ~gotKey'
        BY <2>4
      <4>2. ~(unread' > 0)
        BY <2>4
      <4> QED
        BY <4>1, <4>2, Zenon DEF KeyFresh
    <3> QED
      BY <2>4, <2>5, <3>1, <3>2 DEF BuffersInv
<1>5. LineDone => BuffersInv' /\ mode' = mode /\ ~gotLine'
  <2> SUFFICES ASSUME LineDone
               PROVE  BuffersInv' /\ mode' = mode /\ ~gotLine'
    OBVIOUS
  <2>1. mode' = mode /\ ~gotLine' /\ cmdbuf' = <<>> /\ typed' = <<>> /\ gotLine' = FALSE
    BY DEF LineDone
  <2>2. <<>> \in Seq(Char) /\ Len(<<>>) <= LineMax
    BY EmptyLine
  <2>3. cmdbuf' \in Seq(Char) /\ Len(cmdbuf') <= LineMax /\ typed' \in Seq(Char)
    BY <2>1, <2>2, Zenon
  <2>4. BufferTypes'
    BY <2>1, <2>3 DEF LineDone, BuffersInv, BufferTypes
  <2> QED
    BY <1>1, <2>1, <2>4 DEF LineDone, BuffersInv, KeyFresh
<1>6. TakeKey => BuffersInv' /\ mode' = mode
  <2> SUFFICES ASSUME TakeKey
               PROVE  BuffersInv' /\ mode' = mode
    OBVIOUS
  <2>1. /\ gotKey' = FALSE /\ unread' = 0 /\ lastKey' = NoKey
        /\ UNCHANGED <<mode, cmdbuf, gotLine, typed>>
    BY DEF TakeKey
  <2>2. BufferTypes'
    <3>1. lastKey' \in Char
      BY <2>1 DEF Char
    <3>2. gotKey' \in BOOLEAN /\ unread' \in Nat
      BY <2>1
    <3> QED
      BY <2>1, <3>1, <3>2 DEF BuffersInv, BufferTypes
  <2> QED
    BY <2>1, <2>2 DEF BuffersInv, NothingThrown, KeyFresh
<1> QED
  BY <1>2, <1>3, <1>4, <1>5, <1>6

\* What the buffers' invariant says does not depend on anything else.
LEMMA BuffersKept ==
  ASSUME BuffersInv, UNCHANGED buffers
  PROVE  BuffersInv' /\ mode' = mode /\ gotLine' = gotLine
BY DEF buffers, BuffersInv, BufferTypes, NothingThrown, KeyFresh

-----------------------------------------------------------------------------
(* The steps *)

\* What StackInv says about each stack.
LEMMA StackCases ==
  ASSUME StackInv
  PROVE  /\ Len(calls) <= 1
         /\ calls \in Seq(Frames)
         /\ calls = <<>> \/ \E f \in Frames : calls = <<f>>
<1>1. \A f \in Frames : <<f>> \in Seq(Frames) /\ Len(<<f>>) = 1
  OBVIOUS
<1>2. <<>> \in Seq(Frames)
  BY EmptySeq
<1>3. Len(<<>>) = 0
  OBVIOUS
<1>4. calls = <<>> \/ \E f \in Frames : calls = <<f>>
  BY DEF StackInv, Frames, KeyFrames
<1>5. CASE calls = <<>>
  <2>1. calls \in Seq(Frames) /\ Len(calls) = 0
    BY <1>2, <1>3, <1>5, Zenon
  <2> QED
    BY <1>4, <2>1
<1>6. CASE \E f \in Frames : calls = <<f>>
  <2>1. calls \in Seq(Frames) /\ Len(calls) = 1
    BY <1>1, <1>6
  <2> QED
    BY <1>4, <2>1
<1> QED
  BY <1>4, <1>5, <1>6

\* The initial state.
LEMMA InitIInv == Init => IInv
<1> SUFFICES ASSUME Init
             PROVE  IInv
  OBVIOUS
<1>1. BuffersInv
  <2>1. /\ mode = "LINE" /\ cmdbuf = <<>> /\ typed = <<>>
        /\ gotLine = FALSE /\ gotKey = FALSE /\ lastKey = NoKey
        /\ unread = 0
    BY DEF Init
  <2>2. cmdbuf \in Seq(Char) /\ Len(cmdbuf) <= LineMax /\ typed \in Seq(Char)
    BY <2>1, EmptyLine, Zenon
  <2>3. gotLine \in BOOLEAN /\ gotKey \in BOOLEAN
    BY <2>1, Zenon
  <2>4. lastKey \in Char
    BY <2>1 DEF Char
  <2>5. unread \in Nat /\ mode \in {"LINE", "KEY"}
    BY <2>1
  <2>6. NothingThrown /\ KeyFresh
    BY <2>1 DEF NothingThrown, KeyFresh
  <2> QED
    BY <2>2, <2>3, <2>4, <2>5, <2>6 DEF BuffersInv, BufferTypes
<1>2. ControlTypes
  <2>1. queue \in Seq(Keys)
    BY EmptySeq DEF Init
  <2>2. pc \in Steps /\ byte \in Char /\ polled \in Char /\ uart \in Char /\ plugged \in BOOLEAN
    BY DEF Init, Steps, Char
  <2>3. count \in 0 .. Burst /\ exitCount \in 0 .. Wrap - 1
    BY BoundsAssumption DEF Init
  <2> QED
    BY <2>1, <2>2, <2>3 DEF ControlTypes
<1>3. StackInv /\ PendingInv
  BY DEF Init, StackInv, PendingInv
<1> QED
  BY <1>1, <1>2, <1>3 DEF IInv

\* driver_tick up to the USB port.
LEMMA UartTickKeeps == IInv /\ UartTick => IInv'
<1> SUFFICES ASSUME IInv, UartTick
             PROVE  IInv'
  OBVIOUS
<1>1. pc = "uart" /\ pc' = "usb" /\ UNCHANGED <<calls, count, byte, polled, exitCount, plugged, queue>>
  BY DEF UartTick, Goto, locals
<1>2. RxReady
  BY <1>1 DEF IInv, PendingInv, RxReady, BuffersInv, BufferTypes
<1>3. BuffersInv' /\ mode' = mode /\ uart' \in Char
  <2>1. CASE HasUart /\ uart # NoKey
    <3>1. RxCallback(uart) /\ uart' = NoKey
      BY <2>1 DEF UartTick
    <3> QED
      BY <1>2, <3>1, RxKeeps DEF IInv, ControlTypes, Char
  <2>2. CASE ~(HasUart /\ uart # NoKey)
    <3>1. UNCHANGED buffers /\ uart' = uart
      BY <2>2 DEF UartTick
    <3> QED
      BY <3>1, BuffersKept DEF IInv, ControlTypes
  <2> QED
    BY <2>1, <2>2
<1>4. ControlTypes'
  BY <1>1, <1>3 DEF IInv, ControlTypes, Steps
<1>5. StackInv' /\ PendingInv'
  BY <1>1, <1>3 DEF IInv, StackInv, PendingInv
<1> QED
  BY <1>3, <1>4, <1>5 DEF IInv

\* The steps that only look: no buffer and no stack changes.
LEMMA LookKeeps ==
  ASSUME IInv, UsbTick \/ CdcEnter \/ CdcLoop
  PROVE  IInv'
<1>1. /\ UNCHANGED <<calls, byte, polled, exitCount, plugged, uart, queue>>
      /\ UNCHANGED buffers
      /\ pc \in {"usb", "cdcEnter", "cdc"}
      /\ pc' \in {"cdcEnter", "cdc", "receive", "console"}
      /\ pc' = "receive" => RxReady
  BY DEF UsbTick, CdcEnter, CdcLoop, MayReceive, Goto, locals, inputs
<1>2. BuffersInv' /\ mode' = mode /\ gotLine' = gotLine
  BY <1>1, BuffersKept DEF IInv
<1>3. count' \in 0 .. Burst
  BY BoundsAssumption
     DEF UsbTick, CdcEnter, CdcLoop, MayReceive, Goto, locals, IInv, ControlTypes
<1>4. ControlTypes'
  BY <1>1, <1>3 DEF IInv, ControlTypes, Steps
<1>5. StackInv' /\ PendingInv'
  BY <1>1, <1>2 DEF IInv, StackInv, PendingInv, RxReady
<1> QED
  BY <1>2, <1>4, <1>5 DEF IInv

LEMMA ReceiveKeeps == IInv /\ CdcReceive => IInv'
<1> SUFFICES ASSUME IInv, CdcReceive
             PROVE  IInv'
  OBVIOUS
<1>1. /\ pc = "receive" /\ pc' = "deliver"
      /\ UNCHANGED <<calls, count, polled, exitCount, plugged, uart>>
      /\ UNCHANGED buffers
  BY DEF CdcReceive, Goto
<1>2. BuffersInv' /\ mode' = mode /\ gotLine' = gotLine
  BY <1>1, BuffersKept DEF IInv
<1>3. byte' \in Char /\ queue' \in Seq(Keys)
  <2>1. CASE queue = <<>>
    <3>1. byte' = NoKey /\ queue' = queue
      BY <2>1 DEF CdcReceive
    <3> QED
      BY <3>1 DEF IInv, ControlTypes, Char
  <2>2. CASE queue # <<>>
    <3>1. byte' = Head(queue) /\ queue' = Tail(queue)
      BY <2>2 DEF CdcReceive
    <3>2. Head(queue) \in Keys /\ Tail(queue) \in Seq(Keys)
      BY <2>2, HeadTailProperties DEF IInv, ControlTypes
    <3> QED
      BY <3>1, <3>2 DEF Char
  <2> QED
    BY <2>1, <2>2
<1>4. ControlTypes'
  BY <1>1, <1>3 DEF IInv, ControlTypes, Steps
<1>5. StackInv' /\ PendingInv'
  BY <1>1, <1>2 DEF IInv, StackInv, PendingInv
<1> QED
  BY <1>2, <1>4, <1>5 DEF IInv

\* Nothing that can happen between the flow control and the delivery makes
\* the console unready.
LEMMA DeliverKeeps == IInv /\ CdcDeliver => IInv'
<1> SUFFICES ASSUME IInv, CdcDeliver
             PROVE  IInv'
  OBVIOUS
<1>1. /\ pc = "deliver" /\ pc' \in {"cdc", "console"}
      /\ count' \in {count, 0} /\ byte' = NoKey
      /\ UNCHANGED <<calls, polled, exitCount, plugged, uart, queue>>
  BY DEF CdcDeliver, Goto, inputs
<1>2. RxReady
  BY <1>1 DEF IInv, PendingInv, RxReady, BuffersInv, BufferTypes
<1>3. BuffersInv' /\ mode' = mode
  <2>1. CASE plugged
    <3>1. RxCallback(byte)
      BY <2>1 DEF CdcDeliver
    <3> QED
      BY <1>2, <3>1, RxKeeps DEF IInv, ControlTypes
  <2>2. CASE ~plugged
    <3>1. UNCHANGED buffers
      BY <2>2 DEF CdcDeliver
    <3> QED
      BY <3>1, BuffersKept DEF IInv
  <2> QED
    BY <2>1, <2>2
<1>4. ControlTypes'
  <2>1. count' \in 0 .. Burst /\ byte' \in Char
    BY <1>1, BoundsAssumption DEF IInv, ControlTypes, Char
  <2> QED
    BY <1>1, <2>1 DEF IInv, ControlTypes, Steps
<1>5. StackInv' /\ PendingInv'
  BY <1>1, <1>3 DEF IInv, StackInv, PendingInv
<1> QED
  BY <1>3, <1>4, <1>5 DEF IInv

\* console_tick executes a line only with an empty stack: below a command it
\* finds the console in key mode.
LEMMA ConsoleTickKeeps == IInv /\ ConsoleTick => IInv'
<1> SUFFICES ASSUME IInv, ConsoleTick
             PROVE  IInv'
  OBVIOUS
<1>1. pc = "console" /\ UNCHANGED <<count, byte, polled, plugged, uart, queue>>
  BY DEF ConsoleTick, inputs
<1>2. exitCount \in 0 .. Wrap - 1 /\ BuffersInv
  BY DEF IInv, ControlTypes
<1>3. CASE Return(calls) /\ calls' = calls /\ BuffersInv' /\ mode' = mode
             /\ (mode' = "LINE" => ~gotLine')
  <2>1. pc' = (IF calls = <<>> THEN "uart" ELSE "poll") /\ exitCount' \in 0 .. Wrap - 1
    BY <1>2, <1>3, ReturnGoes
  <2>2. ControlTypes'
    BY <1>1, <2>1 DEF IInv, ControlTypes, Steps
  <2>3. PendingInv'
    BY <1>3 DEF PendingInv
  <2>4. StackInv'
    <3>1. CASE calls = <<>>
      BY <1>1, <1>3, <2>1, <3>1, OneFrame DEF IInv, StackInv
    <3>2. CASE calls # <<>>
      BY <1>1, <1>3, <2>1, <3>2 DEF IInv, StackInv
    <3> QED
      BY <3>1, <3>2
  <2> QED
    BY <1>3, <2>2, <2>3, <2>4 DEF IInv
<1>4. CASE ~LineReady /\ Return(calls) /\ UNCHANGED <<calls, buffers>>
  <2>1. BuffersInv' /\ mode' = mode /\ gotLine' = gotLine
    BY <1>2, <1>4, BuffersKept
  <2>2. mode' = "LINE" => ~gotLine'
    BY <1>4, <2>1 DEF LineReady
  <2> QED
    BY <1>3, <1>4, <2>1, <2>2
<1>5. CASE LineDone /\ Return(calls) /\ UNCHANGED calls
  <2>1. BuffersInv' /\ mode' = mode /\ ~gotLine'
    BY <1>2, <1>5, ModesKeep
  <2> QED
    BY <1>3, <1>5, <2>1
<1>6. CASE LineReady /\ Goto("execute") /\ calls' = Append(calls, "done")
             /\ UNCHANGED <<exitCount, buffers>>
  <2>1. BuffersInv' /\ mode' = mode /\ gotLine' = gotLine /\ mode = "LINE"
    BY <1>2, <1>6, BuffersKept DEF LineReady
  <2>2. calls = <<>>
    BY <1>1, <2>1 DEF IInv, StackInv
  <2>3. calls' = <<"done">> /\ pc' = "execute"
    BY <1>6, <2>2, OneFrame DEF Goto
  <2>4. ControlTypes'
    BY <1>1, <1>6, <2>3 DEF IInv, ControlTypes, Steps
  <2>5. StackInv' /\ PendingInv'
    BY <2>1, <2>3 DEF StackInv, PendingInv
  <2> QED
    BY <2>1, <2>4, <2>5 DEF IInv
<1> QED
  BY <1>4, <1>5, <1>6 DEF ConsoleTick

\* The step a command that waits for keys takes on its own stack.
LEMMA SetTopSets ==
  ASSUME NEW f, calls = <<f>>, NEW g, SetTop(g)
  PROVE  calls' = <<g>>
<1>1. calls' = [<<f>> EXCEPT ![Len(<<f>>)] = g]
  BY DEF SetTop
<1> QED
  BY <1>1, OneFrame

LEMMA ExecutePlainKeeps == IInv /\ ExecutePlain => IInv'
<1> SUFFICES ASSUME IInv, ExecutePlain
             PROVE  IInv'
  OBVIOUS
<1>1. /\ pc = "execute" /\ pc' = "finish" /\ UNCHANGED <<calls, locals, inputs>>
      /\ UNCHANGED buffers
  BY DEF ExecutePlain, Goto
<1>2. BuffersInv' /\ mode' = mode /\ gotLine' = gotLine
  BY <1>1, BuffersKept DEF IInv
<1>3. ControlTypes'
  BY <1>1 DEF IInv, ControlTypes, Steps, locals, inputs
<1>4. StackInv' /\ PendingInv'
  BY <1>1, <1>2 DEF IInv, StackInv, PendingInv
<1> QED
  BY <1>2, <1>3, <1>4 DEF IInv

LEMMA ExecuteKeyKeeps ==
  ASSUME IInv, NEW frame \in Commands, ExecuteKeyCommand(frame)
  PROVE  IInv'
<1>1. /\ pc = "execute" /\ pc' = "poll" /\ SetTop(frame) /\ SetKeyMode
      /\ polled' \in Char \/ polled' = polled
      /\ exitCount' = 0
      /\ UNCHANGED <<count, byte, plugged, uart, queue>>
  BY DEF ExecuteKeyCommand, Goto, inputs
<1>2. BuffersInv' /\ mode' = "KEY"
  BY <1>1, ModesKeep DEF IInv
<1>3. exitCount' \in 0 .. Wrap - 1
  BY <1>1, BoundsAssumption
<1>4. ControlTypes'
  BY <1>1, <1>3 DEF IInv, ControlTypes, Steps
<1>5. calls = <<"done">>
  BY <1>1 DEF IInv, StackInv
<1>6. calls' = <<frame>>
  BY <1>1, <1>5, SetTopSets
<1>7. frame \in KeyFrames
  BY ConfigAssumption DEF KeyFrames, Frames
<1>8. StackInv' /\ PendingInv'
  BY <1>1, <1>2, <1>6, <1>7 DEF StackInv, PendingInv
<1> QED
  BY <1>2, <1>4, <1>8 DEF IInv

LEMMA PollNothingKeeps == IInv /\ PollNothing => IInv'
<1> SUFFICES ASSUME IInv, PollNothing
             PROVE  IInv'
  OBVIOUS
<1>1. /\ pc = "poll" /\ pc' = "uart" /\ UNCHANGED <<calls, locals, inputs>>
      /\ UNCHANGED buffers
  BY DEF PollNothing, Goto
<1>2. BuffersInv' /\ mode' = mode /\ gotLine' = gotLine
  BY <1>1, BuffersKept DEF IInv
<1>3. ControlTypes'
  BY <1>1 DEF IInv, ControlTypes, Steps, locals, inputs
<1>4. mode = "KEY"
  BY <1>1 DEF IInv, StackInv
<1>5. StackInv' /\ PendingInv'
  BY <1>1, <1>2, <1>4 DEF IInv, StackInv, PendingInv
<1> QED
  BY <1>2, <1>3, <1>5 DEF IInv

LEMMA PollKeyKeeps == IInv /\ PollKey => IInv'
<1> SUFFICES ASSUME IInv, PollKey
             PROVE  IInv'
  OBVIOUS
<1>1. /\ pc = "poll" /\ pc' = "polled" /\ TakeKey /\ polled' = lastKey
      /\ UNCHANGED <<calls, count, byte, exitCount, plugged, uart, queue>>
  BY DEF PollKey, Goto, inputs
<1>2. BuffersInv' /\ mode' = mode
  BY <1>1, ModesKeep DEF IInv
<1>3. polled' \in Char
  BY <1>1 DEF IInv, BuffersInv, BufferTypes
<1>4. ControlTypes'
  BY <1>1, <1>3 DEF IInv, ControlTypes, Steps
<1>5. mode = "KEY"
  BY <1>1 DEF IInv, StackInv
<1>6. StackInv' /\ PendingInv'
  BY <1>1, <1>2, <1>5 DEF IInv, StackInv, PendingInv
<1> QED
  BY <1>2, <1>4, <1>6 DEF IInv

\* The three ways in which a command goes on after a key, and the end of
\* bitbang.
LEMMA PickKeeps == IInv /\ (Pick \/ Bitbang) => IInv'
<1> SUFFICES ASSUME IInv, Pick \/ Bitbang
             PROVE  IInv'
  OBVIOUS
<1>1. /\ pc = "polled" /\ UNCHANGED <<count, byte, plugged, uart, queue>>
      /\ polled' \in {polled, NoKey} /\ exitCount' \in {exitCount, 0}
  BY DEF Pick, Bitbang, inputs
<1>2. mode = "KEY" /\ \E f \in KeyFrames : calls = <<f>>
  BY <1>1 DEF IInv, StackInv
<1>3. ASSUME pc' \in Steps
      PROVE  ControlTypes'
  <2>1. exitCount' \in 0 .. Wrap - 1
    BY <1>1, BoundsAssumption DEF IInv, ControlTypes
  <2>2. polled' \in Char
    BY <1>1 DEF IInv, ControlTypes, Char
  <2> QED
    BY <1>1, <1>3, <2>1, <2>2 DEF IInv, ControlTypes
<1>4. CASE Goto("poll") /\ UNCHANGED <<calls, buffers>>
  <2>1. BuffersInv' /\ mode' = mode /\ gotLine' = gotLine
    BY <1>4, BuffersKept DEF IInv
  <2>2. pc' = "poll" /\ calls' = calls
    BY <1>4 DEF Goto
  <2>3. StackInv' /\ PendingInv'
    BY <1>2, <2>1, <2>2 DEF StackInv, PendingInv
  <2> QED
    BY <1>3, <2>1, <2>2, <2>3 DEF IInv, Steps
<1>5. CASE SetLineThenKeyMode /\ Goto("poll") /\ SetTop("menu1")
  <2>1. BuffersInv' /\ mode' = "KEY"
    BY <1>5, ModesKeep DEF IInv
  <2>2. pc' = "poll" /\ calls' = <<"menu1">>
    BY <1>2, <1>5, SetTopSets DEF Goto
  <2>3. StackInv' /\ PendingInv'
    BY <2>1, <2>2 DEF StackInv, PendingInv, KeyFrames, Frames
  <2> QED
    BY <1>3, <2>1, <2>2, <2>3 DEF IInv, Steps
<1>6. CASE SetLineMode /\ Goto("finish") /\ SetTop("done")
  <2>1. BuffersInv' /\ mode' = "LINE" /\ ~gotLine'
    BY <1>6, ModesKeep DEF IInv
  <2>2. pc' = "finish" /\ calls' = <<"done">>
    BY <1>2, <1>6, SetTopSets DEF Goto
  <2>3. StackInv' /\ PendingInv'
    BY <2>1, <2>2 DEF StackInv, PendingInv
  <2> QED
    BY <1>3, <2>1, <2>2, <2>3 DEF IInv, Steps
<1> QED
  <2>1. CASE Pick
    BY <1>4, <1>5, <1>6, <2>1 DEF Pick
  <2>2. CASE Bitbang
    BY <1>4, <1>6, <2>2 DEF Bitbang
  <2> QED
    BY <2>1, <2>2

LEMMA FinishKeeps == IInv /\ Finish => IInv'
<1> SUFFICES ASSUME IInv, Finish
             PROVE  IInv'
  OBVIOUS
<1>1. /\ pc = "finish" /\ calls' = Front(calls) /\ LineDone /\ Return(Front(calls))
      /\ UNCHANGED <<count, byte, polled, plugged, uart, queue>>
  BY DEF Finish, inputs
<1>2. calls = <<"done">> /\ mode = "LINE"
  BY <1>1 DEF IInv, StackInv
<1>3. Front(calls) = <<>>
  BY <1>2, OneFrame
<1>4. pc' = "uart" /\ exitCount' \in 0 .. Wrap - 1
  BY <1>1, <1>3, ReturnGoes DEF IInv, ControlTypes
<1>5. BuffersInv' /\ mode' = "LINE" /\ ~gotLine'
  BY <1>1, <1>2, ModesKeep DEF IInv
<1>6. ControlTypes'
  BY <1>1, <1>4 DEF IInv, ControlTypes, Steps
<1>7. calls' = <<>>
  BY <1>1, <1>3
<1>8. StackInv' /\ PendingInv'
  BY <1>4, <1>5, <1>7 DEF StackInv, PendingInv
<1> QED
  BY <1>5, <1>6, <1>8 DEF IInv

\* The interrupt and the inputs touch neither the buffers nor the stack; a
\* torn callback pointer leads away from everything the console does.
LEMMA EnvironmentKeeps == IInv /\ Environment => IInv'
<1> SUFFICES ASSUME IInv, Environment
             PROVE  IInv'
  OBVIOUS
<1>1. /\ UNCHANGED <<calls, count, byte, polled, exitCount>>
      /\ UNCHANGED buffers
      /\ pc' = pc \/ (pc' = "wild" /\ pc \in {"cdc", "deliver"})
  <2>1. CASE Interrupt
    BY <2>1 DEF Interrupt, Connect, Disconnect, locals
  <2>2. CASE TornCall
    BY <2>2 DEF TornCall, Connect, Disconnect, Goto, locals
  <2>3. CASE \E c \in Keys : HostSends(c) \/ UartReceives(c)
    BY <2>3 DEF HostSends, UartReceives, locals
  <2> QED
    BY <2>1, <2>2, <2>3 DEF Environment
<1>2. BuffersInv' /\ mode' = mode /\ gotLine' = gotLine
  BY <1>1, BuffersKept DEF IInv
<1>3. plugged' \in BOOLEAN /\ uart' \in Char /\ queue' \in Seq(Keys)
  <2>1. CASE Connect
    BY <2>1 DEF Connect, IInv, ControlTypes
  <2>2. CASE Disconnect
    <3>1. queue' = <<>> /\ uart' = uart /\ plugged' = FALSE
      BY <2>2 DEF Disconnect
    <3>2. queue' \in Seq(Keys)
      BY <3>1, EmptySeq
    <3> QED
      BY <3>1, <3>2 DEF IInv, ControlTypes
  <2>3. ASSUME NEW c \in Keys, HostSends(c)
        PROVE  plugged' \in BOOLEAN /\ uart' \in Char /\ queue' \in Seq(Keys)
    BY <2>3, AppendProperties DEF HostSends, IInv, ControlTypes
  <2>4. ASSUME NEW c \in Keys, UartReceives(c)
        PROVE  plugged' \in BOOLEAN /\ uart' \in Char /\ queue' \in Seq(Keys)
    BY <2>4 DEF UartReceives, IInv, ControlTypes, Char
  <2> QED
    BY <2>1, <2>2, <2>3, <2>4 DEF Environment, Interrupt, TornCall
<1>4. ControlTypes'
  BY <1>1, <1>3 DEF IInv, ControlTypes, Steps
<1>5. StackInv' /\ PendingInv'
  BY <1>1, <1>2 DEF IInv, StackInv, PendingInv
<1> QED
  BY <1>2, <1>4, <1>5 DEF IInv

\* Every step keeps the invariant.
LEMMA NextKeeps == IInv /\ [Next]_vars => IInv'
<1> SUFFICES ASSUME IInv, [Next]_vars
             PROVE  IInv'
  OBVIOUS
<1>1. CASE Driver
  BY <1>1, UartTickKeeps, LookKeeps, ReceiveKeeps, DeliverKeeps,
     ConsoleTickKeeps, ExecutePlainKeeps, ExecuteKeyKeeps, PollNothingKeeps,
     PollKeyKeeps, PickKeeps, FinishKeeps DEF Driver
<1>2. CASE Environment
  BY <1>2, EnvironmentKeeps
<1>3. CASE UNCHANGED vars
  <2>1. UNCHANGED buffers /\ UNCHANGED <<pc, calls, locals, inputs>>
    BY <1>3 DEF vars
  <2>2. BuffersInv' /\ mode' = mode /\ gotLine' = gotLine
    BY <2>1, BuffersKept DEF IInv
  <2>3. ControlTypes' /\ StackInv' /\ PendingInv'
    BY <2>1, <2>2 DEF IInv, ControlTypes, StackInv, PendingInv, locals, inputs
  <2> QED
    BY <2>2, <2>3 DEF IInv
<1> QED
  BY <1>1, <1>2, <1>3 DEF Next

-----------------------------------------------------------------------------
\* The inductive invariant holds of every behaviour of the console.
THEOREM InvariantHolds == Spec => []IInv
<1>1. Init => IInv
  BY InitIInv
<1>2. IInv /\ [Next]_vars => IInv'
  BY NextKeeps
<1> QED
  BY <1>1, <1>2, PTL DEF Spec

\* The types: in particular the line stays within cmdbuf, whatever its size
\* (console.c:117), and one tick takes at most CDC_BUFSIZE bytes.
THEOREM ConsoleTypes == Spec => []TypeOK
<1>1. IInv => TypeOK
  <2> SUFFICES ASSUME IInv
               PROVE  TypeOK
    OBVIOUS
  <2>1. calls \in Seq(Frames)
    BY StackCases DEF IInv
  <2> QED
    BY <2>1 DEF IInv, BuffersInv, BufferTypes, ControlTypes, TypeOK
<1> QED
  BY <1>1, InvariantHolds, PTL

\* No character is thrown away while a finished line waits (console.c:96),
\* for every keyboard, buffer and burst, with either input or both.
THEOREM NothingIsThrown == Spec => []NothingThrown
<1>1. IInv => NothingThrown
  BY DEF IInv, BuffersInv
<1> QED
  BY <1>1, InvariantHolds, PTL

\* No command line is executed below another one, although console_tick runs
\* below every command that waits for keys (console.c:139, menu.c:82).
THEOREM NeverReentered == Spec => []NoReentry
<1>1. IInv => NoReentry
  BY StackCases DEF IInv, NoReentry
<1> QED
  BY <1>1, InvariantHolds, PTL

\* A command that waits for keys sees a key exactly if one came since it last
\* looked (console.c:62-71, 91-92).
THEOREM KeysSeenOnce == Spec => []KeyFresh
<1>1. IInv => KeyFresh
  BY DEF IInv, BuffersInv
<1> QED
  BY <1>1, InvariantHolds, PTL

-----------------------------------------------------------------------------
(* The line a text edits to *)

\* What induction over the natural numbers rests on here.
LEMMA Least ==
  ASSUME NEW T \in SUBSET Nat, T # {}
  PROVE  \E m \in T : \A n \in T : m <= n
<1> DEFINE Less == {p \in Nat \X Nat : p[1] < p[2]}
<1>1. IsWellFoundedOn(Less, Nat)
  BY NatLessThanWellFounded, Zenon DEF OpToRel
<1>2. \A n \in Nat, m \in Nat : <<n, m>> \in Less <=> n < m
  OBVIOUS
<1> HIDE DEF Less
<1>3. PICK m \in T : \A n \in T : ~ (<<n, m>> \in Less)
  BY <1>1, WFMin, Zenon
<1>4. ASSUME NEW n \in T PROVE m <= n
  <2>1. n \in Nat /\ m \in Nat
    OBVIOUS
  <2>2. ~(n < m)
    BY <1>2, <1>3, <2>1, Zenon
  <2> QED
    BY <2>1, <2>2
<1> QED
  BY <1>4

\* The texts of the prefixes of s, up to the one of m characters.
Texts(g, s, m) == g = [n \in 0 .. m |-> IF n = 0 THEN <<>> ELSE Push(g[n - 1], s[n])]

LEMMA LineOfIs ==
  ASSUME NEW s
  PROVE  LineOf(s) = (CHOOSE g : Texts(g, s, Len(s)))[Len(s)]
BY DEF LineOf, Texts

\* There are such texts for every number of characters: else there is a least
\* number without, and one more step makes them.
LEMMA TextsExist ==
  ASSUME NEW s, NEW m \in Nat
  PROVE  \E g : Texts(g, s, m)
<1> DEFINE T == {k \in Nat : ~ \E g : Texts(g, s, k)}
<1>1. SUFFICES ASSUME T # {} PROVE FALSE
  OBVIOUS
<1>2. T \in SUBSET Nat
  OBVIOUS
<1>3. PICK k \in T : \A n \in T : k <= n
  <2> HIDE DEF T
  <2> QED BY <1>1, <1>2, Least
<1>4. k # 0
  <2> DEFINE g == [n \in 0 .. 0 |-> <<>>]
  <2>1. Texts(g, s, 0)
    BY DEF Texts
  <2> QED BY <2>1
<1>5. PICK g : Texts(g, s, k - 1)
  <2>1. k - 1 \in Nat /\ k - 1 \notin T
    BY <1>3, <1>4
  <2> QED BY <2>1
<1>6. \E h : Texts(h, s, k)
  <2> DEFINE h == [n \in 0 .. k |-> IF n = k THEN Push(g[k - 1], s[k]) ELSE g[n]]
  <2>1. \A n \in 0 .. k - 1 : h[n] = g[n]
    BY <1>3
  <2>2. ASSUME NEW n \in 0 .. k
        PROVE  h[n] = IF n = 0 THEN <<>> ELSE Push(h[n - 1], s[n])
    <3>1. CASE n = k
      BY <3>1, <1>4, <2>1
    <3>2. CASE n # k
      <4>1. n \in 0 .. k - 1 /\ (n # 0 => n - 1 \in 0 .. k - 1)
        BY <3>2
      <4>2. g[n] = IF n = 0 THEN <<>> ELSE Push(g[n - 1], s[n])
        BY <1>5, <4>1, Zenon DEF Texts
      <4> QED
        BY <2>1, <4>1, <4>2
    <3> QED BY <3>1, <3>2
  <2>3. h = [n \in 0 .. k |-> h[n]]
    OBVIOUS
  <2> HIDE DEF h
  <2>4. Texts(h, s, k)
    BY <2>2, <2>3, Zenon DEF Texts
  <2> QED BY <2>4
<1> QED
  BY <1>3, <1>6

\* They depend on the characters so far alone.
LEMMA TextsAgree ==
  ASSUME NEW s, NEW t, NEW m \in Nat, NEW n \in Nat, m <= n,
         \A i \in 1 .. m : s[i] = t[i],
         NEW g, NEW h, Texts(g, s, m), Texts(h, t, n)
  PROVE  \A i \in 0 .. m : g[i] = h[i]
<1> DEFINE T == {i \in 0 .. m : g[i] # h[i]}
<1>1. SUFFICES ASSUME T # {} PROVE FALSE
  OBVIOUS
<1>2. T \in SUBSET Nat
  OBVIOUS
<1>3. PICK k \in T : \A i \in T : k <= i
  <2> HIDE DEF T
  <2> QED BY <1>1, <1>2, Least
<1>4. k \in 0 .. m /\ k \in 0 .. n
  BY <1>3
<1>5. /\ g[k] = IF k = 0 THEN <<>> ELSE Push(g[k - 1], s[k])
      /\ h[k] = IF k = 0 THEN <<>> ELSE Push(h[k - 1], t[k])
  BY <1>4, Zenon DEF Texts
<1>6. k # 0
  BY <1>3, <1>5
<1>7. k - 1 \in 0 .. m /\ k - 1 \notin T /\ s[k] = t[k]
  BY <1>3, <1>4, <1>6
<1>8. g[k - 1] = h[k - 1]
  BY <1>7
<1> QED
  BY <1>3, <1>5, <1>7, <1>8

LEMMA LineOfEmpty == LineOf(<<>>) = <<>>
<1>1. PICK g : g = (CHOOSE x : Texts(x, <<>>, 0)) /\ Texts(g, <<>>, 0)
  BY TextsExist
<1>2. g[0] = <<>>
  <2>1. 0 \in 0 .. 0
    OBVIOUS
  <2> QED
    BY <1>1, <2>1, Zenon DEF Texts
<1>3. Len(<<>>) = 0
  OBVIOUS
<1> QED
  BY <1>1, <1>2, <1>3, LineOfIs

\* The line of a text and one more character is one step from the line of the text.
LEMMA LineOfAppend ==
  ASSUME NEW s \in Seq(Char), NEW c \in Char
  PROVE  LineOf(Append(s, c)) = Push(LineOf(s), c)
<1> DEFINE t == Append(s, c)
           n == Len(s)
<1>1. /\ n \in Nat /\ Len(t) = n + 1 /\ t[n + 1] = c
      /\ \A i \in 1 .. n : s[i] = t[i]
  OBVIOUS
<1> HIDE DEF t, n
<1>2. PICK g : Texts(g, s, n) /\ LineOf(s) = g[n]
  BY <1>1, TextsExist, LineOfIs DEF n
<1>3. PICK h : Texts(h, t, n + 1) /\ LineOf(t) = h[n + 1]
  <2>1. n + 1 \in Nat
    BY <1>1
  <2>2. \E h : Texts(h, t, n + 1)
    BY <2>1, TextsExist
  <2>3. LineOf(t) = (CHOOSE h : Texts(h, t, n + 1))[n + 1]
    BY <1>1, LineOfIs
  <2> QED
    BY <2>2, <2>3
<1>4. g[n] = h[n]
  BY <1>1, <1>2, <1>3, TextsAgree
<1>5. h[n + 1] = Push(h[n], t[n + 1])
  <2>1. n + 1 \in 0 .. n + 1 /\ n + 1 # 0 /\ (n + 1) - 1 = n
    BY <1>1
  <2> QED BY <1>3, <2>1, Zenon DEF Texts
<1> QED
  BY <1>1, <1>2, <1>3, <1>4, <1>5 DEF t

\* console_rx_callback takes the step of Push while the line is in its buffer.
LEMMA EditPushes ==
  ASSUME BufferTypes, NEW c \in Char, Edit(c)
  PROVE  cmdbuf' = Push(cmdbuf, c)
<1> DEFINE n == Len(cmdbuf)
           whole == cmdbuf \o <<c>>
<1>1. /\ cmdbuf \in Seq(Char) /\ n \in Nat /\ n <= LineMax /\ LineMax \in Nat
  BY BoundsAssumption DEF BufferTypes
<1>2. /\ whole \in Seq(Char) /\ Len(whole) = n + 1 /\ whole[n + 1] = c
      /\ \A i \in 1 .. n : whole[i] = cmdbuf[i]
  BY <1>1
<1>3. Append(cmdbuf, c) = whole
  BY <1>1
<1> HIDE DEF whole
<1>4. ASSUME NEW k \in Nat, k <= n
      PROVE  SubSeq(whole, 1, k) = SubSeq(cmdbuf, 1, k)
  BY <1>1, <1>2, <1>4
<1>5. SubSeq(cmdbuf, 1, n) = cmdbuf
  BY <1>1
<1>6. SubSeq(whole, 1, n + 1) = whole
  BY <1>1, <1>2
<1> DEFINE upto == CASE c = Enter -> n
                     [] c = Backspace -> n - 1
                     [] OTHER -> IF n < LineMax THEN n + 1 ELSE LineMax
<1>7. Push(cmdbuf, c) = SubSeq(whole, 1, upto)
  BY DEF Push, whole
<1>8. ASSUME upto = n, cmdbuf' = cmdbuf
      PROVE  cmdbuf' = Push(cmdbuf, c)
  <2> HIDE DEF upto
  <2>1. SubSeq(whole, 1, n) = SubSeq(cmdbuf, 1, n)
    BY <1>1, <1>4
  <2>2. Push(cmdbuf, c) = SubSeq(whole, 1, n)
    BY <1>7, <1>8
  <2> QED
    BY <1>5, <1>8, <2>1, <2>2
<1>9. CASE c = Enter
  <2>1. upto = n /\ cmdbuf' = cmdbuf
    BY <1>9, KeysAssumption DEF Edit
  <2> QED
    BY <1>8, <2>1, Zenon
<1>10. CASE c # Enter /\ c = Backspace
  <2>1. upto = n - 1
    BY <1>10
  <2>2. CASE cmdbuf = <<>>
    <3>1. n = 0 /\ cmdbuf' = <<>>
      BY <1>10, <2>2 DEF Edit
    <3>2. SubSeq(whole, 1, 0 - 1) = <<>>
      BY <1>2, SubSeqEmpty
    <3> QED
      BY <1>7, <2>1, <3>1, <3>2
  <2>3. CASE cmdbuf # <<>>
    <3>1. cmdbuf' = SubSeq(cmdbuf, 1, n - 1) /\ n - 1 \in Nat /\ n - 1 <= n
      BY <1>1, <1>10, <2>3 DEF Edit, Front
    <3> QED
      BY <1>4, <1>7, <2>1, <3>1
  <2> QED
    BY <2>2, <2>3
<1>11. CASE c # Enter /\ c # Backspace
  <2>1. upto = IF n < LineMax THEN n + 1 ELSE LineMax
    BY <1>11
  <2>2. cmdbuf' = IF n < LineMax THEN whole ELSE cmdbuf
    BY <1>3, <1>11 DEF Edit
  <2>3. CASE n < LineMax
    BY <1>6, <1>7, <2>1, <2>2, <2>3
  <2>4. CASE ~(n < LineMax)
    <3>1. upto = n /\ cmdbuf' = cmdbuf
      BY <1>1, <2>1, <2>2, <2>4
    <3> QED
      BY <1>8, <3>1, Zenon
  <2> QED
    BY <2>3, <2>4
<1> QED
  BY <1>9, <1>10, <1>11

\* What a step of the system does to the buffers of console.c.
BufferStep ==
  \/ SetLineMode \/ SetKeyMode \/ SetLineThenKeyMode \/ LineDone \/ TakeKey
  \/ UNCHANGED buffers
  \/ RxReady /\ \E c \in Char : RxCallback(c)

LEMMA StepsOfBuffers == IInv /\ [Next]_vars => BufferStep
<1> SUFFICES ASSUME IInv, [Next]_vars
             PROVE  BufferStep
  OBVIOUS
<1>1. pc \in {"uart", "deliver"} => RxReady
  BY DEF IInv, PendingInv, RxReady, BuffersInv, BufferTypes
<1>2. CASE UartTick
  <2>1. uart \in Char /\ RxReady
    BY <1>1, <1>2 DEF UartTick, IInv, ControlTypes
  <2> QED
    BY <1>2, <2>1 DEF UartTick, BufferStep
<1>3. CASE CdcDeliver
  <2>1. byte \in Char /\ RxReady
    BY <1>1, <1>3 DEF CdcDeliver, IInv, ControlTypes
  <2> QED
    BY <1>3, <2>1 DEF CdcDeliver, BufferStep
<1>4. CASE UsbTick \/ CdcEnter \/ CdcLoop \/ CdcReceive \/ ExecutePlain \/ PollNothing
  BY <1>4 DEF UsbTick, CdcEnter, CdcLoop, CdcReceive, ExecutePlain, PollNothing, BufferStep
<1>5. CASE ConsoleTick \/ PollKey \/ Finish
  BY <1>5 DEF ConsoleTick, PollKey, Finish, BufferStep
<1>6. CASE Pick \/ Bitbang
  BY <1>6 DEF Pick, Bitbang, BufferStep
<1>7. CASE \E frame \in Commands : ExecuteKeyCommand(frame)
  BY <1>7 DEF ExecuteKeyCommand, BufferStep
<1>8. CASE Environment
  <2>1. CASE Interrupt \/ TornCall
    BY <2>1 DEF Interrupt, TornCall, Connect, Disconnect, BufferStep
  <2>2. CASE \E c \in Keys : HostSends(c) \/ UartReceives(c)
    BY <2>2 DEF HostSends, UartReceives, BufferStep
  <2> QED
    BY <1>8, <2>1, <2>2 DEF Environment
<1>9. CASE UNCHANGED vars
  BY <1>9 DEF vars, BufferStep
<1> QED
  BY <1>2, <1>3, <1>4, <1>5, <1>6, <1>7, <1>8, <1>9 DEF Next, Driver

\* The buffer goes on being the line that was typed.
LEMMA FaithfulStep == IInv /\ LineFaithful /\ [Next]_vars => LineFaithful'
<1> SUFFICES ASSUME IInv, LineFaithful, [Next]_vars
             PROVE  LineFaithful'
  OBVIOUS
<1>1. BufferStep
  BY StepsOfBuffers
<1>2. CASE SetLineMode \/ LineDone
  <2>1. cmdbuf' = <<>> /\ typed' = <<>>
    BY <1>2 DEF SetLineMode, LineDone
  <2> QED
    BY <2>1, LineOfEmpty DEF LineFaithful
<1>3. CASE SetKeyMode \/ SetLineThenKeyMode
  <2>1. mode' = "KEY"
    BY <1>3 DEF SetKeyMode, SetLineThenKeyMode
  <2> QED
    BY <2>1 DEF LineFaithful
<1>4. CASE TakeKey \/ UNCHANGED buffers
  <2>1. UNCHANGED <<mode, cmdbuf, typed>>
    BY <1>4 DEF TakeKey, buffers
  <2> QED
    BY <2>1 DEF LineFaithful
<1>5. ASSUME NEW c \in Char, RxReady, RxCallback(c)
      PROVE  LineFaithful'
  <2>1. CASE RxKey(c)
    BY <2>1 DEF RxKey, LineFaithful
  <2>2. CASE RxLine(c)
    <3>1. mode = "LINE" /\ Edit(c) /\ typed' = Append(typed, c)
      BY <1>5, <2>2 DEF RxLine, RxReady
    <3>2. cmdbuf' = Push(cmdbuf, c)
      BY <3>1, EditPushes DEF IInv, BuffersInv
    <3>3. PICK s : s = typed /\ s \in Seq(Char)
      BY DEF IInv, BuffersInv, BufferTypes
    <3>4. LineOf(Append(s, c)) = Push(LineOf(s), c)
      BY <3>3, LineOfAppend
    <3> QED
      BY <3>1, <3>2, <3>3, <3>4 DEF LineFaithful
  <2> QED
    BY <1>5, <2>1, <2>2 DEF RxCallback
<1> QED
  BY <1>1, <1>2, <1>3, <1>4, <1>5 DEF BufferStep

\* What is in the buffer is what was typed since the last line was done, edited
\* as console_rx_callback edits (console.c:95-127), for lines of every length,
\* with either input or both.
THEOREM LinesAreFaithful == Spec => []LineFaithful
<1>1. Init => LineFaithful
  BY LineOfEmpty DEF Init, LineFaithful
<1>2. IInv /\ LineFaithful /\ [Next]_vars => LineFaithful'
  BY FaithfulStep
<1> QED
  BY <1>1, <1>2, InvariantHolds, PTL DEF Spec

=============================================================================
