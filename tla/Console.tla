------------------------------- MODULE Console ------------------------------
(***************************************************************************)
(* The console, src/src/console.c, and what feeds it: driver_tick (ninja.c)*)
(* polls the UART (hw_uart.c) and the USB serial port (usbdev_cdc.c), then  *)
(* console_tick runs a finished line.  Three things make this hard: the USB *)
(* events come in an interrupt between any two steps; a command that waits  *)
(* for keys calls driver_tick while console_tick is on the stack; and two   *)
(* inputs share one buffer without a lock.                                  *)
(***************************************************************************)
EXTENDS Integers, Sequences, SequencesExt

CONSTANTS Keys,        \* the characters typed, the next three among them
          Enter, Backspace, Plus,
          Wanted,      \* the keys a menu accepts, the space of dumpkeys
          NoKey,       \* what an unplugged endpoint yields, and an empty register
          LineMax,     \* sizeof(cmdbuf) - 1
          Burst,       \* CDC_BUFSIZE: bytes taken from USB in one tick
          Wrap,        \* 2^8, the values of exitCount
          QueueMax,    \* bound: bytes waiting in the USB endpoint
          TypedMax,    \* bound: characters typed into one line
                       \* (a NoKey that a replugged cable inserts counts)
          Commands,    \* the commands configured that wait for keys
          HasUart      \* CONFIG_HW_UART_CONSOLE

ASSUME KeysAssumption ==
  /\ {Enter, Backspace, Plus} \subseteq Keys /\ Wanted \subseteq Keys
  /\ Enter # Backspace /\ NoKey \notin Keys
ASSUME BoundsAssumption ==
  /\ LineMax \in Nat /\ TypedMax \in Nat
  /\ Burst \in Nat \ {0} /\ QueueMax \in Nat \ {0} /\ Wrap \in Nat \ {0}
ASSUME ConfigAssumption ==
  /\ HasUart \in BOOLEAN /\ Commands \subseteq {"menu2", "menu1", "bitbang"}

VARIABLES pc,        \* the next step of driver_tick, or of the command it runs
          calls,     \* the activations of execute_command_line on the stack
          count,     \* usbdev_cdc_tick's loop counter
          byte,      \* usbdev_cdc_tick's c
          polled,    \* c of the command that waits for keys
          exitCount, \* command_bitbang's
          mode,      \* console_mode
          cmdbuf,    \* cmdbuf[0 .. cmdbuf_len - 1]
          gotLine, gotKey, lastKey,
          plugged,   \* both "connected" flags and the three callbacks, which
                     \* the interrupt sets and clears together
          uart,      \* the UART's receive register
          queue,     \* the bytes in the USB endpoint
          typed,     \* history: characters consumed since the last line was done
          unread     \* history: keys consumed since the last one was polled

buffers == <<mode, cmdbuf, gotLine, gotKey, lastKey, typed, unread>>
inputs == <<plugged, uart, queue>>
locals == <<count, byte, polled, exitCount>>
vars == <<pc, calls, locals, buffers, inputs>>

Char == Keys \cup {NoKey}

Steps == {"uart", "usb", "cdcEnter", "cdc", "receive", "deliver", "console",
          "execute", "finish", "poll", "polled", "wild"}

\* What an activation still has to do: two picks, one, bitbang, or return.
Frames == {"menu2", "menu1", "bitbang", "done"}

-----------------------------------------------------------------------------
(* console.c *)

\* console_set_mode(CONSOLE_MODE_LINE)
SetLineMode ==
  /\ mode' = "LINE"
  /\ cmdbuf' = <<>> /\ gotLine' = FALSE
  /\ typed' = <<>>
  /\ UNCHANGED <<gotKey, lastKey, unread>>

SetKeyModeForgotten ==
  /\ gotKey' = FALSE
  /\ unread' = 0
  /\ UNCHANGED <<mode, cmdbuf, gotLine, lastKey, typed>>

\* console_set_mode(CONSOLE_MODE_KEY)
SetKeyMode ==
  /\ mode' = "KEY"
  /\ gotKey' = FALSE
  /\ unread' = 0
  /\ UNCHANGED <<cmdbuf, gotLine, lastKey, typed>>

\* Between the two menus of mymenu: line mode, and key mode again.
SetLineThenKeyMode ==
  /\ mode' = "KEY"
  /\ cmdbuf' = <<>> /\ gotLine' = FALSE /\ typed' = <<>>
  /\ gotKey' = FALSE /\ unread' = 0
  /\ UNCHANGED lastKey

RxReadyLineOnly == ~gotLine

RxReady == mode = "KEY" \/ ~gotLine

\* console_rx_callback in line mode: the line so far, and whether it is done.
Edit(c) ==
  /\ gotLine' = (c = Enter)
  /\ cmdbuf' = CASE c = Enter -> cmdbuf
                 [] c = Backspace -> IF cmdbuf = <<>> THEN cmdbuf ELSE Front(cmdbuf)
                 [] OTHER -> IF Len(cmdbuf) < LineMax THEN Append(cmdbuf, c) ELSE cmdbuf

RxKey(c) ==
  /\ mode = "KEY"
  /\ gotKey' = TRUE /\ lastKey' = c
  /\ unread' = unread + 1
  /\ UNCHANGED <<mode, cmdbuf, gotLine, typed>>

RxLine(c) ==
  /\ mode = "LINE"
  /\ IF gotLine THEN UNCHANGED <<gotLine, cmdbuf>> ELSE Edit(c)
  /\ typed' = Append(typed, c)
  /\ UNCHANGED <<mode, gotKey, lastKey, unread>>

RxCallback(c) == RxKey(c) \/ RxLine(c)

LineDoneStale ==
  /\ cmdbuf' = <<>> /\ gotLine' = gotLine
  /\ typed' = <<>>
  /\ UNCHANGED <<mode, gotKey, lastKey, unread>>

LineDoneKeepsLine ==
  /\ gotLine' = FALSE
  /\ typed' = <<>>
  /\ UNCHANGED <<mode, cmdbuf, gotKey, lastKey, unread>>

\* The end of console_tick: an empty buffer, the prompt, ready for more.
LineDone ==
  /\ cmdbuf' = <<>> /\ gotLine' = FALSE
  /\ typed' = <<>>
  /\ UNCHANGED <<mode, gotKey, lastKey, unread>>

TakeKeyAgain ==
  /\ unread' = 0
  /\ UNCHANGED <<mode, cmdbuf, gotLine, gotKey, lastKey, typed>>

\* console_key_poll, when there is a key; nobody looks at last_key again.
TakeKey ==
  /\ gotKey' = FALSE /\ lastKey' = NoKey
  /\ unread' = 0
  /\ UNCHANGED <<mode, cmdbuf, gotLine, typed>>

-----------------------------------------------------------------------------
(* driver_tick, one action for each stretch that no interrupt can disturb.  *)

Goto(step) == pc' = step

\* driver_tick returns to main's loop or to the command that waits for a key;
\* command_bitbang counts the tick if the last key it saw was a '+'.
Return(stack) ==
  IF stack = <<>>
    THEN Goto("uart") /\ UNCHANGED exitCount
    ELSE /\ Goto("poll")
         /\ exitCount' = IF Last(stack) # "bitbang" \/ polled # Plus THEN 0
                         ELSE (exitCount + 1) % Wrap

UartTick ==
  /\ pc = "uart" /\ Goto("usb")
  /\ IF HasUart /\ uart # NoKey
       THEN RxCallback(uart) /\ uart' = NoKey
       ELSE UNCHANGED <<buffers, uart>>
  /\ UNCHANGED <<calls, locals, plugged, queue>>

UsbTick ==
  /\ pc = "usb"
  /\ Goto(IF plugged THEN "cdcEnter" ELSE "console")
  /\ UNCHANGED <<calls, locals, buffers, inputs>>

CdcEnter ==
  /\ pc = "cdcEnter"
  /\ Goto(IF plugged THEN "cdc" ELSE "console")
  /\ count' = 0
  /\ UNCHANGED <<calls, byte, polled, exitCount, buffers, inputs>>

MayReceiveAlways == count < Burst /\ queue # <<>> /\ plugged

MayReceive == count < Burst /\ queue # <<>> /\ plugged /\ RxReady

CdcLoop ==
  /\ pc = "cdc"
  /\ IF MayReceive
       THEN Goto("receive") /\ count' = count + 1
       ELSE Goto("console") /\ count' = 0
  /\ UNCHANGED <<calls, byte, polled, exitCount, buffers, inputs>>

\* CDC_Device_ReceiveByte; the endpoint is gone if the cable was pulled.
CdcReceive ==
  /\ pc = "receive" /\ Goto("deliver")
  /\ byte' = (IF queue = <<>> THEN NoKey ELSE Head(queue))
  /\ queue' = (IF queue = <<>> THEN <<>> ELSE Tail(queue))
  /\ UNCHANGED <<calls, count, polled, exitCount, buffers, plugged, uart>>

CdcDeliver ==
  /\ pc = "deliver"
  /\ IF plugged
       THEN RxCallback(byte) /\ Goto("cdc") /\ UNCHANGED count
       ELSE UNCHANGED buffers /\ Goto("console") /\ count' = 0
  /\ byte' = NoKey
  /\ UNCHANGED <<calls, polled, exitCount, inputs>>

LineReady == mode = "LINE" /\ gotLine

\* console_tick: nothing to do, an empty line, or a line to execute.
ConsoleTick ==
  /\ pc = "console"
  /\ \/ /\ ~LineReady
        /\ Return(calls)
        /\ UNCHANGED <<calls, buffers>>
     \/ /\ LineReady /\ cmdbuf = <<>>
        /\ LineDone /\ Return(calls)
        /\ UNCHANGED calls
     \/ /\ LineReady /\ cmdbuf # <<>>
        /\ Goto("execute") /\ calls' = Append(calls, "done")
        /\ UNCHANGED <<exitCount, buffers>>
  /\ UNCHANGED <<count, byte, polled, inputs>>

SetTop(frame) == calls' = [calls EXCEPT ![Len(calls)] = frame]

\* A command that reads no keys: everything but the three below.
ExecutePlain ==
  /\ pc = "execute" /\ Goto("finish")
  /\ UNCHANGED <<calls, locals, buffers, inputs>>

\* dumpkeys, mymenu and bitbang; c is not initialized, and bitbang reads it.
ExecuteKeyCommand(frame) ==
  /\ pc = "execute" /\ Goto("poll")
  /\ SetTop(frame) /\ SetKeyMode
  /\ IF frame = "bitbang" THEN polled' \in Char ELSE UNCHANGED polled
  /\ exitCount' = 0
  /\ UNCHANGED <<count, byte, inputs>>

\* while (!console_key_poll(&c)) driver_tick();
PollNothing ==
  /\ pc = "poll" /\ ~gotKey
  /\ Goto("uart")
  /\ UNCHANGED <<calls, locals, buffers, inputs>>

\* console_key_poll(&c) returns TRUE.
PollKey ==
  /\ pc = "poll" /\ gotKey
  /\ TakeKey
  /\ polled' = lastKey
  /\ Goto("polled")
  /\ UNCHANGED <<calls, count, byte, exitCount, inputs>>

\* menu_pick_key and dumpkeys: another key, the second menu, or the end.
Pick ==
  /\ pc = "polled" /\ Last(calls) \in {"menu1", "menu2"}
  /\ \/ /\ polled \notin Wanted
        /\ Goto("poll")
        /\ UNCHANGED <<calls, buffers>>
     \/ /\ polled \in Wanted /\ Last(calls) = "menu2"
        /\ SetLineThenKeyMode
        /\ Goto("poll") /\ SetTop("menu1")
     \/ /\ polled \in Wanted /\ Last(calls) = "menu1"
        /\ SetLineMode
        /\ Goto("finish") /\ SetTop("done")
  /\ polled' = NoKey
  /\ UNCHANGED <<count, byte, exitCount, inputs>>

\* command_bitbang: while (exitCount < 3).
Bitbang ==
  /\ pc = "polled" /\ Last(calls) = "bitbang"
  /\ IF exitCount < 3
       THEN Goto("poll") /\ UNCHANGED <<calls, polled, exitCount, buffers>>
       ELSE /\ SetLineMode
            /\ Goto("finish") /\ SetTop("done")
            /\ polled' = NoKey /\ exitCount' = 0
  /\ UNCHANGED <<count, byte, inputs>>

\* execute_command_line returns to console_tick.
Finish ==
  /\ pc = "finish"
  /\ calls' = Front(calls)
  /\ LineDone /\ Return(Front(calls))
  /\ UNCHANGED <<count, byte, polled, inputs>>

Driver ==
  \/ UartTick \/ UsbTick \/ CdcEnter \/ CdcLoop \/ CdcReceive \/ CdcDeliver
  \/ ConsoleTick \/ ExecutePlain \/ PollNothing \/ PollKey
  \/ Pick \/ Bitbang \/ Finish
  \/ \E frame \in Commands : ExecuteKeyCommand(frame)

-----------------------------------------------------------------------------
(* The interrupt, the cable and the person typing.                          *)

Connect ==
  /\ ~plugged /\ plugged' = TRUE
  /\ Len(typed) < TypedMax \/ pc = "wild"
  /\ UNCHANGED <<calls, locals, buffers, uart, queue>>

Disconnect ==
  /\ plugged /\ plugged' = FALSE
  /\ queue' = <<>>
  /\ UNCHANGED <<calls, locals, buffers, uart>>

Interrupt == (Connect \/ Disconnect) /\ UNCHANGED pc

\* A callback pointer has two bytes.  The interrupt that sets or clears it
\* between the loads of the two sends usbdev_cdc_tick to an address that is
\* neither the callback nor NULL.
TornCall ==
  /\ \/ pc = "cdc" /\ count < Burst /\ queue # <<>> /\ Disconnect
     \/ pc = "deliver" /\ (Connect \/ Disconnect)
  /\ Goto("wild")

HostSends(c) ==
  /\ plugged /\ Len(queue) < QueueMax
  /\ c = Enter \/ Len(typed) + Len(queue) < TypedMax
  /\ queue' = Append(queue, c)
  /\ UNCHANGED <<pc, calls, locals, buffers, plugged, uart>>

UartReceives(c) ==
  /\ HasUart /\ uart = NoKey
  /\ c = Enter \/ Len(typed) < TypedMax
  /\ uart' = c
  /\ UNCHANGED <<pc, calls, locals, buffers, plugged, queue>>

Environment ==
  \/ Interrupt \/ TornCall
  \/ \E c \in Keys : HostSends(c) \/ UartReceives(c)

Init ==
  /\ pc = "uart" /\ calls = <<>>
  /\ count = 0 /\ byte = NoKey /\ polled = NoKey /\ exitCount = 0
  /\ mode = "LINE" /\ cmdbuf = <<>> /\ gotLine = FALSE
  /\ gotKey = FALSE /\ lastKey = NoKey
  /\ plugged = FALSE /\ uart = NoKey /\ queue = <<>>
  /\ typed = <<>> /\ unread = 0

Next == Driver \/ Environment

Spec == Init /\ [][Next]_vars

\* The processor keeps executing: interrupts are short.
FairSpec == Spec /\ WF_vars(Driver)

-----------------------------------------------------------------------------
(* Properties *)

\* Every variable has its type; the line never outgrows its buffer, and the
\* loop of usbdev_cdc_tick takes no more than CDC_BUFSIZE bytes.
TypeOK ==
  /\ pc \in Steps /\ calls \in Seq(Frames)
  /\ count \in 0 .. Burst /\ byte \in Char
  /\ polled \in Char /\ exitCount \in 0 .. Wrap - 1
  /\ mode \in {"LINE", "KEY"}
  /\ cmdbuf \in Seq(Char) /\ Len(cmdbuf) <= LineMax
  /\ gotLine \in BOOLEAN /\ gotKey \in BOOLEAN /\ lastKey \in Char
  /\ plugged \in BOOLEAN /\ uart \in Char
  /\ queue \in Seq(Keys)
  /\ typed \in Seq(Char)
  /\ unread \in Nat

\* console_rx_callback's "throw away chars until the line is handled" is never
\* needed: while a finished line waits for console_tick, the flow control of
\* the USB loop and the order of driver_tick let no character through.  So an
\* Enter is the last character typed, and got_line says that there is one.
NothingThrown ==
  mode = "LINE" =>
    \A i \in 1 .. Len(typed) :
      (typed[i] = Enter) <=> (gotLine /\ i = Len(typed))

\* The line that s edits to: a backspace takes the character before it away,
\* and what does not fit is dropped.
Push(line, c) == SubSeq(line \o <<c>>, 1,
                        CASE c = Enter -> Len(line)
                          [] c = Backspace -> Len(line) - 1
                          [] OTHER -> IF Len(line) < LineMax THEN Len(line) + 1 ELSE LineMax)
LineOf(s) ==
  LET text[n \in 0 .. Len(s)] == IF n = 0 THEN <<>> ELSE Push(text[n - 1], s[n])
  IN  text[Len(s)]

\* What is in the buffer, and is executed, is what was typed since the last
\* line was done: no character comes from an earlier line, from a key that a
\* command waited for, or twice.
LineFaithful ==
  mode = "LINE" => cmdbuf = LineOf(typed)

\* console_tick runs nested, below execute_command_line, whenever a command
\* waits for a key; yet the line whose command it is, still in cmdbuf with
\* got_line set, is never executed a second time.
NoReentry == Len(calls) <= 1

\* A command that waits for keys sees a key exactly if one came since it last
\* looked: no key is seen twice, and none that came alone is missed.
KeyFresh ==
  mode = "KEY" => (gotKey <=> (unread > 0))

\* A finished line is executed, unless its command waits for keys.
LineHandled == gotLine ~> (~gotLine \/ mode = "KEY" \/ pc = "wild")

\* The host is never left waiting with a full endpoint, whatever mode the
\* console is in.
HostNotStuck ==
  (plugged /\ Len(queue) = QueueMax) ~>
    (~plugged \/ Len(queue) < QueueMax \/ pc = "wild")

=============================================================================
