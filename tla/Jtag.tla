-------------------------------- MODULE Jtag --------------------------------
(***************************************************************************)
(* The JTAG device, src/src/usbdev_jtag.c and src/src/jtag.c.  The host     *)
(* sends requests to the OUT endpoint and fetches replies from the IN       *)
(* endpoint; usbdev_jtag_tick serves both.  A TAP request holds TMS/TDI     *)
(* pairs, four to a byte; each is put on the wires and clocked, and the     *)
(* levels of TDO (and EMU) are packed into the reply, which is written into *)
(* the buffer that the request is still read from.                          *)
(*                                                                          *)
(* Bits are opaque: <<i, k>> is the k-th pair that request i sends, or the  *)
(* k-th level that is sampled for it.                                       *)
(***************************************************************************)
EXTENDS Integers, Sequences, SequencesExt

CONSTANTS Size,        \* ESTICK_USB_BUFFER_SIZE
          Offset,      \* ESTICK_USB_BUFFER_OFFSET
          Requests,    \* what the host may ask for, see Request
          MaxSent,     \* bound: the requests sent
          MaxWaiting   \* the requests a host has without a reply, at most

Tap == {"TAP_OUTPUT", "TAP_OUTPUT_EMU"}
Set == {"SET_TRST", "SET_SRST", "SET_SRST_TRST", "SET_DELAY"}
Command == Tap \cup Set \cup {"READ_INPUT", "unknown", "empty"}

\* bytes follow the command byte, whose high nibble is extra; bit0 and bit1 are
\* the low bits of the first, or of what an earlier request left there.
Request == [cmd : Command, bytes : 0 .. Size - 1, extra : 0 .. 3,
            bit0 : BOOLEAN, bit1 : BOOLEAN]

ASSUME SizeAssumption == Size \in 2 .. 256 /\ Offset \in Nat
\* What usbdev_jtag_tick leaves to the host and does not check
\* (usbdev_jtag.c:176-190): that a request fits into the buffer (bytes, above),
\* and that a part of a byte is only asked for with the byte.
ASSUME RequestsAssumption ==
  /\ Requests \subseteq Request
  /\ \A r \in Requests : r.extra > 0 => r.bytes > 0
ASSUME BoundsAssumption == MaxSent \in Nat /\ MaxWaiting \in Nat

VARIABLES connected,   \* usbdev_jtag.c's flag
          configured,  \* the endpoints are set up
          outEp, inEp, \* the one bank of each endpoint
          buf,         \* usbBuffer
          toHost,      \* dataToHostSize
          pc,          \* "in", "out": the halves of usbdev_jtag_tick; else in jtag.c
          req,         \* the request handled last
          delay,       \* jtag_delay is not 0
          length, steps, outIndex, inIndex, outData, inData,  \* jtag.c's locals
          tmsTdi, trst, srst,  \* PORTB
          sent,        \* history: the number of requests sent
          waiting,     \* the host: the requests without a reply
          taken,       \* history: the request of the last reply it took
          piped,       \* history: it did not wait for a reply
          stale        \* history: a reply outlived the connection it was for

host == <<sent, waiting, taken, piped>>
usb == <<connected, configured, outEp, inEp>>
locals == <<length, steps, outIndex, inIndex, outData, inData>>
pins == <<tmsTdi, trst, srst>>
vars == <<usb, buf, toHost, pc, req, delay, locals, pins, host, stale>>

DataToHost(i) == i
DataFromHost(i) == i + Offset

Cells == 0 .. Size + Offset - 1
Zero == <<0, 0>>
Blank == [i \in 1 .. 8 |-> Zero]
TapByte(id, j) == [i \in 1 .. 4 |-> <<id, 4 * j + i>>]
Loops == {"max_speed", "with_delay", "emu"}
Ends == {"end", "end_emu"}

\* The levels sampled at each step, and the steps that fill a byte.
Width(cmd) == IF cmd = "TAP_OUTPUT_EMU" THEN 2 ELSE 1
PerByte(cmd) == 8 \div Width(cmd)

\* The number of pairs: four to a byte, fewer in the last one.
Length(r) == (4 * r.bytes - (IF r.extra = 0 THEN 0 ELSE 4 - r.extra)) % 65536

-----------------------------------------------------------------------------
(* jtag.c *)

Over(n) == n >= length

\* in_data >> Width, and the new levels from above.
Shift(id, width, n) ==
  [i \in 1 .. 8 |-> IF i + width <= 8 THEN inData[i + width]
                    ELSE <<id, width * (n - 1) + i + width - 8>>]

\* out_data >> 2, after each pair but the fourth.
PairUnshifted(out) == out[1]
Pair(out) == out[(steps % 4) + 1]

\* One clock: a byte is fetched for every four pairs, and stored when full.
TapStep(width, end) ==
  LET out == IF steps % 4 = 0 THEN buf[DataFromHost(outIndex + 1)] ELSE outData
      n == steps + 1
      in == Shift(req.id, width, n)
      full == n % (8 \div width) = 0
  IN  /\ outIndex' = IF steps % 4 = 0 THEN outIndex + 1 ELSE outIndex
      /\ outData' = out
      /\ tmsTdi' = Pair(out)
      /\ steps' = n
      /\ IF full THEN /\ buf' = [buf EXCEPT ![DataToHost(inIndex)] = in]
                      /\ inIndex' = inIndex + 1
                      /\ inData' = Blank
                 ELSE inData' = in /\ UNCHANGED <<buf, inIndex>>
      /\ IF Over(n) THEN pc' = end ELSE UNCHANGED pc
      /\ UNCHANGED <<usb, toHost, req, delay, length, trst, srst, host, stale>>

MaxSpeed == pc = "max_speed" /\ TapStep(1, "end")
WithDelay == pc = "with_delay" /\ TapStep(1, "end")
Emu == pc = "emu" /\ TapStep(2, "end_emu")

\* in_data >> (8 - m): the m levels of the last byte go down to its low bits.
DownUnshifted(m) == inData
Down(m) == [i \in 1 .. 8 |-> IF i <= m THEN inData[i + 8 - m] ELSE Zero]

TapEnd(end, width) ==
  /\ pc = end /\ pc' = "in"
  /\ buf' = IF steps % (8 \div width) = 0 THEN buf
            ELSE [buf EXCEPT ![DataToHost(inIndex)] = Down(width * (steps % (8 \div width)))]
  /\ toHost' = ((length + (8 \div width) - 1) \div (8 \div width)) % 256
  /\ UNCHANGED <<usb, req, delay, locals, pins, host, stale>>

OutputEnd == TapEnd("end", 1)
OutputEmuEnd == TapEnd("end_emu", 2)

-----------------------------------------------------------------------------
(* usbdev_jtag_tick *)

TickInKeepsSize ==
  /\ pc = "in"
  /\ pc' = IF connected THEN "out" ELSE "in"
  /\ IF connected /\ configured /\ toHost > 0 /\ inEp = <<>>
       THEN inEp' = <<[req |-> req, data |-> [i \in 0 .. toHost - 1 |-> buf[DataToHost(i)]]]>>
       ELSE UNCHANGED inEp
  /\ UNCHANGED <<connected, configured, outEp, buf, toHost, req, delay, locals, pins, host, stale>>

TickIn ==
  /\ pc = "in"
  /\ pc' = IF connected THEN "out" ELSE "in"
  /\ IF connected /\ configured /\ toHost > 0 /\ inEp = <<>>
       THEN /\ inEp' = <<[req |-> req, data |-> [i \in 0 .. toHost - 1 |-> buf[DataToHost(i)]]]>>
            /\ toHost' = 0
       ELSE UNCHANGED <<inEp, toHost>>
  /\ UNCHANGED <<connected, configured, outEp, buf, req, delay, locals, pins, host, stale>>

Nothing ==
  /\ pc = "out" /\ outEp = <<>>
  /\ pc' = "in"
  /\ UNCHANGED <<usb, buf, toHost, req, delay, locals, pins, host, stale>>

\* A packet that says it holds nothing.
Empty ==
  /\ pc = "out" /\ outEp # <<>> /\ Head(outEp).cmd = "empty"
  /\ pc' = "in" /\ outEp' = <<>>
  /\ UNCHANGED <<connected, configured, inEp, buf, toHost, req, delay, locals, pins, host, stale>>

\* The request's bytes are in the buffer, behind the command.
Stored(r) ==
  [c \in Cells |->
     IF c \in DataFromHost(1) .. DataFromHost(r.bytes) THEN TapByte(r.id, c - DataFromHost(1))
     ELSE IF c = DataFromHost(0) THEN Blank ELSE buf[c]]

Receive(r) ==
  /\ pc = "out" /\ outEp = <<r>>
  /\ outEp' = <<>> /\ req' = r
  /\ UNCHANGED <<connected, configured, inEp, host, stale>>

ReplyForgotten(r, byte) ==
  /\ Receive(r)
  /\ buf' = [Stored(r) EXCEPT ![DataToHost(0)] = byte]
  /\ toHost' = 0 /\ pc' = "in"
  /\ UNCHANGED locals

\* A reply of one byte; after SET_ commands it is 0.
Reply(r, byte) ==
  /\ Receive(r)
  /\ buf' = [Stored(r) EXCEPT ![DataToHost(0)] = byte]
  /\ toHost' = 1 /\ pc' = "in"
  /\ UNCHANGED locals

TapOutput(r) ==
  /\ r.cmd \in Tap /\ Receive(r)
  /\ buf' = Stored(r) /\ toHost' = 0
  /\ length' = Length(r)
  /\ steps' = 0 /\ outIndex' = 0 /\ inIndex' = 0 /\ outData' = Blank /\ inData' = Blank
  /\ pc' = IF r.cmd = "TAP_OUTPUT_EMU" THEN "emu" ELSE IF delay THEN "with_delay" ELSE "max_speed"
  /\ UNCHANGED <<delay, pins>>

ReadInput(r) ==
  /\ r.cmd = "READ_INPUT"
  /\ Reply(r, [i \in 1 .. 8 |-> IF i <= 2 THEN <<r.id, i>> ELSE Zero])
  /\ UNCHANGED <<delay, pins>>

\* jtag_set_trst, jtag_set_srst and jtag_set_trst_srst.
SetTrst(r) ==
  /\ r.cmd = "SET_TRST" /\ Reply(r, Blank)
  /\ trst' = r.bit0
  /\ UNCHANGED <<delay, tmsTdi, srst>>

SetSrst(r) ==
  /\ r.cmd = "SET_SRST" /\ Reply(r, Blank)
  /\ srst' = r.bit0
  /\ UNCHANGED <<delay, tmsTdi, trst>>

SetSrstTrst(r) ==
  /\ r.cmd = "SET_SRST_TRST" /\ Reply(r, Blank)
  /\ trst' = r.bit1 /\ srst' = r.bit0
  /\ UNCHANGED <<delay, tmsTdi>>

SetDelay(r) ==
  /\ r.cmd = "SET_DELAY" /\ Reply(r, Blank)
  /\ delay' = (r.bit0 \/ r.bit1)    \* the byte is not 0
  /\ UNCHANGED pins

UnknownCommand(r) ==
  /\ r.cmd = "unknown" /\ Receive(r)
  /\ buf' = Stored(r) /\ toHost' = 0 /\ pc' = "in"
  /\ UNCHANGED <<delay, locals, pins>>

Serve(r) ==
  \/ TapOutput(r) \/ ReadInput(r) \/ SetTrst(r) \/ SetSrst(r) \/ SetSrstTrst(r)
  \/ SetDelay(r) \/ UnknownCommand(r)

Device ==
  \/ TickIn \/ Nothing \/ Empty
  \/ outEp # <<>> /\ Serve(Head(outEp))
  \/ MaxSpeed \/ WithDelay \/ Emu \/ OutputEnd \/ OutputEmuEnd

-----------------------------------------------------------------------------
(* The cable and the host.  Clocking is done with interrupts masked.        *)

Masked == pc \in Loops

Plug ==
  /\ ~connected /\ ~Masked
  /\ connected' = TRUE
  /\ UNCHANGED <<configured, outEp, inEp, buf, toHost, pc, req, delay, locals, pins, host, stale>>

\* Nothing of this module is told that the host has reset the bus.
GoneFromHost ==
  /\ configured' = FALSE /\ outEp' = <<>> /\ inEp' = <<>> /\ waiting' = <<>>
  /\ UNCHANGED <<buf, toHost, pc, req, delay, locals, pins, sent, taken, piped, stale>>

Unplug == connected /\ ~Masked /\ connected' = FALSE /\ GoneFromHost
BusReset == configured /\ ~Masked /\ GoneFromHost /\ UNCHANGED connected

\* usbdev_jtag_device_configuration_changed, from USB_USBTask.
ConfigurationChanged ==
  /\ pc = "in" /\ connected /\ ~configured
  /\ configured' = TRUE
  /\ trst' = TRUE /\ srst' = TRUE /\ tmsTdi' = Zero
  /\ stale' = (stale \/ toHost > 0)
  /\ UNCHANGED <<connected, outEp, inEp, buf, toHost, pc, req, delay, locals, host>>

\* A request without pairs has no levels to fetch.
Expects(r) == r.cmd \notin {"unknown", "empty"} /\ (r.cmd \in Tap => r.bytes > 0)

Numbered(r, i) == [id |-> i, cmd |-> r.cmd, bytes |-> r.bytes, extra |-> r.extra,
                   bit0 |-> r.bit0, bit1 |-> r.bit1]

HostSends(r) ==
  /\ configured /\ outEp = <<>>
  /\ sent < MaxSent /\ Len(waiting) < MaxWaiting
  /\ sent' = sent + 1
  /\ outEp' = <<Numbered(r, sent + 1)>>
  /\ waiting' = IF Expects(r) THEN Append(waiting, sent + 1) ELSE waiting
  /\ piped' = (piped \/ waiting # <<>>)
  /\ UNCHANGED <<connected, configured, inEp, buf, toHost, pc, req, delay, locals, pins, taken, stale>>

HostTakes ==
  /\ inEp # <<>>
  /\ inEp' = <<>>
  /\ waiting' = IF waiting = <<>> THEN <<>> ELSE Tail(waiting)
  /\ taken' = inEp[1].req.id
  /\ UNCHANGED <<connected, configured, outEp, buf, toHost, pc, req, delay, locals, pins, sent, piped, stale>>

\* usbdev_jtag_init and jtag_init.
NoRequest == [id |-> 0, cmd |-> "empty", bytes |-> 0, extra |-> 0, bit0 |-> FALSE, bit1 |-> FALSE]

Init ==
  /\ connected = FALSE /\ configured = FALSE /\ outEp = <<>> /\ inEp = <<>>
  /\ buf = [c \in Cells |-> Blank] /\ toHost = 0
  /\ pc = "in" /\ req = NoRequest /\ delay = FALSE
  /\ length = 0 /\ steps = 0 /\ outIndex = 0 /\ inIndex = 0
  /\ outData = Blank /\ inData = Blank
  /\ tmsTdi = Zero /\ trst = TRUE /\ srst = TRUE
  /\ sent = 0 /\ waiting = <<>> /\ taken = 0 /\ piped = FALSE
  /\ stale = FALSE

Next ==
  \/ Device
  \/ Plug \/ Unplug \/ BusReset \/ ConfigurationChanged
  \/ HostTakes \/ \E r \in Requests : HostSends(r)

Spec == Init /\ [][Next]_vars

\* The main loop goes on, and a host that waits for a reply polls for it.
FairSpec == Spec /\ WF_vars(Device) /\ WF_vars(HostTakes)

-----------------------------------------------------------------------------
(* Properties *)

Id == 0 .. MaxSent
Sequenced == [id : Id, cmd : Command, bytes : 0 .. Size - 1, extra : 0 .. 3,
              bit0 : BOOLEAN, bit1 : BOOLEAN]

\* Types; if requests fit into the buffer, neither index of jtag.c leaves it, and
\* the loop never clocks more pairs than it was told (but for one, if that is none).
TypeOK ==
  /\ connected \in BOOLEAN /\ configured \in BOOLEAN
  /\ Len(outEp) <= 1 /\ Len(inEp) <= 1
  /\ toHost \in 0 .. 255 /\ pc \in {"in", "out"} \cup Loops \cup Ends
  /\ req \in Sequenced /\ delay \in BOOLEAN
  /\ length \in 0 .. 4 * Size /\ steps \in 0 .. 4 * Size
  /\ steps <= length \/ steps = 1
  /\ outIndex \in 0 .. Size - 1 /\ inIndex \in 0 .. Size - 1
  /\ DOMAIN buf = Cells
  /\ trst \in BOOLEAN /\ srst \in BOOLEAN
  /\ sent \in Id /\ stale \in BOOLEAN

\* The pair on the wires at the n-th clock is the n-th that the host sent,
\* although the reply is written over the request while it is clocked.
TapsAsSent ==
  (pc \in Loops \cup Ends /\ steps > 0 /\ length > 0) => tmsTdi = <<req.id, steps>>

\* The bytes of a reply, and what each must be: the levels in the order of
\* their clocks, from the lowest bit up, and zeros behind the last.
ReplySize(r) == (Length(r) + PerByte(r.cmd) - 1) \div PerByte(r.cmd)
ReplyByte(r, k) ==
  [i \in 1 .. 8 |-> IF 8 * k + i <= Width(r.cmd) * Length(r) THEN <<r.id, 8 * k + i>> ELSE Zero]

\* What the host fetches is every level that was sampled for the request, for
\* every length, also one that fills no byte.
ReplyIsSampled ==
  \A i \in 1 .. Len(inEp) :
    LET r == inEp[i].req IN
    r.cmd \in Tap => inEp[i].data = [k \in 0 .. ReplySize(r) - 1 |-> ReplyByte(r, k)]

\* The replies on their way, the one being made included.
Pending == [i \in 1 .. Len(inEp) |-> inEp[i].req.id]
           \o (IF toHost > 0 THEN <<req.id>> ELSE <<>>)
           \o (IF pc \in Loops \cup Ends /\ Expects(req) THEN <<req.id>> ELSE <<>>)

\* No reply is sent twice or before an earlier one, whenever the cable is pulled
\* and however many requests the host sends ahead.  If it waits for each reply,
\* the replies are those it waits for; but a reply that is left over when the
\* bus is reset is sent to the next connection, and one is lost if the host
\* fetches the last one between the two halves of a tick and asks again.
RepliesInOrder ==
  /\ \A i \in 1 .. Len(Pending) :
       Pending[i] > (IF i = 1 THEN taken ELSE Pending[i - 1])
  /\ ~stale /\ ~piped /\ configured => IsPrefix(Pending, waiting)

\* Every request that has a reply gets it, if the host waits for it, unless the
\* bus is reset.
Answered ==
  \A i \in 1 .. MaxSent :
    (i \in Range(waiting)) ~> (i \notin Range(waiting) \/ piped \/ stale)

=============================================================================
