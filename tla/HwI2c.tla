-------------------------------- MODULE HwI2c -------------------------------
(***************************************************************************)
(* The software I2C driver, src/src/hw_i2c.c, on the two wires it shares   *)
(* with a slave.  A call of the driver is the sequence of its statements   *)
(* (pull a wire low, let it go, sample, mask interrupts), taken one by one;*)
(* an open-drain wire is high when nobody pulls it low.  The slave is not  *)
(* in the repository: it is the device the I2C bus specification describes,*)
(* and answers to every edge before the master's next statement.           *)
(***************************************************************************)
EXTENDS Integers, Sequences, SequencesExt

CONSTANTS Bits,       \* bits per byte: 8 in the code
          Bytes,      \* the bytes in play, as sequences of bits, MSB first
          Own,        \* the slave's address: a byte without its last bit
          StretchAt,  \* where in a frame the slave may hold SCL low
          Callers,    \* how the driver is called: see MayCall
          Resets      \* the reset command may be given

Slots == {"slaveAck", "masterAck", "recvData", "sendData", "none"}

ASSUME BitsAssumption == Bits \in Nat \ {0, 1}
ASSUME BytesAssumption == Bytes \subseteq [1..Bits -> BOOLEAN]
\* The address 0 is reserved for the general call and the START byte.
ASSUME OwnAssumption ==
  Own \in [1..(Bits - 1) -> BOOLEAN] /\ \E i \in 1..(Bits - 1) : Own[i]
ASSUME StretchAssumption == StretchAt \subseteq Slots
ASSUME CallersAssumption ==
  Callers \in {"textbook", "aborting", "careless"} /\ Resets \in BOOLEAN

VARIABLES mSda, mScl,  \* the master lets the wire go (its DDR bit is 0)
          slave,       \* the slave: see SlaveStates
          prog,        \* the statements left of the running call
          call,        \* the last call and its argument
          data,        \* the bits it has sampled
          hold,        \* hw_i2c.c:100, hold_bus
          ie,          \* interrupts are enabled
          busy, clocks, \* history of the wires, as I2cProtocol counts it
          astray       \* history: a START was called amid a read, and there
                       \* was no START or STOP condition on the wires since

wires == <<mSda, mScl, slave, busy, clocks>>
vars == <<mSda, mScl, slave, prog, call, data, hold, ie, busy, clocks, astray>>

Sda == mSda /\ slave.sda
Scl == mScl /\ slave.scl

-----------------------------------------------------------------------------
(* The slave.  n counts the clocks of the frame, from -1 right after START; *)
(* bits are the ones received, or the ones to send; last the last byte.     *)

SlaveStates ==
  [role : {"off", "addr", "recv", "send"}, n : -1..Bits, sda : BOOLEAN,
   scl : BOOLEAN, bits : Seq(BOOLEAN), heard : BOOLEAN, last : Seq(BOOLEAN)]

Released(s) == [s EXCEPT !.role = "off", !.n = 0, !.sda = TRUE, !.bits = <<>>]

Started(s) == [s EXCEPT !.role = "addr", !.n = -1, !.sda = TRUE, !.bits = <<>>]

\* A rising edge: it samples SDA.
Sampled(s, level) ==
  CASE s.role \in {"addr", "recv"} /\ s.n < Bits -> [s EXCEPT !.bits = Append(@, level)]
    [] s.role = "send" /\ s.n = Bits -> [s EXCEPT !.heard = ~level]
    [] OTHER -> s

\* The acknowledgement: its own if it receives (a busy slave may refuse), to
\* be heard from the master if it sends.
AckSlot(s) ==
  LET t == [s EXCEPT !.n = Bits, !.last = s.bits]
  IN IF s.role = "send" THEN {[t EXCEPT !.sda = TRUE]}
     ELSE {Released(s)} \cup
          {u \in {[t EXCEPT !.sda = FALSE]} : s.role = "recv" \/ Front(s.bits) = Own}

NextByte(s) ==
  IF s.role = "send" /\ ~s.heard THEN {Released(s)}
  ELSE IF s.role = "send" \/ (s.role = "addr" /\ Last(s.bits))
  THEN {[s EXCEPT !.role = "send", !.n = 0, !.bits = b, !.sda = b[1]] : b \in Bytes}
  ELSE {[s EXCEPT !.role = "recv", !.n = 0, !.bits = <<>>, !.sda = TRUE]}

Slot(s) ==
  CASE s.role = "send" /\ s.n = Bits -> "masterAck"
    [] s.role \in {"addr", "recv"} /\ s.n = Bits -> "slaveAck"
    [] s.role = "recv" /\ s.n = 0 -> "recvData"
    [] s.role = "send" /\ s.n = 0 -> "sendData"
    [] OTHER -> "none"

\* A falling edge: the next bit, and it may keep SCL low.
Fell(s) ==
  LET level == IF s.role = "send" THEN s.bits[s.n + 2] ELSE s.sda
      next == IF s.role = "off" THEN {s}
              ELSE CASE s.n < Bits - 1 -> {[s EXCEPT !.n = @ + 1, !.sda = level]}
                     [] s.n = Bits - 1 -> AckSlot(s)
                     [] OTHER -> NextByte(s)
  IN next \cup {[t EXCEPT !.scl = FALSE] : t \in {u \in next : Slot(u) \in StretchAt}}

-----------------------------------------------------------------------------
(* The wires, after one of their four drivers has changed: at most one edge. *)

Edge(sda, scl) ==
  \/ /\ Scl /\ scl /\ Sda /\ ~sda                       \* START condition
     /\ slave' = Started(slave)
     /\ busy' = TRUE /\ clocks' = -1 /\ astray' = FALSE
  \/ /\ Scl /\ scl /\ ~Sda /\ sda                       \* STOP condition
     /\ slave' = Released(slave)
     /\ busy' = FALSE /\ clocks' = 0 /\ astray' = FALSE
  \/ /\ ~Scl /\ scl                                     \* rising clock
     /\ slave' = Sampled([slave EXCEPT !.scl = TRUE], sda)
     /\ UNCHANGED <<busy, clocks, astray>>
  \/ /\ Scl /\ ~scl                                     \* falling clock
     /\ slave' \in Fell(slave)
     /\ clocks' = (clocks + 1) % (Bits + 1)
     /\ UNCHANGED <<busy, astray>>
  \/ /\ Scl = scl /\ (Scl => Sda = sda)                 \* no edge
     /\ UNCHANGED <<slave, busy, clocks, astray>>

\* The slave is ready: SCL rises if the master has let it go too.
ReleaseScl ==
  /\ ~slave.scl
  /\ slave' = IF mScl THEN Sampled([slave EXCEPT !.scl = TRUE], Sda)
                      ELSE [slave EXCEPT !.scl = TRUE]
  /\ UNCHANGED <<mSda, mScl, prog, call, data, hold, ie, busy, clocks, astray>>

-----------------------------------------------------------------------------
(* The driver's functions as the statements they execute. *)

Repeat(s, n) == [k \in 1..(n * Len(s)) |-> s[((k - 1) % Len(s)) + 1]]

\* The statements of the loop that sends the bits of a byte, first to last.
ClockOut(bits) ==
  [k \in 1..(3 * Len(bits)) |->
     CASE k % 3 = 1 -> IF bits[(k + 2) \div 3] THEN "sda_hi" ELSE "sda_low"
       [] k % 3 = 2 -> "scl_hi"
       [] OTHER -> "scl_low"]

WriteByteShort(byte) == <<"cli">> \o ClockOut(Front(byte)) \o <<"sei">>
WriteByte(byte) == <<"cli">> \o ClockOut(byte) \o <<"sei">>

ReadBitNoSei == <<"cli", "sda_hi", "scl_hi", "sample", "scl_low">>
ReadBitKeepsSda == <<"cli", "scl_hi", "sample", "scl_low", "sei">>
ReadBit == <<"cli", "sda_hi", "scl_hi", "sample", "scl_low", "sei">>

MasterStartNoRelease(held, byte) ==
  <<"cli", "sda_low", "scl_low", "hold">> \o WriteByte(byte) \o ReadBit

MasterStart(held, byte) ==
  <<"cli">> \o (IF held THEN <<"sda_hi", "scl_hi">> ELSE <<>>)
            \o <<"sda_low", "scl_low", "hold">> \o WriteByte(byte) \o ReadBit

MasterStopHolding == <<"cli", "scl_low", "sda_low", "scl_hi", "sda_hi", "sei">>
MasterStop == <<"cli", "scl_low", "sda_low", "scl_hi", "sda_hi", "unhold", "sei">>

MasterTx(byte) == <<"cli">> \o WriteByte(byte) \o ReadBit \o <<"sei">>

MasterRxOneBitMore(ack) ==
  <<"cli">> \o Repeat(ReadBit, Bits + 1) \o
  <<IF ack THEN "sda_low" ELSE "sda_hi", "scl_hi", "scl_low", "sda_hi", "sei">>

MasterRx(ack) ==
  <<"cli">> \o Repeat(ReadBit, Bits) \o
  <<IF ack THEN "sda_low" ELSE "sda_hi", "scl_hi", "scl_low", "sda_hi", "sei">>

\* The address 0 and the read bit: a START byte that no slave acknowledges.
BusClearWrites(held) == MasterStart(held, [i \in 1..Bits |-> FALSE]) \o MasterStop
BusClear(held) == MasterStart(held, [i \in 1..Bits |-> i = Bits]) \o MasterStop

\* bus_i2c_open: hw_i2c_init lets the wires go and forgets the transaction.
Open == <<"sda_hi", "scl_hi", "unhold">> \o BusClear(FALSE)

-----------------------------------------------------------------------------
(* The processor executes one statement. *)

Drive(sda, scl) ==
  /\ mSda' = sda /\ mScl' = scl
  /\ Edge(sda /\ slave.sda, scl /\ slave.scl)

Take(op) == prog # <<>> /\ Head(prog) = op /\ prog' = Tail(prog)

SdaHi == Take("sda_hi") /\ Drive(TRUE, mScl) /\ UNCHANGED <<call, data, hold, ie>>
SdaLow == Take("sda_low") /\ Drive(FALSE, mScl) /\ UNCHANGED <<call, data, hold, ie>>
SclHi == Take("scl_hi") /\ Drive(mSda, TRUE) /\ UNCHANGED <<call, data, hold, ie>>
SclLow == Take("scl_low") /\ Drive(mSda, FALSE) /\ UNCHANGED <<call, data, hold, ie>>

Cli == Take("cli") /\ ie' = FALSE /\ UNCHANGED <<wires, call, data, hold, astray>>
Sei == Take("sei") /\ ie' = TRUE /\ UNCHANGED <<wires, call, data, hold, astray>>

Hold == Take("hold") /\ hold' = TRUE /\ UNCHANGED <<wires, call, data, ie, astray>>
Unhold == Take("unhold") /\ hold' = FALSE /\ UNCHANGED <<wires, call, data, ie, astray>>

\* The loop around SCL_IN ends once SCL is high; then SDA_IN is read.
Sample ==
  /\ Scl
  /\ Take("sample")
  /\ data' = Append(data, Sda)
  /\ UNCHANGED <<wires, call, hold, ie, astray>>

\* Another round of that loop, which has no timeout and feeds the watchdog.
Poll == prog # <<>> /\ Head(prog) = "sample" /\ ~Scl /\ UNCHANGED vars

Execute ==
  SdaHi \/ SdaLow \/ SclHi \/ SclLow \/ Cli \/ Sei \/ Hold \/ Unhold \/ Sample

-----------------------------------------------------------------------------
(* The callers, bus_i2c.c.  What the last call returned decides the next.   *)

Returned == prog = <<>>
Acked == data = <<FALSE>>

Peer ==
  CASE call.op = "reset" -> "closed"
    [] call.op \in {"none", "stop", "clear", "open"} -> "none"
    [] call.op = "start" /\ Acked -> IF Last(call.byte) THEN "reading" ELSE "writing"
    [] call.op = "tx" /\ Acked -> "writing"
    [] call.op = "rx" /\ call.ack -> "reading"
    [] OTHER -> "done"

\* textbook: every transaction the user types is well formed.  aborting: it
\* may break off a read, with a number after 'r' or the scanner's clearing
\* (bus_clear, bus_i2c.c:147-150, 195-220), with '[' and an address or a scan
\* (START, bus_i2c.c:41-44 with 112 or 161, 204), or by opening the mode again.
\* careless: any order; the user may close a read without an 'r' ("[0xA7]"),
\* mix up the directions, or scan inside the brackets and go on without a START.
MayCall(op) ==
  \/ Peer = "none" /\ op \in {"start", "clear", "open"}
  \/ Peer = "writing" /\ op \in {"tx", "start", "stop", "clear", "open"}
  \/ Peer = "reading" /\ op = "rx"
  \/ Peer = "done" /\ op \in {"start", "stop", "clear", "open"}
  \/ Peer = "closed" /\ op = "open"
  \/ Callers = "aborting" /\ Peer = "reading" /\ op \in {"clear", "start", "open"}
  \/ Callers = "careless"

Call(op, byte, ack, statements) ==
  /\ Returned
  /\ MayCall(op)
  /\ call' = [op |-> op, byte |-> byte, ack |-> ack]
  /\ prog' = statements
  /\ data' = <<>>
  /\ astray' = (astray \/ (op = "start" /\ Peer = "reading"))
  /\ UNCHANGED <<wires, hold, ie>>

CallStart == \E b \in Bytes : Call("start", b, FALSE, MasterStart(hold, b))
CallTx == \E b \in Bytes : Call("tx", b, FALSE, MasterTx(b))
CallRx == \E ack \in BOOLEAN : Call("rx", <<>>, ack, MasterRx(ack))
CallStop == Call("stop", <<>>, FALSE, MasterStop)
CallClear == Call("clear", <<>>, FALSE, BusClear(hold))
CallOpen == Call("open", <<>>, FALSE, Open)

\* cpu_reset, of the reset command: the pins become inputs and the driver
\* forgets the transaction, the slave does not.
CpuReset ==
  /\ Resets /\ Returned
  /\ Drive(TRUE, TRUE)
  /\ hold' = FALSE /\ ie' = TRUE /\ data' = <<>>
  /\ call' = [op |-> "reset", byte |-> <<>>, ack |-> FALSE]
  /\ UNCHANGED prog

-----------------------------------------------------------------------------
Idle ==
  [role |-> "off", n |-> 0, sda |-> TRUE, scl |-> TRUE, bits |-> <<>>,
   heard |-> FALSE, last |-> <<>>]

Init ==
  /\ mSda = TRUE /\ mScl = TRUE
  /\ slave = Idle
  /\ prog = <<>>
  /\ call = [op |-> "none", byte |-> <<>>, ack |-> FALSE]
  /\ data = <<>>
  /\ hold = FALSE
  /\ ie = TRUE
  /\ busy = FALSE /\ clocks = 0 /\ astray = FALSE

Next ==
  \/ CallStart \/ CallTx \/ CallRx \/ CallStop \/ CallClear \/ CallOpen \/ CpuReset
  \/ Execute \/ Poll
  \/ ReleaseScl

Spec == Init /\ [][Next]_vars

\* The processor goes on, and the slave does not hold SCL for ever.
Fairness == WF_vars(Execute) /\ WF_vars(ReleaseScl)

FairSpec == Spec /\ Fairness

-----------------------------------------------------------------------------
Ops == {"cli", "sei", "sda_hi", "sda_low", "scl_hi", "scl_low", "hold",
        "unhold", "sample"}

TypeOK ==
  /\ mSda \in BOOLEAN /\ mScl \in BOOLEAN
  /\ slave \in SlaveStates
  /\ prog \in Seq(Ops)
  /\ call \in [op : {"none", "start", "tx", "rx", "stop", "clear", "open", "reset"},
               byte : Bytes \cup {<<>>}, ack : BOOLEAN]
  /\ data \in Seq(BOOLEAN) /\ Len(data) <= Bits
  /\ hold \in BOOLEAN /\ ie \in BOOLEAN
  /\ busy \in BOOLEAN /\ clocks \in -1..Bits /\ astray \in BOOLEAN

\* When a call has returned, hold_bus says what the wires say: a transfer is
\* open exactly if it is set, and if not both wires are high and the slave is
\* out of every transfer (hw_i2c.c:240-250, 263-269).
HoldTracksBus ==
  Returned => /\ hold <=> busy
              /\ ~hold => Sda /\ Scl /\ slave.role = "off"

\* What a call returned is true of the slave: if bus_i2c.c believes it may
\* send, or must read, then the slave is receiving, or sending, that byte next.
PeerListens ==
  Returned => /\ Peer = "writing" => slave.role = "recv" /\ slave.n = 0
              /\ Peer = "reading" => slave.role = "send" /\ slave.n = 0

\* The bytes arrive: the acknowledged byte is the one the slave received, and
\* the byte read is the one it sent (hw_i2c.c:278-296, 389-392).
Delivered ==
  Returned => /\ call.op \in {"start", "tx"} /\ Acked => slave.last = call.byte
              /\ call.op = "rx" => slave.last = data

\* Only START and STOP conditions between whole frames, and stable data.
Protocol == INSTANCE I2cProtocol WITH sda <- Sda, scl <- Scl
FollowsProtocol == Protocol!Spec

\* Every call returns with interrupts unmasked, as long as the slave lets SCL go
\* in the end: masking nests (write_byte and read_bit unmask inside tx and rx,
\* and start relies on read_bit), and a loop waits for SCL without a limit.
CallsReturn == (prog # <<>>) ~> (prog = <<>> /\ ie)

\* hw_i2c.h:86, "Put a Stop Condition on the bus."
StopIsOnTheBus == (Returned /\ call.op = "stop") => ~busy

\* hw_i2c.h:54, "Clear the I2C bus.": also after a read was broken off, or the
\* processor was reset amid a transaction that the slave is still in.  The
\* exception is a read broken off with a START ("[0xA7 r [0xA6 5"): if the slave
\* sends a 0 there is no START condition, it goes on sending under whatever the
\* driver does, and may still be at it when the bus has been cleared.
ClearFreesTheBus ==
  (Returned /\ call.op \in {"clear", "open"}) =>
    astray \/ (Sda /\ Scl /\ slave.role = "off")

=============================================================================
