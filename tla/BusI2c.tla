------------------------------- MODULE BusI2c -------------------------------
(***************************************************************************)
(* The I2C bus mode, src/src/bus_i2c.c: the state machine between the      *)
(* console's tokens ('[', a number, 'r', 's', ']') and the I2C driver.     *)
(*                                                                         *)
(* The byte that ends a read must be NACKed and all others ACKed, so the   *)
(* code stays one operation behind the user: a token is stored when it is  *)
(* typed and performed when the next token, or ']', says whether it was    *)
(* the last one.  Every call of src/src/hw_i2c.c is one event here; the    *)
(* module HwI2c opens the calls up into the steps on the two wires.        *)
(***************************************************************************)
EXTENDS Integers, Sequences

CONSTANTS Bytes,      \* the bytes the user may type
          MaxTokens   \* bound: tokens typed since the last address

ASSUME BytesAssumption == Bytes \subseteq 0..255
ASSUME MaxTokensAssumption == MaxTokens \in Nat

VARIABLES state,      \* bus_i2c.c:22
          pending,    \* bus_i2c.c:23, pending_data
          hold,       \* hw_i2c.c:100, hold_bus: a START is not yet stopped
          selected,   \* current_bus = &bus_i2c
          typed,      \* history: tokens since the last address (included)
          wire        \* history: what the driver did since then

vars == <<state, pending, hold, selected, typed, wire>>

States == {"INIT", "ADDR_PENDING", "START_PENDING",
           "WRITE_DATA_PENDING", "READ_DATA_PENDING", "ERROR"}

\* The states in which a stored operation has yet to reach the bus.
Delaying == {"START_PENDING", "WRITE_DATA_PENDING", "READ_DATA_PENDING"}

Byte == 0..255
Token == [kind : {"write", "read", "scan"}, byte : Byte]
Event == [op : {"START", "TX", "RX", "STOP", "CLEAR", "SCAN"},
          byte : Byte, ack : BOOLEAN]

WriteToken(c) == [kind |-> "write", byte |-> c]
ReadToken == [kind |-> "read", byte |-> 0]
ScanToken == [kind |-> "scan", byte |-> 0]

(***************************************************************************)
(* The driver's calls.  hw_i2c_master_start puts (address & 0xfe) | rd_wr  *)
(* on the bus, and its callers pass rd_wr = address & 1.                   *)
(***************************************************************************)
StartByte(address, rdwr) == 2 * (address \div 2) + rdwr

Start(address, ack) ==
  [op |-> "START", byte |-> StartByte(address, address % 2), ack |-> ack]
Tx(c, ack) == [op |-> "TX", byte |-> c, ack |-> ack]
Rx(ack) == [op |-> "RX", byte |-> 0, ack |-> ack]
Stop == [op |-> "STOP", byte |-> 0, ack |-> TRUE]
Clear == [op |-> "CLEAR", byte |-> 0, ack |-> TRUE]
\* 256 times hw_i2c_master_start and hw_i2c_bus_clear
ScanAll == [op |-> "SCAN", byte |-> 0, ack |-> TRUE]

-----------------------------------------------------------------------------
Init ==
  /\ state = "INIT"
  /\ pending = 0
  /\ hold = FALSE
  /\ selected = FALSE
  /\ typed = <<>>
  /\ wire = <<>>

\* The command "i2c": bus_init closes the current bus (nothing to do for I2C)
\* and opens this one, also when it was the current one already.
Open ==
  /\ selected' = TRUE
  /\ state' = "INIT"
  /\ hold' = FALSE
  /\ typed' = <<>>
  /\ wire' = <<Clear>>
  /\ UNCHANGED pending

\* The command "spi": hw_i2c_shutdown leaves every variable as it is.
Close ==
  /\ selected
  /\ selected' = FALSE
  /\ UNCHANGED <<state, pending, hold, typed, wire>>

\* '[' only forgets the transaction it finds.
BusStart ==
  /\ selected
  /\ state' = "ADDR_PENDING"
  /\ UNCHANGED <<pending, hold, selected, typed, wire>>

\* ']' performs the stored operation, as the last of its transaction.
StopAddress ==
  /\ state = "START_PENDING"
  /\ \E ack \in BOOLEAN : wire' = wire \o <<Start(pending, ack), Stop>>
  /\ hold' = FALSE

StopWrite ==
  /\ state = "WRITE_DATA_PENDING"
  /\ \E ack \in BOOLEAN : wire' = wire \o <<Tx(pending, ack), Stop>>
  /\ hold' = FALSE

StopReadAcked ==
  /\ state = "READ_DATA_PENDING"
  /\ wire' = wire \o <<Rx(TRUE), Stop>>
  /\ hold' = FALSE

StopRead ==
  /\ state = "READ_DATA_PENDING"
  /\ wire' = wire \o <<Rx(FALSE), Stop>>
  /\ hold' = FALSE

StopNothing ==
  /\ state \notin Delaying
  /\ UNCHANGED <<wire, hold>>

BusStop ==
  /\ selected
  /\ StopAddress \/ StopWrite \/ StopRead \/ StopNothing
  /\ state' = "INIT"
  /\ UNCHANGED <<pending, selected, typed>>

-----------------------------------------------------------------------------
\* The driver refused the stored operation: free the bus, ignore the rest.
GiveUp(event) ==
  /\ wire' = wire \o <<event, Clear>>
  /\ hold' = FALSE
  /\ state' = "ERROR"

Misplaced ==
  /\ wire' = Append(wire, Clear)
  /\ hold' = FALSE
  /\ state' = "ERROR"
  /\ UNCHANGED pending

HasRoom == Len(typed) < MaxTokens

\* The address is stored; the history starts anew with it.
StoreAddress(c) ==
  /\ state = "ADDR_PENDING"
  /\ pending' = c
  /\ state' = "START_PENDING"
  /\ typed' = <<WriteToken(c)>>
  /\ wire' = <<>>
  /\ UNCHANGED hold

WriteFirstForgetsByte(c) ==
  /\ state = "START_PENDING"
  /\ UNCHANGED pending
  /\ \/ GiveUp(Start(pending, FALSE))
     \/ /\ wire' = Append(wire, Start(pending, TRUE))
        /\ hold' = TRUE
        /\ state' = "WRITE_DATA_PENDING"

WriteFirstIgnoresNack(c) ==
  /\ state = "START_PENDING"
  /\ \/ wire' = wire \o <<Start(pending, FALSE), Clear>> /\ hold' = FALSE
     \/ wire' = Append(wire, Start(pending, TRUE)) /\ hold' = TRUE
  /\ pending' = c
  /\ state' = "WRITE_DATA_PENDING"

WriteFirst(c) ==
  /\ state = "START_PENDING"
  /\ \/ /\ GiveUp(Start(pending, FALSE))
        /\ UNCHANGED pending
     \/ /\ wire' = Append(wire, Start(pending, TRUE))
        /\ hold' = TRUE
        /\ pending' = c
        /\ state' = "WRITE_DATA_PENDING"

WriteNextNoClear(c) ==
  /\ state = "WRITE_DATA_PENDING"
  /\ \/ /\ wire' = Append(wire, Tx(pending, FALSE))
        /\ state' = "ERROR"
        /\ UNCHANGED <<pending, hold>>
     \/ /\ wire' = Append(wire, Tx(pending, TRUE))
        /\ pending' = c
        /\ UNCHANGED <<hold, state>>

WriteNext(c) ==
  /\ state = "WRITE_DATA_PENDING"
  /\ \/ /\ GiveUp(Tx(pending, FALSE))
        /\ UNCHANGED pending
     \/ /\ wire' = Append(wire, Tx(pending, TRUE))
        /\ pending' = c
        /\ UNCHANGED <<hold, state>>

WriteMisplaced ==
  /\ state \in {"INIT", "READ_DATA_PENDING", "ERROR"}
  /\ Misplaced

\* A number.
BusWrite(c) ==
  /\ selected
  /\ \/ StoreAddress(c)
     \/ /\ HasRoom
        /\ WriteFirst(c) \/ WriteNext(c) \/ WriteMisplaced
        /\ typed' = Append(typed, WriteToken(c))
  /\ UNCHANGED selected

-----------------------------------------------------------------------------
ReadFirst ==
  /\ state = "START_PENDING"
  /\ \/ GiveUp(Start(pending, FALSE))
     \/ /\ wire' = Append(wire, Start(pending, TRUE))
        /\ hold' = TRUE
        /\ state' = "READ_DATA_PENDING"
  /\ UNCHANGED pending

\* hw_i2c_master_rx never fails, so its error branch is dead code.
ReadNext ==
  /\ state = "READ_DATA_PENDING"
  /\ wire' = Append(wire, Rx(TRUE))
  /\ UNCHANGED <<pending, hold, state>>

ReadMisplaced ==
  /\ state \in {"INIT", "ADDR_PENDING", "WRITE_DATA_PENDING", "ERROR"}
  /\ Misplaced

\* 'r'
BusRead ==
  /\ selected
  /\ HasRoom
  /\ ReadFirst \/ ReadNext \/ ReadMisplaced
  /\ typed' = Append(typed, ReadToken)
  /\ UNCHANGED selected

\* 's', the address scanner: the driver's calls, whatever the state, which stays.
BusScan ==
  /\ selected
  /\ HasRoom
  /\ wire' = Append(wire, ScanAll)
  /\ hold' = FALSE
  /\ typed' = Append(typed, ScanToken)
  /\ UNCHANGED <<state, pending, selected>>

Next ==
  \/ Open
  \/ Close
  \/ BusStart
  \/ BusStop
  \/ \E c \in Bytes : BusWrite(c)
  \/ BusRead
  \/ BusScan

Spec == Init /\ [][Next]_vars

-----------------------------------------------------------------------------
TypeOK ==
  /\ state \in States
  /\ pending \in Byte
  /\ hold \in BOOLEAN
  /\ selected \in BOOLEAN
  /\ typed \in Seq(Token)
  /\ wire \in Seq(Event)

\* No scan since the address was typed.
Unscanned == \A i \in 1..Len(typed) : typed[i].kind # "scan"

\* The event by which the driver performs the token at position i of the
\* transaction, when the slave accepts it and it is not the last one.
Performed(token, i) ==
  IF i = 1 THEN Start(token.byte, TRUE)
  ELSE IF token.kind = "read" THEN Rx(TRUE) ELSE Tx(token.byte, TRUE)

\* A data byte is only sent or asked for while the bus is held: the slave was
\* addressed and acknowledged, and nothing has stopped the transaction since.
\* (bus_i2c.c:105-145 and 158-186.)  A scan inside the brackets breaks this.
SlaveListening ==
  (Unscanned /\ state \in {"WRITE_DATA_PENDING", "READ_DATA_PENDING"}) => hold

\* However a transaction fails (address or data refused, a misplaced token),
\* the bus was released before the error state was entered, and while it
\* lasts nobody takes the bus again (bus_i2c.c:112-117, 138-143, 147-150).
ErrorReleasesBus == state = "ERROR" => ~hold

\* The code is exactly one operation behind the user: every token but the last
\* one typed is on the wire, in its order and with its value, and the last one
\* is what is stored (the comment at bus_i2c.c:8-10).
OneBehind ==
  (Unscanned /\ state \in Delaying) =>
    /\ Len(wire) = Len(typed) - 1
    /\ \A i \in 1..Len(wire) : wire[i] = Performed(typed[i], i)
    /\ state = "START_PENDING" => Len(typed) = 1
    /\ state # "START_PENDING" => Len(typed) > 1
    /\ state # "READ_DATA_PENDING" => typed[Len(typed)] = WriteToken(pending)
    /\ state = "READ_DATA_PENDING" => typed[Len(typed)] = ReadToken

\* ']' completes the transaction: all its tokens are on the wire in order, the
\* last of them (whose acknowledgement nobody waits for) followed by STOP, and
\* if it is a read it is the one that was not ACKed (bus_i2c.c:46-94).
Completed(tokens, events) ==
  LET n == Len(tokens)
      last == Performed(tokens[n], n)
  IN /\ Len(events) = n + 1
     /\ \A i \in 1..(n - 1) : events[i] = Performed(tokens[i], i)
     /\ events[n].op = last.op /\ events[n].byte = last.byte
     /\ last.op = "RX" => ~events[n].ack
     /\ events[n + 1] = Stop

CompletesInOrder ==
  [][ (state \in Delaying /\ Unscanned /\ state' = "INIT" /\ typed' = typed)
        => Completed(typed, wire') ]_vars

\* In whatever mixture of tokens, errors and scans: a read is left without an
\* ACK exactly if the STOP follows it (bus_i2c.c:9, "the last rx").
LastReadNacked ==
  \A i \in 1..Len(wire) :
    wire[i].op = "RX" =>
      (~wire[i].ack <=> (i < Len(wire) /\ wire[i + 1].op = "STOP"))

-----------------------------------------------------------------------------
(* What the comments of bus_i2c.c say and the code does not do.            *)

\* bus_i2c.c:9: "we delay each transaction by storing the state and data".  A
\* stored operation is performed before its state is left for a new
\* transaction; a '[' inside a transaction drops it instead.
DelayedIsPerformed ==
  [][ (state \in Delaying /\ state' = "ADDR_PENDING") => wire' # wire ]_vars

=============================================================================
