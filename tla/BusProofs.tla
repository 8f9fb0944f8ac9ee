------------------------------ MODULE BusProofs -------------------------------
(***************************************************************************)
(* Proofs about the bus modes.  First the theorems of BusI2c for every set  *)
(* of bytes and any number of tokens.  Then BusPins, for both kinds of      *)
(* board: it implements BusI2c, the wires follow the bus, and the chip      *)
(* select follows the brackets.                                             *)
(***************************************************************************)
EXTENDS BusPins, SequenceTheorems, TLAPS

USE BytesAssumption, MaxTokensAssumption

\* The START byte built from an address byte and its own low bit is that byte.
LEMMA StartByteIsAddress ==
  ASSUME NEW a \in Byte
  PROVE  StartByte(a, a % 2) = a
BY DEF Byte, StartByte

\* Every call of the driver is recorded as an event.
LEMMA EventsTyped ==
  ASSUME NEW c \in Byte, NEW ack \in BOOLEAN
  PROVE  /\ Start(c, ack) \in Event
         /\ Tx(c, ack) \in Event
         /\ Rx(ack) \in Event
         /\ Stop \in Event /\ Clear \in Event /\ ScanAll \in Event
<1>1. Start(c, ack) = [op |-> "START", byte |-> c, ack |-> ack]
  BY StartByteIsAddress DEF Start
<1>2. QED BY <1>1 DEF Tx, Rx, Stop, Clear, ScanAll, Event, Byte

\* Every token the user types is one of the three kinds.
LEMMA TokensTyped ==
  ASSUME NEW c \in Byte
  PROVE  WriteToken(c) \in Token /\ ReadToken \in Token /\ ScanToken \in Token
BY DEF WriteToken, ReadToken, ScanToken, Token, Byte

\* What one more element at the end of a sequence changes.
LEMMA AppendOne ==
  ASSUME NEW S, NEW s \in Seq(S), NEW a \in S
  PROVE  /\ Append(s, a) \in Seq(S)
         /\ Len(Append(s, a)) = Len(s) + 1
         /\ \A i \in 1..Len(s) : Append(s, a)[i] = s[i]
         /\ Append(s, a)[Len(s) + 1] = a
BY AppendProperties

\* What two more elements at the end of a sequence change.
LEMMA AppendTwo ==
  ASSUME NEW S, NEW s \in Seq(S), NEW a \in S, NEW b \in S
  PROVE  /\ s \o <<a, b>> \in Seq(S)
         /\ Len(s \o <<a, b>>) = Len(s) + 2
         /\ \A i \in 1..Len(s) : (s \o <<a, b>>)[i] = s[i]
         /\ (s \o <<a, b>>)[Len(s) + 1] = a
         /\ (s \o <<a, b>>)[Len(s) + 2] = b
<1>1. /\ <<a, b>> \in Seq(S)
      /\ Len(<<a, b>>) = 2
      /\ <<a, b>>[1] = a /\ <<a, b>>[2] = b
  OBVIOUS
<1>2. Len(s) \in Nat
  BY LenProperties
<1>3. QED BY <1>1, <1>2, ConcatProperties

-----------------------------------------------------------------------------
\* The type invariant of the state machine and of its history
\* (bus_i2c.c:12-23): in particular the START byte stays a byte.
THEOREM TypeCorrect == Spec => []TypeOK
<1>1. Init => TypeOK
  <2>1. <<>> \in Seq(Token) /\ <<>> \in Seq(Event)
    BY EmptySeq
  <2>2. 0 \in Byte /\ "INIT" \in States
    BY DEF Byte, States
  <2>3. QED BY <2>1, <2>2 DEF Init, TypeOK
<1>2. TypeOK /\ [Next]_vars => TypeOK'
  <2> SUFFICES ASSUME TypeOK, [Next]_vars PROVE TypeOK'
    OBVIOUS
  <2> USE DEF TypeOK, States
  <2>1. /\ 0 \in Byte
        /\ Stop \in Event /\ Clear \in Event /\ ScanAll \in Event
        /\ \A ack \in BOOLEAN : /\ Start(pending, ack) \in Event
                                /\ Tx(pending, ack) \in Event
                                /\ Rx(ack) \in Event
    <3>1. 0 \in Byte /\ pending \in Byte /\ TRUE \in BOOLEAN
      BY DEF Byte
    <3>2. ASSUME NEW ack \in BOOLEAN
          PROVE  /\ Start(pending, ack) \in Event
                 /\ Tx(pending, ack) \in Event
                 /\ Rx(ack) \in Event
      BY <3>1, EventsTyped
    <3>3. Stop \in Event /\ Clear \in Event /\ ScanAll \in Event
      BY <3>1, EventsTyped
    <3>4. QED BY <3>1, <3>2, <3>3
  <2>2. /\ <<>> \in Seq(Token)
        /\ <<>> \in Seq(Event)
        /\ \A t \in Token : <<t>> \in Seq(Token) /\ Append(typed, t) \in Seq(Token)
        /\ \A e \in Event : <<e>> \in Seq(Event) /\ Append(wire, e) \in Seq(Event)
        /\ \A d, e \in Event : wire \o <<d, e>> \in Seq(Event)
    <3>1. <<>> \in Seq(Token) /\ <<>> \in Seq(Event)
      BY EmptySeq
    <3>2. \A t \in Token : <<t>> \in Seq(Token) /\ Append(typed, t) \in Seq(Token)
      OBVIOUS
    <3>3. \A e \in Event : <<e>> \in Seq(Event) /\ Append(wire, e) \in Seq(Event)
      OBVIOUS
    <3>4. \A d, e \in Event : wire \o <<d, e>> \in Seq(Event)
      BY AppendTwo
    <3>5. QED BY <3>1, <3>2, <3>3, <3>4
  <2>3. CASE Open
    BY <2>1, <2>2, <2>3 DEF Open
  <2>4. CASE Close
    BY <2>4 DEF Close
  <2>5. CASE BusStart
    BY <2>5 DEF BusStart
  <2>6. CASE BusStop
    BY <2>1, <2>2, <2>6 DEF BusStop, StopAddress, StopWrite, StopRead, StopNothing
  <2>7. ASSUME NEW c \in Bytes, BusWrite(c) PROVE TypeOK'
    <3>1. c \in Byte /\ WriteToken(c) \in Token
      BY TokensTyped DEF Byte
    <3>2. QED
      BY <2>1, <2>2, <2>7, <3>1 DEF BusWrite, StoreAddress, WriteFirst,
         WriteNext, WriteMisplaced, GiveUp, Misplaced
  <2>8. CASE BusRead
    BY <2>1, <2>2, <2>8, TokensTyped
       DEF BusRead, ReadFirst, ReadNext, ReadMisplaced, GiveUp, Misplaced
  <2>9. CASE BusScan
    BY <2>1, <2>2, <2>9, TokensTyped DEF BusScan
  <2>10. CASE UNCHANGED vars
    BY <2>10 DEF vars
  <2>11. QED
    BY <2>3, <2>4, <2>5, <2>6, <2>7, <2>8, <2>9, <2>10 DEF Next
<1>3. QED BY <1>1, <1>2, PTL DEF Spec

-----------------------------------------------------------------------------
\* A token adds to the history of an unscanned transaction unless it is a scan.
LEMMA UnscannedAppend ==
  ASSUME TypeOK, NEW t \in Token, typed' = Append(typed, t)
  PROVE  Unscanned' <=> (Unscanned /\ t.kind # "scan")
<1>1. Len(typed) \in Nat /\ Len(typed') = Len(typed) + 1
  BY DEF TypeOK
<1>2. \A i \in 1..Len(typed) : typed'[i] = typed[i]
  BY AppendOne DEF TypeOK
<1>3. typed'[Len(typed) + 1] = t
  BY AppendOne DEF TypeOK
<1>4. QED BY <1>1, <1>2, <1>3 DEF Unscanned

\* What the tokens and events are.
LEMMA Kinds ==
  ASSUME NEW c, NEW ack
  PROVE  /\ WriteToken(c).kind = "write" /\ ReadToken.kind = "read"
         /\ ScanToken.kind = "scan"
         /\ Start(c, ack).op = "START" /\ Tx(c, ack).op = "TX"
         /\ Rx(ack).op = "RX" /\ Rx(ack).ack = ack
         /\ Stop.op = "STOP" /\ Clear.op = "CLEAR" /\ ScanAll.op = "SCAN"
BY DEF WriteToken, ReadToken, ScanToken, Start, Tx, Rx, Stop, Clear, ScanAll

LEMMA ListeningStep ==
  TypeOK /\ SlaveListening /\ [Next]_vars => SlaveListening'
<1> SUFFICES ASSUME TypeOK, SlaveListening, [Next]_vars PROVE SlaveListening'
  OBVIOUS
<1> USE DEF SlaveListening
<1>1. CASE Open
  BY <1>1 DEF Open
<1>2. CASE Close
  BY <1>2 DEF Close, Unscanned
<1>3. CASE BusStart
  BY <1>3 DEF BusStart
<1>4. CASE BusStop
  BY <1>4 DEF BusStop
<1>5. ASSUME NEW c \in Bytes, BusWrite(c) PROVE SlaveListening'
  <2>1. WriteToken(c) \in Token
    BY TokensTyped DEF Byte
  <2>2. CASE StoreAddress(c)
    BY <2>2 DEF StoreAddress
  <2>3. CASE /\ WriteFirst(c) \/ WriteNext(c) \/ WriteMisplaced
             /\ typed' = Append(typed, WriteToken(c))
    <3>1. Unscanned' => Unscanned
      BY <2>1, <2>3, UnscannedAppend
    <3>2. CASE WriteFirst(c)
      BY <3>2 DEF WriteFirst, GiveUp
    <3>3. CASE WriteNext(c)
      BY <3>1, <3>3 DEF WriteNext, GiveUp
    <3>4. CASE WriteMisplaced
      BY <3>4 DEF WriteMisplaced, Misplaced
    <3>5. QED BY <2>3, <3>2, <3>3, <3>4
  <2>4. QED BY <1>5, <2>2, <2>3 DEF BusWrite
<1>6. CASE BusRead
  <2>1. ReadToken \in Token
    BY TokensTyped DEF TypeOK
  <2>2. Unscanned' => Unscanned
    BY <1>6, <2>1, UnscannedAppend DEF BusRead
  <2>3. CASE ReadFirst
    BY <2>3 DEF ReadFirst, GiveUp
  <2>4. CASE ReadNext
    BY <2>2, <2>4 DEF ReadNext
  <2>5. CASE ReadMisplaced
    BY <2>5 DEF ReadMisplaced, Misplaced
  <2>6. QED BY <1>6, <2>3, <2>4, <2>5 DEF BusRead
<1>7. CASE BusScan
  <2>1. ScanToken \in Token /\ ScanToken.kind = "scan"
    BY TokensTyped, Kinds DEF TypeOK
  <2>2. ~Unscanned'
    BY <1>7, <2>1, UnscannedAppend DEF BusScan
  <2>3. QED BY <2>2
<1>8. CASE UNCHANGED vars
  BY <1>8 DEF vars, Unscanned
<1>9. QED BY <1>1, <1>2, <1>3, <1>4, <1>5, <1>6, <1>7, <1>8 DEF Next

LEMMA ErrorStep ==
  TypeOK /\ ErrorReleasesBus /\ [Next]_vars => ErrorReleasesBus'
<1> SUFFICES ASSUME TypeOK, ErrorReleasesBus, [Next]_vars PROVE ErrorReleasesBus'
  OBVIOUS
<1> USE DEF ErrorReleasesBus
<1>1. CASE Open
  BY <1>1 DEF Open
<1>2. CASE Close
  BY <1>2 DEF Close
<1>3. CASE BusStart
  BY <1>3 DEF BusStart
<1>4. CASE BusStop
  BY <1>4 DEF BusStop
<1>5. ASSUME NEW c \in Bytes, BusWrite(c) PROVE ErrorReleasesBus'
  BY <1>5 DEF BusWrite, StoreAddress, WriteFirst, WriteNext, WriteMisplaced,
              GiveUp, Misplaced
<1>6. CASE BusRead
  BY <1>6 DEF BusRead, ReadFirst, ReadNext, ReadMisplaced, GiveUp, Misplaced
<1>7. CASE BusScan
  BY <1>7 DEF BusScan
<1>8. CASE UNCHANGED vars
  BY <1>8 DEF vars
<1>9. QED BY <1>1, <1>2, <1>3, <1>4, <1>5, <1>6, <1>7, <1>8 DEF Next

\* The history of a pending transaction after one more accepted operation.
LEMMA OneMoreBehind ==
  ASSUME TypeOK, OneBehind, Unscanned, state \in Delaying,
         NEW t \in Token, typed' = Append(typed, t),
         NEW e \in Event, wire' = Append(wire, e),
         e = Performed(typed[Len(typed)], Len(typed))
  PROVE  /\ Len(wire') = Len(typed') - 1
         /\ \A i \in 1..Len(wire') : wire'[i] = Performed(typed'[i], i)
         /\ Len(typed') > 1
         /\ typed'[Len(typed')] = t
<1>1. /\ Len(typed) \in Nat /\ Len(wire) = Len(typed) - 1 /\ Len(typed) >= 1
      /\ \A i \in 1..Len(wire) : wire[i] = Performed(typed[i], i)
  BY DEF TypeOK, OneBehind
<1>2. /\ Len(typed') = Len(typed) + 1
      /\ \A i \in 1..Len(typed) : typed'[i] = typed[i]
      /\ typed'[Len(typed) + 1] = t
  BY AppendOne DEF TypeOK
<1>3. /\ Len(wire') = Len(wire) + 1
      /\ \A i \in 1..Len(wire) : wire'[i] = wire[i]
      /\ wire'[Len(wire) + 1] = e
  BY AppendOne DEF TypeOK
<1>4. ASSUME NEW i \in 1..Len(wire') PROVE wire'[i] = Performed(typed'[i], i)
  <2>1. CASE i \in 1..Len(wire)
    BY <1>1, <1>2, <1>3, <2>1
  <2>2. CASE i = Len(wire) + 1
    BY <1>1, <1>2, <1>3, <2>2
  <2>3. QED BY <1>1, <1>3, <2>1, <2>2
<1>5. QED BY <1>1, <1>2, <1>3, <1>4

LEMMA OneBehindStep ==
  TypeOK /\ OneBehind /\ [Next]_vars => OneBehind'
<1> SUFFICES ASSUME TypeOK, OneBehind, [Next]_vars, Unscanned', (state \in Delaying)'
             PROVE  OneBehind'
  BY DEF OneBehind
<1>1. CASE Open
  BY <1>1 DEF Open, Delaying
<1>2. CASE Close
  BY <1>2 DEF Close, Unscanned, OneBehind
<1>3. CASE BusStart
  BY <1>3 DEF BusStart, Delaying
<1>4. CASE BusStop
  BY <1>4 DEF BusStop, Delaying
<1>5. ASSUME NEW c \in Bytes, BusWrite(c) PROVE OneBehind'
  <2>1. WriteToken(c) \in Token /\ pending \in Byte /\ c \in Byte
    BY TokensTyped DEF Byte, TypeOK
  <2>2. CASE StoreAddress(c)
    <3>1. /\ typed' = <<WriteToken(c)>> /\ wire' = <<>>
          /\ pending' = c /\ state' = "START_PENDING"
      BY <2>2 DEF StoreAddress
    <3>2. /\ Len(typed') = 1 /\ Len(wire') = 0
          /\ typed'[Len(typed')] = WriteToken(c)
      BY <3>1
    <3>3. QED BY <3>1, <3>2 DEF OneBehind
  <2>3. CASE /\ WriteFirst(c) \/ WriteNext(c) \/ WriteMisplaced
             /\ typed' = Append(typed, WriteToken(c))
    <3>1. Unscanned
      BY <2>1, <2>3, UnscannedAppend
    <3>2. CASE WriteFirst(c)
      <4>1. /\ state = "START_PENDING" /\ state' = "WRITE_DATA_PENDING"
            /\ wire' = Append(wire, Start(pending, TRUE)) /\ pending' = c
        BY <3>2 DEF WriteFirst, GiveUp, Delaying
      <4>2. Len(typed) = 1 /\ typed[Len(typed)] = WriteToken(pending)
        BY <3>1, <4>1 DEF OneBehind, Delaying
      <4>3. Start(pending, TRUE) = Performed(typed[Len(typed)], Len(typed))
        BY <4>2 DEF Performed, WriteToken
      <4>4. Start(pending, TRUE) \in Event /\ state \in Delaying
        BY <2>1, <4>1, EventsTyped DEF Delaying
      <4>5. /\ Len(wire') = Len(typed') - 1
            /\ \A i \in 1..Len(wire') : wire'[i] = Performed(typed'[i], i)
            /\ Len(typed') > 1
            /\ typed'[Len(typed')] = WriteToken(c)
        BY <2>1, <2>3, <3>1, <4>1, <4>3, <4>4, OneMoreBehind
      <4>6. QED BY <4>1, <4>5 DEF OneBehind
    <3>3. CASE WriteNext(c)
      <4>1. /\ state = "WRITE_DATA_PENDING" /\ state' = "WRITE_DATA_PENDING"
            /\ wire' = Append(wire, Tx(pending, TRUE)) /\ pending' = c
        BY <3>3 DEF WriteNext, GiveUp, Delaying
      <4>2. Len(typed) > 1 /\ typed[Len(typed)] = WriteToken(pending)
        BY <3>1, <4>1 DEF OneBehind, Delaying
      <4>3. Tx(pending, TRUE) = Performed(typed[Len(typed)], Len(typed))
        <5>1. Len(typed) # 1
          BY <4>2 DEF TypeOK
        <5>2. QED BY <4>2, <5>1 DEF Performed, WriteToken
      <4>4. Tx(pending, TRUE) \in Event /\ state \in Delaying
        BY <2>1, <4>1, EventsTyped DEF Delaying
      <4>5. /\ Len(wire') = Len(typed') - 1
            /\ \A i \in 1..Len(wire') : wire'[i] = Performed(typed'[i], i)
            /\ Len(typed') > 1
            /\ typed'[Len(typed')] = WriteToken(c)
        BY <2>1, <2>3, <3>1, <4>1, <4>3, <4>4, OneMoreBehind
      <4>6. QED BY <4>1, <4>5 DEF OneBehind
    <3>4. CASE WriteMisplaced
      BY <3>4 DEF WriteMisplaced, Misplaced, Delaying
    <3>5. QED BY <2>3, <3>2, <3>3, <3>4
  <2>4. QED BY <1>5, <2>2, <2>3 DEF BusWrite
<1>6. CASE BusRead
  <2>1. ReadToken \in Token /\ pending \in Byte
    BY TokensTyped DEF TypeOK
  <2>2. Unscanned /\ typed' = Append(typed, ReadToken)
    BY <1>6, <2>1, UnscannedAppend DEF BusRead
  <2>3. CASE ReadFirst
    <3>1. /\ state = "START_PENDING" /\ state' = "READ_DATA_PENDING"
          /\ wire' = Append(wire, Start(pending, TRUE))
      BY <2>3 DEF ReadFirst, GiveUp, Delaying
    <3>2. Len(typed) = 1 /\ typed[Len(typed)] = WriteToken(pending)
      BY <2>2, <3>1 DEF OneBehind, Delaying
    <3>3. Start(pending, TRUE) = Performed(typed[Len(typed)], Len(typed))
      BY <3>2 DEF Performed, WriteToken
    <3>4. Start(pending, TRUE) \in Event /\ state \in Delaying
      BY <2>1, <3>1, EventsTyped DEF Delaying
    <3>5. /\ Len(wire') = Len(typed') - 1
          /\ \A i \in 1..Len(wire') : wire'[i] = Performed(typed'[i], i)
          /\ Len(typed') > 1
          /\ typed'[Len(typed')] = ReadToken
      BY <2>1, <2>2, <3>1, <3>3, <3>4, OneMoreBehind
    <3>6. QED BY <3>1, <3>5 DEF OneBehind
  <2>4. CASE ReadNext
    <3>1. /\ state = "READ_DATA_PENDING" /\ state' = "READ_DATA_PENDING"
          /\ wire' = Append(wire, Rx(TRUE))
      BY <2>4 DEF ReadNext
    <3>2. Len(typed) > 1 /\ typed[Len(typed)] = ReadToken
      BY <2>2, <3>1 DEF OneBehind, Delaying
    <3>3. Rx(TRUE) = Performed(typed[Len(typed)], Len(typed))
      <4>1. Len(typed) # 1
        BY <3>2 DEF TypeOK
      <4>2. QED BY <3>2, <4>1 DEF Performed, ReadToken
    <3>4. Rx(TRUE) \in Event /\ state \in Delaying
      BY <2>1, <3>1, EventsTyped DEF Delaying
    <3>5. /\ Len(wire') = Len(typed') - 1
          /\ \A i \in 1..Len(wire') : wire'[i] = Performed(typed'[i], i)
          /\ Len(typed') > 1
          /\ typed'[Len(typed')] = ReadToken
      BY <2>1, <2>2, <3>1, <3>3, <3>4, OneMoreBehind
    <3>6. QED BY <3>1, <3>5 DEF OneBehind
  <2>5. CASE ReadMisplaced
    BY <2>5 DEF ReadMisplaced, Misplaced, Delaying
  <2>6. QED BY <1>6, <2>3, <2>4, <2>5 DEF BusRead
<1>7. CASE BusScan
  <2>1. ScanToken \in Token /\ ScanToken.kind = "scan"
    BY TokensTyped, Kinds DEF TypeOK
  <2>2. QED BY <1>7, <2>1, UnscannedAppend DEF BusScan
<1>8. CASE UNCHANGED vars
  BY <1>8 DEF vars, Unscanned, OneBehind
<1>9. QED BY <1>1, <1>2, <1>3, <1>4, <1>5, <1>6, <1>7, <1>8 DEF Next

-----------------------------------------------------------------------------
\* One more event that is not a NACKed read keeps the order of the last read.
LEMMA LastReadAppend ==
  ASSUME TypeOK, LastReadNacked, NEW e \in Event,
         wire' = Append(wire, e), e.op # "STOP", e.op = "RX" => e.ack
  PROVE  LastReadNacked'
<1>1. /\ Len(wire) \in Nat /\ Len(wire') = Len(wire) + 1
      /\ \A i \in 1..Len(wire) : wire'[i] = wire[i]
      /\ wire'[Len(wire) + 1] = e
  BY AppendOne DEF TypeOK
<1>2. QED BY <1>1 DEF LastReadNacked

\* An operation and what follows it: STOP exactly after a NACKed read.
LEMMA LastReadAppendTwo ==
  ASSUME TypeOK, LastReadNacked, NEW d \in Event, NEW e \in Event,
         wire' = wire \o <<d, e>>, d.op # "STOP", e.op # "RX",
         d.op = "RX" => (~d.ack <=> e.op = "STOP")
  PROVE  LastReadNacked'
<1>1. /\ Len(wire) \in Nat /\ Len(wire') = Len(wire) + 2
      /\ \A i \in 1..Len(wire) : wire'[i] = wire[i]
      /\ wire'[Len(wire) + 1] = d
      /\ wire'[Len(wire) + 2] = e
  BY AppendTwo DEF TypeOK
<1>2. QED BY <1>1 DEF LastReadNacked

LEMMA LastReadStep ==
  TypeOK /\ LastReadNacked /\ [Next]_vars => LastReadNacked'
<1> SUFFICES ASSUME TypeOK, LastReadNacked, [Next]_vars PROVE LastReadNacked'
  OBVIOUS
<1>a. /\ Stop \in Event /\ Clear \in Event /\ ScanAll \in Event
      /\ Rx(TRUE) \in Event /\ Rx(FALSE) \in Event
  BY EventsTyped DEF TypeOK
<1>b. ASSUME NEW ack \in BOOLEAN
      PROVE Start(pending, ack) \in Event /\ Tx(pending, ack) \in Event
  BY EventsTyped DEF TypeOK
<1>c. GiveUp(Start(pending, FALSE)) \/ GiveUp(Tx(pending, FALSE)) => LastReadNacked'
  BY <1>a, <1>b, Kinds, LastReadAppendTwo DEF GiveUp
<1>d. Misplaced => LastReadNacked'
  BY <1>a, Kinds, LastReadAppend DEF Misplaced
<1>1. CASE Open
  <2>1. Len(wire') = 1 /\ wire'[1].op = "CLEAR"
    BY <1>1, Kinds DEF Open
  <2>2. QED BY <2>1 DEF LastReadNacked
<1>2. CASE Close
  BY <1>2 DEF Close, LastReadNacked
<1>3. CASE BusStart
  BY <1>3 DEF BusStart, LastReadNacked
<1>4. CASE BusStop
  <2>1. CASE StopAddress
    <3>1. PICK ack \in BOOLEAN : wire' = wire \o <<Start(pending, ack), Stop>>
      BY <2>1 DEF StopAddress
    <3>2. Start(pending, ack) \in Event /\ Stop \in Event
      BY <1>a, <1>b
    <3>3. QED BY <3>1, <3>2, Kinds, LastReadAppendTwo
  <2>2. CASE StopWrite
    <3>1. PICK ack \in BOOLEAN : wire' = wire \o <<Tx(pending, ack), Stop>>
      BY <2>2 DEF StopWrite
    <3>2. Tx(pending, ack) \in Event /\ Stop \in Event
      BY <1>a, <1>b
    <3>3. QED BY <3>1, <3>2, Kinds, LastReadAppendTwo
  <2>3. CASE StopRead
    BY <1>a, <2>3, Kinds, LastReadAppendTwo DEF StopRead
  <2>4. CASE StopNothing
    BY <2>4 DEF StopNothing, LastReadNacked
  <2>5. QED BY <1>4, <2>1, <2>2, <2>3, <2>4 DEF BusStop
<1>5. ASSUME NEW c \in Bytes, BusWrite(c) PROVE LastReadNacked'
  <2>1. CASE StoreAddress(c)
    <3>1. Len(wire') = 0
      BY <2>1 DEF StoreAddress
    <3>2. QED BY <3>1 DEF LastReadNacked
  <2>2. CASE WriteFirst(c)
    BY <1>b, <1>c, <2>2, Kinds, LastReadAppend DEF WriteFirst
  <2>3. CASE WriteNext(c)
    BY <1>b, <1>c, <2>3, Kinds, LastReadAppend DEF WriteNext
  <2>4. CASE WriteMisplaced
    BY <1>d, <2>4 DEF WriteMisplaced
  <2>5. QED BY <1>5, <2>1, <2>2, <2>3, <2>4 DEF BusWrite
<1>6. CASE BusRead
  <2>1. CASE ReadFirst
    BY <1>b, <1>c, <2>1, Kinds, LastReadAppend DEF ReadFirst
  <2>2. CASE ReadNext
    BY <1>a, <2>2, Kinds, LastReadAppend DEF ReadNext
  <2>3. CASE ReadMisplaced
    BY <1>d, <2>3 DEF ReadMisplaced
  <2>4. QED BY <1>6, <2>1, <2>2, <2>3 DEF BusRead
<1>7. CASE BusScan
  BY <1>a, <1>7, Kinds, LastReadAppend DEF BusScan
<1>8. CASE UNCHANGED vars
  BY <1>8 DEF vars, LastReadNacked
<1>9. QED BY <1>1, <1>2, <1>3, <1>4, <1>5, <1>6, <1>7, <1>8 DEF Next

-----------------------------------------------------------------------------
\* The inductive invariant: each of its parts needs only the types beside it.
BusInvariant ==
  /\ TypeOK
  /\ SlaveListening
  /\ ErrorReleasesBus
  /\ OneBehind
  /\ LastReadNacked

LEMMA BusInvariantHolds == Spec => []BusInvariant
<1>1. Init => SlaveListening /\ ErrorReleasesBus /\ OneBehind /\ LastReadNacked
  <2>1. Init => SlaveListening /\ ErrorReleasesBus
    BY DEF Init, SlaveListening, ErrorReleasesBus
  <2>2. Init => OneBehind
    BY DEF Init, OneBehind, Delaying
  <2>3. Init => LastReadNacked
    <3>1. Init => Len(wire) = 0
      BY DEF Init
    <3>2. QED BY <3>1 DEF LastReadNacked
  <2>4. QED BY <2>1, <2>2, <2>3
<1>2. QED
  BY <1>1, TypeCorrect, ListeningStep, ErrorStep, OneBehindStep, LastReadStep, PTL
     DEF Spec, BusInvariant

\* A data byte is only transferred while the addressed slave is listening.
THEOREM ListeningCorrect == Spec => []SlaveListening
BY BusInvariantHolds, PTL DEF BusInvariant

\* The error state is entered and lived through with the bus released.
THEOREM ErrorCorrect == Spec => []ErrorReleasesBus
BY BusInvariantHolds, PTL DEF BusInvariant

\* The wire is exactly one operation behind the tokens typed.
THEOREM OneBehindCorrect == Spec => []OneBehind
BY BusInvariantHolds, PTL DEF BusInvariant

\* A read is left without an ACK exactly if the STOP follows it.
THEOREM LastReadCorrect == Spec => []LastReadNacked
BY BusInvariantHolds, PTL DEF BusInvariant

\* ']' completes a pending transaction: all its tokens are on the wire in
\* order, the last one followed by STOP and not ACKed if it is a read.
THEOREM CompletionCorrect == Spec => CompletesInOrder
<1>1. BusInvariant /\ [Next]_vars =>
        [(state \in Delaying /\ Unscanned /\ state' = "INIT" /\ typed' = typed)
           => Completed(typed, wire')]_vars
  <2> SUFFICES ASSUME BusInvariant, Next, state \in Delaying, Unscanned,
                      state' = "INIT", typed' = typed
               PROVE  Completed(typed, wire')
    BY DEF BusInvariant
  <2> DEFINE n == Len(typed)
             last == Performed(typed[n], n)
  <2>1. /\ TypeOK /\ OneBehind /\ typed \in Seq(Token) /\ pending \in Byte
    BY DEF BusInvariant, TypeOK
  <2>2. /\ n \in Nat /\ Len(wire) = n - 1 /\ n >= 1
        /\ \A i \in 1..(n - 1) : wire[i] = Performed(typed[i], i)
    BY <2>1 DEF OneBehind, TypeOK
  <2>3. BusStop
    <3>1. ~Open
      BY <2>2 DEF Open
    <3>2. ~Close /\ ~BusStart
      BY DEF Close, BusStart, Delaying
    <3>3. ASSUME NEW c \in Bytes PROVE ~BusWrite(c)
      BY DEF BusWrite, StoreAddress, WriteFirst, WriteNext, WriteMisplaced,
             GiveUp, Misplaced, Delaying
    <3>4. ~BusRead
      BY DEF BusRead, ReadFirst, ReadNext, ReadMisplaced, GiveUp, Misplaced, Delaying
    <3>5. ~BusScan
      BY DEF BusScan, Delaying
    <3>6. QED BY <3>1, <3>2, <3>3, <3>4, <3>5 DEF Next
  <2>4. ASSUME NEW e \in Event, wire' = wire \o <<e, Stop>>,
               e.op = last.op, e.byte = last.byte, last.op = "RX" => ~e.ack
        PROVE  Completed(typed, wire')
    <3>1. Stop \in Event
      BY <2>1, EventsTyped
    <3>2. /\ Len(wire') = n + 1
          /\ \A i \in 1..(n - 1) : wire'[i] = wire[i]
          /\ wire'[n] = e /\ wire'[n + 1] = Stop
      <4>1. /\ Len(wire') = Len(wire) + 2
            /\ \A i \in 1..Len(wire) : wire'[i] = wire[i]
            /\ wire'[Len(wire) + 1] = e /\ wire'[Len(wire) + 2] = Stop
        BY <2>1, <2>4, <3>1, AppendTwo DEF TypeOK
      <4>2. Len(wire) + 1 = n /\ Len(wire) + 2 = n + 1
        BY <2>2
      <4>3. QED BY <2>2, <4>1, <4>2
    <3>3. QED BY <2>2, <2>4, <3>2 DEF Completed
  <2>5. CASE StopAddress
    <3>1. PICK ack \in BOOLEAN : wire' = wire \o <<Start(pending, ack), Stop>>
      BY <2>5 DEF StopAddress
    <3>2. n = 1 /\ typed[n] = WriteToken(pending)
      BY <2>1, <2>5 DEF StopAddress, OneBehind, Delaying
    <3>3. last = Start(pending, TRUE)
      BY <3>2 DEF Performed, WriteToken
    <3>4. /\ Start(pending, ack) \in Event
          /\ Start(pending, ack).op = last.op /\ Start(pending, ack).byte = last.byte
          /\ last.op # "RX"
      BY <2>1, <3>3, EventsTyped DEF Start
    <3>5. QED BY <2>4, <3>1, <3>4
  <2>6. CASE StopWrite
    <3>1. PICK ack \in BOOLEAN : wire' = wire \o <<Tx(pending, ack), Stop>>
      BY <2>6 DEF StopWrite
    <3>2. n # 1 /\ typed[n] = WriteToken(pending)
      BY <2>1, <2>2, <2>6 DEF StopWrite, OneBehind, Delaying
    <3>3. last = Tx(pending, TRUE)
      BY <3>2 DEF Performed, WriteToken
    <3>4. /\ Tx(pending, ack) \in Event
          /\ Tx(pending, ack).op = last.op /\ Tx(pending, ack).byte = last.byte
          /\ last.op # "RX"
      BY <2>1, <3>3, EventsTyped DEF Tx
    <3>5. QED BY <2>4, <3>1, <3>4
  <2>7. CASE StopRead
    <3>1. n # 1 /\ typed[n] = ReadToken
      BY <2>1, <2>2, <2>7 DEF StopRead, OneBehind, Delaying
    <3>2. last = Rx(TRUE)
      BY <3>1 DEF Performed, ReadToken
    <3>3. /\ Rx(FALSE) \in Event /\ wire' = wire \o <<Rx(FALSE), Stop>>
          /\ Rx(FALSE).op = last.op /\ Rx(FALSE).byte = last.byte
          /\ ~Rx(FALSE).ack
      <4>1. Rx(FALSE) \in Event
        BY <2>1, EventsTyped
      <4>2. QED BY <2>7, <3>2, <4>1 DEF StopRead, Rx
    <3>4. QED BY <2>4, <3>3
  <2>8. QED BY <2>3, <2>5, <2>6, <2>7 DEF BusStop, StopNothing
<1>2. QED
  BY <1>1, BusInvariantHolds, PTL DEF Spec, CompletesInOrder

-----------------------------------------------------------------------------
(* On the pins of a board *)

\* A transaction whose address the slave has acknowledged.
Transferring == {"WRITE_DATA_PENDING", "READ_DATA_PENDING"}

PinsTypeOK ==
  /\ shared \in BOOLEAN
  /\ current \in {"none", "i2c", "spi"}
  /\ spe \in BOOLEAN
  /\ ddr \subseteq SpiPins \cup {SclPin, SdaPin}
  /\ cs \in {"low", "high"}
  /\ waiting \in BOOLEAN /\ open \in BOOLEAN /\ scanned \in BOOLEAN
  /\ floating \subseteq SpiPins

\* The mode, the SPI controller and its pins change together (bus_init, bus.c),
\* but for the pins that bitbang made inputs.
ModeTracksPins ==
  /\ selected <=> current = "i2c"
  /\ spe <=> current = "spi"
  /\ current = "spi" => SpiPins \subseteq ddr \cup floating
  /\ waiting => current = "spi"

\* A stored data byte has the bus, or a scan took it away.
TransferringHolds == state \in Transferring => hold \/ scanned

PinsInvariant ==
  /\ PinsTypeOK
  /\ ModeTracksPins
  /\ TransferringHolds
  /\ WireTracksHold
  /\ SelectedWhileOpen

-----------------------------------------------------------------------------
\* Every step of the two modes is a step of the I2C mode or leaves it alone.
LEMMA PinsStepIsBusStep == [PinsNext]_allVars => [Next]_vars
<1> SUFFICES ASSUME [PinsNext]_allVars PROVE [Next]_vars
  OBVIOUS
<1>1. CASE OpenSpi
  BY <1>1 DEF OpenSpi, Next
<1>2. CASE OpenI2c
  BY <1>2 DEF OpenI2c, Next
<1>3. CASE I2cToken
  BY <1>3 DEF I2cToken, Next
<1>4. CASE SpiWrite \/ SpiByteDone \/ SpiStart \/ SpiStop
  BY <1>4 DEF SpiWrite, SpiByteDone, SpiStart, SpiStop
<1>5. CASE Bitbang
  BY <1>5 DEF Bitbang
<1>6. CASE UNCHANGED allVars
  BY <1>6 DEF allVars
<1>7. QED BY <1>1, <1>2, <1>3, <1>4, <1>5, <1>6 DEF PinsNext

\* The bus modes implement the I2C mode: bus_init closes and opens it only in
\* the ways BusI2c has (bus.c, bus_spi.c, bus_i2c.c:32-44).
THEOREM PinsImplementBus == PinsSpec => Spec
BY PinsStepIsBusStep, PTL DEF PinsSpec, PinsInit, Spec

\* The same three invariants, wherever the SPI mode comes in between.
THEOREM PinsListeningCorrect ==
  PinsSpec => [](SlaveListening /\ ErrorReleasesBus /\ OneBehind)
BY PinsImplementBus, ListeningCorrect, ErrorCorrect, OneBehindCorrect, PTL

\* And ']' completes its transaction there, with all its tokens in order.
THEOREM PinsCompletionCorrect == PinsSpec => CompletesInOrder
BY PinsImplementBus, CompletionCorrect

-----------------------------------------------------------------------------
\* What the last call of hw_i2c.c says about the driver's state after it.
Called ==
  LET last == wire'[Len(wire')]
  IN  /\ wire' \notin {wire, <<>>}
      /\ \/ last.op \in {"CLEAR", "STOP"} /\ hold' = FALSE /\ state' \notin Transferring
         \/ last.op = "SCAN" /\ hold' = FALSE
         \/ last.op = "START" /\ hold' = TRUE
         \/ /\ last.op \in {"TX", "RX"} /\ hold' = hold
            /\ state \in Transferring /\ state' = state

\* The last element of a sequence that grew by one or two elements.
LEMMA LastOfAppend ==
  ASSUME TypeOK, NEW d \in Event, NEW e \in Event,
         wire' = Append(wire, e) \/ wire' = wire \o <<d, e>>
  PROVE  wire'[Len(wire')] = e /\ wire' \notin {wire, <<>>}
<1>1. Len(wire) \in Nat /\ Len(<<>>) = 0
  BY DEF TypeOK
<1>2. wire'[Len(wire')] = e /\ Len(wire') > Len(wire)
  <2>1. CASE wire' = Append(wire, e)
    BY <1>1, <2>1, AppendOne DEF TypeOK
  <2>2. CASE wire' = wire \o <<d, e>>
    BY <1>1, <2>2, AppendTwo DEF TypeOK
  <2>3. QED BY <2>1, <2>2
<1>3. Len(wire') # Len(wire) /\ Len(wire') # Len(<<>>)
  BY <1>1, <1>2
<1>4. QED BY <1>2, <1>3

\* A token either leaves the wires alone, and then the bus stays as it is and
\* no byte is newly stored for a transfer, or ends in a call described above.
LEMMA TokenCalls ==
  ASSUME TypeOK,
         BusStart \/ BusStop \/ (\E c \in Bytes : BusWrite(c)) \/ BusRead \/ BusScan
  PROVE  Called \/ (wire' \in {wire, <<>>} /\ hold' = hold /\ state' \notin Transferring)
<1>a. /\ pending \in Byte /\ Stop \in Event /\ Clear \in Event /\ ScanAll \in Event
      /\ Rx(TRUE) \in Event /\ Rx(FALSE) \in Event
      /\ Start(pending, TRUE) \in Event /\ Start(pending, FALSE) \in Event
      /\ Tx(pending, TRUE) \in Event /\ Tx(pending, FALSE) \in Event
  BY EventsTyped DEF TypeOK
<1>b. ASSUME NEW d \in Event, GiveUp(d) PROVE Called
  <2>1. wire'[Len(wire')] = Clear /\ wire' \notin {wire, <<>>}
    BY <1>a, <1>b, LastOfAppend DEF GiveUp
  <2>2. QED BY <1>b, <2>1, Kinds DEF Called, GiveUp, Transferring
<1>c. ASSUME Misplaced PROVE Called
  <2>1. wire'[Len(wire')] = Clear /\ wire' \notin {wire, <<>>}
    BY <1>a, <1>c, LastOfAppend DEF Misplaced
  <2>2. QED BY <1>c, <2>1, Kinds DEF Called, Misplaced, Transferring
<1>d. ASSUME wire' = Append(wire, Start(pending, TRUE)), hold' = TRUE PROVE Called
  <2>1. wire'[Len(wire')] = Start(pending, TRUE) /\ wire' \notin {wire, <<>>}
    BY <1>a, <1>d, LastOfAppend
  <2>2. Start(pending, TRUE).op = "START"
    BY DEF Start
  <2>3. QED BY <1>d, <2>1, <2>2 DEF Called
<1>1. CASE BusStart
  BY <1>1 DEF BusStart, Transferring
<1>2. CASE BusStop
  <2>1. state' \notin Transferring
    BY <1>2 DEF BusStop, Transferring
  <2>2. CASE StopNothing
    BY <2>1, <2>2 DEF StopNothing
  <2>3. CASE StopAddress \/ StopWrite \/ StopRead
    <3>1. hold' = FALSE
      BY <2>3 DEF StopAddress, StopWrite, StopRead
    <3>2. \E d \in Event : wire' = wire \o <<d, Stop>>
      <4>1. CASE StopAddress
        BY <1>a, <4>1, EventsTyped DEF StopAddress
      <4>2. CASE StopWrite
        BY <1>a, <4>2, EventsTyped DEF StopWrite
      <4>3. CASE StopRead
        BY <1>a, <4>3 DEF StopRead
      <4>4. QED BY <2>3, <4>1, <4>2, <4>3
    <3>3. wire'[Len(wire')] = Stop /\ wire' \notin {wire, <<>>}
      BY <1>a, <3>2, LastOfAppend
    <3>4. QED BY <2>1, <3>1, <3>3, Kinds DEF Called
  <2>4. QED BY <1>2, <2>2, <2>3 DEF BusStop
<1>3. ASSUME NEW c \in Bytes, BusWrite(c)
      PROVE  Called \/ (wire' \in {wire, <<>>} /\ hold' = hold /\ state' \notin Transferring)
  <2>1. CASE StoreAddress(c)
    BY <2>1 DEF StoreAddress, Transferring
  <2>2. CASE WriteFirst(c)
    BY <1>a, <1>b, <1>d, <2>2 DEF WriteFirst
  <2>3. CASE WriteNext(c)
    <3>1. CASE GiveUp(Tx(pending, FALSE))
      BY <1>a, <1>b, <3>1
    <3>2. CASE /\ wire' = Append(wire, Tx(pending, TRUE))
               /\ UNCHANGED <<hold, state>>
      <4>1. wire'[Len(wire')] = Tx(pending, TRUE) /\ wire' \notin {wire, <<>>}
        BY <1>a, <3>2, LastOfAppend
      <4>2. Tx(pending, TRUE).op = "TX"
        BY DEF Tx
      <4>3. QED BY <2>3, <3>2, <4>1, <4>2 DEF WriteNext, Called, Transferring
    <3>3. QED BY <2>3, <3>1, <3>2 DEF WriteNext
  <2>4. CASE WriteMisplaced
    BY <1>c, <2>4 DEF WriteMisplaced
  <2>5. QED BY <1>3, <2>1, <2>2, <2>3, <2>4 DEF BusWrite
<1>4. CASE BusRead
  <2>1. CASE ReadFirst
    BY <1>a, <1>b, <1>d, <2>1 DEF ReadFirst
  <2>2. CASE ReadNext
    <3>1. wire'[Len(wire')] = Rx(TRUE) /\ wire' \notin {wire, <<>>}
      BY <1>a, <2>2, LastOfAppend DEF ReadNext
    <3>2. Rx(TRUE).op = "RX"
      BY DEF Rx
    <3>3. QED BY <2>2, <3>1, <3>2 DEF ReadNext, Called, Transferring
  <2>3. CASE ReadMisplaced
    BY <1>c, <2>3 DEF ReadMisplaced
  <2>4. QED BY <1>4, <2>1, <2>2, <2>3 DEF BusRead
<1>5. CASE BusScan
  <2>1. wire'[Len(wire')] = ScanAll /\ hold' = FALSE /\ wire' \notin {wire, <<>>}
    BY <1>a, <1>5, LastOfAppend DEF BusScan
  <2>2. QED BY <2>1, Kinds DEF Called
<1>6. QED BY <1>1, <1>2, <1>3, <1>4, <1>5

\* The pins of the two buses are different ones, but for the shared pair.
LEMMA PinsDiffer ==
  /\ SclPin # SdaPin /\ SclPin # "SS" /\ SdaPin # "SS"
  /\ ~shared => SclPin \notin SpiPins /\ SdaPin \notin SpiPins
BY DEF SclPin, SdaPin, SpiPins

-----------------------------------------------------------------------------
LEMMA PinsInitially == PinsInit => PinsInvariant
<1> SUFFICES ASSUME PinsInit PROVE PinsInvariant
  OBVIOUS
<1> USE DEF PinsInit, Init
<1>1. PinsTypeOK
  BY BoardsAssumption DEF PinsTypeOK
<1>2. ModeTracksPins /\ TransferringHolds
  BY DEF ModeTracksPins, TransferringHolds, Transferring
<1>3. WireTracksHold /\ SelectedWhileOpen
  BY DEF WireTracksHold, SelectedWhileOpen
<1>4. QED BY <1>1, <1>2, <1>3 DEF PinsInvariant

LEMMA OpenSpiStep == PinsInvariant /\ OpenSpi => PinsInvariant'
<1> SUFFICES ASSUME PinsInvariant, OpenSpi PROVE PinsInvariant'
  OBVIOUS
<1>1. /\ ~waiting /\ UNCHANGED <<shared, waiting, scanned, state, hold>>
      /\ spe' = TRUE /\ ddr' = ddr \cup SpiPins /\ cs' = "high" /\ floating' = {}
      /\ current' = "spi" /\ open' = FALSE
      /\ selected' = FALSE
      /\ SclPin' = SclPin /\ SdaPin' = SdaPin
  <2>1. shared' = shared
    BY DEF OpenSpi
  <2>2. SclPin' = SclPin /\ SdaPin' = SdaPin
    BY <2>1 DEF SclPin, SdaPin
  <2>3. UNCHANGED <<state, hold>> /\ selected' = FALSE
    BY DEF OpenSpi, Close, vars, PinsInvariant, ModeTracksPins, PinsTypeOK
  <2>4. QED BY <2>2, <2>3 DEF OpenSpi, SpiInit
<1>2. PinsTypeOK'
  BY <1>1 DEF PinsInvariant, PinsTypeOK
<1>3. ModeTracksPins'
  BY <1>1 DEF ModeTracksPins
<1>4. TransferringHolds'
  BY <1>1 DEF PinsInvariant, TransferringHolds
<1>5. WireTracksHold'
  BY <1>1, PinsDiffer DEF PinsInvariant, PinsTypeOK, WireTracksHold
<1>6. SelectedWhileOpen'
  BY <1>1 DEF SelectedWhileOpen
<1>7. QED BY <1>2, <1>3, <1>4, <1>5, <1>6 DEF PinsInvariant

LEMMA OpenI2cStep == PinsInvariant /\ OpenI2c => PinsInvariant'
<1> SUFFICES ASSUME PinsInvariant, OpenI2c PROVE PinsInvariant'
  OBVIOUS
<1>1. /\ ~waiting /\ UNCHANGED <<shared, cs, waiting, open>>
      /\ current' = "i2c" /\ selected' = TRUE
      /\ state' = "INIT" /\ hold' = FALSE /\ wire' = <<Clear>>
      /\ SclPin' = SclPin /\ SdaPin' = SdaPin
  BY DEF OpenI2c, Open, SclPin, SdaPin
<1>2. spe' = FALSE
  BY DEF OpenI2c, SpiShutdown, PinsInvariant, PinsTypeOK, ModeTracksPins
<1>3. /\ ddr' = ddr \ {SclPin, SdaPin} /\ scanned' = FALSE
      /\ floating' = floating \ {SclPin, SdaPin}
  <2>1. wire'[Len(wire')] = Clear
    BY <1>1
  <2>2. /\ ddr' = (ddr \ {SclPin, SdaPin}) \cup (IF EndsLow(Clear) THEN {SclPin} ELSE {})
        /\ scanned' = (Clear.op = "SCAN" \/ (scanned /\ EndsLow(Clear)))
        /\ floating' = floating \ {SclPin, SdaPin}
    BY <2>1 DEF OpenI2c, I2cCalled
  <2>3. ~EndsLow(Clear) /\ Clear.op # "SCAN"
    BY Kinds DEF EndsLow
  <2>4. QED BY <2>2, <2>3
<1>4. PinsTypeOK'
  BY <1>1, <1>2, <1>3 DEF PinsInvariant, PinsTypeOK
<1>5. ModeTracksPins' /\ TransferringHolds'
  BY <1>1, <1>2 DEF ModeTracksPins, TransferringHolds, Transferring
<1>6. WireTracksHold'
  BY <1>1, <1>2, <1>3 DEF WireTracksHold
<1>7. SelectedWhileOpen'
  BY <1>1, <1>3, PinsDiffer DEF PinsInvariant, SelectedWhileOpen
<1>8. QED BY <1>4, <1>5, <1>6, <1>7 DEF PinsInvariant

\* After a call: SDA released, SCL low exactly if the call left it so.
LEMMA CallStep ==
  ASSUME PinsInvariant, Called, I2cCalled, selected, selected' = selected,
         UNCHANGED <<shared, current, spe, cs, waiting, open>>
  PROVE  PinsInvariant'
<1> DEFINE low == EndsLow(wire'[Len(wire')])
           op == wire'[Len(wire')].op
<1>1. SclPin' = SclPin /\ SdaPin' = SdaPin
  BY DEF SclPin, SdaPin
<1>2. /\ ddr' = (ddr \ {SclPin, SdaPin}) \cup (IF low THEN {SclPin} ELSE {})
      /\ scanned' = (op = "SCAN" \/ (scanned /\ low))
      /\ floating' = floating \ {SclPin, SdaPin}
  BY DEF I2cCalled
<1>3. current = "i2c" /\ ~spe /\ ~waiting
  BY DEF PinsInvariant, ModeTracksPins
<1>4. /\ low <=> op \in {"START", "TX", "RX"}
      /\ \/ op \in {"CLEAR", "STOP"} /\ hold' = FALSE /\ state' \notin Transferring
         \/ op = "SCAN" /\ hold' = FALSE
         \/ op = "START" /\ hold' = TRUE
         \/ op \in {"TX", "RX"} /\ hold' = hold /\ state \in Transferring /\ state' = state
  BY DEF Called, EndsLow
<1>a. scanned' <=> (op = "SCAN" \/ (scanned /\ low))
  BY <1>2
<1> HIDE DEF low, op
<1>5. PinsTypeOK'
  BY <1>1, <1>2 DEF PinsInvariant, PinsTypeOK
<1>6. ModeTracksPins'
  BY <1>3 DEF PinsInvariant, ModeTracksPins
<1>7. TransferringHolds'
  BY <1>a, <1>4 DEF PinsInvariant, TransferringHolds
<1>8. WireTracksHold'
  <2>1. SdaPin \notin ddr' /\ (SclPin \in ddr' <=> low)
    BY <1>2, PinsDiffer
  <2>2. hold' => low
    BY <1>4
  <2>3. low => hold' \/ scanned'
    BY <1>a, <1>4 DEF PinsInvariant, TransferringHolds
  <2>4. QED BY <1>1, <1>3, <2>1, <2>2, <2>3 DEF WireTracksHold
<1>9. SelectedWhileOpen'
  BY <1>2, <1>3, PinsDiffer DEF PinsInvariant, SelectedWhileOpen
<1>10. QED BY <1>5, <1>6, <1>7, <1>8, <1>9 DEF PinsInvariant

LEMMA I2cTokenStep == TypeOK /\ PinsInvariant /\ I2cToken => PinsInvariant'
<1> SUFFICES ASSUME TypeOK, PinsInvariant, I2cToken PROVE PinsInvariant'
  OBVIOUS
<1>1. selected /\ selected' = selected
  BY DEF I2cToken, BusStart, BusStop, BusWrite, BusRead, BusScan
<1>2. UNCHANGED <<shared, current, spe, cs, waiting, open>>
  BY DEF I2cToken
<1>3. Called \/ (wire' \in {wire, <<>>} /\ hold' = hold /\ state' \notin Transferring)
  BY TokenCalls DEF I2cToken
<1>4. CASE Called
  <2>1. I2cCalled
    BY <1>4 DEF I2cToken, Called
  <2>2. QED BY <1>1, <1>2, <1>4, <2>1, CallStep
<1>5. CASE wire' \in {wire, <<>>} /\ hold' = hold /\ state' \notin Transferring
  <2>1. UNCHANGED <<ddr, scanned, floating>>
    BY <1>5 DEF I2cToken
  <2>2. SclPin' = SclPin /\ SdaPin' = SdaPin
    BY <1>2 DEF SclPin, SdaPin
  <2>3. PinsTypeOK' /\ ModeTracksPins'
    BY <1>1, <1>2, <2>1, <2>2 DEF PinsInvariant, PinsTypeOK, ModeTracksPins
  <2>4. TransferringHolds'
    BY <1>5 DEF TransferringHolds
  <2>5. WireTracksHold'
    BY <1>2, <1>5, <2>1, <2>2 DEF PinsInvariant, WireTracksHold
  <2>6. SelectedWhileOpen'
    BY <1>2, <2>1 DEF PinsInvariant, SelectedWhileOpen
  <2>7. QED BY <2>3, <2>4, <2>5, <2>6 DEF PinsInvariant
<1>6. QED BY <1>3, <1>4, <1>5

LEMMA SpiStep ==
  PinsInvariant /\ (SpiWrite \/ SpiByteDone \/ SpiStart \/ SpiStop) => PinsInvariant'
<1> SUFFICES ASSUME PinsInvariant, SpiWrite \/ SpiByteDone \/ SpiStart \/ SpiStop
             PROVE  PinsInvariant'
  OBVIOUS
<1>1. /\ UNCHANGED <<vars, shared, current, spe, ddr, scanned, floating>>
      /\ SclPin' = SclPin /\ SdaPin' = SdaPin
  BY DEF SpiWrite, SpiByteDone, SpiStart, SpiStop, pins, SclPin, SdaPin
<1>2. PinsTypeOK'
  BY <1>1 DEF PinsInvariant, PinsTypeOK, SpiWrite, SpiByteDone, SpiStart, SpiStop, pins
<1>3. ModeTracksPins'
  BY <1>1 DEF PinsInvariant, ModeTracksPins, vars, SpiWrite, SpiByteDone, SpiStart, SpiStop
<1>4. TransferringHolds' /\ WireTracksHold'
  BY <1>1 DEF PinsInvariant, TransferringHolds, WireTracksHold, vars
<1>5. SelectedWhileOpen'
  BY <1>1 DEF PinsInvariant, SelectedWhileOpen, ModeTracksPins, SpiPins,
              SpiWrite, SpiByteDone, SpiStart, SpiStop, pins
<1>6. QED BY <1>2, <1>3, <1>4, <1>5 DEF PinsInvariant

LEMMA BitbangStep == PinsInvariant /\ Bitbang => PinsInvariant'
<1> SUFFICES ASSUME PinsInvariant, Bitbang PROVE PinsInvariant'
  OBVIOUS
<1>1. /\ UNCHANGED <<vars, shared, current, spe, cs, waiting, open, scanned>>
      /\ ddr' = ddr \ SpiPins /\ floating' = floating \cup (ddr \cap SpiPins)
      /\ ~waiting
  BY DEF Bitbang
<1>2. SclPin' = SclPin /\ SdaPin' = SdaPin
  BY <1>1 DEF SclPin, SdaPin
<1>3. PinsTypeOK' /\ ModeTracksPins'
  BY <1>1, <1>2 DEF PinsInvariant, PinsTypeOK, ModeTracksPins, vars
<1>4. TransferringHolds'
  BY <1>1 DEF PinsInvariant, TransferringHolds, vars
<1>5. WireTracksHold'
  BY <1>1, <1>2 DEF PinsInvariant, WireTracksHold, vars
<1>6. SelectedWhileOpen'
  BY <1>1 DEF SelectedWhileOpen, SpiPins
<1>7. QED BY <1>3, <1>4, <1>5, <1>6 DEF PinsInvariant

LEMMA PinsStep == TypeOK /\ PinsInvariant /\ [PinsNext]_allVars => PinsInvariant'
<1>1. PinsInvariant /\ UNCHANGED allVars => PinsInvariant'
  <2> SUFFICES ASSUME PinsInvariant, UNCHANGED allVars PROVE PinsInvariant'
    OBVIOUS
  <2> USE DEF allVars, vars, pinVars, pins
  <2>1. SclPin' = SclPin /\ SdaPin' = SdaPin
    BY DEF SclPin, SdaPin
  <2>2. PinsTypeOK' /\ ModeTracksPins'
    BY <2>1 DEF PinsInvariant, PinsTypeOK, ModeTracksPins
  <2>3. TransferringHolds' /\ WireTracksHold' /\ SelectedWhileOpen'
    BY <2>1 DEF PinsInvariant, TransferringHolds, WireTracksHold, SelectedWhileOpen
  <2>4. QED BY <2>2, <2>3 DEF PinsInvariant
<1>2. QED BY <1>1, OpenSpiStep, OpenI2cStep, I2cTokenStep, SpiStep, BitbangStep DEF PinsNext

LEMMA PinsInvariantHolds == PinsSpec => []PinsInvariant
<1>1. PinsSpec => []TypeOK
  BY PinsImplementBus, TypeCorrect, PTL
<1>2. QED BY <1>1, PinsInitially, PinsStep, PTL DEF PinsSpec

\* For every set of boards and every order of the modes, of tokens and of the
\* command bitbang (command_bitbang.c:15): between two calls SDA is released,
\* and SCL is low exactly while the driver holds the bus, but for a scan inside
\* brackets and for a bus that bitbang released since the driver's last call.
\* The SPI controller is off where it could drive the wires.
THEOREM WireCorrect == PinsSpec => []WireTracksHold
BY PinsInvariantHolds, PTL DEF PinsInvariant

\* A slave of SPI is selected exactly while a bracket is open, and the wait for
\* a byte (hw_spi.c:33) has a controller that is on and has its pins as outputs,
\* but for those that bitbang made inputs since the mode was entered.
THEOREM SelectionCorrect == PinsSpec => []SelectedWhileOpen
BY PinsInvariantHolds, PTL DEF PinsInvariant

=============================================================================
