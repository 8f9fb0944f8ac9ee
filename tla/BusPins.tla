------------------------------ MODULE BusPins ------------------------------
(***************************************************************************)
(* The two bus modes on the pins of one board: bus_init of src/src/bus.c,   *)
(* the SPI mode of bus_spi.c and hw_spi.c, and the I2C mode of BusI2c.  On  *)
(* an AT90USB162 the wires of I2C are the clock and the data output of SPI; *)
(* the other boards have pins for both.  The command bitbang makes inputs   *)
(* of the pins of SPI in whatever mode it is typed.                         *)
(***************************************************************************)
EXTENDS BusI2c

CONSTANT Boards   \* for each board, whether the pins are shared
ASSUME BoardsAssumption == Boards \subseteq BOOLEAN

VARIABLES shared,     \* the board
          current,    \* current_bus
          spe,        \* SPCR: the SPI controller drives its pins
          ddr,        \* the pins that are outputs between two calls
          cs,         \* the level of SS in SPI_PORT
          waiting,    \* in the loop of hw_spi_write8
          open,       \* history: '[' was typed in the SPI mode, and no ']'
          scanned,    \* history: 's' was typed since the last STOP
          floating    \* history: outputs that bitbang made inputs, and that
                      \* nobody has set since

pins == <<spe, ddr, cs>>
pinVars == <<shared, current, pins, waiting, open, scanned, floating>>
allVars == <<vars, pinVars>>

SclPin == IF shared THEN "SCK" ELSE "SCL"
SdaPin == IF shared THEN "MOSI" ELSE "SDA"
SpiPins == {"SCK", "MOSI", "SS"}

\* A call of hw_i2c.c leaves SDA released, and SCL low unless it ends in a
\* STOP condition.
EndsLowNotRx(event) == event.op \in {"START", "TX"}
EndsLow(event) == event.op \in {"START", "TX", "RX"}

I2cCalled ==
  LET last == wire'[Len(wire')]
  IN  /\ ddr' = (ddr \ {SclPin, SdaPin}) \cup (IF EndsLow(last) THEN {SclPin} ELSE {})
      /\ floating' = floating \ {SclPin, SdaPin}
      /\ scanned' = (last.op = "SCAN" \/ (scanned /\ EndsLow(last)))

-----------------------------------------------------------------------------
(* The SPI mode.  If SS is an input, the controller stops being a master as  *)
(* soon as someone pulls it low, and a byte is never done: while SS is an    *)
(* input the byte may be done or not.                                        *)

SpiWrite ==
  /\ current = "spi" /\ ~waiting
  /\ waiting' = TRUE
  /\ UNCHANGED <<vars, shared, current, pins, open, scanned, floating>>

SpiByteDone ==
  /\ waiting /\ spe
  /\ waiting' = FALSE
  /\ UNCHANGED <<vars, shared, current, pins, open, scanned, floating>>

SpiStart ==
  /\ current = "spi" /\ ~waiting
  /\ cs' = "low" /\ open' = TRUE
  /\ UNCHANGED <<vars, shared, current, spe, ddr, waiting, scanned, floating>>

SpiStop ==
  /\ current = "spi" /\ ~waiting
  /\ cs' = "high" /\ open' = FALSE
  /\ UNCHANGED <<vars, shared, current, spe, ddr, waiting, scanned, floating>>

-----------------------------------------------------------------------------
(* bus_init: the current mode is closed, then the new one is opened.         *)

SpiShutdown == spe' = FALSE

SpiInitForgetsSs ==
  /\ spe' = TRUE
  /\ ddr' = ddr \cup {"SCK", "MOSI"} /\ floating' = {}
  /\ cs' = "high"

SpiInit ==
  /\ spe' = TRUE
  /\ ddr' = ddr \cup SpiPins /\ floating' = {}
  /\ cs' = "high"

OpenSpi ==
  /\ ~waiting
  /\ IF current = "i2c" THEN Close ELSE UNCHANGED vars
  /\ SpiInit
  /\ current' = "spi" /\ open' = FALSE
  /\ UNCHANGED <<shared, waiting, scanned>>

OpenI2c ==
  /\ ~waiting
  /\ IF current = "spi" THEN SpiShutdown ELSE UNCHANGED spe
  /\ Open /\ I2cCalled
  /\ current' = "i2c"
  /\ UNCHANGED <<shared, cs, waiting, open>>

\* A token in the I2C mode: some put something on the wires.
I2cToken ==
  /\ BusStart \/ BusStop \/ (\E c \in Bytes : BusWrite(c)) \/ BusRead \/ BusScan
  /\ IF wire' \in {wire, <<>>} THEN UNCHANGED <<ddr, scanned, floating>> ELSE I2cCalled
  /\ UNCHANGED <<shared, current, spe, cs, waiting, open>>

-----------------------------------------------------------------------------
\* The command bitbang, in any mode, inside brackets or outside: DDRB = 0x00.
\* It is a line of its own, so no byte is under way.
Bitbang ==
  /\ ~waiting
  /\ ddr' = ddr \ SpiPins
  /\ floating' = floating \cup (ddr \cap SpiPins)
  /\ UNCHANGED <<vars, shared, current, spe, cs, waiting, open, scanned>>

PinsInit ==
  /\ Init
  /\ shared \in Boards /\ current = "none"
  /\ spe = FALSE /\ ddr = {} /\ cs = "low"
  /\ waiting = FALSE /\ open = FALSE /\ scanned = FALSE /\ floating = {}

PinsNext ==
  \/ OpenSpi \/ OpenI2c \/ I2cToken
  \/ SpiWrite \/ SpiByteDone \/ SpiStart \/ SpiStop
  \/ Bitbang

PinsSpec == PinsInit /\ [][PinsNext]_allVars

-----------------------------------------------------------------------------
(* Properties *)

\* Between two calls SDA is released, and SCL is low exactly while the driver
\* holds the bus, with two exceptions.  After a scan inside brackets the next
\* byte is clocked on a free bus, and SCL stays low.  And where the modes share
\* the pins, bitbang amid a transaction releases SCL though the driver holds
\* the bus, until its next call; where I2C has pins of its own, it does not.
\* The SPI controller is off when it could drive the wires.  With pins of its
\* own this goes on after the I2C mode is left, so that a transaction that was
\* not closed blocks the bus until the mode is opened again (bus_i2c.c:36-39).
WireTracksHold ==
  (current = "i2c" \/ ~shared) => /\ shared => ~spe
                                  /\ SdaPin \notin ddr
                                  /\ hold => SclPin \in ddr \cup floating
                                  /\ SclPin \in ddr => hold \/ scanned

\* A slave of SPI is selected exactly while a bracket is open that was typed
\* since the mode was entered: leaving the mode inside brackets keeps the slave
\* selected, on shared pins through all I2C traffic, and entering it does not.
\* And in whatever order the modes are entered, while a byte is under way the
\* controller is on and has its pins, so that it stays a master and the loop of
\* hw_spi_write8 ends, unless bitbang made inputs of them since the mode was
\* entered: only entering it again gives them back.
SelectedWhileOpen ==
  /\ "SS" \in ddr => (cs = "low" <=> open)
  /\ waiting => spe /\ SpiPins \subseteq ddr \cup floating

=============================================================================
