---------------------------- MODULE I2cProtocol -----------------------------
(***************************************************************************)
(* What hw_i2c.h promises of the two wires, seen from outside: transfers   *)
(* between a START and a STOP condition, made of frames of Bits + 1 clocks *)
(* (a byte and its acknowledgement), with SDA constant while SCL is high.  *)
(***************************************************************************)
EXTENDS Integers

CONSTANT Bits

VARIABLES sda, scl,   \* the wires: TRUE is high
          busy,       \* between START and STOP
          clocks      \* clocks completed in this frame; -1 right after START

vars == <<sda, scl, busy, clocks>>

Init == sda = TRUE /\ scl = TRUE /\ busy = FALSE /\ clocks = 0

\* SDA falls while SCL is high; between frames it is a repeated START.
StartCondition ==
  /\ scl /\ scl'
  /\ sda /\ ~sda'
  /\ clocks = 0
  /\ busy' = TRUE
  /\ clocks' = -1

\* SDA rises while SCL is high, between two frames.
StopCondition ==
  /\ scl /\ scl'
  /\ ~sda /\ sda'
  /\ busy /\ clocks = 0
  /\ busy' = FALSE
  /\ clocks' = 0

ClockRise ==
  /\ busy
  /\ ~scl /\ scl'
  /\ UNCHANGED <<sda, busy, clocks>>

\* Whoever drives the next bit may do so with the falling edge.
ClockFall ==
  /\ busy
  /\ scl /\ ~scl'
  /\ sda' \in BOOLEAN
  /\ clocks' = (clocks + 1) % (Bits + 1)
  /\ UNCHANGED busy

SetData ==
  /\ ~scl /\ ~scl'
  /\ sda' \in BOOLEAN
  /\ UNCHANGED <<busy, clocks>>

Next == StartCondition \/ StopCondition \/ ClockRise \/ ClockFall \/ SetData

Spec == Init /\ [][Next]_vars
=============================================================================
