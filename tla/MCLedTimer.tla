----------------------------- MODULE MCLedTimer -----------------------------
(* TLC instance of LedTimer, with a table of short patterns; and the patterns *)
(* of src/src/led.c as they are, which the theorems of LedProofs are about    *)
(* if they satisfy its assumption.                                            *)
EXTENDS LedTimer

Step(d, a, b) == [dur |-> d, from |-> a, to |-> b]

Off == <<Step(255, 0, 0)>>
On == <<Step(255, 255, 255)>>
SlowFlash == <<Step(255, 0, 0), Step(255, 255, 255)>>
FastFlash == <<Step(32, 0, 0), Step(32, 255, 255)>>
Blink == <<Step(255, 0, 0), Step(16, 255, 255)>>
Sine == <<Step(16, 128, 217), Step(16, 217, 255), Step(16, 255, 217), Step(16, 217, 128),
          Step(16, 128, 39), Step(16, 39, 0), Step(16, 0, 39), Step(16, 39, 128)>>
Glow == <<Step(64, 255, 128), Step(64, 128, 255)>>

Table == <<Off, On, SlowFlash, FastFlash, Blink, Sine, Glow>>
ASSUME TableAssumption ==
  \A p \in DOMAIN Table :
    /\ Len(Table[p]) \in 1 .. 85
    /\ Table[p] \in Seq([dur : 1 .. 255, from : 0 .. 255, to : 0 .. 255])

MCPatterns == [p \in 0 .. 1 |-> IF p = 0 THEN <<Step(1, 0, 2)>> ELSE <<Step(2, 253, 255), Step(1, 1, 1)>>]
=============================================================================
