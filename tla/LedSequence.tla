---------------------------- MODULE LedSequence -----------------------------
(***************************************************************************)
(* The LED patterns, src/src/led.c: a pattern is a list of steps, each step *)
(* fades from one brightness to another in a number of ticks.  led_tick     *)
(* calls led_seq_tick; the led command calls led_set_seq at any time.       *)
(***************************************************************************)
EXTENDS Integers, Sequences

CONSTANTS Patterns,  \* led_sequences: for each number, its steps
          First      \* LED_SEQ_OFF

ASSUME PatternsAssumption ==
  /\ First \in DOMAIN Patterns
  /\ \A p \in DOMAIN Patterns :
       /\ Len(Patterns[p]) \in 1 .. 85   \* the index of a triple is a byte
       /\ Patterns[p] \in Seq([dur : 1 .. 255, from : 0 .. 255, to : 0 .. 255])

VARIABLES seq,         \* cur_seq
          index,       \* seq_index, the step to come
          t,           \* ticks into the step
          dur, from, to,  \* seq_dur, seq_interp_A, seq_interp_B
          brightness,  \* what hw_led_set was given last
          current      \* history: the step being played

vars == <<seq, index, t, dur, from, to, brightness, current>>

U16(n) == n % 65536

\* led_seq_next, for the step i of pattern p.
LoadStep(p, i) ==
  /\ t' = 0
  /\ dur' = Patterns[p][i + 1].dur
  /\ from' = Patterns[p][i + 1].from
  /\ to' = Patterns[p][i + 1].to
  /\ index' = (i + 1) % Len(Patterns[p])

\* led_set_seq; the led command refuses a number that is no pattern.
SetSeqKeepsIndex(p) ==
  /\ seq' = p
  /\ LoadStep(p, index % Len(Patterns[p]))
  /\ current' = 0
  /\ UNCHANGED brightness

SetSeq(p) ==
  /\ seq' = p
  /\ LoadStep(p, 0)
  /\ current' = 0
  /\ UNCHANGED brightness

\* The brightness at tick t of the step, in 16-bit arithmetic.
FadeNarrow == ((from * (dur - t) + to * t) % 256) \div dur

Fade == U16(U16(from * U16(dur - t)) + U16(to * t)) \div dur

StepOver == t >= dur

NextStep ==
  /\ StepOver
  /\ LoadStep(seq, index)
  /\ current' = IF current + 1 = Len(Patterns[seq]) THEN 0 ELSE current + 1
  /\ UNCHANGED <<seq, brightness>>

FadeOn ==
  /\ ~StepOver
  /\ brightness' = Fade % 256
  /\ t' = (t + 1) % 256
  /\ UNCHANGED <<seq, index, dur, from, to, current>>

\* led_seq_tick
SeqTick == NextStep \/ FadeOn

\* led_init: led_set_seq of the first pattern, and led_seq_next once more.
InitStep == 1 % Len(Patterns[First])

Init ==
  /\ seq = First
  /\ t = 0
  /\ dur = Patterns[First][InitStep + 1].dur
  /\ from = Patterns[First][InitStep + 1].from
  /\ to = Patterns[First][InitStep + 1].to
  /\ index = (InitStep + 1) % Len(Patterns[First])
  /\ brightness = 255
  /\ current = InitStep

\* led_tick, whenever its timer has run out, and the led command.
Next == SeqTick \/ \E p \in DOMAIN Patterns : SetSeq(p)

Spec == Init /\ [][Next]_vars

-----------------------------------------------------------------------------
(* Properties *)

\* Types; t counts to the end of the longest step without wrapping.
TypeOK ==
  /\ seq \in DOMAIN Patterns
  /\ index \in 0 .. 84 /\ current \in 0 .. 84
  /\ t \in 0 .. 255 /\ t <= dur
  /\ dur \in 1 .. 255 /\ from \in 0 .. 255 /\ to \in 0 .. 255
  /\ brightness \in 0 .. 255

\* Patterns play their steps in order from the first, also when the led command
\* cuts in: what is loaded is the current step, and the one to come exists in
\* the pattern that was chosen last; t does not pass the end of the step.
StepsInOrder ==
  /\ t <= dur
  /\ current < Len(Patterns[seq])
  /\ [dur |-> dur, from |-> from, to |-> to] = Patterns[seq][current + 1]
  /\ index = IF current + 1 = Len(Patterns[seq]) THEN 0 ELSE current + 1

\* "Linearly interpolates brightness values over time": the brightness shown at
\* tick t is on the line between the two values, but for the rounding, although
\* the products are computed in 16 bits.
Linear ==
  [][t' = t + 1 =>
       /\ brightness' * dur <= from * dur + (to - from) * t
       /\ from * dur + (to - from) * t < (brightness' + 1) * dur]_vars

=============================================================================
