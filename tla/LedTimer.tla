------------------------------ MODULE LedTimer ------------------------------
(***************************************************************************)
(* What drives LedSequence: led_tick of src/src/led.c, called by every      *)
(* round of the main loop with the tick counter of tick.c, which the timer  *)
(* interrupt increments and hw_led.c turns into light.                      *)
(*                                                                          *)
(* The counter has several bytes and is read one byte at a time while the   *)
(* interrupt goes on.  Here it has a low byte with Base values and the rest *)
(* with Highs values.                                                       *)
(***************************************************************************)
EXTENDS LedSequence

CONSTANTS Base, Highs,  \* 256 and 2^24 in the code
          StepTime,     \* STEP_TIME
          RoundTicks    \* a round of the main loop takes less ticks than that

ASSUME TimerAssumption ==
  /\ Base \in {2 ^ n : n \in 1 .. 8} /\ Highs \in Nat \ {0, 1}
  /\ StepTime \in Nat /\ RoundTicks \in Nat \ {0}
  /\ StepTime + 4 * RoundTicks < Base * Highs

VARIABLES ticks,
          stepTimer,   \* step_timer
          pc,          \* the two calls of tick_get: each reads low, then the rest
          low,         \* the byte read first
          lit,         \* the LED's pin
          round,       \* ticks since led_tick compared them
          high,        \* history: the rest of the counter when low was read
          since,       \* history: ticks since led_seq_tick was called
          wraps,       \* history: step_timer was computed with an overflow
          slow,        \* history: it is too large, or ticks has wrapped since
          onTicks, steady,  \* history: of this period of Base ticks
          beat         \* history: the parity of the calls of led_seq_tick

reading == <<pc, low, high>>
light == <<lit, onTicks, steady>>
pace == <<since, wraps, slow, beat>>
timerVars == <<ticks, stepTimer, reading, round, light, pace>>

Top == Base * Highs - 1
Longest == StepTime + 3 * RoundTicks + 1

\* hw_led_tick: at each power of two, the bit of the brightness is shown until
\* the next.
Powers == {2 ^ n : n \in 0 .. 7}
LitLate(n) == IF n \in Powers /\ n > 1 THEN (brightness \div n) % 2 = 1 ELSE lit
Lit(n) == IF n \in Powers THEN (brightness \div n) % 2 = 1 ELSE lit

\* The interrupt of the timer.
TickInterrupt ==
  /\ round < RoundTicks
  /\ round' = round + 1
  /\ ticks' = (ticks + 1) % (Base * Highs)
  /\ lit' = Lit(ticks' % Base)
  /\ onTicks' = (IF ticks' % Base = 1 THEN 0 ELSE onTicks) + (IF lit' THEN 1 ELSE 0)
  /\ steady' = (steady \/ ticks' % Base = 1)
  /\ since' = IF since > Longest THEN since ELSE since + 1
  /\ slow' = (slow \/ ticks' = 0)
  /\ UNCHANGED <<vars, stepTimer, reading, wraps, beat>>

\* tick_get, first half.
ReadLow ==
  /\ pc \in {"loop", "step"}
  /\ low' = ticks % Base /\ high' = ticks \div Base
  /\ pc' = IF pc = "loop" THEN "compare" ELSE "store"
  /\ UNCHANGED <<vars, ticks, stepTimer, round, light, pace>>

Read == Base * (ticks \div Base) + low
Torn == high # ticks \div Base

DueAtOnce == Read >= stepTimer
DueByByte == low > stepTimer
Due == Read > stepTimer

\* led_tick
SeqStep ==
  /\ SeqTick
  /\ pc' = "step" /\ beat' = ~beat
  /\ since' = 0 /\ slow' = FALSE
  /\ steady' = (steady /\ brightness' = brightness)
  /\ UNCHANGED <<lit, onTicks, wraps>>

Compare ==
  /\ pc = "compare" /\ round' = 0
  /\ IF Due THEN SeqStep ELSE pc' = "loop" /\ UNCHANGED <<vars, light, pace>>
  /\ UNCHANGED <<ticks, stepTimer, low, high>>

Store ==
  /\ pc = "store" /\ pc' = "loop"
  /\ stepTimer' = (Read + StepTime) % (Base * Highs)
  /\ wraps' = (Read + StepTime > Top)
  /\ slow' = (slow \/ Torn)
  /\ UNCHANGED <<vars, ticks, low, high, round, light, since, beat>>

\* The led command, in the same main loop.
LedCommand(p) ==
  /\ pc = "loop" /\ SetSeq(p)
  /\ UNCHANGED timerVars

TimerInit ==
  /\ Init
  /\ ticks = 0 /\ stepTimer = 0 /\ pc = "loop" /\ low = 0 /\ round = 0 /\ lit = FALSE
  /\ high = 0 /\ since = 0 /\ wraps = TRUE /\ slow = FALSE
  /\ onTicks = 0 /\ steady = FALSE /\ beat = FALSE

MainLoop == ReadLow \/ Compare \/ Store
TimerNext == TickInterrupt \/ MainLoop \/ \E p \in DOMAIN Patterns : LedCommand(p)

TimerSpec == TimerInit /\ [][TimerNext]_<<vars, timerVars>>

\* The timer runs, and so does the main loop.
FairTimerSpec ==
  TimerSpec /\ WF_<<vars, timerVars>>(TickInterrupt) /\ WF_<<vars, timerVars>>(MainLoop)

-----------------------------------------------------------------------------
(* Properties *)

\* The LED is lit for as many ticks of a period as the brightness says, when it
\* does not change; a brightness with the highest bit is shown for one tick
\* more, because that bit lasts until the first tick of the next period.
DutyCycle ==
  (steady /\ ticks % Base = 0) =>
    onTicks = (brightness % Base) + (IF brightness % Base >= Base \div 2 THEN 1 ELSE 0)

\* Two calls of led_seq_tick are more than STEP_TIME ticks apart, unless the
\* counter was read while its bytes changed, or the time of the next call did
\* not fit into it.  And they are no further apart than that and three rounds of
\* the main loop, unless the time was misread, or the counter has wrapped.
Paced ==
  /\ [][beat' # beat => since > StepTime \/ Torn \/ wraps]_<<vars, timerVars>>
  /\ [](since > StepTime + 3 * RoundTicks => slow)

\* The pattern goes on, also after the counter has wrapped or was misread, unless
\* the time of the next call is so close to the largest value of the counter that
\* two rounds of the main loop can miss it: then it may never come.
GoesOn ==
  \A b \in BOOLEAN :
    (beat = b /\ pc = "loop" /\ stepTimer + 2 * RoundTicks <= Top) ~> (beat # b)

=============================================================================
