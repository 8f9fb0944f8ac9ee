------------------------------- MODULE MCJtag -------------------------------
(* TLC instance of Jtag: requests of all lengths up to a buffer in which the *)
(* reply of an EMU request reaches into the bytes still to be sent.          *)
EXTENDS Jtag

Plain(cmd, t, s) == [cmd |-> cmd, bytes |-> 1, extra |-> 0, bit0 |-> t, bit1 |-> s]
TapOf(cmd, b, e) == [cmd |-> cmd, bytes |-> b, extra |-> e, bit0 |-> FALSE, bit1 |-> FALSE]

MCRequests ==
  {TapOf("TAP_OUTPUT", 0, 0), TapOf("TAP_OUTPUT", 1, 3), TapOf("TAP_OUTPUT", 2, 0),
   TapOf("TAP_OUTPUT", 3, 1), TapOf("TAP_OUTPUT_EMU", 5, 2)}
  \cup {TapOf("READ_INPUT", 0, 0), TapOf("unknown", 2, 0), TapOf("empty", 0, 0)}
  \cup {Plain("SET_TRST", FALSE, TRUE), [Plain("SET_SRST", TRUE, FALSE) EXCEPT !.bytes = 0],
        Plain("SET_SRST_TRST", FALSE, FALSE), Plain("SET_DELAY", TRUE, TRUE)}
=============================================================================
