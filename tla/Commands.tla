------------------------------ MODULE Commands ------------------------------
(***************************************************************************)
(* Command lines, src/src/commands.c: execute_command_line reads a line     *)
(* character by character, handle_command acts on each word, and the        *)
(* brackets and words become calls of the current bus (bus.c, bus_spi.c).   *)
(* What outlives the line is the current bus and the duplex flag.           *)
(*                                                                          *)
(* The characters of a line are chosen as they are read.  A command name is *)
(* one character here, and so is everything a number may consist of.        *)
(***************************************************************************)
EXTENDS Integers, Sequences

CONSTANTS Alphabet,  \* the characters a line may contain
          Digit,     \* the value of each character that is a digit
          BusOf,     \* the bus that each command name enters
          MaxLine    \* bound: the characters of a line

Brackets == {"[", "{", "]", "}"}
Separators == Brackets \cup {" ", "#"}
Digits == DOMAIN Digit
Names == DOMAIN BusOf

ASSUME AlphabetAssumption ==
  /\ Digits \cup Names \cup {" ", "#"} \subseteq Alphabet
  /\ (Digits \cup Names) \cap (Separators \cup {":", "r", "s"}) = {}
  /\ Digits \cap Names = {}
ASSUME ValuesAssumption ==
  /\ Digit \in [Digits -> 0 .. 9] /\ BusOf \in [Names -> {"spi", "i2c"}]
ASSUME MaxLineAssumption == MaxLine \in Nat

VARIABLES bus,         \* current_bus, "none" for NULL
          duplex,
          scan,        \* execute_command_line's state, "idle" between lines
          word,        \* the characters from token_start to str
          firstToken,
          ahead,       \* the character at *str, if it was looked at already
          calls,       \* history: what the line has called so far
          line,        \* history: the characters read
          wasDuplex, wasBus  \* history: duplex and current_bus when it began

vars == <<bus, duplex, scan, word, firstToken, ahead, calls, line, wasDuplex, wasBus>>
history == <<line, wasDuplex, wasBus>>

Scans == {"idle", "searching", "inToken"}
Buses == {"none", "spi", "i2c"}

\* What a line calls: the functions of a bus_interface_t, or the error text.
Call(op, n) == [op |-> op, n |-> n]
Ops == {"open", "close", "start", "stop", "write", "xact", "read", "command", "BadCmd"}
BadCmd == <<Call("BadCmd", 0)>>

\* The functions that each bus has; no other pointer may be called.
Functions(b) ==
  CASE b = "none" -> {}
    [] b = "spi" -> {"open", "close", "start", "stop", "write", "read", "xact", "command"}
    [] b = "i2c" -> {"open", "close", "start", "stop", "write", "read", "command"}

-----------------------------------------------------------------------------
(* handle_command *)

\* parse_number, of decimal digits; of no characters at all it makes 0.
IsNumber(w) == \A i \in 1 .. Len(w) : w[i] \in Digits
NumberOf(w) ==
  LET value[n \in 0 .. Len(w)] == IF n = 0 THEN 0 ELSE 10 * value[n - 1] + Digit[w[n]]
  IN  value[Len(w)]

\* Where the word ends and its ":count" begins: the first ':' after the first
\* character that a number, or nothing, follows.
Split(w, i) == 1 < i /\ w[i] = ":" /\ IsNumber(SubSeq(w, i + 1, Len(w)))
Splits(w) == {i \in 1 .. Len(w) : Split(w, i)}
FirstSplit(w) == CHOOSE i \in Splits(w) : \A j \in Splits(w) : i <= j

Body(w) == IF Splits(w) = {} THEN w ELSE SubSeq(w, 1, FirstSplit(w) - 1)

\* A ':' that no number follows leaves 0 behind, for parse_number is destructive.
Repeat(w) ==
  IF Splits(w) # {} THEN NumberOf(SubSeq(w, FirstSplit(w) + 1, Len(w)))
  ELSE IF \E i \in 2 .. Len(w) : w[i] = ":" THEN 0 ELSE 1

Times(n, call) == [i \in 1 .. n |-> call]

Transfer(w) == IF duplex THEN "xact" ELSE "write"

\* handle_command says that the rest of the line is to be ignored.
IsGlobal(w) == firstToken /\ Len(Body(w)) = 1 /\ Body(w)[1] \in Names

\* bus_spi_command knows no command; bus_i2c_command knows 's'.
BusCommand(w) ==
  IF bus = "none" THEN BadCmd
  ELSE <<Call("command", 0)>> \o (IF bus = "i2c" /\ Body(w) = <<"s">> THEN <<>> ELSE BadCmd)

WordCallsUnchecked(w) ==
  IF IsNumber(Body(w))
    THEN IF bus # "none"
           THEN Times(Repeat(w), Call(Transfer(w), NumberOf(Body(w)) % 256))
           ELSE BadCmd
  ELSE IF Body(w) = <<"r">>
    THEN IF "read" \in Functions(bus) THEN Times(Repeat(w), Call("read", 0)) ELSE BadCmd
  ELSE BusCommand(w)

\* What a word other than a command name calls.
WordCalls(w) ==
  IF IsNumber(Body(w))
    THEN IF Transfer(w) \in Functions(bus)
           THEN Times(Repeat(w), Call(Transfer(w), NumberOf(Body(w)) % 256))
           ELSE BadCmd
  ELSE IF Body(w) = <<"r">>
    THEN IF "read" \in Functions(bus) THEN Times(Repeat(w), Call("read", 0)) ELSE BadCmd
  ELSE BusCommand(w)

\* bus_init: close the current bus, open the new one.
Switch(b) ==
  /\ calls' = calls \o (IF bus = "none" THEN <<>> ELSE <<Call("close", 0)>>)
                    \o <<Call("open", 0)>>
  /\ bus' = b

-----------------------------------------------------------------------------
(* execute_command_line *)

Begin ==
  /\ scan = "idle"
  /\ scan' = "searching"
  /\ word' = <<>> /\ firstToken' = TRUE /\ ahead' = ""
  /\ calls' = <<>>
  /\ line' = <<>> /\ wasDuplex' = duplex /\ wasBus' = bus
  /\ UNCHANGED <<bus, duplex>>

\* Reading *str, the first time.
Read(c) ==
  IF ahead = "" THEN Len(line) < MaxLine /\ line' = Append(line, c)
                ELSE ahead = c /\ UNCHANGED line

SkipBlank ==
  /\ Read(" ")
  /\ UNCHANGED <<bus, duplex, scan, word, firstToken, calls>>

Comment ==
  /\ Read("#")
  /\ scan' = "idle"
  /\ UNCHANGED <<bus, duplex, word, firstToken, calls>>

\* '{' falls through to '['.
OpenBracket(c) ==
  /\ c \in {"[", "{"} /\ Read(c)
  /\ duplex' = (duplex \/ c = "{")
  /\ firstToken' = FALSE
  /\ calls' = IF "start" \in Functions(bus) THEN Append(calls, Call("start", 0)) ELSE calls
  /\ UNCHANGED <<bus, scan, word>>

CloseBracket(c) ==
  /\ c \in {"]", "}"} /\ Read(c)
  /\ duplex' = FALSE
  /\ firstToken' = FALSE
  /\ calls' = IF "stop" \in Functions(bus) THEN Append(calls, Call("stop", 0)) ELSE calls
  /\ UNCHANGED <<bus, scan, word>>

BeginTokenLate(c) ==
  /\ c \notin Separators /\ Read(c)
  /\ scan' = "inToken" /\ word' = <<>>
  /\ UNCHANGED <<bus, duplex, firstToken, calls>>

BeginToken(c) ==
  /\ c \notin Separators /\ Read(c)
  /\ scan' = "inToken" /\ word' = <<c>>
  /\ UNCHANGED <<bus, duplex, firstToken, calls>>

Searching ==
  /\ scan = "searching"
  /\ ahead' = ""
  /\ \/ SkipBlank \/ Comment
     \/ \E c \in Alphabet : OpenBracket(c) \/ CloseBracket(c) \/ BeginToken(c)
  /\ UNCHANGED <<wasDuplex, wasBus>>

InToken(c) ==
  /\ scan = "inToken" /\ c \notin Separators
  /\ Read(c)
  /\ word' = Append(word, c)
  /\ UNCHANGED <<bus, duplex, scan, firstToken, ahead, calls, wasDuplex, wasBus>>

\* handle_command of the word just read; where to go on if it returns FALSE.
HandleCommand(next) ==
  /\ \/ /\ IsGlobal(word)
        /\ Switch(BusOf[Body(word)[1]])
        /\ scan' = "idle"
     \/ /\ ~IsGlobal(word)
        /\ calls' = calls \o WordCalls(word)
        /\ scan' = next
        /\ UNCHANGED bus
  /\ firstToken' = FALSE /\ word' = <<>>
  /\ UNCHANGED <<duplex, wasDuplex, wasBus>>

EndTokenSkips(c) ==
  /\ scan = "inToken" /\ c \in Separators
  /\ Read(c) /\ ahead' = ""
  /\ HandleCommand("searching")

\* The separator stays to be read again.
EndToken(c) ==
  /\ scan = "inToken" /\ c \in Separators
  /\ Read(c) /\ ahead' = c
  /\ HandleCommand("searching")

\* The line ends outside a token, or with one.
EndOfLine ==
  /\ ahead = ""
  /\ \/ /\ scan = "searching" /\ scan' = "idle"
        /\ UNCHANGED <<bus, duplex, word, firstToken, calls, wasDuplex, wasBus>>
     \/ scan = "inToken" /\ HandleCommand("idle")
  /\ UNCHANGED <<ahead, line>>

Init ==
  /\ bus = "none" /\ duplex = FALSE
  /\ scan = "idle" /\ word = <<>> /\ firstToken = TRUE /\ ahead = ""
  /\ calls = <<>> /\ line = <<>> /\ wasDuplex = FALSE /\ wasBus = "none"

Next ==
  \/ Begin \/ Searching \/ EndOfLine
  \/ \E c \in Alphabet : InToken(c) \/ EndToken(c)

Spec == Init /\ [][Next]_vars

-----------------------------------------------------------------------------
(* Properties *)

\* Types; a token that is being read is not empty, so handle_command, whose
\* parse_number takes no characters for the number 0, is never called without.
TypeOK ==
  /\ bus \in Buses /\ wasBus \in Buses
  /\ duplex \in BOOLEAN /\ wasDuplex \in BOOLEAN
  /\ scan \in Scans /\ firstToken \in BOOLEAN
  /\ ahead \in Separators \cup {""}
  /\ word \in Seq(Alphabet \ Separators) /\ (scan = "inToken" => word # <<>>)
  /\ line \in Seq(Alphabet) /\ Len(line) <= MaxLine
  /\ calls \in Seq([op : Ops, n : Nat])

\* Only functions that a bus has are called, although a line may be half done
\* when its bus is left, and "{" may have been typed for another bus: I2C has no
\* xact, and no bus is there before the first mode command.
NoNullCall ==
  \A i \in 1 .. Len(calls) :
    \/ calls[i].op = "BadCmd"
    \/ calls[i].op \in Functions(bus)
    \/ calls[i].op = "close" /\ calls[i].op \in Functions(wasBus)

\* What a line means, without a scanner: the text before the comment is cut
\* into brackets and words, wherever they are and whatever separates them.
CodeOf(s) == LET hashes == {i \in 1 .. Len(s) : s[i] = "#"}
             IN  IF hashes = {} THEN s ELSE SubSeq(s, 1, (CHOOSE i \in hashes : \A j \in hashes : i <= j) - 1)

IsItem(s, i, j) ==
  \/ i = j /\ s[i] \in Brackets
  \/ /\ \A k \in i .. j : s[k] \notin Separators
     /\ i = 1 \/ s[i - 1] \in Separators
     /\ j = Len(s) \/ s[j + 1] \in Separators

\* Where the item that ends at j begins, if one ends there.
Beginnings(s, j) == {i \in 1 .. j : IsItem(s, i, j)}

\* The last bracket that decides it, or the line before.
DuplexAt(s, i, before) ==
  LET deciding == {k \in 1 .. i - 1 : s[k] \in {"{", "]", "}"}}
  IN  IF deciding = {} THEN before
      ELSE s[CHOOSE k \in deciding : \A j \in deciding : j <= k] = "{"

\* word, or word:count with one ':' and nothing but digits behind it.
Parts(w) ==
  LET colons == {i \in 2 .. Len(w) : w[i] = ":"}
      at == CHOOSE i \in colons : TRUE
  IN  IF colons = {} THEN [body |-> w, count |-> 1]
      ELSE IF colons = {at} /\ \A i \in at + 1 .. Len(w) : w[i] \in Digits
        THEN [body |-> SubSeq(w, 1, at - 1), count |-> NumberOf(SubSeq(w, at + 1, Len(w)))]
      ELSE [body |-> <<":">>, count |-> 0]

\* What a word means on the bus b.
WordMeaning(w, b, full) ==
  LET body == Parts(w).body
      count == Parts(w).count
      isRead == body = <<"r">> /\ b # "none"
      isScan == body = <<"s">> /\ b = "i2c"
      transfer == CASE b = "none" -> BadCmd
                    [] b = "i2c" /\ full -> BadCmd
                    [] OTHER -> Times(count, Call(IF full THEN "xact" ELSE "write", NumberOf(body) % 256))
  IN  CASE IsNumber(body) -> transfer
        [] isRead -> Times(count, Call("read", 0))
        [] isScan -> <<Call("command", 0)>>
        [] ~IsNumber(body) /\ ~isRead /\ ~isScan /\ b # "none" -> <<Call("command", 0)>> \o BadCmd
        [] OTHER -> BadCmd

ItemMeaning(s, i, j, b, before) ==
  IF s[i] \notin Brackets THEN WordMeaning(SubSeq(s, i, j), b, DuplexAt(s, i, before))
  ELSE IF b = "none" THEN <<>>
  ELSE <<Call(IF s[i] \in {"[", "{"} THEN "start" ELSE "stop", 0)>>

\* Every item in the order of the line.
Meaning(s, b, before) ==
  LET upTo[j \in 0 .. Len(s)] ==
        IF j = 0 THEN <<>>
        ELSE IF Beginnings(s, j) = {} THEN upTo[j - 1]
        ELSE upTo[j - 1] \o ItemMeaning(s, CHOOSE i \in Beginnings(s, j) : TRUE, j, b, before)
  IN  upTo[Len(s)]

\* The command name with which a line enters a bus: its first word is one, and
\* nothing precedes it.
Entering(s) ==
  {n \in Names : \E j \in 1 .. Len(s) : \E i \in Beginnings(s, j) :
     (\A k \in 1 .. i - 1 : s[k] = " ") /\ Parts(SubSeq(s, i, j)).body = <<n>>}

\* A line calls what it means, whatever is left out between its parts, and
\* leaves the bus and the duplex flag that it says behind.
LineMeaning ==
  scan = "idle" =>
    LET s == CodeOf(line) IN
    IF Entering(s) = {}
    THEN /\ calls = Meaning(s, wasBus, wasDuplex)
         /\ bus = wasBus
         /\ duplex = DuplexAt(s, Len(s) + 1, wasDuplex)
    ELSE /\ calls = (IF wasBus = "none" THEN <<>> ELSE <<Call("close", 0)>>) \o <<Call("open", 0)>>
         /\ \A n \in Entering(s) : bus = BusOf[n]
         /\ duplex = wasDuplex

=============================================================================
