------------------------------- MODULE Parse --------------------------------
(***************************************************************************)
(* The words and numbers of a command line, src/src/parse.c: tok and        *)
(* tok_num take the line apart, parse_number reads decimal, binary and      *)
(* hexadecimal words.  The caller is the loop of the test command, which    *)
(* reads all arguments; the others read the first ones in the same way.     *)
(* A line is typed, or pasted from what the program has printed (Format).   *)
(***************************************************************************)
EXTENDS Format, SequencesExt

CONSTANTS Chars,    \* the characters of a line, as ASCII codes
          LineMax,  \* its length, if it is typed
          Dumps,    \* what the program has printed: the mode, and two bytes
          Word      \* 2^32, the numbers that uint32_t holds

ASSUME ParseAssumption ==
  /\ Chars \subseteq 0 .. 255 /\ LineMax \in 0 .. 255
  /\ Word \in Nat /\ Word > 255
  /\ Dumps \subseteq [mode : OutModes, bytes : (0 .. 255) \X (0 .. 255)]

VARIABLES dump,        \* where the line is from: a dump, or none
          line,        \* what follows the command's name
          start, end,  \* *tok_start and *tok_end, as offsets into the line
          pc,          \* "loop" of test, "parse" of parse_number, "number" and
                       \* "string" after tok_num, "done"
          i, base, num,   \* of parse_number: i, base and *result
          words        \* history: the words reported, with their value if any

vars == <<dump, line, start, end, pc, i, base, num, words>>

Blanks == {32, 9}
None == -1

-----------------------------------------------------------------------------
(* tok *)

SkipBlanks(s, k) == Min({j \in k .. Len(s) : j = Len(s) \/ s[j + 1] \notin Blanks})

SkipWordLong(s, k) == Min({j \in k .. Len(s) : j = Len(s) \/ s[j + 1] = 32})
SkipWord(s, k) == Min({j \in k .. Len(s) : j = Len(s) \/ s[j + 1] \in Blanks})

Token == SubSeq(line, start + 1, end)

\* tok_num: tok, and if it finds a token parse_number begins.
Tok ==
  /\ pc = "loop" /\ start # Len(line)
  /\ start' = SkipBlanks(line, start)
  /\ end' = SkipWord(line, start')
  /\ pc' = IF end' = start' THEN "string" ELSE "parse"
  /\ i' = 0 /\ base' = 10 /\ num' = 0
  /\ UNCHANGED <<dump, line, words>>

-----------------------------------------------------------------------------
(* parse_number *)

DigitToIntWide(ch) == IF ch >= 97 THEN ch - 87 ELSE IF ch >= 65 THEN ch - 55 ELSE ch - 48

\* digit_to_int, in 8 bits: 'a', 'A' and '0' are 97, 65 and 48.
DigitToInt(ch) ==
  LET r == CASE ch >= 97 -> 97 - 10
             [] ch >= 65 /\ ch < 97 -> 65 - 10
             [] ch < 65 /\ ch <= 57 -> 48
             [] OTHER -> 0
  IN (ch - r) % 256

\* The base that the character c at i announces, if it does: 'b' is 98, 'h'
\* 104, 'x' 120.
Prefix(c) ==
  CASE num = 0 /\ i \in {0, 1} /\ c = 98 -> 2
    [] num = 0 /\ i = 0 /\ c = 104 -> 16
    [] num = 0 /\ i = 1 /\ c = 120 -> 16
    [] OTHER -> 0

\* A prefix is no number by itself.
TooShort(c) == Len(Token) < IF c = 120 THEN 3 ELSE 2

Parsing == pc = "parse" /\ i < Len(Token)

ReadPrefix ==
  /\ Parsing /\ Prefix(Token[i + 1]) # 0
  /\ IF TooShort(Token[i + 1])
     THEN pc' = "string" /\ UNCHANGED <<i, base>>
     ELSE i' = i + 1 /\ base' = Prefix(Token[i + 1]) /\ UNCHANGED pc
  /\ UNCHANGED <<dump, line, start, end, num, words>>

ReadDigitUnbounded ==
  /\ Parsing /\ Prefix(Token[i + 1]) = 0
  /\ DigitToInt(Token[i + 1]) < base
  /\ num' = num * base + DigitToInt(Token[i + 1])
  /\ i' = i + 1
  /\ UNCHANGED <<dump, line, start, end, pc, base, words>>

ReadDigit ==
  /\ Parsing /\ Prefix(Token[i + 1]) = 0
  /\ DigitToInt(Token[i + 1]) < base
  /\ num' = (num * base + DigitToInt(Token[i + 1])) % Word
  /\ i' = i + 1
  /\ UNCHANGED <<dump, line, start, end, pc, base, words>>

NoDigit ==
  /\ Parsing /\ Prefix(Token[i + 1]) = 0
  /\ DigitToInt(Token[i + 1]) >= base
  /\ pc' = "string"
  /\ UNCHANGED <<dump, line, start, end, i, base, num, words>>

Parsed ==
  /\ pc = "parse" /\ i = Len(Token)
  /\ pc' = "number"
  /\ UNCHANGED <<dump, line, start, end, i, base, num, words>>

ParseNumber == ReadPrefix \/ ReadDigit \/ NoDigit \/ Parsed

-----------------------------------------------------------------------------
(* The loop over the arguments *)

Report(value) ==
  /\ words' = Append(words, [from |-> start, upto |-> end, value |-> value])
  /\ start' = end
  /\ pc' = "loop"
  /\ UNCHANGED <<dump, line, end, i, base, num>>

Number == pc = "number" /\ Report(num)

\* The token is no number; tok_num has left tok_start on it.
StringStays ==
  /\ pc = "string" /\ pc' = "loop"
  /\ UNCHANGED <<dump, line, start, end, i, base, num, words>>

String == pc = "string" /\ Report(None)

EndOfLine ==
  /\ pc = "loop" /\ start = Len(line)
  /\ pc' = "done"
  /\ UNCHANGED <<dump, line, start, end, i, base, num, words>>

Done == pc = "done" /\ UNCHANGED vars

\* The bus commands print a dump, byte by byte.
Printed(d) == BusOut(d.mode, d.bytes[1]) \o BusOut(d.mode, d.bytes[2])

Init ==
  /\ \/ dump = <<>> /\ line \in UNION {[1 .. n -> Chars] : n \in 0 .. LineMax}
     \/ \E d \in Dumps : dump = <<d>> /\ line = Printed(d)
  /\ start = 0 /\ end = 0
  /\ pc = "loop"
  /\ i = 0 /\ base = 10 /\ num = 0
  /\ words = <<>>

Next == Tok \/ ParseNumber \/ Number \/ String \/ EndOfLine \/ Done

Spec == Init /\ [][Next]_vars
FairSpec == Spec /\ WF_vars(Next)

-----------------------------------------------------------------------------
(* Properties *)

\* Types; the pointers stay in the line and in order, and the number in its word.
TypeOK ==
  /\ line \in Seq(0 .. 255)
  /\ start \in 0 .. Len(line) /\ end \in 0 .. Len(line)
  /\ pc \in {"loop", "parse", "number", "string", "done"}
  /\ pc \in {"parse", "number", "string"} => start <= end
  /\ pc = "parse" => i \in 0 .. end - start
  /\ base \in {2, 10, 16} /\ num \in 0 .. Word - 1
  /\ words \in Seq([from : 0 .. Len(line), upto : 0 .. Len(line), value : {None} \cup 0 .. Word - 1])

\* The words of a line: runs of characters other than blanks that cannot be
\* made longer.
WordsOf(s) ==
  {w \in (0 .. Len(s)) \X (0 .. Len(s)) :
     /\ w[1] < w[2] /\ \A k \in w[1] + 1 .. w[2] : s[k] \notin Blanks
     /\ w[1] = 0 \/ s[w[1]] \in Blanks
     /\ w[2] = Len(s) \/ s[w[2] + 1] \in Blanks}

\* The handlers get every word of the line once, in the order of the line;
\* blanks at the end of the line give one empty word after them (tok moves
\* *tok_start for its caller, also when it finds nothing).
EveryWordOnce ==
  pc = "done" =>
    LET full == {k \in 1 .. Len(words) : words[k].from < words[k].upto}
    IN /\ {<<words[k].from, words[k].upto>> : k \in full} = WordsOf(line)
       /\ \A j, k \in full : j < k => words[j].upto < words[k].from
       /\ \A k \in 1 .. Len(words) : k \in full \/ k = Len(words)

\* What the numeral s means: the rest after one of the prefixes, in its base.
Notations ==
  {[text |-> <<>>, base |-> 10], [text |-> <<98>>, base |-> 2], [text |-> <<48, 98>>, base |-> 2],
   [text |-> <<104>>, base |-> 16], [text |-> <<48, 120>>, base |-> 16]}

DigitsOf(b) == {d \in (48 .. 57) \cup (65 .. 70) \cup (97 .. 102) :
                  b = 16 \/ d \in 48 .. 47 + b}
DigitValue(d) == CASE d \in 48 .. 57 -> d - 48
                   [] d \in 65 .. 70 -> d - 65 + 10
                   [] d \in 97 .. 102 -> d - 97 + 10
ValueIn(b, s) ==
  LET value[n \in 0 .. Len(s)] == IF n = 0 THEN 0 ELSE value[n - 1] * b + DigitValue(s[n])
  IN  value[Len(s)]

Meant(s) ==
  {ValueIn(p.base, SubSeq(s, Len(p.text) + 1, Len(s))) % Word :
     p \in {q \in Notations : /\ IsStrictPrefix(q.text, s)
                             /\ \A k \in Len(q.text) + 1 .. Len(s) : s[k] \in DigitsOf(q.base)}}

\* Prefixes that the code takes one after the other, as "hb1" and "bx1", and a
\* "0b" with no digit, which it takes for 0.
TwoPrefixes(s) ==
  \/ Len(s) >= 2 /\ s[1] \in {98, 104} /\ s[2] \in {98, 120}
  \/ s = <<48, 98>>

\* Up to that, a word is taken for a number exactly if it is a numeral, with
\* its value modulo 2^32: no character below, between or above the ranges of
\* digits passes for one although digit_to_int tests none of them.
NumeralsOnly ==
  \A k \in 1 .. Len(words) :
    LET w == SubSeq(line, words[k].from + 1, words[k].upto)
    IN w = <<>> \/ TwoPrefixes(w) \/ words[k].value \in
         IF Meant(w) = {} THEN {None} ELSE Meant(w)

\* The bytes that the program prints are the numbers it reads when the text is
\* given back to it, as decimal, binary or 0x numbers; two hexadecimal digits
\* alone are not (41 is read as decimal), and a character is not.
ReadsBack ==
  pc = "done" /\ dump # <<>> /\ dump[1].mode \in {"BIN", "DEC", "0x8"} =>
    \A k \in 1 .. 2 : words[k].value = dump[1].bytes[k]

\* The loop over the arguments ends for every line, although tok_num advances
\* only over numbers.
LineEnds == <>(pc = "done")

=============================================================================
