------------------------------- MODULE Format -------------------------------
(***************************************************************************)
(* How the program prints a byte it has read from a bus: bus_out of         *)
(* src/src/bus.c and the conversions of src/src/console.c.  A text is a     *)
(* sequence of ASCII codes.                                                 *)
(***************************************************************************)
EXTENDS Integers, Sequences

NibbleToChar(n) == IF n < 10 THEN n + 48 ELSE n - 10 + 65

PutHex8(h) == <<NibbleToChar(h \div 16), NibbleToChar(h % 16)>>
Put0x8(h) == <<48, 120>> \o PutHex8(h)
PutBin(b) == <<98>> \o [k \in 1 .. 8 |-> 48 + ((b \div 2 ^ (8 - k)) % 2)]

\* console_putdec: m is 10^9, 10^8 ... 10, and the last digit is what remains.
DigitWithoutZeros(acc, m) ==
  [n |-> acc.n % m,
   text |-> IF acc.n \div m # 0 THEN Append(acc.text, NibbleToChar(acc.n \div m)) ELSE acc.text]
Digit(acc, m) ==
  [n |-> acc.n % m,
   text |-> IF acc.n \div m # 0 \/ acc.text # <<>>
            THEN Append(acc.text, NibbleToChar(acc.n \div m)) ELSE acc.text]
PutDec(n) ==
  LET acc[k \in 0 .. 9] == IF k = 0 THEN [n |-> n, text |-> <<>>]
                                    ELSE Digit(acc[k - 1], 10 ^ (10 - k))
  IN  Append(acc[9].text, NibbleToChar(acc[9].n))

OutModes == {"ASCII", "BIN", "DEC", "HEX8", "0x8", "SILENT"}

\* With the log off, a blank follows each byte.
BusOut(mode, c) ==
  (CASE mode = "ASCII" -> <<c>>
     [] mode = "BIN" -> PutBin(c)
     [] mode = "DEC" -> PutDec(c)
     [] mode = "HEX8" -> PutHex8(c)
     [] mode = "0x8" -> Put0x8(c)
     [] mode = "SILENT" -> <<>>) \o <<32>>
=============================================================================
