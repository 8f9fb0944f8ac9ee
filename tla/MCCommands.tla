----------------------------- MODULE MCCommands -----------------------------
(* TLC instance of Commands: all lines of up to five characters. "2" is the  *)
(* only digit, "p" and "i" are the commands that enter SPI and I2C mode.     *)
EXTENDS Commands

MCAlphabet == {" ", "#", "[", "{", "]", ":", "2", "r", "s", "p", "i"}
MCDigit == [c \in {"2"} |-> 2]
MCBusOf == [c \in {"p", "i"} |-> IF c = "p" THEN "spi" ELSE "i2c"]
=============================================================================
