------------------------------ MODULE MCHwI2c -------------------------------
(* TLC instance of HwI2c: bytes of eight bits, a slave at address 0x53, as *)
(* the EEPROM of src/test/i2c that is written at 0xA6 and read at 0xA7.    *)
EXTENDS HwI2c

AsBits(n) == [i \in 1..Bits |-> (n \div 2^(Bits - i)) % 2 = 1]

MCOwn == Front(AsBits(166))

\* The slave's address to write and to read, an address nobody has, and data
\* bytes that begin with a 0 and with a 1.
MCBytes == {AsBits(n) : n \in {166, 167, 18, 0, 129}}
=============================================================================
