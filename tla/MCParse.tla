------------------------------ MODULE MCParse -------------------------------
(* TLC instance of Parse: blanks, digits, the prefixes' letters, the other *)
(* hexadecimal digits' limits, and the characters next to them in ASCII.    *)
EXTENDS Parse

MCChars == {9, 32, 47, 48, 49, 57, 58, 70, 71, 98, 102, 104, 120}

\* Every byte, next to ones with zeros where a conversion may lose them.
MCDumps == [mode : OutModes, bytes : (0 .. 255) \X {0, 100}]
=============================================================================
