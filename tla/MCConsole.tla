----------------------------- MODULE MCConsole ------------------------------
(* TLC instance of Console: a keyboard with an ordinary key that ends a      *)
(* menu, '+', Enter and Backspace.                                           *)
EXTENDS Console
=============================================================================
