----------------------------- MODULE MCBusPins -----------------------------
(* TLC instance of BusPins. *)
EXTENDS BusPins

\* A write address, a read address, and a data byte; 255 is odd and maximal.
MCBytes == {0, 166, 255}
=============================================================================
