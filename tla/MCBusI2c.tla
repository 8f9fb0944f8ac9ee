------------------------------ MODULE MCBusI2c ------------------------------
(* TLC instance of BusI2c. *)
EXTENDS BusI2c

\* A write address, a read address, and a data byte; 255 is odd and maximal.
MCBytes == {0, 166, 255}
=============================================================================
