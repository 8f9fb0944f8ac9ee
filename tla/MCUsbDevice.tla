----------------------------- MODULE MCUsbDevice -----------------------------
(* TLC instance of UsbDevice: a build with a UART console, which can change   *)
(* the mode again.                                                            *)
EXTENDS UsbDevice

MCDefaults == {"CDC", "JTAG"}   \* USBMODE_DEFAULT is CDC in the Makefile
MCCommands == {"AVRISP"}        \* jtag is defined, but not in the table
=============================================================================
