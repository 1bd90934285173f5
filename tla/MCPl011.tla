------------------------------ MODULE MCPl011 ------------------------------
(* Model-checking instance of Pl011: the CR values a driver moves through  *)
(* (off, receiver on and off, loopback self-test), with and without the    *)
(* transmit FIFO.                                                          *)
EXTENDS Pl011

MCCrValues ==
  {{}, {"UARTEN", "RXE"}, {"UARTEN", "RXE", "LBE"}, {"RXE", "LBE"},
   {"UARTEN", "FEN"}, {"UARTEN", "RXE", "LBE", "FEN"}}
=============================================================================
