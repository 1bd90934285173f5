------------------------------ MODULE MCGicV2 ------------------------------
(* Model-checking instance of GicV2: a PPI (27, the virtual timer) and an  *)
(* SPI (33, the UART), or one more SPI; the masks close and open the gate.  *)
EXTENDS GicV2
=============================================================================
