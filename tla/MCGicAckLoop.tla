--------------------------- MODULE MCGicAckLoop ---------------------------
(* Model-checking instance of GicAckLoop: every content of three-line       *)
(* tables with two priority bytes.                                          *)
EXTENDS GicAckLoop
=============================================================================
