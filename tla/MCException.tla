---------------------------- MODULE MCException ----------------------------
(* Model-checking instance of Exception for a guest started at EL1, as the *)
(* boot path starts it.  The SPSR values the guest writes are a return to  *)
(* user mode, to either stack of EL1, upward, to a reserved mode, to EL0h  *)
(* and to an illegal state.                                                *)
EXTENDS Exception

SpsrValue(e, s, il, bad) ==
  [el |-> e, spsel |-> s, daif |-> {}, nzcv |-> 0, il |-> il, bad |-> bad]

MCGuestSpsr ==
  {SpsrValue(0, 0, FALSE, FALSE), SpsrValue(1, 0, FALSE, FALSE),
   SpsrValue(1, 1, FALSE, FALSE), SpsrValue(3, 1, FALSE, FALSE),
   SpsrValue(0, 1, FALSE, FALSE), SpsrValue(0, 0, FALSE, TRUE),
   SpsrValue(0, 0, TRUE, FALSE)}
=============================================================================
