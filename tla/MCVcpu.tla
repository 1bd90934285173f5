------------------------------ MODULE MCVcpu ------------------------------
(* Model-checking instance of Vcpu: the guest's own SPSR value returns to  *)
(* user mode, interrupted code to EL0 and EL1; the flags and the stack     *)
(* pointers, which no decision of the step reads, have one value each.     *)
EXTENDS Vcpu

SpsrValue(e, s) ==
  [el |-> e, spsel |-> s, daif |-> {}, nzcv |-> 0, il |-> FALSE, bad |-> FALSE]

MCUserSpsr == {SpsrValue(0, 0)}
=============================================================================
