------------------------------- MODULE Stacks -------------------------------
(***************************************************************************)
(* What the guest is promised about its stack pointers: one independent    *)
(* register per bank.  The code of sysreg.c and exc.c keeps them in one    *)
(* live register and a table with a stale slot; Exception implements this  *)
(* module (see StackRefinement).                                           *)
(***************************************************************************)
EXTENDS Integers

CONSTANT Values

VARIABLES
  el,     \* the exception level
  bank,   \* the bank SP names: 0 or the current level
  stack   \* the value of every bank

stackVars == <<el, bank, stack>>

StacksInit ==
  /\ el \in 0 .. 3
  /\ bank = el
  /\ \E v \in Values : stack = [b \in 0 .. 3 |-> IF b = bank THEN v ELSE 0]

\* Writing SP writes the named bank.
WriteNamed ==
  /\ \E v \in Values : stack' = [stack EXCEPT ![bank] = v]
  /\ UNCHANGED <<el, bank>>

\* A privileged register write names the bank of a lower level.
WriteLower ==
  /\ \E b \in 0 .. 3, v \in Values : b < el /\ stack' = [stack EXCEPT ![b] = v]
  /\ UNCHANGED <<el, bank>>

\* Exceptions, returns and SPSel change which bank is named, never a value.
Select ==
  /\ el' \in 0 .. 3
  /\ bank' \in {0, el'}
  /\ UNCHANGED stack

StacksNext == WriteNamed \/ WriteLower \/ Select
StacksSpec == StacksInit /\ [][StacksNext]_stackVars
=============================================================================
