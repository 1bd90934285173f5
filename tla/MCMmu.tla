------------------------------- MODULE MCMmu --------------------------------
(* A two-level tree (start level 2, two-way tables).  Frame 0 is the root, *)
(* frame 1 a level-3 table that also maps itself, frame 2 plain RAM, frame *)
(* 3 a device; frame 4 is beyond the bus.                                  *)
EXTENDS Mmu, TLC

Desc(type, addr, af, user, ro, tattrs) ==
  [type |-> type, addr |-> addr, af |-> af, user |-> user, ro |-> ro,
   xn |-> FALSE, pxn |-> FALSE, tattrs |-> tattrs]
Invalid == Desc("invalid", 0, FALSE, FALSE, FALSE, {})
Table(f, tattrs) == Desc("table", f, TRUE, FALSE, FALSE, tattrs)
Page(f, user, ro) == Desc("table", f, TRUE, user, ro, {})
Old(f) == Desc("table", f, FALSE, TRUE, FALSE, {})     \* access flag clear

MCBus == [f \in 0 .. 3 |-> IF f = 3 THEN {"read", "write"} ELSE Kinds]
MCRam ==
  [f \in 0 .. 3 |->
    CASE f = 0 -> (0 :> Table(1, {}) @@ 1 :> Desc("block", 2, TRUE, TRUE, TRUE, {}))
      [] f = 1 -> (0 :> Page(1, TRUE, FALSE) @@ 1 :> Page(2, FALSE, FALSE))
      [] OTHER -> (0 :> Invalid @@ 1 :> Invalid)]

Va(vpn, tag) == [half |-> 0, vpn |-> vpn, tag |-> tag]
TcrOf(tbi, epd) == [t |-> [h \in {0, 1} |-> IF h = 0 THEN 2 ELSE -1],
                    epd |-> epd, tbi |-> tbi, out |-> 4]
MCRegs == [SCTLR |-> {"M"}, TCR |-> TcrOf({}, {}), TTBR0 |-> 0, TTBR1 |-> 0, MAIR |-> 0]
MCVas == {Va(0, FALSE), Va(1, FALSE), Va(2, FALSE), Va(1, TRUE)}
MCValues == {Page(3, TRUE, FALSE), Old(2)}
MCRegValues == [SCTLR |-> {{}, {"M"}, {"M", "A"}}, TCR |-> {TcrOf({0}, {}), TcrOf({}, {0})},
                TTBR0 |-> {1}, TTBR1 |-> {}, MAIR |-> {}]
=============================================================================
