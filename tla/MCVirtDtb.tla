----------------------------- MODULE MCVirtDtb -----------------------------
(* Boot's own tree, with and without a ramdisk, a seed and a command line, *)
(* in room that is exactly enough, one byte short, or far too small; and a *)
(* second client with names and values around each multiple of a word.  A  *)
(* cell is 28 bits wide: RAM and the ramdisk need a pair.                  *)
EXTENDS VirtDtb

MiB == 1048576
\* boot_initrd_addr, and the end of a ramdisk of n bytes there.
RamdiskIn(ram, n) == <<RamBase + (ram \div 4) * 3, RamBase + (ram \div 4) * 3 + n>>
MCParams ==
  {[cmdline |-> c, initrd |-> IF n = 0 THEN <<0, 0>> ELSE RamdiskIn(ram, n), seed |-> s,
    ram |-> ram] :
     c \in {Null, "console=ttyAMA0"}, n \in {0, 387264}, s \in {0, 32},
     ram \in {128 * MiB, 256 * MiB, 769 * MiB}}

MCClients ==
  {[cap |-> c, params |-> <<p>>] : c \in {12, 800, 1596, 1597, 1649, 1686}, p \in MCParams}
    \cup {[cap |-> c, params |-> <<>>] : c \in {12, 44, 52}}

TooLong == "a name that is too long to be that of a node"
Names == {"", "a", "bcd"}
Values ==
  {<<"empty", 0>>, <<"u64", 268435458>>, <<"bytes", 5>>, <<"str", "xyz">>, <<"strv", <<"a", "bc">>>>}
MCCalls ==
  {<<"begin", n>> : n \in Names} \cup {<<"end">>, <<"finish">>, <<"dispose">>}
    \cup {<<"begin", Null>>, <<"begin", TooLong>>}
    \cup {<<"prop", v[1], n, <<v[2]>>>> : v \in Values, n \in {"p", "reg"}}
    \cup {<<"prop", "u32", n, <<7>>>> : n \in {"p", "", Null, TooLong}}
    \cup {<<"prop", form, "p", <<>>>> : form \in {"str", "bytes", "cells", "strv"}}
    \cup {<<"prop", "strv", n, <<<<"a", Null>>>>>> : n \in {"p", ""}}

MCUart == <<150994944, 4096>>
MCDist == <<134217728, 65536>>
MCCpuif == <<134283264, 65536>>
=============================================================================
