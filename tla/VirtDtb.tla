------------------------------ MODULE VirtDtb ------------------------------
(***************************************************************************)
(* The tree of the virt machine, dev/virt_dtb.c: the calls each emit_*     *)
(* function makes, in order.  oemu_virt_dtb_build stops at the first that  *)
(* is refused.  The four PSCI function numbers are known by name.          *)
(***************************************************************************)
EXTENDS Fdt

CONSTANTS
  Clients,                      \* [cap, params]: params <<p>> for boot(), <<>> for another
  Calls,                        \* the calls of another client of the builder
  RamBase, Uart, Dist, Cpuif,   \* main.c's layout: <<base, size>>
  UartSpi, PhysPpi, VirtPpi     \* and wiring

VARIABLES
  client,   \* who builds, in a scratch of which capacity
  calls     \* the calls oemu_virt_dtb_build has still to make

vars == <<fdtVars, client, calls>>

\* The addresses that virt_dtb.c repeats.
VIRT_UART == <<150994944, 4096>>
VIRT_GIC_DIST == <<134217728, 65536>>
VIRT_GIC_CPU == <<134283264, 65536>>

PHANDLE_INTC == 1
PHANDLE_OSC == 2

Begin(name) == <<"begin", name>>
End == <<"end">>
Put(form, name, arg) == <<"prop", form, name, <<arg>>>>
Str(name, s) == Put("str", name, s)
U32(name, n) == Put("u32", name, n)
Cells(name, cs) == Put("cells", name, cs)

\* prop_reg64
Reg64(name, r) == Cells(name, Split(r[1]) \o Split(r[2]))

EmitRootProps ==
  <<U32("#address-cells", 2), U32("#size-cells", 2), Str("compatible", "linux,dummy-virt"),
    Str("model", "oemu-virt"), U32("interrupt-parent", PHANDLE_INTC)>>

DefaultCmdline == "console=ttyAMA0 earlycon=pl011,0x9000000 panic=-1"

EmitChosen(p) ==
  <<Begin("chosen"),
    Str("bootargs", IF p.cmdline = Null THEN DefaultCmdline ELSE p.cmdline),
    Put("u64", "linux,initrd-start", p.initrd[1]),
    Put("u64", "linux,initrd-end", p.initrd[2]),
    Str("stdout-path", "/pl011@9000000")>>
  \o (IF p.seed # 0 THEN <<Put("bytes", "rng-seed", p.seed)>> ELSE <<>>) \o <<End>>

EmitAliases == <<Begin("aliases"), Str("serial0", "/pl011@9000000"), End>>

EmitPsci ==
  <<Begin("psci"), Str("compatible", "arm,psci-1.0"), Str("method", "smc"),
    U32("cpu_on", "CPU_ON_64"), U32("cpu_off", "CPU_OFF"),
    U32("cpu_suspend", "CPU_SUSPEND_64"), U32("migrate", "MIGRATE_64"), End>>

\* The name is formatted from ram_base, for boot() always the same.
EmitMemory(p) ==
  <<Begin("memory@40000000"), Str("device_type", "memory"),
    Reg64("reg", <<RamBase, p.ram>>), End>>

EmitCpus ==
  <<Begin("cpus"), U32("#address-cells", 1), U32("#size-cells", 0),
    Begin("cpu@0"), Str("device_type", "cpu"), Str("compatible", "arm,cortex-a53"),
    Str("enable-method", "psci"), U32("reg", 0), End, End>>

EmitIntc ==
  <<Begin("interrupt-controller@8000000"), Str("compatible", "arm,cortex-a15-gic"),
    Cells("reg", <<0, VIRT_GIC_DIST[1], 0, VIRT_GIC_DIST[2],
                   0, VIRT_GIC_CPU[1], 0, VIRT_GIC_CPU[2]>>),
    U32("#interrupt-cells", 3), Put("empty", "interrupt-controller", 0),
    U32("phandle", PHANDLE_INTC), End>>

\* Mutant: the timer's interrupts in the order of the comment above them.
EmitTimerByComment ==
  <<Begin("timer"), Str("compatible", "arm,armv8-timer"),
    Cells("interrupts", <<1, 14, 3844, 1, 11, 3844, 1, 10, 3844, 1, 13, 3844>>),
    Put("empty", "always-on", 0), End>>

EmitTimer ==
  <<Begin("timer"), Str("compatible", "arm,armv8-timer"),
    Cells("interrupts", <<1, 13, 3844, 1, 14, 3844, 1, 11, 3844, 1, 10, 3844>>),
    Put("empty", "always-on", 0), End>>

EmitOsc ==
  <<Begin("oscillator"), Str("compatible", "fixed-clock"), U32("#clock-cells", 0),
    U32("clock-frequency", 25000000), U32("phandle", PHANDLE_OSC), End>>

EmitPl011 ==
  <<Begin("pl011@9000000"), Put("strv", "compatible", <<"arm,pl011", "arm,primecell">>),
    Reg64("reg", VIRT_UART), Cells("interrupts", <<0, 1, 4>>),
    Cells("clocks", <<PHANDLE_OSC, PHANDLE_OSC>>),
    Put("strv", "clock-names", <<"uartclk", "apb_pclk">>), End>>

\* oemu_virt_dtb_build, which also closes the root and finishes.
VirtTree(p) ==
  EmitRootProps \o EmitChosen(p) \o EmitAliases \o EmitPsci \o EmitMemory(p) \o EmitCpus
    \o EmitIntc \o EmitTimer \o EmitOsc \o EmitPl011 \o <<End, <<"finish">>>>

-----------------------------------------------------------------------------
Make(call) ==
  CASE call[1] = "begin"   -> BeginNode(call[2])
    [] call[1] = "end"     -> EndNode
    [] call[1] = "prop"    -> Prop(call[2], call[3], call[4])
    [] call[1] = "finish"  -> Finish
    [] call[1] = "dispose" -> Dispose

Init ==
  /\ FdtInit
  /\ client \in Clients
  /\ calls = <<>>

Booting == client.params # <<>>
Initialised == log # <<>> \/ st # "OK"

\* boot(): oemu_fdt_init, then the script; at the end its cleanup.
Start ==
  /\ ~Initialised
  /\ InitFdt(client.cap)
  /\ calls' = IF Booting /\ st' = "OK" THEN VirtTree(client.params[1]) ELSE <<>>
  /\ UNCHANGED client

BuildStep ==
  /\ calls # <<>>
  /\ Make(Head(calls))
  /\ calls' = IF st' = "OK" THEN Tail(calls) ELSE <<>>
  /\ UNCHANGED client

Cleanup ==
  /\ Booting /\ Initialised /\ calls = <<>>
  /\ Dispose
  /\ UNCHANGED <<client, calls>>

\* Any other client calls in any order, whatever it is told.
AnyCall ==
  /\ ~Booting /\ Initialised
  /\ \E call \in Calls : Make(call)
  /\ UNCHANGED <<client, calls>>

Next == Start \/ BuildStep \/ Cleanup \/ AnyCall

Spec == Init /\ [][Next]_vars

-----------------------------------------------------------------------------
Answer(path, prop) == Find(fdt.data, path, prop)
Read(path, prop) == Answer(path, prop)[3][2][2]

\* What a guest makes of pairs of cells: one 64-bit number of each.
Reads(cells, numbers) ==
  /\ Len(cells) = 2 * Len(numbers)
  /\ \A i \in DOMAIN cells : cells[i] \in 0 .. CellBase - 1
  /\ \A i \in DOMAIN numbers : cells[2 * i - 1] * CellBase + cells[2 * i] = numbers[i]

(* The tree the guest is handed describes the machine boot() assembled     *)
(* from its own copy of the layout: each address and interrupt number is   *)
(* the one main.c attaches or raises, the ramdisk and RAM are where they   *)
(* were put, and each reference in it, by phandle or by path, reaches the  *)
(* node it is meant for.  For the virtual timer that is PPI 27, as the     *)
(* comment at main.c's #define has it; boot_refresh_levels' says 26.       *)
TreeDescribesMachine ==
  Booting /\ fdt.data # NoBlob =>
    LET p == client.params[1]
        intc == <<"interrupt-controller@8000000">>
        uart == <<"pl011@9000000">>
        timer == Read(<<"timer">>, "interrupts")
    IN /\ Reads(Read(uart, "reg"), Uart)
       /\ Reads(Read(intc, "reg"), Dist \o Cpuif)
       /\ Reads(Read(<<"memory@40000000">>, "reg"), <<RamBase, p.ram>>)
       /\ Reads(Read(<<"chosen">>, "linux,initrd-start"), <<p.initrd[1]>>)
       /\ Reads(Read(<<"chosen">>, "linux,initrd-end"), <<p.initrd[2]>>)
       /\ p.cmdline # Null => Read(<<"chosen">>, "bootargs") = p.cmdline
       /\ (Answer(<<"chosen">>, "rng-seed")[1] = "OK") = (p.seed # 0)
       /\ Read(uart, "interrupts")[2] + 32 = UartSpi
       /\ timer[5] + 16 = PhysPpi /\ timer[8] + 16 = VirtPpi
       /\ Read(<<>>, "interrupt-parent") = Read(intc, "phandle")
       /\ \A i \in 1 .. 2 : Read(uart, "clocks")[i] = Read(<<"oscillator">>, "phandle")
       /\ Read(<<"chosen">>, "stdout-path") = Read(<<"aliases">>, "serial0")
=============================================================================
