-------------------------------- MODULE Main --------------------------------
(***************************************************************************)
(* The process: main() of main.c parses the command line and calls run()   *)
(* or boot().                                                              *)
(*                                                                         *)
(* A command line is [cmd, file, args], args a sequence of options, each   *)
(* [name, given, value]: `given' is "none" when the line ends there, "bad" *)
(* when the text does not parse, and "good" otherwise.  A value is a file, *)
(* <<"number", n>> or <<"serial", where to>>.                              *)
(***************************************************************************)
EXTENDS UserRun, BootSetup

CONSTANTS CommandLines, RamDefault

\* parse_mib, parse_entry, parse_max_insns and parse_serial refuse a bad text;
\* every other option takes any.
Parsed == {"-m", "--entry", "--max-insns", "--serial", "-serial"}
TakesValue == Parsed \cup {"-append", "-dtb", "-initrd"}

\* --smp, -smp, and whatever is not an option at all end in a usage error too.
Refused(arg) ==
  \/ arg.name \notin TakesValue
  \/ arg.given = "none"
  \/ arg.name \in Parsed /\ arg.given = "bad"

\* What the value of an option that the parsers accept denotes.
OptionValue(arg) ==
  /\ arg.name = "-initrd" => Initrd(arg.value) \in Nat
  /\ arg.name = "-dtb" => TreeFile(arg.value)
  /\ arg.name = "-m" => RamSize(arg.value[2])
  /\ arg.name = "--entry" => arg.value[2] \in Nat

ASSUME CommandLineAssumption ==
  /\ RamSize(RamDefault)
  /\ \A line \in CommandLines :
       /\ Len(line.args) \in Nat /\ DOMAIN line.args = 1 .. Len(line.args)
       /\ \A i \in DOMAIN line.args : ~Refused(line.args[i]) => OptionValue(line.args[i])
       /\ line.file # NoFile => /\ line.cmd = "run" => ElfFile(line.file)
                                /\ line.cmd = "boot" => KernelFile(line.file)

VARIABLE argv

vars == <<argv, hostVars, userVars, bootVars>>

EXIT_USAGE == 2

Init ==
  /\ argv \in CommandLines
  /\ HostInit
  /\ UserIdle
  /\ BootIdle

-----------------------------------------------------------------------------
\* The loops over the options: the last of each kind wins.
LastOf(args, names, default) ==
  LET hits == {i \in DOMAIN args : args[i].name \in names}
  IN IF hits = {} THEN default ELSE args[CHOOSE i \in hits : \A j \in hits : j <= i].value

\* --serial stdio and --serial file:PATH set two options that exclude nothing;
\* a path given anywhere on the line is opened.
SerialOf(args) ==
  IF \E i \in DOMAIN args : args[i].name \in {"--serial", "-serial"} /\ args[i].value[2] = "file"
  THEN "file" ELSE LastOf(args, {"--serial", "-serial"}, <<"serial", "stdout">>)[2]

NumberOf(name, default) == LastOf(argv.args, {name}, <<"number", default>>)[2]

BootOpts ==
  [kernel |-> argv.file,
   initrd |-> LastOf(argv.args, {"-initrd"}, NoFile),
   dtb |-> LastOf(argv.args, {"-dtb"}, NoFile),
   cmdline |-> NumberOf("-append", -1),
   ram |-> NumberOf("-m", RamDefault),
   serial |-> SerialOf(argv.args),
   entry |-> NumberOf("--entry", 0)]

Leave(code) ==
  /\ exit' = code
  /\ phase' = "exited"
  /\ UNCHANGED <<heap, ptr, faults, bufs, left, userVars, bootVars>>

MainHelp == argv.cmd = "--help" /\ Leave(0)

MainBoot ==
  /\ argv.cmd = "boot"
  /\ IF argv.file = NoFile \/ \E i \in DOMAIN argv.args : Refused(argv.args[i])
     THEN Leave(EXIT_USAGE)
     ELSE opts' = BootOpts /\ Goto("boot_kernel") /\ UNCHANGED <<tree, hdr, machine, userVars>>

\* run() takes --max-insns and no other option.
MainRun ==
  /\ argv.cmd = "run"
  /\ IF \/ argv.file = NoFile
        \/ \E i \in DOMAIN argv.args :
             argv.args[i].name # "--max-insns" \/ Refused(argv.args[i])
     THEN Leave(EXIT_USAGE)
     ELSE /\ prog' = argv.file
          /\ budget' = NumberOf("--max-insns", Top)
          /\ Goto("run_file")
          /\ UNCHANGED <<execVars, load, bootVars>>

MainUsage == argv.cmd \notin {"--help", "boot", "run"} /\ Leave(EXIT_USAGE)

ParseArgs ==
  /\ phase = "main"
  /\ MainHelp \/ MainBoot \/ MainRun \/ MainUsage
  /\ UNCHANGED argv

RunStep == argv.cmd = "run" /\ UserNext /\ UNCHANGED <<bootVars, argv>>
BootStep == argv.cmd = "boot" /\ BootNext /\ UNCHANGED <<userVars, argv>>

Exited == phase = "exited" /\ UNCHANGED vars

Next == ParseArgs \/ RunStep \/ BootStep \/ Exited

Spec == Init /\ [][Next]_vars

-----------------------------------------------------------------------------
(* In both region tables, guest memory and the machine's bus, every region *)
(* lies inside the address space and no byte belongs to two, whatever was  *)
(* asked to be mapped and in which order: an access finds one region, and  *)
(* which one does not depend on the order of the table.                    *)
TableSound == SoundTable(regions) /\ SoundTable(machine.regions)

(* Whatever fails, and wherever: no path frees a block twice or reaches    *)
(* past the end of one, and when the process leaves, through any of the    *)
(* gotos to its one cleanup, nothing it allocated is still there.  The one *)
(* block that may be overrun is the -dtb file's, and only by a file whose  *)
(* properties run past its own end: the two patchers trust dlen and        *)
(* name_off, and boot() checked no more than the header.                   *)
Overruns ==
  IF opts.dtb = NoFile \/ Whole(Dtb(opts.dtb).tokens, tree.len) THEN {} ELSE {"dtb"}
HeapSound ==
  /\ faults \subseteq Overruns
  /\ heap \subseteq ptr
  /\ exit # -1 => heap = {}
=============================================================================
