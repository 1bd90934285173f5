-------------------------------- MODULE Fdt --------------------------------
(***************************************************************************)
(* The flattened-device-tree builder and reader of src/src/fdt/fdt.c.      *)
(*                                                                         *)
(* The structure block is a sequence of 32-bit words, each tagged with     *)
(* what it holds: a token, a number, the start of a node's name or of a    *)
(* property's value, or the rest of one.  The strings block is the set of  *)
(* <<offset, name>> it holds.  Lengths and offsets are in bytes.           *)
(***************************************************************************)
EXTENDS Integers, Sequences, SequencesExt, FiniteSets

CONSTANTS
  MinCap,        \* FDT_MIN_CAP
  MaxName,       \* OEMU_FDT_MAX_NAME
  StructOff,     \* FDT_HEADER_SIZE + FDT_RSV_MAP_SIZE
  MaxNesting,    \* the reader's stack
  CellBase       \* 2^32: what a cell counts up to

VARIABLES
  fdt,           \* the oemu_fdt
  st,            \* the status of the last call
  log,           \* history: the calls accepted, in order
  stray          \* history: how many were, when a refused finish first left its END

fdtVars == <<fdt, st, log, stray>>

WORD == 4
Pad4(n) == ((n + 3) \div 4) * 4
Null == "NULL"

NoBlob == [len |-> 0, off_strings |-> 0, words |-> <<>>, strings |-> {}]

\* sb is whether the scratch is allocated, data the finished blob.
Zeroed == [sb |-> FALSE, cap |-> 0, depth |-> 0, words |-> <<>>, strings |-> {},
           str_len |-> 0, data |-> NoBlob]

FdtInit == fdt = Zeroed /\ st = "OK" /\ log = <<>> /\ stray = -1

-----------------------------------------------------------------------------
(* Emission.                                                               *)
\* fdt_fits
Fits(f, need) == WORD * Len(f.words) + f.str_len + need <= f.cap

Rest(bytes) == [i \in 1 .. (bytes \div WORD) - 1 |-> <<"rest">>]

\* fdt_emit_token and the inline name, padded with its NUL to a word.
NodeWords(name) == <<<<"token", "BEGIN">>, <<"name", name>>>> \o Rest(Pad4(Len(name) + 1))

\* fdt_prop_emit, and its copies in the cell and string-list forms: length,
\* then name offset, then the value, padded.
PropWords(off, value) ==
  <<<<"token", "PROP">>, <<"num", value.len>>, <<"num", off>>>>
    \o (IF value.len = 0 THEN <<>> ELSE <<<<"value", value.of>>>> \o Rest(Pad4(value.len)))

Refuse(status) == st' = status /\ UNCHANGED <<fdt, log, stray>>
Accept(f, call) ==
  /\ fdt' = f
  /\ st' = "OK"
  /\ log' = Append(log, call)
  /\ UNCHANGED stray

\* oemu_fdt_init, which opens the root node.
InitFdt(cap) ==
  \/ cap < MinCap /\ Refuse("INVALID_ARG")
  \/ Refuse("NO_MEMORY")
  \/ /\ cap >= MinCap
     /\ Accept([Zeroed EXCEPT !.sb = TRUE, !.cap = cap, !.depth = 1, !.words = NodeWords("")],
               <<"begin", "">>)

\* oemu_fdt_dispose
Dispose == fdt' = Zeroed /\ st' = "OK" /\ log' = <<>> /\ stray' = -1

BeginNode(name) ==
  IF ~fdt.sb THEN Refuse("STATE")
  ELSE IF name = Null \/ Len(name) >= MaxName THEN Refuse("INVALID_ARG")
  ELSE IF ~Fits(fdt, WORD + Pad4(Len(name) + 1)) THEN Refuse("NO_MEMORY")
  ELSE Accept([fdt EXCEPT !.words = @ \o NodeWords(name), !.depth = @ + 1], <<"begin", name>>)

EndNode ==
  IF ~fdt.sb \/ fdt.depth <= 0 THEN Refuse("STATE")
  ELSE IF ~Fits(fdt, WORD) THEN Refuse("NO_MEMORY")
  ELSE Accept([fdt EXCEPT !.words = Append(@, <<"token", "END_NODE">>), !.depth = @ - 1],
              <<"end">>)

\* A 64-bit number as two cells, the high one first.
Split(n) == <<n \div CellBase, n % CellBase>>

\* The value of a property in each form: its bytes, and what they encode.
ValueOf(form, arg) ==
  [of  |-> <<form, IF form = "u64" THEN Split(arg) ELSE arg>>,
   len |-> CASE form = "empty" -> 0
             [] form = "u32"   -> WORD
             [] form = "u64"   -> 2 * WORD
             [] form = "bytes" -> arg
             [] form = "str"   -> Len(arg) + 1
             [] form = "cells" -> WORD * Len(arg)
             [] form = "strv"  -> FoldLeft(LAMBDA n, s : n + Len(s) + 1, 0, arg)]

\* fdt_prop_guard's checks, in order.
PropGuard(name, len) ==
  IF ~fdt.sb THEN "STATE"
  ELSE IF name = Null \/ name = "" THEN "INVALID_ARG"
  ELSE IF fdt.depth <= 0 THEN "STATE"
  ELSE IF Len(name) + 1 > MaxName \/ ~Fits(fdt, 3 * WORD + Pad4(len) + Len(name) + 1)
         THEN "NO_MEMORY"
  ELSE "OK"

\* Mutant: the name is interned before it is known to fit.
InternedEarly(f, name, verdict) ==
  IF name \in {Null, ""} \/ ~f.sb THEN f
  ELSE [f EXCEPT !.strings = @ \cup {<<f.str_len, name>>}, !.str_len = @ + Len(name) + 1]

\* fdt_intern, once the guard has passed; a name is never looked for.
Interned(f, name, verdict) ==
  IF verdict # "OK" THEN f
  ELSE [f EXCEPT !.strings = @ \cup {<<f.str_len, name>>}, !.str_len = @ + Len(name) + 1]

\* oemu_fdt_prop_empty, _u32, _u64, _bytes, _str, _cells, _strv; arg
\* is <<>> for a NULL value, which is refused before the guard, by _strv only
\* after the state; so is a NULL among its strings.
Prop(form, name, arg) ==
  LET null == arg = <<>> \/ (form = "strv" /\ Null \in Range(arg[1]))
      value == ValueOf(form, arg[1])
      verdict == PropGuard(name, value.len)
      with == Interned(fdt, name, verdict)
  IN IF null THEN Refuse(IF form = "strv" /\ ~fdt.sb THEN "STATE" ELSE "INVALID_ARG")
     ELSE IF verdict = "OK"
     THEN Accept([with EXCEPT !.words = @ \o PropWords(fdt.str_len, value)],
                 <<"prop", name, value>>)
     ELSE fdt' = with /\ st' = verdict /\ UNCHANGED <<log, stray>>

\* oemu_fdt_finish: the END word goes out before the blob is allocated, and
\* stays when that fails.
Finish ==
  LET closed == Append(fdt.words, <<"token", "END">>)
  IN IF ~fdt.sb \/ fdt.depth # 0 THEN Refuse("STATE")
     ELSE IF ~Fits(fdt, WORD) THEN Refuse("NO_MEMORY")
     ELSE /\ UNCHANGED log
          /\ \/ /\ st' = "NO_MEMORY" /\ fdt' = [fdt EXCEPT !.words = closed]
                /\ stray' = IF stray = -1 THEN Len(log) ELSE stray
             \/ /\ st' = "OK" /\ stray' = stray
                /\ fdt' = [fdt EXCEPT
                     !.sb = FALSE,
                     !.words = closed,
                     !.data = [len |-> StructOff + WORD * Len(closed) + fdt.str_len,
                               off_strings |-> StructOff + WORD * Len(closed),
                               words |-> closed, strings |-> fdt.strings]]

-----------------------------------------------------------------------------
(* oemu_fdt_internal_find: the value of a property, by its node's path.  A *)
(* path is the sequence of names below the root, spelled with a slash      *)
(* before each: a root's child without a name has the root's own path.     *)
(* A frame of the stack has the number of names matched, -1 for a node off *)
(* the path.                                                               *)
WordAt(blob, i) == IF i + 1 \in DOMAIN blob.words THEN blob.words[i + 1] ELSE <<"strings">>
Beyond(blob, i, bytes) == StructOff + WORD * i + bytes > blob.len

Root(path) == path \in {<<>>, <<"">>}
Target(path, frame) == IF frame = 0 THEN Root(path) ELSE frame = Len(path)

\* The frame of a node below the frames of `stack'.
FrameOf(stack, name, path) ==
  LET up == stack[Len(stack)]
  IN CASE stack = <<>> -> IF name = "" THEN 0 ELSE -1
       [] stack # <<>> /\ (up = -1 \/ Target(path, up)) -> -1
       [] OTHER -> IF name = path[up + 1] THEN up + 1 ELSE -1

Over(s, answer) == [s EXCEPT !.answer = answer]
NotFound == <<"NOT_FOUND">>
Malformed == <<"FORMAT">>

\* One token: s is the word to read next, the stack and the answer, if known.
ReadToken(blob, path, prop, s) ==
  LET token == WordAt(blob, s.at)
      stack == s.stack
      onTarget == stack # <<>> /\ Target(path, stack[Len(stack)])
      name == WordAt(blob, s.at + 1)[2]
      dlen == WordAt(blob, s.at + 1)[2]
      off == WordAt(blob, s.at + 2)[2]
  IN CASE Beyond(blob, s.at, WORD) -> Over(s, NotFound)
       [] ~Beyond(blob, s.at, WORD) /\ token = <<"token", "END">> -> Over(s, NotFound)
       [] ~Beyond(blob, s.at, WORD) /\ token = <<"token", "END_NODE">> ->
            IF onTarget THEN Over(s, NotFound)
            ELSE [s EXCEPT !.at = @ + 1, !.stack = IF @ = <<>> THEN @ ELSE Front(@)]
       [] ~Beyond(blob, s.at, WORD) /\ token = <<"token", "BEGIN">> ->
            IF \/ WordAt(blob, s.at + 1)[1] # "name"
               \/ Beyond(blob, s.at + 1, Pad4(Len(name) + 1))
               \/ Len(stack) = MaxNesting
            THEN Over(s, Malformed)
            ELSE [s EXCEPT !.at = @ + 1 + Pad4(Len(name) + 1) \div WORD,
                           !.stack = Append(@, FrameOf(@, name, path))]
       [] ~Beyond(blob, s.at, WORD) /\ token = <<"token", "PROP">> ->
            IF \/ Beyond(blob, s.at + 1, 3 * WORD)
               \/ WordAt(blob, s.at + 1)[1] # "num" \/ WordAt(blob, s.at + 2)[1] # "num"
               \/ Beyond(blob, s.at + 3, dlen) \/ blob.off_strings + off >= blob.len
            THEN Over(s, Malformed)
            ELSE IF onTarget /\ <<off, prop>> \in blob.strings
            THEN Over(s, <<"OK", dlen, IF dlen = 0 THEN <<>> ELSE WordAt(blob, s.at + 3)>>)
            ELSE [s EXCEPT !.at = @ + 3 + Pad4(dlen) \div WORD]
       [] OTHER -> Over(s, Malformed)

\* The walk ends at the first word that is no token, if not before.
Find(blob, path, prop) ==
  LET steps == Cardinality({i \in DOMAIN blob.words : blob.words[i][1] = "token"}) + 1
      read[n \in 0 .. steps] ==
        IF n = 0 THEN [at |-> 0, stack |-> <<>>, answer |-> <<>>]
        ELSE LET s == read[n - 1]
             IN IF s.answer # <<>> THEN s ELSE ReadToken(blob, path, prop, s)
  IN read[steps].answer

-----------------------------------------------------------------------------
(* What the blob should say, from the calls alone.                         *)

\* The nodes open after each call, by the index of their begin.
OpenAfter ==
  LET opens[n \in 0 .. Len(log)] ==
        IF n = 0 THEN <<<<>>>>
        ELSE LET before == opens[n - 1]
                 open == before[n]
             IN Append(before, CASE log[n][1] = "begin" -> Append(open, n)
                                 [] log[n][1] = "end"   -> Front(open)
                                 [] OTHER               -> open)
  IN Tail(opens[Len(log)])
NamesOf(open) == [i \in DOMAIN open |-> log[open[i]][2]]
Least(S) == CHOOSE i \in S : \A j \in S : i <= j

\* The first node on the path, and the first of its properties of that name.
Expected(opens, path, prop) ==
  LET names == <<"">> \o (IF Root(path) THEN <<>> ELSE path)
      nodes == {i \in DOMAIN log : log[i][1] = "begin" /\ NamesOf(opens[i]) = names}
      props == {i \in DOMAIN log : /\ log[i][1] = "prop" /\ log[i][2] = prop
                                   /\ opens[i][Len(opens[i])] = Least(nodes)}
      value == log[Least(props)][3]
  IN IF nodes = {} \/ props = {} THEN NotFound
     ELSE <<"OK", value.len, IF value.len = 0 THEN <<>> ELSE <<"value", value.of>>>>

\* The bytes a call was to cost.
CostOf(call) ==
  CASE call[1] = "begin" -> WORD + Pad4(Len(call[2]) + 1)
    [] call[1] = "end"   -> WORD
    [] call[1] = "prop"  -> 3 * WORD + Pad4(call[3].len) + Len(call[2]) + 1
\* And all of them together, with the one END of a finish.
Cost ==
  LET cost[n \in 0 .. Len(log)] == IF n = 0 THEN 0 ELSE cost[n - 1] + CostOf(log[n])
  IN cost[Len(log)] + WORD

\* Every property's name is asked for at every node.
CallsOf(kind) == {i \in DOMAIN log : log[i][1] = kind}

(* Whatever was called in between, and however often it was refused, the   *)
(* finished blob reads back as the calls that were accepted, and nothing   *)
(* else: the first node on a path answers, with the first of its           *)
(* properties of that name, from before or after its children, as deep as  *)
(* the reader's stack goes.  And the blob is dense: a refused call has     *)
(* left no byte of structure and no stray string in it.                    *)
(*                                                                         *)
(* A finish refused for want of memory is the exception.  Its END stays in *)
(* the scratch, although fdt.c says that a refusal "leaves the builder     *)
(* exactly as it was": a retry is a word longer, and what is accepted      *)
(* between the two lies behind an END, where no reader looks.  So the blob *)
(* is dense exactly when no finish was so refused, and it reads back when  *)
(* none was and when nothing but finish was called after the first.        *)
RoundTrip ==
  LET opens == OpenAfter
      paths == {Tail(NamesOf(opens[i])) : i \in CallsOf("begin")}
      names == {log[i][2] : i \in CallsOf("prop")} \cup {"none"}
  IN fdt.data # NoBlob /\ (\A i \in DOMAIN log : Len(opens[i]) <= MaxNesting) =>
       /\ stray = -1 <=> fdt.data.len = StructOff + Cost
       /\ stray \in {-1, Len(log)} =>
            \A path \in paths, prop \in names :
              Find(fdt.data, path, prop) = Expected(opens, path, prop)
=============================================================================
