-------------------------------- MODULE Host --------------------------------
(***************************************************************************)
(* What every path of main.c shares: the allocator seam, the growable      *)
(* buffer of buffer.c, read_file, and the phase the process is in.         *)
(*                                                                         *)
(* A block is named by the pointer that owns it.  heap holds the live      *)
(* blocks and ptr the pointers that are not NULL; a free through a pointer *)
(* whose block is gone, and a copy past a block's end, are recorded in     *)
(* faults.  Any allocation may fail, any file may be missing or unreadable.*)
(***************************************************************************)
EXTENDS Integers, Sequences, FiniteSets

CONSTANTS
  SizeMax,      \* SIZE_MAX
  MinCap,       \* OEMU_BUFFER_MIN_CAP
  ChunkSize     \* read_file's stack chunk

ASSUME HostAssumption ==
  /\ SizeMax \in Nat /\ MinCap \in 2 .. SizeMax /\ ChunkSize \in Nat \ {0}

VARIABLES
  phase,        \* where the process is
  exit,         \* its exit status; -1 while it runs
  heap, ptr,    \* live blocks, pointers that are not NULL
  faults,       \* frees and copies that hit a dead or too small block
  bufs,         \* the oemu_buffer of each owner: len and cap
  left          \* bytes the open file still has; -1 when none is open

hostVars == <<phase, exit, heap, ptr, faults, bufs, left>>

NoFile == <<>>
Buffers == {"image", "initrd", "file"}

HostInit ==
  /\ phase = "main"
  /\ exit = -1
  /\ heap = {} /\ ptr = {} /\ faults = {}
  /\ bufs = [o \in Buffers |-> [len |-> 0, cap |-> 0]]
  /\ left = -1

-----------------------------------------------------------------------------
(* The allocator seam.                                                     *)
Allocated(os) == heap' = heap \cup os /\ ptr' = ptr \cup os

\* Freeing through the pointers of os that are not NULL, which become NULL.
Freed(os) ==
  /\ heap' = heap \ (os \cap ptr)
  /\ ptr' = ptr \ os
  /\ faults' = faults \cup ((os \cap ptr) \ heap)

-----------------------------------------------------------------------------
(* buffer.c *)

\* The 1.5x steps from cap up to what is required.
Growth(required) ==
  LET grown[cap \in 0 .. SizeMax] ==
        IF cap >= required THEN cap
        ELSE IF cap > SizeMax - cap \div 2 \/ cap \div 2 = 0 THEN required
        ELSE grown[cap + cap \div 2]
  IN grown

\* oemu_buffer_internal_grow_capacity
GrowCapacity(cap, required) ==
  IF cap >= required THEN cap
  ELSE Growth(required)[IF cap < MinCap THEN MinCap ELSE cap]

\* buffer_grow: the capacity after room was made for n more bytes.
BufferCapacity(b, n) ==
  IF b.len + n <= b.cap THEN b.cap ELSE GrowCapacity(b.cap, b.len + n)

\* oemu_buffer_append: a failed realloc leaves the buffer as it was.
BufferAppend(o, n) ==
  LET cap == BufferCapacity(bufs[o], n)
  IN /\ bufs[o].len + n <= SizeMax
     /\ bufs' = [bufs EXCEPT ![o] = [len |-> @.len + n, cap |-> cap]]
     /\ heap' = heap \cup {o} /\ ptr' = ptr \cup {o}
     /\ faults' = IF bufs[o].len + n > cap THEN faults \cup {o} ELSE faults

BufferAppendFails(o, n) ==
  \/ bufs[o].len + n > SizeMax
  \/ BufferCapacity(bufs[o], n) # bufs[o].cap

\* oemu_buffer_dispose
BufferCleared(os) == bufs' = [o \in Buffers |-> IF o \in os THEN [len |-> 0, cap |-> 0]
                                                ELSE bufs[o]]

-----------------------------------------------------------------------------
(* read_file: from the phase `at' into the buffer o, and on to `next', or  *)
(* to `failed' with what was read still in the buffer.                     *)
OpenFile(at, size, failed) ==
  /\ phase = at /\ left = -1
  /\ \/ left' = size /\ phase' = phase
     \/ left' = left /\ phase' = failed
  /\ UNCHANGED <<exit, heap, ptr, faults, bufs>>

\* fread fills its chunk unless the file ends or the stream fails.
Chunk == IF left < ChunkSize THEN left ELSE ChunkSize

ReadChunk(at, o, failed) ==
  /\ phase = at /\ left > 0
  /\ \/ BufferAppend(o, Chunk) /\ left' = left - Chunk /\ phase' = phase
     \/ /\ BufferAppendFails(o, Chunk)
        /\ left' = -1 /\ phase' = failed
        /\ UNCHANGED <<heap, ptr, faults, bufs>>
  /\ UNCHANGED exit

\* The loop ends at the end of the file or on an error of the stream.
CloseFile(at, next, failed) ==
  /\ phase = at /\ left >= 0
  /\ left' = -1
  /\ \/ left = 0 /\ phase' = next
     \/ phase' = failed
  /\ UNCHANGED <<exit, heap, ptr, faults, bufs>>

ReadFile(at, o, size, next, failed) ==
  \/ OpenFile(at, size, failed)
  \/ ReadChunk(at, o, failed)
  \/ CloseFile(at, next, failed)

-----------------------------------------------------------------------------
(* Moving from one phase to the next.                                      *)
Goto(next) == phase' = next /\ UNCHANGED <<exit, heap, ptr, faults, bufs, left>>

\* An allocation that succeeds, or sends the process to its cleanup.
AllocThen(os, next, failed) ==
  /\ \/ Allocated(os) /\ phase' = next
     \/ UNCHANGED <<heap, ptr>> /\ phase' = failed
  /\ UNCHANGED <<exit, faults, bufs, left>>
=============================================================================
