------------------------------- MODULE LazyCopy -----------------------------
(***************************************************************************)
(* virtual-memory/lazycopy.c: chunks of memory that are copied by mapping  *)
(* the same frame twice, read-only.  A write to one of them faults; the    *)
(* handler gives that chunk a frame of its own and the write is made       *)
(* again.  One program runs, interrupted by its own faults.                *)
(***************************************************************************)
EXTENDS Integers

CONSTANTS Chunks,   \* the addresses chunks can have: bounds their number
          Frames,   \* the memory behind them
          Offsets, Values,  \* what a chunk holds
          NONE      \* "not mapped"

ASSUME ChunkAssumption == /\ 0 \in Values
                          /\ NONE \notin Frames
                          /\ NONE \notin [Offsets -> Values]
                          /\ NONE \notin Chunks \X Offsets \X Values

VARIABLES frame, writable,  \* each chunk's mapping (mmap, mremap, mprotect)
          data,             \* what each frame holds
          chunkList,        \* the starts in the tree of lazily copied chunks
          pc,               \* "run", then "fault", "map", "restore", "retry"
          store,            \* the write that faulted: its chunk, offset, value
          byteArr           \* the handler's copy of the chunk

vars == <<frame, writable, data, chunkList, pc, store, byteArr>>

Zero == [o \in Offsets |-> 0]

(* chunk_startup has installed the handler.                                *)
Init == /\ frame = [c \in Chunks |-> NONE] /\ writable = [c \in Chunks |-> FALSE]
        /\ data = [f \in Frames |-> Zero]
        /\ chunkList = {}
        /\ pc = "run" /\ store = NONE /\ byteArr = NONE

(* The tree is the set of its members.                                     *)
addChunk(root, starts) == root \cup starts
getChunkStart(c) == c \in chunkList

Mapped == {c \in Chunks : frame[c] # NONE}
Free == Frames \ {frame[c] : c \in Mapped}

(* mmap: the chunk gets memory of its own, which the kernel has cleared.   *)
MapTo(c, f, contents) == /\ frame' = [frame EXCEPT ![c] = f]
                         /\ data' = [data EXCEPT ![f] = contents]
                         /\ writable' = [writable EXCEPT ![c] = TRUE]

chunk_alloc(c) == /\ pc = "run"
                  /\ frame[c] = NONE
                  /\ \E f \in Free : MapTo(c, f, Zero)
                  /\ UNCHANGED <<chunkList, pc, store, byteArr>>

(* chunk_alloc and memcpy.                                                 *)
chunk_copy_eager(c, d) == /\ pc = "run"
                          /\ c \in Mapped /\ frame[d] = NONE
                          /\ \E f \in Free : MapTo(d, f, data[frame[c]])
                          /\ UNCHANGED <<chunkList, pc, store, byteArr>>

(* mremap: d is a second mapping of c's memory; then both are protected    *)
(* and recorded.                                                           *)
Remap(c, d, protected, recorded) ==
  /\ pc = "run"
  /\ c \in Mapped /\ frame[d] = NONE
  /\ frame' = [frame EXCEPT ![d] = frame[c]]
  /\ writable' = [x \in Chunks |-> x \notin protected /\ writable[x]]
  /\ chunkList' = addChunk(chunkList, recorded)
  /\ UNCHANGED <<data, pc, store, byteArr>>

OnlyCopyProtected(c, d) == Remap(c, d, {d}, {c, d})
chunk_copy_lazy(c, d) == Remap(c, d, {c, d}, {c, d})

(* A write instruction, for the first time or again after a fault: it      *)
(* writes, or the processor raises SIGSEGV and nothing is written.         *)
Execute(c, o, v) ==
  /\ IF writable[c]
     THEN /\ data' = [data EXCEPT ![frame[c]][o] = v]
          /\ pc' = "run" /\ store' = NONE
     ELSE /\ pc' = "fault" /\ store' = <<c, o, v>>
          /\ UNCHANGED data
  /\ UNCHANGED <<frame, writable, chunkList, byteArr>>

Write(c, o, v) == pc = "run" /\ c \in Mapped /\ Execute(c, o, v)
Retry == pc = "retry" /\ Execute(store[1], store[2], store[3])

(* signalHandler: getChunkStart and the first memmove.  Where the tree has *)
(* no such chunk, getChunkStart follows a null pointer: a fault inside the *)
(* handler, which ends the process.                                        *)
Save == /\ pc = "fault"
        /\ IF getChunkStart(store[1])
           THEN pc' = "map" /\ byteArr' = data[frame[store[1]]]
           ELSE pc' = "dead" /\ UNCHANGED byteArr
        /\ UNCHANGED <<frame, writable, data, chunkList, store>>

(* mmap with MAP_FIXED, over the mapping that is there.                    *)
MapUnwritable == /\ pc = "map" /\ pc' = "restore"
                 /\ \E f \in Free : /\ frame' = [frame EXCEPT ![store[1]] = f]
                                    /\ data' = [data EXCEPT ![f] = Zero]
                 /\ UNCHANGED <<writable, chunkList, store, byteArr>>
Map == /\ pc = "map" /\ pc' = "restore"
       /\ \E f \in Free : MapTo(store[1], f, Zero)
       /\ UNCHANGED <<chunkList, store, byteArr>>

RestoreNothing == /\ pc = "restore" /\ pc' = "retry"
                  /\ byteArr' = NONE
                  /\ UNCHANGED <<frame, writable, data, chunkList, store>>
Restore == /\ pc = "restore" /\ pc' = "retry"
           /\ data' = [data EXCEPT ![frame[store[1]]] = byteArr]
           /\ byteArr' = NONE
           /\ UNCHANGED <<frame, writable, chunkList, store>>

Handle == Save \/ Map \/ Restore \/ Retry

Next == \/ \E c \in Chunks :
             \/ chunk_alloc(c)
             \/ \E d \in Chunks : chunk_copy_eager(c, d) \/ chunk_copy_lazy(c, d)
             \/ \E o \in Offsets, v \in Values : Write(c, o, v)
        \/ Handle

Spec == Init /\ [][Next]_vars
FairSpec == Spec /\ WF_vars(Handle)
-----------------------------------------------------------------------------
TypeOK == /\ frame \in [Chunks -> Frames \cup {NONE}]
          /\ writable \in [Chunks -> BOOLEAN]
          /\ data \in [Frames -> [Offsets -> Values]]
          /\ chunkList \subseteq Chunks
          /\ pc \in {"run", "fault", "map", "restore", "retry", "dead"}
          /\ store \in (Chunks \X Offsets \X Values) \cup {NONE}
          /\ byteArr \in [Offsets -> Values] \cup {NONE}
          /\ \A c \in Chunks : writable[c] => c \in Mapped

(* Memory that two chunks share is written through neither of them.        *)
SharedIsReadOnly == \A c, d \in Mapped : c # d /\ frame[c] = frame[d] => ~writable[c]

(* A write to a chunk never ends the program: the handler finds the chunk, *)
(* however often it was copied and written before.                         *)
FaultsAreFound == pc # "dead"

(* A write that faults is made in the end.                                 *)
WritesComplete == (pc # "run") ~> (pc = "run")

(* Chunks that are copied lazily read like chunks that are copied eagerly  *)
(* (the comparison in lazycopy-test.c:32-41), whatever the order of copies *)
(* and writes.  While the handler works the chunk holds what it saved.     *)
Contents == [c \in Chunks |->
  IF frame[c] = NONE THEN NONE
  ELSE IF pc = "restore" /\ c = store[1] THEN byteArr ELSE data[frame[c]]]

Abstract == INSTANCE AbstractChunks WITH contents <- Contents
CopiesLikeEager == Abstract!Spec
=============================================================================
