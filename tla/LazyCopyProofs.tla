--------------------------- MODULE LazyCopyProofs ---------------------------
(***************************************************************************)
(* Proofs about LazyCopy: memory that two chunks share is never writable,  *)
(* no write ends the program, and lazily copied chunks read like eagerly   *)
(* copied ones, for any number of chunks, frames, offsets and values.      *)
(***************************************************************************)
EXTENDS LazyCopy, TLAPS

(* A chunk that cannot be written is one the handler can find.             *)
Recorded == \A c \in Mapped : ~writable[c] => c \in chunkList

(* What the handler knows between its steps: the write that faulted was to *)
(* a mapped chunk, unwritable until Map, alone in its frame after it.      *)
Handling ==
  /\ pc # "run" => store \in Chunks \X Offsets \X Values /\ frame[store[1]] # NONE
  /\ pc = "fault" => ~writable[store[1]]
  /\ pc = "map" => byteArr = data[frame[store[1]]]
  /\ pc = "restore" => byteArr \in [Offsets -> Values] /\ writable[store[1]]

IInv == TypeOK /\ SharedIsReadOnly /\ Recorded /\ Handling /\ FaultsAreFound

USE ChunkAssumption

LEMMA InitInv == Init => IInv
BY DEF Init, IInv, TypeOK, SharedIsReadOnly, Recorded, Handling, FaultsAreFound,
       Mapped, Zero

(* Mapping a free frame to an unmapped chunk keeps everything.             *)
LEMMA NewChunkInv ==
  ASSUME IInv, pc = "run", NEW c \in Chunks, frame[c] = NONE,
         NEW f \in Free, NEW contents \in [Offsets -> Values],
         MapTo(c, f, contents), UNCHANGED <<chunkList, pc, store, byteArr>>
  PROVE  IInv'
<1> USE DEF IInv, Mapped, Free
<1>1. TypeOK'
  BY DEF TypeOK, MapTo
<1>2. SharedIsReadOnly'
  BY DEF TypeOK, MapTo, SharedIsReadOnly
<1>3. Recorded'
  BY DEF TypeOK, MapTo, Recorded
<1>4. Handling' /\ FaultsAreFound'
  BY DEF TypeOK, MapTo, Handling, FaultsAreFound
<1> QED BY <1>1, <1>2, <1>3, <1>4

LEMMA AllocInv ==
  ASSUME IInv, NEW c \in Chunks, chunk_alloc(c)
  PROVE  IInv'
<1>1. Zero \in [Offsets -> Values]
  BY DEF Zero
<1>2. PICK f \in Free : MapTo(c, f, Zero)
  BY DEF chunk_alloc
<1> QED BY <1>1, <1>2, NewChunkInv DEF chunk_alloc

LEMMA EagerInv ==
  ASSUME IInv, NEW c \in Chunks, NEW d \in Chunks, chunk_copy_eager(c, d)
  PROVE  IInv'
<1>1. data[frame[c]] \in [Offsets -> Values]
  BY DEF IInv, TypeOK, chunk_copy_eager, Mapped
<1>2. PICK f \in Free : MapTo(d, f, data[frame[c]])
  BY DEF chunk_copy_eager
<1> QED BY <1>1, <1>2, NewChunkInv DEF chunk_copy_eager

(* Both mappings of the shared frame are protected, and both recorded.     *)
LEMMA LazyInv ==
  ASSUME IInv, NEW c \in Chunks, NEW d \in Chunks, chunk_copy_lazy(c, d)
  PROVE  IInv'
<1> USE DEF IInv, Mapped, chunk_copy_lazy, Remap, addChunk
<1>1. TypeOK'
  BY DEF TypeOK
<1>2. SharedIsReadOnly'
  BY DEF TypeOK, SharedIsReadOnly
<1>3. Recorded'
  BY DEF TypeOK, Recorded
<1>4. Handling' /\ FaultsAreFound'
  BY DEF TypeOK, Handling, FaultsAreFound
<1> QED BY <1>1, <1>2, <1>3, <1>4

LEMMA ExecuteInv ==
  ASSUME IInv, NEW c \in Mapped, NEW o \in Offsets, NEW v \in Values, Execute(c, o, v)
  PROVE  IInv'
<1> USE DEF IInv, Mapped, Execute
<1>1. TypeOK'
  BY DEF TypeOK
<1>2. SharedIsReadOnly' /\ Recorded'
  BY DEF TypeOK, SharedIsReadOnly, Recorded
<1>3. Handling' /\ FaultsAreFound'
  BY DEF TypeOK, Handling, FaultsAreFound
<1> QED BY <1>1, <1>2, <1>3

LEMMA HandleInv ==
  ASSUME IInv, Handle
  PROVE  IInv'
<1> USE DEF IInv, Mapped
<1>1. CASE Save
  <2>1. store[1] \in Chunks /\ store[1] \in chunkList
    BY <1>1 DEF Save, Handling, Recorded
  <2>2. data[frame[store[1]]] \in [Offsets -> Values]
    BY <1>1 DEF Save, Handling, TypeOK
  <2>3. TypeOK'
    BY <1>1, <2>1, <2>2 DEF Save, getChunkStart, TypeOK
  <2>4. SharedIsReadOnly' /\ Recorded'
    BY <1>1 DEF Save, SharedIsReadOnly, Recorded
  <2>5. Handling' /\ FaultsAreFound'
    BY <1>1, <2>1 DEF Save, getChunkStart, Handling, FaultsAreFound
  <2> QED BY <2>3, <2>4, <2>5
<1>2. CASE Map
  <2>1. PICK f \in Free : MapTo(store[1], f, Zero)
    BY <1>2 DEF Map
  <2>2. /\ store[1] \in Chunks /\ frame[store[1]] \in Frames
        /\ byteArr \in [Offsets -> Values]
    BY <1>2 DEF Map, Handling, TypeOK
  <2>3. TypeOK'
    BY <1>2, <2>1, <2>2 DEF Map, MapTo, Free, TypeOK, Zero
  <2>4. SharedIsReadOnly'
    BY <1>2, <2>1, <2>2 DEF Map, MapTo, Free, TypeOK, SharedIsReadOnly
  <2>5. Recorded'
    BY <1>2, <2>1, <2>2 DEF Map, MapTo, Free, TypeOK, Recorded
  <2>6. Handling' /\ FaultsAreFound'
    BY <1>2, <2>1, <2>2 DEF Map, MapTo, Free, TypeOK, Handling, FaultsAreFound
  <2> QED BY <2>3, <2>4, <2>5, <2>6
<1>3. CASE Restore
  <2>1. store[1] \in Chunks /\ byteArr \in [Offsets -> Values]
    BY <1>3 DEF Restore, Handling
  <2>2. TypeOK'
    BY <1>3, <2>1 DEF Restore, TypeOK
  <2>3. SharedIsReadOnly' /\ Recorded'
    BY <1>3 DEF Restore, SharedIsReadOnly, Recorded
  <2>4. Handling' /\ FaultsAreFound'
    BY <1>3 DEF Restore, Handling, FaultsAreFound
  <2> QED BY <2>2, <2>3, <2>4
<1>4. CASE Retry
  BY <1>4, ExecuteInv DEF Retry, Handling
<1> QED BY <1>1, <1>2, <1>3, <1>4 DEF Handle

LEMMA NextInv == IInv /\ [Next]_vars => IInv'
<1> SUFFICES ASSUME IInv, [Next]_vars PROVE IInv'
  OBVIOUS
<1>1. CASE Handle
  BY <1>1, HandleInv
<1>2. ASSUME NEW c \in Chunks, NEW o \in Offsets, NEW v \in Values, Write(c, o, v)
      PROVE  IInv'
  BY <1>2, ExecuteInv DEF Write
<1>3. CASE UNCHANGED vars
  BY <1>3 DEF vars, IInv, TypeOK, SharedIsReadOnly, Recorded, Handling,
              FaultsAreFound, Mapped
<1> QED BY <1>1, <1>2, <1>3, AllocInv, EagerInv, LazyInv DEF Next

LEMMA Invariance == Spec => []IInv
BY InitInv, NextInv, PTL DEF Spec

(* A store through one chunk cannot show in another: memory that two       *)
(* chunks share is read-only in both (lazycopy.c:158-159, the handler).    *)
THEOREM SharedMemoryIsReadOnly == Spec => []SharedIsReadOnly
<1>1. IInv => SharedIsReadOnly
  BY DEF IInv
<1> QED BY <1>1, Invariance, PTL

(* The handler finds the chunk of every write that faults, so getChunkStart*)
(* never follows a null pointer (lazycopy.c:59-70).                        *)
THEOREM EveryFaultIsFound == Spec => []FaultsAreFound
<1>1. IInv => FaultsAreFound
  BY DEF IInv
<1> QED BY <1>1, Invariance, PTL
-----------------------------------------------------------------------------
(* A step that gives an unmapped chunk memory of its own, with the given   *)
(* contents, shows as just that.                                           *)
LEMMA NewChunkShows ==
  ASSUME IInv, pc = "run", NEW c \in Chunks, frame[c] = NONE,
         NEW f \in Free, NEW contents \in [Offsets -> Values],
         MapTo(c, f, contents), UNCHANGED <<chunkList, pc, store, byteArr>>
  PROVE  Contents' = [Contents EXCEPT ![c] = contents]
<1>1. ASSUME NEW x \in Chunks
      PROVE  Contents'[x] = [Contents EXCEPT ![c] = contents][x]
  BY <1>1 DEF Contents, MapTo, Free, Mapped, IInv, TypeOK
<1> QED BY <1>1 DEF Contents

LEMMA AllocShows ==
  ASSUME IInv, NEW c \in Chunks, chunk_alloc(c)
  PROVE  Abstract!Alloc(c)
<1>1. Zero \in [Offsets -> Values]
  BY DEF Zero
<1>2. PICK f \in Free : MapTo(c, f, Zero)
  BY DEF chunk_alloc
<1>3. Contents' = [Contents EXCEPT ![c] = Zero]
  BY <1>1, <1>2, NewChunkShows DEF chunk_alloc
<1>4. Contents[c] = NONE
  BY DEF chunk_alloc, Contents
<1> QED BY <1>3, <1>4 DEF Abstract!Alloc, Abstract!Zero, Zero

LEMMA EagerShows ==
  ASSUME IInv, NEW c \in Chunks, NEW d \in Chunks, chunk_copy_eager(c, d)
  PROVE  Abstract!Copy(c, d)
<1>1. data[frame[c]] \in [Offsets -> Values]
  BY DEF IInv, TypeOK, chunk_copy_eager, Mapped
<1>2. PICK f \in Free : MapTo(d, f, data[frame[c]])
  BY DEF chunk_copy_eager
<1>3. Contents' = [Contents EXCEPT ![d] = data[frame[c]]]
  BY <1>1, <1>2, NewChunkShows DEF chunk_copy_eager
<1>4. Contents[c] = data[frame[c]] /\ Contents[d] = NONE
  BY DEF chunk_copy_eager, Contents, Mapped
<1> QED BY <1>1, <1>3, <1>4 DEF Abstract!Copy

LEMMA LazyShows ==
  ASSUME IInv, NEW c \in Chunks, NEW d \in Chunks, chunk_copy_lazy(c, d)
  PROVE  Abstract!Copy(c, d)
<1> USE DEF chunk_copy_lazy, Remap, Mapped
<1>1. Contents[c] = data[frame[c]] /\ Contents[d] = NONE
  BY DEF Contents
<1>2. Contents[c] # NONE
  BY <1>1 DEF IInv, TypeOK
<1>3. ASSUME NEW x \in Chunks
      PROVE  Contents'[x] = [Contents EXCEPT ![d] = Contents[c]][x]
  BY <1>3 DEF Contents, IInv, TypeOK
<1>4. Contents' = [Contents EXCEPT ![d] = Contents[c]]
  BY <1>3 DEF Contents
<1> QED BY <1>1, <1>2, <1>4 DEF Abstract!Copy

(* A write that succeeds changes only its chunk, as no other chunk shares  *)
(* the frame of a writable one; a write that faults changes nothing.       *)
LEMMA ExecuteShows ==
  ASSUME IInv, pc \in {"run", "retry"},
         NEW c \in Mapped, NEW o \in Offsets, NEW v \in Values, Execute(c, o, v)
  PROVE  Abstract!Write(c, o, v) \/ UNCHANGED Contents
<1> USE DEF Mapped, Execute
<1>1. CASE writable[c]
  <2>1. Contents[c] = data[frame[c]] /\ Contents[c] \in [Offsets -> Values]
    BY DEF Contents, IInv, TypeOK
  <2>2. ASSUME NEW x \in Chunks
        PROVE  Contents'[x] = [Contents EXCEPT ![c] = [Contents[c] EXCEPT ![o] = v]][x]
    BY <1>1, <2>1, <2>2 DEF Contents, IInv, TypeOK, SharedIsReadOnly
  <2>3. Contents' = [Contents EXCEPT ![c] = [Contents[c] EXCEPT ![o] = v]]
    BY <2>2 DEF Contents
  <2> QED BY <2>1, <2>3 DEF Abstract!Write
<1>2. CASE ~writable[c]
  BY <1>2 DEF Contents
<1> QED BY <1>1, <1>2

LEMMA HandleShows ==
  ASSUME IInv, Save \/ Map \/ Restore
  PROVE  UNCHANGED Contents
<1> USE DEF IInv
<1>1. CASE Save
  BY <1>1 DEF Save, Contents
<1>2. CASE Map
  <2>1. PICK f \in Free : MapTo(store[1], f, Zero)
    BY <1>2 DEF Map
  <2>2. store[1] \in Chunks /\ frame[store[1]] # NONE /\ byteArr = data[frame[store[1]]]
    BY <1>2 DEF Map, Handling
  <2>3. ASSUME NEW x \in Chunks PROVE Contents'[x] = Contents[x]
    BY <1>2, <2>1, <2>2, <2>3 DEF Map, MapTo, Free, Mapped, Contents, TypeOK
  <2> QED BY <2>3 DEF Contents
<1>3. CASE Restore
  <2>1. /\ store[1] \in Chunks /\ frame[store[1]] # NONE /\ writable[store[1]]
        /\ byteArr \in [Offsets -> Values]
    BY <1>3 DEF Restore, Handling
  <2>2. ASSUME NEW x \in Chunks PROVE Contents'[x] = Contents[x]
    BY <1>3, <2>1, <2>2 DEF Restore, Contents, Mapped, TypeOK, SharedIsReadOnly
  <2> QED BY <2>2 DEF Contents
<1> QED BY <1>1, <1>2, <1>3

LEMMA StepShows == IInv /\ [Next]_vars => [Abstract!Next]_Contents
<1> SUFFICES ASSUME IInv, [Next]_vars PROVE [Abstract!Next]_Contents
  OBVIOUS
<1> USE DEF Abstract!Next
<1>1. ASSUME NEW c \in Chunks, chunk_alloc(c) PROVE Abstract!Next
  BY <1>1, AllocShows
<1>2. ASSUME NEW c \in Chunks, NEW d \in Chunks,
             chunk_copy_eager(c, d) \/ chunk_copy_lazy(c, d)
      PROVE  Abstract!Next
  BY <1>2, EagerShows, LazyShows
<1>3. ASSUME NEW c \in Chunks, NEW o \in Offsets, NEW v \in Values, Write(c, o, v)
      PROVE  [Abstract!Next]_Contents
  BY <1>3, ExecuteShows DEF Write, Mapped
<1>4. CASE Retry
  <2>1. /\ store[1] \in Mapped /\ store[2] \in Offsets /\ store[3] \in Values
        /\ Execute(store[1], store[2], store[3]) /\ pc = "retry"
    BY <1>4 DEF Retry, IInv, Handling, Mapped
  <2>2. store[1] \in Chunks
    BY <2>1 DEF Mapped
  <2>3. Abstract!Write(store[1], store[2], store[3]) \/ UNCHANGED Contents
    BY <2>1, ExecuteShows
  <2> QED BY <2>1, <2>2, <2>3
<1>5. CASE UNCHANGED vars
  BY <1>5 DEF vars, Contents
<1> QED BY <1>1, <1>2, <1>3, <1>4, <1>5, HandleShows DEF Next, Handle

(* Whatever is copied and written in whatever order, chunks read as if     *)
(* every copy had been made at once (lazycopy-test.c:32-41 compares lazy   *)
(* and eager copies).                                                      *)
THEOREM LazyImplementsEager == Spec => CopiesLikeEager
<1>1. Init => Abstract!Init
  BY DEF Init, Abstract!Init, Contents
<1> QED BY <1>1, Invariance, StepShows, PTL DEF Spec, CopiesLikeEager, Abstract!Spec
=============================================================================
