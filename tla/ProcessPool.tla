----------------------------- MODULE ProcessPool -----------------------------
(***************************************************************************)
(* kernel/process_pool.cpp: the pool the images of processes are allocated *)
(* from, in power of two sizes aligned to their size, with one bit per     *)
(* block of minimum size, under a FastMutex.  Sizes are in such blocks.    *)
(*                                                                         *)
(* The search of allocate() goes up to and including bit NumBlocks, so it  *)
(* can get to bits beyond the end of the bitmap, which are memory of       *)
(* somebody else: what testBit() finds there is anything, and what         *)
(* setBit() and clearBit() do there is not kept.                           *)
(***************************************************************************)
EXTENDS FastMutex

CONSTANTS NumBlocks,   \* poolSize/blockSize
          Base,        \* poolBase/blockSize
          Sizes,       \* sizes processes ask for, powers of two
          NoBlock

ASSUME PoolAssumption ==
    /\ NumBlocks \in Nat \ {0} /\ Base \in Nat
    /\ Sizes \subseteq 1 .. NumBlocks
    /\ \A s \in Sizes : \E k \in 0 .. s : s = 2 ^ k
    /\ NoBlock \notin [start : Nat, size : Nat]

\* The bits the constructor allocates and clears: numBytes is NumBlocks/8,
\* and the array has numBytes/4 words of 32 bits.
Bitmap == 0 .. 32 * ((NumBlocks \div 8) \div 4) - 1

\* The divisions leave no remainder, as for the pools of the linker scripts
\* (96 and 1024 blocks): every block of the pool has a bit.
WholeWords == NumBlocks % 32 = 0

VARIABLES bitmap,            \* bits set
          allocatedBlocks,   \* the map from the start of a block to its size
          image,             \* block each thread's process has
          job                \* place of each thread in the pool's code

poolVars == <<bitmap, allocatedBlocks, image, job>>

Block(i, size) == [start |-> i, size |-> size]
BitsOf(b) == b.start .. b.start + b.size - 1
Job(place) == <<place, 0>>
Jobs == {Job("idle"), Job("deallocate"), Job("unlock")} \cup ({"allocate"} \X Sizes)

PoolTypeOK ==
    /\ bitmap \subseteq Bitmap
    /\ allocatedBlocks \subseteq [start : Nat, size : Sizes]
    /\ image \in [Threads -> [start : Nat, size : Sizes] \cup {NoBlock}]
    /\ job \in [Threads -> Jobs]

PoolInit ==
    /\ bitmap = {}
    /\ allocatedBlocks = {}
    /\ image = [t \in Threads |-> NoBlock]
    /\ job = [t \in Threads |-> Job("idle")]
-----------------------------------------------------------------------------
\* The positions tried: the first is aligned to size as an address.
Positions(size) ==
    LET startBit == (size - (Base % size)) % size
    IN  {i \in startBit .. NumBlocks : (i - startBit) % size = 0}

\* Mutant: only the first bit is tested.
LooksFree_FirstBit(b) == b.start \notin bitmap

\* The bits of b may be found clear; if all are in the bitmap, they are.
LooksFree(b) == BitsOf(b) \cap bitmap = {}
IsFree(b) == LooksFree(b) /\ BitsOf(b) \subseteq Bitmap

JobGoto(t, from, to) == job[t] = from /\ job' = [job EXCEPT ![t] = to]

\* allocate(): the first position found free, or an exception.
allocate(t, size) ==
    \/ /\ image[t] = NoBlock
       /\ JobGoto(t, Job("idle"), <<"allocate", size>>)
       /\ pthread_mutex_lock(t)
       /\ UNCHANGED <<bitmap, allocatedBlocks, image>>
    \/ /\ Holds(t)
       /\ JobGoto(t, <<"allocate", size>>, Job("unlock"))
       /\ \/ \E i \in Positions(size) :
                /\ LooksFree(Block(i, size))
                /\ \A k \in Positions(size) : IsFree(Block(k, size)) => i <= k
                /\ bitmap' = bitmap \cup (BitsOf(Block(i, size)) \cap Bitmap)
                /\ allocatedBlocks' = {b \in allocatedBlocks : b.start # i}
                                      \cup {Block(i, size)}
                /\ image' = [image EXCEPT ![t] = Block(i, size)]
          \/ /\ \A k \in Positions(size) : ~IsFree(Block(k, size))
             /\ UNCHANGED <<bitmap, allocatedBlocks, image>>
       /\ UNCHANGED mutexVars

\* deallocate(): the block is looked up by its start; if it is not there
\* an exception leaves everything as it is.
deallocate(t) ==
    \/ /\ image[t] # NoBlock
       /\ JobGoto(t, Job("idle"), Job("deallocate"))
       /\ pthread_mutex_lock(t)
       /\ UNCHANGED <<bitmap, allocatedBlocks, image>>
    \/ /\ Holds(t)
       /\ JobGoto(t, Job("deallocate"), Job("unlock"))
       /\ \/ \E b \in allocatedBlocks :
                /\ b.start = image[t].start
                /\ bitmap' = bitmap \ BitsOf(b)
                /\ allocatedBlocks' = allocatedBlocks \ {b}
          \/ /\ \A b \in allocatedBlocks : b.start # image[t].start
             /\ UNCHANGED <<bitmap, allocatedBlocks>>
       /\ image' = [image EXCEPT ![t] = NoBlock]
       /\ UNCHANGED mutexVars

PoolStep(t) ==
    \/ \E size \in Sizes : allocate(t, size)
    \/ deallocate(t)
    \/ /\ JobGoto(t, Job("unlock"), Job("idle")) /\ pthread_mutex_unlock(t)
       /\ UNCHANGED <<bitmap, allocatedBlocks, image>>
    \/ Resume(t) /\ UNCHANGED poolVars
-----------------------------------------------------------------------------
(* Properties *)

Pool == 0 .. NumBlocks - 1
InUse(t) == IF image[t] = NoBlock THEN {} ELSE BitsOf(image[t])

\* No part of the pool is in the images of two processes, every image is
\* aligned to its size, and the bits of the pool that are set are those of
\* the images in use: none leaks.  Nothing is said of what lies beyond.
PoolNotShared ==
    /\ PoolTypeOK
    /\ \A t, u \in Threads : t # u => InUse(t) \cap InUse(u) \cap Pool = {}
    /\ \A t \in Threads : image[t] # NoBlock => (Base + image[t].start) % image[t].size = 0
    /\ \A k \in Pool : k \in bitmap <=> \E t \in Threads : k \in InUse(t)

\* "Allocate memory inside the process pool": allocate() returns blocks that
\* are in the pool from their start to their end.
InsidePool == \A t \in Threads : InUse(t) \subseteq Pool
=============================================================================
