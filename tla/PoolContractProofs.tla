--------------------------- MODULE PoolContractProofs ---------------------------
(***************************************************************************)
(* The pool, with callers that keep its contract, counts references        *)
(* exactly: for every number of blocks and every width of the counter.     *)
(***************************************************************************)
EXTENDS PoolContract, TLAPS

PoolInv == PoolTypeOK /\ RefCountExact

\* Pool_Init leaves every block free and unreferenced.
LEMMA PoolInitInv == PoolInit => PoolInv
BY PoolAssumption
   DEF PoolInit, Pool_Init, PoolInv, PoolTypeOK, RefCountExact, PayloadBlock, ZeroBlock

\* Pool_Free gives up one of the references, and the block with the last one.
LEMMA ReleaseInv ==
  ASSUME PoolInv, NEW b \in Blocks, Release(b)
  PROVE  PoolInv'
<1>1. s_blocks[b] \in PayloadBlock /\ refs[b] \in 0 .. RefCountModulus - 1
  BY DEF PoolInv, PoolTypeOK
<1>2. s_blocks[b].inUse /\ s_blocks[b].refCount = refs[b]
  BY DEF PoolInv, RefCountExact, Release
<1>3. CASE refs[b] > 1
  <2>1. s_blocks' = [s_blocks EXCEPT ![b].refCount = s_blocks[b].refCount - 1]
    BY <1>1, <1>2, <1>3 DEF Release, Pool_Free
  <2> QED
    BY <1>1, <1>2, <1>3, <2>1, PoolAssumption
       DEF PoolInv, PoolTypeOK, RefCountExact, Release, PayloadBlock
<1>4. CASE refs[b] = 1
  <2>1. s_blocks' = [s_blocks EXCEPT ![b] = ZeroBlock]
    BY <1>2, <1>4 DEF Release, Pool_Free
  <2> QED
    BY <1>1, <1>2, <1>4, <2>1, PoolAssumption
       DEF PoolInv, PoolTypeOK, RefCountExact, Release, PayloadBlock, ZeroBlock
<1> QED
  BY <1>1, <1>3, <1>4, PoolAssumption DEF Release

\* Each call that the contract allows preserves the invariant.
LEMMA PoolNextInv == PoolInv /\ [PoolNext]_poolVars => PoolInv'
<1> SUFFICES ASSUME PoolInv, [PoolNext]_poolVars PROVE PoolInv'
  OBVIOUS
<1> USE PoolAssumption
<1>1. CASE AllocFails
  BY <1>1 DEF PoolInv, PoolTypeOK, RefCountExact, AllocFails, Pool_AllocFails
<1>2. ASSUME NEW b \in Blocks, Alloc(b) PROVE PoolInv'
  BY <1>2 DEF PoolInv, PoolTypeOK, RefCountExact, PayloadBlock, Alloc, Pool_AllocSucceeds
<1>3. ASSUME NEW b \in Blocks, AddRef(b) PROVE PoolInv'
  <2>1. s_blocks[b].inUse /\ (refs[b] + 1) % RefCountModulus = refs[b] + 1
    BY <1>3 DEF PoolInv, PoolTypeOK, RefCountExact, AddRef
  <2> QED
    BY <1>3, <2>1
       DEF PoolInv, PoolTypeOK, RefCountExact, PayloadBlock, AddRef, Pool_AddRef
<1>4. ASSUME NEW b \in Blocks, Release(b) PROVE PoolInv'
  BY <1>4, ReleaseInv
<1>5. ASSUME NEW b \in Blocks, NEW n \in 1 .. MaxSequence, Fill(b, n) PROVE PoolInv'
  BY <1>5 DEF PoolInv, PoolTypeOK, RefCountExact, PayloadBlock, Fill
<1>6. ASSUME NEW b \in Blocks, NEW n \in 1 .. RefCountModulus - 1, Share(b, n) PROVE PoolInv'
  BY <1>6 DEF PoolInv, PoolTypeOK, RefCountExact, PayloadBlock, Share, Pool_SetRefCount
<1>7. CASE UNCHANGED poolVars
  BY <1>7 DEF PoolInv, PoolTypeOK, RefCountExact, poolVars
<1> QED
  BY <1>1, <1>2, <1>3, <1>4, <1>5, <1>6, <1>7 DEF PoolNext

\* A block's refCount is the number of references held to it, and the block is
\* free exactly when there is none (payload_pool.c).
THEOREM RefCounting == PoolSpec => []RefCountExact
<1>1. PoolInv => RefCountExact
  BY DEF PoolInv
<1> QED
  BY PoolInitInv, PoolNextInv, <1>1, PTL DEF PoolSpec

\* A block that more than one reference points to keeps its content.
THEOREM NoRecyclingHolds == PoolSpec => NoRecycling
<1>1. ASSUME PoolInv, [PoolNext]_poolVars, NEW b \in Blocks, refs[b] > 1
      PROVE  s_blocks'[b].sequence = s_blocks[b].sequence
  <2> USE PoolAssumption, <1>1 DEF PoolInv, PoolTypeOK, RefCountExact, PayloadBlock
  <2>1. CASE AllocFails
    BY <2>1 DEF AllocFails, Pool_AllocFails
  <2>2. ASSUME NEW c \in Blocks, Alloc(c) PROVE s_blocks'[b].sequence = s_blocks[b].sequence
    BY <2>2 DEF Alloc, Pool_AllocSucceeds, FreeBlocks
  <2>3. ASSUME NEW c \in Blocks, AddRef(c) PROVE s_blocks'[b].sequence = s_blocks[b].sequence
    BY <2>3 DEF AddRef, Pool_AddRef
  <2>4. ASSUME NEW c \in Blocks, Release(c) PROVE s_blocks'[b].sequence = s_blocks[b].sequence
    BY <2>4 DEF Release, Pool_Free
  <2>5. ASSUME NEW c \in Blocks, NEW n \in 1 .. MaxSequence, Fill(c, n)
        PROVE  s_blocks'[b].sequence = s_blocks[b].sequence
    BY <2>5 DEF Fill
  <2>6. ASSUME NEW c \in Blocks, NEW n \in 1 .. RefCountModulus - 1, Share(c, n)
        PROVE  s_blocks'[b].sequence = s_blocks[b].sequence
    BY <2>6 DEF Share, Pool_SetRefCount
  <2>7. CASE UNCHANGED poolVars
    BY <2>7 DEF poolVars
  <2> QED
    BY <2>1, <2>2, <2>3, <2>4, <2>5, <2>6, <2>7 DEF PoolNext
<1>2. PoolInv /\ [PoolNext]_poolVars =>
        [\A b \in Blocks :
           refs[b] > 1 => s_blocks'[b].sequence = s_blocks[b].sequence]_poolVars
  BY <1>1
<1> QED
  BY PoolInitInv, PoolNextInv, <1>2, PTL DEF PoolSpec, NoRecycling
=============================================================================
