------------------------------ MODULE PayloadPool ------------------------------
(***************************************************************************)
(* The fixed pool of frame descriptors of payload_pool.c.  Each function   *)
(* does its work in one critical section of s_poolLock, so each is one     *)
(* step, whoever calls it.  Of EventPayload_t the model keeps sequence,    *)
(* which tells one use of a block from the next.                           *)
(***************************************************************************)
EXTENDS Integers, FiniteSets

CONSTANTS
  PAYLOAD_POOL_BLOCKS,        \* number of blocks
  RefCountModulus             \* refCount is a uint8_t: 256

ASSUME PoolAssumption ==
  /\ PAYLOAD_POOL_BLOCKS \in Nat
  /\ RefCountModulus \in Nat \ {0, 1}

VARIABLE s_blocks

Blocks == 0 .. PAYLOAD_POOL_BLOCKS - 1

NULL == -1                    \* the null pointer; a block's pointer is its index

PayloadBlock == [inUse : BOOLEAN, refCount : 0 .. RefCountModulus - 1, sequence : Nat]

ZeroBlock == [inUse |-> FALSE, refCount |-> 0, sequence |-> 0]

Pool_Init == s_blocks = [b \in Blocks |-> ZeroBlock]

FreeBlocks == {b \in Blocks : ~s_blocks[b].inUse}

\* Pool_Alloc returns the first free block, zeroed and with one reference...
Pool_AllocSucceeds(b) ==
  /\ b \in FreeBlocks
  /\ \A c \in FreeBlocks : b <= c
  /\ s_blocks' = [s_blocks EXCEPT ![b] = [inUse |-> TRUE, refCount |-> 1, sequence |-> 0]]

\* Variant: the scan stops before the last block.
Pool_AllocFails_Early ==
  /\ FreeBlocks \subseteq {PAYLOAD_POOL_BLOCKS - 1}
  /\ UNCHANGED s_blocks

\* ... or NULL when there is none.
Pool_AllocFails ==
  /\ FreeBlocks = {}
  /\ UNCHANGED s_blocks

\* payload is a pointer to a block or NULL.
Pool_AddRef(payload) ==
  IF payload \in Blocks /\ s_blocks[payload].inUse
  THEN s_blocks' = [s_blocks EXCEPT ![payload].refCount = (@ + 1) % RefCountModulus]
  ELSE UNCHANGED s_blocks

Pool_SetRefCount(payload, refCount) ==
  IF refCount # 0 /\ payload \in Blocks /\ s_blocks[payload].inUse
  THEN s_blocks' = [s_blocks EXCEPT ![payload].refCount = refCount]
  ELSE UNCHANGED s_blocks

\* Variant: the first Pool_Free frees the block.
Pool_Free_Always(payload) ==
  IF payload \in Blocks /\ s_blocks[payload].inUse
  THEN s_blocks' = [s_blocks EXCEPT ![payload] = ZeroBlock]
  ELSE UNCHANGED s_blocks

\* Variant: the descriptor is cleared before the reference count is looked at.
Pool_Free_ClearsFirst(payload) ==
  IF payload \in Blocks /\ s_blocks[payload].inUse
  THEN s_blocks' = IF s_blocks[payload].refCount > 1
                   THEN [s_blocks EXCEPT ![payload].refCount = @ - 1, ![payload].sequence = 0]
                   ELSE [s_blocks EXCEPT ![payload] = ZeroBlock]
  ELSE UNCHANGED s_blocks

Pool_Free(payload) ==
  IF payload \in Blocks /\ s_blocks[payload].inUse
  THEN s_blocks' = IF s_blocks[payload].refCount > 1
                   THEN [s_blocks EXCEPT ![payload].refCount = @ - 1]
                   ELSE [s_blocks EXCEPT ![payload] = ZeroBlock]
  ELSE UNCHANGED s_blocks     \* NULL, or "ignored free for foreign payload"

Pool_GetFreeCount == Cardinality(FreeBlocks)
=============================================================================
