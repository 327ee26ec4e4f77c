------------------------------ MODULE PoolContract ------------------------------
(***************************************************************************)
(* The pool with callers that keep to its contract: a caller touches a     *)
(* block only while it holds a reference to it, and refs[b] is the number  *)
(* of references to b that callers hold.  Pool_Alloc gives its caller one; *)
(* Pool_AddRef adds one; the holder of the only reference may turn it into *)
(* n with Pool_SetRefCount, to hand them out; Pool_Free gives one up.      *)
(* Nothing in the pool enforces this: FramePath shows that the code does.  *)
(***************************************************************************)
EXTENDS PayloadPool

CONSTANT MaxSequence          \* bound: the sequence numbers frames are given

VARIABLE refs

poolVars == <<s_blocks, refs>>

PoolTypeOK ==
  /\ s_blocks \in [Blocks -> PayloadBlock]
  /\ refs \in [Blocks -> 0 .. RefCountModulus - 1]

PoolInit ==
  /\ Pool_Init
  /\ refs = [b \in Blocks |-> 0]

Alloc(b) ==
  /\ Pool_AllocSucceeds(b)
  /\ refs' = [refs EXCEPT ![b] = 1]

AllocFails == Pool_AllocFails /\ UNCHANGED refs

\* The holder of the only reference fills in the descriptor.
Fill(b, n) ==
  /\ refs[b] = 1
  /\ s_blocks' = [s_blocks EXCEPT ![b].sequence = n]
  /\ UNCHANGED refs

AddRef(b) ==
  /\ refs[b] > 0
  /\ refs[b] < RefCountModulus - 1        \* the count fits in its uint8_t
  /\ Pool_AddRef(b)
  /\ refs' = [refs EXCEPT ![b] = @ + 1]

Share(b, n) ==
  /\ refs[b] = 1
  /\ Pool_SetRefCount(b, n)
  /\ refs' = [refs EXCEPT ![b] = n]

Release(b) ==
  /\ refs[b] > 0
  /\ Pool_Free(b)
  /\ refs' = [refs EXCEPT ![b] = @ - 1]

PoolNext ==
  \/ AllocFails
  \/ \E b \in Blocks :
       \/ Alloc(b)
       \/ AddRef(b)
       \/ Release(b)
       \/ \E n \in 1 .. MaxSequence : Fill(b, n)
       \/ \E n \in 1 .. RefCountModulus - 1 : Share(b, n)

PoolSpec == PoolInit /\ [][PoolNext]_poolVars

-----------------------------------------------------------------------------
\* The reference count of a block is the number of references held to it, and a
\* block is free exactly when nobody holds one: never while it is in use
\* somewhere, and not a step later than the last Pool_Free.
RefCountExact ==
  \A b \in Blocks :
    /\ s_blocks[b].refCount = refs[b]
    /\ s_blocks[b].inUse <=> refs[b] > 0

\* While references to a block are held its content changes only in the hands
\* of the holder of the only reference, so a block is never recycled under a
\* reader.
NoRecycling ==
  [][\A b \in Blocks :
       refs[b] > 1 => s_blocks'[b].sequence = s_blocks[b].sequence]_poolVars
=============================================================================
