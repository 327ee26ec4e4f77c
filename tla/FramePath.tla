------------------------------- MODULE FramePath -------------------------------
(***************************************************************************)
(* The zero-copy path: publishFrameReady of app_tasks.c, run by the sensor *)
(* task, hands a pool block to the subscribers of FRAME_READY through the  *)
(* event bus, and each subscriber task reads the block and frees it.  Bus, *)
(* pool, publisher and subscribers interleave at every step of EventBus    *)
(* and at every pool call.                                                 *)
(*                                                                         *)
(* The subscribers' own publications (heartbeats, STORAGE_LOG, ...) touch  *)
(* neither the pool nor FRAME_READY and are left out here.                 *)
(***************************************************************************)
EXTENDS EventBus, PayloadPool

CONSTANTS
  Sensor,           \* the task that runs prvSensorManagerTask
  FrameSite,        \* its publication on FRAME_READY
  FaultSite,        \* publishSimple(TOPIC_SYSTEM_FAULT, ...) when the pool is empty
  MaxFrames         \* bound: calls of publishFrameReady

\* The payload of FRAME_READY is the pointer.  frame is no part of it: it says
\* which frame the event announces, to compare with what the reader finds.
FramePayload == [ptr : Blocks, frame : 1 .. MaxFrames]

\* Nobody else publishes on FRAME_READY, and the number of its subscribers fits in
\* the uint8_t that Pool_SetRefCount takes.
ASSUME FrameAssumption ==
  /\ {FrameSite, FaultSite} \subseteq CallSite
  /\ FrameSite.task = Sensor /\ FaultSite.task = Sensor
  /\ FrameSite.stamped /\ FaultSite.stamped
  /\ \A site \in CallSites \cup {FaultSite} : site.topic # FrameSite.topic
  /\ FramePayload \subseteq Payloads
  /\ MaxFrames \in Nat
  /\ MAX_SUBSCRIBERS_PER_TOPIC < RefCountModulus

VARIABLES
  fpc,              \* where Sensor is in publishFrameReady
  frame,            \* its local frame
  frameSeq,         \* frameSeq of prvSensorManagerTask
  subscriberCount,
  freeIdx,          \* the counter i of the loop that frees unsent references
  holding           \* which subscribers are handling a FRAME_READY event

frameVars == <<fpc, frame, frameSeq, subscriberCount, freeIdx, holding>>
allVars == <<vars, s_blocks, frameVars>>

FrameInit ==
  /\ Init
  /\ Pool_Init
  /\ fpc = "idle"
  /\ frame = NULL
  /\ frameSeq = 0
  /\ subscriberCount = 0
  /\ freeIdx = 0
  /\ holding = [q \in Queues |-> FALSE]

-----------------------------------------------------------------------------
(***************************************************************************)
(* publishFrameReady.  Sensor runs it while it is in no bus call.          *)
(***************************************************************************)

At(label) == fpc = label /\ pc[Sensor] = "idle"

Frame_Alloc ==
  /\ Running
  /\ At("idle")
  /\ frameSeq < MaxFrames
  /\ frameSeq' = frameSeq + 1
  /\ \/ /\ Pool_AllocFails
        /\ frame' = NULL
        /\ fpc' = "fault"
     \/ \E b \in Blocks : /\ Pool_AllocSucceeds(b)
                          /\ frame' = b
                          /\ fpc' = "fill"
  /\ UNCHANGED <<vars, subscriberCount, freeIdx, holding>>

Frame_Fault ==
  /\ At("fault")
  /\ MakeEvent_Load(Sensor, FaultSite, NoPayload)
  /\ fpc' = "idle"
  /\ UNCHANGED <<s_blocks, frame, frameSeq, subscriberCount, freeIdx, holding>>

\* Variant: the descriptor is published empty.
Frame_Fill_Missing ==
  /\ At("fill")
  /\ fpc' = "count"
  /\ UNCHANGED <<vars, s_blocks, frame, frameSeq, subscriberCount, freeIdx, holding>>

Frame_Fill ==
  /\ At("fill")
  /\ s_blocks' = [s_blocks EXCEPT ![frame].sequence = frameSeq]
  /\ fpc' = "count"
  /\ UNCHANGED <<vars, frame, frameSeq, subscriberCount, freeIdx, holding>>

Bus_GetSubscriberCount(topic) == Len(subscribers[topic])

\* Variant: with no subscriber the frame is published like any other.
Frame_CountSubscribers_KeepsFrame ==
  /\ At("count")
  /\ lock[FrameSite.topic] = NoTask
  /\ subscriberCount' = Bus_GetSubscriberCount(FrameSite.topic)
  /\ fpc' = "setref"
  /\ UNCHANGED <<vars, s_blocks, frame, frameSeq, freeIdx, holding>>

\* Bus_GetSubscriberCount takes the topic's mutex; with no subscriber the frame
\* is given back at once.
Frame_CountSubscribers ==
  /\ At("count")
  /\ lock[FrameSite.topic] = NoTask
  /\ subscriberCount' = Bus_GetSubscriberCount(FrameSite.topic)
  /\ \/ /\ subscriberCount' = 0
        /\ Pool_Free(frame)
        /\ fpc' = "idle"
     \/ /\ subscriberCount' # 0
        /\ UNCHANGED s_blocks
        /\ fpc' = "setref"
  /\ UNCHANGED <<vars, frame, frameSeq, freeIdx, holding>>

\* Variant: the frame is published with the one reference of Pool_Alloc.
Frame_SetRefCount_Missing ==
  /\ At("setref")
  /\ fpc' = "make"
  /\ UNCHANGED <<vars, s_blocks, frame, frameSeq, subscriberCount, freeIdx, holding>>

Frame_SetRefCount ==
  /\ At("setref")
  /\ Pool_SetRefCount(frame, subscriberCount)
  /\ fpc' = "make"
  /\ UNCHANGED <<vars, frame, frameSeq, subscriberCount, freeIdx, holding>>

Frame_Publish ==
  /\ At("make")
  /\ MakeEvent_Load(Sensor, FrameSite, [ptr |-> frame, frame |-> frameSeq])
  /\ fpc' = "publish"
  /\ UNCHANGED <<s_blocks, frame, frameSeq, subscriberCount, freeIdx, holding>>

\* Bus_PublishWithCount has returned: i = sentCount.
Frame_Published ==
  /\ At("publish")
  /\ freeIdx' = accepted[Sensor]
  /\ fpc' = "free"
  /\ UNCHANGED <<vars, s_blocks, frame, frameSeq, subscriberCount, holding>>

Frame_FreeUnsent ==
  /\ At("free")
  /\ freeIdx < subscriberCount
  /\ Pool_Free(frame)
  /\ freeIdx' = freeIdx + 1
  /\ UNCHANGED <<vars, fpc, frame, frameSeq, subscriberCount, holding>>

Frame_FreeDone ==
  /\ At("free")
  /\ freeIdx >= subscriberCount
  /\ fpc' = "print"
  /\ UNCHANGED <<vars, s_blocks, frame, frameSeq, subscriberCount, freeIdx, holding>>

\* The printf reads frame->sequence and frame->frameSize.
Frame_Print ==
  /\ At("print")
  /\ fpc' = "idle"
  /\ UNCHANGED <<vars, s_blocks, frame, frameSeq, subscriberCount, freeIdx, holding>>

PublishFrameReady ==
  \/ Frame_Alloc
  \/ Frame_Fault
  \/ Frame_Fill
  \/ Frame_CountSubscribers
  \/ Frame_SetRefCount
  \/ Frame_Publish
  \/ Frame_Published
  \/ Frame_FreeUnsent
  \/ Frame_FreeDone
  \/ Frame_Print

(***************************************************************************)
(* The subscriber tasks: Storage, Cloud and Logger handle FRAME_READY in   *)
(* the same way, and nothing else they handle concerns the pool.           *)
(***************************************************************************)

Receive(q) ==
  /\ ~holding[q]
  /\ XQueueReceive(q)
  /\ holding' = [holding EXCEPT ![q] = Head(queue[q]).topic = FrameSite.topic]
  /\ UNCHANGED <<s_blocks, fpc, frame, frameSeq, subscriberCount, freeIdx>>

\* The event the subscriber is handling.
Handled(q) == received[q][Len(received[q])]

\* Variant: a subscriber keeps its frame until it is the last to hold it.
ReleaseFrame_Waits(q) ==
  /\ holding[q]
  /\ \/ /\ s_blocks[Handled(q).payload.ptr].refCount > 1
        /\ UNCHANGED <<s_blocks, holding>>
     \/ /\ s_blocks[Handled(q).payload.ptr].refCount <= 1
        /\ Pool_Free(Handled(q).payload.ptr)
        /\ holding' = [holding EXCEPT ![q] = FALSE]
  /\ UNCHANGED <<vars, fpc, frame, frameSeq, subscriberCount, freeIdx>>

ReleaseFrame(q) ==
  /\ holding[q]
  /\ Pool_Free(Handled(q).payload.ptr)
  /\ holding' = [holding EXCEPT ![q] = FALSE]
  /\ UNCHANGED <<vars, fpc, frame, frameSeq, subscriberCount, freeIdx>>

\* The other publications that share the queues with FRAME_READY.
OtherPublish ==
  /\ MayStart
  /\ \E p \in Tasks, site \in CallSites :
       /\ p = Sensor => fpc = "idle"
       /\ MakeEvent_Load(p, site, NoPayload)
  /\ UNCHANGED <<s_blocks, frameVars>>

FrameQuiescent ==
  /\ Quiescent
  /\ At("idle")
  /\ frameSeq = MaxFrames
  /\ \A q \in Queues : ~holding[q]
  /\ UNCHANGED <<s_blocks, frameVars>>

FrameNext ==
  \/ Bus_Subscribe /\ UNCHANGED <<s_blocks, frameVars>>
  \/ OtherPublish
  \/ \E p \in Tasks : PublishStep(p) /\ UNCHANGED <<s_blocks, frameVars>>
  \/ PublishFrameReady
  \/ \E q \in Queues : Receive(q) \/ ReleaseFrame(q)
  \/ FrameQuiescent

(***************************************************************************)
(* The tasks run when they can; the subscriber tasks wait in xQueueReceive *)
(* for an event and do nothing that could block for ever.                  *)
(***************************************************************************)
FrameFairness ==
  /\ WF_allVars(Bus_Subscribe /\ UNCHANGED <<s_blocks, frameVars>>)
  /\ \A p \in Tasks : WF_allVars(PublishStep(p) /\ UNCHANGED <<s_blocks, frameVars>>)
  /\ WF_allVars(PublishFrameReady)
  /\ \A q \in Queues : WF_allVars(Receive(q) \/ ReleaseFrame(q))

FrameSpec == FrameInit /\ [][FrameNext]_allVars /\ FrameFairness

-----------------------------------------------------------------------------
(***************************************************************************)
(* Properties.                                                             *)
(***************************************************************************)

\* The places of FRAME_READY events that wait in queue q or are being handled.
Outstanding(q) ==
  {k \in DOMAIN Delivered(q) :
     /\ Delivered(q)[k].topic = FrameSite.topic
     /\ k > Len(received[q]) \/ (holding[q] /\ k = Len(received[q]))}

\* The references to block b that the subscribers have or will receive.
References(b) ==
  UNION {{q} \X {k \in Outstanding(q) : Delivered(q)[k].payload.ptr = b} : q \in Queues}

\* The queues that have been sent the frame that Sensor is publishing.
SentTo ==
  {q \in Queues : \E k \in DOMAIN Delivered(q) :
     /\ Delivered(q)[k].topic = FrameSite.topic
     /\ Delivered(q)[k].payload.frame = frameSeq}

\* The references to b that publishFrameReady has not handed over.
SensorRefs(b) ==
  IF frame # b THEN 0
  ELSE CASE fpc \in {"fill", "count", "setref"} -> 1
         [] fpc = "make" -> subscriberCount
         [] fpc = "publish" -> subscriberCount - Cardinality(SentTo)
         [] fpc = "free" -> subscriberCount - freeIdx
         [] OTHER -> 0

HeldRefs == [b \in Blocks |-> SensorRefs(b) + Cardinality(References(b))]

Contract == INSTANCE PoolContract WITH refs <- HeldRefs, MaxSequence <- MaxFrames

\* publishFrameReady and the subscriber tasks keep the pool's contract: every
\* step of theirs is a call the contract allows, and whatever the queues drop
\* each block's count is the number of references that remain.
ImplementsContract == Contract!PoolSpec

\* A frame event that waits in a queue or is being handled points to a block
\* that still holds the announced frame (README: "Prevents premature frees").
FrameIntact ==
  \A q \in Queues : \A k \in Outstanding(q) :
    LET announced == Delivered(q)[k].payload
    IN /\ s_blocks[announced.ptr].inUse
       /\ s_blocks[announced.ptr].sequence = announced.frame

\* Every block that is allocated returns to the pool, although subscribers drop
\* frames and the publisher has to give up references (README: "Prevents
\* memory leaks").
BlockReturns == \A b \in Blocks : s_blocks[b].inUse ~> ~s_blocks[b].inUse

\* SYSTEM_FAULT for an exhausted pool is raised only when the subscribers
\* really hold every block.
FaultMeansExhausted ==
  [][Frame_Alloc /\ fpc' = "fault" =>
       \A b \in Blocks : References(b) # {}]_allVars
=============================================================================
