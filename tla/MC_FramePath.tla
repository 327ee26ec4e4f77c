------------------------------ MODULE MC_FramePath ------------------------------
(***************************************************************************)
(* FramePath with two subscribers of FRAME_READY whose queues hold one and *)
(* two events, and a second publisher that fills the first one's queue.    *)
(***************************************************************************)
EXTENDS FramePath

CONSTANTS power, frameReady, reading, fault, storage, cloud,
          sensorId, powerId, healthId, none

Site(p, s, t) == [task |-> p, source |-> s, topic |-> t, stamped |-> TRUE]

MCFrameSite == Site(Sensor, sensorId, frameReady)
MCFaultSite == Site(Sensor, healthId, fault)
MCCallSites == {Site(power, powerId, reading)}
MCPayloads == FramePayload \cup {none}

MCSubscriptions == <<<<frameReady, storage>>, <<frameReady, cloud>>, <<reading, storage>>>>
NoFrameSubscribers == <<<<reading, storage>>, <<fault, cloud>>>>
MCQueueLength == [q \in Queues |-> IF q = storage THEN 1 ELSE 2]
=============================================================================
