---------------------------- MODULE FrameChannel ----------------------------
(***************************************************************************)
(* What a shared memory IQ interface promises its two users: a lossy,      *)
(* in-order channel of depth two.  The source decides every frame it is    *)
(* offered exactly once, in order: it is put into the channel or it is     *)
(* dropped.  A frame is dropped only in drop mode and only while the sink  *)
(* still owes both buffers.  The sink sees exactly the frames put into the *)
(* channel, complete and in order.                                         *)
(*                                                                         *)
(* ShmemTransfer implements this with two memories and two control FIFOs.  *)
(***************************************************************************)
EXTENDS Integers, Sequences

CONSTANTS
    DropMode,   \* TRUE: the source drops a frame when no buffer is free
    MaxFrames   \* bound: number of frames the source is offered

Depth == 2      \* the A and the B buffer

VARIABLES
    accepted,   \* frames put into the channel, in order
    lost,       \* number of frames dropped
    delivered,  \* frames the sink has seen, in order
    returned    \* number of buffers the sink has handed back

chanVars == <<accepted, lost, delivered, returned>>

Decided == Len(accepted) + lost
Owed == Len(accepted) - returned

ChanInit ==
    /\ accepted = <<>>
    /\ lost = 0
    /\ delivered = <<>>
    /\ returned = 0

Put ==
    /\ Decided < MaxFrames
    /\ Owed < Depth
    /\ accepted' = Append(accepted, Decided + 1)
    /\ UNCHANGED <<lost, delivered, returned>>

Drop ==
    /\ DropMode
    /\ Decided < MaxFrames
    /\ Owed = Depth
    /\ lost' = lost + 1
    /\ UNCHANGED <<accepted, delivered, returned>>

Deliver ==
    /\ Len(delivered) < Len(accepted)
    /\ returned = Len(delivered)
    /\ delivered' = Append(delivered, accepted[Len(delivered) + 1])
    /\ UNCHANGED <<accepted, lost, returned>>

Return ==
    /\ returned < Len(delivered)
    /\ returned' = returned + 1
    /\ UNCHANGED <<accepted, lost, delivered>>

ChanNext == Put \/ Drop \/ Deliver \/ Return

ChanSpec == ChanInit /\ [][ChanNext]_chanVars
=============================================================================
