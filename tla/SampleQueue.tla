----------------------------- MODULE SampleQueue -----------------------------
(***************************************************************************)
(* What a rebuffering block promises: a first-in first-out queue of        *)
(* samples.  A block of consecutive samples is appended; when the queue    *)
(* then holds a whole frame, its oldest samples leave as one frame.  The   *)
(* queue can be emptied, which gives up the samples in it.                 *)
(***************************************************************************)
EXTENDS Integers, Sequences

CONSTANTS
    BlockSize,      \* samples of an input block
    FrameSizes      \* samples an output frame may have

VARIABLES
    clock,          \* samples taken so far; samples are numbered from 1
    queue,
    frame           \* the frame that left last, empty when none did

qvars == <<clock, queue, frame>>

Init == clock = 0 /\ queue = <<>> /\ frame = <<>>

\* The queue with the next block of samples at its end.
Grown == queue \o [i \in 1 .. BlockSize |-> clock + i]

\* A block is appended and no frame leaves.
Gather ==
    /\ clock' = clock + BlockSize
    /\ queue' = Grown
    /\ frame' = <<>>

\* A block is appended and the oldest samples leave.
Emit == \E size \in FrameSizes :
    /\ size <= Len(Grown)
    /\ clock' = clock + BlockSize
    /\ frame' = SubSeq(Grown, 1, size)
    /\ queue' = SubSeq(Grown, size + 1, Len(Grown))

\* A block of samples is taken and given up with all that was kept.
Reset ==
    /\ clock' = clock + BlockSize
    /\ queue' = <<>>
    /\ frame' = <<>>

Next == Gather \/ Emit \/ Reset

SQSpec == Init /\ [][Next]_qvars
=============================================================================
