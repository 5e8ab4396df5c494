------------------------------ MODULE Rebuffer ------------------------------
(***************************************************************************)
(* rebuffer.c: the blocks of daq_buffer_size samples that rtl_daq writes   *)
(* to its standard output are gathered in a circular buffer and passed on  *)
(* in frames of another size: cpi_size * decimation_ratio samples of       *)
(* antenna signal or corr_size samples of the calibration signal.  A dummy *)
(* frame passes through at once and empties the buffer.                    *)
(*                                                                         *)
(* A sample is represented by its number since the start of the receivers, *)
(* and so is a time stamp: a block carries the time of its last sample.    *)
(* All channels are handled alike and one stands for them.  The block runs *)
(* with drop mode off, as both start scripts do (rebuffer.out 0), so that  *)
(* wait_buff_free only delays the loop.  One action is one iteration.      *)
(***************************************************************************)
EXTENDS Integers, Sequences

CONSTANTS
    InSize,         \* daq_buffer_size
    OutSize,        \* cpi_size * decimation_ratio
    CalSize,        \* corr_size
    MaxBlocks       \* bound: blocks the receivers sample

ASSUME RebufferAssumption ==
    /\ {InSize, OutSize, CalSize} \subseteq Nat \ {0}
    /\ MaxBlocks \in Nat

\* Mutant: the smaller of the two numbers is taken.
BufferNumSmaller ==
    LET blocks(size) == size \div InSize + 2
    IN  IF blocks(OutSize) >= blocks(CalSize) THEN blocks(CalSize) ELSE blocks(OutSize)

\* buffer_num input blocks fit the circular buffer.
BufferNum ==
    LET blocks(size) == size \div InSize + 2
    IN  IF blocks(OutSize) >= blocks(CalSize) THEN blocks(OutSize) ELSE blocks(CalSize)
Capacity == BufferNum * InSize

Types == {"DATA", "CAL"}
Empty == 0              \* content of a place that was cleared
NoData(type) == [type |-> type, data |-> <<>>, time_stamp |-> 0, overdrive |-> FALSE]
NoFrame == NoData("none")

VARIABLES
    iq_circ_buffer, rd_offset, wr_offset, available,
    adc_overdrive_flags,
    frame,          \* the frame the last iteration passed on
    \* rtl_daq and history
    blocks,         \* blocks sampled so far
    inType,         \* type of the last frame read
    overdriven      \* first samples of the blocks flagged by rtl_daq, those
                    \* apart that cannot be in the circular buffer any more

vars == <<iq_circ_buffer, rd_offset, wr_offset, available, adc_overdrive_flags,
          frame, blocks, inType, overdriven>>

Init ==
    /\ iq_circ_buffer = [p \in 0 .. Capacity - 1 |-> Empty]
    /\ rd_offset = 0 /\ wr_offset = 0 /\ available = 0
    /\ adc_overdrive_flags = FALSE
    /\ frame = NoFrame
    /\ blocks = 0
    /\ inType = "DUMMY"
    /\ overdriven = {}

\* Number of the first sample of the block being read.
FirstSample == blocks * InSize + 1
LastSample == (blocks + 1) * InSize

\* A dummy frame: the buffer is cleared and the header goes on without data
\* (its own overdrive flags are read by nobody).
Dummy ==
    /\ blocks < MaxBlocks
    /\ blocks' = blocks + 1
    /\ inType' = "DUMMY"
    /\ iq_circ_buffer' = [p \in 0 .. Capacity - 1 |-> Empty]
    /\ rd_offset' = 0 /\ wr_offset' = 0 /\ available' = 0
    /\ frame' = NoData("DUMMY")
    /\ UNCHANGED <<adc_overdrive_flags, overdriven>>

\* A block of type t is read; its samples go to rd_offset.
Read(t, over) ==
    /\ blocks < MaxBlocks
    /\ blocks' = blocks + 1
    /\ inType \in {"DUMMY", t}      \* rtl_daq changes the type under dummies only
    /\ inType' = t
    /\ iq_circ_buffer' = [p \in 0 .. Capacity - 1 |->
            IF p - rd_offset \in 0 .. InSize - 1 THEN FirstSample + (p - rd_offset)
            ELSE iq_circ_buffer[p]]
    /\ rd_offset' = (rd_offset + InSize) % Capacity
    /\ overdriven' = {n \in overdriven : n > FirstSample - Capacity}
                        \cup (IF over THEN {FirstSample} ELSE {})

SizeOf(t) == IF t = "CAL" THEN CalSize ELSE OutSize

\* Mutant: the piece after the wrap is read one place further on.
OldestShifted(n) ==
    [i \in 1 .. n |-> iq_circ_buffer'[
        LET p == wr_offset + i - 1 IN IF p < Capacity THEN p ELSE (p + 1) % Capacity]]

\* What the writer finds from wr_offset on, in two pieces when it wraps.
Oldest(n) == [i \in 1 .. n |-> iq_circ_buffer'[(wr_offset + i - 1) % Capacity]]

\* Not enough samples for a frame of type t yet.
Gather == \E t \in Types, over \in BOOLEAN :
    /\ Read(t, over)
    /\ available + InSize < SizeOf(t)
    /\ available' = available + InSize
    /\ adc_overdrive_flags' = (adc_overdrive_flags \/ over)
    /\ frame' = NoFrame
    /\ UNCHANGED wr_offset

\* Mutant: the time stamp is the one of the block just read.
EmitUnadjusted == \E t \in Types, over \in BOOLEAN :
    /\ Read(t, over)
    /\ available + InSize >= SizeOf(t)
    /\ available' = available + InSize - SizeOf(t)
    /\ frame' = [type |-> t, data |-> Oldest(SizeOf(t)),
                 time_stamp |-> LastSample,
                 overdrive |-> adc_overdrive_flags \/ over]
    /\ adc_overdrive_flags' = FALSE
    /\ wr_offset' = (wr_offset + SizeOf(t)) % Capacity

\* Mutant: the flags of the block that completes the frame are left to the next.
EmitFlagsLate == \E t \in Types, over \in BOOLEAN :
    /\ Read(t, over)
    /\ available + InSize >= SizeOf(t)
    /\ available' = available + InSize - SizeOf(t)
    /\ frame' = [type |-> t, data |-> Oldest(SizeOf(t)),
                 time_stamp |-> LastSample - available',
                 overdrive |-> adc_overdrive_flags]
    /\ adc_overdrive_flags' = over
    /\ wr_offset' = (wr_offset + SizeOf(t)) % Capacity

\* The oldest samples leave as one frame.  Its header is that of the block just
\* read, with the time stamp set back by the samples that stay.
Emit == \E t \in Types, over \in BOOLEAN :
    /\ Read(t, over)
    /\ available + InSize >= SizeOf(t)
    /\ available' = available + InSize - SizeOf(t)
    /\ frame' = [type |-> t, data |-> Oldest(SizeOf(t)),
                 time_stamp |-> LastSample - available',
                 overdrive |-> adc_overdrive_flags \/ over]
    /\ adc_overdrive_flags' = FALSE
    /\ wr_offset' = (wr_offset + SizeOf(t)) % Capacity

\* rtl_daq samples no more blocks.
Ended == blocks = MaxBlocks /\ UNCHANGED vars

Next == Dummy \/ Gather \/ Emit \/ Ended

Spec == Init /\ [][Next]_vars

-----------------------------------------------------------------------------
(* Properties *)

\* Shape of the state.
TypeOK ==
    /\ iq_circ_buffer \in [0 .. Capacity - 1 -> Nat]
    /\ rd_offset \in 0 .. Capacity - 1
    /\ wr_offset \in 0 .. Capacity - 1
    /\ available \in Nat
    /\ adc_overdrive_flags \in BOOLEAN
    /\ frame.type \in Types \cup {"DUMMY", "none"}
    /\ frame.data \in Seq(Nat)
    /\ frame.time_stamp \in Nat
    /\ frame.overdrive \in BOOLEAN
    /\ blocks \in 0 .. MaxBlocks
    /\ inType \in Types \cup {"DUMMY"}
    /\ overdriven \subseteq Nat

\* Less than a frame of the current type is kept, and nothing after a dummy.
Kept ==
    /\ available <= blocks * InSize
    /\ inType = "DUMMY" => available = 0
    /\ inType \in Types => available < SizeOf(inType)

\* The read offset is a whole number of blocks, and ahead of the write offset
\* by what is available.
Offsets ==
    /\ rd_offset = (wr_offset + available) % Capacity
    /\ \E k \in 0 .. BufferNum - 1 : rd_offset = k * InSize

\* The samples available are the last ones read, oldest first.
Contents == \A i \in 1 .. available :
    iq_circ_buffer[(wr_offset + i - 1) % Capacity] = blocks * InSize - available + i

\* The frame passed on last holds the samples before those, and their time.
Passed == frame.type \in Types =>
    /\ frame.data = [i \in 1 .. SizeOf(frame.type) |->
                        blocks * InSize - available - SizeOf(frame.type) + i]
    /\ frame.time_stamp = blocks * InSize - available

\* The inductive invariant of the block, for output sizes of at least a block:
\* offsets, counter and contents of the circular buffer agree.
IInv == TypeOK /\ Kept /\ Offsets /\ Contents /\ Passed

\* buffer_num is large enough: the next block fits the buffer, whatever is left
\* in it, and overwrites no sample that has not left.
NoOverrun == available + InSize <= Capacity

Queue == INSTANCE SampleQueue WITH
    BlockSize <- InSize,
    FrameSizes <- {OutSize, CalSize},
    clock <- blocks * InSize,
    queue <- [i \in 1 .. available |-> iq_circ_buffer[(wr_offset + i - 1) % Capacity]],
    frame <- frame.data

\* The circular buffer implements the sample queue: between two dummies no
\* sample is lost, repeated or reordered, over every wrap and every remainder
\* of the two sizes, and a frame never holds samples from before a dummy.
QueueRefined == Queue!SQSpec

\* A frame's time stamp is that of its last sample, as a block's is
\* (timestamp_adjust of the frame writing part).
TimeOfLastSample ==
    frame.type \in Types => frame.time_stamp = frame.data[Len(frame.data)]

Holds(n) == \E i \in DOMAIN frame.data : frame.data[i] = n

\* An overdriven block that starts within a frame is reported by that frame's
\* header.  Of a block split over two frames the second need not report it: the
\* flags are cleared with the first.
OverdriveReported ==
    frame.type \in Types =>
        ((\E n \in overdriven : Holds(n)) => frame.overdrive)

\* "In case the output block size is less than the input block size, only the
\* first portion will be forwarded, the remaining samples are dropped from the
\* input frame": a short frame starts with the block just read.
FirstPortionOnly ==
    frame.type \in Types /\ SizeOf(frame.type) < InSize =>
        frame.data[1] = (blocks - 1) * InSize + 1
=============================================================================
