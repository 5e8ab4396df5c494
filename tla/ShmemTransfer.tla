--------------------------- MODULE ShmemTransfer ---------------------------
(***************************************************************************)
(* One shared memory IQ interface between a source block and a sink block  *)
(* (sh_mem_util.c and shmemIface.py): two memories used as ping-pong       *)
(* buffers, a forward FIFO that carries "buffer A/B ready" and TERMINATE,  *)
(* and a backward FIFO that carries "buffer A/B free".                     *)
(*                                                                         *)
(* The source is the main loop of rebuffer.c, fir_decimate.c or            *)
(* delay_sync.py; the sink is that of fir_decimate.c, delay_sync.py or     *)
(* hw_controller.py.  Either process may die at any step; its ends of the  *)
(* FIFOs are then closed by the kernel: a reader drains what is left and   *)
(* gets end-of-file, a writer is killed by SIGPIPE (no block handles it).  *)
(*                                                                         *)
(* The FIFOs are open and INIT_READY has been exchanged in Init.           *)
(***************************************************************************)
EXTENDS Integers, Sequences

CONSTANTS
    DropMode,   \* shmem_transfer_struct.drop_mode: the backward FIFO is O_NONBLOCK
    MaxFrames   \* bound: number of frames the source is offered by its own input

ASSUME ShmemAssumption ==
    /\ DropMode \in BOOLEAN
    /\ MaxFrames \in Nat

Buffers == {0, 1}       \* A and B
TERMINATE == 255
Torn == 0               \* content of a memory the source is writing into
Frames == 1 .. MaxFrames

VARIABLES
    \* source process
    srcPc,              \* "get", "alloc", "fill" or "linger"
    srcOpen,            \* the source process runs and holds its FIFO ends
    offered,            \* frames obtained from upstream so far; the last one's number
    buffer_free,        \* the source's private flags
    active_buff_ind,    \* buffer being filled
    dropped_frame_cntr,
    errnoEAGAIN,        \* errno of the source still holds EAGAIN
    \* the two FIFOs and the two memories
    fw_ctr_fifo,
    bw_ctr_fifo,
    shm_ptr,
    \* sink process
    snkPc,              \* "wait", "hold", "release" or "done"
    snkOpen,
    held_buff_ind,      \* buffer the sink works on
    \* history
    sent,               \* frames announced on the forward FIFO, in order
    received            \* what the sink found in the memories, in order

srcVars == <<srcPc, srcOpen, offered, buffer_free, active_buff_ind,
             dropped_frame_cntr, errnoEAGAIN>>
snkVars == <<snkPc, snkOpen, held_buff_ind>>
vars == <<srcVars, fw_ctr_fifo, bw_ctr_fifo, shm_ptr, snkVars, sent, received>>

Init ==
    /\ srcPc = "get"
    /\ srcOpen = TRUE
    /\ offered = 0
    /\ buffer_free = [b \in Buffers |-> TRUE]
    /\ active_buff_ind = 0
    /\ dropped_frame_cntr = 0
    /\ errnoEAGAIN = FALSE
    /\ fw_ctr_fifo = <<>>
    /\ bw_ctr_fifo = <<>>
    /\ shm_ptr = [b \in Buffers |-> Torn]
    /\ snkPc = "wait"
    /\ snkOpen = TRUE
    /\ held_buff_ind = 0
    /\ sent = <<>>
    /\ received = <<>>

-----------------------------------------------------------------------------
(* Source *)

NoneFree == \A b \in Buffers : ~buffer_free[b]

\* The main loop has its next frame and calls wait_buff_free.
GetFrame ==
    /\ srcOpen /\ srcPc = "get"
    /\ offered < MaxFrames
    /\ offered' = offered + 1
    /\ srcPc' = "alloc"
    /\ UNCHANGED <<srcOpen, buffer_free, active_buff_ind, dropped_frame_cntr,
                   errnoEAGAIN, fw_ctr_fifo, bw_ctr_fifo, shm_ptr, snkVars,
                   sent, received>>

\* The source starts to overwrite memory b.
StartFill(b) ==
    /\ active_buff_ind' = b
    /\ shm_ptr' = [shm_ptr EXCEPT ![b] = Torn]
    /\ srcPc' = "fill"

\* wait_buff_free finds a flag set: A first, then B.
AllocByFlag ==
    /\ srcOpen /\ srcPc = "alloc"
    /\ \E b \in Buffers :
        /\ buffer_free[b]
        /\ b = 1 => ~buffer_free[0]
        /\ StartFill(b)
    /\ UNCHANGED <<srcOpen, offered, buffer_free, dropped_frame_cntr, errnoEAGAIN,
                   fw_ctr_fifo, bw_ctr_fifo, snkVars, sent, received>>

\* wait_buff_free reads one "buffer free" signal.
AllocBySignal ==
    /\ srcOpen /\ srcPc = "alloc"
    /\ NoneFree
    /\ bw_ctr_fifo # <<>>
    /\ buffer_free' = [buffer_free EXCEPT ![Head(bw_ctr_fifo)] = TRUE]
    /\ bw_ctr_fifo' = Tail(bw_ctr_fifo)
    /\ StartFill(Head(bw_ctr_fifo))
    /\ UNCHANGED <<srcOpen, offered, dropped_frame_cntr, errnoEAGAIN, fw_ctr_fifo,
                   snkVars, sent, received>>

\* The frame is given up and the main loop asks for the next one.
DropFrame ==
    /\ dropped_frame_cntr' = dropped_frame_cntr + 1
    /\ srcPc' = "get"

\* Mutant: a frame is dropped as soon as no signal waits, whatever the flags say.
AllocDropsEarly ==
    /\ srcOpen /\ srcPc = "alloc"
    /\ bw_ctr_fifo = <<>> /\ snkOpen
    /\ DropMode
    /\ errnoEAGAIN' = TRUE
    /\ DropFrame
    /\ UNCHANGED <<srcOpen, offered, buffer_free, active_buff_ind, fw_ctr_fifo,
                   bw_ctr_fifo, shm_ptr, snkVars, sent, received>>

\* The backward FIFO is empty and its writer is alive: EAGAIN in drop mode
\* (otherwise the read blocks and no step is taken).
AllocWouldBlock ==
    /\ srcOpen /\ srcPc = "alloc"
    /\ NoneFree
    /\ bw_ctr_fifo = <<>> /\ snkOpen
    /\ DropMode
    /\ errnoEAGAIN' = TRUE
    /\ DropFrame
    /\ UNCHANGED <<srcOpen, offered, buffer_free, active_buff_ind, fw_ctr_fifo,
                   bw_ctr_fifo, shm_ptr, snkVars, sent, received>>

\* Mutant: only the EAGAIN branch is handled, otherwise the read is repeated.
AllocAtEofRetries ==
    /\ srcOpen /\ srcPc = "alloc"
    /\ NoneFree
    /\ bw_ctr_fifo = <<>> /\ ~snkOpen
    /\ errnoEAGAIN
    /\ DropFrame
    /\ UNCHANGED <<srcOpen, offered, buffer_free, active_buff_ind, errnoEAGAIN,
                   fw_ctr_fifo, bw_ctr_fifo, shm_ptr, snkVars, sent, received>>

\* Mutant: whatever a read without a result means, the frame is dropped.
AllocAtEofDrops ==
    /\ srcOpen /\ srcPc = "alloc"
    /\ NoneFree
    /\ bw_ctr_fifo = <<>> /\ ~snkOpen
    /\ DropFrame
    /\ UNCHANGED <<srcOpen, offered, buffer_free, active_buff_ind, errnoEAGAIN,
                   fw_ctr_fifo, bw_ctr_fifo, shm_ptr, snkVars, sent, received>>

\* The sink has closed the backward FIFO: fread returns 0 and leaves errno as
\* it was.  A stale EAGAIN is taken for a full interface; otherwise the call
\* fails, the loop ends and the TERMINATE it writes raises SIGPIPE.
AllocAtEof ==
    /\ srcOpen /\ srcPc = "alloc"
    /\ NoneFree
    /\ bw_ctr_fifo = <<>> /\ ~snkOpen
    /\ \/ errnoEAGAIN /\ DropFrame /\ UNCHANGED srcOpen
       \/ ~errnoEAGAIN /\ srcOpen' = FALSE /\ UNCHANGED <<dropped_frame_cntr, srcPc>>
    /\ UNCHANGED <<offered, buffer_free, active_buff_ind, errnoEAGAIN, fw_ctr_fifo,
                   bw_ctr_fifo, shm_ptr, snkVars, sent, received>>

\* send_ctr_buff_ready with the frame complete in memory.
SendReady ==
    /\ srcOpen /\ srcPc = "fill" /\ snkOpen
    /\ shm_ptr' = [shm_ptr EXCEPT ![active_buff_ind] = offered]
    /\ buffer_free' = [buffer_free EXCEPT ![active_buff_ind] = FALSE]
    /\ fw_ctr_fifo' = Append(fw_ctr_fifo, active_buff_ind)
    /\ sent' = Append(sent, offered)
    /\ srcPc' = "get"
    /\ UNCHANGED <<srcOpen, offered, active_buff_ind, dropped_frame_cntr,
                   errnoEAGAIN, bw_ctr_fifo, snkVars, received>>

\* Mutant: TERMINATE overtakes the frames announced.
SendTerminateFirst ==
    /\ srcOpen /\ srcPc = "get" /\ snkOpen
    /\ fw_ctr_fifo' = <<TERMINATE>> \o fw_ctr_fifo
    /\ srcPc' = "linger"
    /\ UNCHANGED <<srcOpen, offered, buffer_free, active_buff_ind,
                   dropped_frame_cntr, errnoEAGAIN, bw_ctr_fifo, shm_ptr, snkVars,
                   sent, received>>

\* The loop has ended: TERMINATE, then sleep(3) before the interface is destroyed.
SendTerminate ==
    /\ srcOpen /\ srcPc = "get" /\ snkOpen
    /\ fw_ctr_fifo' = Append(fw_ctr_fifo, TERMINATE)
    /\ srcPc' = "linger"
    /\ UNCHANGED <<srcOpen, offered, buffer_free, active_buff_ind,
                   dropped_frame_cntr, errnoEAGAIN, bw_ctr_fifo, shm_ptr, snkVars,
                   sent, received>>

\* A write to the forward FIFO whose reader is gone kills the source.
SourceSigpipe ==
    /\ srcOpen /\ srcPc \in {"get", "fill"} /\ ~snkOpen
    /\ srcOpen' = FALSE
    /\ UNCHANGED <<srcPc, offered, buffer_free, active_buff_ind,
                   dropped_frame_cntr, errnoEAGAIN, fw_ctr_fifo, bw_ctr_fifo,
                   shm_ptr, snkVars, sent, received>>

\* sleep(3) is over and destory_sm_buffer closes the FIFOs.
CloseSource ==
    /\ srcOpen /\ srcPc = "linger"
    /\ srcOpen' = FALSE
    /\ UNCHANGED <<srcPc, offered, buffer_free, active_buff_ind,
                   dropped_frame_cntr, errnoEAGAIN, fw_ctr_fifo, bw_ctr_fifo,
                   shm_ptr, snkVars, sent, received>>

-----------------------------------------------------------------------------
(* Sink *)

\* Mutant: the buffer is handed back before the frame is used.
TakeReadyFrees ==
    /\ snkOpen /\ snkPc = "wait"
    /\ fw_ctr_fifo # <<>>
    /\ Head(fw_ctr_fifo) \in Buffers
    /\ held_buff_ind' = Head(fw_ctr_fifo)
    /\ fw_ctr_fifo' = Tail(fw_ctr_fifo)
    /\ bw_ctr_fifo' = Append(bw_ctr_fifo, Head(fw_ctr_fifo))
    /\ snkPc' = "hold"
    /\ UNCHANGED <<srcVars, shm_ptr, snkOpen, sent, received>>

\* Mutant: what is left in the FIFO is not read once the source has ended.
TakeReadyOfLiveSource ==
    /\ snkOpen /\ snkPc = "wait" /\ srcOpen
    /\ fw_ctr_fifo # <<>>
    /\ Head(fw_ctr_fifo) \in Buffers
    /\ held_buff_ind' = Head(fw_ctr_fifo)
    /\ fw_ctr_fifo' = Tail(fw_ctr_fifo)
    /\ snkPc' = "hold"
    /\ UNCHANGED <<srcVars, bw_ctr_fifo, shm_ptr, snkOpen, sent, received>>

\* wait_buff_ready returns a buffer index.
TakeReady ==
    /\ snkOpen /\ snkPc = "wait"
    /\ fw_ctr_fifo # <<>>
    /\ Head(fw_ctr_fifo) \in Buffers
    /\ held_buff_ind' = Head(fw_ctr_fifo)
    /\ fw_ctr_fifo' = Tail(fw_ctr_fifo)
    /\ snkPc' = "hold"
    /\ UNCHANGED <<srcVars, bw_ctr_fifo, shm_ptr, snkOpen, sent, received>>

\* wait_buff_ready returns TERMINATE: the sink's main loop ends.
TakeTerminate ==
    /\ snkOpen /\ snkPc = "wait"
    /\ fw_ctr_fifo # <<>>
    /\ Head(fw_ctr_fifo) = TERMINATE
    /\ fw_ctr_fifo' = Tail(fw_ctr_fifo)
    /\ snkPc' = "done"
    /\ snkOpen' = FALSE
    /\ UNCHANGED <<srcVars, bw_ctr_fifo, shm_ptr, held_buff_ind, sent, received>>

\* The source is gone and the forward FIFO is drained: the read fails.
TakeAtEof ==
    /\ snkOpen /\ snkPc = "wait"
    /\ fw_ctr_fifo = <<>> /\ ~srcOpen
    /\ snkOpen' = FALSE
    /\ UNCHANGED <<srcVars, fw_ctr_fifo, bw_ctr_fifo, shm_ptr, snkPc,
                   held_buff_ind, sent, received>>

\* The sink has used the frame; until here it may read the memory.
UseFrame ==
    /\ snkOpen /\ snkPc = "hold"
    /\ received' = Append(received, shm_ptr[held_buff_ind])
    /\ snkPc' = "release"
    /\ UNCHANGED <<srcVars, fw_ctr_fifo, bw_ctr_fifo, shm_ptr, snkOpen,
                   held_buff_ind, sent>>

\* send_ctr_buff_free; a source that is gone kills the sink with SIGPIPE.
SendFree ==
    /\ snkOpen /\ snkPc = "release"
    /\ \/ /\ srcOpen
          /\ bw_ctr_fifo' = Append(bw_ctr_fifo, held_buff_ind)
          /\ snkPc' = "wait"
          /\ UNCHANGED snkOpen
       \/ /\ ~srcOpen
          /\ snkOpen' = FALSE
          /\ UNCHANGED <<bw_ctr_fifo, snkPc>>
    /\ UNCHANGED <<srcVars, fw_ctr_fifo, shm_ptr, held_buff_ind, sent, received>>

-----------------------------------------------------------------------------
(* Processes that die: kill of daq_stop.sh, an exception, a fatal error *)

SourceDies ==
    /\ srcOpen
    /\ srcOpen' = FALSE
    /\ UNCHANGED <<srcPc, offered, buffer_free, active_buff_ind,
                   dropped_frame_cntr, errnoEAGAIN, fw_ctr_fifo, bw_ctr_fifo,
                   shm_ptr, snkVars, sent, received>>

SinkDies ==
    /\ snkOpen
    /\ snkOpen' = FALSE
    /\ UNCHANGED <<srcVars, fw_ctr_fifo, bw_ctr_fifo, shm_ptr, snkPc,
                   held_buff_ind, sent, received>>

\* Both processes are gone: the link rests.
BothGone == ~srcOpen /\ ~snkOpen /\ UNCHANGED vars

-----------------------------------------------------------------------------
SourceStep ==
    \/ GetFrame \/ AllocByFlag \/ AllocBySignal \/ AllocWouldBlock \/ AllocAtEof
    \/ SendReady \/ SendTerminate \/ SourceSigpipe \/ CloseSource

SinkStep == TakeReady \/ TakeTerminate \/ TakeAtEof \/ UseFrame \/ SendFree

Next == SourceStep \/ SinkStep \/ SourceDies \/ SinkDies \/ BothGone

Spec == Init /\ [][Next]_vars

\* Both processes are scheduled by the operating system; dying is never forced.
FairSpec == Spec /\ WF_vars(SourceStep) /\ WF_vars(SinkStep)

-----------------------------------------------------------------------------
(* Invariants *)

\* Shape of the state.
TypeOK ==
    /\ srcPc \in {"get", "alloc", "fill", "linger"}
    /\ srcOpen \in BOOLEAN
    /\ offered \in 0 .. MaxFrames
    /\ buffer_free \in [Buffers -> BOOLEAN]
    /\ active_buff_ind \in Buffers
    /\ dropped_frame_cntr \in 0 .. MaxFrames
    /\ errnoEAGAIN \in BOOLEAN
    /\ fw_ctr_fifo \in Seq(Buffers \cup {TERMINATE})
    /\ bw_ctr_fifo \in Seq(Buffers)
    /\ shm_ptr \in [Buffers -> 0 .. MaxFrames]
    /\ snkPc \in {"wait", "hold", "release", "done"}
    /\ snkOpen \in BOOLEAN
    /\ held_buff_ind \in Buffers
    /\ sent \in Seq(Frames)
    /\ received \in Seq(Frames)

\* Ready signals the sink has taken, and buffers it has handed back.
Taken == Len(received) + (IF snkPc = "hold" THEN 1 ELSE 0)
Returned == Len(received) - (IF snkPc = "release" THEN 1 ELSE 0)
\* Buffers the source has reclaimed from the sink.
Reclaimed == Returned - Len(bw_ctr_fifo)

\* Buffers the source has sent and not reclaimed.
Outstanding == Len(sent) - Reclaimed

\* The buffer that carries the k-th frame sent.
BufferOf(k) == (k + 1) % 2

\* The buffers are used alternately, and each end's view of who owns them
\* follows from how many frames were sent, used and handed back.
Ownership ==
    /\ 0 <= Reclaimed /\ Taken <= Len(sent)
    /\ srcPc = "fill" => Outstanding = IF Len(sent) = 0 THEN 0 ELSE 1
    /\ srcPc # "fill" => Outstanding = IF Len(sent) < 2 THEN Len(sent) ELSE 2
    /\ \A b \in Buffers : buffer_free[b] <=> \/ Len(sent) <= b
                                             \/ srcPc = "fill" /\ active_buff_ind = b
    /\ srcPc = "fill" => active_buff_ind = BufferOf(Len(sent) + 1)
    /\ snkPc \in {"hold", "release"} => held_buff_ind = BufferOf(Taken)
    /\ \A k \in 1 .. Len(bw_ctr_fifo) : bw_ctr_fifo[k] = BufferOf(Reclaimed + k)

\* The forward FIFO holds the frames not yet taken and, after them, TERMINATE.
Announced ==
    /\ Len(fw_ctr_fifo) = Len(sent) - Taken
                            + (IF srcPc = "linger" /\ snkPc # "done" THEN 1 ELSE 0)
    /\ \A k \in 1 .. Len(fw_ctr_fifo) :
          fw_ctr_fifo[k] = IF Taken + k <= Len(sent) THEN BufferOf(Taken + k) ELSE TERMINATE
    /\ snkPc = "done" => srcPc = "linger" /\ Taken = Len(sent)

\* The frames the sink has not handed back are intact in their memories, and
\* what it used before is what was sent.
Contents ==
    /\ \A k \in Returned + 1 .. Len(sent) : shm_ptr[BufferOf(k)] = sent[k]
    /\ \A k \in 1 .. Len(received) : received[k] = sent[k]

\* Every frame offered is sent, dropped or still in the source's hands.
Account ==
    LET pending == IF srcPc \in {"alloc", "fill"} THEN 1 ELSE 0
    IN  offered = Len(sent) + dropped_frame_cntr + pending

\* The inductive invariant of the interface (send_ctr_buff_ready,
\* send_ctr_buff_free, wait_buff_free and wait_buff_ready together).
IInv == TypeOK /\ Ownership /\ Announced /\ Contents /\ Account

\* The source never writes a memory the sink is reading: the index returned by
\* wait_buff_free is not the one wait_buff_ready handed out.
ExclusiveAccess ==
    srcPc = "fill" /\ snkPc = "hold" => active_buff_ind # held_buff_ind

\* The sink finds in the memories exactly the frames announced, whole, in the
\* order they were sent, none twice and none skipped.
IntactInOrder ==
    /\ Len(received) <= Len(sent)
    /\ \A k \in 1 .. Len(received) : received[k] = sent[k]

\* TERMINATE overtakes no frame: a sink that ends on it has used everything.
TerminateIsLast == snkPc = "done" => received = sent

-----------------------------------------------------------------------------
(* Refinement and liveness *)

Channel == INSTANCE FrameChannel WITH
    accepted <- sent,
    lost <- dropped_frame_cntr,
    delivered <- received,
    returned <- Returned

\* The interface implements the lossy channel of depth two: in particular it
\* drops a frame only while the sink still owes both buffers.
ChannelRefined == Channel!ChanSpec

\* wait_buff_free always comes back, in either mode: no token is lost that it
\* would wait for, and a dead sink is noticed.
AllocReturns == (srcOpen /\ srcPc = "alloc") ~> (~srcOpen \/ srcPc # "alloc")

\* Every frame announced is used, unless the sink dies.
SentIsUsed == \A n \in Frames : (Len(sent) >= n) ~> (Len(received) >= n \/ ~snkOpen)

\* Without drop mode every frame offered is used, unless a process ends.
OfferedIsUsed ==
    \A n \in Frames : (offered >= n) ~> (Len(received) >= n \/ ~snkOpen \/ ~srcOpen)

\* A sink that has ended is taken for a slow one only by the errno of an earlier
\* drop: a source that has never dropped a frame ends instead of dropping.
OnlyStaleErrnoDrops ==
    [][dropped_frame_cntr' # dropped_frame_cntr /\ ~snkOpen => dropped_frame_cntr > 0]_vars
=============================================================================
