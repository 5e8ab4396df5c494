----------------------- MODULE ShmemTransfer_proofs -----------------------
(***************************************************************************)
(* Machine-checked proofs about one shared memory IQ interface, for every  *)
(* number of frames and in both modes.                                     *)
(***************************************************************************)
EXTENDS ShmemTransfer, SequenceTheorems, TLAPS

\* The buffers alternate.
LEMMA BufferFacts ==
    ASSUME NEW k \in Nat
    PROVE  /\ BufferOf(k) \in Buffers
           /\ BufferOf(k + 1) \in Buffers
           /\ BufferOf(k + 1) # BufferOf(k)
           /\ BufferOf(k + 2) = BufferOf(k)
BY DEF BufferOf, Buffers

\* The first frame goes into A and the second into B.
LEMMA FirstBuffers == BufferOf(1) = 0 /\ BufferOf(2) = 1
BY DEF BufferOf

\* How the counters of the interface are related in a state that satisfies
\* the invariant.
LEMMA Counters ==
    ASSUME TypeOK, Ownership
    PROVE  /\ Len(sent) \in Nat /\ Len(received) \in Nat
           /\ Len(bw_ctr_fifo) \in Nat /\ Len(fw_ctr_fifo) \in Nat
           /\ Taken \in Nat /\ Returned \in Nat /\ Reclaimed \in Nat
           /\ Reclaimed <= Returned /\ Returned <= Taken /\ Taken <= Len(sent)
           /\ Returned <= Len(received) /\ Len(received) <= Taken
           /\ Outstanding \in 0 .. 2
           /\ srcPc = "fill" => Outstanding <= 1
           /\ Reclaimed = Len(sent) - Outstanding
           /\ Len(bw_ctr_fifo) = Returned - Reclaimed
<1>1. /\ Len(sent) \in Nat /\ Len(received) \in Nat
      /\ Len(bw_ctr_fifo) \in Nat /\ Len(fw_ctr_fifo) \in Nat
  BY LenProperties DEF TypeOK
<1>2. /\ Returned \in Int /\ Taken \in Nat /\ Returned <= Taken
      /\ Returned <= Len(received) /\ Len(received) <= Taken
  <2>1. CASE snkPc = "hold"
    BY <1>1, <2>1 DEF Returned, Taken
  <2>2. CASE snkPc = "release"
    BY <1>1, <2>2 DEF Returned, Taken
  <2>3. CASE snkPc # "hold" /\ snkPc # "release"
    BY <1>1, <2>3 DEF Returned, Taken
  <2>4. QED
    BY <2>1, <2>2, <2>3
<1>3. Reclaimed \in Nat /\ Reclaimed <= Returned /\ Returned \in Nat
  <2>1. 0 <= Reclaimed
    BY DEF Ownership
  <2>2. Reclaimed = Returned - Len(bw_ctr_fifo)
    BY DEF Reclaimed
  <2>3. QED
    BY <1>1, <1>2, <2>1, <2>2
<1>4. Outstanding \in 0 .. 2 /\ (srcPc = "fill" => Outstanding <= 1)
  BY <1>1, <1>3 DEF Outstanding, Ownership, Reclaimed
<1>5. QED
  BY <1>1, <1>2, <1>3, <1>4 DEF Ownership, Outstanding, Reclaimed

\* The invariant holds once the interface is open.
LEMMA InitIInv == Init => IInv
<1> SUFFICES ASSUME Init PROVE IInv
  OBVIOUS
<1> USE DEF Init, Buffers
<1>1. TypeOK
  BY ShmemAssumption, EmptySeq DEF TypeOK, Torn, Frames
<1>2. /\ Returned = 0 /\ Taken = 0 /\ Reclaimed = 0 /\ Outstanding = 0
  BY DEF Returned, Taken, Reclaimed, Outstanding
<1>3. Ownership /\ Announced /\ Contents /\ Account
  BY <1>2 DEF Ownership, Announced, Contents, Account
<1>4. QED
  BY <1>1, <1>3 DEF IInv

\* A new frame only adds to the account.
LEMMA GetFrameStep ==
    ASSUME IInv, GetFrame
    PROVE  IInv'
<1> USE DEF GetFrame, snkVars
<1>1. Taken' = Taken /\ Returned' = Returned /\ Reclaimed' = Reclaimed
      /\ Outstanding' = Outstanding
  BY DEF Taken, Returned, Reclaimed, Outstanding
<1>2. TypeOK'
  BY ShmemAssumption DEF IInv, TypeOK
<1>3. Ownership' /\ Announced' /\ Contents'
  BY <1>1 DEF IInv, Ownership, Announced, Contents
<1>4. Account'
  BY DEF IInv, TypeOK, Account
<1>5. QED
  BY <1>2, <1>3, <1>4 DEF IInv

\* A source that finds a flag set has sent fewer than two frames.
LEMMA AllocByFlagStep ==
    ASSUME IInv, AllocByFlag
    PROVE  IInv'
<1> USE DEF AllocByFlag, StartFill, snkVars
<1>1. PICK b \in Buffers :
        /\ buffer_free[b]
        /\ b = 1 => ~buffer_free[0]
        /\ StartFill(b)
  BY DEF AllocByFlag
<1>2. TypeOK /\ Ownership
  BY DEF IInv
<1>3. Len(sent) = b /\ Outstanding = Len(sent) /\ Reclaimed = 0
  <2>1. \A c \in Buffers : buffer_free[c] <=> Len(sent) <= c
    BY DEF IInv, Ownership
  <2>2. Len(sent) = b
    BY <1>1, <1>2, <2>1, Counters DEF Buffers
  <2>3. QED
    BY <1>2, <2>2, Counters DEF Ownership, Buffers
<1>4. Taken' = Taken /\ Returned' = Returned /\ Reclaimed' = Reclaimed
      /\ Outstanding' = Outstanding
  BY DEF Taken, Returned, Reclaimed, Outstanding
<1>5. TypeOK'
  BY <1>1, ShmemAssumption DEF IInv, TypeOK, Torn
<1>6. b = BufferOf(Len(sent) + 1)
  BY <1>3, FirstBuffers DEF Buffers
<1>7. Ownership'
  <2>1. /\ 0 <= Reclaimed' /\ Taken' <= Len(sent')
        /\ srcPc' = "fill" /\ Outstanding' = (IF Len(sent') = 0 THEN 0 ELSE 1)
    BY <1>1, <1>2, <1>3, <1>4, Counters DEF Buffers
  <2>2. \A c \in Buffers : buffer_free'[c] <=> Len(sent') <= c \/ active_buff_ind' = c
    BY <1>1, <1>3 DEF IInv, Ownership, Buffers
  <2>3. active_buff_ind' = BufferOf(Len(sent') + 1)
    BY <1>1, <1>6
  <2>4. QED
    BY <1>4, <2>1, <2>2, <2>3 DEF IInv, Ownership
<1>8. Announced'
  BY <1>1, <1>4 DEF IInv, Announced
<1>9. Contents'
  <2>1. \A k \in Returned + 1 .. Len(sent) : BufferOf(k) # b
    <3> TAKE k \in Returned + 1 .. Len(sent)
    <3>1. k = 1 /\ b = 1
      BY <1>2, <1>3, Counters DEF Buffers
    <3>2. QED
      BY <3>1, FirstBuffers
  <2>2. \A k \in Returned + 1 .. Len(sent) : BufferOf(k) \in Buffers
    <3> TAKE k \in Returned + 1 .. Len(sent)
    <3>1. k \in Nat
      BY <1>2, Counters
    <3>2. QED
      BY <3>1, BufferFacts
  <2>3. \A k \in Returned + 1 .. Len(sent) : shm_ptr'[BufferOf(k)] = shm_ptr[BufferOf(k)]
    BY <1>1, <2>1, <2>2 DEF IInv, TypeOK
  <2>4. QED
    BY <1>4, <2>3 DEF IInv, Contents
<1>10. Account'
  BY <1>1 DEF IInv, TypeOK, Account
<1>11. QED
  BY <1>5, <1>7, <1>8, <1>9, <1>10 DEF IInv

\* A source without a free flag has two buffers outstanding; the signal it reads
\* hands back the older one.
LEMMA AllocBySignalStep ==
    ASSUME IInv, AllocBySignal
    PROVE  IInv'
<1> DEFINE b == Head(bw_ctr_fifo)
<1> USE DEF AllocBySignal, StartFill, NoneFree, snkVars
<1>1. TypeOK /\ Ownership
  BY DEF IInv
<1>2. /\ b \in Buffers /\ b = bw_ctr_fifo[1] /\ Len(bw_ctr_fifo) >= 1
      /\ bw_ctr_fifo' \in Seq(Buffers) /\ Len(bw_ctr_fifo') = Len(bw_ctr_fifo) - 1
      /\ \A k \in 1 .. Len(bw_ctr_fifo') : bw_ctr_fifo'[k] = bw_ctr_fifo[k + 1]
  BY <1>1, HeadTailProperties, EmptySeq DEF TypeOK
<1>3. Len(sent) >= 2 /\ Outstanding = 2
  <2>1. ~(Len(sent) <= 1)
    BY <1>1 DEF Ownership, Buffers
  <2>2. QED
    BY <1>1, <2>1, Counters DEF Ownership
<1>4. /\ Taken' = Taken /\ Returned' = Returned
      /\ Reclaimed' = Reclaimed + 1 /\ Outstanding' = 1
  <2>1. Taken' = Taken /\ Returned' = Returned
    BY DEF Taken, Returned
  <2>2. Reclaimed' = Returned' - Len(bw_ctr_fifo') /\ Outstanding' = Len(sent') - Reclaimed'
    BY DEF Reclaimed, Outstanding
  <2>3. QED
    BY <1>1, <1>2, <1>3, <2>1, <2>2, Counters
<1>5. TypeOK'
  BY <1>2, ShmemAssumption DEF IInv, TypeOK, Torn
<1>6. b = BufferOf(Len(sent) + 1)
  <2>1. b = BufferOf(Reclaimed + 1)
    BY <1>1, <1>2, Counters DEF Ownership
  <2>2. Len(sent) + 1 = (Reclaimed + 1) + 2 /\ Reclaimed + 1 \in Nat
    BY <1>1, <1>3, Counters
  <2>3. QED
    BY <2>1, <2>2, BufferFacts
<1>7. Ownership'
  <2>1. /\ 0 <= Reclaimed' /\ Taken' <= Len(sent')
        /\ srcPc' = "fill" /\ Outstanding' = (IF Len(sent') = 0 THEN 0 ELSE 1)
    BY <1>1, <1>3, <1>4, Counters
  <2>2. \A c \in Buffers : buffer_free'[c] <=> Len(sent') <= c \/ active_buff_ind' = c
    BY <1>1, <1>2, <1>3, Counters DEF TypeOK, Buffers
  <2>3. active_buff_ind' = BufferOf(Len(sent') + 1)
    BY <1>6
  <2>4. \A k \in 1 .. Len(bw_ctr_fifo') : bw_ctr_fifo'[k] = BufferOf(Reclaimed' + k)
    <3> TAKE k \in 1 .. Len(bw_ctr_fifo')
    <3>1. k + 1 \in 1 .. Len(bw_ctr_fifo) /\ Reclaimed' + k = Reclaimed + (k + 1)
      BY <1>1, <1>2, <1>4, Counters
    <3>2. QED
      BY <1>1, <1>2, <3>1 DEF Ownership
  <2>5. QED
    BY <1>1, <1>4, <2>1, <2>2, <2>3, <2>4 DEF Ownership
<1>8. Announced'
  BY <1>4 DEF IInv, Announced
<1>9. Contents'
  <2>1. ASSUME NEW k \in Returned + 1 .. Len(sent)
        PROVE  BufferOf(k) \in Buffers /\ BufferOf(k) # b
    <3>1. k = Len(sent) /\ k \in Nat
      BY <1>1, <1>2, <1>3, Counters
    <3>2. QED
      BY <1>6, <3>1, BufferFacts
  <2>2. \A k \in Returned + 1 .. Len(sent) : shm_ptr'[BufferOf(k)] = shm_ptr[BufferOf(k)]
    BY <2>1, <1>1 DEF TypeOK
  <2>3. QED
    BY <1>4, <2>2 DEF IInv, Contents
<1>10. Account'
  BY DEF IInv, TypeOK, Account
<1>11. QED
  BY <1>5, <1>7, <1>8, <1>9, <1>10 DEF IInv

\* A step that only counts a drop, or fails, leaves every buffer where it is.
LEMMA AllocWouldBlockStep ==
    ASSUME IInv, AllocWouldBlock
    PROVE  IInv'
<1> USE DEF AllocWouldBlock, DropFrame, snkVars
<1>1. Taken' = Taken /\ Returned' = Returned /\ Reclaimed' = Reclaimed
      /\ Outstanding' = Outstanding
  BY DEF Taken, Returned, Reclaimed, Outstanding
<1>2. Account'
  BY DEF IInv, TypeOK, Account
<1>3. TypeOK'
  BY <1>2, ShmemAssumption, LenProperties DEF IInv, TypeOK, Account
<1>4. Ownership' /\ Announced' /\ Contents'
  BY <1>1 DEF IInv, Ownership, Announced, Contents
<1>5. QED
  BY <1>2, <1>3, <1>4 DEF IInv

\* At end-of-file the frame is dropped or the source ends; no buffer moves.
LEMMA AllocAtEofStep ==
    ASSUME IInv, AllocAtEof
    PROVE  IInv'
<1> USE DEF AllocAtEof, snkVars
<1>1. Taken' = Taken /\ Returned' = Returned /\ Reclaimed' = Reclaimed
      /\ Outstanding' = Outstanding
  BY DEF Taken, Returned, Reclaimed, Outstanding
<1>2. Account' /\ dropped_frame_cntr' \in Nat
  <2>1. CASE DropFrame
    BY <2>1 DEF IInv, TypeOK, Account, DropFrame
  <2>2. CASE UNCHANGED <<dropped_frame_cntr, srcPc>>
    BY <2>2 DEF IInv, TypeOK, Account
  <2>3. QED
    BY <2>1, <2>2
<1>3. srcPc' \in {"get", "alloc"} /\ srcOpen' \in BOOLEAN
  BY DEF DropFrame, IInv, TypeOK
<1>4. TypeOK'
  <2>1. Len(sent) \in Nat
    BY LenProperties DEF IInv, TypeOK
  <2>2. dropped_frame_cntr' <= offered
    BY <1>2, <1>3, <2>1 DEF Account, IInv, TypeOK
  <2>3. QED
    BY <1>2, <1>3, <2>2, ShmemAssumption DEF IInv, TypeOK
<1>5. Ownership' /\ Announced' /\ Contents'
  BY <1>1, <1>3 DEF IInv, Ownership, Announced, Contents
<1>6. QED
  BY <1>2, <1>4, <1>5 DEF IInv

\* The flag of the buffer not sent stays set only after the first frame.
LEMMA SecondFlag ==
    ASSUME NEW n \in Nat, NEW b \in Buffers, NEW c \in Buffers,
           n = 0 => b = 0, n = 1 => b = 1, c # b
    PROVE  n <= c <=> n + 1 <= c
<1>1. (b = 0 \/ b = 1) /\ (c = 0 \/ c = 1)
  BY DEF Buffers
<1>2. CASE n > 1
  BY <1>1, <1>2
<1>3. CASE n = 0 \/ n = 1
  BY <1>1, <1>3
<1>4. QED
  BY <1>2, <1>3

\* The frame sent goes behind those announced, into the memory of its turn.
LEMMA SendReadyStep ==
    ASSUME IInv, SendReady
    PROVE  IInv'
<1> DEFINE b == active_buff_ind
           n == Len(sent)
<1> USE DEF SendReady, snkVars
<1>1. TypeOK /\ Ownership /\ b = BufferOf(n + 1) /\ b \in Buffers
  BY DEF IInv, Ownership, TypeOK
<1>2. offered \in Frames
  BY <1>1, LenProperties DEF IInv, TypeOK, Account, Frames
<1>3. /\ sent' \in Seq(Frames) /\ Len(sent') = n + 1
      /\ \A k \in 1 .. n : sent'[k] = sent[k]
      /\ sent'[n + 1] = offered
  BY <1>1, <1>2, AppendProperties DEF TypeOK
<1>4. /\ fw_ctr_fifo' \in Seq(Buffers \cup {TERMINATE})
      /\ Len(fw_ctr_fifo') = Len(fw_ctr_fifo) + 1
      /\ \A k \in 1 .. Len(fw_ctr_fifo) : fw_ctr_fifo'[k] = fw_ctr_fifo[k]
      /\ fw_ctr_fifo'[Len(fw_ctr_fifo) + 1] = b
  BY <1>1, AppendProperties DEF TypeOK
<1>5. /\ Taken' = Taken /\ Returned' = Returned /\ Reclaimed' = Reclaimed
      /\ Outstanding' = Outstanding + 1
  <2>1. Taken' = Taken /\ Returned' = Returned /\ Reclaimed' = Reclaimed
    BY DEF Taken, Returned, Reclaimed
  <2>2. QED
    BY <1>1, <1>3, <2>1, Counters DEF Outstanding
<1>6. TypeOK'
  BY <1>1, <1>2, <1>3, <1>4 DEF TypeOK, Frames
<1>7. Ownership'
  <2>1. Outstanding = IF n = 0 THEN 0 ELSE 1
    BY <1>1 DEF Ownership
  <2>2. 0 <= Reclaimed' /\ Taken' <= Len(sent')
    BY <1>1, <1>3, <1>5, Counters
  <2>3. srcPc' = "get" /\ Outstanding' = (IF Len(sent') < 2 THEN Len(sent') ELSE 2)
    BY <1>1, <1>3, <1>5, <2>1, Counters
  <2>4. \A c \in Buffers : buffer_free'[c] <=> Len(sent') <= c
    <3>1. buffer_free' = [buffer_free EXCEPT ![b] = FALSE]
      OBVIOUS
    <3>2. n = 0 => b = 0
      BY <1>1, FirstBuffers
    <3>3. n = 1 => b = 1
      BY <1>1, FirstBuffers
    <3>4. \A c \in Buffers : buffer_free[c] <=> n <= c \/ b = c
      BY <1>1 DEF Ownership
    <3>5. n \in Nat /\ Len(sent') = n + 1
      BY <1>1, <1>3, Counters
    <3>6. ASSUME NEW c \in Buffers, c = b
          PROVE  ~buffer_free'[c] /\ ~(n + 1 <= c)
      BY <1>1, <3>1, <3>2, <3>3, <3>5, <3>6 DEF TypeOK, Buffers
    <3>7. ASSUME NEW c \in Buffers, c # b
          PROVE  buffer_free'[c] <=> n + 1 <= c
      <4>1. buffer_free'[c] = buffer_free[c]
        BY <1>1, <3>1, <3>7 DEF TypeOK
      <4>2. n <= c <=> n + 1 <= c
        BY <1>1, <3>2, <3>3, <3>5, <3>7, SecondFlag
      <4>3. QED
        BY <3>4, <3>7, <4>1, <4>2
    <3>8. QED
      BY <3>5, <3>6, <3>7
  <2>5. QED
    BY <1>1, <1>5, <2>2, <2>3, <2>4 DEF Ownership
<1>8. Announced'
  <2>1. Len(fw_ctr_fifo) = n - Taken /\ snkPc # "done"
    BY <1>1, Counters DEF IInv, Announced
  <2>2. Len(fw_ctr_fifo') = Len(sent') - Taken'
    BY <1>1, <1>3, <1>4, <1>5, <2>1, Counters
  <2>3. ASSUME NEW k \in 1 .. Len(fw_ctr_fifo')
        PROVE  Taken' + k <= Len(sent') /\ fw_ctr_fifo'[k] = BufferOf(Taken' + k)
    <3>1. Taken' + k <= Len(sent')
      BY <1>1, <1>3, <1>5, <2>2, Counters
    <3>2. CASE k = Len(fw_ctr_fifo) + 1
      <4>1. fw_ctr_fifo'[k] = BufferOf(n + 1)
        BY <1>1, <1>4, <3>2
      <4>2. Taken' + k = n + 1
        BY <1>1, <1>5, <2>1, <3>2, Counters
      <4>3. QED
        BY <3>1, <4>1, <4>2
    <3>3. CASE k \in 1 .. Len(fw_ctr_fifo)
      <4>1. Taken + k <= n
        BY <1>1, <2>1, <3>3, Counters
      <4>2. QED
        BY <1>4, <1>5, <3>1, <3>3, <4>1 DEF IInv, Announced
    <3>4. QED
      BY <1>1, <1>4, <3>2, <3>3, Counters
  <2>4. QED
    BY <2>1, <2>2, <2>3 DEF Announced
<1>9. Contents'
  <2>1. ASSUME NEW k \in Returned' + 1 .. Len(sent')
        PROVE  shm_ptr'[BufferOf(k)] = sent'[k]
    <3>1. CASE k = n + 1
      BY <1>1, <1>3, <3>1 DEF TypeOK
    <3>2. CASE k = n
      <4>1. n \in Nat /\ n \in 1 .. n /\ n \in Returned + 1 .. n
        BY <1>1, <1>5, <3>2, Counters
      <4>2. BufferOf(n) \in Buffers /\ BufferOf(n) # b
        BY <1>1, <4>1, BufferFacts
      <4>3. QED
        BY <1>1, <1>3, <3>2, <4>1, <4>2 DEF IInv, TypeOK, Contents
    <3>3. k = n \/ k = n + 1
      BY <1>1, <1>3, <1>5, Counters
    <3>4. QED
      BY <3>1, <3>2, <3>3
  <2>2. \A k \in 1 .. Len(received') : received'[k] = sent'[k]
    BY <1>1, <1>3, Counters DEF IInv, Contents
  <2>3. QED
    BY <2>1, <2>2 DEF Contents
<1>10. Account'
  BY <1>1, <1>3, Counters DEF IInv, TypeOK, Account
<1>11. QED
  BY <1>6, <1>7, <1>8, <1>9, <1>10 DEF IInv

\* TERMINATE goes behind the frames announced.
LEMMA SendTerminateStep ==
    ASSUME IInv, SendTerminate
    PROVE  IInv'
<1> USE DEF SendTerminate, snkVars
<1>1. TypeOK /\ Ownership /\ Taken' = Taken /\ Returned' = Returned
      /\ Reclaimed' = Reclaimed /\ Outstanding' = Outstanding
  BY DEF IInv, Taken, Returned, Reclaimed, Outstanding
<1>2. /\ fw_ctr_fifo' \in Seq(Buffers \cup {TERMINATE})
      /\ Len(fw_ctr_fifo') = Len(fw_ctr_fifo) + 1
      /\ \A k \in 1 .. Len(fw_ctr_fifo) : fw_ctr_fifo'[k] = fw_ctr_fifo[k]
      /\ fw_ctr_fifo'[Len(fw_ctr_fifo) + 1] = TERMINATE
  BY <1>1, AppendProperties DEF TypeOK
<1>3. TypeOK'
  BY <1>1, <1>2 DEF TypeOK
<1>4. Announced'
  <2>1. Len(fw_ctr_fifo) = Len(sent) - Taken /\ snkPc # "done"
    BY <1>1, Counters DEF IInv, Announced
  <2>2. ASSUME NEW k \in 1 .. Len(fw_ctr_fifo')
        PROVE  fw_ctr_fifo'[k] = IF Taken + k <= Len(sent)
                                 THEN BufferOf(Taken + k) ELSE TERMINATE
    <3>1. CASE k = Len(fw_ctr_fifo) + 1
      BY <1>1, <1>2, <2>1, <3>1, Counters
    <3>2. CASE k \in 1 .. Len(fw_ctr_fifo)
      BY <1>2, <3>2 DEF IInv, Announced
    <3>3. QED
      BY <1>1, <1>2, <3>1, <3>2, Counters
  <2>3. QED
    BY <1>1, <1>2, <2>1, <2>2, Counters DEF Announced
<1>5. Ownership' /\ Contents' /\ Account'
  BY <1>1 DEF IInv, Ownership, Contents, Account
<1>6. QED
  BY <1>3, <1>4, <1>5 DEF IInv

\* Steps that end a process leave the buffers and FIFOs as they are.
LEMMA EndStep ==
    ASSUME IInv,
           SourceSigpipe \/ CloseSource \/ SourceDies \/ TakeAtEof \/ SinkDies
    PROVE  IInv'
<1>1. /\ UNCHANGED <<srcPc, offered, buffer_free, active_buff_ind, dropped_frame_cntr,
                     errnoEAGAIN, fw_ctr_fifo, bw_ctr_fifo, shm_ptr, snkPc,
                     held_buff_ind, sent, received>>
      /\ srcOpen' \in BOOLEAN /\ snkOpen' \in BOOLEAN
  BY DEF SourceSigpipe, CloseSource, SourceDies, TakeAtEof, SinkDies, srcVars, snkVars,
         IInv, TypeOK
<1>2. Taken' = Taken /\ Returned' = Returned /\ Reclaimed' = Reclaimed
      /\ Outstanding' = Outstanding
  BY <1>1 DEF Taken, Returned, Reclaimed, Outstanding
<1>3. TypeOK'
  BY <1>1 DEF IInv, TypeOK
<1>4. Ownership' /\ Announced' /\ Contents' /\ Account'
  BY <1>1, <1>2 DEF IInv, Ownership, Announced, Contents, Account
<1>5. QED
  BY <1>3, <1>4 DEF IInv

\* The buffer taken is the one of the oldest frame announced.
LEMMA TakeReadyStep ==
    ASSUME IInv, TakeReady
    PROVE  IInv'
<1> USE DEF TakeReady, srcVars
<1>1. TypeOK /\ Ownership
  BY DEF IInv
<1>2. /\ held_buff_ind' \in Buffers /\ held_buff_ind' = fw_ctr_fifo[1]
      /\ Len(fw_ctr_fifo) >= 1
      /\ fw_ctr_fifo' \in Seq(Buffers \cup {TERMINATE})
      /\ Len(fw_ctr_fifo') = Len(fw_ctr_fifo) - 1
      /\ \A k \in 1 .. Len(fw_ctr_fifo') : fw_ctr_fifo'[k] = fw_ctr_fifo[k + 1]
  BY <1>1, HeadTailProperties, EmptySeq DEF TypeOK
<1>3. Returned = Len(received) /\ Taken = Len(received)
  BY <1>1, Counters DEF Returned, Taken
<1>4. /\ Taken' = Taken + 1 /\ Returned' = Returned
      /\ Reclaimed' = Reclaimed /\ Outstanding' = Outstanding
  <2>1. Taken' = Taken + 1 /\ Returned' = Returned
    BY <1>1, <1>3, Counters DEF Returned, Taken
  <2>2. QED
    BY <2>1 DEF Reclaimed, Outstanding
<1>5. Taken + 1 <= Len(sent) /\ held_buff_ind' = BufferOf(Taken + 1)
  <2>1. held_buff_ind' = IF Taken + 1 <= Len(sent) THEN BufferOf(Taken + 1) ELSE TERMINATE
    BY <1>1, <1>2, Counters DEF IInv, Announced
  <2>2. TERMINATE \notin Buffers
    BY DEF TERMINATE, Buffers
  <2>3. QED
    BY <1>2, <2>1, <2>2
<1>6. TypeOK'
  BY <1>1, <1>2 DEF TypeOK
<1>7. Ownership'
  <2>1. 0 <= Reclaimed' /\ Taken' <= Len(sent')
    BY <1>1, <1>4, <1>5, Counters
  <2>2. QED
    BY <1>1, <1>4, <1>5, <2>1 DEF Ownership
<1>8. Announced'
  <2>1. Len(fw_ctr_fifo') = Len(sent') - Taken'
                            + (IF srcPc' = "linger" /\ snkPc' # "done" THEN 1 ELSE 0)
    BY <1>1, <1>2, <1>4, Counters DEF IInv, Announced
  <2>2. ASSUME NEW k \in 1 .. Len(fw_ctr_fifo')
        PROVE  fw_ctr_fifo'[k] = IF Taken' + k <= Len(sent')
                                 THEN BufferOf(Taken' + k) ELSE TERMINATE
    <3>1. k + 1 \in 1 .. Len(fw_ctr_fifo) /\ Taken' + k = Taken + (k + 1)
      BY <1>1, <1>2, <1>4, Counters
    <3>2. QED
      BY <1>2, <3>1 DEF IInv, Announced
  <2>3. QED
    BY <2>1, <2>2 DEF Announced
<1>9. Contents' /\ Account'
  BY <1>4 DEF IInv, Contents, Account
<1>10. QED
  BY <1>6, <1>7, <1>8, <1>9 DEF IInv

\* A sink that reads TERMINATE has taken every frame announced.
LEMMA TakeTerminateStep ==
    ASSUME IInv, TakeTerminate
    PROVE  IInv'
<1> USE DEF TakeTerminate, srcVars
<1>1. TypeOK /\ Ownership /\ Taken' = Taken /\ Returned' = Returned
      /\ Reclaimed' = Reclaimed /\ Outstanding' = Outstanding
  BY DEF IInv, Taken, Returned, Reclaimed, Outstanding
<1>2. /\ fw_ctr_fifo[1] = TERMINATE /\ Len(fw_ctr_fifo) >= 1
      /\ fw_ctr_fifo' \in Seq(Buffers \cup {TERMINATE})
      /\ Len(fw_ctr_fifo') = Len(fw_ctr_fifo) - 1
  BY <1>1, HeadTailProperties, EmptySeq DEF TypeOK
<1>3. Taken = Len(sent) /\ srcPc = "linger" /\ Len(fw_ctr_fifo) = 1
  <2>1. ~(Taken + 1 <= Len(sent))
    <3>1. SUFFICES ASSUME Taken + 1 <= Len(sent) PROVE FALSE
      OBVIOUS
    <3>2. fw_ctr_fifo[1] = BufferOf(Taken + 1)
      BY <1>1, <1>2, <3>1, Counters DEF IInv, Announced
    <3>3. BufferOf(Taken + 1) \in Buffers
      BY <1>1, Counters, BufferFacts
    <3>4. QED
      BY <1>2, <3>2, <3>3 DEF TERMINATE, Buffers
  <2>2. QED
    BY <1>1, <1>2, <2>1, Counters DEF IInv, Announced
<1>4. TypeOK'
  BY <1>1, <1>2 DEF TypeOK
<1>5. Announced'
  <2>1. Len(fw_ctr_fifo') = 0 /\ Len(sent) - Taken = 0
    BY <1>1, <1>2, <1>3, Counters
  <2>2. \A k \in 1 .. Len(fw_ctr_fifo') : FALSE
    BY <2>1
  <2>3. snkPc' = "done" /\ srcPc' = "linger" /\ sent' = sent
    BY <1>3
  <2>4. QED
    BY <1>1, <1>3, <2>1, <2>2, <2>3 DEF Announced
<1>6. Ownership' /\ Contents' /\ Account'
  BY <1>1 DEF IInv, Ownership, Contents, Account
<1>7. QED
  BY <1>4, <1>5, <1>6 DEF IInv

\* The sink finds the frame sent in the memory it holds.
LEMMA UseFrameStep ==
    ASSUME IInv, UseFrame
    PROVE  IInv'
<1> DEFINE m == Len(received)
           x == shm_ptr[held_buff_ind]
<1> USE DEF UseFrame, srcVars
<1>1. TypeOK /\ Ownership /\ Taken = m + 1 /\ Returned = m
  BY Counters DEF IInv, Taken, Returned
<1>2. m + 1 \in 1 .. Len(sent) /\ m + 1 \in Returned + 1 .. Len(sent)
  BY <1>1, Counters
<1>3. x = sent[m + 1] /\ x \in Frames
  <2>1. held_buff_ind = BufferOf(m + 1)
    BY <1>1 DEF Ownership
  <2>2. QED
    BY <1>1, <1>2, <2>1, ElementOfSeq DEF IInv, TypeOK, Contents
<1>4. /\ received' \in Seq(Frames) /\ Len(received') = m + 1
      /\ \A k \in 1 .. m : received'[k] = received[k]
      /\ received'[m + 1] = x
  BY <1>1, <1>3, AppendProperties DEF TypeOK
<1>5. Taken' = Taken /\ Returned' = Returned /\ Reclaimed' = Reclaimed
      /\ Outstanding' = Outstanding
  <2>1. Taken' = Taken /\ Returned' = Returned
    BY <1>1, <1>4, Counters DEF Taken, Returned
  <2>2. QED
    BY <2>1 DEF Reclaimed, Outstanding
<1>6. TypeOK'
  BY <1>1, <1>4 DEF TypeOK
<1>7. Ownership'
  BY <1>1, <1>5 DEF Ownership
<1>8. Announced'
  BY <1>5 DEF IInv, Announced
<1>9. Contents'
  <2>1. ASSUME NEW k \in 1 .. m + 1
        PROVE  received'[k] = sent'[k]
    <3>1. CASE k = m + 1
      BY <1>3, <1>4, <3>1
    <3>2. CASE k \in 1 .. m
      BY <1>4, <3>2 DEF IInv, Contents
    <3>3. QED
      BY <1>1, <3>1, <3>2, Counters
  <2>2. QED
    BY <1>4, <1>5, <2>1 DEF IInv, Contents
<1>10. Account'
  BY DEF IInv, Account
<1>11. QED
  BY <1>6, <1>7, <1>8, <1>9, <1>10 DEF IInv

\* The buffer handed back goes behind those on their way to the source.
LEMMA SendFreeStep ==
    ASSUME IInv, SendFree
    PROVE  IInv'
<1> DEFINE h == held_buff_ind
<1> USE DEF SendFree, srcVars
<1>1. TypeOK /\ Ownership /\ Taken = Len(received) /\ Returned = Len(received) - 1
  BY Counters DEF IInv, Taken, Returned
<1>2. CASE ~srcOpen
  <2>1. UNCHANGED <<bw_ctr_fifo, snkPc>> /\ snkOpen' \in BOOLEAN
    BY <1>2
  <2>2. Taken' = Taken /\ Returned' = Returned /\ Reclaimed' = Reclaimed
        /\ Outstanding' = Outstanding
    BY <2>1 DEF Taken, Returned, Reclaimed, Outstanding
  <2>3. TypeOK'
    BY <1>1, <2>1 DEF TypeOK
  <2>4. Ownership' /\ Announced' /\ Contents' /\ Account'
    BY <2>1, <2>2 DEF IInv, Ownership, Announced, Contents, Account
  <2>5. QED
    BY <2>3, <2>4 DEF IInv
<1>3. CASE srcOpen
  <2>1. snkPc' = "wait" /\ snkOpen' = snkOpen /\ bw_ctr_fifo' = Append(bw_ctr_fifo, h)
    BY <1>3
  <2>2. /\ bw_ctr_fifo' \in Seq(Buffers) /\ Len(bw_ctr_fifo') = Len(bw_ctr_fifo) + 1
        /\ \A k \in 1 .. Len(bw_ctr_fifo) : bw_ctr_fifo'[k] = bw_ctr_fifo[k]
        /\ bw_ctr_fifo'[Len(bw_ctr_fifo) + 1] = h
    BY <1>1, <2>1, AppendProperties DEF TypeOK
  <2>3. Taken' = Taken /\ Returned' = Returned + 1
    BY <1>1, <2>1, Counters DEF Taken, Returned
  <2>4. Reclaimed' = Reclaimed /\ Outstanding' = Outstanding
    <3>1. Reclaimed' = Returned' - Len(bw_ctr_fifo') /\ Outstanding' = Len(sent') - Reclaimed'
      BY DEF Reclaimed, Outstanding
    <3>2. QED
      BY <1>1, <2>2, <2>3, <3>1, Counters DEF Outstanding
  <2>5. TypeOK'
    BY <1>1, <2>1, <2>2 DEF TypeOK
  <2>6. Ownership'
    <3>1. ASSUME NEW k \in 1 .. Len(bw_ctr_fifo')
          PROVE  bw_ctr_fifo'[k] = BufferOf(Reclaimed' + k)
      <4>1. CASE k = Len(bw_ctr_fifo) + 1
        <5>1. Reclaimed' + k = Taken
          BY <1>1, <2>4, <4>1, Counters
        <5>2. h = BufferOf(Taken)
          BY <1>1 DEF Ownership
        <5>3. QED
          BY <2>2, <4>1, <5>1, <5>2
      <4>2. CASE k \in 1 .. Len(bw_ctr_fifo)
        BY <1>1, <2>2, <2>4, <4>2 DEF Ownership
      <4>3. QED
        BY <1>1, <2>2, <4>1, <4>2, Counters
    <3>2. QED
      BY <1>1, <2>1, <2>3, <2>4, <3>1 DEF Ownership
  <2>7. Announced'
    BY <2>1, <2>3 DEF IInv, Announced
  <2>8. Contents'
    <3>1. \A k \in Returned' + 1 .. Len(sent') : k \in Returned + 1 .. Len(sent)
      BY <1>1, <2>3, Counters
    <3>2. QED
      BY <3>1 DEF IInv, Contents
  <2>9. Account'
    BY DEF IInv, Account
  <2>10. QED
    BY <2>5, <2>6, <2>7, <2>8, <2>9 DEF IInv
<1>4. QED
  BY <1>2, <1>3

\* Every step keeps the invariant.
LEMMA NextIInv == IInv /\ [Next]_vars => IInv'
<1> SUFFICES ASSUME IInv, [Next]_vars PROVE IInv'
  OBVIOUS
<1>1. CASE UNCHANGED vars
  <2>1. Taken' = Taken /\ Returned' = Returned /\ Reclaimed' = Reclaimed
        /\ Outstanding' = Outstanding
    BY <1>1 DEF vars, srcVars, snkVars, Taken, Returned, Reclaimed, Outstanding
  <2>2. QED
    BY <1>1, <2>1 DEF vars, srcVars, snkVars, IInv, TypeOK, Ownership, Announced,
       Contents, Account
<1>2. CASE SourceStep
  BY <1>2, GetFrameStep, AllocByFlagStep, AllocBySignalStep, AllocWouldBlockStep,
     AllocAtEofStep, SendReadyStep, SendTerminateStep, EndStep DEF SourceStep
<1>3. CASE SinkStep
  BY <1>3, TakeReadyStep, TakeTerminateStep, EndStep, UseFrameStep, SendFreeStep
     DEF SinkStep
<1>4. CASE SourceDies \/ SinkDies
  BY <1>4, EndStep
<1>5. QED
  BY <1>1, <1>2, <1>3, <1>4 DEF Next, BothGone

\* The inductive invariant holds in every reachable state of the interface, for
\* every number of frames and in both modes (sh_mem_util.c, shmemIface.py).
THEOREM IInvHolds == Spec => []IInv
BY InitIInv, NextIInv, PTL DEF Spec

\* Every variable of the interface keeps its type; in particular no more than
\* MaxFrames frames are dropped and only A and B travel back.
THEOREM TypeCorrect == Spec => []TypeOK
<1>1. IInv => TypeOK
  BY DEF IInv
<1>2. QED
  BY <1>1, IInvHolds, PTL

\* The source never fills the memory the sink reads: the ping-pong of
\* wait_buff_free and wait_buff_ready gives each buffer one user at a time.
THEOREM ExclusiveAccessHolds == Spec => []ExclusiveAccess
<1>1. IInv => ExclusiveAccess
  <2> SUFFICES ASSUME IInv, srcPc = "fill", snkPc = "hold"
               PROVE  active_buff_ind # held_buff_ind
    BY DEF ExclusiveAccess
  <2>1. TypeOK /\ Ownership
    BY DEF IInv
  <2>2. Taken = Returned + 1 /\ Outstanding <= 1
    BY <2>1, Counters DEF Taken, Returned
  <2>3. Taken = Len(sent) /\ Len(sent) \in Nat
    BY <2>1, <2>2, Counters
  <2>4. held_buff_ind = BufferOf(Len(sent)) /\ active_buff_ind = BufferOf(Len(sent) + 1)
    BY <2>1, <2>3 DEF Ownership
  <2>5. QED
    BY <2>3, <2>4, BufferFacts
<1>2. QED
  BY <1>1, IInvHolds, PTL

\* What the sink finds in the two memories is what was announced, whole and in
\* order, whoever is fast or slow and whoever dies.
THEOREM IntactInOrderHolds == Spec => []IntactInOrder
<1>1. IInv => IntactInOrder
  BY Counters DEF IInv, Contents, IntactInOrder
<1>2. QED
  BY <1>1, IInvHolds, PTL

\* A sink that ends on TERMINATE has used every frame announced before it.
THEOREM TerminateIsLastHolds == Spec => []TerminateIsLast
<1>1. IInv => TerminateIsLast
  <2> SUFFICES ASSUME IInv, snkPc = "done" PROVE received = sent
    BY DEF TerminateIsLast
  <2>1. TypeOK /\ Ownership /\ Taken = Len(sent)
    BY DEF IInv, Announced
  <2>2. Len(received) = Len(sent)
    BY <2>1, Counters DEF Taken
  <2>3. QED
    BY <2>1, <2>2, SeqEqual DEF IInv, TypeOK, Contents
<1>2. QED
  BY <1>1, IInvHolds, PTL

-----------------------------------------------------------------------------
(* The interface implements FrameChannel. *)

\* Only a non-blocking read leaves EAGAIN behind.
ErrnoInv == errnoEAGAIN => DropMode

LEMMA ErrnoInvHolds == Spec => []ErrnoInv
<1>1. Init => ErrnoInv
  BY DEF Init, ErrnoInv
<1>2. ErrnoInv /\ [Next]_vars => ErrnoInv'
  BY DEF ErrnoInv, Next, vars, srcVars, snkVars, SourceStep, SinkStep, GetFrame,
     AllocByFlag, AllocBySignal, AllocWouldBlock, AllocAtEof, SendReady, SendTerminate,
     SourceSigpipe, CloseSource, TakeReady, TakeTerminate, TakeAtEof, UseFrame, SendFree,
     SourceDies, SinkDies, BothGone
<1>3. QED
  BY <1>1, <1>2, PTL DEF Spec

\* Announcing a frame puts it into the channel.
LEMMA SendReadyRefines == IInv /\ SendReady => Channel!Put
<1> SUFFICES ASSUME IInv, SendReady PROVE Channel!Put
  OBVIOUS
<1> USE DEF SendReady, snkVars
<1>1. TypeOK /\ Ownership /\ Account
  BY DEF IInv
<1>2. Len(sent) + dropped_frame_cntr + 1 = offered /\ offered <= MaxFrames
  BY <1>1, ShmemAssumption DEF TypeOK, Account
<1>3. Len(sent) + dropped_frame_cntr < MaxFrames /\ offered = Len(sent) + dropped_frame_cntr + 1
  BY <1>1, <1>2, ShmemAssumption, Counters DEF TypeOK
<1>4. Len(sent) - Returned < 2
  BY <1>1, Counters
<1>5. Returned' = Returned
  BY DEF Returned
<1>6. QED
  BY <1>3, <1>4, <1>5 DEF Channel!Put, Channel!Decided, Channel!Owed, Channel!Depth

\* wait_buff_free gives a frame up only while the sink owes both buffers.
LEMMA DropRefines ==
    ASSUME IInv, ErrnoInv, AllocWouldBlock \/ AllocAtEof, DropFrame, DropMode
    PROVE  Channel!Drop
<1> USE DEF AllocWouldBlock, AllocAtEof, DropFrame, snkVars
<1>1. TypeOK /\ Ownership /\ Account /\ srcPc = "alloc"
  BY DEF IInv
<1>2. Len(sent) + dropped_frame_cntr + 1 = offered /\ offered <= MaxFrames
  BY <1>1, ShmemAssumption DEF TypeOK, Account
<1>3. Len(sent) + dropped_frame_cntr < MaxFrames
  BY <1>1, <1>2, ShmemAssumption, Counters DEF TypeOK
<1>4. Len(sent) - Returned = 2
  <2>1. ~(Len(sent) <= 1)
    BY <1>1 DEF Ownership, NoneFree, Buffers
  <2>2. Outstanding = 2
    BY <1>1, <2>1, Counters DEF Ownership
  <2>3. Returned = Reclaimed
    BY <1>1, Counters
  <2>4. QED
    BY <1>1, <2>2, <2>3, Counters
<1>5. Returned' = Returned /\ sent' = sent /\ received' = received
  BY DEF Returned
<1>6. QED
  BY <1>3, <1>4, <1>5 DEF Channel!Drop, Channel!Decided, Channel!Owed, Channel!Depth

\* The sink finds the oldest frame it has not seen.
LEMMA UseFrameRefines == IInv /\ UseFrame => Channel!Deliver
<1> SUFFICES ASSUME IInv, UseFrame PROVE Channel!Deliver
  OBVIOUS
<1> DEFINE m == Len(received)
<1> USE DEF UseFrame, srcVars
<1>1. TypeOK /\ Ownership /\ Taken = m + 1 /\ Returned = m
  BY DEF IInv, Taken, Returned
<1>2. m < Len(sent) /\ m + 1 \in Returned + 1 .. Len(sent)
  BY <1>1, Counters
<1>3. shm_ptr[held_buff_ind] = sent[m + 1]
  BY <1>1, <1>2 DEF IInv, Ownership, Contents
<1>4. received' = Append(received, sent[m + 1])
  BY <1>3
<1>5. Returned' = Returned
  <2>1. Len(received') = m + 1
    BY <1>1, <1>2, <1>3, <1>4, AppendProperties, ElementOfSeq, Counters DEF TypeOK
  <2>2. QED
    BY <1>1, <2>1, Counters DEF Returned
<1>6. QED
  BY <1>1, <1>2, <1>4, <1>5 DEF Channel!Deliver

\* Handing a buffer back returns it to the channel.
LEMMA SendFreeRefines ==
    IInv /\ SendFree => Channel!Return \/ UNCHANGED Channel!chanVars
<1> SUFFICES ASSUME IInv, SendFree
             PROVE  Channel!Return \/ UNCHANGED Channel!chanVars
  OBVIOUS
<1> USE DEF SendFree, srcVars
<1>1. TypeOK /\ Ownership /\ Returned = Len(received) - 1
  BY DEF IInv, Returned
<1>2. CASE snkPc' = "wait"
  <2>1. Returned' = Returned + 1 /\ Returned < Len(received)
    BY <1>1, <1>2, Counters DEF Returned
  <2>2. QED
    BY <2>1 DEF Channel!Return
<1>3. CASE snkPc' = snkPc
  BY <1>3 DEF Returned, Channel!chanVars
<1>4. QED
  BY <1>2, <1>3

\* Every other step is invisible in the channel.
LEMMA StutterRefines ==
    ASSUME IInv,
           \/ UNCHANGED vars \/ GetFrame \/ AllocByFlag \/ AllocBySignal
           \/ AllocAtEof /\ UNCHANGED dropped_frame_cntr
           \/ SendTerminate \/ SourceSigpipe \/ CloseSource \/ TakeReady
           \/ TakeTerminate \/ TakeAtEof \/ SourceDies \/ SinkDies
    PROVE  UNCHANGED Channel!chanVars
<1>1. /\ UNCHANGED <<sent, received, dropped_frame_cntr>>
      /\ (snkPc = "release" <=> snkPc' = "release")
  BY DEF vars, srcVars, snkVars, GetFrame, AllocByFlag, AllocBySignal, AllocAtEof,
     SendTerminate, SourceSigpipe, CloseSource, TakeReady, TakeTerminate, TakeAtEof,
     SourceDies, SinkDies
<1>2. Returned' = Returned
  BY <1>1 DEF Returned
<1>3. QED
  BY <1>1, <1>2 DEF Channel!chanVars

\* The two memories and the two FIFOs implement the lossy in-order channel of
\* depth two: frames leave the sink's side whole and in the order they were
\* accepted, and one is dropped only in drop mode while both buffers are owed.
THEOREM ChannelRefinedHolds == Spec => ChannelRefined
<1>1. Init => Channel!ChanInit
  <2> SUFFICES ASSUME Init PROVE Channel!ChanInit
    OBVIOUS
  <2>1. Returned = 0
    BY DEF Init, Returned
  <2>2. QED
    BY <2>1 DEF Init, Channel!ChanInit
<1>2. IInv /\ ErrnoInv /\ [Next]_vars => [Channel!ChanNext]_(Channel!chanVars)
  <2> SUFFICES ASSUME IInv, ErrnoInv, [Next]_vars
               PROVE  Channel!ChanNext \/ UNCHANGED Channel!chanVars
    OBVIOUS
  <2>1. CASE SendReady
    BY <2>1, SendReadyRefines DEF Channel!ChanNext
  <2>2. CASE AllocWouldBlock
    BY <2>2, DropRefines DEF AllocWouldBlock, Channel!ChanNext
  <2>3. CASE AllocAtEof
    <3>1. (DropFrame /\ DropMode) \/ UNCHANGED dropped_frame_cntr
      BY <2>3 DEF AllocAtEof, ErrnoInv
    <3>2. QED
      BY <2>3, <3>1, DropRefines, StutterRefines DEF Channel!ChanNext
  <2>4. CASE UseFrame
    BY <2>4, UseFrameRefines DEF Channel!ChanNext
  <2>5. CASE SendFree
    BY <2>5, SendFreeRefines DEF Channel!ChanNext
  <2>6. CASE \/ UNCHANGED vars \/ GetFrame \/ AllocByFlag \/ AllocBySignal
             \/ SendTerminate \/ SourceSigpipe \/ CloseSource \/ TakeReady
             \/ TakeTerminate \/ TakeAtEof \/ SourceDies \/ SinkDies
    BY <2>6, StutterRefines
  <2>7. QED
    BY <2>1, <2>2, <2>3, <2>4, <2>5, <2>6 DEF Next, SourceStep, SinkStep, BothGone
<1>3. QED
  BY <1>1, <1>2, IInvHolds, ErrnoInvHolds, PTL
     DEF Spec, ChannelRefined, Channel!ChanSpec

-----------------------------------------------------------------------------
(* An interface whose sink has ended. *)

\* EAGAIN stays in errno from the time of a drop.
StaleErrno == errnoEAGAIN => dropped_frame_cntr > 0

LEMMA StaleErrnoHolds == Spec => []StaleErrno
<1>1. Init => StaleErrno
  BY DEF Init, StaleErrno
<1>2. IInv /\ StaleErrno /\ [Next]_vars => StaleErrno'
  <2> SUFFICES ASSUME IInv, StaleErrno, [Next]_vars PROVE StaleErrno'
    OBVIOUS
  <2>1. dropped_frame_cntr \in Nat
    BY DEF IInv, TypeOK
  <2>2. \/ errnoEAGAIN' = errnoEAGAIN /\ dropped_frame_cntr' = dropped_frame_cntr
        \/ dropped_frame_cntr' = dropped_frame_cntr + 1
    BY DEF Next, vars, srcVars, snkVars, SourceStep, SinkStep, GetFrame, DropFrame,
       AllocByFlag, AllocBySignal, AllocWouldBlock, AllocAtEof, SendReady, SendTerminate,
       SourceSigpipe, CloseSource, TakeReady, TakeTerminate, TakeAtEof, UseFrame, SendFree,
       SourceDies, SinkDies, BothGone
  <2> QED
    <3>1. CASE errnoEAGAIN' = errnoEAGAIN /\ dropped_frame_cntr' = dropped_frame_cntr
      BY <3>1, Zenon DEF StaleErrno
    <3>2. CASE dropped_frame_cntr' = dropped_frame_cntr + 1
      <4>1. dropped_frame_cntr' > 0
        BY <2>1, <3>2
      <4> QED
        BY <4>1 DEF StaleErrno
    <3> QED
      BY <2>2, <3>1, <3>2
<1> QED
  BY <1>1, <1>2, IInvHolds, PTL DEF Spec

\* The counter of drops moves in wait_buff_free only, when a read of the backward FIFO
\* would have blocked or has met the end of the file.
LEMMA DropsInAlloc ==
    ASSUME Next, dropped_frame_cntr' # dropped_frame_cntr
    PROVE  AllocWouldBlock \/ AllocAtEof
BY DEF Next, srcVars, SourceStep, SinkStep, GetFrame, AllocByFlag, AllocBySignal, SendReady,
       SendTerminate, SourceSigpipe, CloseSource, TakeReady, TakeTerminate, TakeAtEof,
       UseFrame, SendFree, SourceDies, SinkDies, BothGone, vars

\* A source whose sink has ended goes on dropping frames only when errno still holds the
\* EAGAIN of a frame it dropped before (the branch for a read of zero bytes in
\* wait_buff_free of sh_mem_util.c); without one it ends.
THEOREM OnlyStaleErrnoDropsHolds == Spec => OnlyStaleErrnoDrops
<1> DEFINE A == dropped_frame_cntr' # dropped_frame_cntr /\ ~snkOpen
                    => dropped_frame_cntr > 0
<1>1. StaleErrno /\ [Next]_vars => [A]_vars
  <2> SUFFICES ASSUME StaleErrno, Next, dropped_frame_cntr' # dropped_frame_cntr, ~snkOpen
               PROVE  dropped_frame_cntr > 0
    OBVIOUS
  <2>1. AllocAtEof
    BY DropsInAlloc DEF AllocWouldBlock
  <2>2. errnoEAGAIN
    BY <2>1 DEF AllocAtEof
  <2> QED
    BY <2>2 DEF StaleErrno
<1>2. Spec => [][A]_vars
  BY <1>1, StaleErrnoHolds, PTL DEF Spec
<1> QED
  BY <1>2 DEF OnlyStaleErrnoDrops
=============================================================================
