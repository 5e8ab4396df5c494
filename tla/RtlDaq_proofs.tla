--------------------------- MODULE RtlDaq_proofs ---------------------------
(***************************************************************************)
(* Machine-checked proofs about the receiver block, for every number of    *)
(* receivers, ring slots and dummy frames and for every order of commands. *)
(***************************************************************************)
EXTENDS RtlDaq, SequenceTheorems, TLAPS

-----------------------------------------------------------------------------
(* Slots of the ring *)

LEMMA DivMod ==
    ASSUME NEW n \in Nat \ {0}, NEW a \in Nat
    PROVE  /\ a = n * (a \div n) + (a % n)
           /\ a \div n \in Nat
           /\ a % n \in 0 .. n - 1
OBVIOUS

LEMMA AtLeastFactor ==
    ASSUME NEW n \in Nat \ {0}, NEW q \in Int, q >= 1
    PROVE  n * q >= n
OBVIOUS

\* Blocks less than a ring apart are in different slots.
LEMMA ModDistinct ==
    ASSUME NEW n \in Nat \ {0}, NEW a \in Nat, NEW b \in Nat, a < b, b < a + n
    PROVE  a % n # b % n
<1> SUFFICES ASSUME a % n = b % n PROVE FALSE
  OBVIOUS
<1> DEFINE qa == a \div n
           qb == b \div n
<1>1. a = n * qa + (a % n) /\ b = n * qb + (b % n) /\ qa \in Nat /\ qb \in Nat
  BY DivMod
<1>2. b - a = n * qb - n * qa
  <2>1. a % n \in Int /\ b % n = a % n
    BY DivMod
  <2>2. n * qa \in Int /\ n * qb \in Int
    BY <1>1
  <2> HIDE DEF qa, qb
  <2> QED BY <1>1, <2>1, <2>2
<1>3. b - a = n * (qb - qa)
  BY <1>1, <1>2
<1>4. CASE qb - qa >= 1
  BY <1>1, <1>3, <1>4, AtLeastFactor
<1>5. CASE qb - qa <= 0
  <2>1. n * (qa - qb) >= 0
    BY <1>1, <1>5
  <2> QED BY <1>1, <1>2, <1>3, <2>1
<1> QED BY <1>1, <1>4, <1>5

\* The slot a callback writes into, or the main thread reads from.
LEMMA SlotOf ==
    ASSUME NEW a \in Nat
    PROVE  a % NumBuff \in Slots
BY DivMod, RtlDaqAssumption DEF Slots

LEMMA ReceiverFacts ==
    /\ ChNo \in Nat \ {0}
    /\ 0 \in Receivers /\ ChNo - 1 \in Receivers
    /\ \A c \in Receivers : c \in Nat /\ (c # ChNo - 1 => c + 1 \in Receivers)
BY RtlDaqAssumption DEF Receivers

-----------------------------------------------------------------------------
(* Types *)

LEMMA InitTypeOK == Init => TypeOK
<1> SUFFICES ASSUME Init PROVE TypeOK
  OBVIOUS
<1>1. rd_buff_ind \in Slots
  <2>1. rd_buff_ind = 1
    BY DEF Init
  <2> QED
    BY <2>1, RtlDaqAssumption DEF Slots
<1>2. script \in Seq(Commands)
  BY RtlDaqAssumption DEF Init
<1>3. frame \in FrameType
  BY EmptySeq DEF Init, NoFrame, FrameType
<1>4. /\ change \in ChangeType
      /\ tuner \in [Receivers -> TunerType]
  BY DEF Init, Corrections, ChangeType, TunerType
<1>5. ReaderTypeOK
  BY DEF Init, ReaderTypeOK, RingType, Torn
<1>6. retuned \in RetunedType
  BY DEF Init, RetunedType
<1>7. MainTypeOK
  BY <1>1, <1>3, <1>4, <1>6, ReceiverFacts DEF Init, MainTypeOK
<1>8. SharedTypeOK
  <2>1. dummy_frame_cntr \in 0 .. NoDummyFrames
    <3>1. dummy_frame_cntr = 0
      BY DEF Init
    <3> QED
      BY <3>1, RtlDaqAssumption
  <2>2. ~en_dummy_frame
    BY DEF Init
  <2> QED
    BY <1>2, <1>4, <2>1, <2>2 DEF Init, SharedTypeOK
<1> QED
  BY <1>5, <1>7, <1>8 DEF TypeOK

\* What a thread leaves alone keeps its type.
LEMMA MainTypeKept ==
    ASSUME MainTypeOK, UNCHANGED <<mainPc, mainVars>>
    PROVE  MainTypeOK'
BY DEF MainTypeOK, mainVars

LEMMA SharedTypeKept ==
    ASSUME SharedTypeOK, UNCHANGED <<cmdPc, command, script, mutex, sharedVars>>
    PROVE  SharedTypeOK'
BY DEF SharedTypeOK, sharedVars

LEMMA SignalKeepsType ==
    ASSUME MainTypeOK, Signal, UNCHANGED mainVars
    PROVE  MainTypeOK'
BY DEF MainTypeOK, Signal, mainVars

LEMMA ReaderTypes ==
    ASSUME TypeOK, NEW c \in Receivers, ReaderStep(c) \/ DeviceLost(c)
    PROVE  TypeOK'
<1> USE DEF TypeOK
<1>1. buff_ind[c] \in Nat /\ WriteSlot(c) \in Slots
  BY SlotOf DEF WriteSlot, ReaderTypeOK
<1>2. CASE ReaderSetup(c)
  <2>1. ReaderTypeOK'
    BY <1>2 DEF ReaderSetup, ReaderTypeOK
  <2> QED
    BY <1>2, <2>1, MainTypeKept, SharedTypeKept DEF ReaderSetup
<1>3. CASE BarrierOpens
  <2>1. ReaderTypeOK'
    BY <1>3 DEF BarrierOpens, ReaderTypeOK
  <2> QED
    BY <1>3, <2>1, MainTypeKept, SharedTypeKept DEF BarrierOpens
<1>4. CASE CallbackBegins(c)
  <2>1. buffer' \in [Receivers -> RingType]
    BY <1>1, <1>4 DEF CallbackBegins, RingType, ReaderTypeOK
  <2>2. copying' \in [Receivers -> BOOLEAN]
    BY <1>4 DEF CallbackBegins, ReaderTypeOK
  <2>3. ReaderTypeOK'
    BY <1>4, <2>1, <2>2 DEF CallbackBegins, ReaderTypeOK
  <2> QED
    BY <1>4, <2>3, MainTypeKept, SharedTypeKept DEF CallbackBegins
<1>5. CASE CallbackEnds(c)
  <2>1. buffer' \in [Receivers -> RingType]
    BY <1>1, <1>5 DEF CallbackEnds, RingType, ReaderTypeOK
  <2>2. buff_ind' \in [Receivers -> Nat]
    BY <1>1, <1>5 DEF CallbackEnds, ReaderTypeOK
  <2>3. copying' \in [Receivers -> BOOLEAN]
    BY <1>5 DEF CallbackEnds, ReaderTypeOK
  <2>4. ReaderTypeOK'
    BY <1>5, <2>1, <2>2, <2>3 DEF CallbackEnds, ReaderTypeOK
  <2> QED
    BY <1>5, <2>4, SignalKeepsType, SharedTypeKept DEF CallbackEnds
<1>6. CASE CancelReturns(c) \/ DeviceLost(c)
  <2>1. ReadReturns(c, "cancelled") \/ ReadReturns(c, "async")
    BY <1>6 DEF CancelReturns, DeviceLost
  <2>2. ReaderTypeOK'
    BY <2>1 DEF ReadReturns, ReaderTypeOK
  <2> QED
    BY <2>1, <2>2, MainTypeKept, SharedTypeKept DEF ReadReturns
<1> QED
  BY <1>2, <1>3, <1>4, <1>5, <1>6 DEF ReaderStep

LEMMA FrameTypes ==
    ASSUME TypeOK, WriteHeader \/ WriteBlock \/ SkipData
    PROVE  TypeOK'
<1> USE DEF TypeOK, ReaderTypeOK, MainTypeOK, SharedTypeOK, readerVars, sharedVars
<1>1. CASE WriteHeader
  <2>1. PICK flags \in OverdriveFlags :
           frame' = [frame EXCEPT !.ind = read_buff_ind, !.dummy = en_dummy_frame,
                                  !.noise = noise_source_state,
                                  !.freq = tuner[ChNo - 1].freq, !.flags = flags]
    BY <1>1 DEF WriteHeader
  <2>2. flags \subseteq Receivers
    BY DEF OverdriveFlags
  <2>3. tuner[ChNo - 1].freq \in Nat
    BY ReceiverFacts DEF TunerType
  <2>4. frame' \in FrameType
    BY <2>1, <2>2, <2>3 DEF FrameType
  <2> QED
    BY <1>1, <2>4 DEF WriteHeader
<1>2. CASE WriteBlock
  <2>1. rd_buff_ind' \in Slots
    BY <1>2, SlotOf DEF WriteBlock
  <2>2. buffer[ch][rd_buff_ind'] \in Nat \cup {Torn}
    BY <2>1 DEF RingType
  <2>3. Append(frame.blocks, buffer[ch][rd_buff_ind']) \in Seq(Nat \cup {Torn})
    BY <2>2, AppendProperties DEF FrameType
  <2>4. frame' \in FrameType
    BY <1>2, <2>3 DEF WriteBlock, FrameType
  <2>5. ch' \in Receivers
    BY <1>2, ReceiverFacts DEF WriteBlock
  <2> QED
    BY <1>2, <2>1, <2>4, <2>5 DEF WriteBlock
<1>3. CASE SkipData
  BY <1>3, ReceiverFacts DEF SkipData
<1> QED
  BY <1>1, <1>2, <1>3

\* The changes of a frame give settings of the right types.
LEMMA RetuneType ==
    ASSUME TypeOK, NEW c \in Receivers
    PROVE  Retune(c, tuner[c]) \in TunerType
<1> USE DEF TypeOK, ReaderTypeOK, MainTypeOK, SharedTypeOK
<1>1. tuner[c] \in TunerType
  OBVIOUS
<1>2. change \in ChangeType /\ change.new_fs_corrections[c] \in Corrections
  BY DEF ChangeType
<1>3. FsCorrection(c, tuner[c].corr) \in Corrections
  BY <1>1, <1>2 DEF FsCorrection, Corrections, TunerType
<1>4. change.agc \/ (tuner[c].agc /\ ~change.gain) \in BOOLEAN
  OBVIOUS
<1> QED
  BY <1>1, <1>2, <1>3, <1>4 DEF Retune, TunerType, ChangeType

LEMMA TunerTypes ==
    ASSUME TypeOK, TunerControl
    PROVE  TypeOK'
<1> USE DEF TunerControl
<1>1. tuner' \in [Receivers -> TunerType]
  <2>1. PICK bad \in SUBSET Faulty :
           tuner' = [c \in Receivers |-> IF c \in bad THEN tuner[c] ELSE Retune(c, tuner[c])]
    OBVIOUS
  <2> QED
    BY <2>1, RetuneType DEF TypeOK, MainTypeOK
<1>2. change' \in ChangeType
  <2>1. change \in ChangeType
    BY DEF TypeOK, SharedTypeOK
  <2>2. /\ (change.fs /\ ~FsDone) \in BOOLEAN
        /\ (IF change.fs THEN change.fs_reset_cntr + 1 ELSE change.fs_reset_cntr) \in Nat
    BY <2>1 DEF ChangeType, FsDone
  <2>3. change' = [change EXCEPT !.freq = FALSE, !.gain = FALSE, !.agc = FALSE,
                                 !.fs = change.fs /\ ~FsDone,
                                 !.fs_reset_cntr = IF change.fs THEN change.fs_reset_cntr + 1
                                                   ELSE change.fs_reset_cntr]
    OBVIOUS
  <2> HIDE DEF TunerControl
  <2> QED
    BY <2>1, <2>2, <2>3 DEF ChangeType
<1>3. frame' \in FrameType
  <2>1. frame.flagsOf \in Nat \cup {-1} /\ frame.ind \in Nat \cup {-1}
    BY DEF TypeOK, MainTypeOK, FrameType
  <2> QED
    BY <2>1, EmptySeq DEF NoFrame, FrameType
<1>4. read_buff_ind' \in Nat
  BY DEF TypeOK, MainTypeOK
<1>5. retuned' \in RetunedType
  <2>1. \A c \in Receivers : Sampling(c) \in Nat
    BY DEF Sampling, TypeOK, ReaderTypeOK
  <2>2. [c \in Receivers |-> Sampling(c)] \in [Receivers -> Nat \cup {-1}]
    BY <2>1
  <2>3. [read |-> read_buff_ind', block |-> [c \in Receivers |-> Sampling(c)]]
           \in RetunedType
    BY <1>4, <2>2 DEF RetunedType
  <2> QED
    BY <2>3 DEF TypeOK, MainTypeOK
<1>6. /\ en_dummy_frame' \in BOOLEAN /\ dummy_frame_cntr' \in 0 .. NoDummyFrames
      /\ en_dummy_frame' => dummy_frame_cntr' < NoDummyFrames
  <2>1. CountDummy
    BY DEF TunerControl
  <2> HIDE DEF TunerControl
  <2>2. NoDummyFrames \in Nat
    BY RtlDaqAssumption
  <2>3. /\ dummy_frame_cntr \in 0 .. NoDummyFrames /\ en_dummy_frame \in BOOLEAN
        /\ en_dummy_frame => dummy_frame_cntr < NoDummyFrames
    BY DEF TypeOK, SharedTypeOK
  <2>4. CASE en_dummy_frame
    <3>1. /\ dummy_frame_cntr' = dummy_frame_cntr + 1
          /\ en_dummy_frame' <=> dummy_frame_cntr + 1 # NoDummyFrames
          /\ en_dummy_frame' \in BOOLEAN
      BY <2>1, <2>4 DEF CountDummy
    <3> QED
      BY <2>2, <2>3, <2>4, <3>1
  <2>5. CASE ~en_dummy_frame
    BY <2>1, <2>3, <2>5 DEF CountDummy
  <2> QED
    BY <2>3, <2>4, <2>5
<1>7. gpio' \in BOOLEAN /\ last_noise_source_state' \in BOOLEAN
  BY DEF TypeOK, MainTypeOK, SharedTypeOK
<1>8. MainTypeOK'
  BY <1>1, <1>3, <1>4, <1>5, <1>7 DEF TypeOK, MainTypeOK
<1>9. SharedTypeOK'
  BY <1>2, <1>6 DEF TypeOK, SharedTypeOK
<1>10. ReaderTypeOK'
  BY DEF TypeOK, ReaderTypeOK, readerVars
<1> QED
  BY <1>8, <1>9, <1>10 DEF TypeOK

LEMMA MainTypes ==
    ASSUME TypeOK, MainStep
    PROVE  TypeOK'
<1> USE DEF TypeOK, ReaderTypeOK, MainTypeOK, SharedTypeOK, readerVars, mainVars, sharedVars
<1>1. CASE CondWait
  BY <1>1 DEF CondWait
<1>2. CASE WakeUp
  BY <1>2, ReceiverFacts DEF WakeUp
<1>3. CASE CheckReady
  BY <1>3, ReceiverFacts DEF CheckReady
<1>4. CASE LeaveLoop
  BY <1>4, ReceiverFacts DEF LeaveLoop
<1>5. CASE CancelRead
  BY <1>5 DEF CancelRead
<1>6. CASE JoinReader
  BY <1>6, ReceiverFacts DEF JoinReader
<1>7. CASE JoinCommandThread
  BY <1>7 DEF JoinCommandThread
<1> QED
  BY <1>1, <1>2, <1>3, <1>4, <1>5, <1>6, <1>7, FrameTypes, TunerTypes DEF MainStep

LEMMA CommandTypes ==
    ASSUME TypeOK, ReceiveCommand \/ LockAndNote \/ SignalAndUnlock
    PROVE  TypeOK'
<1> USE DEF TypeOK, readerVars
<1>1. CASE ReceiveCommand
  <2>1. script' \in Seq(Commands) /\ command' \in Commands
    BY <1>1, HeadTailProperties DEF ReceiveCommand, SharedTypeOK
  <2>2. SharedTypeOK'
    BY <1>1, <2>1 DEF ReceiveCommand, SharedTypeOK, sharedVars
  <2>3. ReaderTypeOK'
    BY <1>1 DEF ReceiveCommand, ReaderTypeOK
  <2> QED
    BY <1>1, <2>2, <2>3, MainTypeKept DEF ReceiveCommand
<1>2. CASE LockAndNote
  <2>1. change' \in ChangeType
    <3>1. change \in ChangeType
      BY DEF SharedTypeOK
    <3>2. Len(script) + 1 \in Nat
      <4>1. script \in Seq(Commands)
        BY DEF SharedTypeOK
      <4>2. Len(script) \in Nat
        BY <4>1, LenProperties
      <4> QED
        BY <4>2
    <3>3. \A corr \in FsCorrections : corr \in [Receivers -> Corrections]
      BY RtlDaqAssumption DEF Receivers
    <3>4. \/ change' = [change EXCEPT !.freq = TRUE, !.new_center_freq = Len(script) + 1]
          \/ change' = [change EXCEPT !.gain = TRUE, !.new_gains = Len(script) + 1]
          \/ change' = [change EXCEPT !.agc = TRUE]
          \/ \E corr \in FsCorrections :
                change' = [change EXCEPT !.fs = TRUE, !.fs_reset_cntr = 0,
                                         !.new_fs_corrections = corr]
          \/ change' = change
      BY <1>2 DEF LockAndNote, NoteCommand
    <3>5. CASE \E corr \in FsCorrections :
                  change' = [change EXCEPT !.fs = TRUE, !.fs_reset_cntr = 0,
                                           !.new_fs_corrections = corr]
      <4>1. PICK corr \in FsCorrections :
                change' = [change EXCEPT !.fs = TRUE, !.fs_reset_cntr = 0,
                                         !.new_fs_corrections = corr]
        BY <3>5
      <4>2. corr \in [Receivers -> Corrections]
        BY <3>3
      <4> QED
        BY <3>1, <4>1, <4>2 DEF ChangeType
    <3>6. CASE change' = [change EXCEPT !.freq = TRUE, !.new_center_freq = Len(script) + 1]
      BY <3>1, <3>2, <3>6 DEF ChangeType
    <3>7. CASE change' = [change EXCEPT !.gain = TRUE, !.new_gains = Len(script) + 1]
      BY <3>1, <3>2, <3>7 DEF ChangeType
    <3>8. CASE change' = [change EXCEPT !.agc = TRUE]
      BY <3>1, <3>8 DEF ChangeType
    <3> QED
      BY <3>1, <3>4, <3>5, <3>6, <3>7, <3>8
  <2>2. noise_source_state' \in BOOLEAN /\ exit_flag' \in BOOLEAN
    BY <1>2 DEF LockAndNote, NoteCommand, SharedTypeOK
  <2>3. SharedTypeOK'
    <3>1. dummy_frame_cntr' \in 0 .. NoDummyFrames /\ dummy_frame_cntr' < NoDummyFrames
      <4>1. dummy_frame_cntr' = 0
        BY <1>2 DEF LockAndNote
      <4> QED
        BY <4>1, RtlDaqAssumption
    <3> QED
      BY <1>2, <2>1, <2>2, <3>1 DEF LockAndNote, SharedTypeOK
  <2>4. ReaderTypeOK'
    BY <1>2 DEF LockAndNote, ReaderTypeOK
  <2> QED
    BY <1>2, <2>3, <2>4, MainTypeKept DEF LockAndNote
<1>3. CASE SignalAndUnlock
  <2>1. SharedTypeOK'
    BY <1>3 DEF SignalAndUnlock, SharedTypeOK, sharedVars
  <2>2. ReaderTypeOK'
    BY <1>3 DEF SignalAndUnlock, ReaderTypeOK
  <2> QED
    BY <1>3, <2>1, <2>2, SignalKeepsType DEF SignalAndUnlock
<1> QED
  BY <1>1, <1>2, <1>3

LEMMA TypeStep == TypeOK /\ [Next]_vars => TypeOK'
<1> SUFFICES ASSUME TypeOK, [Next]_vars PROVE TypeOK'
  OBVIOUS
<1>1. CASE AtRest \/ UNCHANGED vars
  <2>1. UNCHANGED vars
    BY <1>1 DEF AtRest
  <2> QED
    BY <2>1, MainTypeKept, SharedTypeKept DEF TypeOK, ReaderTypeOK, vars, readerVars
<1> QED
  BY <1>1, ReaderTypes, MainTypes, CommandTypes DEF Next

\* The state keeps its shape; in particular the dummy frames are counted up to
\* NO_DUMMY_FRAMES and not beyond.
THEOREM TypeCorrect == Spec => []TypeOK
<1>1. Init => TypeOK
  BY InitTypeOK
<1> QED
  BY <1>1, TypeStep, PTL DEF Spec

-----------------------------------------------------------------------------
(* The two threads exclude each other *)

LEMMA InitExclusion == Init => Exclusion
BY DEF Init, Exclusion, Locked

LEMMA ExclusionReader ==
    ASSUME Exclusion, NEW c \in Receivers, ReaderStep(c) \/ DeviceLost(c)
    PROVE  Exclusion'
<1>1. /\ UNCHANGED <<mutex, cmdPc, read_buff_ind, exit_flag>>
      /\ mainPc' = mainPc \/ mainPc' = "woken"
  BY DEF ReaderStep, DeviceLost, ReaderSetup, BarrierOpens, CallbackBegins, CallbackEnds,
         CancelReturns, ReadReturns, Signal, mainVars, sharedVars
<1> QED
  BY <1>1 DEF Exclusion, Locked

LEMMA ExclusionMain ==
    ASSUME Exclusion, MainStep
    PROVE  Exclusion'
<1>1. UNCHANGED <<cmdPc, exit_flag>>
  BY DEF MainStep, CondWait, WakeUp, CheckReady, WriteHeader, WriteBlock, SkipData,
         TunerControl, LeaveLoop, CancelRead, JoinReader, JoinCommandThread, sharedVars
<1>2. CASE CondWait
  BY <1>1, <1>2 DEF CondWait, Exclusion, Locked
<1>3. CASE WakeUp
  BY <1>1, <1>3 DEF WakeUp, Exclusion, Locked
<1>4. CASE CheckReady \/ WriteHeader \/ WriteBlock \/ SkipData \/ TunerControl
  <2>1. mutex' = mutex /\ mainPc \in Locked /\ mainPc' \in Locked /\ mainPc' # "start"
    BY <1>4 DEF CheckReady, WriteHeader, WriteBlock, SkipData, TunerControl, Locked
  <2> QED
    BY <1>1, <2>1 DEF Exclusion
<1>5. CASE LeaveLoop \/ CancelRead
  <2>1. mutex' = mutex /\ mainPc' \in {"stop", "join", "exit"}
    BY <1>5 DEF LeaveLoop, CancelRead
  <2>2. mainPc \in Locked
    BY <1>5 DEF LeaveLoop, CancelRead, Exclusion, Locked
  <2> QED
    BY <1>1, <2>1, <2>2 DEF Exclusion
<1>6. CASE JoinReader
  BY <1>1, <1>6 DEF JoinReader, Exclusion, Locked
<1>7. CASE JoinCommandThread
  BY <1>1, <1>7 DEF JoinCommandThread, Exclusion, Locked
<1> QED
  BY <1>2, <1>3, <1>4, <1>5, <1>6, <1>7 DEF MainStep

LEMMA ExclusionCommand ==
    ASSUME TypeOK, Exclusion, ReceiveCommand \/ LockAndNote \/ SignalAndUnlock
    PROVE  Exclusion'
<1>1. CASE ReceiveCommand
  <2>1. mainPc # "start"
    BY <1>1 DEF ReceiveCommand, Exclusion
  <2> QED
    BY <1>1, <2>1 DEF ReceiveCommand, Exclusion
<1>2. CASE LockAndNote
  BY <1>2 DEF LockAndNote, Exclusion, Locked
<1>3. CASE SignalAndUnlock
  BY <1>3 DEF SignalAndUnlock, Signal, Exclusion, Locked
<1> QED
  BY <1>1, <1>2, <1>3

LEMMA ExclusionStep == TypeOK /\ Exclusion /\ [Next]_vars => Exclusion'
<1> SUFFICES ASSUME TypeOK, Exclusion, [Next]_vars PROVE Exclusion'
  OBVIOUS
<1>1. CASE AtRest \/ UNCHANGED vars
  BY <1>1 DEF AtRest, vars, mainVars, sharedVars, Exclusion
<1> QED
  BY <1>1, ExclusionReader, ExclusionMain, ExclusionCommand DEF Next

-----------------------------------------------------------------------------
(* The ring *)

LEMMA InitRing == Init => Ring
<1> SUFFICES ASSUME Init, NEW c \in Receivers, NEW k \in 0 .. buff_ind[c] - 1
             PROVE  FALSE
  BY DEF Ring
<1>1. buff_ind[c] = 0
  BY DEF Init
<1> QED
  BY <1>1

LEMMA RingStep == TypeOK /\ Ring /\ [Next]_vars => Ring'
<1> SUFFICES ASSUME TypeOK, Ring, [Next]_vars,
                    NEW c \in Receivers, NEW k \in 0 .. buff_ind'[c] - 1,
                    buff_ind'[c] - k < NumBuff
             PROVE  buffer'[c][k % NumBuff] = k
  BY DEF Ring
<1>1. /\ buff_ind[c] \in Nat /\ k \in Nat /\ NumBuff \in Nat \ {0}
      /\ buffer \in [Receivers -> RingType] /\ WriteSlot(c) \in Slots
  <2>1. buff_ind' \in [Receivers -> Nat]
    BY TypeStep DEF TypeOK, ReaderTypeOK
  <2>2. buff_ind[c] \in Nat
    BY DEF TypeOK, ReaderTypeOK
  <2>3. NumBuff \in Nat \ {0}
    BY RtlDaqAssumption
  <2>4. k \in Nat
    BY <2>1
  <2>5. WriteSlot(c) \in Slots
    BY <2>2, SlotOf DEF WriteSlot
  <2> QED
    BY <2>2, <2>3, <2>4, <2>5 DEF TypeOK, ReaderTypeOK
<1>2. CASE UNCHANGED <<buff_ind, buffer>>
  BY <1>2 DEF Ring
<1>3. ASSUME NEW d \in Receivers, CallbackBegins(d)
      PROVE  buffer'[c][k % NumBuff] = k
  <2>1. buff_ind' = buff_ind /\ buffer' = [buffer EXCEPT ![d][WriteSlot(d)] = Torn]
    BY <1>3 DEF CallbackBegins
  <2>2. buffer[c][k % NumBuff] = k
    BY <2>1 DEF Ring
  <2>3. k < buff_ind[c] /\ buff_ind[c] < k + NumBuff
    BY <1>1, <2>1
  <2>4. k % NumBuff # WriteSlot(c)
    BY <1>1, <2>3, ModDistinct DEF WriteSlot
  <2> QED
    BY <1>1, <2>1, <2>2, <2>4 DEF RingType
<1>4. ASSUME NEW d \in Receivers, CallbackEnds(d)
      PROVE  buffer'[c][k % NumBuff] = k
  <2>1. /\ buff_ind' = [buff_ind EXCEPT ![d] = @ + 1]
        /\ buffer' = [buffer EXCEPT ![d][WriteSlot(d)] = buff_ind[d]]
    BY <1>4 DEF CallbackEnds
  <2>2. CASE c # d
    <3>1. buff_ind'[c] = buff_ind[c] /\ buffer'[c] = buffer[c]
      BY <2>1, <2>2, <1>1 DEF TypeOK, ReaderTypeOK
    <3> QED
      BY <3>1 DEF Ring
  <2>3. CASE c = d /\ k = buff_ind[c]
    BY <1>1, <2>1, <2>3 DEF WriteSlot, RingType
  <2>4. CASE c = d /\ k # buff_ind[c]
    <3>1. buff_ind'[c] = buff_ind[c] + 1
      BY <2>1, <2>4 DEF TypeOK, ReaderTypeOK
    <3>2. k \in 0 .. buff_ind[c] - 1 /\ buff_ind[c] - k < NumBuff
      BY <1>1, <2>4, <3>1
    <3>3. buffer[c][k % NumBuff] = k
      BY <3>2 DEF Ring
    <3>4. k % NumBuff # WriteSlot(c)
      BY <1>1, <3>2, ModDistinct DEF WriteSlot
    <3> QED
      BY <1>1, <2>1, <2>4, <3>3, <3>4 DEF RingType
  <2> QED
    BY <2>2, <2>3, <2>4
<1>5. CASE \E d \in Receivers : ReaderStep(d) \/ DeviceLost(d)
  BY <1>2, <1>3, <1>4, <1>5
     DEF ReaderStep, ReaderSetup, BarrierOpens, CancelReturns, DeviceLost, ReadReturns
<1>6. CASE MainStep
  BY <1>2, <1>6
     DEF MainStep, CondWait, WakeUp, CheckReady, WriteHeader, WriteBlock, SkipData,
         TunerControl, LeaveLoop, CancelRead, JoinReader, JoinCommandThread, readerVars
<1>7. CASE ReceiveCommand \/ LockAndNote \/ SignalAndUnlock \/ AtRest \/ UNCHANGED vars
  BY <1>2, <1>7 DEF ReceiveCommand, LockAndNote, SignalAndUnlock, AtRest, vars, readerVars
<1> QED
  BY <1>5, <1>6, <1>7 DEF Next

-----------------------------------------------------------------------------
(* The frame being written *)

LEMMA InitFrameSoFar == Init => FrameSoFar
<1> SUFFICES ASSUME Init PROVE FrameSoFar
  OBVIOUS
<1>1. mainPc = "start" /\ frame = NoFrame
  BY DEF Init
<1>2. frame.blocks = <<>>
  BY <1>1 DEF NoFrame
<1> QED
  BY <1>1, <1>2 DEF FrameSoFar

\* The readers only get further ahead.
LEMMA FrameReader ==
    ASSUME TypeOK, FrameSoFar, NEW d \in Receivers, ReaderStep(d) \/ DeviceLost(d)
    PROVE  FrameSoFar'
<1>1. /\ UNCHANGED <<ch, read_buff_ind, frame, en_dummy_frame>>
      /\ mainPc' = mainPc \/ (mainPc = "waiting" /\ mainPc' = "woken")
  BY DEF ReaderStep, DeviceLost, ReaderSetup, BarrierOpens, CallbackBegins, CallbackEnds,
         CancelReturns, ReadReturns, Signal, mainVars, sharedVars
<1>2. \A c \in Receivers : /\ buff_ind[c] \in Nat /\ buff_ind'[c] \in Nat
                           /\ buff_ind'[c] >= buff_ind[c]
  <2>1. buff_ind' = buff_ind \/ buff_ind' = [buff_ind EXCEPT ![d] = @ + 1]
    BY DEF ReaderStep, DeviceLost, ReaderSetup, BarrierOpens, CallbackBegins, CallbackEnds,
           CancelReturns, ReadReturns
  <2> QED
    BY <2>1 DEF TypeOK, ReaderTypeOK
<1>3. read_buff_ind \in Nat /\ ch \in Receivers /\ frame \in FrameType
  BY DEF TypeOK, MainTypeOK
<1>4. mainPc' = "check" => \A c \in 0 .. ch - 1 : buff_ind'[c] > read_buff_ind
  BY <1>1, <1>2, <1>3, ReceiverFacts, RtlDaqAssumption DEF FrameSoFar, Receivers
<1>5. mainPc' \in {"header", "data", "control"} =>
         \A c \in Receivers : buff_ind'[c] > read_buff_ind
  BY <1>1, <1>2, <1>3 DEF FrameSoFar
<1>6. ASSUME mainPc' \in {"data", "control"}, NEW i \in 1 .. Len(frame.blocks)
      PROVE  frame.blocks[i] = frame.ind \/ buff_ind'[i - 1] - frame.ind >= NumBuff
  <2>1. mainPc \in {"data", "control"}
    BY <1>1, <1>6
  <2>2. i - 1 \in Receivers
    BY <1>3, <2>1, RtlDaqAssumption DEF FrameSoFar, Receivers
  <2>3. frame.ind \in Int /\ NumBuff \in Nat
    BY <1>3, RtlDaqAssumption DEF FrameType
  <2>4. frame.blocks[i] = frame.ind \/ buff_ind[i - 1] - frame.ind >= NumBuff
    BY <2>1 DEF FrameSoFar
  <2> QED
    BY <1>2, <2>2, <2>3, <2>4
<1> QED
  BY <1>1, <1>4, <1>5, <1>6 DEF FrameSoFar

LEMMA FrameCheck ==
    ASSUME TypeOK, FrameSoFar, CheckReady
    PROVE  FrameSoFar'
<1>1. /\ mainPc = "check" /\ UNCHANGED <<read_buff_ind, frame, en_dummy_frame, buff_ind>>
      /\ frame.blocks = <<>>
  BY DEF CheckReady, FrameSoFar, readerVars, sharedVars
<1>2. \A c \in 0 .. ch - 1 : buff_ind[c] > read_buff_ind
  BY <1>1 DEF FrameSoFar
<1>3. ch \in Nat /\ ch <= ChNo - 1 /\ ChNo \in Nat
  BY RtlDaqAssumption DEF TypeOK, MainTypeOK, Receivers
<1>4. CASE BlockReady(ch)
  <2>1. \A c \in 0 .. ch : buff_ind[c] > read_buff_ind
    BY <1>2, <1>3, <1>4 DEF BlockReady
  <2>2. CASE ch = ChNo - 1
    <3>1. mainPc' = "header" /\ ch' = 0
      BY <1>4, <2>2 DEF CheckReady
    <3>2. \A c \in Receivers : buff_ind[c] > read_buff_ind
      BY <2>1, <2>2 DEF Receivers
    <3> QED
      BY <1>1, <3>1, <3>2 DEF FrameSoFar
  <2>3. CASE ch # ChNo - 1
    <3>1. mainPc' = "check" /\ ch' = ch + 1
      BY <1>4, <2>3 DEF CheckReady
    <3>2. \A c \in 0 .. ch' - 1 : buff_ind[c] > read_buff_ind
      BY <1>3, <2>1, <3>1
    <3> QED
      BY <1>1, <3>1, <3>2 DEF FrameSoFar
  <2> QED
    BY <2>2, <2>3
<1>5. CASE ~BlockReady(ch)
  BY <1>1, <1>5 DEF CheckReady, FrameSoFar
<1> QED
  BY <1>4, <1>5

LEMMA FrameHeader ==
    ASSUME TypeOK, FrameSoFar, WriteHeader
    PROVE  FrameSoFar'
<1>1. PICK flags : frame' = [frame EXCEPT !.ind = read_buff_ind, !.dummy = en_dummy_frame,
                                          !.noise = noise_source_state,
                                          !.freq = tuner[ChNo - 1].freq, !.flags = flags]
  BY DEF WriteHeader
<1>2. /\ mainPc = "header" /\ mainPc' = "data" /\ ch = 0
      /\ UNCHANGED <<ch, read_buff_ind, en_dummy_frame, buff_ind>>
      /\ frame.blocks = <<>> /\ frame \in FrameType
      /\ \A c \in Receivers : buff_ind[c] > read_buff_ind
  BY DEF WriteHeader, FrameSoFar, readerVars, sharedVars, TypeOK, MainTypeOK
<1>3. frame'.ind = read_buff_ind /\ frame'.dummy = en_dummy_frame /\ frame'.blocks = <<>>
  BY <1>1, <1>2 DEF FrameType
<1>4. Len(frame'.blocks) = 0
  BY <1>3, EmptySeq
<1> QED
  BY <1>2, <1>3, <1>4 DEF FrameSoFar

\* The block just written is the one counted, or its receiver has lapped.
LEMMA FrameBlock ==
    ASSUME TypeOK, Ring, FrameSoFar, WriteBlock
    PROVE  FrameSoFar'
<1> DEFINE slot == read_buff_ind % NumBuff
           block == buffer[ch][slot]
<1>1. /\ mainPc = "data" /\ UNCHANGED <<read_buff_ind, en_dummy_frame, buff_ind>>
      /\ frame' = [frame EXCEPT !.blocks = Append(frame.blocks, block)]
      /\ ~en_dummy_frame
  BY DEF WriteBlock, readerVars, sharedVars
<1>2. /\ frame \in FrameType /\ ch \in Receivers /\ read_buff_ind \in Nat
      /\ ch \in Nat /\ ChNo \in Nat /\ NumBuff \in Nat
      /\ buff_ind \in [Receivers -> Nat]
  BY RtlDaqAssumption DEF TypeOK, MainTypeOK, ReaderTypeOK, Receivers
<1>3. /\ frame.ind = read_buff_ind /\ frame.dummy = en_dummy_frame
      /\ Len(frame.blocks) = ch
      /\ \A c \in Receivers : buff_ind[c] > read_buff_ind
      /\ \A i \in 1 .. Len(frame.blocks) : \/ frame.blocks[i] = frame.ind
                                           \/ buff_ind[i - 1] - frame.ind >= NumBuff
  BY <1>1 DEF FrameSoFar
<1>4. block = read_buff_ind \/ buff_ind[ch] - read_buff_ind >= NumBuff
  <2>1. read_buff_ind \in 0 .. buff_ind[ch] - 1
    BY <1>2, <1>3
  <2>2. buff_ind[ch] - read_buff_ind < NumBuff => block = read_buff_ind
    BY <1>2, <2>1 DEF Ring
  <2> QED
    BY <1>2, <2>2
<1>5. block \in Nat \cup {Torn} /\ frame.blocks \in Seq(Nat \cup {Torn})
  <2>1. slot \in Slots
    BY <1>2, SlotOf
  <2>2. buffer \in [Receivers -> RingType]
    BY DEF TypeOK, ReaderTypeOK
  <2> QED
    BY <1>2, <2>1, <2>2 DEF RingType, FrameType
<1>6. /\ frame'.ind = frame.ind /\ frame'.dummy = frame.dummy
      /\ frame'.blocks = Append(frame.blocks, block)
  BY <1>1, <1>2 DEF FrameType
<1> HIDE DEF block
<1>7. /\ Len(frame'.blocks) = ch + 1
      /\ \A i \in 1 .. ch : frame'.blocks[i] = frame.blocks[i]
      /\ frame'.blocks[ch + 1] = block
  BY <1>3, <1>5, <1>6, AppendProperties
<1>8. \A i \in 1 .. ch + 1 : \/ frame'.blocks[i] = frame.ind
                             \/ buff_ind[i - 1] - frame.ind >= NumBuff
  <2> SUFFICES ASSUME NEW i \in 1 .. ch + 1
               PROVE  frame'.blocks[i] = frame.ind \/ buff_ind[i - 1] - frame.ind >= NumBuff
    OBVIOUS
  <2>1. CASE i = ch + 1
    BY <1>2, <1>3, <1>4, <1>7, <2>1
  <2>2. CASE i \in 1 .. ch
    BY <1>3, <1>7, <2>2
  <2> QED
    BY <1>2, <2>1, <2>2
<1>9. \/ mainPc' = "control" /\ ch = ChNo - 1
      \/ mainPc' = "data" /\ ch' = ch + 1
  BY DEF WriteBlock
<1>10. Len(frame'.blocks) = IF mainPc' = "data" THEN ch' ELSE ChNo
  BY <1>2, <1>7, <1>9
<1> QED
  BY <1>1, <1>3, <1>6, <1>7, <1>8, <1>9, <1>10 DEF FrameSoFar

LEMMA FrameMain ==
    ASSUME TypeOK, Ring, FrameSoFar, MainStep
    PROVE  FrameSoFar'
<1>1. CASE CondWait \/ LeaveLoop \/ CancelRead \/ JoinReader \/ JoinCommandThread
  <2>1. /\ UNCHANGED frame
        /\ mainPc \notin {"data", "control"}
        /\ mainPc' \in {"waiting", "stop", "join", "exit", "joinCmd"}
    BY <1>1 DEF CondWait, LeaveLoop, CancelRead, JoinReader, JoinCommandThread, mainVars
  <2> QED
    BY <2>1 DEF FrameSoFar
<1>2. CASE WakeUp
  <2>1. /\ UNCHANGED frame /\ mainPc = "woken" /\ mainPc' = "check" /\ ch' = 0
    BY <1>2 DEF WakeUp
  <2>2. \A c \in 0 .. ch' - 1 : FALSE
    BY <2>1
  <2> QED
    BY <2>1, <2>2 DEF FrameSoFar
<1>3. CASE SkipData
  <2>1. /\ UNCHANGED <<frame, buff_ind, read_buff_ind, en_dummy_frame>> /\ mainPc = "data"
        /\ mainPc' = "control" /\ en_dummy_frame
    BY <1>3 DEF SkipData, readerVars, sharedVars
  <2> QED
    BY <2>1 DEF FrameSoFar
<1>4. CASE TunerControl
  BY <1>4 DEF TunerControl, NoFrame, FrameSoFar
<1> QED
  BY <1>1, <1>2, <1>3, <1>4, FrameCheck, FrameHeader, FrameBlock DEF MainStep

LEMMA FrameCommand ==
    ASSUME Exclusion, FrameSoFar, ReceiveCommand \/ LockAndNote \/ SignalAndUnlock
    PROVE  FrameSoFar'
<1>1. CASE ReceiveCommand
  BY <1>1 DEF ReceiveCommand, FrameSoFar, readerVars, mainVars, sharedVars
<1>2. CASE LockAndNote
  <2>1. mainPc \notin Locked /\ mainPc' = mainPc /\ frame' = frame
    BY <1>2 DEF LockAndNote, Exclusion, mainVars
  <2> QED
    BY <2>1 DEF FrameSoFar, Locked
<1>3. CASE SignalAndUnlock
  <2>1. mainPc \notin Locked /\ frame' = frame /\ (mainPc' = mainPc \/ mainPc' = "woken")
    BY <1>3 DEF SignalAndUnlock, Signal, Exclusion, mainVars
  <2> QED
    BY <2>1 DEF FrameSoFar, Locked
<1> QED
  BY <1>1, <1>2, <1>3

LEMMA FrameStep == TypeOK /\ Exclusion /\ Ring /\ FrameSoFar /\ [Next]_vars => FrameSoFar'
<1> SUFFICES ASSUME TypeOK, Exclusion, Ring, FrameSoFar, [Next]_vars PROVE FrameSoFar'
  OBVIOUS
<1>1. CASE AtRest \/ UNCHANGED vars
  BY <1>1 DEF AtRest, vars, readerVars, mainVars, sharedVars, FrameSoFar
<1> QED
  BY <1>1, FrameReader, FrameMain, FrameCommand DEF Next

-----------------------------------------------------------------------------
LEMMA InvariantHolds == Spec => []IInv
<1>1. Init => IInv
  BY InitTypeOK, InitExclusion, InitRing, InitFrameSoFar DEF IInv
<1>2. IInv /\ [Next]_vars => IInv'
  BY TypeStep, ExclusionStep, RingStep, FrameStep DEF IInv
<1> QED
  BY <1>1, <1>2, PTL DEF Spec

\* Whatever commands come, a header is followed by exactly the blocks it
\* announces.
THEOREM FramesAreWhole == Spec => []FrameWhole
<1>1. IInv => FrameWhole
  BY DEF IInv, FrameSoFar, FrameWhole
<1> QED
  BY <1>1, InvariantHolds, PTL

\* A data frame holds the block its header counts of every receiver that is less
\* than NUM_BUFF blocks ahead, for every ring size and number of receivers.
THEOREM FramesAreIntact == Spec => []FrameIntact
<1>1. IInv => FrameIntact
  <2> SUFFICES ASSUME IInv, DataComplete, NEW c \in Receivers
               PROVE  frame.blocks[c + 1] = frame.ind \/ buff_ind[c] - frame.ind >= NumBuff
    BY DEF FrameIntact
  <2>1. Len(frame.blocks) = ChNo
    BY DEF IInv, FrameSoFar, DataComplete
  <2>2. c + 1 \in 1 .. Len(frame.blocks) /\ (c + 1) - 1 = c
    BY <2>1, RtlDaqAssumption DEF Receivers
  <2>3. \A i \in 1 .. Len(frame.blocks) : \/ frame.blocks[i] = frame.ind
                                          \/ buff_ind[i - 1] - frame.ind >= NumBuff
    BY DEF IInv, FrameSoFar, DataComplete
  <2> QED
    BY <2>2, <2>3
<1> QED
  BY <1>1, InvariantHolds, PTL
-----------------------------------------------------------------------------
(* What is noted, set and announced *)

\* The pulse of a correction takes two of the dummy frames.
PulseFits == NoDummyFrames >= 2

LEMMA InitCommanded == Init => Commanded
<1> SUFFICES ASSUME Init PROVE Commanded
  OBVIOUS
<1>1. NoiseSaid
  BY DEF Init, NoiseSaid
<1>2. ChangeAnnounced
  BY DEF Init, ChangeAnnounced
<1>3. DevicesFollow
  BY DEF Init, DevicesFollow
<1> QED
  BY <1>1, <1>2, <1>3 DEF Commanded

commandedVars == <<frame, change, noise_source_state, last_noise_source_state,
                   en_dummy_frame, dummy_frame_cntr, tuner, gpio>>

\* A step that changes none of these, and does not start to write the data.
LEMMA CommandedKept ==
    ASSUME Commanded, UNCHANGED commandedVars,
           mainPc' \in {"data", "control"} => mainPc \in {"data", "control"}
    PROVE  Commanded'
<1>1. NoiseSaid'
  BY DEF Commanded, NoiseSaid, commandedVars
<1>2. ChangeAnnounced'
  BY DEF Commanded, ChangeAnnounced, commandedVars
<1>3. DevicesFollow'
  BY DEF Commanded, DevicesFollow, commandedVars
<1> QED
  BY <1>1, <1>2, <1>3 DEF Commanded

LEMMA CommandedHeader ==
    ASSUME TypeOK, Commanded, WriteHeader
    PROVE  Commanded'
<1>1. frame'.noise = noise_source_state
  BY DEF WriteHeader, TypeOK, MainTypeOK, FrameType
<1>2. NoiseSaid'
  BY <1>1 DEF WriteHeader, NoiseSaid, sharedVars
<1>3. ChangeAnnounced'
  BY DEF WriteHeader, Commanded, ChangeAnnounced, sharedVars
<1>4. DevicesFollow'
  BY DEF WriteHeader, Commanded, DevicesFollow, sharedVars
<1> QED
  BY <1>2, <1>3, <1>4 DEF Commanded

\* A block is appended to the frame; its header stays.
LEMMA CommandedBlock ==
    ASSUME TypeOK, Commanded, WriteBlock
    PROVE  Commanded'
<1>1. frame'.noise = frame.noise /\ mainPc = "data"
  BY DEF WriteBlock, TypeOK, MainTypeOK, FrameType
<1>2. NoiseSaid'
  BY <1>1 DEF WriteBlock, Commanded, NoiseSaid, sharedVars
<1>3. ChangeAnnounced'
  BY DEF WriteBlock, Commanded, ChangeAnnounced, sharedVars
<1>4. DevicesFollow'
  BY DEF WriteBlock, Commanded, DevicesFollow, sharedVars
<1> QED
  BY <1>2, <1>3, <1>4 DEF Commanded

\* What TunerControl does to the noted changes.
LEMMA ChangesAfter ==
    ASSUME TypeOK, TunerControl
    PROVE  /\ ~change'.freq /\ ~change'.gain /\ ~change'.agc
           /\ change'.fs <=> change.fs /\ change.fs_reset_cntr # 1
           /\ change'.fs_reset_cntr = IF change.fs THEN change.fs_reset_cntr + 1
                                      ELSE change.fs_reset_cntr
           /\ change'.new_center_freq = change.new_center_freq
           /\ change'.new_gains = change.new_gains
           /\ change'.new_fs_corrections = change.new_fs_corrections
<1>1. change \in ChangeType
  BY DEF TypeOK, SharedTypeOK
<1>2. change' = [change EXCEPT !.freq = FALSE, !.gain = FALSE, !.agc = FALSE,
                               !.fs = change.fs /\ ~FsDone,
                               !.fs_reset_cntr = IF change.fs THEN change.fs_reset_cntr + 1
                                                 ELSE change.fs_reset_cntr]
  BY DEF TunerControl
<1> QED
  BY <1>1, <1>2 DEF ChangeType, FsDone

LEMMA AnnouncedAfter ==
    ASSUME TypeOK, ChangeAnnounced, TunerControl, PulseFits
    PROVE  ChangeAnnounced'
<1>1. last_noise_source_state' = noise_source_state'
  BY DEF TunerControl
<1>2. ASSUME change'.fs
      PROVE  /\ en_dummy_frame' /\ change'.fs_reset_cntr \in {0, 1}
             /\ dummy_frame_cntr' <= change'.fs_reset_cntr
  <2>1. /\ change.fs /\ change.fs_reset_cntr = 0 /\ change'.fs_reset_cntr = 1
        /\ en_dummy_frame /\ dummy_frame_cntr <= 0
    BY <1>2, ChangesAfter DEF ChangeAnnounced
  <2>2. dummy_frame_cntr = 0
    <3>1. dummy_frame_cntr \in 0 .. NoDummyFrames
      BY DEF TypeOK, SharedTypeOK
    <3> QED
      BY <2>1, <3>1, RtlDaqAssumption
  <2>3. dummy_frame_cntr' = 1 /\ (en_dummy_frame' <=> 1 # NoDummyFrames)
    <3>1. CountDummy
      BY DEF TunerControl
    <3>2. /\ dummy_frame_cntr' = dummy_frame_cntr + 1
          /\ en_dummy_frame' <=> dummy_frame_cntr + 1 # NoDummyFrames
      BY <2>1, <3>1 DEF CountDummy
    <3> QED
      BY <2>2, <3>2
  <2> QED
    BY <2>1, <2>3 DEF PulseFits
<1> QED
  BY <1>1, <1>2, ChangesAfter DEF ChangeAnnounced

LEMMA DevicesAfter ==
    ASSUME TypeOK, ChangeAnnounced, DevicesFollow, TunerControl
    PROVE  DevicesFollow'
<1>1. NoiseControl => gpio' = last_noise_source_state'
  BY DEF TunerControl, Switching, DevicesFollow
<1>2. ASSUME NEW c \in Receivers \ Faulty
      PROVE  /\ tuner'[c].freq = change'.new_center_freq
             /\ tuner'[c].gain = change'.new_gains
             /\ change'.fs /\ change'.fs_reset_cntr = 1 =>
                   tuner'[c].corr = change'.new_fs_corrections[c]
             /\ ~change'.fs => tuner'[c].corr =
                   IF change'.new_fs_corrections[c] = "huge" THEN "huge" ELSE "none"
  <2>1. tuner'[c] = Retune(c, tuner[c])
    BY <1>2 DEF TunerControl
  <2>2. /\ tuner'[c].freq = IF change.freq THEN change.new_center_freq ELSE tuner[c].freq
        /\ tuner'[c].gain = IF change.gain THEN change.new_gains ELSE tuner[c].gain
        /\ tuner'[c].corr = FsCorrection(c, tuner[c].corr)
    BY <2>1 DEF Retune
  <2>3. /\ tuner'[c].freq = change'.new_center_freq
        /\ tuner'[c].gain = change'.new_gains
    BY <1>2, <2>2, ChangesAfter DEF DevicesFollow
  <2>4. change.fs_reset_cntr \in Nat
    BY DEF TypeOK, SharedTypeOK, ChangeType
  <2>5. CASE ~change.fs
    BY <1>2, <2>2, <2>5, ChangesAfter DEF DevicesFollow, FsCorrection
  <2>6. CASE change.fs /\ change.fs_reset_cntr = 0
    BY <2>2, <2>3, <2>6, ChangesAfter DEF FsCorrection
  <2>7. CASE change.fs /\ change.fs_reset_cntr = 1
    <3>1. tuner[c].corr = change.new_fs_corrections[c]
      BY <1>2, <2>7 DEF DevicesFollow
    <3>2. tuner'[c].corr = IF change.new_fs_corrections[c] = "huge" THEN tuner[c].corr
                                                                   ELSE "none"
      BY <2>2, <2>7 DEF FsCorrection
    <3> QED
      BY <2>3, <2>7, <3>1, <3>2, ChangesAfter
  <2> QED
    BY <2>3, <2>5, <2>6, <2>7 DEF ChangeAnnounced
<1> QED
  BY <1>1, <1>2 DEF DevicesFollow

\* A command is noted while no frame is written.
LEMMA CommandedNote ==
    ASSUME TypeOK, Exclusion, Commanded, LockAndNote
    PROVE  Commanded'
<1>1. mainPc' \notin {"data", "control"} /\ mainPc' = mainPc
  BY DEF LockAndNote, Exclusion, Locked
<1>2. /\ en_dummy_frame' /\ dummy_frame_cntr' = 0
      /\ UNCHANGED <<tuner, gpio, last_noise_source_state>>
  BY DEF LockAndNote, mainVars
<1>3. NoiseSaid'
  BY <1>1 DEF NoiseSaid
<1>4. change \in ChangeType
  BY DEF TypeOK, SharedTypeOK
<1>5. \/ change' = [change EXCEPT !.freq = TRUE, !.new_center_freq = Len(script) + 1]
      \/ change' = [change EXCEPT !.gain = TRUE, !.new_gains = Len(script) + 1]
      \/ change' = [change EXCEPT !.agc = TRUE]
      \/ \E corr \in FsCorrections :
            change' = [change EXCEPT !.fs = TRUE, !.fs_reset_cntr = 0,
                                     !.new_fs_corrections = corr]
      \/ change' = change
  BY DEF LockAndNote, NoteCommand
<1>6. /\ change'.fs => change'.fs_reset_cntr \in {0, 1}
      /\ ~change'.freq => ~change.freq /\ change'.new_center_freq = change.new_center_freq
      /\ ~change'.gain => ~change.gain /\ change'.new_gains = change.new_gains
      /\ change'.fs /\ change'.fs_reset_cntr = 1 =>
            /\ change.fs /\ change.fs_reset_cntr = 1
            /\ change'.new_fs_corrections = change.new_fs_corrections
      /\ ~change'.fs =>
            ~change.fs /\ change'.new_fs_corrections = change.new_fs_corrections
  <2>1. change.fs => change.fs_reset_cntr \in {0, 1}
    BY DEF Commanded, ChangeAnnounced
  <2>2. CASE change' = [change EXCEPT !.freq = TRUE, !.new_center_freq = Len(script) + 1]
    BY <1>4, <2>1, <2>2 DEF ChangeType
  <2>3. CASE change' = [change EXCEPT !.gain = TRUE, !.new_gains = Len(script) + 1]
    BY <1>4, <2>1, <2>3 DEF ChangeType
  <2>4. CASE change' = [change EXCEPT !.agc = TRUE]
    BY <1>4, <2>1, <2>4 DEF ChangeType
  <2>5. CASE \E corr \in FsCorrections :
                change' = [change EXCEPT !.fs = TRUE, !.fs_reset_cntr = 0,
                                         !.new_fs_corrections = corr]
    BY <1>4, <2>5 DEF ChangeType
  <2>6. CASE change' = change
    BY <2>1, <2>6
  <2> QED
    BY <1>5, <2>2, <2>3, <2>4, <2>5, <2>6
<1>7. ChangeAnnounced'
  BY <1>2, <1>6 DEF ChangeAnnounced
<1>8. DevicesFollow'
  BY <1>2, <1>6 DEF Commanded, DevicesFollow
<1> QED
  BY <1>3, <1>7, <1>8 DEF Commanded

LEMMA CommandedStep ==
    TypeOK /\ Exclusion /\ Commanded /\ PulseFits /\ [Next]_vars => Commanded'
<1> SUFFICES ASSUME TypeOK, Exclusion, Commanded, PulseFits, [Next]_vars PROVE Commanded'
  OBVIOUS
<1> USE DEF commandedVars
<1>1. CASE AtRest \/ UNCHANGED vars
  <2>1. UNCHANGED <<commandedVars, mainPc>>
    BY <1>1 DEF AtRest, vars, mainVars, sharedVars
  <2> QED
    BY <2>1, CommandedKept
<1>2. ASSUME NEW c \in Receivers, ReaderStep(c) \/ DeviceLost(c)
      PROVE  Commanded'
  <2>1. UNCHANGED commandedVars /\ (mainPc' = mainPc \/ mainPc' = "woken")
    BY <1>2 DEF ReaderStep, DeviceLost, ReaderSetup, BarrierOpens, CallbackBegins,
                CallbackEnds, CancelReturns, ReadReturns, Signal, mainVars, sharedVars
  <2> QED
    BY <2>1, CommandedKept
<1>3. CASE CondWait \/ WakeUp \/ CheckReady \/ LeaveLoop \/ CancelRead \/ JoinReader
           \/ JoinCommandThread \/ SkipData
  <2>1. /\ UNCHANGED commandedVars
        /\ mainPc' \in {"data", "control"} => mainPc \in {"data", "control"}
    BY <1>3 DEF CondWait, WakeUp, CheckReady, LeaveLoop, CancelRead, JoinReader,
                JoinCommandThread, SkipData, mainVars, sharedVars
  <2> QED
    BY <2>1, CommandedKept
<1>4. CASE TunerControl
  <2>1. NoiseSaid'
    BY <1>4 DEF TunerControl, NoiseSaid
  <2> QED
    BY <1>4, <2>1, AnnouncedAfter, DevicesAfter DEF Commanded
<1>5. CASE ReceiveCommand \/ SignalAndUnlock
  <2>1. UNCHANGED commandedVars /\ (mainPc' = mainPc \/ mainPc' = "woken")
    BY <1>5 DEF ReceiveCommand, SignalAndUnlock, Signal, mainVars, sharedVars
  <2> QED
    BY <2>1, CommandedKept
<1> QED
  BY <1>1, <1>2, <1>3, <1>4, <1>5, CommandedHeader, CommandedBlock, CommandedNote
     DEF Next, MainStep

\* Whatever commands come and in whatever order they overlap, no data frame leaves
\* while one of them is pending, and the noise source and, of the devices that
\* answer, frequency, gain and sampling rate are then as the last commands said.
\* One dummy frame would not do: a correction pulse would last into the data.
THEOREM DataFramesAreAsCommanded ==
    ASSUME PulseFits
    PROVE  Spec => []DataAsCommanded
<1>1. Init => Commanded
  BY InitCommanded
<1>2. IInv /\ Commanded /\ [Next]_vars => Commanded'
  BY CommandedStep DEF IInv
<1>3. IInv /\ Commanded => DataAsCommanded
  <2> SUFFICES ASSUME IInv, Commanded, DataComplete
               PROVE  /\ ~change.freq /\ ~change.gain /\ ~change.agc /\ ~change.fs
                      /\ frame.noise = noise_source_state
                      /\ NoiseControl => gpio = frame.noise
                      /\ \A c \in Receivers \ Faulty :
                            /\ tuner[c].freq = change.new_center_freq
                            /\ tuner[c].gain = change.new_gains
                            /\ tuner[c].corr = IF change.new_fs_corrections[c] = "huge"
                                               THEN "huge" ELSE "none"
    BY DEF DataAsCommanded
  <2>1. mainPc = "control" /\ ~en_dummy_frame
    BY DEF DataComplete, IInv, FrameSoFar
  <2>2. ~change.freq /\ ~change.gain /\ ~change.agc /\ ~change.fs
    BY <2>1 DEF Commanded, ChangeAnnounced
  <2>3. frame.noise = noise_source_state /\ noise_source_state = last_noise_source_state
    BY <2>1 DEF Commanded, ChangeAnnounced, NoiseSaid
  <2> QED
    BY <2>2, <2>3 DEF Commanded, DevicesFollow
<1> QED
  BY <1>1, <1>2, <1>3, InvariantHolds, PTL DEF Spec
-----------------------------------------------------------------------------
(* The dummy frames after a change *)

LEMMA InitCovered == Init => Covered
<1> SUFFICES ASSUME Init PROVE \A c \in Receivers : retuned.block[c] = -1
  BY DEF Covered
<1> QED
  BY DEF Init

LEMMA CountTypes ==
    ASSUME TypeOK
    PROVE  /\ read_buff_ind \in Nat /\ dummy_frame_cntr \in Nat /\ NoDummyFrames \in Nat
           /\ retuned.read \in Nat
           /\ en_dummy_frame => dummy_frame_cntr < NoDummyFrames
<1>1. retuned \in RetunedType /\ read_buff_ind \in Nat
  BY DEF TypeOK, MainTypeOK
<1>2. /\ dummy_frame_cntr \in 0 .. NoDummyFrames
      /\ en_dummy_frame => dummy_frame_cntr < NoDummyFrames
  BY DEF TypeOK, SharedTypeOK
<1>3. NoDummyFrames \in Nat
  BY RtlDaqAssumption
<1>4. dummy_frame_cntr \in Nat
  BY <1>2, <1>3
<1>5. retuned.read \in Nat
  BY <1>1 DEF RetunedType
<1> QED
  BY <1>1, <1>2, <1>3, <1>4, <1>5

coveredVars == <<retuned, en_dummy_frame, dummy_frame_cntr, read_buff_ind>>

LEMMA CoveredKept ==
    ASSUME Covered, UNCHANGED coveredVars
    PROVE  Covered'
BY DEF Covered, coveredVars

\* How TunerControl counts.
LEMMA CountAfter ==
    ASSUME TypeOK, TunerControl
    PROVE  /\ read_buff_ind' = read_buff_ind + 1
           /\ en_dummy_frame =>
                 /\ dummy_frame_cntr' = dummy_frame_cntr + 1
                 /\ en_dummy_frame' <=> dummy_frame_cntr + 1 # NoDummyFrames
           /\ ~en_dummy_frame => ~en_dummy_frame'
<1>1. CountDummy /\ read_buff_ind' = read_buff_ind + 1
  BY DEF TunerControl
<1> QED
  BY <1>1 DEF CountDummy

LEMMA CoveredAfter ==
    ASSUME TypeOK, ChangeAnnounced, Covered, TunerControl
    PROVE  Covered'
<1> DEFINE setting == change.freq \/ change.gain \/ change.agc \/ change.fs \/ Switching
<1>1. /\ read_buff_ind \in Nat /\ dummy_frame_cntr \in Nat /\ NoDummyFrames \in Nat
      /\ retuned.read \in Nat
      /\ en_dummy_frame => dummy_frame_cntr < NoDummyFrames
  BY CountTypes
<1>2. CASE setting
  <2>1. retuned'.read = read_buff_ind'
    BY <1>2 DEF TunerControl
  <2>2. en_dummy_frame /\ dummy_frame_cntr <= 1
    BY <1>1, <1>2 DEF ChangeAnnounced, Switching
  <2>3. dummy_frame_cntr' <= 2
    BY <1>1, <2>2, CountAfter
  <2>4. ~en_dummy_frame' => NoDummyFrames <= 2
    BY <1>1, <2>2, CountAfter
  <2>5. read_buff_ind' - retuned'.read = 0 /\ dummy_frame_cntr' \in Int
    BY <1>1, <2>1, <2>2, CountAfter
  <2> QED
    BY <1>1, <2>3, <2>4, <2>5 DEF Covered
<1>3. CASE ~setting
  <2>1. retuned' = retuned /\ retuned'.read = retuned.read
    BY <1>3 DEF TunerControl
  <2>2. CASE \A c \in Receivers : retuned.block[c] = -1
    BY <2>1, <2>2 DEF Covered
  <2>3. CASE en_dummy_frame /\ read_buff_ind - retuned.read >= dummy_frame_cntr - 2
    <3>1. read_buff_ind' - retuned'.read >= dummy_frame_cntr' - 2
      <4>1. read_buff_ind' = read_buff_ind + 1 /\ dummy_frame_cntr' = dummy_frame_cntr + 1
        BY <2>3, CountAfter
      <4> QED
        BY <1>1, <2>1, <2>3, <4>1
    <3>2. ~en_dummy_frame' => dummy_frame_cntr' = NoDummyFrames
      BY <2>3, CountAfter
    <3> QED
      BY <3>1, <3>2 DEF Covered
  <2>4. CASE ~en_dummy_frame /\ read_buff_ind - retuned.read >= NoDummyFrames - 2
    <3>1. read_buff_ind' - retuned'.read >= NoDummyFrames - 2
      <4>1. read_buff_ind' = read_buff_ind + 1
        BY CountAfter
      <4> QED
        BY <1>1, <2>1, <2>4, <4>1
    <3> QED
      BY <2>4, <3>1, CountAfter DEF Covered
  <2> QED
    BY <2>2, <2>3, <2>4 DEF Covered
<1> QED
  BY <1>2, <1>3

\* A round starts anew: two dummy frames may still come before the setting.
LEMMA CoveredNote ==
    ASSUME TypeOK, Covered, LockAndNote
    PROVE  Covered'
<1>1. /\ en_dummy_frame' /\ dummy_frame_cntr' = 0
      /\ UNCHANGED <<retuned, read_buff_ind>>
  BY DEF LockAndNote, mainVars
<1>2. /\ read_buff_ind \in Nat /\ retuned.read \in Nat
      /\ dummy_frame_cntr \in Nat /\ NoDummyFrames \in Nat
  BY CountTypes
<1>3. CASE \A c \in Receivers : retuned.block[c] = -1
  BY <1>1, <1>3 DEF Covered
<1>4. CASE read_buff_ind - retuned.read >= -2
  BY <1>1, <1>4 DEF Covered
<1> QED
  BY <1>2, <1>3, <1>4 DEF Covered

LEMMA CoveredStep ==
    TypeOK /\ Commanded /\ Covered /\ [Next]_vars => Covered'
<1> SUFFICES ASSUME TypeOK, Commanded, Covered, [Next]_vars PROVE Covered'
  OBVIOUS
<1> USE DEF coveredVars
<1>1. CASE AtRest \/ UNCHANGED vars
  <2>1. UNCHANGED coveredVars
    BY <1>1 DEF AtRest, vars, mainVars, sharedVars
  <2> QED
    BY <2>1, CoveredKept
<1>2. ASSUME NEW c \in Receivers, ReaderStep(c) \/ DeviceLost(c)
      PROVE  Covered'
  <2>1. UNCHANGED coveredVars
    BY <1>2 DEF ReaderStep, DeviceLost, ReaderSetup, BarrierOpens, CallbackBegins,
                CallbackEnds, CancelReturns, ReadReturns, mainVars, sharedVars
  <2> QED
    BY <2>1, CoveredKept
<1>3. CASE CondWait \/ WakeUp \/ CheckReady \/ WriteHeader \/ WriteBlock \/ SkipData
           \/ LeaveLoop \/ CancelRead \/ JoinReader \/ JoinCommandThread
  <2>1. UNCHANGED coveredVars
    BY <1>3 DEF CondWait, WakeUp, CheckReady, WriteHeader, WriteBlock, SkipData,
                LeaveLoop, CancelRead, JoinReader, JoinCommandThread, mainVars, sharedVars
  <2> QED
    BY <2>1, CoveredKept
<1>4. CASE ReceiveCommand \/ SignalAndUnlock
  <2>1. UNCHANGED coveredVars
    BY <1>4 DEF ReceiveCommand, SignalAndUnlock, mainVars, sharedVars
  <2> QED
    BY <2>1, CoveredKept
<1> QED
  BY <1>1, <1>2, <1>3, <1>4, CoveredAfter, CoveredNote DEF Next, MainStep, Commanded

\* The dummy frames cover what was sampled before a change: with receivers at most
\* NO_DUMMY_FRAMES - 3 blocks ahead when a device is set, every block of a data frame
\* was begun after that.  The 3 are the dummy frame that makes the change, the second
\* one of a pulse, and the block that was being copied.
THEOREM DataSampledAfterChanges ==
    ASSUME PulseFits
    PROVE  Spec => []SamplesFollowChange
<1>1. Init => Commanded /\ Covered
  BY InitCommanded, InitCovered
<1>2. IInv /\ Commanded /\ Covered /\ [Next]_vars => Commanded' /\ Covered'
  BY CommandedStep, CoveredStep DEF IInv
<1>3. IInv /\ Covered => SamplesFollowChange
  <2> SUFFICES ASSUME IInv, Covered, DataComplete, NEW c \in Receivers,
                      retuned.block[c] - retuned.read <= NoDummyFrames - 3
               PROVE  frame.ind > retuned.block[c]
    BY DEF SamplesFollowChange
  <2>1. frame.ind = read_buff_ind /\ ~en_dummy_frame
    BY DEF DataComplete, IInv, FrameSoFar
  <2>2. /\ read_buff_ind \in Nat /\ retuned.read \in Nat
        /\ retuned.block[c] \in Int /\ NoDummyFrames \in Nat
    BY RtlDaqAssumption DEF IInv, TypeOK, MainTypeOK, RetunedType
  <2> QED
    BY <2>1, <2>2 DEF Covered
<1> QED
  BY <1>1, <1>2, <1>3, InvariantHolds, PTL DEF Spec

-----------------------------------------------------------------------------
(* The overdrive flags *)

LEMMA InitFlags == Init => FlagsSoFar
<1> SUFFICES ASSUME Init PROVE FlagsSoFar
  OBVIOUS
<1>1. frame.flagsOf = -1 /\ mainPc = "start"
  BY DEF Init, NoFrame
<1> QED
  BY <1>1 DEF FlagsSoFar, DataComplete

flagVars == <<frame, rd_buff_ind>>

\* The readers get further ahead; nothing else of the frame changes.
LEMMA FlagsKept ==
    ASSUME TypeOK, FlagsSoFar, UNCHANGED flagVars,
           \A c \in Receivers : buff_ind'[c] \in Nat /\ buff_ind'[c] >= buff_ind[c],
           \/ mainPc' = mainPc
           \/ mainPc \notin {"data", "control"} /\ mainPc' \notin {"data", "control"}
    PROVE  FlagsSoFar'
<1>1. /\ frame \in FrameType /\ NumBuff \in Nat
      /\ \A c \in Receivers : buff_ind[c] \in Nat
  BY RtlDaqAssumption DEF TypeOK, MainTypeOK, ReaderTypeOK
<1>2. frame.flagsOf \in Int
  BY <1>1 DEF FrameType
<1>3. frame.flagsOf # -1 => \A c \in Receivers : buff_ind'[c] > frame.flagsOf
  BY <1>1, <1>2 DEF FlagsSoFar
<1>4. ASSUME mainPc' \in {"data", "control"}, frame.flagsOf # -1, NEW c \in Receivers
      PROVE  \/ c \in frame.flags <=> <<c, frame.flagsOf>> \in Overdriven
             \/ buff_ind'[c] - frame.flagsOf >= NumBuff
  <2>1. \/ c \in frame.flags <=> <<c, frame.flagsOf>> \in Overdriven
        \/ buff_ind[c] - frame.flagsOf >= NumBuff
    BY <1>4 DEF FlagsSoFar
  <2>2. buff_ind[c] - frame.flagsOf >= NumBuff => buff_ind'[c] - frame.flagsOf >= NumBuff
    BY <1>1, <1>2
  <2> QED
    BY <2>1, <2>2
<1>5. (mainPc' \notin {"data", "control"} \/ frame.dummy) /\ frame.flagsOf # -1 =>
         rd_buff_ind = frame.flagsOf % NumBuff
  BY DEF FlagsSoFar
<1>6. mainPc' = "control" /\ ~frame.dummy => rd_buff_ind = frame.ind % NumBuff
  BY DEF FlagsSoFar, DataComplete
<1> QED
  BY <1>3, <1>4, <1>5, <1>6 DEF FlagsSoFar, DataComplete, flagVars
\* The slot looked at is that of the last data frame, or was overwritten.
LEMMA FlagsHeader ==
    ASSUME TypeOK, Ring, FlagsSoFar, WriteHeader
    PROVE  FlagsSoFar'
<1>1. PICK flags \in OverdriveFlags :
         frame' = [frame EXCEPT !.ind = read_buff_ind, !.dummy = en_dummy_frame,
                                !.noise = noise_source_state,
                                !.freq = tuner[ChNo - 1].freq, !.flags = flags]
  BY DEF WriteHeader
<1>2. /\ frame \in FrameType /\ NumBuff \in Nat
      /\ \A c \in Receivers : buff_ind[c] \in Nat
  BY RtlDaqAssumption DEF TypeOK, MainTypeOK, ReaderTypeOK
<1>3. frame'.flagsOf = frame.flagsOf /\ frame'.flags = flags
  BY <1>1, <1>2 DEF FrameType
<1>4. /\ mainPc = "header" /\ mainPc' = "data"
      /\ UNCHANGED <<rd_buff_ind, buff_ind>>
  BY DEF WriteHeader, readerVars
<1>5. ASSUME frame.flagsOf # -1, NEW c \in Receivers
      PROVE  \/ c \in flags <=> <<c, frame.flagsOf>> \in Overdriven
             \/ buff_ind[c] - frame.flagsOf >= NumBuff
  <2>1. /\ frame.flagsOf \in Nat /\ buff_ind[c] > frame.flagsOf
        /\ rd_buff_ind = frame.flagsOf % NumBuff
    BY <1>2, <1>4, <1>5 DEF FlagsSoFar, FrameType
  <2>2. CASE buff_ind[c] - frame.flagsOf < NumBuff
    <3>1. frame.flagsOf \in 0 .. buff_ind[c] - 1
      BY <1>2, <2>1
    <3>2. buffer[c][rd_buff_ind] = frame.flagsOf
      BY <2>1, <2>2, <3>1 DEF Ring
    <3>3. buffer[c][rd_buff_ind] # Torn
      BY <1>5, <3>2 DEF Torn
    <3> QED
      BY <3>2, <3>3 DEF OverdriveFlags
  <2> QED
    BY <1>2, <2>1, <2>2
<1>6. frame.flagsOf # -1 => \A c \in Receivers : buff_ind[c] > frame.flagsOf
  BY DEF FlagsSoFar
<1>7. frame.flagsOf # -1 => rd_buff_ind = frame.flagsOf % NumBuff
  BY <1>4 DEF FlagsSoFar
<1> QED
  BY <1>3, <1>4, <1>5, <1>6, <1>7 DEF FlagsSoFar, DataComplete

LEMMA FlagsBlock ==
    ASSUME TypeOK, FrameSoFar, FlagsSoFar, WriteBlock
    PROVE  FlagsSoFar'
<1>1. /\ mainPc = "data" /\ mainPc' \in {"data", "control"} /\ ~frame.dummy
      /\ frame.ind = read_buff_ind
      /\ rd_buff_ind' = read_buff_ind % NumBuff /\ buff_ind' = buff_ind
  BY DEF WriteBlock, FrameSoFar, readerVars
<1>2. /\ frame'.flagsOf = frame.flagsOf /\ frame'.flags = frame.flags
      /\ frame'.dummy = frame.dummy /\ frame'.ind = frame.ind
  BY DEF WriteBlock, TypeOK, MainTypeOK, FrameType
<1> QED
  BY <1>1, <1>2 DEF FlagsSoFar, DataComplete

LEMMA FlagsSkip ==
    ASSUME TypeOK, FrameSoFar, FlagsSoFar, SkipData
    PROVE  FlagsSoFar'
<1>1. /\ mainPc = "data" /\ mainPc' = "control" /\ frame.dummy
      /\ UNCHANGED <<frame, rd_buff_ind, buff_ind>>
  BY DEF SkipData, FrameSoFar, readerVars
<1> QED
  BY <1>1 DEF FlagsSoFar, DataComplete

\* A data frame becomes the one the next header is about.
LEMMA FlagsAfter ==
    ASSUME TypeOK, FrameSoFar, FlagsSoFar, TunerControl
    PROVE  FlagsSoFar'
<1>1. /\ mainPc = "control" /\ mainPc' = "wait"
      /\ UNCHANGED <<rd_buff_ind, buff_ind>>
      /\ frame' = [NoFrame EXCEPT !.flagsOf = IF frame.dummy THEN frame.flagsOf ELSE frame.ind]
  BY DEF TunerControl, readerVars
<1>2. frame'.flagsOf = IF frame.dummy THEN frame.flagsOf ELSE frame.ind
  BY <1>1 DEF NoFrame
<1>3. /\ frame.ind = read_buff_ind
      /\ \A c \in Receivers : buff_ind[c] > read_buff_ind
  BY <1>1 DEF FrameSoFar
<1>4. CASE frame.dummy
  BY <1>1, <1>2, <1>4 DEF FlagsSoFar, DataComplete
<1>5. CASE ~frame.dummy
  BY <1>1, <1>2, <1>3, <1>5 DEF FlagsSoFar, DataComplete
<1> QED
  BY <1>4, <1>5

LEMMA FlagsStep ==
    TypeOK /\ Exclusion /\ Ring /\ FrameSoFar /\ FlagsSoFar /\ [Next]_vars => FlagsSoFar'
<1> SUFFICES ASSUME TypeOK, Exclusion, Ring, FrameSoFar, FlagsSoFar, [Next]_vars
             PROVE  FlagsSoFar'
  OBVIOUS
<1> USE DEF flagVars
<1>1. \A c \in Receivers : buff_ind[c] \in Nat
  BY DEF TypeOK, ReaderTypeOK
<1>2. CASE AtRest \/ UNCHANGED vars
  <2>1. UNCHANGED <<flagVars, buff_ind, mainPc>>
    BY <1>2 DEF AtRest, vars, readerVars, mainVars
  <2> QED
    BY <1>1, <2>1, FlagsKept
<1>3. ASSUME NEW d \in Receivers, ReaderStep(d) \/ DeviceLost(d)
      PROVE  FlagsSoFar'
  <2>1. /\ UNCHANGED flagVars
        /\ mainPc' = mainPc \/ (mainPc = "waiting" /\ mainPc' = "woken")
    BY <1>3 DEF ReaderStep, DeviceLost, ReaderSetup, BarrierOpens, CallbackBegins,
                CallbackEnds, CancelReturns, ReadReturns, Signal, mainVars
  <2>2. buff_ind' = buff_ind \/ buff_ind' = [buff_ind EXCEPT ![d] = @ + 1]
    BY <1>3 DEF ReaderStep, DeviceLost, ReaderSetup, BarrierOpens, CallbackBegins,
                CallbackEnds, CancelReturns, ReadReturns
  <2>3. \A c \in Receivers : buff_ind'[c] \in Nat /\ buff_ind'[c] >= buff_ind[c]
    BY <2>2 DEF TypeOK, ReaderTypeOK
  <2> QED
    BY <2>1, <2>3, FlagsKept
<1>4. CASE CondWait \/ WakeUp \/ CheckReady \/ LeaveLoop \/ CancelRead \/ JoinReader
           \/ JoinCommandThread
  <2>1. /\ UNCHANGED <<flagVars, buff_ind>>
        /\ mainPc \notin {"data", "control"} /\ mainPc' \notin {"data", "control"}
    BY <1>4 DEF CondWait, WakeUp, CheckReady, LeaveLoop, CancelRead, JoinReader,
                JoinCommandThread, readerVars, mainVars
  <2> QED
    BY <1>1, <2>1, FlagsKept
<1>5. CASE ReceiveCommand \/ LockAndNote \/ SignalAndUnlock
  <2>1. /\ UNCHANGED <<flagVars, buff_ind>>
        /\ mainPc' = mainPc \/ (mainPc = "waiting" /\ mainPc' = "woken")
    BY <1>5 DEF ReceiveCommand, LockAndNote, SignalAndUnlock, Signal, readerVars, mainVars
  <2> QED
    BY <1>1, <2>1, FlagsKept
<1> QED
  BY <1>2, <1>3, <1>4, <1>5, FlagsHeader, FlagsBlock, FlagsSkip, FlagsAfter
     DEF Next, MainStep

\* Although the slot index is brought up to date only after the overdrive test, the
\* flags are those of a definite frame: the data frame before, for every number of
\* dummy frames between the two.
THEOREM FlagsAreOfLastData == Spec => []OverdriveOfLastData
<1>1. IInv /\ FlagsSoFar /\ [Next]_vars => FlagsSoFar'
  BY FlagsStep DEF IInv
<1>2. FlagsSoFar => OverdriveOfLastData
  BY DEF FlagsSoFar, OverdriveOfLastData
<1> QED
  BY <1>1, <1>2, InitFlags, InvariantHolds, PTL DEF Spec
=============================================================================
