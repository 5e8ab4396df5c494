------------------------------- MODULE RtlDaq -------------------------------
(***************************************************************************)
(* The receiver block rtl_daq.c: one asynchronous reader thread per        *)
(* RTL-SDR writes blocks of samples into a ring of NUM_BUFF slots, the     *)
(* main thread sends one frame (header, then one slot of every receiver)   *)
(* per wake-up and then carries out the tuner changes that the command     *)
(* thread has noted.                                                       *)
(*                                                                         *)
(* The readers never take the mutex and never wait for the main thread:    *)
(* they may lap it, and a signal they give while it works is lost.         *)
(***************************************************************************)
EXTENDS Integers, Sequences, FiniteSets

CONSTANTS
    ChNo,           \* ch_no, number of receivers
    NumBuff,        \* NUM_BUFF
    NoDummyFrames,  \* NO_DUMMY_FRAMES
    Scripts,        \* the sequences of commands the clients may send
    FsCorrections,  \* the corrections a client may ask for, one per receiver
    NoiseControl,   \* config.en_noise_source_ctr
    Overdriven,     \* <<receiver, block>> pairs that contain a sample of 255
    Faulty,         \* receivers whose rtlsdr_set_ calls may fail and which may be lost
    LossAt,         \* bound: blocks after which a faulty receiver may be lost
    MaxBlocks,      \* bound: blocks sampled by each receiver
    MaxLag,         \* bound: blocks a receiver is ahead of a main thread at work
    MaxSkew         \* bound: blocks a receiver is ahead of another

\* centre frequency, gains, AGC, sampling frequency correction, noise, halt
Commands == {"c", "g", "a", "s", "n", "h"}

\* ppm: 0, below FS_CORRECTION_KEEP_LIMIT, above it
Corrections == {"none", "small", "huge"}

ASSUME RtlDaqAssumption ==
    /\ ChNo \in Nat \ {0}
    /\ NumBuff \in Nat \ {0, 1}
    /\ NoDummyFrames \in Nat \ {0}
    /\ Scripts \subseteq Seq(Commands)
    /\ FsCorrections \subseteq [0 .. ChNo - 1 -> Corrections]
    /\ NoiseControl \in BOOLEAN
    /\ Faulty \subseteq 0 .. ChNo - 1
    /\ LossAt \subseteq Nat
    /\ MaxBlocks \in Nat /\ MaxLag \in Nat /\ MaxSkew \in Nat

Receivers == 0 .. ChNo - 1
Slots == 0 .. NumBuff - 1
Torn == -1              \* never written, or a callback is copying into it

VARIABLES
    \* reader threads
    reader,             \* "setup", "barrier", "async", "cancelled" or "done"
    copying,            \* rtlsdrCallback is in its memcpy
    buff_ind,           \* blocks completed
    buffer,             \* the ring: number of the block each slot holds
    \* main thread
    mainPc,             \* "start", "wait", "waiting", "woken", "check", "header",
                        \* "data", "control", "stop", "join", "joinCmd" or "exit"
    ch,                 \* loop index of the receiver being looked at
    read_buff_ind,
    rd_buff_ind,
    frame,              \* the frame being written to stdout
    last_noise_source_state,
    tuner,              \* what the devices are set to
    gpio,               \* the noise source is switched on
    \* command thread
    cmdPc,              \* "recv", "lock", "unlock" or "done"
    command,            \* the message received; 
    script,             \* the commands still to come
    \* shared, guarded by buff_ind_mutex
    mutex,              \* "free", "main" or "cmd"
    change,             \* the change flags and new_ values
    noise_source_state,
    en_dummy_frame, dummy_frame_cntr,
    exit_flag,
    \* history
    retuned             \* what was read and sampled when a device was last set

readerVars == <<reader, copying, buff_ind, buffer>>
mainVars == <<ch, read_buff_ind, rd_buff_ind, frame, last_noise_source_state,
              tuner, gpio, retuned>>
sharedVars == <<change, noise_source_state, en_dummy_frame, dummy_frame_cntr, exit_flag>>
vars == <<readerVars, mainPc, mainVars, cmdPc, command, script, mutex, sharedVars>>

NoFrame == [ind |-> -1, dummy |-> FALSE, noise |-> FALSE, freq |-> 0,
            flags |-> {}, flagsOf |-> -1, blocks |-> <<>>]

Init ==
    /\ reader = [c \in Receivers |-> "setup"]
    /\ copying = [c \in Receivers |-> FALSE]
    /\ buff_ind = [c \in Receivers |-> 0]
    /\ buffer = [c \in Receivers |-> [s \in Slots |-> Torn]]
    /\ mainPc = "start"
    /\ ch = 0
    /\ read_buff_ind = 0
    /\ rd_buff_ind = 1
    /\ frame = NoFrame
    /\ last_noise_source_state = FALSE
    /\ tuner = [c \in Receivers |-> [freq |-> 0, gain |-> 0, agc |-> FALSE, corr |-> "none"]]
    /\ gpio = FALSE
    /\ cmdPc = "recv" /\ command = "" /\ script \in Scripts
    /\ mutex = "free"
    /\ change = [freq |-> FALSE, gain |-> FALSE, agc |-> FALSE, fs |-> FALSE,
                 new_center_freq |-> 0, new_gains |-> 0, fs_reset_cntr |-> 0,
                 new_fs_corrections |-> [c \in Receivers |-> "none"]]
    /\ noise_source_state = FALSE
    /\ en_dummy_frame = FALSE
    /\ dummy_frame_cntr = 0
    /\ exit_flag = FALSE
    /\ retuned = [read |-> 0, block |-> [c \in Receivers |-> -1]]

-----------------------------------------------------------------------------
(* Reader threads *)

\* The process has not returned from main.
Running == mainPc # "exit"

\* The device is set up and the thread arrives at rtl_init_barrier.
ReaderSetup(c) ==
    /\ Running
    /\ reader[c] = "setup"
    /\ reader' = [reader EXCEPT ![c] = "barrier"]
    /\ UNCHANGED <<copying, buff_ind, buffer, mainPc, mainVars, cmdPc, command,
                   script, mutex, sharedVars>>

\* The barrier opens for ch_no threads and all start their asynchronous read.
BarrierOpens ==
    /\ Running
    /\ \A c \in Receivers : reader[c] = "barrier"
    /\ reader' = [c \in Receivers |-> "async"]
    /\ UNCHANGED <<copying, buff_ind, buffer, mainPc, mainVars, cmdPc, command,
                   script, mutex, sharedVars>>

WriteSlot(c) == buff_ind[c] % NumBuff

\* rtlsdrCallback starts to overwrite the next slot of the ring.
CallbackBegins(c) ==
    /\ Running
    /\ reader[c] = "async" /\ ~copying[c]
    /\ buff_ind[c] < MaxBlocks
    /\ mainPc = "waiting" \/ buff_ind[c] - read_buff_ind < MaxLag
    /\ \A d \in Receivers : reader[d] = "async" => buff_ind[c] - buff_ind[d] < MaxSkew
    /\ copying' = [copying EXCEPT ![c] = TRUE]
    /\ buffer' = [buffer EXCEPT ![c][WriteSlot(c)] = Torn]
    /\ UNCHANGED <<reader, buff_ind, mainPc, mainVars, cmdPc, command, script,
                   mutex, sharedVars>>

\* pthread_cond_signal: lost unless the main thread waits.
Signal == mainPc' = IF mainPc = "waiting" THEN "woken" ELSE mainPc

CallbackEnds(c) ==
    /\ Running
    /\ copying[c]
    /\ copying' = [copying EXCEPT ![c] = FALSE]
    /\ buffer' = [buffer EXCEPT ![c][WriteSlot(c)] = buff_ind[c]]
    /\ buff_ind' = [buff_ind EXCEPT ![c] = @ + 1]
    /\ Signal
    /\ UNCHANGED <<reader, mainVars, cmdPc, command, script, mutex, sharedVars>>

\* rtlsdr_read_async returns.
ReadReturns(c, state) ==
    /\ Running
    /\ reader[c] = state /\ ~copying[c]
    /\ reader' = [reader EXCEPT ![c] = IF exit_flag THEN "done" ELSE "setup"]
    /\ UNCHANGED <<copying, buff_ind, buffer, mainPc, mainVars, cmdPc, command,
                   script, mutex, sharedVars>>

\* It was cancelled, and the thread ends; or the device was lost, and the
\* thread is back at the setup and will wait at the barrier for the others.
CancelReturns(c) == ReadReturns(c, "cancelled")
DeviceLost(c) ==
    /\ c \in Faulty /\ buff_ind[c] \in LossAt
    /\ ReadReturns(c, "async")

-----------------------------------------------------------------------------
(* Main thread *)

\* The loop head: pthread_cond_wait gives the mutex up (the first call, which
\* does not hold it, unlocks it as well).
CondWait ==
    /\ mainPc \in {"start", "wait"}
    /\ ~exit_flag
    /\ mainPc' = "waiting"
    /\ mutex' = "free"
    /\ UNCHANGED <<readerVars, mainVars, cmdPc, command, script, sharedVars>>

\* pthread_cond_wait returns with the mutex.
WakeUp ==
    /\ mainPc = "woken" /\ mutex = "free"
    /\ mutex' = "main"
    /\ mainPc' = "check"
    /\ ch' = 0
    /\ UNCHANGED <<readerVars, read_buff_ind, rd_buff_ind, frame, retuned, tuner, gpio,
                   last_noise_source_state, cmdPc, command, script, sharedVars>>

\* Mutant: the receiver must be exactly one block ahead.
BlockReadyExact(c) == buff_ind[c] = read_buff_ind + 1

\* The receiver has completed the block, and is not a whole number of rings ahead.
BlockReady(c) ==
    /\ buff_ind[c] > read_buff_ind
    /\ buff_ind[c] % NumBuff # read_buff_ind % NumBuff

\* The receivers are looked at one after the other; the first that is not
\* ready ends the turn.
CheckReady ==
    /\ mainPc = "check"
    /\ IF BlockReady(ch)
       THEN IF ch = ChNo - 1
            THEN mainPc' = "header" /\ ch' = 0
            ELSE mainPc' = "check" /\ ch' = ch + 1
       ELSE mainPc' = "wait" /\ ch' = 0
    /\ UNCHANGED <<readerVars, read_buff_ind, rd_buff_ind, frame, retuned, tuner, gpio,
                   last_noise_source_state, cmdPc, command, script, mutex, sharedVars>>

\* The overdrive test of a slot; a slot being overwritten may yield anything.
OverdriveFlags ==
    LET torn == {c \in Receivers : buffer[c][rd_buff_ind] = Torn}
        seen == {c \in Receivers : <<c, buffer[c][rd_buff_ind]>> \in Overdriven}
    IN  {seen \cup t : t \in SUBSET torn}

\* The header is completed and written.
WriteHeader ==
    /\ mainPc = "header"
    /\ \E flags \in OverdriveFlags :
          frame' = [frame EXCEPT !.ind = read_buff_ind,
                                 !.dummy = en_dummy_frame,
                                 !.noise = noise_source_state,
                                 !.freq = tuner[ChNo - 1].freq,
                                 !.flags = flags]
    /\ mainPc' = "data"
    /\ UNCHANGED <<readerVars, ch, read_buff_ind, rd_buff_ind, retuned, tuner, gpio,
                   last_noise_source_state, cmdPc, command, script, mutex, sharedVars>>

\* Mutant: the slot index is brought up to date after it was used.
WriteBlockOfOldSlot ==
    /\ mainPc = "data" /\ ~en_dummy_frame
    /\ rd_buff_ind' = read_buff_ind % NumBuff
    /\ frame' = [frame EXCEPT !.blocks = Append(@, buffer[ch][rd_buff_ind])]
    /\ IF ch = ChNo - 1
       THEN mainPc' = "control" /\ ch' = 0
       ELSE mainPc' = "data" /\ ch' = ch + 1
    /\ UNCHANGED <<readerVars, read_buff_ind, retuned, tuner, gpio,
                   last_noise_source_state, cmdPc, command, script, mutex, sharedVars>>

\* Mutant: rd_buff_ind is left alone.
WriteBlockKeepsIndex ==
    /\ mainPc = "data" /\ ~en_dummy_frame
    /\ UNCHANGED rd_buff_ind
    /\ frame' = [frame EXCEPT !.blocks = Append(@, buffer[ch][read_buff_ind % NumBuff])]
    /\ IF ch = ChNo - 1
       THEN mainPc' = "control" /\ ch' = 0
       ELSE mainPc' = "data" /\ ch' = ch + 1
    /\ UNCHANGED <<readerVars, read_buff_ind, retuned, tuner, gpio,
                   last_noise_source_state, cmdPc, command, script, mutex, sharedVars>>

\* The slot of one receiver follows, unless dummy frames are enabled.
WriteBlock ==
    /\ mainPc = "data" /\ ~en_dummy_frame
    /\ rd_buff_ind' = read_buff_ind % NumBuff
    /\ frame' = [frame EXCEPT !.blocks = Append(@, buffer[ch][rd_buff_ind'])]
    /\ IF ch = ChNo - 1
       THEN mainPc' = "control" /\ ch' = 0
       ELSE mainPc' = "data" /\ ch' = ch + 1
    /\ UNCHANGED <<readerVars, read_buff_ind, retuned, tuner, gpio,
                   last_noise_source_state, cmdPc, command, script, mutex, sharedVars>>

SkipData ==
    /\ mainPc = "data" /\ en_dummy_frame
    /\ mainPc' = "control" /\ ch' = 0
    /\ UNCHANGED <<readerVars, read_buff_ind, rd_buff_ind, frame, retuned, tuner, gpio,
                   last_noise_source_state, cmdPc, command, script, mutex, sharedVars>>

\* Dummy frames are counted until NO_DUMMY_FRAMES of them were sent.
CountDummy ==
    IF en_dummy_frame
    THEN /\ dummy_frame_cntr' = dummy_frame_cntr + 1
         /\ en_dummy_frame' = (dummy_frame_cntr + 1 # NoDummyFrames)
    ELSE UNCHANGED <<dummy_frame_cntr, en_dummy_frame>>

\* The setting of a correction pulse: set at the first frame, reset at the
\* second unless the correction is a huge one.
FsCorrection(c, old) ==
    CASE ~change.fs -> old
      [] change.fs /\ change.fs_reset_cntr = 0 -> change.new_fs_corrections[c]
      [] change.fs /\ change.fs_reset_cntr = 1 ->
            IF change.new_fs_corrections[c] = "huge" THEN old ELSE "none"
      [] OTHER -> old

\* One receiver after the changes of a frame, when its device calls succeed:
\* centre frequency, gains, AGC and sampling frequency correction in this order.
Retune(c, old) ==
    [freq |-> IF change.freq THEN change.new_center_freq ELSE old.freq,
     gain |-> IF change.gain THEN change.new_gains ELSE old.gain,
     agc  |-> change.agc \/ (old.agc /\ ~change.gain),
     corr |-> FsCorrection(c, old.corr)]

FsDone == change.fs /\ change.fs_reset_cntr = 1

Switching == last_noise_source_state # noise_source_state /\ NoiseControl

\* The block a receiver is sampling while its predecessors wait or are copied.
Sampling(c) == IF copying[c] THEN buff_ind[c] + 1 ELSE buff_ind[c]

\* The frame is flushed and counted, then the pending changes reach the
\* devices; the flags are cleared even when a call fails.
TunerControl ==
    /\ mainPc = "control"
    /\ read_buff_ind' = read_buff_ind + 1
    /\ CountDummy
    /\ \E bad \in SUBSET Faulty :
          tuner' = [c \in Receivers |-> IF c \in bad THEN tuner[c] ELSE Retune(c, tuner[c])]
    /\ change' = [change EXCEPT !.freq = FALSE, !.gain = FALSE, !.agc = FALSE,
                                !.fs = @ /\ ~FsDone,
                                !.fs_reset_cntr = IF change.fs THEN @ + 1 ELSE @]
    /\ gpio' = IF Switching THEN noise_source_state ELSE gpio
    /\ last_noise_source_state' = noise_source_state
    /\ retuned' = IF change.freq \/ change.gain \/ change.agc \/ change.fs \/ Switching
                  THEN [read |-> read_buff_ind', block |-> [c \in Receivers |-> Sampling(c)]]
                  ELSE retuned
    /\ frame' = [NoFrame EXCEPT !.flagsOf = IF frame.dummy THEN frame.flagsOf ELSE frame.ind]
    /\ mainPc' = "wait"
    /\ UNCHANGED <<readerVars, ch, rd_buff_ind, cmdPc, command, script,
                   mutex, noise_source_state, exit_flag>>

\* exit_flag ends the loop.
LeaveLoop ==
    /\ mainPc \in {"start", "wait"} /\ exit_flag
    /\ mainPc' = "stop" /\ ch' = 0
    /\ UNCHANGED <<readerVars, read_buff_ind, rd_buff_ind, frame, retuned, tuner, gpio,
                   last_noise_source_state, cmdPc, command, script, mutex, sharedVars>>

\* Mutant: a failed rtlsdr_cancel_async does not stop the join.
CancelReadIgnoresFailure ==
    /\ mainPc = "stop"
    /\ IF reader[ch] = "async"
       THEN mainPc' = "join" /\ reader' = [reader EXCEPT ![ch] = "cancelled"]
       ELSE mainPc' = "join" /\ UNCHANGED reader
    /\ UNCHANGED <<copying, buff_ind, buffer, mainVars, cmdPc, command, script,
                   mutex, sharedVars>>

\* rtlsdr_cancel_async fails when the device does not read: main returns -1.
CancelRead ==
    /\ mainPc = "stop"
    /\ IF reader[ch] = "async"
       THEN mainPc' = "join" /\ reader' = [reader EXCEPT ![ch] = "cancelled"]
       ELSE mainPc' = "exit" /\ UNCHANGED reader
    /\ UNCHANGED <<copying, buff_ind, buffer, mainVars, cmdPc, command, script,
                   mutex, sharedVars>>

\* pthread_join of the reader; after the last one the mutex is given up.
JoinReader ==
    /\ mainPc = "join" /\ reader[ch] = "done"
    /\ IF ch = ChNo - 1
       THEN mainPc' = "joinCmd" /\ mutex' = "free" /\ ch' = ch
       ELSE mainPc' = "stop" /\ ch' = ch + 1 /\ UNCHANGED mutex
    /\ UNCHANGED <<readerVars, read_buff_ind, rd_buff_ind, frame, retuned, tuner, gpio,
                   last_noise_source_state, cmdPc, command, script, sharedVars>>

JoinCommandThread ==
    /\ mainPc = "joinCmd" /\ cmdPc = "done"
    /\ mainPc' = "exit"
    /\ UNCHANGED <<readerVars, mainVars, cmdPc, command, script, mutex, sharedVars>>

-----------------------------------------------------------------------------
(* Command thread *)

\* zmq_recv returns a command.  The clients (delay_sync.py, hw_controller.py)
\* send one only when a frame has reached them.
ReceiveCommand ==
    /\ cmdPc = "recv" /\ ~exit_flag
    /\ script # <<>> /\ read_buff_ind > 0
    /\ command' = Head(script)
    /\ script' = Tail(script)
    /\ cmdPc' = "lock"
    /\ UNCHANGED <<readerVars, mainPc, mainVars, mutex, sharedVars>>

\* Mutant: a new correction does not restart the pulse.
NoteCommandKeepsPulse ==
    /\ \/ /\ command = "c"
          /\ change' = [change EXCEPT !.freq = TRUE, !.new_center_freq = Len(script) + 1]
       \/ /\ command = "g"
          /\ change' = [change EXCEPT !.gain = TRUE, !.new_gains = Len(script) + 1]
       \/ /\ command = "a"
          /\ change' = [change EXCEPT !.agc = TRUE]
       \/ /\ command = "s"
          /\ \E corr \in FsCorrections :
                change' = [change EXCEPT !.fs = TRUE,
                                         !.new_fs_corrections = corr]
       \/ command \in {"n", "h"} /\ UNCHANGED change
    /\ IF command = "n" THEN noise_source_state' \in BOOLEAN ELSE UNCHANGED noise_source_state
    /\ exit_flag' = (exit_flag \/ command = "h")

\* What the command notes down; the number of commands still to come
\* stands for the value it carries, 0 for the value set at the start.
NoteCommand ==
    /\ \/ /\ command = "c"
          /\ change' = [change EXCEPT !.freq = TRUE, !.new_center_freq = Len(script) + 1]
       \/ /\ command = "g"
          /\ change' = [change EXCEPT !.gain = TRUE, !.new_gains = Len(script) + 1]
       \/ /\ command = "a"
          /\ change' = [change EXCEPT !.agc = TRUE]
       \/ /\ command = "s"
          /\ \E corr \in FsCorrections :
                change' = [change EXCEPT !.fs = TRUE, !.fs_reset_cntr = 0,
                                         !.new_fs_corrections = corr]
       \/ command \in {"n", "h"} /\ UNCHANGED change
    /\ IF command = "n" THEN noise_source_state' \in BOOLEAN ELSE UNCHANGED noise_source_state
    /\ exit_flag' = (exit_flag \/ command = "h")

\* Mutant: the mutex is not taken.
LockAndNoteUnlocked ==
    /\ cmdPc = "lock"
    /\ NoteCommand
    /\ en_dummy_frame' = TRUE
    /\ dummy_frame_cntr' = 0
    /\ cmdPc' = "unlock"
    /\ UNCHANGED <<readerVars, mainPc, mainVars, command, script, mutex>>

\* Mutant: dummy frames sent before the command count.
LockAndNoteKeepsCount ==
    /\ cmdPc = "lock" /\ mutex = "free"
    /\ mutex' = "cmd"
    /\ NoteCommand
    /\ en_dummy_frame' = TRUE
    /\ cmdPc' = "unlock"
    /\ UNCHANGED <<readerVars, mainPc, mainVars, command, script,
                   dummy_frame_cntr>>

\* The mutex is acquired and the command noted; dummy frames are enabled.
LockAndNote ==
    /\ cmdPc = "lock" /\ mutex = "free"
    /\ mutex' = "cmd"
    /\ NoteCommand
    /\ en_dummy_frame' = TRUE
    /\ dummy_frame_cntr' = 0
    /\ cmdPc' = "unlock"
    /\ UNCHANGED <<readerVars, mainPc, mainVars, command, script>>

\* The client is answered, the main thread signalled, the mutex released.
SignalAndUnlock ==
    /\ cmdPc = "unlock"
    /\ Signal
    /\ mutex' = "free"
    /\ cmdPc' = IF exit_flag THEN "done" ELSE "recv"
    /\ UNCHANGED <<readerVars, mainVars, command, script, sharedVars>>

-----------------------------------------------------------------------------
\* The process has ended, or the bound on the blocks is reached.
AtRest ==
    /\ \/ mainPc = "exit"
       \/ /\ mainPc = "waiting"
          /\ \A c \in Receivers : buff_ind[c] = MaxBlocks \/ reader[c] # "async"
    /\ UNCHANGED vars

MainStep ==
    \/ CondWait \/ WakeUp \/ CheckReady \/ WriteHeader \/ WriteBlock \/ SkipData
    \/ TunerControl \/ LeaveLoop \/ CancelRead \/ JoinReader \/ JoinCommandThread

ReaderStep(c) ==
    \/ ReaderSetup(c) \/ BarrierOpens
    \/ CallbackBegins(c) \/ CallbackEnds(c) \/ CancelReturns(c)

Next ==
    \/ MainStep \/ ReceiveCommand \/ LockAndNote \/ SignalAndUnlock
    \/ \E c \in Receivers : ReaderStep(c) \/ DeviceLost(c)
    \/ AtRest

Spec == Init /\ [][Next]_vars

\* The threads are scheduled and the devices deliver their samples; the
\* command thread gets the mutex, which is free whenever the main thread waits
\* for a block.  Devices are not lost, and commands do not come, of necessity.
FairSpec ==
    /\ Spec
    /\ WF_vars(MainStep) /\ SF_vars(LockAndNote) /\ WF_vars(SignalAndUnlock)
    /\ \A c \in Receivers : WF_vars(ReaderStep(c))

-----------------------------------------------------------------------------
(* Properties *)

FrameType ==
    [ind : Nat \cup {-1}, dummy : BOOLEAN, noise : BOOLEAN, freq : Nat,
     flags : SUBSET Receivers, flagsOf : Nat \cup {-1}, blocks : Seq(Nat \cup {Torn})]
TunerType == [freq : Nat, gain : Nat, agc : BOOLEAN, corr : Corrections]
ChangeType ==
    [freq : BOOLEAN, gain : BOOLEAN, agc : BOOLEAN, fs : BOOLEAN,
     new_center_freq : Nat, new_gains : Nat, fs_reset_cntr : Nat,
     new_fs_corrections : [Receivers -> Corrections]]
RetunedType == [read : Nat, block : [Receivers -> Nat \cup {-1}]]
RingType == [Slots -> Nat \cup {Torn}]

ReaderTypeOK ==
    /\ reader \in [Receivers -> {"setup", "barrier", "async", "cancelled", "done"}]
    /\ copying \in [Receivers -> BOOLEAN]
    /\ buff_ind \in [Receivers -> Nat]
    /\ buffer \in [Receivers -> RingType]

MainTypeOK ==
    /\ mainPc \in {"start", "wait", "waiting", "woken", "check", "header", "data",
                   "control", "stop", "join", "joinCmd", "exit"}
    /\ ch \in Receivers
    /\ read_buff_ind \in Nat
    /\ rd_buff_ind \in Slots
    /\ frame \in FrameType
    /\ last_noise_source_state \in BOOLEAN
    /\ tuner \in [Receivers -> TunerType]
    /\ gpio \in BOOLEAN
    /\ retuned \in RetunedType

SharedTypeOK ==
    /\ cmdPc \in {"recv", "lock", "unlock", "done"}
    /\ command \in Commands \cup {""}
    /\ script \in Seq(Commands)
    /\ mutex \in {"free", "main", "cmd"}
    /\ change \in ChangeType
    /\ noise_source_state \in BOOLEAN
    /\ en_dummy_frame \in BOOLEAN
    /\ dummy_frame_cntr \in 0 .. NoDummyFrames
    /\ en_dummy_frame => dummy_frame_cntr < NoDummyFrames
    /\ exit_flag \in BOOLEAN

\* Shape of the state.
TypeOK == ReaderTypeOK /\ MainTypeOK /\ SharedTypeOK

\* The frame written last is complete, and it is a data or calibration frame.
DataComplete == mainPc = "control" /\ ~frame.dummy

\* The blocks that follow a header are those it announces: all or none, even
\* when commands come while the frame is written (en_dummy_frame is read
\* before the header, before the data and after it).
FrameWhole ==
    mainPc = "control" => Len(frame.blocks) = IF frame.dummy THEN 0 ELSE ChNo

\* A data frame holds, of every receiver, exactly the block its header counts,
\* whole, unless that receiver is NUM_BUFF blocks ahead of it when the frame is
\* complete: the readers lap the main thread no earlier than that.
FrameIntact ==
    DataComplete => \A c \in Receivers :
        frame.blocks[c + 1] = frame.ind \/ buff_ind[c] - frame.ind >= NumBuff

\* No data frame leaves while an accepted command has not reached the devices
\* or a correction pulse is on, and the noise source and, of the devices that
\* answer, frequency, gain and sampling rate are then as commanded last.  An AGC
\* command is waited for; whether AGC is still on is not compared.
DataAsCommanded ==
    DataComplete =>
        /\ ~change.freq /\ ~change.gain /\ ~change.agc /\ ~change.fs
        /\ frame.noise = noise_source_state
        /\ NoiseControl => gpio = frame.noise
        /\ \A c \in Receivers \ Faulty :
              /\ tuner[c].freq = change.new_center_freq
              /\ tuner[c].gain = change.new_gains
              /\ tuner[c].corr = IF change.new_fs_corrections[c] = "huge" THEN "huge" ELSE "none"

\* The dummy frames cover the samples taken before a change: every block of a
\* data frame began after the last change, as long as the receivers were at most
\* NO_DUMMY_FRAMES - 3 blocks ahead when it was made.
SamplesFollowChange ==
    DataComplete /\ (\A c \in Receivers :
                        retuned.block[c] - retuned.read <= NoDummyFrames - 3)
    => \A c \in Receivers : frame.ind > retuned.block[c]

\* The overdrive flags come one data frame late: a header reports the blocks of
\* the data frame before it, unless they were overwritten meanwhile.
OverdriveOfLastData ==
    mainPc = "control" /\ frame.flagsOf # -1 =>
        \A c \in Receivers :
            \/ c \in frame.flags <=> <<c, frame.flagsOf>> \in Overdriven
            \/ buff_ind[c] - frame.flagsOf >= NumBuff

-----------------------------------------------------------------------------
(* The inductive invariant of the frames *)

Locked == {"wait", "check", "header", "data", "control", "stop", "join"}

\* The two threads exclude each other; no command comes before the first frame,
\* that is before the main thread has its mutex.
Exclusion ==
    /\ mainPc \in Locked => mutex = "main"
    /\ cmdPc = "unlock" => mutex = "cmd"
    /\ mainPc = "start" => cmdPc = "recv" /\ read_buff_ind = 0 /\ ~exit_flag

\* Each of the last NUM_BUFF - 1 blocks is in its slot: a callback overwrites
\* the one before them.
Ring ==
    \A c \in Receivers : \A k \in 0 .. buff_ind[c] - 1 :
        buff_ind[c] - k < NumBuff => buffer[c][k % NumBuff] = k

\* How far the frame is, and what it holds so far.
FrameSoFar ==
    /\ mainPc \notin {"data", "control"} => frame.blocks = <<>>
    /\ mainPc = "header" => ch = 0
    /\ mainPc = "check" => \A c \in 0 .. ch - 1 : buff_ind[c] > read_buff_ind
    /\ mainPc \in {"header", "data", "control"} =>
          \A c \in Receivers : buff_ind[c] > read_buff_ind
    /\ mainPc \in {"data", "control"} =>
          /\ frame.ind = read_buff_ind
          /\ frame.dummy = en_dummy_frame
          /\ Len(frame.blocks) = IF frame.dummy THEN 0
                                  ELSE IF mainPc = "data" THEN ch ELSE ChNo
          /\ \A i \in 1 .. Len(frame.blocks) :
                \/ frame.blocks[i] = frame.ind
                \/ buff_ind[i - 1] - frame.ind >= NumBuff

IInv == TypeOK /\ Exclusion /\ Ring /\ FrameSoFar

(* What is noted, set and announced: the invariants behind DataAsCommanded *)

\* While a frame is written its header says what the noise source is to be.
NoiseSaid == mainPc \in {"data", "control"} => frame.noise = noise_source_state

\* A change not yet carried out keeps the data frames away: it was noted in this
\* round of dummy frames.  A correction pulse takes two frames of the round,
\* more when another command starts the round anew.
ChangeAnnounced ==
    /\ change.freq \/ change.gain \/ change.agc => en_dummy_frame /\ dummy_frame_cntr = 0
    /\ last_noise_source_state # noise_source_state =>
          en_dummy_frame /\ dummy_frame_cntr = 0
    /\ change.fs => /\ en_dummy_frame
                    /\ change.fs_reset_cntr \in {0, 1}
                    /\ dummy_frame_cntr <= change.fs_reset_cntr

\* A device whose calls succeed is set as commanded when nothing is pending.
DevicesFollow ==
    /\ NoiseControl => gpio = last_noise_source_state
    /\ \A c \in Receivers \ Faulty :
          /\ ~change.freq => tuner[c].freq = change.new_center_freq
          /\ ~change.gain => tuner[c].gain = change.new_gains
          /\ change.fs /\ change.fs_reset_cntr = 1 =>
                tuner[c].corr = change.new_fs_corrections[c]
          /\ ~change.fs =>
                tuner[c].corr = IF change.new_fs_corrections[c] = "huge" THEN "huge" ELSE "none"

Commanded == NoiseSaid /\ ChangeAnnounced /\ DevicesFollow

\* The frames sent since a device was last set: at most two dummy frames of a round
\* come before the last setting of that round.
Covered ==
    \/ \A c \in Receivers : retuned.block[c] = -1
    \/ IF en_dummy_frame
       THEN read_buff_ind - retuned.read >= dummy_frame_cntr - 2
       ELSE read_buff_ind - retuned.read >= NoDummyFrames - 2

\* rd_buff_ind is the slot of the last data frame when the next header is
\* written, and the flags of that header are about that frame.
FlagsSoFar ==
    /\ frame.flagsOf # -1 => \A c \in Receivers : buff_ind[c] > frame.flagsOf
    /\ (mainPc \notin {"data", "control"} \/ frame.dummy) /\ frame.flagsOf # -1 =>
          rd_buff_ind = frame.flagsOf % NumBuff
    /\ DataComplete => rd_buff_ind = frame.ind % NumBuff
    /\ mainPc \in {"data", "control"} /\ frame.flagsOf # -1 => \A c \in Receivers :
          \/ c \in frame.flags <=> <<c, frame.flagsOf>> \in Overdriven
          \/ buff_ind[c] - frame.flagsOf >= NumBuff

-----------------------------------------------------------------------------
(* Liveness *)

Pending == change.freq \/ change.gain \/ change.agc \/ change.fs

\* Every change noted is carried out and every correction pulse ends, unless a
\* device is lost or the system halted; so far as the bounds leave blocks to come.
ChangesApplied ==
    (Pending /\ script = <<>> /\ cmdPc = "recv"
             /\ read_buff_ind + MaxLag + 4 <= MaxBlocks)
    ~> (~Pending \/ exit_flag \/ \E c \in Receivers : reader[c] # "async")

\* After a halt command the process ends, whatever its threads are doing.
HaltEnds == exit_flag ~> mainPc = "exit"
=============================================================================
