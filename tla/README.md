# A TLA+ model of the HeIMDALL DAQ firmware

The firmware reads several RTL-SDR receivers that share a clock, aligns them in time, amplitude
and phase, and hands coherent frames to a client. It is a chain of processes, each a single loop,
that exchange frames through pipes and shared memory and send commands upstream over ZeroMQ. What
is hard about it is what happens *between* the processes and between their threads: who owns a
buffer, which frame a header decision is based on, which command is applied when, whether the loop
of commands and frames comes to rest, and whether the end of one process reaches the others.

All source paths below are relative to `src/Firmware/`; the blocks are in `_daq_core/`.

    rtl_daq.c --pipe--> rebuffer.c --shm--> fir_decimate.c --shm(drop)--> delay_sync.py --shm(drop)--> iq_server.c
        ^                                                                   |     \--shm(drop)--> hw_controller.py
        |                                                                   |                          |     ^
        +------------- REQ/REP "s" -----------------------------------------+                          |     | TCP 5001
        +------------- REQ/REP "c" "g" "a" "n" --------------------------------------------------------+   client

## 1. Inventory

| Component | State | Operations | What makes it correct |
|---|---|---|---|
| shared memory IQ interface (`sh_mem_util.c`, `shmemIface.py`) | two memories, `buffer_free` flags, `dropped_frame_cntr`, forward and backward FIFO | open, `wait_buff_free`, `send_ctr_buff_ready`, `wait_buff_ready`, `send_ctr_buff_free`, `send_ctr_terminate`, destroy | one user per memory; frames whole and in order; a drop only when both buffers are out; no buffer lost; ends follow each other |
| configuration loading (`ini.c`, the handlers of the C blocks) | section, name before, first faulty line, the block's structure | one call per line, one handler call per pair | a file that was checked in Python means the same to the C blocks |
| `rtl_daq.c`, start | devices, control thread, reader threads, barrier | find and open the devices, start the threads | all receivers start together; a start that fails ends the process |
| `rtl_daq.c`, running | ring of 8 buffers per receiver, tuner settings, `noise_source_state`, pending change flags, dummy frame counter | reader callbacks, command thread, main loop, shutdown | every frame is one consistent instant of all receivers; commands are applied; a change is announced by dummies |
| `rebuffer.c` | circular buffer, `rd_offset`, `wr_offset`, `available`, `adc_overdrive_flags` | one iteration per input frame | no sample lost, repeated or reordered between dummies; time stamps and overdrive flags of the right samples |
| `fir_decimate.c` | both interfaces, filter memory | one iteration per frame | order kept; never waits for delay_sync |
| `delay_sync.py` | `current_state`, `sync_failed_cntr`, `last_rf`, correction vectors | one iteration per frame, eight states | a calibration is made on calibration frames of the frequency in use; loss leads to recalibration |
| `hw_controller.py` main loop | `current_state`, gains, saved gains, AGC flags, `noise_source_state`, `cal_frame_cntr`, `gain_lock_cntr` | one iteration per frame; gain tuning, noise control, bursts, client requests | decides on current headers; settles at the best gains; gives the user's gains back; noise on exactly while needed |
| control interface thread (`CtrIfaceServer`) | `ctr_request`, lock and condition, the connection | connect, read, hand over, wait, answer | every request carried out once, and answered after that |
| `iq_server.c` | the interface, a TCP connection | request loop | buffers go back whatever the client does |
| headers and messages (`iq_header.*`, `inter_module_messages.py`) | - | encode, decode | both ends agree on the layout |
| `ini_checker.py`, scripts | - | check the configuration, start and stop the chain | refuses configurations the chain cannot run |
| DAC controller, Ethernet sink, filter designer, recorders, tests | - | tools | - |
| `log.c`, `NE10*.h` | - | vendored | - |

Interaction. Frames flow left to right. `rebuffer` blocks when the decimator holds both buffers;
everything after the decimator drops instead. `delay_sync` and `hw_controller` each send a command
and block until `rtl_daq`'s command thread answers "ok", which it does under the mutex that the
main loop of `rtl_daq` holds except while it waits for samples. Each command starts
`NO_DUMMY_FRAMES` dummy frames. The only feedback from `rtl_daq` is the headers of later frames,
which arrive several frames late; the only feedback from `delay_sync` to `hw_controller` is the
`sync_state` in those headers.

Hard behaviours: late and dropped frames between two state machines that steer each other; commands
that overlap; threads that never wait for each other (the readers) and threads that must (the
server and the controller); FIFO end-of-file and death of a neighbour; the order in which blocking
opens are done; wrapping buffers whose sizes do not divide each other; counters compared for
equality. `PROJECT.json` lists the hazards line by line.

## 2. Modules

| Module | What it is | Code |
|---|---|---|
| `FrameChannel` | abstract: a lossy, in-order channel of depth two | what an interface promises |
| `ShmemTransfer` | one interface, its source and its sink, either of which may die at any step | `sh_mem_util.c`, `shmemIface.py` |
| `MCShmemTransfer` | both kinds of interface, with and without drop mode, in one state space | |
| `ShmemTransfer_proofs` | theorems about it | |
| `Chain` | the five processes behind rtl_daq and their four interfaces, from start to end | `rebuffer.c`, `fir_decimate.c`, `delay_sync.py`, `iq_server.c`, `hw_controller.py`, scripts |
| `Chain_proofs` | theorems about it | |
| `IniParse` | the parser and the four handlers, beside Python's parser | `ini.c` and `handler` in each C block |
| `RtlStart` | EXTENDS `IniParse`: the start of rtl_daq | `rtl_daq.c` before its main loop |
| `MCRtlStart`, `RtlStart_proofs` | the lines a file may consist of; theorems about any file | |
| `RtlDaq` | the reader threads, command thread and main loop of rtl_daq | `rtl_daq.c` |
| `MCRtlDaq`, `RtlDaq_proofs` | an instance; theorems | |
| `SampleQueue` | abstract: a queue of samples filled in blocks and emptied in frames | what the rebuffering promises |
| `Rebuffer`, `Rebuffer_proofs` | the circular buffer; theorems | `rebuffer.c` |
| `Calibration` | rtl_daq's command and frame side, the links, delay_sync, hw_controller and a client | `rtl_daq.c`, `fir_decimate.c`, `delay_sync.py`, `hw_controller.py` |
| `Calibration_proofs` | theorems about it | |
| `RequestReply` | abstract: one request at a time, carried out once, answered after that | what the control interface promises |
| `HwController` | the controller's main loop and its server thread, with lock and condition | `hw_controller.py` |
| `MCHwController`, `HwController_proofs` | an instance; theorems | |
| `FrameOrder` | old and new frames in a queue: the words in which `Calibration` and `HwController` say that a change turns once along the chain | |
| `QueueLemmas` | lemmas about those words, about `Append` and `Tail`, and the least-number principle, for all the proofs | |

MC modules hold constants that a configuration file cannot write down. Operators whose comment
starts with "Mutant" are variants of the definition that follows, each with one plausible mistake;
they are not part of any specification and show, by replacing that definition, that a property
notices the mistake.

How the modules fit together: `ShmemTransfer` looks at one interface byte by byte of its protocol;
`Chain` takes from it what matters to the processes around (buffers free, announced, handed back,
FIFO ends open) and composes four of them; `Calibration` takes only the order of frames and the
depth at which they are dropped. `RtlStart` ends where `RtlDaq` begins. `RtlDaq` shows what a frame
holds and when commands are carried out; `Calibration` and `HwController` use an iteration of
its main loop as one step, which the mutex justifies (proved as `FramesAreWhole`).

### ShmemTransfer

Variables keep the code's names; `srcPc` and `snkPc` are the places in the two main loops where the
processes can be seen to stand. One action per FIFO operation: `AllocByFlag`, `AllocBySignal`,
`AllocWouldBlock`, `AllocAtEof` are the four ways out of `wait_buff_free`; `SendReady` and
`SendFree` the two signals; `TakeReady`, `TakeTerminate`, `TakeAtEof` the three results of
`wait_buff_ready`. The memory a source fills holds `Torn` until it is announced, so a sink that
read it too early would be seen to. `SourceDies` and `SinkDies` close both FIFO ends of a process,
as the kernel does; a write to a FIFO without a reader ends the writer (no block handles SIGPIPE).
`sent` and `received` are history. `Init` is the state after INIT_READY; opening is in `Chain`.

A fact the code does not say of itself: `wait_buff_free` looks at `errno` after an `fread` that may
not have set it (`sh_mem_util.c:94`). A source that once dropped a frame takes the end-of-file of a
dead sink for a full interface; the comment at line 107 expects it to end. `OnlyStaleErrnoDrops`
says that this is the only way to that mistake, `DropsForever` in `Chain` that the decimator then
drops every frame until it is stopped.

### Chain

`Startup` is, per process, the sequence of blocking opens and INIT_READY it goes through; opening a
FIFO is a joint step of its two ends, except for the backward FIFOs of `delay_sync`, which the
Python side opens `O_NONBLOCK`. After that each process is its main loop cut at every FIFO
operation and, for the IQ server, every socket operation. When a call of a start can return is an
operator of its own (`MeetsForward` to `MayTakeReady`), the guard of the action that returns from it;
the rest of these actions only assigns, so `SomebodyGoesOn` says that `StartupStep` is enabled
without the operator ENABLED, which the prover does not know. `Ends(p)` closes all ends of a process.
Incidents are the end of rtl_daq's data, a kill, a reset connection, a start or a filter set-up
that fails; `why` collects them, so `EndsForAReason` can say that nothing else ends the chain.

`delay_sync` and `hw_controller` send commands to `rtl_daq` in some of their iterations and wait for
the answer in `recv`, without a timeout (`DelaySyncAsk`, `HwcAsk`, place "asks"). `rtl_daq` itself is
the input of this chain; `Answered` says when it can answer: not when it has ended, and not while its
main loop, which holds the mutex, waits for `rebuffer`, which waits for the decimator. A command
answered at once leaves no trace, so it needs no step. This is the circle that the decimator must not
close: let it wait for `delay_sync` and `AcquisitionGoesOn` fails.

TERMINATE, end-of-file and an exception end the main loop of `hw_controller` only. The thread of its
control interface is no daemon and stays in `accept`, so the process goes on "serving", or "crashed"
with a buffer it has not handed back.

What it showed. If a sink is slower than two frames to open its backward FIFO, `delay_sync` reads
nothing from a FIFO without a writer and the unpacking raises: this is counted as an incident. A
process that fails before it opens its interfaces leaves its neighbours in `fopen` for ever, hence
the premise of `EndSpreads`. When `rtl_daq` ends between a command and its answer, whoever has asked
stays in `recv` for ever (`LeftWaiting`), and with `delay_sync` everything behind it stays; the other
exceptions of `EndSpreads` are the stale errno (`DropsForever`), the IQ server, which never looks for
TERMINATE, and the process of `hw_controller`: both may outlive the chain. (Where the control
interface could not bind its port there is no such thread, and the process of `hw_controller` does
end; the model keeps it.)

### IniParse and RtlStart

A line is a record: its kind, whether it is indented, its name and value. `ReadLine` is one turn of
the loop in `ini_parse_stream`, `Handler` the callback. The handlers return 0 whatever they are
given, so `ini_parse` reports the first pair as faulty in every file, and `main` looks for a
negative result only: nothing but a missing file is noticed, a missing key leaves the structure as
the stack was (`Garbage`). `PythonReads` is the reading of `ConfigParser`, which `ini_checker.py`
and the Python blocks use. It reads names in lower case and looks for an option in its section and
then in `[DEFAULT]`; the C handlers compare names as they are written and take `[DEFAULT]` for a
section of which they know no option. A value is what `int` and `atoi` make of it: `1_0` is 10 to
the one and 1 to the other. So Python may find a number where the C block keeps garbage, and
`CheckedIsLoaded` says exactly when the two agree: an option in lower case and in its own section has
the same number, if it is in plain digits, or the same text, and every other variable of the block
is not set at all. It holds where options are not indented under options: of two options indented by the same amount the C blocks take the second for a continuation of the
first, Python does not, although `ini.c:152-154` promises "as per Python configparser"; the premise
`~python.nested` cannot be dropped.

`RtlStart` goes on with devices, threads and the barrier. `zmq_bind` is asserted, so a port in use
ends the process, at any moment of the start. Two strings of the configuration are followed as
pointers (`en_bias_tee` by `strtok`, `name` by `strcpy`); where they were not set the process goes on
or crashes (`Goes`). `rtlsdr_read_async` may return at once or later, and nobody looks at its result:
that reader goes back to the barrier, alone, the others read, main waits for its blocks and nothing
ends (`ReadReturns`, `HeldUp`). This hang is the exception of `StartEnds`; `failed` remembers who has
come back since the barrier opened.

### RtlDaq

Readers: `ReaderSetup`, the barrier, and a callback in two steps (its `memcpy`, then the count and
the signal) that take no mutex. Main loop: the wait with its lost wake-ups, the check of all
receivers, header, one block per receiver, then the changes in the order of the code. Command
thread: receive, lock, note, unlock. A device may refuse settings and may be lost. `retuned` is
history: what had been read and sampled when a device was last set.

`OverdriveOfLastData` says that the flags are those of the data frame *before* (the scan uses
`rd_buff_ind` before it is brought up to date), which `HwController` takes over. `FrameIntact`
excepts receivers that are a full ring ahead; the code notices a lag of exactly `NUM_BUFF` only.
`SamplesFollowChange` holds for receivers at most `NO_DUMMY_FRAMES - 3` blocks ahead.

### Rebuffer

Samples are their own numbers and time is counted in samples, so contents, order and time stamps
can be compared. `Gather`, `Emit` and `Dummy` are the three courses an iteration can take. The model
has drop mode off, as `daq_start_sm.sh` and `daq_synthetic_start.sh` start the block. A dummy frame
does not reset `adc_overdrive_flags` (`rebuffer.c:236`), so a flag can outlive the samples it was
raised by: `OverdriveReported` states the direction that holds, an overdriven block is reported by
the frame in which it starts. If the block is split over two frames the second is not flagged for it,
since the flags are cleared when the first leaves (`rebuffer.c:309`).

### Calibration

One action is one iteration of a loop, per state: `Ds...` of `delay_sync.py`, `Hwc...` of
`hw_controller.py`; `RtlFrame` is one iteration of `rtl_daq`'s main loop, which holds the mutex all
through, and `Accept` one iteration of its command thread. The controller's commands are sent one
by one (`HwcSend`), so frames and the other process's commands come between them. The links are
short queues: `toDec` (pipe, rebuffer and first interface, lossless), `toSync` and `toHwc` (two
buffers each; frames that find both taken are dropped). What the measurements yield is
nondeterministic, with at most `MaxBad` results that call for a correction; everything the result
*does* is as in the code. Gains are one value per vector. Noise source and tuner settings change in
the step that sends the last frame of the old setting; `calRf`, `wanted` and `lost` are history.

`STATE_SYNC_WAIT` and `STATE_FRAC_SYNC_WAIT` are left on a dummy only. `lost` counts the dummies
dropped while the synchroniser waits, and `Stranded` says that all dummies of the correction are
among them: then it waits for ever, and the controller sees sync state 3 with the noise source on
and does nothing. `SyncWaitEnds` and `Tracks` name this case as their exception.

### HwController

Complements `Calibration` with what that abstracts: gains per receiver and their tuning, requests
that are partly invalid, and the thread that serves the client. `hwc.todo` are the commands an
iteration has yet to send, so frames and the server come between them; `lock` is the lock of the
condition. The server's ways through `process_ctr_frame` are actions of their own: `HandOver`,
`WaitForNothing` (an unknown command), `TakeExit`, `FailUnderLock` (a message that cannot be
unpacked or decoded).

What it showed, and the properties state as exceptions:

* A message that is too short for its command, or is no text, ends the server thread with the
  lock taken; the main loop then waits for the lock for ever (`LockObtained`).
* A connection that is reset while the thread is in `recv` ends it too (`EndOfData`), without the
  lock: the loop runs on, and no client is served after it.
* An unknown command waits for a notification that nothing will give: the connection hangs.
* A GAIN request whose later value is not valid has stored the earlier ones and sends nothing. In
  the iteration that switches the noise source off, the controller then waits for gains it has
  never sent (`Stuck`).
* A receiver overdriven at the lowest gain keeps the tuning from ending (`Tunable`).
* The overdrive flags are one frame older than the header; `STATE_GAIN_CTR_WAIT` uses up exactly
  that frame, which is why the tuning is right (`JudgedAtItsGains`).

## 3. Runs

| Run | Expect | Question |
|---|---|---|
| `shmem` | pass | both modes: exclusive access, termination, refinement of `FrameChannel`; a waiting source is released, what is sent is used, and without drop mode what is offered |
| `chain` | pass | the start has no circle of opens; buffers are kept, clients stall nobody, ends have reasons and spread, unanswered commands excepted |
| `start` | pass | the C blocks load what Python checked, where the two parsers agree on the name; the receivers start together; a start ends unless a read has returned |
| `rtl_daq` | pass | frames are whole, intact, tuned as commanded and sampled after the change; changes and halts come through |
| `rebuffer_stream` | pass | the circular buffer is a queue, with right time stamps and flags |
| `calib_safe` | pass | gains, headers, receivers and bursts agree under every interleaving |
| `calib_live` | pass | requests served, waits ended, tracking reached again and again, unless all dummies of a correction are lost |
| `hwc` | pass | tuning ends at the best gains; lock and condition implement `RequestReply`; which messages stop which thread |
| `calib_freq`, `calib_agc`, `calib_noise`, `rebuffer_portion` | violation | the disagreements of section 4 |

Bounds, and why they are enough.

* `shmem`: six frames. The two buffers alternate, so ownership repeats every two frames; six
  let both be out, drops happen, and each buffer come round three times. The theorems hold for
  every `MaxFrames`.
* `chain`: one incident, and the decimator, which has neighbours of every kind, is the process
  killed. With one incident the question is how *that* end spreads. Counters of buffers need no
  bound: there are 367474 states. The run was repeated with each of the other processes as the one
  killed, and passes.
* `start`: files of four lines: two sections and two options, or one option, its continuation and
  a section between, are the shortest on which the parsers can differ; five lines were run for
  the IQ server. The values are nothing, a number, a number of which `atoi` makes another, and text; one
  option is also there with a capital, and one section is `[DEFAULT]`. A missing `num_ch` may be
  anything up to two receivers.
* `rtl_daq`: two receivers, a ring of three, seven blocks, so that the ring wraps twice and the
  main thread can be lapped; commands come in pairs, the second before, while or after the first
  is carried out; one receiver may refuse settings and may be lost after block 4. `MaxLag` and
  `MaxSkew` bound how far the readers run ahead; without them the state space has no end.
* `rebuffer_stream`: blocks of 2 samples, frames of 7 and 3, buffer of 10. Frame and buffer have no
  common factor, so the offsets go through all their combinations in 35 blocks; 40 are run.
* `calib_*`: interval, burst, loss threshold and dummy count of 2; one frame upstream; one drop,
  one bad measurement and one request (two requests or bad measurements where a violation needs
  them). Two is the least at which the counters are neither hit at once nor equal to each other's
  reset value, and at which a command can land in the middle of another's dummies. The interval has
  to be at least 2: with 1 a burst starts in the iteration that ended the last one. More drops, bad
  measurements and requests only repeat what one does from any state of the loop. `calib_live` has
  as many drops as a correction has dummies, so that all of them can be lost.
* `hwc`: two receivers and three gains: one going down beside one going up, unified control with
  different limits, and no tuning. Two messages let one arrive while another is served; one switch
  of `locked` starts or ends a calibration.

Fairness. Each process or thread is a loop the operating system schedules: weak fairness of its
step. Nothing forces a client to ask, read or hang up, a measurement to fail, the input to end, a
device to be lost or a process to die. The receivers deliver samples continuously, hence weak
fairness of `RtlFrame`, `ChainFrame` and the callbacks. A thread that waits for a mutex others take
again and again gets it some time: strong fairness of `ServerStep` (`HwController`) and of the
command thread's `LockAndNote` (`RtlDaq`); without it a busy main loop could keep them out for
ever. `DelaySyncStep` and `HwcStep` of `Chain` have strong fairness for the same reason: whoever
waits for an answer waits for that mutex, which `rtl_daq` gives up whenever it waits for samples. `Tracks` and `RequestServed` also rest on finitely many drops and bad measurements, which the
bounds provide. `ChangesApplied` speaks of changes that the bounds leave blocks to come for.

`Stranded` is the least exception `SyncWaitEnds` and `Tracks` can have: one dummy of a correction
that gets through to `delay_sync` ends its wait, and when the decimator drops all of them nothing else
does. Without it both properties fail in `calib_live`.

`GainsRemembered` and the properties beside it are checked with `require_track_lock_intervention`
off. With it on, noise can stay on in tracking until the user approves; `cal_frame_cntr` can reach
the interval meanwhile, and the noise source is "switched on" a second time, which saves the
calibration gains over the user's. Setting `RequireTrackLock = TRUE` and `MaxBad = 2` shows that.

`CHECK_DEADLOCK FALSE` is set for `chain` only, where every process may have ended. In the others
something can always happen, or being at rest is a step of its own (`AtRest`).

## 4. What the runs disagree with

* `TrackedAsCalibrated` (`delay_sync.py:688`): a frequency change between `IQ_CAL` and `TRACK` is
  never noticed.
* `GainDisablesAgc` (`rtl_daq.c:746-780`): gain before AGC, whatever the order of the requests. A
  GAIN request served in the iteration that ends a calibration loses against the saved AGC.
* `CalibratedOnNoise` (`hw_controller.py:543`, `delay_sync.py:730`): a burst that ends on the frame
  at which synchronisation is given up leaves the noise source off; the states after INIT do not
  look at the frame type, and the calibration is made on antenna signals.
* `FirstPortionOnly` (`rebuffer.c:245,339`): the rest of a block is kept, against the manual. With
  `corr_size` below `daq_buffer_size`, which is the default configuration, more is kept with every
  calibration frame, until blocks overwrite samples not yet passed on.

Smaller disagreements that a passing property states as its exception are named in section 2
(`OnlyStaleErrnoDrops`, `CheckedIsLoaded`, `HeldUp`, `LeftWaiting`, `Stranded`, `Stuck`,
`LockObtained`).

## 5. Proofs

TLC checks small instances; the theorems hold for every value of the constants that the modules'
named assumptions allow, and of every safety property a passing run checks.
The inductive invariants and the type correctness of `ShmemTransfer`, `Rebuffer`, `RtlDaq` and
`Chain` are not repeated in the runs; those of the component modules were checked with TLC before they
were proved.

Three theorems' hypotheses go beyond those assumptions. They are restrictions under which the code is
right, and each is needed:

| Hypothesis | What it says | Why it may be made |
|---|---|---|
| `Wide` (`Rebuffer_proofs`) | output frames are at least a block | the checker does not enforce it; `rebuffer_portion` shows what happens otherwise |
| `PulseFits` (`RtlDaq_proofs`) | `NoDummyFrames >= 2` | `NO_DUMMY_FRAMES` is 5 (`rtl_daq.c:69`); with one dummy a correction pulse lasts into the data |
| `BurstsFit` (`Calibration_proofs`) | with bursts, no approval of a lost track by the user and an interval of at least 2 | the shipped configurations have `require_track_lock_intervention = 0` and `cal_frame_interval` of 10 or more; without it the calibration's gains are saved over the user's, see section 3 |

`ShmemTransfer_proofs`, for every number of frames and both modes: type correctness,
`ExclusiveAccess`, `IntactInOrder`, `TerminateIsLast`, `OnlyStaleErrnoDrops` and the refinement of
`FrameChannel`. None of these is inductive by itself. `IInv` adds the reason: buffers are used
alternately, so which one the k-th frame uses is known (`BufferOf`), and each flag, held index and
FIFO entry follows from three counts, the frames sent, used and handed back (`Ownership`,
`Announced`); the memories of frames not yet handed back are intact (`Contents`); and every frame
offered is sent, dropped or in hand (`Account`). The source fills a buffer only with at most one
outstanding, and then it is the other one the sink has. There is one lemma per action; the steps that
end a process change none of the counts. `StaleErrnoHolds` adds that `errno` is set only in drop mode
and by a drop.

`Rebuffer_proofs`, for every block size and all output sizes of at least a block (`Wide`): the
buffer never overruns, time stamps are right, an overdriven block is reported by the frame in which it
starts, and the circular buffer implements `SampleQueue`. `IInv` says that less than a frame is kept
(`Kept`), that the read offset is the write offset plus what is available, modulo the capacity, and a
whole number of blocks (`Offsets`), and that the samples available are the last ones read
(`Contents`). `CapacityBound` is the arithmetic of `buffer_num`; `Wrap` and `Shift` reduce the
remainders to subtractions. For the flags the invariant is that a flag is set as long as a sample of
its block is still in the buffer.

`RtlDaq_proofs`, for every number of receivers, ring slots and dummy frames, every script of
commands and every set of faults, rests on `IInv == TypeOK /\ Exclusion /\ Ring /\ FrameSoFar`: the
main thread has the mutex wherever it looks at `en_dummy_frame`, so no command comes between header
and data (`FrameWhole`); every block less than a ring old is in its slot, because the callback
overwrites the slot of the one a whole ring older, and the blocks written so far are those of the
header, unless their receiver has lapped the main thread (`FrameIntact`). `ModDistinct` is the
arithmetic of the slots. `Commanded` says that a change not yet carried out keeps `en_dummy_frame`
set with the counter at zero, or in its first two frames for a pulse (`ChangeAnnounced`), and that a
device with nothing pending is set as commanded (`DevicesFollow`): data frames leave only when
nothing is pending (`DataAsCommanded`; noise source, frequency, gain and sampling rate are
compared, AGC is not). `Covered` counts the frames since the last setting, from
which follows how far a receiver may be ahead without a sample of the old setting getting into the
data (`SamplesFollowChange`). `FlagsSoFar` says which frame the stale slot index belongs to
(`OverdriveOfLastData`).

`Calibration_proofs`. `TypeOK` is inductive and holds for every configuration. The other four properties
are about what two processes believe of each other, and `IInv` says what connects them: a command
still to be sent, or a setting left to the main loop, is the one the controller believes in
(`NoiseSent`, `GainsSent`), and along the three queues, read as one, the noise state turns at most
once, from the old to the new, and only while the controller waits for it (`NoiseTurns`). Hence the
first header with the new state ends the wait rightly (`HeadersAreCurrent`), and the gains that are saved when
the noise source goes on are the user's (`GainsRemembered`). Frames the links drop only take
elements out of the queues, and dummies are in neither of the two sets of frames (`FrameOrder`).

`HwController_proofs`, for every configuration, every number of receivers, gains and limits, and
whatever clients send. `RInv` ties the list to the history: a request in the list is the one the
server is waiting for, and the only one not carried out; a server that was notified owes an answer. A
request is taken only in `recv`, and a server in `recv` has none in the list: so none is overwritten,
and the two threads implement `RequestReply`. `IInv` is about the tuning: the flags belong to
the samples before the header (`FlagsOfScan`); headers show gains and noise in the order they were
asked for (`HeadersInOrder`), and all frames behind the first that shows the new gains were sampled
with them (`JudgedAtItsGains`); a receiver that has stopped is not below its best gain, and one that
goes on can still go down (`Progress`), so the tuning ends at the best gains and later calibrations
save and restore them (`TunedToTheLimit`).

`Chain_proofs`: `Account` is the type, the reserve of a source that is about to announce, and for
each of the four links that its buffers are free, announced, held or on their way back as long as
its sink runs (`BuffersKept`). It is proved once for a link with a source and a sink and used
for all. `IInv` adds what an undisturbed chain looks like: which ends are open, that no TERMINATE is under
way, and that a source that is up has a writer on its backward FIFO, without which it would read end-of-file.
`EndsForAReason` follows. For `ChainStarts` it also says how far the two ends of each interface may be
apart (`InStep`): the forward FIFO is passed by both at once, the backward FIFO too unless it is opened
`O_NONBLOCK`, and there its writer is behind its reader; INIT_READY is in the FIFO until the sink has taken
it. `StepIsAt` says at which interface a process stands, and `GoesOnUnlessStarted` goes through the interfaces
from the input of the chain to its outputs: since every process opens its input first, the source of the first
interface that is not yet open on both ends has come to it, and there somebody can go on.

`RtlStart_proofs`: `ReadingExists` and `ReadingUnique` unfold the recursive function in
`PythonReads` for files of any length. Instead of an induction they consider a least
number for which the claim fails (`LeastOfNaturals`). `ReadsLine` then lists what one more line can be to Python,
and `FileInv` says that, as long as Python accepts, both parsers are in the same section behind the
same name and have the same values, as far as sections and names are the same to both: an option
with a capital and what stands in `[DEFAULT]` are followed through the file as such, and no variable
of the block is set by them; a file that is refused or nested stays so. `ReaderInv` says that
the readers are those of all receivers and that nobody has passed the barrier, or everybody but those
whose read has returned: a set of receivers of the barrier's count is all of them (`BarrierForAll`).

Only model-checked: liveness (`AllocReturns`, `EveryFrameUsed`, `AcquisitionGoesOn`, `EndSpreads`,
`StartEnds`, `ChangesApplied`, `HaltEnds`, `RequestServed`, `SyncWaitEnds`, `Tracks`, `TuningEnds`,
`RequestAnswered`, `LockObtained`), which is out of the prover's reach.

## 6. Plan

Done: the interface, the calibration loop, the rebuffering, the receiver block with its start, the
controller with its server, the chain of processes; proofs of all safety properties and of the
three refinements.

What is left: drop mode of `rebuffer.c`, should a script ever start it so.

## 7. Not modelled

* Signal processing (correlation, FIR filtering, IQ correction) and byte layouts of headers and
  messages: numerical or without state that the behaviours above depend on.
* The reconfiguration command `r` of rtl_daq: the code calls it deprecated and no module sends it.
* Drop mode of the rebuffer: no script starts it so. There a refused dummy leaves
  `active_out_buffer_size` of the frame before, and the next write could use it.
* `iq_server.c` after a failed `recv` and with a connection that was never made: it uses
  uninitialised values, and what follows is undefined.
* `delay_sync.py:652`: the tolerance test in `STATE_IQ_CAL` uses a loop variable left over from the
  loop before and looks at one channel only. Which channels a measurement finds good is
  nondeterministic in `Calibration`, so the model allows more than the code does.
* One centre frequency for all channels in the header; TCP messages that arrive in pieces (a short
  read counts as a message that cannot be unpacked).
* Lines of over 199 characters, names of over 49, and `ini_parse_string`, which nobody calls.
* `ini_checker.py` itself: independent range tests. `daq_start_sm.sh` has the call commented out.
* Logging, the DAC controller, the Ethernet sink, recorders and test programs, the filter designer,
  vendored code.
