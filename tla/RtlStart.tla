------------------------------ MODULE RtlStart ------------------------------
(***************************************************************************)
(* The start of rtl_daq: configuration, devices, control thread, reader    *)
(* threads, up to the moment at which all receivers deliver samples.  This *)
(* is where RtlDaq begins.  The other C blocks stop here once their        *)
(* configuration is loaded; Chain has the rest of their start.             *)
(*                                                                         *)
(* What counts is that all receivers start together, since nobody aligns   *)
(* whole blocks later, and that a start that fails ends the process, which *)
(* is how rebuffer and all behind it learn of it.                          *)
(***************************************************************************)
EXTENDS IniParse, FiniteSets

CONSTANT MaxCh      \* bound: receivers a garbage num_ch may stand for

ASSUME RtlStartAssumption == MaxCh \in Nat

VARIABLES
    ch_no,
    dev_ind,            \* device index of each receiver
    ctr_channel_index,  \* the receiver that switches noise source and bias tees
    opened,             \* devices opened
    control,            \* control thread: "none", "bind" or "recv"
    reader,             \* reader threads: "none", "setup", "barrier", "released", "async"
    failed              \* history: receivers whose read has returned since the barrier opened

devVars == <<ch_no, dev_ind, ctr_channel_index, opened>>
startVars == <<devVars, control, reader, failed>>
vars == <<parseVars, startVars>>

Receivers == 1 .. ch_no

Init ==
    /\ ParseInit
    /\ ch_no = 0 /\ dev_ind = <<>> /\ ctr_channel_index = 1
    /\ opened = 0 /\ control = "none" /\ reader = <<>> /\ failed = {}

-----------------------------------------------------------------------------
(* Main thread *)

\* main follows this pointer, which leads nowhere in particular if it was not set.
Goes(place, pointer) == {place} \cup {p \in {"exit"} : config[pointer] = Garbage}

\* The parser's locals are gone.  A num_ch that was not set is anything.  strtok cuts
\* en_bias_tee up.
TakeConfig ==
    /\ pc = "parsed" /\ block = "rtl_daq"
    /\ LET num_ch == config[<<"hw", "num_ch">>]
       IN  ch_no' \in IF num_ch = Garbage THEN 0 .. MaxCh ELSE {num_ch}
    /\ pc' \in Goes("find", <<"hw", "en_bias_tee">>)
    /\ file' = <<>> /\ section' = "" /\ prev_name' = "" /\ error' = 0
    /\ UNCHANGED <<block, config, dev_ind, ctr_channel_index, opened, control, reader, failed>>

\* rtlsdr_get_index_by_serial: the receivers have the serial numbers from 1000
\* on.  -3 means that there are devices, but none with that number, -2 that
\* there is none at all.
NotFound == -3
NoDevice == -2

\* A receiver that is not found ends the program, without devices its first
\* rtlsdr_open will.  An unknown control channel is replaced by device 0.  The
\* name is copied into the header.
FindDevices ==
    /\ pc = "find"
    /\ \E ind \in [Receivers -> {NotFound} \cup 0 .. MaxCh]
                    \cup [Receivers -> {NoDevice}],
          found \in {NotFound, NoDevice} \cup 0 .. MaxCh :
          /\ \A i, j \in Receivers : ind[i] = ind[j] /\ ind[i] >= 0 => i = j
          /\ (found = NoDevice) = (\E i \in Receivers : ind[i] = NoDevice)
          /\ dev_ind' = ind
          /\ LET ctr == IF found = NotFound THEN 0 ELSE found
                 at == {i \in Receivers : ind[i] = ctr}
             IN  ctr_channel_index' = IF at = {} THEN 1 ELSE CHOOSE i \in at : \A j \in at : j <= i
          /\ pc' \in IF \E i \in Receivers : ind[i] = NotFound THEN {"exit"}
                    ELSE Goes("spawn control", <<"hw", "name">>)
    /\ UNCHANGED <<block, lineVars, config, ch_no, opened, control, reader, failed>>

SpawnControl ==
    /\ pc = "spawn control"
    /\ control' = "bind"
    /\ pc' = "open devices"
    /\ UNCHANGED <<block, lineVars, config, devVars, reader, failed>>

\* rtlsdr_open of the receivers in turn; one that fails ends the program.
OpenDevice ==
    /\ pc = "open devices" /\ opened < ch_no
    /\ \/ dev_ind[opened + 1] >= 0 /\ opened' = opened + 1 /\ UNCHANGED pc
       \/ pc' = "exit" /\ UNCHANGED opened
    /\ UNCHANGED <<block, lineVars, config, ch_no, dev_ind,
                   ctr_channel_index, control, reader, failed>>

\* The bias tees are set through the control channel; the barrier is made.
SetBiasTees ==
    /\ pc = "open devices" /\ opened = ch_no
    /\ pc' = "spawn readers"
    /\ reader' = [i \in Receivers |-> "none"]
    /\ UNCHANGED <<block, lineVars, config, devVars, control, failed>>

SpawnReader ==
    /\ pc = "spawn readers"
    /\ \/ \E i \in Receivers :
             /\ reader[i] = "none" /\ \A j \in 1 .. i - 1 : reader[j] # "none"
             /\ reader' = [reader EXCEPT ![i] = "setup"]
             /\ UNCHANGED pc
       \/ /\ \A i \in Receivers : reader[i] # "none"
          /\ pc' = "main loop"
          /\ UNCHANGED reader
    /\ UNCHANGED <<block, lineVars, config, devVars, control, failed>>

MainStep == TakeConfig \/ FindDevices \/ SpawnControl \/ OpenDevice \/ SetBiasTees \/ SpawnReader

-----------------------------------------------------------------------------
(* The other threads *)

Alive == pc # "exit"

\* The assertion on zmq_bind ends the program when the port is taken.
BindControl ==
    /\ Alive /\ control = "bind"
    /\ \/ control' = "recv" /\ UNCHANGED pc
       \/ pc' = "exit" /\ UNCHANGED control
    /\ UNCHANGED <<block, lineVars, config, devVars, reader, failed>>

ReaderMoves(i, from, to) ==
    /\ Alive
    /\ i \in DOMAIN reader /\ reader[i] = from
    /\ reader' = [reader EXCEPT ![i] = to]
    /\ UNCHANGED <<parseVars, devVars, control>>

\* Tuner, gain, rate and buffers; what fails is logged.
SetUpReader(i) == ReaderMoves(i, "setup", "barrier") /\ UNCHANGED failed

\* Mutant: the main thread was counted too.
BarrierCountWithMain == ch_no + 1

\* Mutant: the first receiver was not counted.
BarrierCountShort == ch_no - 1

\* pthread_barrier_init
BarrierCount == ch_no

\* The barrier lets go of those that wait when there are as many as its count.
BarrierOpens ==
    LET waiting == {i \in DOMAIN reader : reader[i] = "barrier"}
    IN  /\ Alive
        /\ waiting # {} /\ Cardinality(waiting) = BarrierCount
        /\ reader' = [i \in DOMAIN reader |-> IF i \in waiting THEN "released" ELSE reader[i]]
        /\ failed' = {}
        /\ UNCHANGED <<parseVars, devVars, control>>

\* rtlsdr_read_async
StartRead(i) == ReaderMoves(i, "released", "async") /\ UNCHANGED failed

\* It returns, at once or when the device is lost.  Nobody looks at its result: the
\* thread begins its loop again, on its way to the barrier.
ReadReturns(i) ==
    /\ ReaderMoves(i, "released", "setup") \/ ReaderMoves(i, "async", "setup")
    /\ failed' = failed \cup {i}

ReaderStep(i) == SetUpReader(i) \/ StartRead(i)
OtherStep == BarrierOpens \/ \E i \in Receivers : ReaderStep(i)

-----------------------------------------------------------------------------
\* Here the start is over, one way or the other.
AllRead ==
    /\ pc = "main loop" /\ control = "recv"
    /\ \A i \in Receivers : reader[i] = "async"

\* After a read has returned, those that still read keep the others waiting.
HeldUp ==
    /\ failed # {} /\ pc = "main loop" /\ control = "recv"
    /\ \A i \in Receivers : reader[i] = IF i \in failed THEN "barrier" ELSE "async"

AtRest ==
    /\ \/ pc = "exit" \/ AllRead \/ HeldUp
       \/ pc = "parsed" /\ block # "rtl_daq"
       \/ pc = "main loop" /\ ch_no = 0
    /\ UNCHANGED vars

Next ==
    \/ ParseStep /\ UNCHANGED startVars
    \/ MainStep \/ BindControl \/ OtherStep
    \/ \E i \in Receivers : ReadReturns(i)
    \/ AtRest

Spec == Init /\ [][Next]_vars

\* The threads are scheduled, and every call of the driver that sets up returns.
FairSpec ==
    Spec /\ WF_vars(MainStep) /\ WF_vars(BindControl) /\ WF_vars(OtherStep)

-----------------------------------------------------------------------------
\* No receiver delivers samples before all of them are tuned and reset: their
\* first blocks are of one time, which the whole chain relies on.  A receiver whose
\* read has returned does not start again before all others have come back too.
ReadTogether ==
    \A i, j \in DOMAIN reader :
        reader[i] = "async" => reader[j] \in {"released", "async"} \/ j \in failed

\* A start with a usable num_ch ends: all receivers deliver, or the process is
\* gone, so that rebuffer reads end-of-file.  It does not hang with some of the
\* threads waiting for others, unless a read has returned: then the receiver waits
\* at the barrier, main for its blocks, and nothing ends.
StartEnds == (pc = "find" /\ ch_no > 0) ~> (pc = "exit" \/ AllRead \/ failed # {})
=============================================================================
