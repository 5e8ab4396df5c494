---------------------------- MODULE Calibration ----------------------------
(***************************************************************************)
(* The calibration loop of the DAQ chain.                                  *)
(*                                                                         *)
(*   rtl_daq -> rebuffer/decimator -> delay_sync -> hw_controller          *)
(*      ^                                 |               |                *)
(*      +------ "s" (REQ/REP) ------------+               |                *)
(*      +------ "c" "g" "a" "n" (REQ/REP) ----------------+                *)
(*                                                                         *)
(* The delay synchroniser measures the frames and asks rtl_daq to correct  *)
(* the sampling clocks; the hardware controller reads the synchroniser's   *)
(* state out of the frame headers, switches the noise source and the gains *)
(* accordingly, and serves the requests of an external client.  Every      *)
(* command makes rtl_daq send NoDummyFrames dummy frames.  Frames reach    *)
(* both state machines late, and some not at all: the decimator and the    *)
(* synchroniser drop a frame when their output buffers are taken.          *)
(*                                                                         *)
(* Abstractions.  A frame is one CPI and carries the header fields that    *)
(* are read; a dummy's are read by nobody.  A gain vector is one value.    *)
(* What a measurement yields is nondeterministic; with en_iq_cal = 0, as   *)
(* in kraken_development, those that ask for an IQ correction do not occur.*)
(* en_gain_tune_init is 0, as in every shipped configuration.              *)
(***************************************************************************)
EXTENDS Integers, Sequences, FrameOrder

CONSTANTS
    Freqs,              \* RF centre frequencies, positive numbers
    UserGains,          \* gain vectors a client may ask for, positive numbers
    CalGain,            \* the gain vector cal_gain_table holds
    CalTrackMode,       \* 0: off, 1: on every frame, 2: on bursts of CAL frames
    RequireTrackLock,   \* require_track_lock_intervention
    CalFrameInterval, CalFrameBurstSize, MaxSyncFails,
    NoDummyFrames,      \* NO_DUMMY_FRAMES
    UpstreamDepth,      \* frames between rtl_daq and the decimator's drop
    MaxDrops,           \* bound: frames the decimator drops
    MaxBad,             \* bound: measurements that find something to correct
    MaxRequests         \* bound: requests of the external client

None == 0               \* no value pending
Gains == UserGains \cup {CalGain}

ASSUME CalibrationAssumption ==
    /\ Freqs \subseteq Nat \ {None} /\ Freqs # {}
    /\ UserGains \subseteq Nat \ {None} /\ UserGains # {}
    /\ CalGain \in Nat \ {None} /\ CalGain \notin UserGains
    /\ CalTrackMode \in 0 .. 2
    /\ RequireTrackLock \in BOOLEAN
    /\ {CalFrameInterval, CalFrameBurstSize, MaxSyncFails, NoDummyFrames,
        UpstreamDepth} \subseteq Nat \ {0}
    /\ {MaxDrops, MaxBad, MaxRequests} \subseteq Nat

VARIABLES
    rtl,            \* rtl_daq: tuner state, noise_source_state, pending changes
    toDec,          \* frames on their way to the decimator
    toSync,         \* decimator -> delay_sync interface, two buffers
    ds,             \* delay_sync: current_state, sync_failed_cntr, last_rf
    toHwc,          \* delay_sync -> hw_controller interface, two buffers
    hwc,            \* hw_controller: its attributes and the commands left to send
    ctr_request,    \* request handed over by the control interface thread
    \* bounds and history
    drops, bad, requests,
    wanted,         \* gain vector and AGC state the client's requests add up to
    calRf,          \* frequency at which the last IQ calibration was passed
    lost            \* dummy frames dropped while delay_sync has been waiting for one

bounds == <<drops, bad, requests>>
history == <<wanted, calRf, lost>>
vars == <<rtl, toDec, toSync, ds, toHwc, hwc, ctr_request, bounds, history>>

DummyFrame == [type |-> "DUMMY"]
Frame == [type : {"CAL", "DATA"}, noise : BOOLEAN, rf : Freqs, gain : Gains]
            \cup {DummyFrame}
SyncedFrame == [type : {"CAL", "DATA"}, noise : BOOLEAN, gain : Gains, sync : 1 .. 6]
                \cup {DummyFrame}
Requests == {<<"FREQ", f>> : f \in Freqs} \cup {<<"GAIN", g>> : g \in UserGains}
                \cup {<<"AGC ">>}

Init ==
    /\ \E f \in Freqs, g \in UserGains :
        rtl = [rf |-> f, gain |-> g, agc |-> FALSE, noise |-> FALSE,
               new_rf |-> None, new_gain |-> None, agc_change |-> FALSE,
               dummies_due |-> 0]
    /\ toDec = <<>> /\ toSync = <<>> /\ toHwc = <<>>
    /\ ds = [state |-> "INIT", fails |-> 0, last_rf |-> None]
    /\ \E g \in UserGains :
        /\ hwc = [state |-> "INIT", noise |-> FALSE, gains |-> g, last_gains |-> g,
                  agc |-> FALSE, last_agc |-> FALSE, cal_frame_cntr |-> 0,
                  todo |-> <<>>]
        /\ wanted = [gain |-> g, agc |-> FALSE]
    /\ ctr_request = <<>>
    /\ drops = 0 /\ bad = 0 /\ requests = 0
    /\ calRf = None
    /\ lost = 0

-----------------------------------------------------------------------------
(* rtl_daq *)

\* Mutant: a clock correction does not start the dummy frames over.
AcceptSilentCorrection(r, cmd) ==
    CASE cmd[1] = "c" -> [r EXCEPT !.new_rf = cmd[2], !.dummies_due = NoDummyFrames]
      [] cmd[1] = "g" -> [r EXCEPT !.new_gain = cmd[2], !.dummies_due = NoDummyFrames]
      [] cmd[1] = "a" -> [r EXCEPT !.agc_change = TRUE, !.dummies_due = NoDummyFrames]
      [] cmd[1] = "n" -> [r EXCEPT !.noise = cmd[2], !.dummies_due = NoDummyFrames]
      [] cmd[1] = "s" -> r

\* The request thread takes a command under buff_ind_mutex: it is left for the
\* main loop (the noise flag excepted), and the dummy frames start over.
Accept(r, cmd) ==
    LET s == CASE cmd[1] = "c" -> [r EXCEPT !.new_rf = cmd[2]]
               [] cmd[1] = "g" -> [r EXCEPT !.new_gain = cmd[2]]
               [] cmd[1] = "a" -> [r EXCEPT !.agc_change = TRUE]
               [] cmd[1] = "n" -> [r EXCEPT !.noise = cmd[2]]
               [] cmd[1] = "s" -> r
    IN  [s EXCEPT !.dummies_due = NoDummyFrames]

\* The header the main loop writes.
Header(r) ==
    IF r.dummies_due > 0 THEN DummyFrame
    ELSE [type |-> IF r.noise THEN "CAL" ELSE "DATA",
          noise |-> r.noise, rf |-> r.rf, gain |-> r.gain]

\* Mutant: the pending changes are an else-if chain, yet all flags are cleared.
AppliedOne(r) ==
    [r EXCEPT !.rf = IF r.new_rf = None THEN @ ELSE r.new_rf,
              !.gain = IF r.new_gain = None \/ r.new_rf # None THEN @ ELSE r.new_gain,
              !.agc = r.agc_change \/ (@ /\ r.new_gain = None),
              !.new_rf = None,
              !.new_gain = None,
              !.agc_change = FALSE,
              !.dummies_due = IF @ > 0 THEN @ - 1 ELSE 0]

\* The changes the main loop makes once the frame is out, in its order:
\* frequency, gain (which ends AGC), AGC.
Applied(r) ==
    [r EXCEPT !.rf = IF r.new_rf = None THEN @ ELSE r.new_rf,
              !.gain = IF r.new_gain = None THEN @ ELSE r.new_gain,
              !.agc = r.agc_change \/ (@ /\ r.new_gain = None),
              !.new_rf = None,
              !.new_gain = None,
              !.agc_change = FALSE,
              !.dummies_due = IF @ > 0 THEN @ - 1 ELSE 0]

\* One iteration of the main loop; the write blocks while the chain is full.
RtlFrame ==
    /\ Len(toDec) < UpstreamDepth
    /\ toDec' = Append(toDec, Header(rtl))
    /\ rtl' = Applied(rtl)
    /\ UNCHANGED <<toSync, ds, toHwc, hwc, ctr_request, bounds, history>>

-----------------------------------------------------------------------------
(* The decimator passes frames on in order and never waits for delay_sync. *)

\* delay_sync waits for the dummy frames of its correction.
Waiting == ds.state \in {"SYNC_WAIT", "FRAC_SYNC_WAIT"}

Decimate ==
    /\ toDec # <<>>
    /\ toDec' = Tail(toDec)
    /\ \/ /\ Len(toSync) < 2
          /\ toSync' = Append(toSync, Head(toDec))
          /\ UNCHANGED <<drops, lost>>
       \/ /\ Len(toSync) = 2
          /\ drops < MaxDrops
          /\ drops' = drops + 1
          /\ lost' = IF Waiting /\ Head(toDec) = DummyFrame THEN lost + 1 ELSE lost
          /\ UNCHANGED toSync
    /\ UNCHANGED <<rtl, ds, toHwc, hwc, ctr_request, bad, requests, wanted, calRf>>

-----------------------------------------------------------------------------
(* delay_sync: one action per state, each a full iteration of the loop *)

\* The frame goes on to hw_controller with the sync state, unless both buffers
\* of that interface are taken (one may be held while commands are sent).
Forward(f, sync) ==
    LET busy == IF hwc.todo = <<>> THEN 0 ELSE 1
        g == IF f = DummyFrame THEN f
             ELSE [type |-> f.type, noise |-> f.noise, gain |-> f.gain, sync |-> sync]
    IN  /\ toSync' = Tail(toSync)
        /\ toHwc' = IF Len(toHwc) + busy < 2 THEN Append(toHwc, g) ELSE toHwc
        /\ UNCHANGED <<toDec, hwc, ctr_request, drops, requests, wanted>>

\* A frame that is not a dummy is there and current_state is s.
OnFrame(s) == toSync # <<>> /\ Head(toSync) # DummyFrame /\ ds.state = s

\* The measurement has the wished result, or one of MaxBad others.
Measured(ok) == IF ok THEN UNCHANGED bad ELSE bad < MaxBad /\ bad' = bad + 1

DsDummy ==
    /\ toSync # <<>> /\ Head(toSync) = DummyFrame
    /\ ds' = [ds EXCEPT !.fails = 0,
                        !.state = CASE @ = "SYNC_WAIT" -> "SAMPLE_CAL"
                                    [] @ = "FRAC_SYNC_WAIT" -> "FRAC_SAMPLE_CAL"
                                    [] OTHER -> @]
    /\ lost' = 0
    /\ Forward(DummyFrame, 0)
    /\ UNCHANGED <<rtl, bad, calRf>>

DsInit ==
    /\ OnFrame("INIT")
    /\ ds' = IF Head(toSync).type = "CAL" THEN [ds EXCEPT !.state = "SAMPLE_CAL"] ELSE ds
    /\ Forward(Head(toSync), 1)
    /\ UNCHANGED <<rtl, bad, calRf, lost>>

\* The correlation peak is too low, or some channel is off by whole samples and
\* the clocks are corrected, or the channels are aligned.
DsSampleCal ==
    /\ OnFrame("SAMPLE_CAL")
    /\ \E peak \in {"low", "shifted", "aligned"} :
        /\ Measured(peak = "aligned")
        /\ ds' = CASE peak = "low" -> ds
                   [] peak = "shifted" -> [ds EXCEPT !.state = "SYNC_WAIT"]
                   [] peak = "aligned" -> [ds EXCEPT !.state = "FRAC_SAMPLE_CAL"]
        /\ rtl' = IF peak = "shifted" THEN Accept(rtl, <<"s">>) ELSE rtl
    /\ Forward(Head(toSync), 2)
    /\ UNCHANGED <<calRf, lost>>

DsFracSampleCal ==
    /\ OnFrame("FRAC_SAMPLE_CAL")
    /\ \E aligned \in BOOLEAN :
        /\ Measured(aligned)
        /\ ds' = [ds EXCEPT !.state = IF aligned THEN "IQ_CAL" ELSE "FRAC_SYNC_WAIT"]
        /\ rtl' = IF aligned THEN rtl ELSE Accept(rtl, <<"s">>)
    /\ Forward(Head(toSync), 3)
    /\ UNCHANGED <<calRf, lost>>

\* Wait for the dummy frames of the correction.
DsSyncWait ==
    /\ OnFrame("SYNC_WAIT") \/ OnFrame("FRAC_SYNC_WAIT")
    /\ Forward(Head(toSync), 3)
    /\ UNCHANGED <<rtl, ds, bad, calRf, lost>>

\* The peak is too low, or the correction vector is updated, or all is within
\* tolerance.
DsIqCal ==
    /\ OnFrame("IQ_CAL")
    /\ \E iq \in {"low", "update", "ok"} :
        /\ Measured(iq = "ok")
        /\ ds' = CASE iq = "low" -> [ds EXCEPT !.state = "SAMPLE_CAL"]
                   [] iq = "update" -> ds
                   [] iq = "ok" -> [ds EXCEPT !.state = "TRACK_LOCK"]
        /\ calRf' = IF iq = "ok" THEN Head(toSync).rf ELSE calRf
    /\ Forward(Head(toSync), 4)
    /\ UNCHANGED <<rtl, lost>>

DsTrackLock ==
    /\ OnFrame("TRACK_LOCK")
    /\ ds' = IF Head(toSync).type = "DATA"
             THEN [ds EXCEPT !.state = "TRACK", !.last_rf = Head(toSync).rf]
             ELSE ds
    /\ Forward(Head(toSync), 5)
    /\ UNCHANGED <<rtl, bad, calRf, lost>>

\* Checked on every frame, on CAL frames only, or never.  The loss counter and
\* then the frequency decide whether the calibration starts over.
DsTrack ==
    LET f == Head(toSync)
        checked == CalTrackMode = 1 \/ (CalTrackMode = 2 /\ f.type = "CAL")
        fails(ok) == IF ~checked THEN ds.fails
                     ELSE IF ~ok THEN ds.fails + 1
                     ELSE IF ds.fails > 0 THEN ds.fails - 1 ELSE 0
    IN  /\ OnFrame("TRACK")
        /\ \E ok \in IF checked THEN BOOLEAN ELSE {TRUE} :
            /\ Measured(ok)
            /\ ds' = IF ds.last_rf # f.rf \/ (checked /\ fails(ok) = MaxSyncFails)
                     THEN [ds EXCEPT !.state = "INIT", !.fails = 0]
                     ELSE [ds EXCEPT !.fails = fails(ok)]
        /\ Forward(f, 6)
        /\ UNCHANGED <<rtl, calRf, lost>>

-----------------------------------------------------------------------------
(* hw_controller: one action per state, and the sending of the commands *)

NoiseOn(h) ==
    [h EXCEPT !.last_agc = h.agc,
              !.agc = FALSE,
              !.last_gains = h.gains,
              !.gains = CalGain,
              !.noise = TRUE,
              !.state = "NOISE_CTR_WAIT",
              !.todo = @ \o <<<<"g", CalGain>>, <<"n", TRUE>>>>]

\* Mutant: no wait for the noise source to go off.
NoiseOffAtOnce(h) ==
    [h EXCEPT !.noise = FALSE,
              !.gains = h.last_gains,
              !.agc = h.last_agc,
              !.todo = @ \o <<<<"n", FALSE>>, <<"g", h.last_gains>>>>
                         \o (IF h.last_agc THEN <<<<"a">>>> ELSE <<>>)]

NoiseOff(h) ==
    [h EXCEPT !.noise = FALSE,
              !.gains = h.last_gains,
              !.agc = h.last_agc,
              !.state = "NOISE_CTR_WAIT",
              !.todo = @ \o <<<<"n", FALSE>>, <<"g", h.last_gains>>>>
                         \o (IF h.last_agc THEN <<<<"a">>>> ELSE <<>>)]

\* Mutant: the noise of a burst is not left alone.
NoiseControlAlways(h, f, approval) ==
    IF f.sync < 5 /\ ~f.noise THEN NoiseOn(h)
    ELSE IF f.sync >= 5 /\ f.noise /\ approval THEN NoiseOff(h)
    ELSE h

\* Mutant: TRACK_LOCK (5) is taken for a state that still calibrates.
NoiseControlTrackOnly(h, f, approval) ==
    IF CalTrackMode = 2 /\ h.cal_frame_cntr >= CalFrameInterval THEN h
    ELSE IF f.sync < 6 /\ ~f.noise THEN NoiseOn(h)
    ELSE IF f.sync >= 6 /\ f.noise /\ approval THEN NoiseOff(h)
    ELSE h

\* On for a synchroniser that is not locked, off for one that is.  In mode 2
\* the noise of a burst is left alone.
NoiseControl(h, f, approval) ==
    IF CalTrackMode = 2 /\ h.cal_frame_cntr >= CalFrameInterval THEN h
    ELSE IF f.sync < 5 /\ ~f.noise THEN NoiseOn(h)
    ELSE IF f.sync >= 5 /\ f.noise /\ approval THEN NoiseOff(h)
    ELSE h

\* Mutant: the counter is not reset at the end of a burst.
BurstNoReset(h, f) ==
    LET n == h.cal_frame_cntr + 1
        k == [h EXCEPT !.cal_frame_cntr = n]
    IN  IF CalTrackMode # 2 THEN h
        ELSE IF f.sync # 6 THEN [h EXCEPT !.cal_frame_cntr = 0]
        ELSE IF n = CalFrameInterval THEN NoiseOn(k)
        ELSE IF n = CalFrameInterval + CalFrameBurstSize THEN NoiseOff(k)
        ELSE k

\* In mode 2 a tracking synchroniser gets a burst of calibration frames.
Burst(h, f) ==
    LET n == h.cal_frame_cntr + 1
        k == [h EXCEPT !.cal_frame_cntr = n]
    IN  IF CalTrackMode # 2 THEN h
        ELSE IF f.sync # 6 THEN [h EXCEPT !.cal_frame_cntr = 0]
        ELSE IF n = CalFrameInterval THEN NoiseOn(k)
        ELSE IF n = CalFrameInterval + CalFrameBurstSize
             THEN [NoiseOff(k) EXCEPT !.cal_frame_cntr = 0]
        ELSE k

\* Mutant: a GAIN request does not look at the noise source.
HandleGainAtOnce(h, req) ==
    CASE req = <<>> -> h
      [] req # <<>> /\ req[1] = "FREQ" -> [h EXCEPT !.todo = Append(@, <<"c", req[2]>>)]
      [] req # <<>> /\ req[1] = "GAIN" ->
            [h EXCEPT !.gains = req[2], !.agc = FALSE, !.todo = Append(@, <<"g", req[2]>>)]
      [] req # <<>> /\ req[1] = "AGC " ->
            IF h.noise THEN [h EXCEPT !.last_agc = TRUE]
            ELSE [h EXCEPT !.agc = TRUE, !.todo = Append(@, <<"a">>)]

\* A client's request.  While the noise source is on, gains and AGC are kept
\* for later.
HandleControlRequest(h, req) ==
    CASE req = <<>> -> h
      [] req # <<>> /\ req[1] = "FREQ" -> [h EXCEPT !.todo = Append(@, <<"c", req[2]>>)]
      [] req # <<>> /\ req[1] = "GAIN" ->
            IF h.noise THEN [h EXCEPT !.last_gains = req[2], !.agc = FALSE]
            ELSE [h EXCEPT !.gains = req[2], !.agc = FALSE,
                           !.todo = Append(@, <<"g", req[2]>>)]
      [] req # <<>> /\ req[1] = "AGC " ->
            IF h.noise THEN [h EXCEPT !.last_agc = TRUE]
            ELSE [h EXCEPT !.agc = TRUE, !.todo = Append(@, <<"a">>)]

\* The next frame, once the commands of the last one are sent.
Receive == hwc.todo = <<>> /\ toHwc # <<>> /\ toHwc' = Tail(toHwc)

HwcDummy ==
    /\ Receive /\ Head(toHwc) = DummyFrame
    /\ UNCHANGED <<rtl, toDec, toSync, ds, hwc, ctr_request, bounds, history>>

HwcInit ==
    /\ Receive /\ Head(toHwc) # DummyFrame
    /\ hwc.state = "INIT"
    /\ hwc' = [hwc EXCEPT !.todo = <<<<"g", hwc.gains>>, <<"n", FALSE>>>>,
                          !.state = "IQ_CAL"]
    /\ UNCHANGED <<rtl, toDec, toSync, ds, ctr_request, bounds, history>>

HwcIqCal ==
    /\ Receive /\ Head(toHwc) # DummyFrame
    /\ hwc.state = "IQ_CAL"
    /\ \E approval \in IF RequireTrackLock THEN BOOLEAN ELSE {TRUE} :
        hwc' = HandleControlRequest(
                 Burst(NoiseControl(hwc, Head(toHwc), approval), Head(toHwc)), ctr_request)
    /\ ctr_request' = <<>>
    /\ wanted' = CASE ctr_request = <<>> -> wanted
                   [] ctr_request # <<>> /\ ctr_request[1] = "FREQ" -> wanted
                   [] ctr_request # <<>> /\ ctr_request[1] = "GAIN" ->
                        [gain |-> ctr_request[2], agc |-> FALSE]
                   [] ctr_request # <<>> /\ ctr_request[1] = "AGC " ->
                        [wanted EXCEPT !.agc = TRUE]
    /\ UNCHANGED <<rtl, toDec, toSync, ds, bounds, calRf, lost>>

\* Mutant: the gains of the frame are compared with the saved ones.
HwcNoiseCtrWaitSaved ==
    /\ Receive /\ Head(toHwc) # DummyFrame
    /\ hwc.state = "NOISE_CTR_WAIT"
    /\ hwc' = IF Head(toHwc).noise = hwc.noise /\ Head(toHwc).gain = hwc.last_gains
              THEN [hwc EXCEPT !.state = "IQ_CAL"]
              ELSE hwc
    /\ UNCHANGED <<rtl, toDec, toSync, ds, ctr_request, bounds, history>>

\* Until a frame shows the noise state and the gains that were asked for.
HwcNoiseCtrWait ==
    /\ Receive /\ Head(toHwc) # DummyFrame
    /\ hwc.state = "NOISE_CTR_WAIT"
    /\ hwc' = IF Head(toHwc).noise = hwc.noise /\ Head(toHwc).gain = hwc.gains
              THEN [hwc EXCEPT !.state = "IQ_CAL"]
              ELSE hwc
    /\ UNCHANGED <<rtl, toDec, toSync, ds, ctr_request, bounds, history>>

\* One command and rtl_daq's "ok".
HwcSend ==
    /\ hwc.todo # <<>>
    /\ rtl' = Accept(rtl, Head(hwc.todo))
    /\ hwc' = [hwc EXCEPT !.todo = Tail(@)]
    /\ UNCHANGED <<toDec, toSync, ds, toHwc, ctr_request, bounds, history>>

\* The control interface thread hands over a request; it waits for the answer
\* before it reads the next one.
ClientRequest ==
    /\ ctr_request = <<>>
    /\ requests < MaxRequests
    /\ requests' = requests + 1
    /\ ctr_request' \in Requests
    /\ UNCHANGED <<rtl, toDec, toSync, ds, toHwc, hwc, drops, bad, history>>

-----------------------------------------------------------------------------
DsStep ==
    \/ DsDummy \/ DsInit \/ DsSampleCal \/ DsSyncWait \/ DsFracSampleCal
    \/ DsIqCal \/ DsTrackLock \/ DsTrack

HwcStep == HwcDummy \/ HwcInit \/ HwcIqCal \/ HwcNoiseCtrWait \/ HwcSend

Next == RtlFrame \/ Decimate \/ DsStep \/ HwcStep \/ ClientRequest

Spec == Init /\ [][Next]_vars

\* The receivers never stop sampling and every process is scheduled.
FairSpec ==
    /\ Spec
    /\ WF_vars(RtlFrame) /\ WF_vars(Decimate) /\ WF_vars(DsStep) /\ WF_vars(HwcStep)

-----------------------------------------------------------------------------
(* Invariants *)

\* What the controller sends.
Command == {<<"c", f>> : f \in Freqs} \cup {<<"g", g>> : g \in Gains}
             \cup {<<"n", b>> : b \in BOOLEAN} \cup {<<"a">>}

RtlType ==
    [rf : Freqs, gain : Gains, agc : BOOLEAN, noise : BOOLEAN,
     new_rf : Freqs \cup {None}, new_gain : Gains \cup {None},
     agc_change : BOOLEAN, dummies_due : 0 .. NoDummyFrames]
DsType ==
    [state : {"INIT", "SAMPLE_CAL", "SYNC_WAIT", "FRAC_SAMPLE_CAL", "FRAC_SYNC_WAIT",
              "IQ_CAL", "TRACK_LOCK", "TRACK"},
     fails : 0 .. MaxSyncFails - 1, last_rf : Freqs \cup {None}]
HwcType ==
    [state : {"INIT", "IQ_CAL", "NOISE_CTR_WAIT"}, noise : BOOLEAN,
     gains : Gains, last_gains : Gains, agc : BOOLEAN, last_agc : BOOLEAN,
     cal_frame_cntr : 0 .. CalFrameInterval + CalFrameBurstSize - 1,
     todo : Seq(Command)]

QueuesTypeOK ==
    /\ toDec \in Seq(Frame) /\ Len(toDec) <= UpstreamDepth
    /\ toSync \in Seq(Frame) /\ Len(toSync) <= 2
    /\ toHwc \in Seq(SyncedFrame) /\ Len(toHwc) <= 2

\* Shape of the state.
TypeOK ==
    /\ rtl \in RtlType /\ ds \in DsType /\ hwc \in HwcType
    /\ QueuesTypeOK
    /\ ctr_request \in Requests \cup {<<>>}
    /\ drops \in 0 .. MaxDrops /\ lost \in 0 .. drops
    /\ bad \in 0 .. MaxBad /\ requests \in 0 .. MaxRequests
    /\ wanted \in [gain : UserGains, agc : BOOLEAN]
    /\ calRf \in Freqs \cup {None}

\* The gains the client asked for survive every calibration: they are in use,
\* or saved while the calibration gains are.  (last_gains of
\* _control_noise_source, written again by a GAIN request; a second "on"
\* without an "off" would save the calibration gains.)
Remembered(h, w) ==
    IF h.noise THEN h.gains = CalGain /\ h.last_gains = w.gain
    ELSE h.gains = w.gain
GainsRemembered == Remembered(hwc, wanted)

InFlight == {toDec[i] : i \in DOMAIN toDec} \cup {toSync[i] : i \in DOMAIN toSync}
                \cup {toHwc[i] : i \in DOMAIN toHwc}

\* In STATE_IQ_CAL the noise state a header shows is the one the controller
\* set last, however late the frame comes: it never decides on a stale one.
HeadersAreCurrent ==
    hwc.state = "IQ_CAL" =>
        \A f \in InFlight : f # DummyFrame => f.noise = hwc.noise

\* No command is under way and no change is left to the main loop.
Settled ==
    hwc.todo = <<>> /\ rtl.new_rf = None /\ rtl.new_gain = None /\ ~rtl.agc_change

\* Whatever the order in which commands and frames interleave, the receivers
\* end up with the gains and the noise state the controller believes in.
ReceiversFollow ==
    Settled /\ hwc.state # "INIT" => rtl.gain = hwc.gains /\ rtl.noise = hwc.noise

\* The noise source is on all through a burst, and a burst is never missed by
\* the equality tests on cal_frame_cntr.
BurstHasNoise == hwc.cal_frame_cntr >= CalFrameInterval => hwc.noise

\* An IQ calibration is passed on a calibration frame, never on antenna signals.
CalibratedOnNoise ==
    [][ds.state = "IQ_CAL" /\ ds'.state = "TRACK_LOCK" => Head(toSync).type = "CAL"]_vars

\* "Setting gain implies disabling AGC": once a GAIN request is through, the
\* tuners are not in AGC until a client asks for it again.
GainDisablesAgc == Settled /\ ~wanted.agc => ~rtl.agc

\* "recalibration is initiated when changed": the frequency that is tracked is
\* the one at which the calibration was made.
TrackedAsCalibrated == ds.state = "TRACK" => calRf = ds.last_rf

-----------------------------------------------------------------------------
(* The inductive invariant behind them *)

\* The noise state the controller believes in is set, or its command is still to be
\* sent; no command says the opposite.
NoiseSent(h, r) ==
    /\ \A i \in DOMAIN h.todo : h.todo[i] # <<"n", ~h.noise>>
    /\ r.noise # h.noise => \E i \in DOMAIN h.todo : h.todo[i] = <<"n", h.noise>>

\* The gains it believes in are those of the last gain command to be sent, else
\* those left to the main loop, else those in use.
GainsSent(h, r) ==
    \/ \E i \in DOMAIN h.todo :
          /\ h.todo[i] = <<"g", h.gains>>
          /\ \A j \in DOMAIN h.todo : j > i => h.todo[j][1] # "g"
    \/ /\ \A i \in DOMAIN h.todo : h.todo[i][1] # "g"
       /\ h.gains = IF r.new_gain = None THEN r.gain ELSE r.new_gain

\* The frames whose header shows the noise state n.
Showing(n) == {f \in Frame \cup SyncedFrame : f # DummyFrame /\ f.noise = n}

\* No frame of O is in q, which follows p, when one of N is in p.
After(p, q, N, O) == (\E i \in DOMAIN p : p[i] \in N) => Clear(q, O)

\* Along the chain the noise state turns once, from the old to the new.
InOrder(h, s, d, N, O) ==
    /\ Turns(h, N, O) /\ Turns(s, N, O) /\ Turns(d, N, O)
    /\ After(h, s, N, O) /\ After(h, d, N, O) /\ After(s, d, N, O)
NoneOf(h, s, d, N) == Clear(h, N) /\ Clear(s, N) /\ Clear(d, N)

\* The frames under way: in order, none new before rtl_daq has switched, none old
\* unless the controller waits for the first new one.
NoiseTurns ==
    /\ InOrder(toHwc, toSync, toDec, Showing(hwc.noise), Showing(~hwc.noise))
    /\ rtl.noise # hwc.noise => NoneOf(toHwc, toSync, toDec, Showing(hwc.noise))
    /\ hwc.state # "NOISE_CTR_WAIT" =>
          rtl.noise = hwc.noise /\ NoneOf(toHwc, toSync, toDec, Showing(~hwc.noise))

\* Between bursts the noise source is off, in a burst it is on.
BurstCounted ==
    /\ CalTrackMode # 2 => hwc.cal_frame_cntr = 0
    /\ hwc.cal_frame_cntr # 0 => (hwc.noise <=> hwc.cal_frame_cntr >= CalFrameInterval)

IInv ==
    /\ TypeOK /\ GainsRemembered /\ NoiseTurns /\ BurstCounted
    /\ NoiseSent(hwc, rtl)
    /\ IF hwc.state = "INIT" THEN ~hwc.noise ELSE GainsSent(hwc, rtl)

-----------------------------------------------------------------------------
(* Liveness *)

\* A client's request is always answered.
RequestServed == (ctr_request # <<>>) ~> (ctr_request = <<>>)

\* All dummy frames of the correction were dropped: nothing ends the wait but the
\* dummy frames of another command.
Stranded ==
    /\ Waiting /\ lost >= NoDummyFrames /\ rtl.dummies_due = 0
    /\ DummyFrame \notin {toDec[i] : i \in DOMAIN toDec} \cup {toSync[i] : i \in DOMAIN toSync}

\* STATE_SYNC_WAIT and STATE_FRAC_SYNC_WAIT end, however few dummy frames of the
\* correction come through.  Only if the decimator drops every one of them does the
\* synchroniser wait on.
SyncWaitEnds == Waiting ~> (~Waiting \/ Stranded)

\* The chain gets (back) to tracking with the noise source off again and again, unless
\* the synchroniser is left stranded.
Tracks == []<>(ds.state = "TRACK" /\ ~rtl.noise) \/ <>[]Stranded
=============================================================================
