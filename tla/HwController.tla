---------------------------- MODULE HwController ----------------------------
(***************************************************************************)
(* The two threads of hw_controller.py.                                    *)
(*                                                                         *)
(*   client --TCP--> CtrIfaceServer --ctr_request--> main loop --> rtl_daq *)
(*                                                      ^            |     *)
(*                                                      +-- frames --+     *)
(*                                                                         *)
(* The main loop tunes the gains, then calibrates and serves requests; it  *)
(* learns what rtl_daq did from the headers of later frames.  The server   *)
(* thread serves one connection and hands over one request at a time,      *)
(* under the lock of ctr_request_condition, which both threads take.       *)
(*                                                                         *)
(* Abstractions.  Gains are indices into valid_gains.  A receiver is       *)
(* overdriven when its gain is above a limit that does not change.         *)
(* cal_track_mode and require_track_lock_intervention are 0 here (see      *)
(* Calibration); whether delay_sync is locked is up to the environment.    *)
(* "STHU" and "INIT" are accepted and do nothing; INIT stands for both.    *)
(***************************************************************************)
EXTENDS Integers, Sequences, FiniteSetsExt, FrameOrder

CONSTANTS
    M,                  \* number of receivers
    MaxGain,            \* len(valid_gains) - 1
    Configurations,     \* configuration and signal: see Configuration
    CalGains,           \* gains of cal_gain_table
    GainLockInterval,   \* gain_lock_interval
    NoDummyFrames,      \* NO_DUMMY_FRAMES of rtl_daq.h
    Messages,           \* what clients send
    MaxMessages,        \* bound: messages sent
    MaxSwitches         \* bound: times delay_sync locks or loses its lock

Channels == 0 .. M - 1
None == <<>>            \* no request, no message
Gains == [Channels -> 0 .. MaxGain]

\* unified_gain_control, en_gain_tune_init, the initial gains, and the highest
\* gain at which each receiver is not overdriven (-1: there is none)
Configuration == [unified : BOOLEAN, tune : BOOLEAN, gains : Gains,
                  limit : [Channels -> -1 .. MaxGain]]

\* Requests with an effect.  A GAIN request may name a gain that is not valid.
Requests == {<<"FREQ">>, <<"AGC ">>, <<"INIT">>}
                \cup {<<"GAIN", g>> : g \in [Channels -> 0 .. MaxGain + 1]}

ASSUME HwControllerAssumption ==
    /\ M \in Nat \ {0}
    /\ MaxGain \in Nat
    /\ Configurations \subseteq Configuration
    /\ CalGains \in Gains
    /\ GainLockInterval \in Nat
    /\ NoDummyFrames \in Nat \ {0}
    /\ Messages \subseteq Requests \cup {<<"EXIT">>, <<"unknown">>, <<"undecodable">>}
    /\ MaxMessages \in Nat /\ MaxSwitches \in Nat

VARIABLES
    cfg,            \* the configuration and the signal
    rtl,            \* rtl_daq: gains, change pending, noise, dummies, last scan
    locked,         \* sync_state >= 5
    toHwc,          \* delay_sync -> hw_controller interface, two buffers
    hwc,            \* the main loop's attributes and what is left of an iteration
    lock,           \* owner of the condition's lock: "free", "main" or "server"
    ctr_request,
    server,         \* "accept", "recv", "waiting", "woken", "reply", "close", "dead"
    connection,     \* "none", "open" or "gone" (the client has hung up)
    inbox,          \* a message that waits in the socket
    \* bounds and history
    messages, switches,
    asked, served, answered,
    refused         \* a GAIN request was broken off after its first channels

mainVars == <<hwc, refused>>
serverVars == <<server, connection, inbox, messages, asked, answered>>
chainVars == <<rtl, locked, toHwc, switches>>
vars == <<cfg, chainVars, mainVars, lock, ctr_request, serverVars, served>>

DummyFrame == [type |-> "DUMMY"]

Init ==
    /\ cfg \in Configurations
    /\ rtl = [gains |-> [m \in Channels |-> 0], new_gains |-> None, noise |-> FALSE,
              dummies |-> 0, scan |-> [m \in Channels |-> 0]]
    /\ locked = FALSE /\ toHwc = <<>>
    /\ hwc = [state |-> "INIT", gains |-> cfg.gains, last_gains |-> cfg.gains,
              tune |-> [m \in Channels |-> cfg.tune], gain_lock_cntr |-> 0,
              agc |-> FALSE, last_agc |-> FALSE, noise |-> FALSE,
              todo |-> <<>>, checks |-> FALSE]
    /\ lock = "free" /\ ctr_request = None
    /\ server = "accept" /\ connection = "none" /\ inbox = None
    /\ messages = 0 /\ switches = 0
    /\ asked = <<>> /\ served = <<>> /\ answered = 0
    /\ refused = FALSE

-----------------------------------------------------------------------------
(* The chain: rtl_daq, and delay_sync which drops a frame when both buffers *)
(* are taken                                                                *)

\* The iteration of the main loop is not over and holds a buffer.
Busy == hwc.todo # <<>> \/ hwc.checks \/ lock = "main"

\* What delay_sync makes of rtl_daq's header.  The overdrive flags are those of
\* the data sent before this frame (rd_buff_ind is brought up to date later).
SyncedHeader ==
    IF rtl.dummies > 0 THEN DummyFrame
    ELSE [type |-> "DATA", gains |-> rtl.gains, noise |-> rtl.noise, locked |-> locked,
          overdrive |-> {m \in Channels : rtl.scan[m] > cfg.limit[m]},
          scanned |-> rtl.scan]

\* A frame is sent, then the pending gains are set.
ChainFrame ==
    /\ toHwc' = IF Len(toHwc) + (IF Busy THEN 1 ELSE 0) < 2
                THEN Append(toHwc, SyncedHeader) ELSE toHwc
    /\ rtl' = [rtl EXCEPT !.gains = IF rtl.new_gains = None THEN @ ELSE rtl.new_gains,
                          !.new_gains = None,
                          !.scan = IF rtl.dummies > 0 THEN @ ELSE rtl.gains,
                          !.dummies = IF @ > 0 THEN @ - 1 ELSE 0]
    /\ UNCHANGED <<cfg, locked, switches, mainVars, lock, ctr_request, serverVars, served>>

\* delay_sync finds the channels coherent, or loses the track.
SyncChanges ==
    /\ switches < MaxSwitches
    /\ switches' = switches + 1
    /\ locked' = ~locked
    /\ UNCHANGED <<cfg, rtl, toHwc, mainVars, lock, ctr_request, serverVars, served>>

\* rtl_daq's command thread.
Accept(cmd) ==
    [rtl EXCEPT !.new_gains = IF cmd[1] = "g" THEN cmd[2] ELSE @,
                !.noise = IF cmd[1] = "n" THEN cmd[2] ELSE @,
                !.dummies = NoDummyFrames]

-----------------------------------------------------------------------------
(* Main loop: gain tuning *)

\* _change_gains
ChangeGains(h) ==
    LET g == IF cfg.unified THEN [m \in Channels |-> Min({h.gains[k] : k \in Channels})]
             ELSE h.gains
    IN  [h EXCEPT !.gains = g, !.todo = Append(@, <<"g", g>>)]

\* Mutant: the last gain of the table is never tried.
TuneGainsShort(h, f) ==
    LET stops(m) == m \in f.overdrive \/ (h.tune[m] /\ h.gains[m] = MaxGain - 1)
        rises(m) == /\ h.tune[m] /\ ~stops(m)
                    /\ cfg.unified => \A k \in Channels : k < m => ~stops(k)
        tuned == [h EXCEPT !.gains = [m \in Channels |->
                        IF m \in f.overdrive /\ @[m] # 0 THEN @[m] - 1
                        ELSE IF rises(m) THEN @[m] + 1 ELSE @[m]],
                    !.tune = [m \in Channels |->
                        /\ @[m] /\ ~stops(m)
                        /\ cfg.unified => \A k \in Channels : ~stops(k)]]
    IN  IF f.gains # h.gains THEN h ELSE ChangeGains(tuned)

\* Mutant: no end of the table.
TuneGainsEndless(h, f) ==
    LET stops(m) == m \in f.overdrive
        rises(m) == /\ h.tune[m] /\ ~stops(m)
                    /\ cfg.unified => \A k \in Channels : k < m => ~stops(k)
        tuned == [h EXCEPT !.gains = [m \in Channels |->
                        IF m \in f.overdrive /\ @[m] # 0 THEN @[m] - 1
                        ELSE IF rises(m) THEN @[m] + 1 ELSE @[m]],
                    !.tune = [m \in Channels |->
                        /\ @[m] /\ ~stops(m)
                        /\ cfg.unified => \A k \in Channels : ~stops(k)]]
    IN  IF f.gains # h.gains THEN h ELSE ChangeGains(tuned)

\* Mutant: an overdriven receiver is turned down but goes on tuning.
TuneGainsGoesOn(h, f) ==
    LET stops(m) == m \notin f.overdrive /\ h.tune[m] /\ h.gains[m] = MaxGain
        rises(m) == m \notin f.overdrive /\ h.tune[m] /\ ~stops(m)
        tuned == [h EXCEPT !.gains = [m \in Channels |->
                        IF m \in f.overdrive /\ @[m] # 0 THEN @[m] - 1
                        ELSE IF rises(m) THEN @[m] + 1 ELSE @[m]],
                    !.tune = [m \in Channels |-> @[m] /\ ~stops(m)]]
    IN  IF f.gains # h.gains THEN h ELSE ChangeGains(tuned)

\* _tune_gains: in one pass over the receivers, an overdriven one is turned
\* down and stops tuning, one still tuning goes up or stops at the top.  With
\* unified control one that stops makes all stop, those before it having moved.
TuneGains(h, f) ==
    LET stops(m) == m \in f.overdrive \/ (h.tune[m] /\ h.gains[m] = MaxGain)
        rises(m) == /\ h.tune[m] /\ ~stops(m)
                    /\ cfg.unified => \A k \in Channels : k < m => ~stops(k)
        tuned == [h EXCEPT !.gains = [m \in Channels |->
                        IF m \in f.overdrive /\ @[m] # 0 THEN @[m] - 1
                        ELSE IF rises(m) THEN @[m] + 1 ELSE @[m]],
                    !.tune = [m \in Channels |->
                        /\ @[m] /\ ~stops(m)
                        /\ cfg.unified => \A k \in Channels : ~stops(k)]]
    IN  IF f.gains # h.gains THEN h ELSE ChangeGains(tuned)

\* The next frame, once the iteration before is over.
Receive(s) ==
    /\ ~Busy
    /\ toHwc # <<>> /\ toHwc' = Tail(toHwc)
    /\ Head(toHwc) # DummyFrame
    /\ hwc.state = s
    /\ UNCHANGED <<cfg, rtl, locked, switches, lock, ctr_request, serverVars, served,
                   refused>>

HwcDummy ==
    /\ ~Busy
    /\ toHwc # <<>> /\ toHwc' = Tail(toHwc)
    /\ Head(toHwc) = DummyFrame
    /\ UNCHANGED <<cfg, rtl, locked, switches, mainVars, lock, ctr_request, serverVars,
                   served>>

HwcInit ==
    /\ Receive("INIT")
    /\ hwc' = [ChangeGains(hwc) EXCEPT
                 !.todo = Append(@, <<"n", FALSE>>),
                 !.state = IF \E m \in Channels : hwc.tune[m] THEN "GAIN_CTR_WAIT" ELSE "IQ_CAL"]

\* Mutant: the tuning does not wait for the frames with the new gains.
HwcGainCtrWaitNot ==
    /\ Receive("GAIN_CTR_WAIT")
    /\ hwc' = [hwc EXCEPT !.state = "GAIN_TUNE"]

HwcGainCtrWait ==
    /\ Receive("GAIN_CTR_WAIT")
    /\ hwc' = IF Head(toHwc).gains = hwc.gains THEN [hwc EXCEPT !.state = "GAIN_TUNE"] ELSE hwc

HwcGainTune ==
    /\ Receive("GAIN_TUNE")
    /\ hwc' = IF Head(toHwc).overdrive # {} \/ \E m \in Channels : hwc.tune[m]
              THEN [TuneGains(hwc, Head(toHwc)) EXCEPT !.state = "GAIN_CTR_WAIT",
                                                       !.gain_lock_cntr = 0]
              ELSE IF hwc.gain_lock_cntr = GainLockInterval
              THEN [hwc EXCEPT !.state = "IQ_CAL", !.gain_lock_cntr = 0]
              ELSE [hwc EXCEPT !.gain_lock_cntr = @ + 1]

-----------------------------------------------------------------------------
(* Main loop: calibration and requests *)

\* _control_noise_source
NoiseOn(h) ==
    LET saved == [h EXCEPT !.last_agc = h.agc, !.agc = FALSE,
                           !.last_gains = h.gains, !.gains = CalGains]
    IN  [ChangeGains(saved) EXCEPT !.todo = Append(@, <<"n", TRUE>>),
                                   !.noise = TRUE, !.state = "NOISE_CTR_WAIT"]

NoiseOff(h) ==
    LET off == [h EXCEPT !.todo = Append(@, <<"n", FALSE>>), !.noise = FALSE,
                         !.gains = h.last_gains, !.agc = h.last_agc]
        restored == ChangeGains(off)
    IN  [restored EXCEPT !.todo = IF h.last_agc THEN Append(@, <<"a">>) ELSE @,
                         !.state = "NOISE_CTR_WAIT"]

\* The noise source is switched as the header asks, the request is looked at
\* next.
HwcIqCal ==
    /\ Receive("IQ_CAL")
    /\ LET f == Head(toHwc)
       IN  hwc' = [(IF ~f.locked /\ ~f.noise THEN NoiseOn(hwc)
                    ELSE IF f.locked /\ f.noise THEN NoiseOff(hwc)
                    ELSE hwc) EXCEPT !.checks = TRUE]

HwcNoiseCtrWait ==
    /\ Receive("NOISE_CTR_WAIT")
    /\ hwc' = IF Head(toHwc).noise = hwc.noise /\ Head(toHwc).gains = hwc.gains
              THEN [hwc EXCEPT !.state = "IQ_CAL"] ELSE hwc

\* One command and rtl_daq's "ok".
HwcSend ==
    /\ hwc.todo # <<>>
    /\ rtl' = Accept(Head(hwc.todo))
    /\ hwc' = [hwc EXCEPT !.todo = Tail(@)]
    /\ UNCHANGED <<cfg, locked, toHwc, switches, refused, lock, ctr_request, serverVars,
                   served>>

\* The channels of a GAIN request up to the first value that is not valid; at
\* that one the exception ends the handling.
Named(g) == {m \in Channels : \A k \in Channels : k <= m => g[k] <= MaxGain}

Overwritten(old, g) == [m \in Channels |-> IF m \in Named(g) THEN g[m] ELSE old[m]]

HandleControlRequest(h, req) ==
    CASE req[1] = "FREQ" -> [h EXCEPT !.todo = Append(@, <<"c">>)]
      [] req[1] = "GAIN" ->
            LET stored == IF h.noise
                          THEN [h EXCEPT !.last_gains = Overwritten(@, req[2])]
                          ELSE [h EXCEPT !.gains = Overwritten(@, req[2])]
            IN  IF Named(req[2]) # Channels THEN stored
                ELSE [(IF h.noise THEN stored ELSE ChangeGains(stored)) EXCEPT !.agc = FALSE]
      [] req[1] = "AGC " ->
            IF h.noise THEN [h EXCEPT !.last_agc = TRUE]
            ELSE [h EXCEPT !.agc = TRUE, !.todo = Append(@, <<"a">>)]
      [] OTHER -> h

\* The lock is taken; a request that is there is handled under it.
CheckRequest ==
    /\ hwc.checks /\ hwc.todo = <<>>
    /\ lock = "free"
    /\ lock' = "main"
    /\ hwc' = [(IF ctr_request = None THEN hwc ELSE HandleControlRequest(hwc, ctr_request))
                 EXCEPT !.checks = FALSE]
    /\ refused' = \/ refused
                  \/ /\ ctr_request # None /\ ctr_request[1] = "GAIN"
                     /\ Named(ctr_request[2]) # Channels
    /\ UNCHANGED <<cfg, chainVars, ctr_request, serverVars, served>>

\* Mutant: the server is not notified.
FinishRequestSilent ==
    /\ lock = "main" /\ hwc.todo = <<>>
    /\ lock' = "free"
    /\ ctr_request' = None
    /\ served' = IF ctr_request = None THEN served ELSE Append(served, ctr_request)
    /\ UNCHANGED <<cfg, chainVars, mainVars, serverVars>>

\* Its commands are sent: it is cleared, the server is notified, the lock given
\* back.
FinishRequest ==
    /\ lock = "main" /\ hwc.todo = <<>>
    /\ lock' = "free"
    /\ ctr_request' = None
    /\ served' = IF ctr_request = None THEN served ELSE Append(served, ctr_request)
    /\ server' = IF ctr_request # None /\ server = "waiting" THEN "woken" ELSE server
    /\ UNCHANGED <<cfg, chainVars, mainVars, connection, inbox, messages, asked, answered>>

-----------------------------------------------------------------------------
(* Client *)

ClientUnchanged ==
    UNCHANGED <<cfg, chainVars, mainVars, lock, ctr_request, served, asked, answered>>

Connect ==
    /\ server = "accept" /\ connection = "none"
    /\ messages < MaxMessages
    /\ connection' = "open"
    /\ server' = "recv"
    /\ UNCHANGED <<inbox, messages>>
    /\ ClientUnchanged

\* A client need not wait for the answer to its last message.
ClientSends ==
    /\ connection = "open" /\ inbox = None
    /\ messages < MaxMessages
    /\ messages' = messages + 1
    /\ inbox' \in Messages
    /\ UNCHANGED <<server, connection>>
    /\ ClientUnchanged

HangUp ==
    /\ connection = "open"
    /\ connection' = "gone"
    /\ UNCHANGED <<server, inbox, messages>>
    /\ ClientUnchanged

-----------------------------------------------------------------------------
(* Server thread: run and process_ctr_frame *)

\* A message is read, then the lock is taken.
TakeMessage(kind) ==
    /\ server = "recv" /\ inbox # None /\ lock = "free"
    /\ inbox' = None
    /\ kind = IF inbox \in Requests THEN "request" ELSE inbox[1]
    /\ UNCHANGED <<cfg, chainVars, mainVars, messages, served, answered>>

\* Mutant: the request is handed over without a wait for its turn.
HandOverAtOnce ==
    /\ TakeMessage("request")
    /\ ctr_request' = inbox
    /\ asked' = Append(asked, inbox)
    /\ server' = "reply"
    /\ UNCHANGED <<lock, connection>>

\* The request is stored and the thread waits; waiting gives the lock back.
HandOver ==
    /\ TakeMessage("request")
    /\ ctr_request' = inbox
    /\ asked' = Append(asked, inbox)
    /\ server' = "waiting"
    /\ UNCHANGED <<lock, connection>>

\* An unknown command stores nothing, and waits like the others.
WaitForNothing ==
    /\ TakeMessage("unknown")
    /\ server' = "waiting"
    /\ UNCHANGED <<lock, ctr_request, connection, asked>>

\* Mutant: the early return leaves the lock taken.
TakeExitKeepsLock ==
    /\ TakeMessage("EXIT")
    /\ server' = "close"
    /\ lock' = "server"
    /\ UNCHANGED <<ctr_request, connection, asked>>

\* EXIT gives the lock back and ends the connection without an answer.
TakeExit ==
    /\ TakeMessage("EXIT")
    /\ server' = "close"
    /\ UNCHANGED <<lock, ctr_request, connection, asked>>

\* decode or unpack raises: the connection is closed and the thread ends with
\* the lock taken.
FailUnderLock ==
    /\ TakeMessage("undecodable")
    /\ lock' = "server"
    /\ connection' = "none"
    /\ server' = "dead"
    /\ UNCHANGED <<ctr_request, asked>>

\* Notified, the thread takes the lock again and gives it back.
Resume ==
    /\ server = "woken" /\ lock = "free"
    /\ server' = "reply"
    /\ UNCHANGED <<cfg, chainVars, mainVars, lock, ctr_request, connection, inbox, messages,
                   asked, served, answered>>

\* FNSD goes out.  When the client is gone the write may be swallowed or raise,
\* which ends the thread (the lock is free).
SendAnswer ==
    /\ server = "reply"
    /\ \/ /\ connection = "open"
          /\ server' = "recv"
          /\ answered' = answered + 1
          /\ UNCHANGED connection
       \/ /\ connection = "gone"
          /\ server' = "recv"
          /\ UNCHANGED <<answered, connection>>
       \/ /\ connection = "gone"
          /\ server' = "dead"
          /\ connection' = "none"
          /\ UNCHANGED answered
    /\ UNCHANGED <<cfg, chainVars, mainVars, lock, ctr_request, inbox, messages, asked, served>>

\* The client's end is closed and all it sent is read.  If it was reset, with an answer
\* unread, recv raises, which ends the thread.
EndOfData ==
    /\ server = "recv" /\ connection = "gone" /\ inbox = None
    /\ \/ server' = "close" /\ UNCHANGED connection
       \/ server' = "dead" /\ connection' = "none"
    /\ UNCHANGED <<cfg, chainVars, mainVars, lock, ctr_request, inbox, messages,
                   asked, served, answered>>

CloseConnection ==
    /\ server = "close"
    /\ server' = "accept"
    /\ connection' = "none"
    /\ inbox' = None
    /\ UNCHANGED <<cfg, chainVars, mainVars, lock, ctr_request, messages, asked, served,
                   answered>>

-----------------------------------------------------------------------------
MainStep ==
    \/ HwcDummy \/ HwcInit \/ HwcGainCtrWait \/ HwcGainTune \/ HwcIqCal \/ HwcNoiseCtrWait
    \/ HwcSend \/ CheckRequest \/ FinishRequest

ServerStep ==
    \/ HandOver \/ WaitForNothing \/ TakeExit \/ FailUnderLock \/ Resume \/ SendAnswer
    \/ EndOfData \/ CloseConnection

ClientStep == Connect \/ ClientSends \/ HangUp

Next == ChainFrame \/ SyncChanges \/ MainStep \/ ServerStep \/ ClientStep

Spec == Init /\ [][Next]_vars

\* The receivers sample continuously and both threads are scheduled; the server
\* gets a lock that comes free again and again.  Clients and delay_sync owe
\* nothing.
FairSpec ==
    /\ Spec
    /\ WF_vars(ChainFrame) /\ WF_vars(MainStep) /\ SF_vars(ServerStep)

-----------------------------------------------------------------------------
(* Safety *)

Command == {<<"c">>, <<"a">>} \cup {<<"g", g>> : g \in Gains} \cup {<<"n", b>> : b \in BOOLEAN}
DataFrame == [type : {"DATA"}, gains : Gains, noise : BOOLEAN, locked : BOOLEAN,
              overdrive : SUBSET Channels, scanned : Gains]
Frame == {DummyFrame} \cup DataFrame
RtlType == [gains : Gains, new_gains : Gains \cup {None}, noise : BOOLEAN,
            dummies : 0 .. NoDummyFrames, scan : Gains]
HwcType ==
    [state : {"INIT", "GAIN_CTR_WAIT", "GAIN_TUNE", "IQ_CAL", "NOISE_CTR_WAIT"},
     gains : Gains, last_gains : Gains, tune : [Channels -> BOOLEAN],
     gain_lock_cntr : 0 .. GainLockInterval, agc : BOOLEAN, last_agc : BOOLEAN,
     noise : BOOLEAN, todo : Seq(Command), checks : BOOLEAN]

\* Shape of the state.
TypeOK ==
    /\ cfg \in Configurations
    /\ rtl \in RtlType /\ locked \in BOOLEAN
    /\ toHwc \in Seq(Frame) /\ Len(toHwc) <= 2
    /\ hwc \in HwcType /\ Len(hwc.todo) <= 4
    /\ lock \in {"free", "main", "server"}
    /\ ctr_request \in Requests \cup {None}
    /\ server \in {"accept", "recv", "waiting", "woken", "reply", "close", "dead"}
    /\ connection \in {"none", "open", "gone"}
    /\ inbox \in Messages \cup {None}
    /\ refused \in BOOLEAN

\* The tuning judges each setting by samples taken with it, although headers
\* come late and their overdrive flags are one frame older than the rest
\* (STATE_GAIN_CTR_WAIT uses up the frame with the old flags).
JudgedAtItsGains ==
    hwc.state = "GAIN_TUNE" =>
        \A i \in DOMAIN toHwc : toHwc[i] # DummyFrame => toHwc[i].scanned = hwc.gains

\* The highest gains that overdrive no receiver.
Cap(m) == Min({cfg.limit[m], MaxGain})
BestGains == IF cfg.unified THEN [m \in Channels |-> Min({Cap(k) : k \in Channels})]
             ELSE [m \in Channels |-> Cap(m)]

\* Every receiver can be used at some gain.
Tunable == ~cfg.tune \/ \A m \in Channels : cfg.limit[m] >= 0

\* The gains left by _tune_gains are the highest that overdrive no receiver:
\* no tuning step overshoots, stops early or is taken twice.
TunedToTheLimit ==
    /\ cfg.tune /\ Tunable
    /\ hwc.state = "IQ_CAL" /\ ~hwc.noise
    /\ \A i \in DOMAIN asked : asked[i][1] # "GAIN"
    => hwc.gains = BestGains

\* The threads implement the request-reply service: no request is overwritten,
\* carried out twice or answered before its commands have been sent.
Service == INSTANCE RequestReply
RequestsRefined == Service!RequestSpec

-----------------------------------------------------------------------------
(* The inductive invariant behind them *)

Tuning == hwc.state \in {"INIT", "GAIN_CTR_WAIT", "GAIN_TUNE"}

\* A request is looked at only when the tuning is over.
RequestsLater == Tuning => ~hwc.checks /\ lock # "main" /\ ~hwc.noise

\* The overdrive flags belong to the samples taken before the frame.
FlagsOfScan ==
    \A i \in DOMAIN toHwc : toHwc[i] # DummyFrame =>
        toHwc[i].overdrive = {m \in Channels : toHwc[i].scanned[m] > cfg.limit[m]}

\* The frames whose header shows the gains g, and those that do not show them or were
\* not taken with them; the frames that show the noise state n, and those that do not.
With(g) == {f \in DataFrame : f.gains = g}
NotBy(g) == {f \in DataFrame : f.gains # g \/ f.scanned # g}
Showing(n) == {f \in DataFrame : f.noise = n}
NotShowing(n) == {f \in DataFrame : f.noise # n}

\* The commands of the kind what that are still to be sent all say x.
Only(todo, what, x) == \A i \in DOMAIN todo : todo[i][1] = what => todo[i][2] = x

\* r and q are the states of rtl_daq and the queue, h the controller's attributes.

SettledAt(r, g) == r.gains = g /\ r.scan = g

\* No gain has been set yet.
Untouched(h, r, q) ==
    /\ h.todo = <<>> /\ r.new_gains = None /\ SettledAt(r, r.gains)
    /\ Clear(q, NotBy(r.gains))

\* The tuning sends the gains it believes in.  The header of a frame that shows them
\* ends the wait, and all frames behind it were taken with them.
GainsTurn(h, r, q) ==
    /\ Only(h.todo, "g", h.gains)
    /\ r.gains = h.gains => r.new_gains \in {None, h.gains}
    /\ Turns(q, With(h.gains), NotBy(h.gains))
    /\ ~Clear(q, With(h.gains)) => SettledAt(r, h.gains)
    /\ h.state = "GAIN_TUNE" => SettledAt(r, h.gains) /\ Clear(q, NotBy(h.gains))

\* The same of the noise source.
NoiseTurns(h, r, q) ==
    /\ Only(h.todo, "n", h.noise)
    /\ Turns(q, Showing(h.noise), NotShowing(h.noise))
    /\ ~Clear(q, Showing(h.noise)) => r.noise = h.noise
    /\ h.state # "NOISE_CTR_WAIT" => r.noise = h.noise /\ Clear(q, NotShowing(h.noise))

HeadersInOrder(h, r, q) ==
    /\ NoiseTurns(h, r, q)
    /\ h.state = "INIT" => Untouched(h, r, q)
    /\ h.state \in {"GAIN_CTR_WAIT", "GAIN_TUNE"} => GainsTurn(h, r, q)

\* A receiver that has stopped tuning is not below its best gain; with unified control
\* all have the same gain and stop together.
NotBelow(h) ==
    /\ \A m \in Channels : h.tune[m] \/ h.gains[m] >= BestGains[m]
    /\ cfg.unified => \A m, k \in Channels : /\ h.gains[m] = h.gains[k]
                                            /\ h.tune[m] = h.tune[k]

NoGainAsked == \A i \in DOMAIN asked : asked[i][1] # "GAIN"

\* After the tuning the best gains are in use, or saved while those of the calibration are.
BestKept(h) == (IF h.noise THEN h.last_gains ELSE h.gains) = BestGains

Progress(h) ==
    CASE h.state = "INIT" -> \A m \in Channels : h.tune[m]
      [] h.state \in {"GAIN_CTR_WAIT", "GAIN_TUNE"} -> NotBelow(h)
      [] OTHER -> NoGainAsked => BestKept(h)

IInv ==
    /\ TypeOK /\ RequestsLater /\ FlagsOfScan
    /\ HeadersInOrder(hwc, rtl, toHwc)
    /\ cfg.tune /\ Tunable => Progress(hwc)

-----------------------------------------------------------------------------
(* Liveness *)

\* Gain tuning comes to an end when every receiver has a gain to settle at.
TuningEnds == Tunable => <>(hwc.state = "IQ_CAL")

\* A GAIN request broken off in the iteration that ended a calibration: the
\* controller waits for gains it has never sent.
Stuck == refused /\ hwc.state = "NOISE_CTR_WAIT" /\ hwc.gains # rtl.gains

\* Every request handed over is carried out and the server released (no
\* notification is lost), unless tuning never ends or the controller is stuck
\* for ever.
RequestAnswered ==
    Tunable => \/ <>[]Stuck
               \/ (ctr_request # None) ~> (server \in {"recv", "dead"})

\* The main loop gets the lock it asks for, on whatever way the server has
\* left process_ctr_frame, except by an exception.
LockObtained == hwc.checks ~> (~hwc.checks \/ (lock = "server" /\ server = "dead"))
=============================================================================
