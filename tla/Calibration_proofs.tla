------------------------- MODULE Calibration_proofs -------------------------
(***************************************************************************)
(* Machine-checked proofs about the calibration loop, for every set of     *)
(* frequencies and gains, every depth of the chain and every number of     *)
(* dummy frames, drops, bad measurements and requests.                     *)
(***************************************************************************)
EXTENDS Calibration, QueueLemmas

\* What the configuration must satisfy for the noise source to be switched once
\* at a time: between two bursts there is a frame without one, and no operator has to
\* approve the end of a calibration (so that it comes before the next burst).
BurstsFit == CalTrackMode = 2 => ~RequireTrackLock /\ CalFrameInterval >= 2

-----------------------------------------------------------------------------
(* The three queues of the chain *)

LEMMA NoneInOrder ==
    ASSUME NEW h, NEW s, NEW d, NEW N, NEW O,
           NoneOf(h, s, d, N) \/ NoneOf(h, s, d, O)
    PROVE  InOrder(h, s, d, N, O)
BY DEF NoneOf, InOrder, Clear, Turns, After

\* rtl_daq sends no old frame after a new one.
LEMMA OrderSend ==
    ASSUME NEW S, NEW T, NEW N, NEW O, NEW h \in Seq(T), NEW s \in Seq(S), NEW d \in Seq(S),
           NEW x \in S,
           InOrder(h, s, d, N, O), NoneOf(h, s, d, N) \/ x \notin O
    PROVE  InOrder(h, s, Append(d, x), N, O)
<1>1. Turns(Append(d, x), N, O)
  BY TurnsAppend DEF InOrder, NoneOf
<1>2. After(h, Append(d, x), N, O) /\ After(s, Append(d, x), N, O)
  <2>1. CASE x \notin O
    BY <2>1, ClearAppend DEF InOrder, After
  <2>2. CASE NoneOf(h, s, d, N)
    BY <2>2 DEF NoneOf, After, Clear
  <2> QED
    BY <2>1, <2>2
<1> QED
  BY <1>1, <1>2 DEF InOrder

\* A frame moves from the first queue to the second, or is dropped.
LEMMA OrderDecimate ==
    ASSUME NEW S, NEW T, NEW N, NEW O, NEW h \in Seq(T), NEW s \in Seq(S), NEW d \in Seq(S),
           d # <<>>, InOrder(h, s, d, N, O)
    PROVE  /\ InOrder(h, s, Tail(d), N, O)
           /\ InOrder(h, Append(s, Head(d)), Tail(d), N, O)
<1> DEFINE x == Head(d)
<1>1. x \in S /\ Tail(d) \in Seq(S) /\ (Clear(d, O) => x \notin O /\ Clear(Tail(d), O))
  BY TailElements, ClearTail
<1>2. Turns(Tail(d), N, O) /\ (x \in N => Clear(Tail(d), O))
  BY TurnsTail DEF InOrder
<1>3. After(h, Tail(d), N, O) /\ After(s, Tail(d), N, O)
  BY <1>1 DEF InOrder, After
<1> HIDE DEF x
<1>4. Turns(Append(s, x), N, O)
  BY <1>1, TurnsAppend DEF InOrder, After, Clear
<1>5. After(h, Append(s, x), N, O)
  BY <1>1, ClearAppend DEF InOrder, After
<1>6. After(Append(s, x), Tail(d), N, O)
  <2> SUFFICES ASSUME NEW i \in DOMAIN Append(s, x), Append(s, x)[i] \in N
               PROVE  Clear(Tail(d), O)
    BY DEF After
  <2>1. \/ i \in DOMAIN s /\ s[i] \in N
        \/ x \in N
    BY <1>1, AppendElements
  <2> QED
    BY <1>2, <1>3, <2>1 DEF After
<1> QED
  BY <1>2, <1>3, <1>4, <1>5, <1>6 DEF InOrder, x

\* A frame moves from the second queue to the third as y, or is dropped.
LEMMA OrderForward ==
    ASSUME NEW S, NEW T, NEW N, NEW O, NEW h \in Seq(T), NEW s \in Seq(S), NEW d \in Seq(S),
           s # <<>>, InOrder(h, s, d, N, O),
           NEW y \in T, y \in N <=> Head(s) \in N, y \in O <=> Head(s) \in O
    PROVE  /\ InOrder(h, Tail(s), d, N, O)
           /\ InOrder(Append(h, y), Tail(s), d, N, O)
<1> DEFINE x == Head(s)
<1>1. /\ x \in S /\ Tail(s) \in Seq(S)
      /\ Clear(s, O) => x \notin O /\ Clear(Tail(s), O)
      /\ Clear(s, N) => x \notin N /\ Clear(Tail(s), N)
  BY TailElements, ClearTail
<1>2. Turns(Tail(s), N, O) /\ (x \in N => Clear(Tail(s), O))
  BY TurnsTail DEF InOrder
<1>3. After(h, Tail(s), N, O)
  BY <1>1 DEF InOrder, After
<1>4. /\ After(Tail(s), d, N, O)
      /\ x \in N => Clear(d, O)
  BY <1>1 DEF InOrder, After, Clear
<1> HIDE DEF x
<1>5. Turns(Append(h, y), N, O)
  <2>1. Clear(h, N) \/ y \notin O
    BY <1>1 DEF InOrder, After, Clear, x
  <2> QED
    BY <2>1, TurnsAppend DEF InOrder
<1>6. After(Append(h, y), Tail(s), N, O) /\ After(Append(h, y), d, N, O)
  <2> SUFFICES ASSUME NEW i \in DOMAIN Append(h, y), Append(h, y)[i] \in N
               PROVE  Clear(Tail(s), O) /\ Clear(d, O)
    BY DEF After
  <2>1. \/ i \in DOMAIN h /\ h[i] \in N
        \/ y \in N
    BY AppendElements
  <2>2. CASE y \in N
    BY <1>2, <1>4, <2>2 DEF x
  <2>3. CASE \E k \in DOMAIN h : h[k] \in N
    BY <1>3, <2>3 DEF InOrder, After
  <2> QED
    BY <2>1, <2>2, <2>3
<1> QED
  BY <1>2, <1>3, <1>4, <1>5, <1>6 DEF InOrder

\* The controller takes a frame; when it is a new one, no old one is left.
LEMMA OrderTake ==
    ASSUME NEW S, NEW T, NEW N, NEW O, NEW h \in Seq(T), NEW s \in Seq(S), NEW d \in Seq(S),
           h # <<>>, InOrder(h, s, d, N, O)
    PROVE  /\ InOrder(Tail(h), s, d, N, O)
           /\ Head(h) \in N => NoneOf(Tail(h), s, d, O)
<1>1. Turns(Tail(h), N, O) /\ (Head(h) \in N => Clear(Tail(h), O))
  BY TurnsTail DEF InOrder
<1>2. /\ After(Tail(h), s, N, O) /\ After(Tail(h), d, N, O)
      /\ Head(h) \in N => Clear(s, O) /\ Clear(d, O)
  BY ClearTail DEF InOrder, After, Clear
<1> QED
  BY <1>1, <1>2 DEF InOrder, NoneOf

LEMMA NoneSteps ==
    ASSUME NEW S, NEW T, NEW N, NEW h \in Seq(T), NEW s \in Seq(S), NEW d \in Seq(S),
           NoneOf(h, s, d, N)
    PROVE  /\ \A x \in S : x \notin N => NoneOf(h, s, Append(d, x), N)
           /\ d # <<>> => /\ NoneOf(h, s, Tail(d), N)
                          /\ NoneOf(h, Append(s, Head(d)), Tail(d), N)
           /\ s # <<>> => /\ Head(s) \notin N /\ NoneOf(h, Tail(s), d, N)
                          /\ \A y \in T : y \notin N => NoneOf(Append(h, y), Tail(s), d, N)
           /\ h # <<>> => NoneOf(Tail(h), s, d, N)
<1>1. \A x \in S : x \notin N => NoneOf(h, s, Append(d, x), N)
  BY ClearAppend DEF NoneOf
<1>2. ASSUME d # <<>>
      PROVE  NoneOf(h, s, Tail(d), N) /\ NoneOf(h, Append(s, Head(d)), Tail(d), N)
  <2>1. Head(d) \in S /\ Head(d) \notin N /\ Clear(Tail(d), N)
    BY <1>2, TailElements, ClearTail DEF NoneOf
  <2> QED
    BY <2>1, ClearAppend DEF NoneOf
<1>3. ASSUME s # <<>>
      PROVE  /\ Head(s) \notin N /\ NoneOf(h, Tail(s), d, N)
             /\ \A y \in T : y \notin N => NoneOf(Append(h, y), Tail(s), d, N)
  BY <1>3, ClearTail, ClearAppend DEF NoneOf
<1>4. h # <<>> => NoneOf(Tail(h), s, d, N)
  BY ClearTail DEF NoneOf
<1> QED
  BY <1>1, <1>2, <1>3, <1>4
-----------------------------------------------------------------------------
(* What the steps do to each part of the state *)

LEMMA ConstantFacts ==
    /\ None = 0 /\ None \notin Freqs /\ None \notin Gains
    /\ CalGain \in Gains /\ UserGains \subseteq Gains
    /\ NoDummyFrames \in Nat \ {0} /\ UpstreamDepth \in Nat \ {0}
    /\ MaxSyncFails \in Nat \ {0}
    /\ CalFrameInterval \in Nat \ {0} /\ CalFrameBurstSize \in Nat \ {0}
    /\ MaxDrops \in Nat /\ MaxBad \in Nat /\ MaxRequests \in Nat
BY CalibrationAssumption DEF None, Gains

\* The command thread.
LEMMA AcceptEffect ==
    ASSUME NEW r \in RtlType
    PROVE  /\ \A f \in Freqs : Accept(r, <<"c", f>>) =
                 [r EXCEPT !.new_rf = f, !.dummies_due = NoDummyFrames]
           /\ \A g \in Gains : Accept(r, <<"g", g>>) =
                 [r EXCEPT !.new_gain = g, !.dummies_due = NoDummyFrames]
           /\ \A b \in BOOLEAN : Accept(r, <<"n", b>>) =
                 [r EXCEPT !.noise = b, !.dummies_due = NoDummyFrames]
           /\ Accept(r, <<"a">>) = [r EXCEPT !.agc_change = TRUE, !.dummies_due = NoDummyFrames]
           /\ Accept(r, <<"s">>) = [r EXCEPT !.dummies_due = NoDummyFrames]
<1>1. ASSUME NEW f \in Freqs
      PROVE  Accept(r, <<"c", f>>) = [r EXCEPT !.new_rf = f, !.dummies_due = NoDummyFrames]
  BY <1>1 DEF Accept, RtlType
<1>2. ASSUME NEW g \in Gains
      PROVE  Accept(r, <<"g", g>>) = [r EXCEPT !.new_gain = g, !.dummies_due = NoDummyFrames]
  BY <1>2 DEF Accept, RtlType
<1>3. ASSUME NEW b \in BOOLEAN
      PROVE  Accept(r, <<"n", b>>) = [r EXCEPT !.noise = b, !.dummies_due = NoDummyFrames]
  BY <1>3 DEF Accept, RtlType
<1>4. Accept(r, <<"a">>) = [r EXCEPT !.agc_change = TRUE, !.dummies_due = NoDummyFrames]
  BY DEF Accept, RtlType
<1>5. Accept(r, <<"s">>) = [r EXCEPT !.dummies_due = NoDummyFrames]
  BY DEF Accept, RtlType
<1> QED
  BY <1>1, <1>2, <1>3, <1>4, <1>5

LEMMA AcceptType ==
    ASSUME NEW r \in RtlType, NEW cmd \in Command \cup {<<"s">>}
    PROVE  Accept(r, cmd) \in RtlType
<1>1. NoDummyFrames \in 0 .. NoDummyFrames
  BY ConstantFacts
<1>2. CASE \E f \in Freqs : cmd = <<"c", f>>
  <2>1. PICK f \in Freqs : cmd = <<"c", f>>
    BY <1>2
  <2>2. Accept(r, cmd) = [r EXCEPT !.new_rf = f, !.dummies_due = NoDummyFrames]
    BY <2>1 DEF Accept, RtlType
  <2> QED
    BY <1>1, <2>2 DEF RtlType
<1>3. CASE \E g \in Gains : cmd = <<"g", g>>
  <2>1. PICK g \in Gains : cmd = <<"g", g>>
    BY <1>3
  <2>2. Accept(r, cmd) = [r EXCEPT !.new_gain = g, !.dummies_due = NoDummyFrames]
    BY <2>1 DEF Accept, RtlType
  <2> QED
    BY <1>1, <2>2 DEF RtlType
<1>4. CASE \E b \in BOOLEAN : cmd = <<"n", b>>
  <2>1. PICK b \in BOOLEAN : cmd = <<"n", b>>
    BY <1>4
  <2>2. Accept(r, cmd) = [r EXCEPT !.noise = b, !.dummies_due = NoDummyFrames]
    BY <2>1, AcceptEffect
  <2> QED
    BY <1>1, <2>2 DEF RtlType
<1>5. CASE cmd = <<"a">>
  <2>1. Accept(r, cmd) = [r EXCEPT !.agc_change = TRUE, !.dummies_due = NoDummyFrames]
    BY <1>5, AcceptEffect
  <2> QED
    BY <1>1, <2>1 DEF RtlType
<1>6. CASE cmd = <<"s">>
  BY <1>1, <1>6, AcceptEffect DEF RtlType
<1> QED
  BY <1>2, <1>3, <1>4, <1>5, <1>6 DEF Command

\* A header says what rtl_daq is set to, or is a dummy's.
LEMMA HeaderFacts ==
    ASSUME NEW r \in RtlType
    PROVE  /\ Header(r) \in Frame
           /\ Header(r) \notin Showing(~r.noise)
<1>1. CASE r.dummies_due > 0
  BY <1>1 DEF Header, Frame, Showing
<1>2. CASE ~(r.dummies_due > 0)
  BY <1>2 DEF Header, Frame, RtlType, Showing
<1> QED
  BY <1>1, <1>2

LEMMA AppliedFacts ==
    ASSUME NEW r \in RtlType
    PROVE  /\ Applied(r) \in RtlType
           /\ Applied(r).noise = r.noise
           /\ Applied(r).new_gain = None
           /\ Applied(r).gain = IF r.new_gain = None THEN r.gain ELSE r.new_gain
<1>1. (IF r.dummies_due > 0 THEN r.dummies_due - 1 ELSE 0) \in 0 .. NoDummyFrames
  BY ConstantFacts DEF RtlType
<1>2. (r.agc_change \/ (r.agc /\ r.new_gain = None)) \in BOOLEAN
  OBVIOUS
<1> QED
  BY <1>1, <1>2 DEF Applied, RtlType

\* What delay_sync passes on for a frame; it shows the same noise state.
Passed(f, sync) ==
    IF f = DummyFrame THEN f
    ELSE [type |-> f.type, noise |-> f.noise, gain |-> f.gain, sync |-> sync]

LEMMA PassedFacts ==
    ASSUME NEW f \in Frame, NEW sync \in 0 .. 6, f = DummyFrame \/ sync # 0
    PROVE  /\ Passed(f, sync) \in SyncedFrame
           /\ \A b \in BOOLEAN : Passed(f, sync) \in Showing(b) <=> f \in Showing(b)
<1>1. CASE f = DummyFrame
  BY <1>1 DEF Passed, SyncedFrame, Showing
<1>2. CASE f # DummyFrame
  <2>1. /\ f \in [type : {"CAL", "DATA"}, noise : BOOLEAN, rf : Freqs, gain : Gains]
        /\ sync \in 1 .. 6
    BY <1>2 DEF Frame
  <2>2. Passed(f, sync) =
           [type |-> f.type, noise |-> f.noise, gain |-> f.gain, sync |-> sync]
    BY <1>2 DEF Passed
  <2>3. /\ Passed(f, sync) \in SyncedFrame /\ Passed(f, sync).noise = f.noise
        /\ Passed(f, sync).type = f.type
    BY <2>1, <2>2 DEF SyncedFrame
  <2>4. Passed(f, sync) # DummyFrame
    BY <2>1, <2>3 DEF DummyFrame
  <2> QED
    BY <1>2, <2>3, <2>4 DEF Showing
<1> QED
  BY <1>1, <1>2
\* The messages the controller sends together.
LEMMA Messages ==
    /\ \A f \in Freqs : <<"c", f>> \in Command
    /\ \A g \in Gains : <<"g", g>> \in Command
    /\ \A b \in BOOLEAN : <<"n", b>> \in Command
    /\ <<"a">> \in Command
BY DEF Command

LEMMA MessagePairs ==
    /\ <<<<"g", CalGain>>, <<"n", TRUE>>>> \in Seq(Command)
    /\ \A g \in Gains : /\ <<<<"n", FALSE>>, <<"g", g>>>> \in Seq(Command)
                        /\ <<<<"g", g>>, <<"n", FALSE>>>> \in Seq(Command)
    /\ <<<<"a">>>> \in Seq(Command)
<1>1. <<"g", CalGain>> \in Command /\ <<"n", TRUE>> \in Command /\ <<"n", FALSE>> \in Command
      /\ <<"a">> \in Command
  BY Messages, ConstantFacts
<1>2. <<<<"g", CalGain>>, <<"n", TRUE>>>> \in Seq(Command)
  BY <1>1
<1>3. ASSUME NEW g \in Gains
      PROVE  /\ <<<<"n", FALSE>>, <<"g", g>>>> \in Seq(Command)
             /\ <<<<"g", g>>, <<"n", FALSE>>>> \in Seq(Command)
  <2>1. <<"g", g>> \in Command
    BY <1>3, Messages
  <2> QED
    BY <1>1, <2>1
<1>4. <<<<"a">>>> \in Seq(Command)
  BY <1>1
<1> QED
  BY <1>2, <1>3, <1>4

LEMMA NoiseOnType ==
    ASSUME NEW h \in HwcType
    PROVE  NoiseOn(h) \in HwcType
<1>1. h.todo \o <<<<"g", CalGain>>, <<"n", TRUE>>>> \in Seq(Command)
  <2>1. h.todo \in Seq(Command)
    BY DEF HwcType
  <2> QED
    BY <2>1, MessagePairs, ConcatProperties
<1>2. CalGain \in Gains
  BY ConstantFacts
<1> QED
  BY <1>1, <1>2 DEF NoiseOn, HwcType

LEMMA NoiseOffType ==
    ASSUME NEW h \in HwcType
    PROVE  NoiseOff(h) \in HwcType
<1>1. h.todo \in Seq(Command) /\ h.last_gains \in Gains /\ h.last_agc \in BOOLEAN
  BY DEF HwcType
<1>2. (IF h.last_agc THEN <<<<"a">>>> ELSE <<>>) \in Seq(Command)
  BY MessagePairs, EmptySeq
<1>3. h.todo \o <<<<"n", FALSE>>, <<"g", h.last_gains>>>> \in Seq(Command)
  BY <1>1, MessagePairs, ConcatProperties
<1>4. h.todo \o <<<<"n", FALSE>>, <<"g", h.last_gains>>>>
         \o (IF h.last_agc THEN <<<<"a">>>> ELSE <<>>) \in Seq(Command)
  BY <1>2, <1>3, ConcatProperties
<1> QED
  BY <1>1, <1>4 DEF NoiseOff, HwcType

LEMMA BurstType ==
    ASSUME NEW h \in HwcType, NEW f
    PROVE  Burst(h, f) \in HwcType
<1> DEFINE n == h.cal_frame_cntr + 1
           k == [h EXCEPT !.cal_frame_cntr = n]
<1>1. /\ CalFrameInterval \in Nat \ {0} /\ CalFrameBurstSize \in Nat \ {0}
      /\ h.cal_frame_cntr \in 0 .. CalFrameInterval + CalFrameBurstSize - 1
  BY ConstantFacts DEF HwcType
<1>2. [h EXCEPT !.cal_frame_cntr = 0] \in HwcType
  <2>1. 0 \in 0 .. CalFrameInterval + CalFrameBurstSize - 1
    BY <1>1
  <2> QED
    BY <2>1 DEF HwcType
<1>3. CASE n # CalFrameInterval + CalFrameBurstSize
  <2>1. n \in 0 .. CalFrameInterval + CalFrameBurstSize - 1
    BY <1>1, <1>3
  <2>2. k \in HwcType
    BY <2>1 DEF HwcType
  <2> HIDE DEF k, n
  <2>3. Burst(h, f) \in {h, [h EXCEPT !.cal_frame_cntr = 0], NoiseOn(k), k}
    BY <1>3 DEF Burst, k, n
  <2> QED
    BY <1>2, <2>2, <2>3, NoiseOnType
<1>4. CASE n = CalFrameInterval + CalFrameBurstSize
  <2>1. n # CalFrameInterval
    BY <1>1, <1>4
  <2>2. [NoiseOff(k) EXCEPT !.cal_frame_cntr = 0] \in HwcType
    <3>1. NoiseOff(h) \in HwcType
      BY NoiseOffType
    <3>2. [NoiseOff(k) EXCEPT !.cal_frame_cntr = 0]
             = [NoiseOff(h) EXCEPT !.cal_frame_cntr = 0]
      BY DEF NoiseOff, HwcType
    <3>3. 0 \in 0 .. CalFrameInterval + CalFrameBurstSize - 1
      BY <1>1
    <3> QED
      BY <3>1, <3>2, <3>3 DEF HwcType
  <2> HIDE DEF k, n
  <2>3. Burst(h, f) \in {h, [h EXCEPT !.cal_frame_cntr = 0],
                         [NoiseOff(k) EXCEPT !.cal_frame_cntr = 0]}
    BY <1>4, <2>1 DEF Burst, k, n
  <2> QED
    BY <1>2, <2>2, <2>3
<1> QED
  BY <1>3, <1>4

LEMMA NoiseControlType ==
    ASSUME NEW h \in HwcType, NEW f, NEW approval
    PROVE  NoiseControl(h, f, approval) \in HwcType
<1>1. NoiseControl(h, f, approval) \in {h, NoiseOn(h), NoiseOff(h)}
  BY DEF NoiseControl
<1> QED
  BY <1>1, NoiseOnType, NoiseOffType
LEMMA RequestCases ==
    ASSUME NEW req \in Requests \cup {<<>>}
    PROVE  \/ req = <<>>
           \/ req # <<>> /\ \E f \in Freqs : req = <<"FREQ", f>>
           \/ req # <<>> /\ \E g \in UserGains : req = <<"GAIN", g>>
           \/ req # <<>> /\ req = <<"AGC ">>
BY DEF Requests

\* The four ways of handling a request.
LEMMA RequestEffect ==
    ASSUME NEW h \in HwcType
    PROVE  /\ HandleControlRequest(h, <<>>) = h
           /\ \A f \in Freqs : HandleControlRequest(h, <<"FREQ", f>>) =
                 [h EXCEPT !.todo = Append(h.todo, <<"c", f>>)]
           /\ \A g \in UserGains : HandleControlRequest(h, <<"GAIN", g>>) =
                 IF h.noise THEN [h EXCEPT !.last_gains = g, !.agc = FALSE]
                 ELSE [h EXCEPT !.gains = g, !.agc = FALSE,
                                !.todo = Append(h.todo, <<"g", g>>)]
           /\ HandleControlRequest(h, <<"AGC ">>) =
                 IF h.noise THEN [h EXCEPT !.last_agc = TRUE]
                 ELSE [h EXCEPT !.agc = TRUE, !.todo = Append(h.todo, <<"a">>)]
<1>1. HandleControlRequest(h, <<>>) = h
  BY DEF HandleControlRequest
<1>2. ASSUME NEW f \in Freqs
      PROVE  HandleControlRequest(h, <<"FREQ", f>>) =
                [h EXCEPT !.todo = Append(h.todo, <<"c", f>>)]
  BY DEF HandleControlRequest
<1>3. ASSUME NEW g \in UserGains
      PROVE  HandleControlRequest(h, <<"GAIN", g>>) =
                IF h.noise THEN [h EXCEPT !.last_gains = g, !.agc = FALSE]
                ELSE [h EXCEPT !.gains = g, !.agc = FALSE,
                               !.todo = Append(h.todo, <<"g", g>>)]
  BY DEF HandleControlRequest
<1>4. HandleControlRequest(h, <<"AGC ">>) =
         IF h.noise THEN [h EXCEPT !.last_agc = TRUE]
         ELSE [h EXCEPT !.agc = TRUE, !.todo = Append(h.todo, <<"a">>)]
  BY DEF HandleControlRequest
<1> QED
  BY <1>1, <1>2, <1>3, <1>4

LEMMA RequestType ==
    ASSUME NEW h \in HwcType, NEW req \in Requests \cup {<<>>}
    PROVE  HandleControlRequest(h, req) \in HwcType
<1> DEFINE r == HandleControlRequest(h, req)
<1>1. h.todo \in Seq(Command)
  BY DEF HwcType
<1>2. CASE req = <<>>
  BY <1>2, RequestEffect
<1>3. ASSUME NEW f \in Freqs, req = <<"FREQ", f>>
      PROVE  r \in HwcType
  <2>1. Append(h.todo, <<"c", f>>) \in Seq(Command)
    BY <1>1, <1>3, Messages, AppendProperties
  <2>2. r = [h EXCEPT !.todo = Append(h.todo, <<"c", f>>)]
    BY <1>3, RequestEffect
  <2> QED
    BY <2>1, <2>2 DEF HwcType
<1>4. ASSUME NEW g \in UserGains, req = <<"GAIN", g>>
      PROVE  r \in HwcType
  <2>1. g \in Gains
    BY <1>4, ConstantFacts
  <2>2. Append(h.todo, <<"g", g>>) \in Seq(Command)
    BY <1>1, <2>1, Messages, AppendProperties
  <2>3. r \in {[h EXCEPT !.last_gains = g, !.agc = FALSE],
               [h EXCEPT !.gains = g, !.agc = FALSE, !.todo = Append(h.todo, <<"g", g>>)]}
    BY <1>4, RequestEffect
  <2> HIDE DEF r
  <2> QED
    BY <2>1, <2>2, <2>3 DEF HwcType
<1>5. CASE req = <<"AGC ">>
  <2>1. Append(h.todo, <<"a">>) \in Seq(Command)
    BY <1>1, Messages, AppendProperties
  <2>2. /\ [h EXCEPT !.last_agc = TRUE] \in HwcType
        /\ [h EXCEPT !.agc = TRUE, !.todo = Append(h.todo, <<"a">>)] \in HwcType
    BY <2>1 DEF HwcType
  <2>3. \/ r = [h EXCEPT !.last_agc = TRUE]
        \/ r = [h EXCEPT !.agc = TRUE, !.todo = Append(h.todo, <<"a">>)]
    BY <1>5, RequestEffect
  <2> QED
    BY <2>2, <2>3
<1> QED
  BY <1>2, <1>3, <1>4, <1>5, RequestCases

-----------------------------------------------------------------------------
(* Types *)

LEMMA InitTypes == Init => TypeOK
<1> SUFFICES ASSUME Init PROVE TypeOK
  OBVIOUS
<1>1. rtl \in RtlType
  BY ConstantFacts DEF Init, RtlType, Gains
<1>2. ds \in DsType
  BY ConstantFacts DEF Init, DsType
<1>3. hwc \in HwcType /\ wanted \in [gain : UserGains, agc : BOOLEAN]
  <2>1. 0 \in 0 .. CalFrameInterval + CalFrameBurstSize - 1 /\ <<>> \in Seq(Command)
    BY ConstantFacts, EmptySeq
  <2> QED
    BY <2>1, ConstantFacts DEF Init, HwcType
<1>4. QueuesTypeOK
  BY EmptySeq, ConstantFacts DEF Init, QueuesTypeOK
<1>5. /\ ctr_request \in Requests \cup {<<>>}
      /\ drops \in 0 .. MaxDrops /\ bad \in 0 .. MaxBad /\ requests \in 0 .. MaxRequests
      /\ calRf \in Freqs \cup {None} /\ lost \in 0 .. drops
  BY ConstantFacts DEF Init
<1> QED
  BY <1>1, <1>2, <1>3, <1>4, <1>5 DEF TypeOK

LEMMA RtlTypes == TypeOK /\ RtlFrame => TypeOK'
<1> SUFFICES ASSUME TypeOK, RtlFrame PROVE TypeOK'
  OBVIOUS
<1>1. rtl' \in RtlType
  BY AppliedFacts DEF TypeOK, RtlFrame
<1>2. toDec' \in Seq(Frame) /\ Len(toDec') <= UpstreamDepth
  <2>1. toDec' = Append(toDec, Header(rtl)) /\ Len(toDec) < UpstreamDepth
    BY DEF RtlFrame, history
  <2>2. Len(toDec') = Len(toDec) + 1 /\ toDec' \in Seq(Frame) /\ Len(toDec) \in Nat
    BY <2>1, HeaderFacts, AppendElements, LenProperties DEF TypeOK, QueuesTypeOK
  <2> QED
    BY <2>1, <2>2, ConstantFacts
<1>3. QueuesTypeOK'
  BY <1>2 DEF TypeOK, QueuesTypeOK, RtlFrame
<1> QED
  BY <1>1, <1>3 DEF TypeOK, RtlFrame, bounds, history

LEMMA DecimateTypes == TypeOK /\ Decimate => TypeOK'
<1> SUFFICES ASSUME TypeOK, Decimate PROVE TypeOK'
  OBVIOUS
<1>1. /\ toDec \in Seq(Frame) /\ toSync \in Seq(Frame) /\ toDec # <<>>
      /\ Len(toDec) \in Nat /\ Len(toSync) \in Nat
  BY LenProperties DEF TypeOK, QueuesTypeOK, Decimate
<1>2. Head(toDec) \in Frame /\ toDec' \in Seq(Frame) /\ Len(toDec') = Len(toDec) - 1
  BY <1>1, TailElements DEF Decimate
<1>3. toSync' \in Seq(Frame) /\ Len(toSync') <= 2
  <2>1. /\ Append(toSync, Head(toDec)) \in Seq(Frame)
        /\ Len(Append(toSync, Head(toDec))) = Len(toSync) + 1
    BY <1>1, <1>2, AppendElements
  <2>2. \/ Len(toSync) < 2 /\ toSync' = Append(toSync, Head(toDec))
        \/ Len(toSync) = 2 /\ toSync' = toSync
    BY DEF Decimate
  <2>3. CASE toSync' = toSync
    BY <2>3 DEF TypeOK, QueuesTypeOK
  <2>4. CASE Len(toSync) < 2 /\ toSync' = Append(toSync, Head(toDec))
    <3>1. Len(toSync') = Len(toSync) + 1 /\ toSync' \in Seq(Frame)
      BY <2>1, <2>4
    <3> QED
      BY <1>1, <2>4, <3>1
  <2> QED
    BY <2>2, <2>3, <2>4
<1>4. drops' \in 0 .. MaxDrops /\ lost' \in 0 .. drops'
  <2>1. drops \in 0 .. MaxDrops /\ lost \in 0 .. drops /\ MaxDrops \in Nat
    BY ConstantFacts DEF TypeOK
  <2>2. \/ drops' = drops /\ lost' = lost
        \/ drops < MaxDrops /\ drops' = drops + 1 /\ lost' \in {lost, lost + 1}
    BY DEF Decimate
  <2> QED
    BY <2>1, <2>2
<1>5. QueuesTypeOK'
  BY <1>1, <1>2, <1>3, ConstantFacts DEF TypeOK, QueuesTypeOK, Decimate
<1> QED
  BY <1>4, <1>5 DEF TypeOK, Decimate
\* What every iteration of delay_sync does to the links.
LEMMA ForwardFacts ==
    ASSUME TypeOK, NEW f, NEW sync \in 0 .. 6, Forward(f, sync)
    PROVE  /\ toSync' = Tail(toSync)
           /\ UNCHANGED <<toDec, hwc, ctr_request, drops, requests, wanted>>
           /\ \/ toHwc' = toHwc
              \/ Len(toHwc) < 2 /\ toHwc' = Append(toHwc, Passed(f, sync))
<1>1. Len(toHwc) \in Nat
  BY LenProperties DEF TypeOK, QueuesTypeOK
<1>2. toHwc' = IF Len(toHwc) + (IF hwc.todo = <<>> THEN 0 ELSE 1) < 2
               THEN Append(toHwc, Passed(f, sync)) ELSE toHwc
  BY DEF Forward, Passed
<1>3. Len(toHwc) + (IF hwc.todo = <<>> THEN 0 ELSE 1) < 2 => Len(toHwc) < 2
  BY <1>1
<1> QED
  BY <1>2, <1>3 DEF Forward

LEMMA DsFacts ==
    ASSUME TypeOK, DsStep
    PROVE  /\ toSync # <<>>
           /\ \E sync \in 0 .. 6 : /\ Head(toSync) = DummyFrame \/ sync # 0
                                   /\ Forward(Head(toSync), sync)
           /\ rtl' = rtl \/ rtl' = Accept(rtl, <<"s">>)
<1>1. CASE DsDummy
  BY <1>1 DEF DsDummy
<1>2. CASE DsInit
  BY <1>2 DEF DsInit, OnFrame
<1>3. CASE DsSampleCal
  BY <1>3 DEF DsSampleCal, OnFrame
<1>4. CASE DsFracSampleCal
  BY <1>4 DEF DsFracSampleCal, OnFrame
<1>5. CASE DsSyncWait
  BY <1>5 DEF DsSyncWait, OnFrame
<1>6. CASE DsIqCal
  BY <1>6 DEF DsIqCal, OnFrame
<1>7. CASE DsTrackLock
  BY <1>7 DEF DsTrackLock, OnFrame
<1>8. CASE DsTrack
  BY <1>8 DEF DsTrack, OnFrame
<1> QED
  BY <1>1, <1>2, <1>3, <1>4, <1>5, <1>6, <1>7, <1>8 DEF DsStep

LEMMA MeasuredType ==
    ASSUME TypeOK, NEW ok \in BOOLEAN, Measured(ok)
    PROVE  bad' \in 0 .. MaxBad
<1>1. bad \in 0 .. MaxBad /\ MaxBad \in Nat
  BY ConstantFacts DEF TypeOK
<1>2. bad' = bad \/ (bad < MaxBad /\ bad' = bad + 1)
  BY DEF Measured
<1> QED
  BY <1>1, <1>2

\* The state of the synchroniser.
LEMMA DsStateTypes ==
    ASSUME TypeOK, DsStep
    PROVE  ds' \in DsType /\ bad' \in 0 .. MaxBad /\ calRf' \in Freqs \cup {None}
<1>1. ds \in DsType /\ bad \in 0 .. MaxBad /\ calRf \in Freqs \cup {None} /\ 0 \in 0 .. MaxSyncFails - 1
  BY ConstantFacts DEF TypeOK
<1>2. ASSUME Head(toSync) # DummyFrame, toSync # <<>> PROVE Head(toSync).rf \in Freqs
  <2>1. Head(toSync) \in Frame
    BY <1>2, TailElements DEF TypeOK, QueuesTypeOK
  <2> QED
    BY <1>2, <2>1 DEF Frame
<1>3. CASE DsDummy
  BY <1>1, <1>3 DEF DsDummy, DsType
<1>4. CASE DsInit
  BY <1>1, <1>4 DEF DsInit, DsType
<1>5. CASE DsSampleCal
  BY <1>1, <1>5, MeasuredType DEF DsSampleCal, DsType
<1>6. CASE DsFracSampleCal
  BY <1>1, <1>6, MeasuredType DEF DsFracSampleCal, DsType
<1>7. CASE DsSyncWait
  BY <1>1, <1>7 DEF DsSyncWait
<1>8. CASE DsIqCal
  BY <1>1, <1>2, <1>8, MeasuredType DEF DsIqCal, OnFrame, DsType
<1>9. CASE DsTrackLock
  BY <1>1, <1>2, <1>9 DEF DsTrackLock, OnFrame, DsType
<1>10. CASE DsTrack
  <2> DEFINE checked == CalTrackMode = 1 \/ (CalTrackMode = 2 /\ Head(toSync).type = "CAL")
             fails(ok) == IF ~checked THEN ds.fails
                          ELSE IF ~ok THEN ds.fails + 1
                          ELSE IF ds.fails > 0 THEN ds.fails - 1 ELSE 0
  <2>1. PICK ok \in BOOLEAN :
           /\ Measured(ok)
           /\ ds' = IF ds.last_rf # Head(toSync).rf \/ (checked /\ fails(ok) = MaxSyncFails)
                    THEN [ds EXCEPT !.state = "INIT", !.fails = 0]
                    ELSE [ds EXCEPT !.fails = fails(ok)]
    BY <1>10 DEF DsTrack
  <2>2. ds.fails \in 0 .. MaxSyncFails - 1 /\ MaxSyncFails \in Nat
    BY <1>1, ConstantFacts DEF DsType
  <2>3. (checked /\ fails(ok) = MaxSyncFails) \/ fails(ok) \in 0 .. MaxSyncFails - 1
    <3>1. CASE ~checked
      BY <2>2, <3>1
    <3>2. CASE checked /\ ~ok
      BY <2>2, <3>2
    <3>3. CASE checked /\ ok
      BY <2>2, <3>3
    <3> QED
      BY <3>1, <3>2, <3>3
  <2>4. [ds EXCEPT !.state = "INIT", !.fails = 0] \in DsType
    BY <1>1 DEF DsType
  <2>5. fails(ok) \in 0 .. MaxSyncFails - 1 => [ds EXCEPT !.fails = fails(ok)] \in DsType
    BY <1>1 DEF DsType
  <2>6. calRf' = calRf /\ bad' \in 0 .. MaxBad
    BY <1>10, <2>1, MeasuredType DEF DsTrack
  <2> HIDE DEF checked, fails
  <2> QED
    BY <1>1, <2>1, <2>3, <2>4, <2>5, <2>6
<1> QED
  BY <1>3, <1>4, <1>5, <1>6, <1>7, <1>8, <1>9, <1>10 DEF DsStep

\* Dummy frames are counted while the synchroniser waits, and no longer.
LEMMA LostType ==
    ASSUME TypeOK, DsStep
    PROVE  lost' \in 0 .. drops
<1>1. lost \in 0 .. drops /\ drops \in Nat
  BY ConstantFacts DEF TypeOK
<1>2. lost' = lost \/ lost' = 0
  BY DEF DsStep, DsDummy, DsInit, DsSampleCal, DsFracSampleCal, DsSyncWait, DsIqCal,
         DsTrackLock, DsTrack
<1> QED
  BY <1>1, <1>2

LEMMA DsTypes == TypeOK /\ DsStep => TypeOK'
<1> SUFFICES ASSUME TypeOK, DsStep PROVE TypeOK'
  OBVIOUS
<1>1. PICK sync \in 0 .. 6 : /\ Head(toSync) = DummyFrame \/ sync # 0
                             /\ Forward(Head(toSync), sync)
  BY DsFacts
<1>2. /\ toSync \in Seq(Frame) /\ toHwc \in Seq(SyncedFrame) /\ toSync # <<>>
      /\ Len(toSync) \in Nat /\ Len(toSync) <= 2 /\ Len(toHwc) \in Nat /\ Len(toHwc) <= 2
  BY DsFacts, LenProperties DEF TypeOK, QueuesTypeOK
<1>3. Head(toSync) \in Frame /\ toSync' \in Seq(Frame) /\ Len(toSync') <= 2
  <2>1. /\ Head(toSync) \in Frame
        /\ Tail(toSync) \in Seq(Frame) /\ Len(Tail(toSync)) = Len(toSync) - 1
    BY <1>2, TailElements
  <2>2. toSync' = Tail(toSync)
    BY <1>1, ForwardFacts
  <2> QED
    BY <1>2, <2>1, <2>2
<1>4. toHwc' \in Seq(SyncedFrame) /\ Len(toHwc') <= 2
  <2>1. CASE toHwc' = toHwc
    BY <1>2, <2>1
  <2>2. CASE Len(toHwc) < 2 /\ toHwc' = Append(toHwc, Passed(Head(toSync), sync))
    <3>1. Passed(Head(toSync), sync) \in SyncedFrame
      BY <1>1, <1>3, PassedFacts
    <3>2. toHwc' \in Seq(SyncedFrame) /\ Len(toHwc') = Len(toHwc) + 1
      BY <1>2, <2>2, <3>1, AppendElements
    <3> QED
      BY <1>2, <2>2, <3>2
  <2> QED
    BY <1>1, <2>1, <2>2, ForwardFacts
<1>5. QueuesTypeOK'
  BY <1>1, <1>3, <1>4, ForwardFacts DEF TypeOK, QueuesTypeOK
<1>6. rtl' \in RtlType
  BY DsFacts, AcceptType DEF TypeOK
<1> QED
  BY <1>1, <1>5, <1>6, ForwardFacts, DsStateTypes, LostType DEF TypeOK
\* The controller takes a frame.
LEMMA ReceiveFacts ==
    ASSUME TypeOK, Receive
    PROVE  /\ hwc.todo = <<>> /\ toHwc # <<>> /\ toHwc' = Tail(toHwc)
           /\ Head(toHwc) \in SyncedFrame
           /\ toHwc' \in Seq(SyncedFrame) /\ Len(toHwc') <= 2
<1>1. toHwc \in Seq(SyncedFrame) /\ Len(toHwc) \in Nat /\ Len(toHwc) <= 2
  BY LenProperties DEF TypeOK, QueuesTypeOK
<1>2. toHwc # <<>> /\ toHwc' = Tail(toHwc) /\ hwc.todo = <<>>
  BY DEF Receive
<1>3. /\ Head(toHwc) \in SyncedFrame
      /\ Tail(toHwc) \in Seq(SyncedFrame) /\ Len(Tail(toHwc)) = Len(toHwc) - 1
  BY <1>1, <1>2, TailElements
<1> QED
  BY <1>1, <1>2, <1>3

\* The controller after a frame in STATE_IQ_CAL.
Judged(approval) ==
    Burst(NoiseControl(hwc, Head(toHwc), approval), Head(toHwc))

LEMMA IqCalFacts ==
    ASSUME TypeOK, HwcIqCal
    PROVE  /\ Receive /\ Head(toHwc) # DummyFrame /\ hwc.state = "IQ_CAL"
           /\ \E approval \in BOOLEAN :
                 /\ ~RequireTrackLock => approval
                 /\ hwc' = HandleControlRequest(Judged(approval), ctr_request)
           /\ ctr_request' = <<>>
           /\ UNCHANGED <<rtl, toDec, toSync, ds, drops, bad, requests, calRf, lost>>
BY DEF HwcIqCal, Judged, bounds

LEMMA WantedCases ==
    ASSUME TypeOK, HwcIqCal
    PROVE  \/ ctr_request = <<>> /\ wanted' = wanted
           \/ (\E f \in Freqs : ctr_request = <<"FREQ", f>>) /\ wanted' = wanted
           \/ \E g \in UserGains : /\ ctr_request = <<"GAIN", g>>
                                   /\ wanted' = [gain |-> g, agc |-> FALSE]
           \/ ctr_request = <<"AGC ">> /\ wanted' = [wanted EXCEPT !.agc = TRUE]
<1>1. ctr_request \in Requests \cup {<<>>}
  BY DEF TypeOK
<1>2. CASE ctr_request = <<>>
  BY <1>2 DEF HwcIqCal
<1>3. CASE ctr_request # <<>> /\ \E f \in Freqs : ctr_request = <<"FREQ", f>>
  BY <1>3 DEF HwcIqCal
<1>4. CASE ctr_request # <<>> /\ \E g \in UserGains : ctr_request = <<"GAIN", g>>
  <2>1. PICK g \in UserGains : ctr_request = <<"GAIN", g>>
    BY <1>4
  <2>2. ctr_request # <<>> /\ ctr_request[1] = "GAIN" /\ ctr_request[2] = g
    BY <1>4, <2>1
  <2>3. wanted' = [gain |-> g, agc |-> FALSE]
    BY <2>2 DEF HwcIqCal
  <2> QED
    BY <2>1, <2>3
<1>5. CASE ctr_request # <<>> /\ ctr_request = <<"AGC ">>
  BY <1>5 DEF HwcIqCal
<1> QED
  BY <1>1, <1>2, <1>3, <1>4, <1>5, RequestCases

LEMMA HwcTypes == TypeOK /\ HwcStep => TypeOK'
<1> SUFFICES ASSUME TypeOK, HwcStep PROVE TypeOK'
  OBVIOUS
<1>1. CASE HwcDummy
  BY <1>1, ReceiveFacts DEF HwcDummy, TypeOK, QueuesTypeOK, bounds, history
<1>2. CASE HwcInit
  <2>1. hwc' \in HwcType
    <3>1. <<<<"g", hwc.gains>>, <<"n", FALSE>>>> \in Seq(Command)
      BY MessagePairs DEF TypeOK, HwcType
    <3> QED
      BY <1>2, <3>1 DEF HwcInit, TypeOK, HwcType
  <2> QED
    BY <1>2, <2>1, ReceiveFacts DEF HwcInit, TypeOK, QueuesTypeOK, bounds, history
<1>3. CASE HwcIqCal
  <2>1. hwc' \in HwcType
    <3>1. PICK approval \in BOOLEAN :
             hwc' = HandleControlRequest(Judged(approval), ctr_request)
      BY <1>3, IqCalFacts
    <3>2. Judged(approval) \in HwcType
      BY NoiseControlType, BurstType DEF TypeOK, Judged
    <3> QED
      BY <3>1, <3>2, RequestType DEF TypeOK
  <2>2. wanted' \in [gain : UserGains, agc : BOOLEAN]
    <3>1. /\ wanted \in [gain : UserGains, agc : BOOLEAN]
          /\ [wanted EXCEPT !.agc = TRUE] \in [gain : UserGains, agc : BOOLEAN]
          /\ \A g \in UserGains :
                [gain |-> g, agc |-> FALSE] \in [gain : UserGains, agc : BOOLEAN]
      BY DEF TypeOK
    <3>2. \/ wanted' = wanted
          \/ wanted' = [wanted EXCEPT !.agc = TRUE]
          \/ \E g \in UserGains : wanted' = [gain |-> g, agc |-> FALSE]
      BY <1>3, WantedCases
    <3>3. CASE \E g \in UserGains : wanted' = [gain |-> g, agc |-> FALSE]
      BY <3>1, <3>3
    <3> QED
      BY <3>1, <3>2, <3>3, Zenon
  <2>3. UNCHANGED <<rtl, toDec, toSync, ds, drops, bad, requests, calRf, lost>>
    BY <1>3, IqCalFacts
  <2>4. ctr_request' = <<>> /\ QueuesTypeOK'
    BY <1>3, <2>3, IqCalFacts, ReceiveFacts DEF TypeOK, QueuesTypeOK
  <2> QED
    BY <2>1, <2>2, <2>3, <2>4 DEF TypeOK
<1>4. CASE HwcNoiseCtrWait
  <2>1. hwc' \in HwcType
    BY <1>4 DEF HwcNoiseCtrWait, TypeOK, HwcType
  <2> QED
    BY <1>4, <2>1, ReceiveFacts DEF HwcNoiseCtrWait, TypeOK, QueuesTypeOK, bounds, history
<1>5. CASE HwcSend
  <2>1. hwc.todo \in Seq(Command) /\ hwc.todo # <<>>
    BY <1>5 DEF HwcSend, TypeOK, HwcType
  <2>2. Head(hwc.todo) \in Command /\ Tail(hwc.todo) \in Seq(Command)
    BY <2>1, TailElements
  <2>3. hwc' \in HwcType
    BY <1>5, <2>2 DEF HwcSend, TypeOK, HwcType
  <2>4. rtl' \in RtlType
    BY <1>5, <2>2, AcceptType DEF HwcSend, TypeOK
  <2> QED
    BY <1>5, <2>3, <2>4 DEF HwcSend, TypeOK, QueuesTypeOK, bounds, history
<1> QED
  BY <1>1, <1>2, <1>3, <1>4, <1>5 DEF HwcStep

LEMMA TypeStep == TypeOK /\ [Next]_vars => TypeOK'
<1> SUFFICES ASSUME TypeOK, [Next]_vars PROVE TypeOK'
  OBVIOUS
<1>1. CASE ClientRequest
  BY <1>1, ConstantFacts DEF ClientRequest, TypeOK, QueuesTypeOK, history
<1>2. CASE UNCHANGED vars
  BY <1>2 DEF vars, bounds, history, TypeOK, QueuesTypeOK
<1> QED
  BY <1>1, <1>2, RtlTypes, DecimateTypes, DsTypes, HwcTypes DEF Next

\* The state keeps its shape: the synchroniser's loss counter and the controller's
\* frame counter, both compared for equality only, never pass their limits, whatever
\* the configuration.
THEOREM TypeCorrect == Spec => []TypeOK
BY InitTypes, TypeStep, PTL DEF Spec
-----------------------------------------------------------------------------
(* The controller's decisions on a frame *)

LEMMA SyncedFrameFacts ==
    ASSUME NEW f \in SyncedFrame, f # DummyFrame
    PROVE  f.noise \in BOOLEAN /\ f.sync \in 1 .. 6
BY DEF SyncedFrame

LEMMA SwitchCounted ==
    ASSUME NEW h \in HwcType, NEW n
    PROVE  /\ NoiseOn([h EXCEPT !.cal_frame_cntr = n])
                 = [NoiseOn(h) EXCEPT !.cal_frame_cntr = n]
           /\ [NoiseOff([h EXCEPT !.cal_frame_cntr = n]) EXCEPT !.cal_frame_cntr = 0]
                 = [NoiseOff(h) EXCEPT !.cal_frame_cntr = 0]
           /\ NoiseOn(h).cal_frame_cntr = h.cal_frame_cntr
           /\ NoiseOff(h).cal_frame_cntr = h.cal_frame_cntr
           /\ NoiseOn(h).noise = TRUE /\ NoiseOff(h).noise = FALSE
BY DEF NoiseOn, NoiseOff, HwcType

\* In STATE_IQ_CAL the frame shows the noise state that was set last.
LEMMA HeadIsCurrent ==
    ASSUME TypeOK, NoiseTurns, Receive, Head(toHwc) # DummyFrame,
           hwc.state # "NOISE_CTR_WAIT"
    PROVE  Head(toHwc).noise = hwc.noise
<1>1. /\ Head(toHwc) \in SyncedFrame /\ toHwc # <<>>
      /\ toHwc \in Seq(SyncedFrame) /\ hwc.noise \in BOOLEAN
  BY ReceiveFacts DEF TypeOK, QueuesTypeOK, HwcType
<1>2. Head(toHwc) \notin Showing(~hwc.noise)
  BY <1>1, ClearTail DEF NoiseTurns, NoneOf
<1>3. Head(toHwc).noise \in BOOLEAN
  BY <1>1, SyncedFrameFacts
<1>4. Head(toHwc).noise # ~hwc.noise
  BY <1>1, <1>2 DEF Showing
<1> QED
  BY <1>1, <1>3, <1>4

\* c is the burst counter after the frame, h the controller: the noise source is
\* left alone, switched on or switched off, and never twice.
Decision(h, c) ==
    /\ \/ h = [hwc EXCEPT !.cal_frame_cntr = c]
       \/ ~hwc.noise /\ h = [NoiseOn(hwc) EXCEPT !.cal_frame_cntr = c]
       \/ hwc.noise /\ h = [NoiseOff(hwc) EXCEPT !.cal_frame_cntr = c]
    /\ CalTrackMode # 2 => c = 0
    /\ c # 0 => (h.noise <=> c >= CalFrameInterval)

LEMMA DecisionCounted ==
    ASSUME TypeOK, NEW approval \in BOOLEAN, NEW f \in SyncedFrame, f # DummyFrame,
           f.noise = hwc.noise, BurstCounted, BurstsFit, ~RequireTrackLock => approval
    PROVE  \E c \in Nat : Decision(Burst(NoiseControl(hwc, f, approval), f), c)
<1> DEFINE I == CalFrameInterval
           B == CalFrameBurstSize
           ctr == hwc.cal_frame_cntr
           h1 == NoiseControl(hwc, f, approval)
           h2 == Burst(h1, f)
<1>1. /\ hwc \in HwcType /\ f.sync \in 1 .. 6 /\ I \in Nat \ {0} /\ B \in Nat \ {0}
      /\ ctr \in Nat /\ ctr <= I + B - 1 /\ hwc.noise \in BOOLEAN
  BY ConstantFacts, SyncedFrameFacts DEF TypeOK, HwcType
<1>2. /\ hwc = [hwc EXCEPT !.cal_frame_cntr = ctr]
      /\ NoiseOn(hwc) = [NoiseOn(hwc) EXCEPT !.cal_frame_cntr = ctr]
      /\ NoiseOff(hwc) = [NoiseOff(hwc) EXCEPT !.cal_frame_cntr = ctr]
      /\ \A n : [hwc EXCEPT !.cal_frame_cntr = n].noise = hwc.noise
      /\ \A n : [NoiseOn(hwc) EXCEPT !.cal_frame_cntr = n].noise = TRUE
      /\ \A n : [NoiseOff(hwc) EXCEPT !.cal_frame_cntr = n].noise = FALSE
  BY <1>1 DEF NoiseOn, NoiseOff, HwcType
<1>3. CASE CalTrackMode # 2
  <2>1. h2 = h1 /\ ctr = 0
    BY <1>3 DEF Burst, BurstCounted
  <2>2. h1 = hwc \/ (~hwc.noise /\ h1 = NoiseOn(hwc)) \/ (hwc.noise /\ h1 = NoiseOff(hwc))
    BY DEF NoiseControl
  <2>3. Decision(h2, 0)
    BY <1>2, <2>1, <2>2 DEF Decision
  <2> QED
    BY <2>3
<1>4. CASE CalTrackMode = 2 /\ ctr >= I
  <2>1. h1 = hwc
    BY <1>4 DEF NoiseControl
  <2>2. hwc.noise
    BY <1>1, <1>4 DEF BurstCounted
  <2>3. ctr + 1 # I
    BY <1>1, <1>4
  <2>4. CASE f.sync # 6
    <3>1. h2 = [hwc EXCEPT !.cal_frame_cntr = 0]
      BY <1>4, <2>1, <2>4 DEF Burst
    <3>2. Decision(h2, 0)
      BY <3>1 DEF Decision
    <3> QED
      BY <3>2
  <2>5. CASE f.sync = 6 /\ ctr + 1 = I + B
    <3>1. h2 = [NoiseOff([hwc EXCEPT !.cal_frame_cntr = ctr + 1]) EXCEPT !.cal_frame_cntr = 0]
      BY <1>4, <2>1, <2>3, <2>5 DEF Burst
    <3>2. h2 = [NoiseOff(hwc) EXCEPT !.cal_frame_cntr = 0]
      BY <1>1, <3>1, SwitchCounted
    <3>3. Decision(h2, 0)
      BY <1>4, <2>2, <3>2 DEF Decision
    <3> QED
      BY <3>3
  <2>6. CASE f.sync = 6 /\ ctr + 1 # I + B
    <3>1. h2 = [hwc EXCEPT !.cal_frame_cntr = ctr + 1]
      BY <1>4, <2>1, <2>3, <2>6 DEF Burst
    <3>2. h2.noise = hwc.noise
      BY <1>2, <3>1
    <3>3. ctr + 1 >= I /\ ctr + 1 \in Nat
      BY <1>1, <1>4
    <3>4. Decision(h2, ctr + 1)
      BY <1>4, <2>2, <3>1, <3>2, <3>3 DEF Decision
    <3> QED
      BY <3>3, <3>4
  <2> QED
    BY <2>4, <2>5, <2>6
<1>5. CASE CalTrackMode = 2 /\ ctr < I
  <2>1. approval /\ I >= 2
    BY <1>5 DEF BurstsFit
  <2>2. hwc.noise => ctr = 0
    BY <1>1, <1>5 DEF BurstCounted
  <2>3. ctr + 1 # I + B /\ ~(ctr >= I)
    BY <1>1, <1>5
  <2>4. CASE f.sync # 6
    <3>1. h2 = [h1 EXCEPT !.cal_frame_cntr = 0]
      BY <1>5, <2>4 DEF Burst
    <3>2. h1 = hwc \/ (~hwc.noise /\ h1 = NoiseOn(hwc)) \/ (hwc.noise /\ h1 = NoiseOff(hwc))
      BY DEF NoiseControl
    <3>3. Decision(h2, 0)
      BY <3>1, <3>2 DEF Decision
    <3> QED
      BY <3>3
  <2>5. CASE f.sync = 6 /\ hwc.noise
    <3>1. h1 = NoiseOff(hwc) /\ ctr = 0
      BY <1>5, <2>1, <2>2, <2>3, <2>5 DEF NoiseControl
    <3>2. h1.cal_frame_cntr = 0
      BY <1>1, <3>1, SwitchCounted
    <3>3. 0 + 1 # I /\ 0 + 1 # I + B /\ 0 + 1 = 1
      BY <1>1, <2>1
    <3>4. h2 = [h1 EXCEPT !.cal_frame_cntr = 1]
      BY <1>5, <2>5, <3>2, <3>3 DEF Burst
    <3>5. h2.noise = FALSE /\ ~(1 >= I)
      <4>1. ~(1 >= I)
        BY <1>1, <2>1
      <4>2. h2 = [NoiseOff(hwc) EXCEPT !.cal_frame_cntr = 1]
        BY <3>1, <3>4
      <4> QED
        BY <1>2, <4>1, <4>2
    <3>6. Decision(h2, 1)
      BY <1>5, <2>5, <3>1, <3>4, <3>5 DEF Decision
    <3> QED
      BY <3>6
  <2>6. CASE f.sync = 6 /\ ~hwc.noise
    <3>1. h1 = hwc
      BY <1>5, <2>3, <2>6 DEF NoiseControl
    <3>2. CASE ctr + 1 = I
      <4>1. h2 = NoiseOn([hwc EXCEPT !.cal_frame_cntr = ctr + 1])
        BY <1>5, <2>6, <3>1, <3>2 DEF Burst
      <4>2. h2 = [NoiseOn(hwc) EXCEPT !.cal_frame_cntr = ctr + 1]
        BY <1>1, <4>1, SwitchCounted
      <4>3. h2.noise = TRUE
        BY <1>2, <4>2
      <4>4. Decision(h2, ctr + 1) /\ ctr + 1 \in Nat
        BY <1>1, <1>5, <2>6, <3>2, <4>2, <4>3 DEF Decision
      <4> QED
        BY <4>4
    <3>3. CASE ctr + 1 # I
      <4>1. h2 = [hwc EXCEPT !.cal_frame_cntr = ctr + 1]
        BY <1>5, <2>3, <2>6, <3>1, <3>3 DEF Burst
      <4>2. h2.noise = hwc.noise /\ ~(ctr + 1 >= I) /\ ctr + 1 \in Nat
        BY <1>1, <1>2, <1>5, <3>3, <4>1
      <4>3. Decision(h2, ctr + 1)
        BY <1>5, <2>6, <4>1, <4>2 DEF Decision
      <4> QED
        BY <4>2, <4>3
    <3> QED
      BY <3>2, <3>3
  <2> QED
    BY <2>4, <2>5, <2>6
<1> QED
  BY <1>1, <1>3, <1>4, <1>5
\* Commands of different kinds differ, and so do the two noise commands.
LEMMA Pairs ==
    \A x, y : /\ <<x, y>>[1] = x /\ <<x, y>>[2] = y
              /\ DOMAIN <<x, y>> = 1 .. 2 /\ Len(<<x, y>>) = 2
OBVIOUS

LEMMA Singles == \A x : <<x>>[1] = x /\ DOMAIN <<x>> = 1 .. 1 /\ Len(<<x>>) = 1
OBVIOUS

LEMMA CommandsDiffer ==
    \A b \in BOOLEAN : /\ \A g : <<"g", g>> # <<"n", b>>
                        /\ \A f : <<"c", f>> # <<"n", b>>
                        /\ <<"a">> # <<"n", b>>
OBVIOUS

LEMMA NoiseCommandsDiffer == <<"n", TRUE>> # <<"n", FALSE>>
OBVIOUS

\* The controller after it has switched the noise source on, or off: what it is set
\* to, and that the commands it leaves to be sent say the same.
LEMMA SwitchedOn ==
    ASSUME TypeOK, hwc.todo = <<>>, NEW c, NEW h, h = [NoiseOn(hwc) EXCEPT !.cal_frame_cntr = c]
    PROVE  /\ h.noise = TRUE /\ h.state = "NOISE_CTR_WAIT"
           /\ h.gains = CalGain /\ h.last_gains = hwc.gains
           /\ NoiseSent(h, rtl) /\ GainsSent(h, rtl)
<1> DEFINE t == <<<<"g", CalGain>>, <<"n", TRUE>>>>
<1>1. hwc \in HwcType
  BY DEF TypeOK
<1>2. /\ h.noise = TRUE /\ h.state = "NOISE_CTR_WAIT"
      /\ h.gains = CalGain /\ h.last_gains = hwc.gains
      /\ h.todo = <<>> \o t
  BY <1>1 DEF NoiseOn, HwcType
<1>3. t \in Seq(Command)
  BY MessagePairs
<1>4. h.todo = t
  BY <1>2, <1>3, ConcatEmptySeq
<1>5. /\ DOMAIN t = 1 .. 2 /\ t[1] = <<"g", CalGain>> /\ t[2] = <<"n", TRUE>>
      /\ t[2][1] = "n"
  BY Pairs
<1> HIDE DEF t
<1>6. NoiseSent(h, rtl)
  <2>1. ASSUME NEW i \in 1 .. 2 PROVE t[i] # <<"n", FALSE>>
    <3>1. CASE i = 1
      BY <1>5, <3>1, CommandsDiffer
    <3>2. CASE i = 2
      BY <1>5, <3>2, NoiseCommandsDiffer
    <3>3. i = 1 \/ i = 2
      OBVIOUS
    <3> QED
      BY <3>1, <3>2, <3>3
  <2>2. 2 \in DOMAIN t /\ t[2] = <<"n", TRUE>>
    BY <1>5
  <2> QED
    BY <1>2, <1>4, <1>5, <2>1, <2>2 DEF NoiseSent
<1>7. GainsSent(h, rtl)
  <2>1. 1 \in DOMAIN t /\ \A j \in DOMAIN t : j > 1 => j = 2
    BY <1>5
  <2>2. \A j \in DOMAIN t : j > 1 => t[j][1] # "g"
    BY <1>5, <2>1
  <2> QED
    BY <1>2, <1>4, <1>5, <2>1, <2>2 DEF GainsSent
<1> QED
  BY <1>2, <1>6, <1>7

LEMMA SwitchedOff ==
    ASSUME TypeOK, hwc.todo = <<>>, NEW c, NEW h, h = [NoiseOff(hwc) EXCEPT !.cal_frame_cntr = c]
    PROVE  /\ h.noise = FALSE /\ h.state = "NOISE_CTR_WAIT"
           /\ h.gains = hwc.last_gains
           /\ NoiseSent(h, rtl) /\ GainsSent(h, rtl)
<1> DEFINE p == <<<<"n", FALSE>>, <<"g", hwc.last_gains>>>>
           a == IF hwc.last_agc THEN <<<<"a">>>> ELSE <<>>
           t == p \o a
<1>1. hwc \in HwcType /\ hwc.last_gains \in Gains
  BY DEF TypeOK, HwcType
<1>2. /\ h.noise = FALSE /\ h.state = "NOISE_CTR_WAIT"
      /\ h.gains = hwc.last_gains
      /\ h.todo = <<>> \o p \o a
  BY <1>1 DEF NoiseOff, HwcType
<1>3. p \in Seq(Command) /\ a \in Seq(Command)
  BY <1>1, MessagePairs, EmptySeq
<1>4. h.todo = t
  <2>1. <<>> \o p = p
    BY <1>3, ConcatEmptySeq
  <2> HIDE DEF p, a
  <2> QED
    BY <1>2, <2>1
<1>5. /\ Len(p) = 2 /\ p[1] = <<"n", FALSE>> /\ p[2] = <<"g", hwc.last_gains>>
      /\ Len(a) \in {0, 1} /\ (Len(a) = 1 => a[1] = <<"a">>)
  <2>1. Len(p) = 2 /\ p[1] = <<"n", FALSE>> /\ p[2] = <<"g", hwc.last_gains>>
    BY Pairs
  <2>2. Len(a) \in {0, 1} /\ (Len(a) = 1 => a[1] = <<"a">>)
    BY Singles, EmptySeq
  <2> QED
    BY <2>1, <2>2
<1>6. /\ t \in Seq(Command) /\ Len(t) = Len(p) + Len(a)
      /\ \A i \in 1 .. Len(t) : t[i] = IF i <= Len(p) THEN p[i] ELSE a[i - Len(p)]
  <2> HIDE DEF p, a
  <2> QED
    BY <1>3, ConcatProperties
<1> HIDE DEF p, a
<1>7. /\ DOMAIN t = 1 .. Len(t) /\ Len(t) \in {2, 3}
      /\ t[1] = p[1] /\ t[2] = p[2] /\ (Len(t) = 3 => t[3] = a[1])
  <2>1. DOMAIN t = 1 .. Len(t)
    BY <1>6, LenProperties
  <2>2. Len(t) \in {2, 3}
    BY <1>5, <1>6
  <2>3. t[1] = p[1] /\ t[2] = p[2]
    <3>1. /\ 1 \in 1 .. Len(t) /\ 2 \in 1 .. Len(t)
          /\ 1 <= Len(p) /\ 2 <= Len(p)
      BY <1>5, <2>2
    <3> QED
      BY <1>6, <3>1
  <2>4. Len(t) = 3 => t[3] = a[1]
    BY <1>5, <1>6
  <2> QED
    BY <2>1, <2>2, <2>3, <2>4
<1>8. /\ DOMAIN t = 1 .. Len(t) /\ Len(t) \in {2, 3}
      /\ t[1] = <<"n", FALSE>> /\ t[2] = <<"g", hwc.last_gains>>
      /\ Len(t) = 3 => t[3] = <<"a">>
  BY <1>5, <1>6, <1>7
<1> HIDE DEF t
<1>9. \A i \in DOMAIN t : i \in {1, 2} \/ (i = 3 /\ t[3] = <<"a">>)
  BY <1>8
<1>10. NoiseSent(h, rtl)
  <2>1. ASSUME NEW i \in DOMAIN t PROVE t[i] # <<"n", TRUE>>
    BY <1>8, <1>9, <2>1, CommandsDiffer, NoiseCommandsDiffer
  <2>2. 1 \in DOMAIN t /\ t[1] = <<"n", FALSE>>
    BY <1>8
  <2> QED
    BY <1>2, <1>4, <2>1, <2>2 DEF NoiseSent
<1>11. GainsSent(h, rtl)
  <2>1. 2 \in DOMAIN t /\ \A j \in DOMAIN t : j > 2 => t[j] = <<"a">>
    BY <1>8, <1>9
  <2>2. \A j \in DOMAIN t : j > 2 => t[j][1] # "g"
    BY <2>1
  <2> QED
    BY <1>2, <1>4, <1>8, <2>1, <2>2 DEF GainsSent
<1> QED
  BY <1>2, <1>10, <1>11
LEMMA DecisionGood ==
    ASSUME TypeOK, GainsRemembered, hwc.todo = <<>>, hwc.state = "IQ_CAL",
           NoiseSent(hwc, rtl), GainsSent(hwc, rtl),
           NEW c \in Nat, NEW h, Decision(h, c)
    PROVE  /\ Remembered(h, wanted) /\ NoiseSent(h, rtl) /\ GainsSent(h, rtl)
           /\ h.cal_frame_cntr = c /\ h.state # "INIT"
           /\ h.noise = hwc.noise \/ h.state = "NOISE_CTR_WAIT"
<1>1. hwc \in HwcType
  BY DEF TypeOK
<1>2. CASE h = [hwc EXCEPT !.cal_frame_cntr = c]
  <2>1. /\ h.noise = hwc.noise /\ h.state = hwc.state /\ h.todo = hwc.todo
        /\ h.gains = hwc.gains /\ h.last_gains = hwc.last_gains
        /\ h.cal_frame_cntr = c
    BY <1>1, <1>2 DEF HwcType
  <2>2. Remembered(h, wanted)
    BY <2>1 DEF GainsRemembered, Remembered
  <2>3. NoiseSent(h, rtl)
    BY <2>1 DEF NoiseSent
  <2>4. GainsSent(h, rtl)
    BY <2>1 DEF GainsSent
  <2> QED
    BY <2>1, <2>2, <2>3, <2>4
<1>3. CASE ~hwc.noise /\ h = [NoiseOn(hwc) EXCEPT !.cal_frame_cntr = c]
  <2>1. h.cal_frame_cntr = c
    BY <1>1, <1>3 DEF NoiseOn, HwcType
  <2>2. Remembered(h, wanted)
    BY <1>3, SwitchedOn DEF GainsRemembered, Remembered
  <2> QED
    BY <1>3, <2>1, <2>2, SwitchedOn
<1>4. CASE hwc.noise /\ h = [NoiseOff(hwc) EXCEPT !.cal_frame_cntr = c]
  <2>1. h.cal_frame_cntr = c
    BY <1>1, <1>4 DEF NoiseOff, HwcType
  <2>2. Remembered(h, wanted)
    BY <1>4, SwitchedOff DEF GainsRemembered, Remembered
  <2> QED
    BY <1>4, <2>1, <2>2, SwitchedOff
<1> QED
  BY <1>2, <1>3, <1>4 DEF Decision

\* One more command to be sent.
LEMMA SentAppend ==
    ASSUME NEW h \in HwcType, NEW k \in HwcType, NEW r, NEW cmd \in Command,
           k.todo = Append(h.todo, cmd), k.noise = h.noise,
           NoiseSent(h, r), GainsSent(h, r), cmd # <<"n", ~h.noise>>,
           \/ cmd[1] # "g" /\ k.gains = h.gains
           \/ cmd = <<"g", k.gains>>
    PROVE  NoiseSent(k, r) /\ GainsSent(k, r)
<1>1. /\ h.todo \in Seq(Command) /\ Len(h.todo) \in Nat /\ DOMAIN h.todo = 1 .. Len(h.todo)
      /\ h.noise \in BOOLEAN
  BY LenProperties DEF HwcType
<1> DEFINE n == Len(h.todo) + 1
<1>2. /\ DOMAIN k.todo = 1 .. n /\ n \in Nat
      /\ \A i \in DOMAIN h.todo : i \in DOMAIN k.todo /\ k.todo[i] = h.todo[i] /\ i < n
      /\ k.todo[n] = cmd /\ n \in DOMAIN k.todo
      /\ \A i \in DOMAIN k.todo : i \in DOMAIN h.todo \/ i = n
  <2>1. /\ Len(k.todo) = n /\ k.todo \in Seq(Command)
        /\ \A i \in 1 .. Len(h.todo) : k.todo[i] = h.todo[i]
        /\ k.todo[n] = cmd
    BY <1>1, AppendProperties
  <2>2. DOMAIN k.todo = 1 .. n
    BY <2>1, LenProperties
  <2> QED
    BY <1>1, <2>1, <2>2
<1> HIDE DEF n
<1>3. NoiseSent(k, r)
  BY <1>2 DEF NoiseSent
<1>4. CASE cmd = <<"g", k.gains>>
  <2>1. \A j \in DOMAIN k.todo : ~(j > n)
    BY <1>2
  <2> QED
    BY <1>2, <1>3, <1>4, <2>1 DEF GainsSent
<1>5. CASE cmd[1] # "g" /\ k.gains = h.gains
  <2>1. CASE \A i \in DOMAIN h.todo : h.todo[i][1] # "g"
    <3>1. \A i \in DOMAIN k.todo : k.todo[i][1] # "g"
      BY <1>2, <1>5, <2>1
    <3>2. h.gains = IF r.new_gain = None THEN r.gain ELSE r.new_gain
      BY <2>1 DEF GainsSent
    <3> QED
      BY <1>3, <1>5, <3>1, <3>2 DEF GainsSent
  <2>2. CASE \E i \in DOMAIN h.todo :
                /\ h.todo[i] = <<"g", h.gains>>
                /\ \A j \in DOMAIN h.todo : j > i => h.todo[j][1] # "g"
    <3>1. PICK i \in DOMAIN h.todo :
                /\ h.todo[i] = <<"g", h.gains>>
                /\ \A j \in DOMAIN h.todo : j > i => h.todo[j][1] # "g"
      BY <2>2
    <3>2. i \in DOMAIN k.todo /\ k.todo[i] = <<"g", k.gains>>
      BY <1>2, <1>5, <3>1
    <3>3. \A j \in DOMAIN k.todo : j > i => k.todo[j][1] # "g"
      BY <1>2, <1>5, <3>1
    <3> QED
      BY <1>3, <3>2, <3>3 DEF GainsSent
  <2> QED
    BY <2>1, <2>2 DEF GainsSent
<1> QED
  BY <1>4, <1>5

\* What is sent depends on the commands, the noise state and the gains only.
LEMMA SentSame ==
    ASSUME NEW h, NEW k, NEW r, NEW t, r.noise = t.noise, r.gain = t.gain,
           r.new_gain = t.new_gain, k.todo = h.todo, k.noise = h.noise, k.gains = h.gains
    PROVE  /\ NoiseSent(h, r) => NoiseSent(k, t)
           /\ GainsSent(h, r) => GainsSent(k, t)
<1>1. ASSUME NoiseSent(h, r) PROVE NoiseSent(k, t)
  BY <1>1 DEF NoiseSent
<1>2. ASSUME GainsSent(h, r) PROVE GainsSent(k, t)
  <2>1. CASE \E i \in DOMAIN h.todo :
               /\ h.todo[i] = <<"g", h.gains>>
               /\ \A j \in DOMAIN h.todo : j > i => h.todo[j][1] # "g"
    <3>1. \E i \in DOMAIN k.todo :
             /\ k.todo[i] = <<"g", k.gains>>
             /\ \A j \in DOMAIN k.todo : j > i => k.todo[j][1] # "g"
      BY <2>1, Zenon
    <3> QED
      BY <3>1 DEF GainsSent
  <2>2. CASE /\ \A i \in DOMAIN h.todo : h.todo[i][1] # "g"
             /\ h.gains = IF r.new_gain = None THEN r.gain ELSE r.new_gain
    BY <2>2 DEF GainsSent
  <2> QED
    BY <1>2, <2>1, <2>2, Zenon DEF GainsSent
<1> QED
  BY <1>1, <1>2

\* What the client wants, from w to v, with the request req.
Asked(req, w, v) ==
    \/ req = <<>> /\ v = w
    \/ (\E f \in Freqs : req = <<"FREQ", f>>) /\ v = w
    \/ \E g \in UserGains : req = <<"GAIN", g>> /\ v = [gain |-> g, agc |-> FALSE]
    \/ req = <<"AGC ">> /\ v = [w EXCEPT !.agc = TRUE]

\* A request changes what is remembered as the client expects, and what is sent with it.
LEMMA RequestGood ==
    ASSUME NEW h \in HwcType, NEW r, NEW req \in Requests \cup {<<>>},
           NEW w \in [gain : UserGains, agc : BOOLEAN], NEW v, NEW k,
           Asked(req, w, v), NoiseSent(h, r), GainsSent(h, r), Remembered(h, w),
           k = HandleControlRequest(h, req)
    PROVE  /\ NoiseSent(k, r) /\ GainsSent(k, r) /\ Remembered(k, v)
           /\ k.noise = h.noise /\ k.state = h.state /\ k.cal_frame_cntr = h.cal_frame_cntr
<1>1. k \in HwcType /\ h.noise \in BOOLEAN
  BY RequestType DEF HwcType
<1>2. CASE req = <<>> /\ v = w
  BY <1>2, RequestEffect
<1>3. CASE (\E f \in Freqs : req = <<"FREQ", f>>) /\ v = w
  <2>1. PICK f \in Freqs : req = <<"FREQ", f>>
    BY <1>3
  <2>2. k = [h EXCEPT !.todo = Append(h.todo, <<"c", f>>)]
    BY <2>1, RequestEffect
  <2>3. /\ k.todo = Append(h.todo, <<"c", f>>) /\ k.noise = h.noise /\ k.gains = h.gains
        /\ k.state = h.state /\ k.cal_frame_cntr = h.cal_frame_cntr
        /\ k.last_gains = h.last_gains
    BY <2>2 DEF HwcType
  <2>4. /\ <<"c", f>> \in Command /\ <<"c", f>>[1] # "g"
        /\ <<"c", f>> # <<"n", ~h.noise>>
    BY <1>1, Messages, Pairs, CommandsDiffer
  <2>5. NoiseSent(k, r) /\ GainsSent(k, r)
    BY <1>1, <2>3, <2>4, SentAppend
  <2> QED
    BY <1>3, <2>3, <2>5 DEF Remembered
<1>4. CASE \E g \in UserGains : req = <<"GAIN", g>> /\ v = [gain |-> g, agc |-> FALSE]
  <2>1. PICK g \in UserGains : req = <<"GAIN", g>> /\ v = [gain |-> g, agc |-> FALSE]
    BY <1>4
  <2>2. k = IF h.noise THEN [h EXCEPT !.last_gains = g, !.agc = FALSE]
            ELSE [h EXCEPT !.gains = g, !.agc = FALSE, !.todo = Append(h.todo, <<"g", g>>)]
    BY <2>1, RequestEffect
  <2>3. CASE h.noise
    <3>1. /\ k.todo = h.todo /\ k.noise = h.noise /\ k.gains = h.gains
          /\ k.state = h.state /\ k.cal_frame_cntr = h.cal_frame_cntr
          /\ k.last_gains = g
      BY <2>2, <2>3 DEF HwcType
    <3>2. NoiseSent(k, r)
      BY <3>1, SentSame
    <3>3. GainsSent(k, r)
      BY <3>1, SentSame
    <3> QED
      BY <2>1, <2>3, <3>1, <3>2, <3>3 DEF Remembered
  <2>4. CASE ~h.noise
    <3>1. /\ k.todo = Append(h.todo, <<"g", g>>) /\ k.noise = h.noise /\ k.gains = g
          /\ k.state = h.state /\ k.cal_frame_cntr = h.cal_frame_cntr
      BY <2>2, <2>4 DEF HwcType
    <3>2. <<"g", g>> \in Command /\ <<"g", g>> # <<"n", ~h.noise>>
      BY <1>1, Messages, ConstantFacts, CommandsDiffer
    <3>3. NoiseSent(k, r) /\ GainsSent(k, r)
      BY <1>1, <3>1, <3>2, SentAppend
    <3> QED
      BY <2>1, <2>4, <3>1, <3>3 DEF Remembered
  <2> QED
    BY <2>3, <2>4
<1>5. CASE req = <<"AGC ">> /\ v = [w EXCEPT !.agc = TRUE]
  <2>1. k = IF h.noise THEN [h EXCEPT !.last_agc = TRUE]
            ELSE [h EXCEPT !.agc = TRUE, !.todo = Append(h.todo, <<"a">>)]
    BY <1>5, RequestEffect
  <2>2. v.gain = w.gain
    BY <1>5
  <2>3. CASE h.noise
    <3>1. /\ k.todo = h.todo /\ k.noise = h.noise /\ k.gains = h.gains
          /\ k.state = h.state /\ k.cal_frame_cntr = h.cal_frame_cntr
          /\ k.last_gains = h.last_gains
      BY <2>1, <2>3 DEF HwcType
    <3>2. NoiseSent(k, r)
      BY <3>1, SentSame
    <3>3. GainsSent(k, r)
      BY <3>1, SentSame
    <3> QED
      BY <2>2, <3>1, <3>2, <3>3 DEF Remembered
  <2>4. CASE ~h.noise
    <3>1. /\ k.todo = Append(h.todo, <<"a">>) /\ k.noise = h.noise /\ k.gains = h.gains
          /\ k.state = h.state /\ k.cal_frame_cntr = h.cal_frame_cntr
          /\ k.last_gains = h.last_gains
      BY <2>1, <2>4 DEF HwcType
    <3>2. <<"a">> \in Command /\ <<"a">>[1] # "g" /\ <<"a">> # <<"n", ~h.noise>>
      BY <1>1, Messages, Singles, CommandsDiffer
    <3>3. NoiseSent(k, r) /\ GainsSent(k, r)
      BY <1>1, <3>1, <3>2, SentAppend
    <3> QED
      BY <2>2, <3>1, <3>3 DEF Remembered
  <2> QED
    BY <2>3, <2>4
<1> QED
  BY <1>2, <1>3, <1>4, <1>5 DEF Asked

-----------------------------------------------------------------------------
(* Every step keeps what is in IInv beside the types. *)

\* What the controller believes in, apart from the frames under way.
Kept ==
    /\ GainsRemembered /\ BurstCounted /\ NoiseSent(hwc, rtl)
    /\ IF hwc.state = "INIT" THEN ~hwc.noise ELSE GainsSent(hwc, rtl)

LEMMA IInvParts == IInv <=> TypeOK /\ NoiseTurns /\ Kept
BY DEF IInv, Kept

LEMMA InitKept == Init => NoiseTurns /\ Kept
<1> SUFFICES ASSUME Init PROVE NoiseTurns /\ Kept
  OBVIOUS
<1>1. /\ hwc.noise = FALSE /\ rtl.noise = FALSE /\ hwc.todo = <<>> /\ hwc.state = "INIT"
      /\ hwc.gains = wanted.gain /\ hwc.cal_frame_cntr = 0
  BY DEF Init
<1>2. toDec = <<>> /\ toSync = <<>> /\ toHwc = <<>>
  BY DEF Init
<1>3. \A N : NoneOf(toHwc, toSync, toDec, N)
  BY <1>2 DEF NoneOf, Clear
<1>4. NoiseTurns
  <2>1. InOrder(toHwc, toSync, toDec, Showing(hwc.noise), Showing(~hwc.noise))
    BY <1>3, NoneInOrder
  <2> QED
    BY <1>1, <1>3, <2>1 DEF NoiseTurns
<1>5. NoiseSent(hwc, rtl)
  <2>1. DOMAIN hwc.todo = {}
    BY <1>1
  <2>2. rtl.noise = hwc.noise
    BY <1>1
  <2> QED
    BY <2>1, <2>2, Zenon DEF NoiseSent
<1>6. GainsRemembered /\ BurstCounted
  BY <1>1 DEF GainsRemembered, Remembered, BurstCounted
<1> QED
  BY <1>1, <1>4, <1>5, <1>6 DEF Kept

\* rtl_daq may make a pending gain change its own and start dummy frames.
LEMMA TunerKept ==
    ASSUME Kept, UNCHANGED <<hwc, wanted>>, rtl'.noise = rtl.noise,
           \/ rtl'.new_gain = rtl.new_gain /\ rtl'.gain = rtl.gain
           \/ /\ rtl'.new_gain = None
              /\ rtl'.gain = IF rtl.new_gain = None THEN rtl.gain ELSE rtl.new_gain
    PROVE  Kept'
<1>1. GainsRemembered' /\ BurstCounted'
  BY DEF Kept, GainsRemembered, Remembered, BurstCounted
<1>2. NoiseSent(hwc', rtl')
  BY DEF Kept, NoiseSent
<1>3. ASSUME GainsSent(hwc, rtl) PROVE GainsSent(hwc', rtl')
  <2>1. CASE \E i \in DOMAIN hwc.todo :
               /\ hwc.todo[i] = <<"g", hwc.gains>>
               /\ \A j \in DOMAIN hwc.todo : j > i => hwc.todo[j][1] # "g"
    BY <2>1 DEF GainsSent
  <2>2. CASE /\ \A i \in DOMAIN hwc.todo : hwc.todo[i][1] # "g"
             /\ hwc.gains = IF rtl.new_gain = None THEN rtl.gain ELSE rtl.new_gain
    <3>1. hwc.gains = IF rtl'.new_gain = None THEN rtl'.gain ELSE rtl'.new_gain
      BY <2>2
    <3> QED
      BY <2>2, <3>1 DEF GainsSent
  <2> QED
    BY <1>3, <2>1, <2>2 DEF GainsSent
<1> QED
  BY <1>1, <1>2, <1>3 DEF Kept

LEMMA RtlKept == TypeOK /\ NoiseTurns /\ Kept /\ RtlFrame => NoiseTurns' /\ Kept'
<1> SUFFICES ASSUME TypeOK, NoiseTurns, Kept, RtlFrame PROVE NoiseTurns' /\ Kept'
  OBVIOUS
<1> DEFINE N == Showing(hwc.noise)
           O == Showing(~hwc.noise)
           x == Header(rtl)
<1>1. /\ rtl' = Applied(rtl) /\ toDec' = Append(toDec, x)
      /\ UNCHANGED <<toSync, toHwc, hwc, wanted>>
  BY DEF RtlFrame, history
<1>2. /\ rtl \in RtlType /\ hwc.noise \in BOOLEAN /\ rtl.noise \in BOOLEAN
      /\ toDec \in Seq(Frame) /\ toSync \in Seq(Frame) /\ toHwc \in Seq(SyncedFrame)
  BY DEF TypeOK, RtlType, HwcType, QueuesTypeOK
<1>3. x \in Frame /\ x \notin Showing(~rtl.noise)
  BY <1>2, HeaderFacts
<1>4. rtl'.noise = rtl.noise
  BY <1>1, <1>2, AppliedFacts
<1>5. Kept'
  BY <1>1, <1>2, <1>4, AppliedFacts, TunerKept
<1>6. InOrder(toHwc, toSync, toDec, N, O)
  BY DEF NoiseTurns
<1>7. CASE rtl.noise = hwc.noise
  <2>1. x \notin O
    BY <1>3, <1>7
  <2>2. InOrder(toHwc, toSync, Append(toDec, x), N, O)
    BY <1>2, <1>3, <1>6, <2>1, OrderSend
  <2>3. hwc.state # "NOISE_CTR_WAIT" => NoneOf(toHwc, toSync, toDec, O)
    BY DEF NoiseTurns
  <2>4. hwc.state # "NOISE_CTR_WAIT" => NoneOf(toHwc, toSync, Append(toDec, x), O)
    BY <1>2, <1>3, <2>1, <2>3, NoneSteps
  <2> QED
    BY <1>1, <1>4, <1>5, <1>7, <2>2, <2>4 DEF NoiseTurns
<1>8. CASE rtl.noise # hwc.noise
  <2>1. x \notin N
    BY <1>2, <1>3, <1>8
  <2>2. NoneOf(toHwc, toSync, toDec, N) /\ hwc.state = "NOISE_CTR_WAIT"
    BY <1>8 DEF NoiseTurns
  <2>3. InOrder(toHwc, toSync, Append(toDec, x), N, O)
    BY <1>2, <1>3, <1>6, <2>2, OrderSend
  <2>4. NoneOf(toHwc, toSync, Append(toDec, x), N)
    BY <1>2, <1>3, <2>1, <2>2, NoneSteps
  <2> QED
    BY <1>1, <1>4, <1>5, <2>2, <2>3, <2>4 DEF NoiseTurns
<1> QED
  BY <1>7, <1>8

LEMMA DecimateKept == TypeOK /\ NoiseTurns /\ Kept /\ Decimate => NoiseTurns' /\ Kept'
<1> SUFFICES ASSUME TypeOK, NoiseTurns, Kept, Decimate PROVE NoiseTurns' /\ Kept'
  OBVIOUS
<1>1. /\ toDec # <<>> /\ toDec' = Tail(toDec)
      /\ toSync' = Append(toSync, Head(toDec)) \/ toSync' = toSync
      /\ UNCHANGED <<rtl, toHwc, hwc, wanted>>
  BY DEF Decimate
<1>2. toDec \in Seq(Frame) /\ toSync \in Seq(Frame) /\ toHwc \in Seq(SyncedFrame)
  BY DEF TypeOK, QueuesTypeOK
<1>3. Kept'
  BY <1>1, TunerKept
<1>4. InOrder(toHwc', toSync', toDec', Showing(hwc.noise), Showing(~hwc.noise))
  <2>1. InOrder(toHwc, toSync, toDec, Showing(hwc.noise), Showing(~hwc.noise))
    BY DEF NoiseTurns
  <2> QED
    BY <1>1, <1>2, <2>1, OrderDecimate
<1>5. ASSUME NEW N, NoneOf(toHwc, toSync, toDec, N) PROVE NoneOf(toHwc', toSync', toDec', N)
  <2>1. /\ NoneOf(toHwc, toSync, Tail(toDec), N)
        /\ NoneOf(toHwc, Append(toSync, Head(toDec)), Tail(toDec), N)
    BY <1>1, <1>2, <1>5, NoneSteps
  <2> QED
    BY <1>1, <2>1
<1> QED
  BY <1>1, <1>3, <1>4, <1>5 DEF NoiseTurns

LEMMA DsKept == TypeOK /\ NoiseTurns /\ Kept /\ DsStep => NoiseTurns' /\ Kept'
<1> SUFFICES ASSUME TypeOK, NoiseTurns, Kept, DsStep PROVE NoiseTurns' /\ Kept'
  OBVIOUS
<1>1. PICK sync \in 0 .. 6 : /\ Head(toSync) = DummyFrame \/ sync # 0
                             /\ Forward(Head(toSync), sync)
  BY DsFacts
<1> DEFINE y == Passed(Head(toSync), sync)
<1>2. /\ toSync # <<>> /\ toSync' = Tail(toSync)
      /\ toHwc' = toHwc \/ toHwc' = Append(toHwc, y)
      /\ UNCHANGED <<toDec, hwc, wanted>>
  BY <1>1, DsFacts, ForwardFacts
<1>3. /\ rtl \in RtlType /\ hwc.noise \in BOOLEAN
      /\ toDec \in Seq(Frame) /\ toSync \in Seq(Frame) /\ toHwc \in Seq(SyncedFrame)
  BY DEF TypeOK, QueuesTypeOK, HwcType
<1>4. Head(toSync) \in Frame
  BY <1>2, <1>3, TailElements
<1>5. y \in SyncedFrame /\ \A b \in BOOLEAN : y \in Showing(b) <=> Head(toSync) \in Showing(b)
  BY <1>1, <1>4, PassedFacts
<1>6. rtl'.noise = rtl.noise /\ rtl'.new_gain = rtl.new_gain /\ rtl'.gain = rtl.gain
  <2>1. CASE rtl' = rtl
    BY <2>1
  <2>2. CASE rtl' = Accept(rtl, <<"s">>)
    <3>1. rtl' = [rtl EXCEPT !.dummies_due = NoDummyFrames]
      BY <1>3, <2>2, AcceptEffect
    <3> QED
      BY <1>3, <3>1 DEF RtlType
  <2> QED
    BY <2>1, <2>2, DsFacts
<1>7. Kept'
  BY <1>2, <1>6, TunerKept
<1>8. InOrder(toHwc', toSync', toDec', Showing(hwc.noise), Showing(~hwc.noise))
  <2>1. InOrder(toHwc, toSync, toDec, Showing(hwc.noise), Showing(~hwc.noise))
    BY DEF NoiseTurns
  <2>2. /\ y \in Showing(hwc.noise) <=> Head(toSync) \in Showing(hwc.noise)
        /\ y \in Showing(~hwc.noise) <=> Head(toSync) \in Showing(~hwc.noise)
    BY <1>3, <1>5
  <2>3. /\ InOrder(toHwc, Tail(toSync), toDec, Showing(hwc.noise), Showing(~hwc.noise))
        /\ InOrder(Append(toHwc, y), Tail(toSync), toDec, Showing(hwc.noise), Showing(~hwc.noise))
    BY <1>2, <1>3, <1>5, <2>1, <2>2, OrderForward
  <2> QED
    BY <1>2, <2>3
<1>9. ASSUME NEW b \in BOOLEAN, NoneOf(toHwc, toSync, toDec, Showing(b))
      PROVE  NoneOf(toHwc', toSync', toDec', Showing(b))
  <2>1. /\ Head(toSync) \notin Showing(b) /\ NoneOf(toHwc, Tail(toSync), toDec, Showing(b))
        /\ \A z \in SyncedFrame : z \notin Showing(b) =>
              NoneOf(Append(toHwc, z), Tail(toSync), toDec, Showing(b))
    BY <1>2, <1>3, <1>9, NoneSteps
  <2>2. y \notin Showing(b)
    BY <1>5, <2>1
  <2> QED
    BY <1>2, <1>5, <2>1, <2>2
<1>10. /\ NoneOf(toHwc, toSync, toDec, Showing(hwc.noise)) =>
             NoneOf(toHwc', toSync', toDec', Showing(hwc.noise))
       /\ NoneOf(toHwc, toSync, toDec, Showing(~hwc.noise)) =>
             NoneOf(toHwc', toSync', toDec', Showing(~hwc.noise))
  BY <1>3, <1>9
<1> QED
  BY <1>2, <1>6, <1>7, <1>8, <1>10 DEF NoiseTurns
\* Taking a frame that changes nothing about the controller.
LEMMA TakenTurns ==
    ASSUME TypeOK, NoiseTurns, Receive
    PROVE  /\ InOrder(toHwc', toSync, toDec, Showing(hwc.noise), Showing(~hwc.noise))
           /\ \A N : NoneOf(toHwc, toSync, toDec, N) => NoneOf(toHwc', toSync, toDec, N)
           /\ Head(toHwc) \in Showing(hwc.noise) =>
                 NoneOf(toHwc', toSync, toDec, Showing(~hwc.noise))
<1>1. toHwc # <<>> /\ toHwc' = Tail(toHwc)
  BY ReceiveFacts
<1>2. toDec \in Seq(Frame) /\ toSync \in Seq(Frame) /\ toHwc \in Seq(SyncedFrame)
  BY DEF TypeOK, QueuesTypeOK
<1>3. InOrder(toHwc, toSync, toDec, Showing(hwc.noise), Showing(~hwc.noise))
  BY DEF NoiseTurns
<1>4. /\ InOrder(Tail(toHwc), toSync, toDec, Showing(hwc.noise), Showing(~hwc.noise))
      /\ Head(toHwc) \in Showing(hwc.noise) =>
            NoneOf(Tail(toHwc), toSync, toDec, Showing(~hwc.noise))
  BY <1>1, <1>2, <1>3, OrderTake
<1>5. ASSUME NEW N, NoneOf(toHwc, toSync, toDec, N)
      PROVE  NoneOf(Tail(toHwc), toSync, toDec, N)
  BY <1>1, <1>2, <1>5, NoneSteps
<1> QED
  BY <1>1, <1>4, <1>5

LEMMA DummyKept == TypeOK /\ NoiseTurns /\ Kept /\ HwcDummy => NoiseTurns' /\ Kept'
<1> SUFFICES ASSUME TypeOK, NoiseTurns, Kept, HwcDummy PROVE NoiseTurns' /\ Kept'
  OBVIOUS
<1>1. Receive /\ UNCHANGED <<rtl, toDec, toSync, hwc, wanted>>
  BY DEF HwcDummy, history
<1>2. Kept'
  BY <1>1, TunerKept
<1> QED
  BY <1>1, <1>2, TakenTurns DEF NoiseTurns

LEMMA InitStateKept == TypeOK /\ NoiseTurns /\ Kept /\ HwcInit => NoiseTurns' /\ Kept'
<1> SUFFICES ASSUME TypeOK, NoiseTurns, Kept, HwcInit PROVE NoiseTurns' /\ Kept'
  OBVIOUS
<1>1. /\ Receive /\ hwc.state = "INIT" /\ UNCHANGED <<rtl, toDec, toSync, wanted>>
      /\ hwc' = [hwc EXCEPT !.todo = <<<<"g", hwc.gains>>, <<"n", FALSE>>>>,
                            !.state = "IQ_CAL"]
  BY DEF HwcInit, history
<1>2. hwc.noise = FALSE /\ hwc \in HwcType
  BY <1>1 DEF Kept, TypeOK, HwcType
<1>3. /\ hwc'.todo = <<<<"g", hwc.gains>>, <<"n", FALSE>>>> /\ hwc'.state = "IQ_CAL"
      /\ hwc'.noise = FALSE /\ hwc'.gains = hwc.gains
      /\ hwc'.last_gains = hwc.last_gains /\ hwc'.cal_frame_cntr = hwc.cal_frame_cntr
  BY <1>1, <1>2 DEF HwcType
<1>4. /\ DOMAIN hwc'.todo = 1 .. 2
      /\ hwc'.todo[1] = <<"g", hwc.gains>> /\ hwc'.todo[2] = <<"n", FALSE>>
  <2> DEFINE u == <<"g", hwc.gains>>
             v == <<"n", FALSE>>
  <2>1. hwc'.todo = <<u, v>>
    BY <1>3
  <2> HIDE DEF u, v
  <2>2. hwc'.todo[1] = u /\ hwc'.todo[2] = v /\ DOMAIN hwc'.todo = 1 .. 2
    BY <2>1, Pairs
  <2> QED
    BY <2>2 DEF u, v
<1>5. NoiseTurns'
  <2>1. NoneOf(toHwc, toSync, toDec, Showing(~hwc.noise)) /\ rtl.noise = hwc.noise
    BY <1>1 DEF NoiseTurns
  <2> QED
    BY <1>1, <1>2, <1>3, <2>1, TakenTurns DEF NoiseTurns
<1>6. NoiseSent(hwc', rtl')
  <2>1. rtl'.noise = hwc'.noise
    BY <1>1, <1>2, <1>3 DEF NoiseTurns
  <2>2. ~hwc'.noise = TRUE
    BY <1>3
  <2>3. \A i \in DOMAIN hwc'.todo : hwc'.todo[i] # <<"n", TRUE>>
    <3>1. hwc'.todo[1] # <<"n", TRUE>>
      BY <1>4, CommandsDiffer
    <3>2. hwc'.todo[2] # <<"n", TRUE>>
      BY <1>4, NoiseCommandsDiffer
    <3>3. \A i \in 1 .. 2 : i = 1 \/ i = 2
      OBVIOUS
    <3> QED
      BY <1>4, <3>1, <3>2, <3>3
  <2> QED
    BY <2>1, <2>2, <2>3 DEF NoiseSent
<1>7. GainsSent(hwc', rtl')
  <2>1. 1 \in DOMAIN hwc'.todo /\ hwc'.todo[1] = <<"g", hwc'.gains>>
    BY <1>3, <1>4
  <2>2. \A j \in DOMAIN hwc'.todo : j > 1 => hwc'.todo[j][1] # "g"
    <3>1. SUFFICES ASSUME NEW j \in 1 .. 2, j > 1 PROVE hwc'.todo[j][1] # "g"
      BY <1>4
    <3>2. j = 2
      BY <3>1
    <3> QED
      BY <1>4, <3>2, Pairs
  <2> QED
    BY <2>1, <2>2 DEF GainsSent
<1>8. GainsRemembered' /\ BurstCounted'
  <2>1. GainsRemembered'
    BY <1>1, <1>2, <1>3 DEF Kept, GainsRemembered, Remembered
  <2>2. BurstCounted'
    BY <1>2, <1>3 DEF Kept, BurstCounted
  <2> QED
    BY <2>1, <2>2
<1> QED
  BY <1>3, <1>5, <1>6, <1>7, <1>8 DEF Kept

LEMMA WaitKept == TypeOK /\ NoiseTurns /\ Kept /\ HwcNoiseCtrWait => NoiseTurns' /\ Kept'
<1> SUFFICES ASSUME TypeOK, NoiseTurns, Kept, HwcNoiseCtrWait PROVE NoiseTurns' /\ Kept'
  OBVIOUS
<1>1. /\ Receive /\ Head(toHwc) # DummyFrame /\ hwc.state = "NOISE_CTR_WAIT"
      /\ UNCHANGED <<rtl, toDec, toSync, wanted>>
      /\ \/ hwc' = hwc
         \/ Head(toHwc).noise = hwc.noise /\ hwc' = [hwc EXCEPT !.state = "IQ_CAL"]
  BY DEF HwcNoiseCtrWait, history
<1>2. CASE hwc' = hwc
  <2>1. Kept'
    BY <1>1, <1>2, TunerKept
  <2> QED
    BY <1>1, <1>2, <2>1, TakenTurns DEF NoiseTurns
<1>3. CASE Head(toHwc).noise = hwc.noise /\ hwc' = [hwc EXCEPT !.state = "IQ_CAL"]
  <2>1. hwc \in HwcType /\ hwc.noise \in BOOLEAN
    BY DEF TypeOK, HwcType
  <2>2. /\ hwc'.todo = hwc.todo /\ hwc'.noise = hwc.noise /\ hwc'.gains = hwc.gains
        /\ hwc'.last_gains = hwc.last_gains /\ hwc'.state = "IQ_CAL"
        /\ hwc'.cal_frame_cntr = hwc.cal_frame_cntr
    BY <1>3, <2>1 DEF HwcType
  <2>3. Head(toHwc) \in Showing(hwc.noise)
    BY <1>1, <1>3, ReceiveFacts DEF Showing
  <2>4. hwc.todo = <<>>
    BY <1>1, ReceiveFacts
  <2>5. rtl.noise = hwc.noise
    <3>1. DOMAIN hwc.todo = {}
      BY <2>4
    <3> QED
      BY <3>1 DEF Kept, NoiseSent
  <2>6. NoiseTurns'
    BY <1>1, <2>2, <2>3, <2>5, TakenTurns DEF NoiseTurns
  <2>7. NoiseSent(hwc', rtl') /\ GainsSent(hwc', rtl')
    BY <1>1, <2>2, SentSame DEF Kept
  <2>8. GainsRemembered'
    BY <1>1, <2>2 DEF Kept, GainsRemembered, Remembered
  <2>9. BurstCounted'
    BY <2>2 DEF Kept, BurstCounted
  <2> QED
    BY <2>2, <2>6, <2>7, <2>8, <2>9 DEF Kept
<1> QED
  BY <1>1, <1>2, <1>3
LEMMA IqCalKept ==
    BurstsFit /\ TypeOK /\ NoiseTurns /\ Kept /\ HwcIqCal => NoiseTurns' /\ Kept'
<1> SUFFICES ASSUME BurstsFit, TypeOK, NoiseTurns, Kept, HwcIqCal PROVE NoiseTurns' /\ Kept'
  OBVIOUS
<1>1. /\ Receive /\ Head(toHwc) # DummyFrame /\ hwc.state = "IQ_CAL"
      /\ UNCHANGED <<rtl, toDec, toSync>>
  BY IqCalFacts
<1>2. PICK approval \in BOOLEAN :
         /\ ~RequireTrackLock => approval
         /\ hwc' = HandleControlRequest(Judged(approval), ctr_request)
  BY IqCalFacts
<1>3. /\ hwc \in HwcType /\ hwc.noise \in BOOLEAN
      /\ ctr_request \in Requests \cup {<<>>}
      /\ wanted \in [gain : UserGains, agc : BOOLEAN]
  BY DEF TypeOK, HwcType
<1>4. hwc.todo = <<>> /\ Head(toHwc) \in SyncedFrame
  BY <1>1, ReceiveFacts
<1>5. Head(toHwc).noise = hwc.noise
  BY <1>1, HeadIsCurrent
<1> DEFINE h == Judged(approval)
<1>6. PICK c \in Nat : Decision(h, c)
  <2>1. BurstCounted
    BY DEF Kept
  <2> QED
    BY <1>1, <1>2, <1>4, <1>5, <2>1, DecisionCounted DEF Judged
<1>7. h \in HwcType
  BY <1>3, NoiseControlType, BurstType DEF Judged
<1>8. /\ Remembered(h, wanted) /\ NoiseSent(h, rtl) /\ GainsSent(h, rtl)
      /\ h.cal_frame_cntr = c /\ h.state # "INIT"
      /\ h.noise = hwc.noise \/ h.state = "NOISE_CTR_WAIT"
  <2>1. GainsRemembered /\ NoiseSent(hwc, rtl) /\ GainsSent(hwc, rtl)
    BY <1>1 DEF Kept
  <2> QED
    BY <1>1, <1>4, <1>6, <2>1, DecisionGood
<1>9. /\ NoiseSent(hwc', rtl) /\ GainsSent(hwc', rtl) /\ Remembered(hwc', wanted')
      /\ hwc'.noise = h.noise /\ hwc'.state = h.state /\ hwc'.cal_frame_cntr = h.cal_frame_cntr
  <2> HIDE DEF h
  <2>1. hwc' = HandleControlRequest(h, ctr_request)
    BY <1>2 DEF h
  <2>2. Asked(ctr_request, wanted, wanted')
    BY WantedCases DEF Asked
  <2>3. ASSUME NEW k, NEW v, k = HandleControlRequest(h, ctr_request),
               Asked(ctr_request, wanted, v)
        PROVE  /\ NoiseSent(k, rtl) /\ GainsSent(k, rtl) /\ Remembered(k, v)
               /\ k.noise = h.noise /\ k.state = h.state
               /\ k.cal_frame_cntr = h.cal_frame_cntr
    <3>1. /\ h \in HwcType /\ ctr_request \in Requests \cup {<<>>}
          /\ wanted \in [gain : UserGains, agc : BOOLEAN]
      BY <1>3, <1>7
    <3>2. NoiseSent(h, rtl) /\ GainsSent(h, rtl) /\ Remembered(h, wanted)
      BY <1>8
    <3> QED
      BY <2>3, <3>1, <3>2, RequestGood, SMTT(60)
  <2> QED
    BY <2>1, <2>2, <2>3, Zenon
<1>10. BurstCounted'
  <2>1. (CalTrackMode # 2 => c = 0) /\ (c # 0 => (h.noise <=> c >= CalFrameInterval))
    BY <1>6 DEF Decision
  <2>2. hwc'.cal_frame_cntr = c /\ hwc'.noise = h.noise
    BY <1>8, <1>9
  <2> HIDE DEF h
  <2> QED
    BY <2>1, <2>2 DEF BurstCounted
<1>11. Kept'
  <2> HIDE DEF h
  <2>1. GainsRemembered'
    BY <1>9 DEF GainsRemembered
  <2>2. hwc'.state # "INIT"
    BY <1>8, <1>9
  <2>3. NoiseSent(hwc', rtl') /\ GainsSent(hwc', rtl')
    BY <1>1, <1>9
  <2> QED
    BY <1>10, <2>1, <2>2, <2>3 DEF Kept
<1>12. rtl.noise = hwc.noise /\ NoneOf(toHwc', toSync, toDec, Showing(~hwc.noise))
  BY <1>1, TakenTurns DEF NoiseTurns
<1>13. CASE hwc'.noise = hwc.noise
  BY <1>1, <1>11, <1>12, <1>13, TakenTurns DEF NoiseTurns
<1>14. CASE hwc'.noise # hwc.noise
  <2> HIDE DEF h
  <2>1. hwc'.state = "NOISE_CTR_WAIT" /\ hwc'.noise \in BOOLEAN
    BY <1>3, <1>7, <1>8, <1>9, <1>14 DEF HwcType
  <2>2. hwc'.noise = ~hwc.noise
    BY <1>3, <1>14, <2>1
  <2>3. NoneOf(toHwc', toSync, toDec, Showing(hwc'.noise))
    BY <1>12, <2>2
  <2>4. InOrder(toHwc', toSync, toDec, Showing(hwc'.noise), Showing(~hwc'.noise))
    BY <2>3, NoneInOrder
  <2> QED
    BY <1>1, <1>11, <2>1, <2>3, <2>4 DEF NoiseTurns
<1> QED
  BY <1>13, <1>14

\* What a command changes at once.
LEMMA SendEffect ==
    ASSUME NEW r \in RtlType, NEW cmd \in Command
    PROVE  /\ Accept(r, cmd).gain = r.gain
           /\ cmd[1] = "n" => Accept(r, cmd).noise = cmd[2]
           /\ cmd[1] # "n" => Accept(r, cmd).noise = r.noise
           /\ cmd[1] = "g" => Accept(r, cmd).new_gain = cmd[2]
           /\ cmd[1] # "g" => Accept(r, cmd).new_gain = r.new_gain
<1>1. CASE cmd[1] = "c"
  BY <1>1 DEF Accept, RtlType
<1>2. CASE cmd[1] = "g"
  BY <1>2 DEF Accept, RtlType
<1>3. CASE cmd[1] = "n"
  BY <1>3 DEF Accept, RtlType
<1>4. CASE cmd[1] = "a"
  BY <1>4 DEF Accept, RtlType
<1>5. cmd[1] \in {"c", "g", "n", "a"}
  <2>1. \/ \E f \in Freqs : cmd = <<"c", f>>
        \/ \E g \in Gains : cmd = <<"g", g>>
        \/ \E b \in BOOLEAN : cmd = <<"n", b>>
        \/ cmd = <<"a">>
    BY DEF Command
  <2> QED
    BY <2>1
<1> QED
  BY <1>1, <1>2, <1>3, <1>4, <1>5

LEMMA SendKept == TypeOK /\ NoiseTurns /\ Kept /\ HwcSend => NoiseTurns' /\ Kept'
<1> SUFFICES ASSUME TypeOK, NoiseTurns, Kept, HwcSend PROVE NoiseTurns' /\ Kept'
  OBVIOUS
<1> DEFINE t == hwc.todo
           cmd == Head(t)
<1>1. /\ t # <<>> /\ rtl' = Accept(rtl, cmd) /\ hwc' = [hwc EXCEPT !.todo = Tail(t)]
      /\ UNCHANGED <<toDec, toSync, toHwc, wanted>>
  BY DEF HwcSend, history
<1>2. /\ rtl \in RtlType /\ hwc \in HwcType /\ t \in Seq(Command)
      /\ hwc.noise \in BOOLEAN /\ hwc.gains \in Gains /\ rtl.noise \in BOOLEAN
  BY DEF TypeOK, HwcType, RtlType
<1>3. /\ hwc'.todo = Tail(t) /\ hwc'.noise = hwc.noise /\ hwc'.gains = hwc.gains
      /\ hwc'.last_gains = hwc.last_gains /\ hwc'.state = hwc.state
      /\ hwc'.cal_frame_cntr = hwc.cal_frame_cntr
  BY <1>1, <1>2 DEF HwcType
<1>4. /\ cmd \in Command /\ 1 \in DOMAIN t /\ cmd = t[1]
      /\ \A i \in DOMAIN Tail(t) : i \in Nat /\ i + 1 \in DOMAIN t /\ Tail(t)[i] = t[i + 1]
      /\ \A i \in DOMAIN t : i \in Nat /\ (i = 1 \/ i - 1 \in DOMAIN Tail(t))
  BY <1>1, <1>2, TailElements
<1>5. /\ cmd[1] = "n" => rtl'.noise = cmd[2]
      /\ cmd[1] # "n" => rtl'.noise = rtl.noise
      /\ cmd[1] = "g" => rtl'.new_gain = cmd[2]
      /\ cmd[1] # "g" => rtl'.new_gain = rtl.new_gain
      /\ rtl'.gain = rtl.gain
  <2> HIDE DEF cmd
  <2> QED
    BY <1>1, <1>2, <1>4, SendEffect
<1> HIDE DEF t, cmd
<1>6. /\ \A i \in DOMAIN t : t[i] # <<"n", ~hwc.noise>>
      /\ rtl.noise # hwc.noise => \E i \in DOMAIN t : t[i] = <<"n", hwc.noise>>
  BY DEF Kept, NoiseSent, t
<1>7. rtl'.noise = hwc.noise \/ (rtl'.noise = rtl.noise /\ cmd[1] # "n")
  <2>1. CASE \E b \in BOOLEAN : cmd = <<"n", b>>
    <3>1. PICK b \in BOOLEAN : cmd = <<"n", b>>
      BY <2>1
    <3>2. b # ~hwc.noise
      BY <1>4, <1>6, <3>1
    <3>3. b = hwc.noise
      BY <1>2, <3>1, <3>2
    <3>4. cmd[1] = "n" /\ cmd[2] = b
      BY <3>1, Pairs
    <3> QED
      BY <1>5, <3>3, <3>4
  <2>2. CASE \A b \in BOOLEAN : cmd # <<"n", b>>
    <3>1. cmd[1] # "n"
      BY <1>4, <2>2 DEF Command
    <3> QED
      BY <1>5, <3>1
  <2> QED
    BY <2>1, <2>2
<1>8. NoiseSent(hwc', rtl')
  <2>1. \A i \in DOMAIN hwc'.todo : hwc'.todo[i] # <<"n", ~hwc'.noise>>
    <3>1. ASSUME NEW i \in DOMAIN Tail(t) PROVE Tail(t)[i] # <<"n", ~hwc.noise>>
      <4>1. i + 1 \in DOMAIN t /\ Tail(t)[i] = t[i + 1]
        BY <1>4, <3>1
      <4> QED
        BY <1>6, <4>1
    <3> QED
      BY <1>3, <3>1
  <2>2. ASSUME rtl'.noise # hwc'.noise
        PROVE  \E i \in DOMAIN hwc'.todo : hwc'.todo[i] = <<"n", hwc'.noise>>
    <3>1. rtl.noise # hwc.noise /\ cmd[1] # "n"
      BY <1>3, <1>7, <2>2
    <3>2. PICK i \in DOMAIN t : t[i] = <<"n", hwc.noise>>
      BY <1>6, <3>1
    <3>3. i # 1
      <4>1. t[i][1] = "n"
        BY <3>2, Pairs
      <4> QED
        BY <1>4, <3>1, <4>1
    <3>4. i - 1 \in DOMAIN Tail(t) /\ i \in Nat
      BY <1>4, <3>2, <3>3
    <3>5. Tail(t)[i - 1] = t[(i - 1) + 1] /\ (i - 1) + 1 = i
      BY <1>4, <3>4
    <3> QED
      BY <1>3, <3>2, <3>4, <3>5
  <2> QED
    BY <2>1, <2>2 DEF NoiseSent
<1>9. ASSUME GainsSent(hwc, rtl) PROVE GainsSent(hwc', rtl')
  <2>1. ASSUME NEW i \in DOMAIN t, t[i] = <<"g", hwc.gains>>,
               \A j \in DOMAIN t : j > i => t[j][1] # "g"
        PROVE  GainsSent(hwc', rtl')
    <3>1. i \in Nat /\ (i = 1 \/ i - 1 \in DOMAIN Tail(t))
      BY <1>4, <2>1
    <3>2. CASE i = 1
      <4>1. cmd = <<"g", hwc.gains>>
        BY <1>4, <2>1, <3>2
      <4>2. cmd[1] = "g" /\ cmd[2] = hwc.gains
        BY <4>1, Pairs
      <4>3. rtl'.new_gain = hwc.gains /\ hwc.gains # None
        BY <1>2, <1>5, <4>2, ConstantFacts
      <4>4. ASSUME NEW j \in DOMAIN Tail(t) PROVE Tail(t)[j][1] # "g"
        <5>1. j \in Nat /\ j + 1 \in DOMAIN t /\ Tail(t)[j] = t[j + 1]
          BY <1>4, <4>4
        <5>2. j # 0
          BY <1>1, <1>2, <4>4, TailElements DEF t
        <5> QED
          BY <2>1, <3>2, <5>1, <5>2
      <4> QED
        BY <1>3, <4>3, <4>4 DEF GainsSent
    <3>3. CASE i # 1
      <4>1. i - 1 \in DOMAIN Tail(t) /\ (i - 1) + 1 = i
        BY <3>1, <3>3
      <4>2. Tail(t)[i - 1] = <<"g", hwc.gains>>
        BY <1>4, <2>1, <4>1
      <4>3. ASSUME NEW j \in DOMAIN Tail(t), j > i - 1 PROVE Tail(t)[j][1] # "g"
        <5>1. j \in Nat /\ j + 1 \in DOMAIN t /\ Tail(t)[j] = t[j + 1]
          BY <1>4, <4>3
        <5>2. j + 1 > i
          BY <3>1, <4>3, <5>1
        <5> QED
          BY <2>1, <5>1, <5>2
      <4> QED
        BY <1>3, <4>1, <4>2, <4>3 DEF GainsSent
    <3> QED
      BY <3>2, <3>3
  <2>2. ASSUME \A i \in DOMAIN t : t[i][1] # "g",
               hwc.gains = IF rtl.new_gain = None THEN rtl.gain ELSE rtl.new_gain
        PROVE  GainsSent(hwc', rtl')
    <3>1. rtl'.new_gain = rtl.new_gain /\ rtl'.gain = rtl.gain
      BY <1>4, <1>5, <2>2
    <3>2. \A i \in DOMAIN Tail(t) : Tail(t)[i][1] # "g"
      BY <1>4, <2>2
    <3> QED
      BY <1>3, <2>2, <3>1, <3>2 DEF GainsSent
  <2> QED
    BY <1>9, <2>1, <2>2 DEF GainsSent, t
<1>10. GainsRemembered' /\ BurstCounted'
  <2>1. GainsRemembered'
    BY <1>1, <1>3 DEF Kept, GainsRemembered, Remembered
  <2>2. BurstCounted'
    BY <1>3 DEF Kept, BurstCounted
  <2> QED
    BY <2>1, <2>2
<1>11. Kept'
  <2>1. hwc.state = "INIT" => ~hwc.noise
    BY DEF Kept
  <2>2. hwc.state # "INIT" => GainsSent(hwc, rtl)
    BY DEF Kept
  <2> QED
    BY <1>3, <1>8, <1>9, <1>10, <2>1, <2>2 DEF Kept
<1>12. NoiseTurns'
  BY <1>1, <1>3, <1>7 DEF NoiseTurns
<1> QED
  BY <1>11, <1>12

LEMMA Inductive == BurstsFit /\ IInv /\ [Next]_vars => IInv'
<1> SUFFICES ASSUME BurstsFit, TypeOK, NoiseTurns, Kept, [Next]_vars PROVE NoiseTurns' /\ Kept'
  BY IInvParts, TypeStep DEF IInv, Kept
<1>1. CASE RtlFrame
  BY <1>1, RtlKept
<1>2. CASE Decimate
  BY <1>2, DecimateKept
<1>3. CASE DsStep
  BY <1>3, DsKept
<1>4. CASE HwcStep
  BY <1>4, DummyKept, InitStateKept, IqCalKept, WaitKept, SendKept DEF HwcStep
<1>5. CASE ClientRequest \/ UNCHANGED vars
  <2>1. UNCHANGED <<rtl, toDec, toSync, toHwc, hwc, wanted>>
    BY <1>5 DEF ClientRequest, vars, history
  <2>2. Kept'
    BY <2>1, TunerKept
  <2> QED
    BY <2>1, <2>2 DEF NoiseTurns
<1> QED
  BY <1>1, <1>2, <1>3, <1>4, <1>5 DEF Next

\* What holds of every reachable state, whatever the depths, the counts and the order
\* of frames, drops, measurements, commands and requests.
THEOREM Invariance == ASSUME BurstsFit PROVE Spec => []IInv
<1>1. Init => IInv
  BY InitTypes, InitKept, IInvParts
<1>2. IInv /\ [Next]_vars => IInv'
  BY Inductive
<1> QED
  BY <1>1, <1>2, PTL DEF Spec

-----------------------------------------------------------------------------
(* What follows from it *)

\* The gains the client asked for last are in use or saved while those of the
\* calibration are (last_gains of hw_controller.py).
THEOREM ClientGainsSurvive == ASSUME BurstsFit PROVE Spec => []GainsRemembered
<1>1. IInv => GainsRemembered
  BY DEF IInv
<1> QED
  BY <1>1, Invariance, PTL

\* STATE_IQ_CAL of hw_controller.py decides on no frame sampled before the noise
\* source was switched, whatever is under way in the chain.
THEOREM NoStaleDecision == ASSUME BurstsFit PROVE Spec => []HeadersAreCurrent
<1>1. IInv => HeadersAreCurrent
  <2> SUFFICES ASSUME IInv, hwc.state = "IQ_CAL", NEW f \in InFlight, f # DummyFrame
               PROVE  f.noise = hwc.noise
    BY DEF HeadersAreCurrent
  <2>1. NoneOf(toHwc, toSync, toDec, Showing(~hwc.noise)) /\ hwc.noise \in BOOLEAN
    BY DEF IInv, NoiseTurns, TypeOK, HwcType
  <2>2. f \in Frame \cup SyncedFrame
    BY DEF InFlight, IInv, TypeOK, QueuesTypeOK
  <2>3. f \notin Showing(~hwc.noise)
    BY <2>1 DEF InFlight, NoneOf, Clear
  <2>4. f.noise \in BOOLEAN
    BY <2>2 DEF Frame, SyncedFrame
  <2>5. f.noise # ~hwc.noise
    BY <2>2, <2>3 DEF Showing
  <2> QED
    BY <2>1, <2>4, <2>5
<1> QED
  BY <1>1, Invariance, PTL

\* Once every command is answered and applied, rtl_daq has the gains and the noise
\* state hw_controller.py keeps in its attributes.
THEOREM ReceiversObey == ASSUME BurstsFit PROVE Spec => []ReceiversFollow
<1>1. IInv => ReceiversFollow
  <2> SUFFICES ASSUME IInv, Settled, hwc.state # "INIT"
               PROVE  rtl.gain = hwc.gains /\ rtl.noise = hwc.noise
    BY DEF ReceiversFollow
  <2>1. DOMAIN hwc.todo = {} /\ rtl.new_gain = None
    BY DEF Settled
  <2>2. NoiseSent(hwc, rtl) /\ GainsSent(hwc, rtl)
    BY DEF IInv
  <2>3. rtl.noise = hwc.noise
    BY <2>1, <2>2 DEF NoiseSent
  <2>4. rtl.gain = hwc.gains
    BY <2>1, <2>2 DEF GainsSent
  <2> QED
    BY <2>3, <2>4
<1> QED
  BY <1>1, Invariance, PTL

\* A burst of calibration frames has the noise source on to its end, and the counter
\* of hw_controller.py passes neither of the two values it is compared with.
THEOREM BurstsAreNoisy == ASSUME BurstsFit PROVE Spec => []BurstHasNoise
<1>1. IInv => BurstHasNoise
  BY ConstantFacts DEF IInv, BurstCounted, BurstHasNoise, TypeOK, HwcType
<1> QED
  BY <1>1, Invariance, PTL
=============================================================================
