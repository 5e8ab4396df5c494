------------------------ MODULE HwController_proofs ------------------------
(***************************************************************************)
(* Machine-checked proofs about the control interface, for every number of *)
(* receivers and gains, every configuration and everything clients send.   *)
(***************************************************************************)
EXTENDS HwController, QueueLemmas

ServerStates == {"accept", "recv", "waiting", "woken", "reply", "close", "dead"}

\* The request list, the condition and the history belong together: a request
\* in the list is the one the server waits for and the only one not carried
\* out; a server that has been notified owes an answer.
RInv ==
    /\ server \in ServerStates
    /\ inbox \in Messages \cup {None}
    /\ asked \in Seq(Requests) /\ served \in Seq(Requests) /\ answered \in Nat
    /\ ctr_request = None => asked = served
    /\ ctr_request # None => /\ server = "waiting"
                             /\ ctr_request \in Requests
                             /\ asked = Append(served, ctr_request)
    /\ answered <= Len(served)
    /\ server \in {"woken", "reply"} => answered < Len(served)

requestState == <<ctr_request, server, inbox, asked, served, answered>>

\* What the abstract service may do in one step, or nothing.
ServiceStep == [Service!Ask \/ Service!Serve \/ Service!Reply]_<<asked, served, answered>>

-----------------------------------------------------------------------------
(* Messages *)

LEMMA RequestIsSomething ==
    ASSUME NEW r \in Requests
    PROVE  r # None
<1>1. /\ <<"FREQ">> # <<>> /\ <<"AGC ">> # <<>> /\ <<"INIT">> # <<>>
  OBVIOUS
<1>2. \A g \in [Channels -> 0 .. MaxGain + 1] : <<"GAIN", g>> # <<>>
  OBVIOUS
<1> QED BY <1>1, <1>2 DEF Requests, None

\* What is taken as a request is one.
LEMMA TakenIsRequest ==
    ASSUME TakeMessage("request"), inbox \in Messages \cup {None}
    PROVE  inbox \in Requests
<1>1. inbox \in Messages
  BY DEF TakeMessage
<1>2. ASSUME inbox \notin Requests PROVE FALSE
  <2>1. inbox \in {<<"EXIT">>, <<"unknown">>, <<"undecodable">>}
    BY <1>1, <1>2, HwControllerAssumption DEF HwControllerAssumption
  <2>2. inbox[1] \in {"EXIT", "unknown", "undecodable"}
    BY <2>1
  <2>3. inbox[1] = "request"
    BY <1>2 DEF TakeMessage
  <2> QED BY <2>2, <2>3
<1> QED BY <1>2

-----------------------------------------------------------------------------
(* Initial states and steps *)

LEMMA InitRInv == Init => RInv
BY DEF Init, RInv, ServerStates, None

\* Steps that leave the requests alone.
LEMMA RequestsUntouched ==
    ASSUME RInv, UNCHANGED requestState
    PROVE  RInv' /\ ServiceStep
BY DEF RInv, requestState, ServiceStep

\* Steps of the server or the client that only move the server between states
\* in which it waits for nothing.
LEMMA ServerMoves ==
    ASSUME RInv,
           server' \in ServerStates,
           server \in {"waiting", "woken"} => server' = server,
           server' \in {"woken", "reply"} => server = server',
           inbox' \in Messages \cup {None},
           UNCHANGED <<ctr_request, asked, served, answered>>
    PROVE  RInv' /\ ServiceStep
BY DEF RInv, ServiceStep

LEMMA HandOverStep ==
    ASSUME RInv, HandOver
    PROVE  RInv' /\ ServiceStep
<1>1. inbox \in Requests
  BY TakenIsRequest DEF HandOver, RInv
<1>2. server = "recv" /\ inbox' = None /\ UNCHANGED <<served, answered>>
  BY DEF HandOver, TakeMessage
<1>3. ctr_request' = inbox /\ asked' = Append(asked, inbox) /\ server' = "waiting"
  BY DEF HandOver
<1>4. ctr_request = None /\ asked = served
  BY <1>2 DEF RInv
<1>5. inbox # None
  BY <1>1, RequestIsSomething
<1>6. Service!Ask
  BY <1>1, <1>2, <1>3, <1>4 DEF Service!Ask
<1>7. asked' \in Seq(Requests)
  BY <1>1, <1>3 DEF RInv
<1>8. RInv'
  BY <1>1, <1>2, <1>3, <1>4, <1>5, <1>7 DEF RInv, ServerStates
<1> QED BY <1>6, <1>8 DEF ServiceStep

LEMMA FinishRequestStep ==
    ASSUME RInv, FinishRequest
    PROVE  RInv' /\ ServiceStep
<1>1. ctr_request' = None /\ UNCHANGED <<inbox, asked, answered>>
  BY DEF FinishRequest
<1>2. CASE ctr_request = None
  <2>1. UNCHANGED requestState
    BY <1>1, <1>2 DEF FinishRequest, requestState
  <2> QED BY <2>1, RequestsUntouched
<1>3. CASE ctr_request # None
  <2>1. /\ server = "waiting" /\ server' = "woken"
        /\ ctr_request \in Requests
        /\ asked = Append(served, ctr_request)
        /\ served' = Append(served, ctr_request)
    BY <1>3 DEF FinishRequest, RInv
  <2>2. served \in Seq(Requests) /\ answered \in Nat /\ answered <= Len(served)
    BY DEF RInv
  <2>3. /\ Len(asked) = Len(served) + 1
        /\ asked[Len(served) + 1] = ctr_request
        /\ served' \in Seq(Requests) /\ Len(served') = Len(served) + 1
    BY <2>1, <2>2
  <2>4. Service!Serve
    BY <1>1, <2>1, <2>2, <2>3 DEF Service!Serve
  <2>5. answered < Len(served')
    BY <2>2, <2>3
  <2>6. RInv'
    BY <1>1, <2>1, <2>2, <2>3, <2>5 DEF RInv, ServerStates
  <2> QED BY <2>4, <2>6 DEF ServiceStep
<1> QED BY <1>2, <1>3

LEMMA ResumeStep ==
    ASSUME RInv, Resume
    PROVE  RInv' /\ ServiceStep
<1>1. server = "woken" /\ server' = "reply"
      /\ UNCHANGED <<ctr_request, inbox, asked, served, answered>>
  BY DEF Resume
<1> QED BY <1>1 DEF RInv, ServerStates, ServiceStep

LEMMA SendAnswerStep ==
    ASSUME RInv, SendAnswer
    PROVE  RInv' /\ ServiceStep
<1>1. /\ server = "reply" /\ server' \in {"recv", "dead"}
      /\ UNCHANGED <<ctr_request, inbox, asked, served>>
      /\ answered' = answered + 1 \/ answered' = answered
  BY DEF SendAnswer
<1>2. ctr_request = None /\ asked = served /\ answered \in Nat /\ answered < Len(served)
  BY <1>1 DEF RInv
<1>3. served \in Seq(Requests) /\ Len(served) \in Nat
  BY DEF RInv
<1>4. RInv'
  <2>1. answered' \in Nat /\ answered' <= Len(served)
    BY <1>1, <1>2, <1>3
  <2> QED BY <1>1, <1>2, <1>3, <2>1 DEF RInv, ServerStates
<1>5. CASE answered' = answered + 1
  BY <1>1, <1>2, <1>3, <1>4, <1>5 DEF ServiceStep, Service!Reply
<1>6. CASE answered' = answered
  BY <1>1, <1>4, <1>6 DEF ServiceStep
<1> QED BY <1>1, <1>5, <1>6

LEMMA ServerSteps ==
    ASSUME RInv, ServerStep
    PROVE  RInv' /\ ServiceStep
<1>1. CASE HandOver
  BY <1>1, HandOverStep
<1>2. CASE WaitForNothing \/ TakeExit \/ FailUnderLock
  <2>1. /\ server = "recv" /\ server' \in {"waiting", "close", "dead"}
        /\ inbox' = None /\ UNCHANGED <<ctr_request, asked, served, answered>>
    BY <1>2 DEF WaitForNothing, TakeExit, FailUnderLock, TakeMessage
  <2> QED BY <2>1, ServerMoves DEF ServerStates
<1>3. CASE Resume
  BY <1>3, ResumeStep
<1>4. CASE SendAnswer
  BY <1>4, SendAnswerStep
<1>5. CASE EndOfData
  <2>1. /\ server = "recv" /\ server' \in {"close", "dead"}
        /\ UNCHANGED <<inbox, ctr_request, asked, served, answered>>
    BY <1>5 DEF EndOfData
  <2> QED BY <2>1, ServerMoves DEF ServerStates, RInv
<1>6. CASE CloseConnection
  <2>1. /\ server = "close" /\ server' = "accept"
        /\ inbox' = None /\ UNCHANGED <<ctr_request, asked, served, answered>>
    BY <1>6 DEF CloseConnection
  <2> QED BY <2>1, ServerMoves DEF ServerStates
<1> QED BY <1>1, <1>2, <1>3, <1>4, <1>5, <1>6 DEF ServerStep

LEMMA ClientSteps ==
    ASSUME RInv, ClientStep
    PROVE  RInv' /\ ServiceStep
<1>1. UNCHANGED <<ctr_request, asked, served, answered>>
  BY DEF ClientStep, Connect, ClientSends, HangUp, ClientUnchanged
<1>2. CASE Connect
  <2>1. server = "accept" /\ server' = "recv" /\ UNCHANGED inbox
    BY <1>2 DEF Connect
  <2> QED BY <1>1, <2>1, ServerMoves DEF ServerStates, RInv
<1>3. CASE ClientSends
  <2>1. inbox' \in Messages /\ UNCHANGED server
    BY <1>3 DEF ClientSends
  <2> QED BY <1>1, <2>1, ServerMoves DEF RInv
<1>4. CASE HangUp
  <2>1. UNCHANGED <<server, inbox>>
    BY <1>4 DEF HangUp
  <2> QED BY <1>1, <2>1, RequestsUntouched DEF requestState
<1> QED BY <1>2, <1>3, <1>4 DEF ClientStep

\* All of the main loop but its last step leaves the requests alone.
LEMMA MainSteps ==
    ASSUME RInv, MainStep
    PROVE  RInv' /\ ServiceStep
<1>1. CASE FinishRequest
  BY <1>1, FinishRequestStep
<1>2. CASE HwcDummy \/ HwcInit \/ HwcGainCtrWait \/ HwcGainTune \/ HwcIqCal \/ HwcNoiseCtrWait
  <2>1. UNCHANGED requestState
    BY <1>2 DEF HwcDummy, HwcInit, HwcGainCtrWait, HwcGainTune, HwcIqCal, HwcNoiseCtrWait,
                Receive, serverVars, requestState
  <2> QED BY <2>1, RequestsUntouched
<1>3. CASE HwcSend \/ CheckRequest
  <2>1. UNCHANGED requestState
    BY <1>3 DEF HwcSend, CheckRequest, serverVars, requestState
  <2> QED BY <2>1, RequestsUntouched
<1> QED BY <1>1, <1>2, <1>3 DEF MainStep

LEMMA NextStep ==
    ASSUME RInv, [Next]_vars
    PROVE  RInv' /\ ServiceStep
<1>1. CASE ChainFrame \/ SyncChanges
  <2>1. UNCHANGED requestState
    BY <1>1 DEF ChainFrame, SyncChanges, serverVars, requestState
  <2> QED BY <2>1, RequestsUntouched
<1>2. CASE MainStep
  BY <1>2, MainSteps
<1>3. CASE ServerStep
  BY <1>3, ServerSteps
<1>4. CASE ClientStep
  BY <1>4, ClientSteps
<1>5. CASE UNCHANGED vars
  <2>1. UNCHANGED requestState
    BY <1>5 DEF vars, serverVars, requestState
  <2> QED BY <2>1, RequestsUntouched
<1> QED BY <1>1, <1>2, <1>3, <1>4, <1>5 DEF Next

-----------------------------------------------------------------------------
(* Theorems about the requests *)

\* A request in the list is never overwritten before it is carried out: the
\* server that put it there waits until the main loop has cleared the list
\* (CtrIfaceServer.process_ctr_frame and the end of hw_controller.py's loop).
THEOREM RequestsKept == Spec => []RInv
BY InitRInv, NextStep, PTL DEF Spec

\* The two threads, the lock and the condition implement the request-reply
\* service: one request at a time, carried out once and in order, and no answer
\* before the commands of its request have been sent.
THEOREM RequestsAreServed == Spec => RequestsRefined
<1>1. Init => Service!RequestInit
  BY DEF Init, Service!RequestInit
<1>2. RInv /\ [Next]_vars
        => [Service!Ask \/ Service!Serve \/ Service!Reply]_(Service!requestVars)
  BY NextStep DEF ServiceStep, Service!requestVars
<1> QED BY <1>1, <1>2, RequestsKept, PTL DEF Spec, RequestsRefined, Service!RequestSpec

-----------------------------------------------------------------------------
(* Gains *)

LEMMA MinFacts ==
    ASSUME NEW S, S \subseteq Nat, S # {}
    PROVE  Min(S) \in S /\ \A y \in S : Min(S) <= y
BY LeastOfNaturals DEF Min

LEMMA ConstantFacts ==
    /\ M \in Nat \ {0} /\ MaxGain \in Nat /\ GainLockInterval \in Nat
    /\ NoDummyFrames \in Nat \ {0} /\ CalGains \in Gains
    /\ Configurations \subseteq Configuration
    /\ 0 \in Channels
BY HwControllerAssumption DEF HwControllerAssumption, Channels

\* A vector of gains is a function, and no vector is None.
LEMMA GainsFacts ==
    ASSUME NEW g \in Gains
    PROVE  /\ \A m \in Channels : g[m] \in 0 .. MaxGain
           /\ g # None
<1>1. 0 \in DOMAIN g
  BY ConstantFacts DEF Gains
<1>2. 0 \notin DOMAIN None
  BY DEF None
<1> QED
  BY <1>1, <1>2 DEF Gains

LEMMA LowestGain ==
    ASSUME NEW g \in Gains
    PROVE  /\ Min({g[k] : k \in Channels}) \in 0 .. MaxGain
           /\ \A k \in Channels : Min({g[j] : j \in Channels}) <= g[k]
           /\ \E k \in Channels : Min({g[j] : j \in Channels}) = g[k]
<1> DEFINE S == {g[k] : k \in Channels}
<1>1. \A k \in Channels : g[k] \in 0 .. MaxGain
  BY GainsFacts
<1>2. S \subseteq 0 .. MaxGain /\ S # {}
  BY <1>1, ConstantFacts
<1>3. S \subseteq Nat
  BY <1>2, ConstantFacts
<1>4. Min(S) \in S /\ \A y \in S : Min(S) <= y
  BY <1>2, <1>3, MinFacts
<1>5. Min(S) \in 0 .. MaxGain
  BY <1>2, <1>4
<1>6. \A k \in Channels : Min(S) <= g[k]
  BY <1>4
<1>7. \E k \in Channels : Min(S) = g[k]
  BY <1>4
<1> QED
  BY <1>5, <1>6, <1>7

\* The gains _change_gains sends.
Unified(g) == IF cfg.unified THEN [m \in Channels |-> Min({g[k] : k \in Channels})] ELSE g

LEMMA UnifiedFacts ==
    ASSUME NEW g \in Gains
    PROVE  /\ Unified(g) \in Gains
           /\ ~cfg.unified => Unified(g) = g
           /\ cfg.unified => \A m, k \in Channels : Unified(g)[m] = Unified(g)[k]
           /\ cfg.unified => \A m \in Channels : \E k \in Channels : Unified(g)[m] = g[k]
           /\ cfg.unified => \A m, k \in Channels : Unified(g)[m] <= g[k]
<1>1. CASE cfg.unified
  <2> DEFINE u == Min({g[k] : k \in Channels})
  <2>1. /\ u \in 0 .. MaxGain
        /\ \A k \in Channels : u <= g[k]
        /\ \E k \in Channels : u = g[k]
    BY LowestGain
  <2>2. Unified(g) = [m \in Channels |-> u]
    BY <1>1 DEF Unified
  <2> HIDE DEF u
  <2> QED
    BY <1>1, <2>1, <2>2 DEF Gains
<1>2. CASE ~cfg.unified
  BY <1>2 DEF Unified
<1> QED
  BY <1>1, <1>2

-----------------------------------------------------------------------------
(* What the main loop's steps do to its attributes *)

LEMMA Commands ==
    /\ <<"c">> \in Command /\ <<"a">> \in Command
    /\ \A g \in Gains : <<"g", g>> \in Command
    /\ \A b \in BOOLEAN : <<"n", b>> \in Command
BY DEF Command

\* What is known of a command by its first component.
LEMMA CommandFacts ==
    ASSUME NEW cmd \in Command
    PROVE  /\ cmd[1] = "g" => cmd[2] \in Gains
           /\ cmd[1] = "n" => cmd[2] \in BOOLEAN
<1>1. CASE cmd \in {<<"c">>, <<"a">>}
  BY <1>1
<1>2. CASE \E g \in Gains : cmd = <<"g", g>>
  BY <1>2
<1>3. CASE \E b \in BOOLEAN : cmd = <<"n", b>>
  <2>1. PICK b \in BOOLEAN : cmd = <<"n", b>>
    BY <1>3
  <2>2. cmd[1] = "n" /\ cmd[2] = b
    BY <2>1
  <2> QED
    BY <2>2
<1> QED
  BY <1>1, <1>2, <1>3 DEF Command

LEMMA OnlyAppend ==
    ASSUME NEW q \in Seq(Command), NEW cmd \in Command, NEW what, NEW x,
           Only(q, what, x), cmd[1] = what => cmd[2] = x
    PROVE  Only(Append(q, cmd), what, x)
<1> SUFFICES ASSUME NEW i \in DOMAIN Append(q, cmd), Append(q, cmd)[i][1] = what
             PROVE  Append(q, cmd)[i][2] = x
  BY DEF Only
<1>1. \/ i \in DOMAIN q /\ Append(q, cmd)[i] = q[i]
      \/ Append(q, cmd)[i] = cmd
  BY AppendElements
<1> QED
  BY <1>1 DEF Only

LEMMA OnlyTail ==
    ASSUME NEW q \in Seq(Command), NEW what, NEW x, q # <<>>, Only(q, what, x)
    PROVE  /\ Only(Tail(q), what, x)
           /\ Head(q)[1] = what => Head(q)[2] = x
BY TailElements DEF Only

LEMMA OnlyEmpty ==
    ASSUME NEW what, NEW x
    PROVE  Only(<<>>, what, x)
BY DEF Only

\* _change_gains adds one command, with the gains the attributes then hold.
LEMMA ChangeGainsEffect ==
    ASSUME NEW h \in HwcType
    PROVE  LET c == ChangeGains(h)
           IN  /\ c \in HwcType
               /\ c.gains = Unified(h.gains)
               /\ c.last_gains = h.last_gains /\ c.noise = h.noise /\ c.state = h.state
               /\ c.tune = h.tune /\ c.checks = h.checks
               /\ c.todo = Append(h.todo, <<"g", c.gains>>) /\ Len(c.todo) = Len(h.todo) + 1
               /\ \A x : Only(h.todo, "n", x) => Only(c.todo, "n", x)
               /\ Only(h.todo, "g", c.gains) => Only(c.todo, "g", c.gains)
<1> DEFINE u == Unified(h.gains)
           cmd == <<"g", u>>
           t == Append(h.todo, cmd)
<1>1. h.gains \in Gains /\ h.todo \in Seq(Command)
  BY DEF HwcType
<1>2. u \in Gains
  BY <1>1, UnifiedFacts
<1>3. ChangeGains(h) = [h EXCEPT !.gains = u, !.todo = t]
  BY DEF ChangeGains, Unified
<1> HIDE DEF u
<1>4. cmd \in Command /\ cmd[1] = "g" /\ cmd[2] = u
  BY <1>2, Commands
<1> HIDE DEF cmd
<1>5. t \in Seq(Command) /\ Len(t) = Len(h.todo) + 1
  BY <1>1, <1>4, AppendElements
<1>6. \A x : Only(h.todo, "n", x) => Only(t, "n", x)
  BY <1>1, <1>4, OnlyAppend
<1>7. Only(h.todo, "g", u) => Only(t, "g", u)
  BY <1>1, <1>4, OnlyAppend
<1>8. t = Append(h.todo, cmd)
  OBVIOUS
<1> HIDE DEF t
<1> DEFINE c == ChangeGains(h)
<1>9. /\ c \in HwcType /\ c.gains = u /\ c.todo = t
      /\ c.last_gains = h.last_gains /\ c.noise = h.noise /\ c.state = h.state
      /\ c.tune = h.tune /\ c.checks = h.checks
  BY <1>2, <1>3, <1>5 DEF HwcType
<1> HIDE DEF c
<1>10. /\ c.gains = Unified(h.gains)
       /\ c.todo = Append(h.todo, <<"g", c.gains>>)
  BY <1>8, <1>9 DEF cmd, u
<1>11. /\ Len(c.todo) = Len(h.todo) + 1
       /\ \A x : Only(h.todo, "n", x) => Only(c.todo, "n", x)
       /\ Only(h.todo, "g", c.gains) => Only(c.todo, "g", c.gains)
  BY <1>5, <1>6, <1>7, <1>9
<1> QED
  BY <1>9, <1>10, <1>11 DEF c

\* A controller with nothing left to send turns the noise source on.
LEMMA NoiseOnEffect ==
    ASSUME NEW h \in HwcType, h.todo = <<>>
    PROVE  LET s == NoiseOn(h)
           IN  /\ s \in HwcType /\ Len(s.todo) <= 3 /\ Only(s.todo, "n", s.noise)
               /\ s.noise /\ s.state = "NOISE_CTR_WAIT" /\ s.last_gains = h.gains
<1> DEFINE yes == TRUE
           saved == [h EXCEPT !.last_agc = h.agc, !.agc = FALSE,
                              !.last_gains = h.gains, !.gains = CalGains]
           c == ChangeGains(saved)
           cmd == <<"n", yes>>
           t == Append(c.todo, cmd)
           s == NoiseOn(h)
<1>1. s = [c EXCEPT !.todo = t, !.noise = yes, !.state = "NOISE_CTR_WAIT"]
  BY DEF NoiseOn
<1>2. yes \in BOOLEAN /\ yes
  OBVIOUS
<1> HIDE DEF yes, s
<1>3. cmd \in Command /\ cmd[1] = "n" /\ cmd[2] = yes
  BY <1>2, Commands
<1> HIDE DEF cmd
<1>4. saved \in HwcType /\ saved.todo = <<>> /\ saved.last_gains = h.gains
  BY ConstantFacts DEF HwcType
<1> HIDE DEF saved
<1>5. Only(saved.todo, "n", yes) /\ Len(saved.todo) = 0
  BY <1>4, OnlyEmpty
<1>6. /\ c \in HwcType /\ c.last_gains = saved.last_gains
      /\ Only(c.todo, "n", yes) /\ Len(c.todo) = Len(saved.todo) + 1
  BY <1>4, <1>5, ChangeGainsEffect
<1> HIDE DEF c
<1>7. c.todo \in Seq(Command) /\ Len(c.todo) = 1
  BY <1>5, <1>6 DEF HwcType
<1>8. t \in Seq(Command) /\ Len(t) = 2 /\ Only(t, "n", yes)
  <2>1. t \in Seq(Command) /\ Len(t) = Len(c.todo) + 1
    BY <1>3, <1>7, AppendElements
  <2>2. Only(t, "n", yes)
    BY <1>3, <1>6, <1>7, OnlyAppend
  <2> QED
    BY <1>7, <2>1, <2>2
<1> HIDE DEF t
<1>9. /\ s \in HwcType /\ s.todo = t /\ s.noise = yes /\ s.state = "NOISE_CTR_WAIT"
      /\ s.last_gains = h.gains
  BY <1>1, <1>2, <1>4, <1>6, <1>8 DEF HwcType
<1>10. Only(s.todo, "n", s.noise)
  BY <1>8, <1>9
<1>11. Len(s.todo) <= 3
  <2>1. s.todo \in Seq(Command) /\ Len(s.todo) = 2
    BY <1>8, <1>9
  <2> QED
    BY <2>1
<1> QED
  BY <1>2, <1>9, <1>10, <1>11 DEF s

\* It turns the noise source off.
LEMMA NoiseOffEffect ==
    ASSUME NEW h \in HwcType, h.todo = <<>>
    PROVE  LET s == NoiseOff(h)
           IN  /\ s \in HwcType /\ Len(s.todo) <= 3 /\ Only(s.todo, "n", s.noise)
               /\ ~s.noise /\ s.state = "NOISE_CTR_WAIT" /\ s.gains = Unified(h.last_gains)
<1> DEFINE no == FALSE
           cmd == <<"n", no>>
           n == Append(h.todo, cmd)
           off == [h EXCEPT !.todo = n, !.noise = no,
                            !.gains = h.last_gains, !.agc = h.last_agc]
           c == ChangeGains(off)
           agc == <<"a">>
           t == IF h.last_agc THEN Append(c.todo, agc) ELSE c.todo
           s == NoiseOff(h)
<1>1. s = [c EXCEPT !.todo = t, !.state = "NOISE_CTR_WAIT"]
  <2>1. s = [c EXCEPT !.todo = IF h.last_agc THEN Append(@, agc) ELSE @,
                      !.state = "NOISE_CTR_WAIT"]
    BY DEF NoiseOff
  <2> QED
    BY <2>1
<1>2. no \in BOOLEAN /\ ~no
  OBVIOUS
<1> HIDE DEF no, s
<1>3. /\ cmd \in Command /\ cmd[1] = "n" /\ cmd[2] = no
      /\ agc \in Command /\ agc[1] # "n"
  BY <1>2, Commands
<1> HIDE DEF cmd, agc
<1>4. h.todo \in Seq(Command) /\ Len(h.todo) = 0 /\ Only(h.todo, "n", no)
  BY OnlyEmpty DEF HwcType
<1>5. n \in Seq(Command) /\ Len(n) = 1 /\ Only(n, "n", no)
  <2>1. n \in Seq(Command) /\ Len(n) = Len(h.todo) + 1
    BY <1>3, <1>4, AppendElements
  <2>2. Only(n, "n", no)
    BY <1>3, <1>4, OnlyAppend
  <2> QED
    BY <1>4, <2>1, <2>2
<1> HIDE DEF n
<1>6. off \in HwcType /\ off.todo = n /\ off.gains = h.last_gains /\ off.noise = no
  BY <1>2, <1>5 DEF HwcType
<1> HIDE DEF off
<1>7. /\ c \in HwcType /\ c.gains = Unified(h.last_gains) /\ c.noise = no
      /\ Only(c.todo, "n", no) /\ Len(c.todo) = Len(off.todo) + 1
  BY <1>5, <1>6, ChangeGainsEffect
<1> HIDE DEF c
<1>8. c.todo \in Seq(Command) /\ Len(c.todo) = 2
  BY <1>5, <1>6, <1>7 DEF HwcType
<1>9. t \in Seq(Command) /\ Len(t) <= 3 /\ Only(t, "n", no)
  <2>1. CASE h.last_agc
    <3>1. t = Append(c.todo, agc)
      BY <2>1
    <3> HIDE DEF t
    <3>2. t \in Seq(Command) /\ Len(t) = Len(c.todo) + 1
      BY <1>3, <1>8, <3>1, AppendElements
    <3>3. Only(t, "n", no)
      BY <1>3, <1>7, <1>8, <3>1, OnlyAppend
    <3> QED
      BY <1>8, <3>2, <3>3
  <2>2. CASE ~h.last_agc
    <3>1. t = c.todo
      BY <2>2
    <3> HIDE DEF t
    <3>2. t \in Seq(Command) /\ Only(t, "n", no)
      BY <1>7, <1>8, <3>1
    <3>3. t \in Seq(Command) /\ Len(t) = 2
      BY <1>8, <3>1
    <3> QED
      BY <3>2, <3>3
  <2> QED
    BY <2>1, <2>2
<1> HIDE DEF t
<1>10. /\ s \in HwcType /\ s.todo = t /\ s.noise = no /\ s.state = "NOISE_CTR_WAIT"
       /\ s.gains = Unified(h.last_gains)
  BY <1>1, <1>7, <1>9 DEF HwcType
<1>11. Only(s.todo, "n", s.noise)
  BY <1>9, <1>10
<1>12. Len(s.todo) <= 3
  <2>1. s.todo \in Seq(Command)
    BY <1>9, <1>10
  <2> QED
    BY <1>9, <1>10, <2>1
<1> QED
  BY <1>2, <1>10, <1>11, <1>12 DEF s

\* One command that does not switch the noise source.
LEMMA OneCommand ==
    ASSUME NEW h \in HwcType, h.todo = <<>>, NEW cmd \in Command, cmd[1] # "n"
    PROVE  /\ [h EXCEPT !.todo = Append(@, cmd)] \in HwcType
           /\ Append(h.todo, cmd) \in Seq(Command) /\ Len(Append(h.todo, cmd)) = 1
           /\ \A x : Only(Append(h.todo, cmd), "n", x)
<1>1. h.todo \in Seq(Command) /\ Len(h.todo) = 0 /\ \A x : Only(h.todo, "n", x)
  BY OnlyEmpty DEF HwcType
<1>2. Append(h.todo, cmd) \in Seq(Command) /\ Len(Append(h.todo, cmd)) = 1
  BY <1>1, AppendElements
<1>3. \A x : Only(Append(h.todo, cmd), "n", x)
  BY <1>1, OnlyAppend
<1>4. [h EXCEPT !.todo = Append(@, cmd)] \in HwcType
  BY <1>2 DEF HwcType
<1> QED
  BY <1>2, <1>3, <1>4

LEMMA OverwrittenType ==
    ASSUME NEW old \in Gains, NEW g \in [Channels -> 0 .. MaxGain + 1]
    PROVE  Overwritten(old, g) \in Gains
<1> SUFFICES ASSUME NEW m \in Channels
             PROVE  (IF m \in Named(g) THEN g[m] ELSE old[m]) \in 0 .. MaxGain
  BY DEF Overwritten, Gains
<1>1. m \in Int /\ m <= m
  BY ConstantFacts DEF Channels
<1>2. m \in Named(g) => g[m] <= MaxGain
  BY <1>1 DEF Named
<1>3. g[m] \in 0 .. MaxGain + 1 /\ MaxGain \in Nat /\ old[m] \in 0 .. MaxGain
  BY ConstantFacts, GainsFacts
<1> QED
  BY <1>2, <1>3

\* What a request leaves alone: the noise source and the state, and all but a GAIN request
\* the gains.
Handled(h, s, req) ==
    /\ s \in HwcType /\ Len(s.todo) <= 1 /\ (\A x : Only(s.todo, "n", x))
    /\ s.noise = h.noise /\ s.state = h.state
    /\ req[1] # "GAIN" => s.gains = h.gains /\ s.last_gains = h.last_gains

LEMMA HandledParts ==
    ASSUME NEW h, NEW s, NEW t, NEW req,
           s \in HwcType, s.noise = h.noise, s.state = h.state, s.todo = t,
           t \in Seq(Command), Len(t) <= 1, \A x : Only(t, "n", x),
           \/ req[1] = "GAIN"
           \/ s.gains = h.gains /\ s.last_gains = h.last_gains
    PROVE  Handled(h, s, req)
<1>1. s.todo \in Seq(Command) /\ Len(s.todo) <= 1
  OBVIOUS
<1>2. \A x : Only(s.todo, "n", x)
  OBVIOUS
<1> QED
  BY <1>1, <1>2 DEF Handled

LEMMA UnchangedHandled ==
    ASSUME NEW h \in HwcType, h.todo = <<>>, NEW req
    PROVE  Handled(h, h, req)
<1>1. h.todo \in Seq(Command) /\ Len(h.todo) <= 1
  BY DEF HwcType
<1>2. \A x : Only(h.todo, "n", x)
  BY OnlyEmpty
<1> QED
  BY <1>1, <1>2 DEF Handled

LEMMA GainHandled ==
    ASSUME NEW h \in HwcType, h.todo = <<>>,
           NEW g \in [Channels -> 0 .. MaxGain + 1], NEW req, req[1] = "GAIN", req[2] = g
    PROVE  Handled(h, HandleControlRequest(h, req), req)
<1> DEFINE stored == IF h.noise THEN [h EXCEPT !.last_gains = Overwritten(@, g)]
                     ELSE [h EXCEPT !.gains = Overwritten(@, g)]
           c == ChangeGains(stored)
           s == HandleControlRequest(h, req)
<1>1. s = IF Named(g) # Channels THEN stored
          ELSE [(IF h.noise THEN stored ELSE c) EXCEPT !.agc = FALSE]
  BY DEF HandleControlRequest
<1> SUFFICES Handled(h, s, req)
  OBVIOUS
<1> HIDE DEF s
<1>2. h.gains \in Gains /\ h.last_gains \in Gains
  BY DEF HwcType
<1>3. Overwritten(h.gains, g) \in Gains /\ Overwritten(h.last_gains, g) \in Gains
  BY <1>2, OverwrittenType
<1>4. stored \in HwcType /\ stored.todo = <<>> /\ stored.noise = h.noise /\ stored.state = h.state
  <2>1. CASE h.noise
    <3>1. stored = [h EXCEPT !.last_gains = Overwritten(h.last_gains, g)]
      BY <2>1
    <3> HIDE DEF stored
    <3> QED
      BY <1>3, <3>1 DEF HwcType
  <2>2. CASE ~h.noise
    <3>1. stored = [h EXCEPT !.gains = Overwritten(h.gains, g)]
      BY <2>2
    <3> HIDE DEF stored
    <3> QED
      BY <1>3, <3>1 DEF HwcType
  <2> QED
    BY <2>1, <2>2
<1> HIDE DEF stored
<1>5. stored.todo \in Seq(Command) /\ Len(stored.todo) = 0 /\ \A x : Only(stored.todo, "n", x)
  BY <1>4, OnlyEmpty DEF HwcType
<1>6. /\ c \in HwcType /\ c.noise = h.noise /\ c.state = h.state
      /\ Len(c.todo) = Len(stored.todo) + 1
  BY <1>4, ChangeGainsEffect
<1>7. \A x : Only(c.todo, "n", x)
  BY <1>4, <1>5, ChangeGainsEffect
<1> HIDE DEF c
<1>8. c.todo \in Seq(Command) /\ Len(c.todo) = 1
  BY <1>5, <1>6 DEF HwcType
<1>9. /\ [stored EXCEPT !.agc = FALSE] \in HwcType
      /\ [stored EXCEPT !.agc = FALSE].todo = stored.todo
      /\ [stored EXCEPT !.agc = FALSE].noise = h.noise
      /\ [stored EXCEPT !.agc = FALSE].state = h.state
  BY <1>4 DEF HwcType
<1>10. /\ [c EXCEPT !.agc = FALSE] \in HwcType
       /\ [c EXCEPT !.agc = FALSE].todo = c.todo
       /\ [c EXCEPT !.agc = FALSE].noise = h.noise
       /\ [c EXCEPT !.agc = FALSE].state = h.state
  BY <1>6 DEF HwcType
<1>11. /\ stored.todo \in Seq(Command) /\ Len(stored.todo) <= 1
       /\ c.todo \in Seq(Command) /\ Len(c.todo) <= 1
  BY <1>5, <1>8
<1>12. CASE s = stored
  BY <1>11, <1>4, <1>5, <1>12, HandledParts
<1>13. CASE s = [stored EXCEPT !.agc = FALSE]
  BY <1>11, <1>5, <1>9, <1>13, HandledParts
<1>14. CASE s = [c EXCEPT !.agc = FALSE]
  BY <1>11, <1>7, <1>10, <1>14, HandledParts
<1>15. \/ s = stored
       \/ s = [stored EXCEPT !.agc = FALSE]
       \/ s = [c EXCEPT !.agc = FALSE]
  BY <1>1
<1> QED
  BY <1>12, <1>13, <1>14, <1>15

LEMMA HandleEffect ==
    ASSUME NEW h \in HwcType, h.todo = <<>>, NEW req \in Requests
    PROVE  Handled(h, HandleControlRequest(h, req), req)
<1>1. CASE \E g \in [Channels -> 0 .. MaxGain + 1] : req = <<"GAIN", g>>
  <2>1. PICK g \in [Channels -> 0 .. MaxGain + 1] : req = <<"GAIN", g>>
    BY <1>1
  <2>2. req[1] = "GAIN" /\ req[2] = g
    BY <2>1
  <2> QED
    BY <2>2, GainHandled
<1>2. ASSUME NEW s, NEW cmd \in Command, cmd[1] # "n",
             s \in {[h EXCEPT !.todo = Append(@, cmd)],
                    [h EXCEPT !.agc = TRUE, !.todo = Append(@, cmd)]}
      PROVE  Handled(h, s, req)
  <2> DEFINE t == Append(h.todo, cmd)
  <2>1. t \in Seq(Command) /\ Len(t) = 1 /\ \A x : Only(t, "n", x)
    BY <1>2, OneCommand
  <2>2. s \in {[h EXCEPT !.todo = t], [h EXCEPT !.agc = TRUE, !.todo = t]}
    BY <1>2
  <2> HIDE DEF t
  <2>3. /\ s \in HwcType /\ s.todo = t /\ s.noise = h.noise /\ s.state = h.state
        /\ s.gains = h.gains /\ s.last_gains = h.last_gains
    BY <2>1, <2>2 DEF HwcType
  <2>4. t \in Seq(Command) /\ Len(t) <= 1
    BY <2>1
  <2> QED
    BY <2>1, <2>3, <2>4, HandledParts
<1>3. <<"c">> \in Command /\ <<"a">> \in Command /\ <<"c">>[1] # "n" /\ <<"a">>[1] # "n"
  BY Commands
<1>4. CASE req = <<"FREQ">>
  BY <1>2, <1>3, <1>4 DEF HandleControlRequest
<1>5. CASE req = <<"AGC ">>
  <2>1. CASE h.noise
    <3>1. HandleControlRequest(h, req) = [h EXCEPT !.last_agc = TRUE]
      BY <1>5, <2>1 DEF HandleControlRequest
    <3> DEFINE s == HandleControlRequest(h, req)
    <3>2. /\ s \in HwcType /\ s.todo = <<>> /\ s.noise = h.noise /\ s.state = h.state
          /\ s.gains = h.gains /\ s.last_gains = h.last_gains
      BY <3>1 DEF HwcType
    <3> HIDE DEF s
    <3>3. Handled(s, s, req)
      BY <3>2, UnchangedHandled
    <3>4. Handled(h, s, req)
      BY <3>2, <3>3 DEF Handled
    <3> QED
      BY <3>4 DEF s
  <2>2. CASE ~h.noise
    BY <1>2, <1>3, <1>5, <2>2 DEF HandleControlRequest
  <2> QED
    BY <2>1, <2>2
<1>6. CASE req = <<"INIT">>
  BY <1>6, UnchangedHandled DEF HandleControlRequest
<1> QED
  BY <1>1, <1>4, <1>5, <1>6 DEF Requests

-----------------------------------------------------------------------------
(* A step of the gain tuning *)

\* With a signal to which every receiver can be tuned.
Limits == cfg \in Configurations /\ \A m \in Channels : cfg.limit[m] \in 0 .. MaxGain

LEMMA TunableLimits ==
    ASSUME cfg \in Configurations, cfg.tune, Tunable
    PROVE  Limits
<1>1. cfg.limit \in [Channels -> -1 .. MaxGain]
  BY ConstantFacts DEF Configuration
<1>2. \A m \in Channels : cfg.limit[m] \in -1 .. MaxGain /\ cfg.limit[m] >= 0
  BY <1>1 DEF Tunable
<1> QED
  BY <1>2, ConstantFacts DEF Limits

LEMMA BestFacts ==
    ASSUME Limits
    PROVE  /\ BestGains \in Gains
           /\ ~cfg.unified => \A m \in Channels : BestGains[m] = cfg.limit[m]
           /\ cfg.unified => \A m, k \in Channels : BestGains[m] <= cfg.limit[k]
           /\ cfg.unified => \A m \in Channels : \E k \in Channels : BestGains[m] = cfg.limit[k]
<1>1. \A m \in Channels : Cap(m) = cfg.limit[m]
  <2> SUFFICES ASSUME NEW m \in Channels PROVE Cap(m) = cfg.limit[m]
    OBVIOUS
  <2> DEFINE S == {cfg.limit[m], MaxGain}
  <2>1. cfg.limit[m] \in 0 .. MaxGain /\ MaxGain \in Nat
    BY ConstantFacts DEF Limits
  <2>2. S \subseteq Nat /\ S # {}
    BY <2>1
  <2>3. Min(S) \in S /\ \A y \in S : Min(S) <= y
    BY <2>2, MinFacts
  <2>4. Min(S) = cfg.limit[m]
    BY <2>1, <2>3
  <2> QED
    BY <2>4 DEF Cap
<1> DEFINE g == [m \in Channels |-> Cap(m)]
<1>2. g \in Gains
  BY <1>1 DEF Gains, Limits
<1>3. /\ \A m \in Channels : g[m] = cfg.limit[m]
      /\ {g[k] : k \in Channels} = {Cap(k) : k \in Channels}
  BY <1>1
<1>4. BestGains = Unified(g)
  BY <1>3 DEF BestGains, Unified
<1> HIDE DEF g
<1> QED
  BY <1>2, <1>3, <1>4, UnifiedFacts

\* What _tune_gains makes of the gains and of tune, before _change_gains.
Stops(h, f, m) == m \in f.overdrive \/ (h.tune[m] /\ h.gains[m] = MaxGain)
Rises(h, f, m) ==
    /\ h.tune[m] /\ ~Stops(h, f, m)
    /\ cfg.unified => \A k \in Channels : k < m => ~Stops(h, f, k)
TunedGains(h, f) == [m \in Channels |-> IF m \in f.overdrive /\ h.gains[m] # 0
                                        THEN h.gains[m] - 1
                                        ELSE IF Rises(h, f, m) THEN h.gains[m] + 1
                                        ELSE h.gains[m]]
TunedTune(h, f) == [m \in Channels |->
    /\ h.tune[m] /\ ~Stops(h, f, m)
    /\ cfg.unified => \A k \in Channels : ~Stops(h, f, k)]
Tuned(h, f) == [h EXCEPT !.gains = TunedGains(h, f), !.tune = TunedTune(h, f)]

LEMMA TunedType ==
    ASSUME NEW h \in HwcType, NEW f
    PROVE  Tuned(h, f) \in HwcType /\ TunedGains(h, f) \in Gains
<1>1. h.gains \in Gains /\ h.tune \in [Channels -> BOOLEAN]
  BY DEF HwcType
<1>2. TunedGains(h, f) \in Gains
  <2> SUFFICES ASSUME NEW m \in Channels
               PROVE  (IF m \in f.overdrive /\ h.gains[m] # 0 THEN h.gains[m] - 1
                       ELSE IF Rises(h, f, m) THEN h.gains[m] + 1
                       ELSE h.gains[m]) \in 0 .. MaxGain
    BY DEF TunedGains, Gains
  <2>1. h.gains[m] \in 0 .. MaxGain /\ MaxGain \in Nat
    BY <1>1, GainsFacts, ConstantFacts
  <2>2. Rises(h, f, m) => h.gains[m] # MaxGain
    BY DEF Rises, Stops
  <2> QED
    BY <2>1, <2>2
<1>3. TunedTune(h, f) \in [Channels -> BOOLEAN]
  BY DEF TunedTune
<1> QED
  BY <1>2, <1>3 DEF Tuned, HwcType

LEMMA TuneGainsIs ==
    ASSUME NEW h \in HwcType, NEW f, f.gains = h.gains
    PROVE  TuneGains(h, f) = ChangeGains(Tuned(h, f))
BY DEF TuneGains, Tuned, TunedGains, TunedTune, Rises, Stops

\* Separate control: a receiver stops where it is not overdriven at the top, or one below
\* a gain at which it is.
LEMMA SeparateNotBelow ==
    ASSUME Limits, ~cfg.unified, NEW h \in HwcType, NEW f, NotBelow(h),
           f.overdrive = {m \in Channels : h.gains[m] > cfg.limit[m]}
    PROVE  \A m \in Channels : TunedTune(h, f)[m] \/ TunedGains(h, f)[m] >= BestGains[m]
<1> SUFFICES ASSUME NEW m \in Channels, ~TunedTune(h, f)[m]
             PROVE  TunedGains(h, f)[m] >= BestGains[m]
  OBVIOUS
<1>1. /\ h.gains[m] \in 0 .. MaxGain /\ BestGains[m] \in 0 .. MaxGain
      /\ BestGains[m] = cfg.limit[m] /\ MaxGain \in Nat
  BY BestFacts, GainsFacts, ConstantFacts DEF HwcType
<1>2. m \in f.overdrive <=> h.gains[m] > cfg.limit[m]
  OBVIOUS
<1>3. h.tune[m] \/ h.gains[m] >= BestGains[m]
  BY DEF NotBelow
<1>4. ~h.tune[m] \/ Stops(h, f, m)
  BY DEF TunedTune
<1>5. TunedGains(h, f)[m] = IF m \in f.overdrive /\ h.gains[m] # 0 THEN h.gains[m] - 1
                            ELSE IF Rises(h, f, m) THEN h.gains[m] + 1
                            ELSE h.gains[m]
  BY DEF TunedGains
<1>6. CASE m \in f.overdrive
  BY <1>1, <1>2, <1>5, <1>6
<1>7. CASE m \notin f.overdrive
  <2>1. h.gains[m] >= BestGains[m]
    BY <1>1, <1>3, <1>4, <1>7 DEF Stops
  <2> QED
    BY <1>1, <1>5, <1>7, <2>1
<1> QED
  BY <1>6, <1>7

\* Unified control: when one receiver stops, all stop, and the lowest of their gains is
\* not below the lowest limit.
LEMMA UnifiedNotBelow ==
    ASSUME Limits, cfg.unified, NEW h \in HwcType, NEW f, NotBelow(h),
           f.overdrive = {m \in Channels : h.gains[m] > cfg.limit[m]}
    PROVE  /\ \A m, k \in Channels : TunedTune(h, f)[m] = TunedTune(h, f)[k]
           /\ \A m, k \in Channels : TunedTune(h, f)[m] \/ TunedGains(h, f)[k] >= BestGains[m]
<1>1. \A m, k \in Channels : h.gains[m] = h.gains[k] /\ h.tune[m] = h.tune[k]
  BY DEF NotBelow
<1>2. \A m \in Channels :
         TunedTune(h, f)[m] = (h.tune[m] /\ \A k \in Channels : ~Stops(h, f, k))
  BY DEF TunedTune
<1>3. ASSUME NEW m \in Channels, NEW k \in Channels
      PROVE  TunedTune(h, f)[m] = TunedTune(h, f)[k]
  BY <1>1, <1>2
<1>4. ASSUME NEW m \in Channels, NEW k \in Channels, ~TunedTune(h, f)[m]
      PROVE  TunedGains(h, f)[k] >= BestGains[m]
  <2>1. /\ h.gains[k] \in 0 .. MaxGain /\ BestGains[m] \in 0 .. MaxGain
        /\ BestGains[m] <= cfg.limit[k] /\ MaxGain \in Nat
        /\ h.gains[m] = h.gains[k]
    BY <1>1, BestFacts, GainsFacts, ConstantFacts DEF HwcType
  <2>2. k \in f.overdrive <=> h.gains[k] > cfg.limit[k]
    OBVIOUS
  <2>3. h.gains[k] >= BestGains[m]
    <3>1. CASE ~h.tune[m]
      BY <2>1, <3>1 DEF NotBelow
    <3>2. ASSUME NEW j \in Channels, Stops(h, f, j)
          PROVE  h.gains[k] >= BestGains[m]
      <4>1. /\ h.gains[j] \in 0 .. MaxGain /\ BestGains[m] <= cfg.limit[j]
            /\ cfg.limit[j] \in 0 .. MaxGain /\ h.gains[j] = h.gains[k]
        BY <1>1, BestFacts, GainsFacts DEF HwcType, Limits
      <4>2. h.gains[j] > cfg.limit[j] \/ h.gains[j] = MaxGain
        BY <3>2 DEF Stops
      <4> QED
        BY <2>1, <4>1, <4>2
    <3> QED
      BY <1>2, <1>4, <3>1, <3>2
  <2>4. TunedGains(h, f)[k] = IF k \in f.overdrive /\ h.gains[k] # 0 THEN h.gains[k] - 1
                              ELSE IF Rises(h, f, k) THEN h.gains[k] + 1
                              ELSE h.gains[k]
    BY DEF TunedGains
  <2>5. cfg.limit[k] \in 0 .. MaxGain
    BY DEF Limits
  <2> QED
    BY <2>1, <2>2, <2>3, <2>4, <2>5
<1> QED
  BY <1>3, <1>4

\* The invariant of the tuning survives a step that judges the gains in use.
LEMMA TuneStep ==
    ASSUME Limits, NEW h \in HwcType, NEW f, NotBelow(h), f.gains = h.gains,
           f.overdrive = {m \in Channels : h.gains[m] > cfg.limit[m]}
    PROVE  NotBelow(TuneGains(h, f))
<1> DEFINE t == Tuned(h, f)
           c == TuneGains(h, f)
<1>1. t \in HwcType /\ t.gains = TunedGains(h, f) /\ t.tune = TunedTune(h, f)
  BY TunedType DEF Tuned, HwcType
<1>2. c = ChangeGains(t)
  BY TuneGainsIs
<1>3. c.gains = Unified(TunedGains(h, f)) /\ c.tune = TunedTune(h, f)
  BY <1>1, <1>2, ChangeGainsEffect
<1>4. TunedGains(h, f) \in Gains
  BY TunedType
<1> SUFFICES NotBelow(c)
  OBVIOUS
<1> HIDE DEF c, t
<1>5. CASE ~cfg.unified
  <2>1. c.gains = TunedGains(h, f)
    BY <1>3, <1>4, <1>5, UnifiedFacts
  <2> QED
    BY <1>3, <1>5, <2>1, SeparateNotBelow DEF NotBelow
<1>6. CASE cfg.unified
  <2>1. \A m, k \in Channels : c.gains[m] = c.gains[k]
    BY <1>3, <1>4, <1>6, UnifiedFacts
  <2>2. \A m, k \in Channels : c.tune[m] = c.tune[k]
    BY <1>3, <1>6, UnifiedNotBelow
  <2>3. ASSUME NEW m \in Channels
        PROVE  c.tune[m] \/ c.gains[m] >= BestGains[m]
    <3>1. PICK k \in Channels : c.gains[m] = TunedGains(h, f)[k]
      BY <1>3, <1>4, <1>6, UnifiedFacts
    <3> QED
      BY <1>3, <1>6, <3>1, UnifiedNotBelow
  <2> QED
    BY <1>6, <2>1, <2>2, <2>3 DEF NotBelow
<1> QED
  BY <1>5, <1>6

\* When every receiver has stopped and none is overdriven, the gains are the best.
LEMMA TunedIsBest ==
    ASSUME Limits, NEW h \in HwcType, NotBelow(h), \A m \in Channels : ~h.tune[m],
           \A m \in Channels : ~(h.gains[m] > cfg.limit[m])
    PROVE  h.gains = BestGains
<1>1. h.gains \in Gains /\ BestGains \in Gains
  BY BestFacts DEF HwcType
<1> SUFFICES ASSUME NEW m \in Channels PROVE h.gains[m] = BestGains[m]
  BY <1>1 DEF Gains
<1>2. h.gains[m] \in 0 .. MaxGain /\ BestGains[m] \in 0 .. MaxGain
  BY <1>1, GainsFacts
<1>3. h.gains[m] >= BestGains[m]
  BY DEF NotBelow
<1>4. CASE ~cfg.unified
  BY <1>2, <1>3, <1>4, BestFacts
<1>5. CASE cfg.unified
  <2>1. PICK k \in Channels : BestGains[m] = cfg.limit[k]
    BY <1>5, BestFacts
  <2>2. h.gains[m] = h.gains[k] /\ h.gains[k] \in 0 .. MaxGain /\ ~(h.gains[k] > cfg.limit[k])
    BY <1>1, <1>5, GainsFacts DEF NotBelow
  <2> QED
    BY <1>2, <1>3, <2>1, <2>2
<1> QED
  BY <1>4, <1>5

-----------------------------------------------------------------------------
(* Frames and the settings they show *)

LEMMA FrameFacts ==
    /\ DummyFrame \notin DataFrame
    /\ \A f \in Frame : f = DummyFrame \/ f \in DataFrame
    /\ \A g : With(g) \subseteq DataFrame /\ NotBy(g) \subseteq DataFrame
    /\ \A n : Showing(n) \subseteq DataFrame /\ NotShowing(n) \subseteq DataFrame
BY DEF Frame, DummyFrame, DataFrame, With, NotBy, Showing, NotShowing

LEMMA ClearTurns ==
    ASSUME NEW q, NEW N, NEW O, Clear(q, N) \/ Clear(q, O)
    PROVE  Turns(q, N, O)
BY DEF Clear, Turns

\* A frame leaves the queue.
LEMMA Dequeue ==
    ASSUME NEW q \in Seq(Frame), q # <<>>
    PROVE  /\ \A N : Clear(q, N) => Clear(Tail(q), N) /\ Head(q) \notin N
           /\ \A N, O : Turns(q, N, O) =>
                 Turns(Tail(q), N, O) /\ (Head(q) \in N => Clear(Tail(q), O))
           /\ \A N : Head(q) \in N => ~Clear(q, N)
<1>1. \A N : Clear(q, N) => Clear(Tail(q), N) /\ Head(q) \notin N
  BY ClearTail
<1>2. \A N, O : Turns(q, N, O) =>
         Turns(Tail(q), N, O) /\ (Head(q) \in N => Clear(Tail(q), O))
  BY TurnsTail
<1> QED
  BY <1>1, <1>2

\* A frame is taken that does not change the state, or one with the noise state that
\* was waited for.
LEMMA NoiseDequeue ==
    ASSUME NEW h, NEW s, NEW r, NEW q \in Seq(Frame), q # <<>>, NoiseTurns(h, r, q),
           s.noise = h.noise, Only(s.todo, "n", s.noise),
           \/ s.state = h.state
           \/ h.state # "NOISE_CTR_WAIT"
           \/ Head(q) \in Showing(h.noise)
    PROVE  NoiseTurns(s, r, Tail(q))
<1> DEFINE N == Showing(h.noise)
           O == NotShowing(h.noise)
<1>1. N = Showing(s.noise) /\ O = NotShowing(s.noise)
  OBVIOUS
<1>2. /\ Turns(q, N, O)
      /\ ~Clear(q, N) => r.noise = h.noise
      /\ h.state # "NOISE_CTR_WAIT" => r.noise = h.noise /\ Clear(q, O)
  BY DEF NoiseTurns
<1>3. s.state = h.state \/ h.state # "NOISE_CTR_WAIT" \/ Head(q) \in N
  OBVIOUS
<1> HIDE DEF N, O
<1>4. Turns(Tail(q), N, O) /\ (Head(q) \in N => Clear(Tail(q), O))
  BY <1>2, Dequeue
<1>5. (Clear(q, N) => Clear(Tail(q), N)) /\ (Clear(q, O) => Clear(Tail(q), O))
  BY Dequeue
<1>6. Head(q) \in N => ~Clear(q, N)
  BY Dequeue
<1>7. ~Clear(Tail(q), N) => r.noise = s.noise
  BY <1>2, <1>5
<1>8. s.state # "NOISE_CTR_WAIT" => r.noise = s.noise /\ Clear(Tail(q), O)
  BY <1>2, <1>3, <1>4, <1>5, <1>6
<1> QED
  BY <1>1, <1>4, <1>7, <1>8 DEF NoiseTurns

\* The controller, sure that all frames show the noise state it has set, sets the other.
LEMMA NoiseSwitch ==
    ASSUME NEW h, NEW s, NEW r, NEW q \in Seq(Frame), q # <<>>, NoiseTurns(h, r, q),
           h.state = "IQ_CAL", s.state = "NOISE_CTR_WAIT",
           s.noise # h.noise, Only(s.todo, "n", s.noise)
    PROVE  NoiseTurns(s, r, Tail(q))
<1>1. Clear(q, NotShowing(h.noise))
  BY DEF NoiseTurns
<1>2. Clear(Tail(q), NotShowing(h.noise))
  BY <1>1, Dequeue
<1>3. Clear(Tail(q), Showing(s.noise))
  <2>1. Showing(s.noise) \subseteq NotShowing(h.noise)
    BY DEF Showing, NotShowing
  <2> QED
    BY <1>2, <2>1 DEF Clear
<1>4. Turns(Tail(q), Showing(s.noise), NotShowing(s.noise))
  BY <1>3, ClearTurns
<1> QED
  BY <1>3, <1>4 DEF NoiseTurns

\* A frame is taken in a state of the tuning; the wait ends when it shows the gains.
LEMMA GainsDequeue ==
    ASSUME NEW h, NEW s, NEW r, NEW q \in Seq(Frame), q # <<>>, GainsTurn(h, r, q),
           s.gains = h.gains, s.todo = h.todo,
           s.state = h.state \/ Head(q) \in With(h.gains)
    PROVE  GainsTurn(s, r, Tail(q))
<1> DEFINE N == With(h.gains)
           O == NotBy(h.gains)
<1>1. /\ Turns(q, N, O)
      /\ ~Clear(q, N) => SettledAt(r, h.gains)
      /\ h.state = "GAIN_TUNE" => SettledAt(r, h.gains) /\ Clear(q, O)
      /\ s.state = h.state \/ Head(q) \in N
      /\ Only(s.todo, "g", s.gains)
      /\ r.gains = s.gains => r.new_gains \in {None, s.gains}
      /\ N = With(s.gains) /\ O = NotBy(s.gains)
  BY DEF GainsTurn
<1> HIDE DEF N, O
<1>2. Turns(Tail(q), N, O) /\ (Head(q) \in N => Clear(Tail(q), O))
  BY <1>1, Dequeue
<1>3. (Clear(q, N) => Clear(Tail(q), N)) /\ (Clear(q, O) => Clear(Tail(q), O))
  BY Dequeue
<1>4. Head(q) \in N => ~Clear(q, N)
  BY Dequeue
<1>5. ~Clear(Tail(q), N) => SettledAt(r, s.gains)
  BY <1>1, <1>3
<1>6. s.state = "GAIN_TUNE" => SettledAt(r, s.gains) /\ Clear(Tail(q), O)
  BY <1>1, <1>2, <1>3, <1>4
<1> QED
  BY <1>1, <1>2, <1>5, <1>6 DEF GainsTurn

\* The controller, sure that rtl_daq is settled at the gains g, sends other gains.
LEMMA GainsSet ==
    ASSUME NEW s, NEW r, NEW g, NEW q \in Seq(Frame), q # <<>>,
           SettledAt(r, g), r.new_gains \in {None, g}, Clear(q, NotBy(g)),
           s.state = "GAIN_CTR_WAIT", Only(s.todo, "g", s.gains)
    PROVE  GainsTurn(s, r, Tail(q))
<1>1. Clear(Tail(q), NotBy(g))
  BY Dequeue
<1>2. r.gains = g /\ r.scan = g
  BY DEF SettledAt
<1>3. CASE s.gains = g
  <2>1. Turns(Tail(q), With(s.gains), NotBy(s.gains))
    BY <1>1, <1>3, ClearTurns
  <2> QED
    BY <1>2, <1>3, <2>1 DEF GainsTurn
<1>4. CASE s.gains # g
  <2>1. With(s.gains) \subseteq NotBy(g)
    BY <1>4 DEF With, NotBy
  <2>2. Clear(Tail(q), With(s.gains))
    BY <1>1, <2>1 DEF Clear
  <2>3. Turns(Tail(q), With(s.gains), NotBy(s.gains))
    BY <2>2, ClearTurns
  <2> QED
    BY <1>2, <1>4, <2>2, <2>3 DEF GainsTurn
<1> QED
  BY <1>3, <1>4

-----------------------------------------------------------------------------
(* rtl_daq's steps *)

LEMMA HeaderFacts ==
    ASSUME TypeOK
    PROVE  /\ SyncedHeader \in Frame
           /\ SyncedHeader # DummyFrame =>
                 SyncedHeader.overdrive =
                    {m \in Channels : SyncedHeader.scanned[m] > cfg.limit[m]}
           /\ \A g : SyncedHeader \in With(g) => rtl.gains = g /\ ~(rtl.dummies > 0)
           /\ \A g : SyncedHeader \in NotBy(g) => ~SettledAt(rtl, g)
           /\ \A n : SyncedHeader \in Showing(n) => rtl.noise = n
           /\ \A n : SyncedHeader \in NotShowing(n) => rtl.noise # n
<1> DEFINE x == SyncedHeader
<1>1. /\ rtl.gains \in Gains /\ rtl.noise \in BOOLEAN /\ rtl.scan \in Gains
      /\ locked \in BOOLEAN
  BY DEF TypeOK, RtlType
<1>2. CASE rtl.dummies > 0
  <2>1. x = DummyFrame
    BY <1>2 DEF SyncedHeader
  <2> HIDE DEF x
  <2>2. x \in Frame /\ x \notin DataFrame
    BY <2>1, FrameFacts DEF Frame
  <2> QED
    BY <2>1, <2>2, FrameFacts DEF x
<1>3. CASE ~(rtl.dummies > 0)
  <2> DEFINE o == {m \in Channels : rtl.scan[m] > cfg.limit[m]}
  <2>1. x = [type |-> "DATA", gains |-> rtl.gains, noise |-> rtl.noise, locked |-> locked,
             overdrive |-> o, scanned |-> rtl.scan]
    BY <1>3 DEF SyncedHeader
  <2>2. o \in SUBSET Channels
    OBVIOUS
  <2> SUFFICES /\ x \in Frame /\ (x # DummyFrame => x.overdrive =
                                     {m \in Channels : x.scanned[m] > cfg.limit[m]})
               /\ \A g : x \in With(g) => rtl.gains = g /\ ~(rtl.dummies > 0)
               /\ \A g : x \in NotBy(g) => ~SettledAt(rtl, g)
               /\ \A n : x \in Showing(n) => rtl.noise = n
               /\ \A n : x \in NotShowing(n) => rtl.noise # n
    OBVIOUS
  <2>3. o = {m \in Channels : rtl.scan[m] > cfg.limit[m]}
    OBVIOUS
  <2> HIDE DEF x, o
  <2>4. x \in DataFrame
    BY <1>1, <2>1, <2>2 DEF DataFrame
  <2>5. x.gains = rtl.gains /\ x.noise = rtl.noise /\ x.overdrive = o /\ x.scanned = rtl.scan
    BY <2>1
  <2>6. \A g : x \in With(g) => rtl.gains = g /\ ~(rtl.dummies > 0)
    BY <1>3, <2>5 DEF With
  <2>7. \A g : x \in NotBy(g) => ~SettledAt(rtl, g)
    BY <2>5 DEF NotBy, SettledAt
  <2>8. (\A n : x \in Showing(n) => rtl.noise = n) /\ \A n : x \in NotShowing(n) => rtl.noise # n
    BY <2>5 DEF Showing, NotShowing
  <2> QED
    BY <2>3, <2>4, <2>5, <2>6, <2>7, <2>8 DEF Frame
<1> QED
  BY <1>2, <1>3

\* A frame goes out, or is dropped, and the pending gains are set.
LEMMA ChainFrameFacts ==
    ASSUME TypeOK, ChainFrame
    PROVE  /\ toHwc' \in Seq(Frame) /\ Len(toHwc') <= 2
           /\ toHwc' = toHwc \/ toHwc' = Append(toHwc, SyncedHeader)
           /\ rtl' \in RtlType
           /\ rtl'.gains = IF rtl.new_gains = None THEN rtl.gains ELSE rtl.new_gains
           /\ rtl'.new_gains = None
           /\ rtl'.scan = IF rtl.dummies > 0 THEN rtl.scan ELSE rtl.gains
           /\ rtl'.noise = rtl.noise
<1>1. toHwc \in Seq(Frame) /\ Len(toHwc) <= 2 /\ rtl \in RtlType /\ SyncedHeader \in Frame
  BY HeaderFacts DEF TypeOK
<1>2. /\ Append(toHwc, SyncedHeader) \in Seq(Frame)
      /\ Len(Append(toHwc, SyncedHeader)) = Len(toHwc) + 1
  BY <1>1, AppendElements
<1> DEFINE b == IF Busy THEN 1 ELSE 0
<1>3. toHwc' = IF Len(toHwc) + b < 2 THEN Append(toHwc, SyncedHeader) ELSE toHwc
  BY DEF ChainFrame
<1>4. b \in 0 .. 1 /\ Len(toHwc) \in Nat
  BY <1>1, LenProperties
<1> HIDE DEF b
<1>5. toHwc' \in Seq(Frame) /\ Len(toHwc') <= 2
  <2>1. CASE toHwc' = toHwc
    BY <1>1, <2>1
  <2>2. CASE toHwc' # toHwc
    <3>1. toHwc' = Append(toHwc, SyncedHeader) /\ Len(toHwc) + b < 2
      BY <1>3, <2>2
    <3>2. Len(toHwc) + 1 <= 2
      BY <1>4, <3>1
    <3> DEFINE q == Append(toHwc, SyncedHeader)
    <3> HIDE DEF q
    <3>3. q \in Seq(Frame) /\ Len(q) <= 2
      BY <1>2, <3>2 DEF q
    <3> QED
      BY <3>1, <3>3 DEF q
  <2> QED
    BY <2>1, <2>2
<1> DEFINE g == IF rtl.new_gains = None THEN rtl.gains ELSE rtl.new_gains
           sc == IF rtl.dummies > 0 THEN rtl.scan ELSE rtl.gains
           d == IF rtl.dummies > 0 THEN rtl.dummies - 1 ELSE 0
<1>6. rtl' = [rtl EXCEPT !.gains = g, !.new_gains = None, !.scan = sc, !.dummies = d]
  BY DEF ChainFrame
<1>7. g \in Gains /\ sc \in Gains /\ d \in 0 .. NoDummyFrames
  BY <1>1, ConstantFacts DEF RtlType
<1>8. /\ rtl' \in RtlType /\ rtl'.gains = g /\ rtl'.new_gains = None /\ rtl'.scan = sc
      /\ rtl'.noise = rtl.noise
  <2> HIDE DEF g, sc, d
  <2> QED
    BY <1>1, <1>6, <1>7 DEF RtlType
<1> QED
  BY <1>3, <1>5, <1>8

LEMMA Enqueue ==
    ASSUME TypeOK, toHwc' = toHwc \/ toHwc' = Append(toHwc, SyncedHeader)
    PROVE  /\ \A N : Clear(toHwc, N) /\ SyncedHeader \notin N => Clear(toHwc', N)
           /\ \A N, O : Turns(toHwc, N, O) /\ (Clear(toHwc, N) \/ SyncedHeader \notin O)
                           => Turns(toHwc', N, O)
<1>1. toHwc \in Seq(Frame) /\ SyncedHeader \in Frame
  BY HeaderFacts DEF TypeOK
<1>2. \A N : Clear(toHwc, N) /\ SyncedHeader \notin N => Clear(Append(toHwc, SyncedHeader), N)
  BY <1>1, ClearAppend
<1>3. \A N, O : Turns(toHwc, N, O) /\ (Clear(toHwc, N) \/ SyncedHeader \notin O)
                           => Turns(Append(toHwc, SyncedHeader), N, O)
  BY <1>1, TurnsAppend
<1> QED
  BY <1>2, <1>3

LEMMA ChainFrameInOrder ==
    ASSUME TypeOK, ChainFrame, NEW h, HeadersInOrder(h, rtl, toHwc)
    PROVE  HeadersInOrder(h, rtl', toHwc')
<1>1. /\ rtl'.gains = IF rtl.new_gains = None THEN rtl.gains ELSE rtl.new_gains
      /\ rtl'.new_gains = None
      /\ rtl'.scan = IF rtl.dummies > 0 THEN rtl.scan ELSE rtl.gains
      /\ rtl'.noise = rtl.noise
      /\ toHwc' = toHwc \/ toHwc' = Append(toHwc, SyncedHeader)
  BY ChainFrameFacts
<1> DEFINE x == SyncedHeader
<1>2. /\ \A N : Clear(toHwc, N) /\ x \notin N => Clear(toHwc', N)
      /\ \A N, O : Turns(toHwc, N, O) /\ (Clear(toHwc, N) \/ x \notin O) => Turns(toHwc', N, O)
  BY <1>1, Enqueue
<1>3. /\ \A g : x \in With(g) => rtl.gains = g /\ ~(rtl.dummies > 0)
      /\ \A g : x \in NotBy(g) => ~SettledAt(rtl, g)
      /\ \A n : x \in Showing(n) => rtl.noise = n
      /\ \A n : x \in NotShowing(n) => rtl.noise # n
  BY HeaderFacts
<1> HIDE DEF x
<1>4. NoiseTurns(h, rtl', toHwc')
  <2> DEFINE N == Showing(h.noise)
             O == NotShowing(h.noise)
  <2>1. /\ Turns(toHwc, N, O) /\ Only(h.todo, "n", h.noise)
        /\ ~Clear(toHwc, N) => rtl.noise = h.noise
        /\ h.state # "NOISE_CTR_WAIT" => rtl.noise = h.noise /\ Clear(toHwc, O)
    BY DEF HeadersInOrder, NoiseTurns
  <2>2. (x \in N => rtl.noise = h.noise) /\ (x \in O => rtl.noise # h.noise)
    BY <1>3
  <2> SUFFICES /\ Turns(toHwc', N, O)
               /\ ~Clear(toHwc', N) => rtl'.noise = h.noise
               /\ h.state # "NOISE_CTR_WAIT" => rtl'.noise = h.noise /\ Clear(toHwc', O)
    BY <2>1 DEF NoiseTurns
  <2> HIDE DEF N, O
  <2>3. Turns(toHwc', N, O)
    BY <1>2, <2>1, <2>2
  <2>4. ~Clear(toHwc', N) => rtl'.noise = h.noise
    BY <1>1, <1>2, <2>1, <2>2
  <2>5. h.state # "NOISE_CTR_WAIT" => rtl'.noise = h.noise /\ Clear(toHwc', O)
    BY <1>1, <1>2, <2>1, <2>2
  <2> QED
    BY <2>3, <2>4, <2>5
<1>5. ASSUME h.state = "INIT"
      PROVE  Untouched(h, rtl', toHwc')
  <2>1. /\ h.todo = <<>> /\ rtl.new_gains = None /\ SettledAt(rtl, rtl.gains)
        /\ Clear(toHwc, NotBy(rtl.gains))
    BY <1>5 DEF HeadersInOrder, Untouched
  <2>2. x \notin NotBy(rtl.gains)
    BY <1>3, <2>1
  <2>3. Clear(toHwc', NotBy(rtl.gains))
    BY <1>2, <2>1, <2>2
  <2>4. rtl'.gains = rtl.gains /\ rtl'.scan = rtl.gains
    BY <1>1, <2>1 DEF SettledAt
  <2> QED
    BY <1>1, <2>1, <2>3, <2>4 DEF Untouched, SettledAt
<1>6. ASSUME h.state \in {"GAIN_CTR_WAIT", "GAIN_TUNE"}
      PROVE  GainsTurn(h, rtl', toHwc')
  <2> DEFINE N == With(h.gains)
             O == NotBy(h.gains)
  <2>1. /\ Turns(toHwc, N, O) /\ Only(h.todo, "g", h.gains)
        /\ rtl.gains = h.gains => rtl.new_gains \in {None, h.gains}
        /\ ~Clear(toHwc, N) => SettledAt(rtl, h.gains)
        /\ h.state = "GAIN_TUNE" => SettledAt(rtl, h.gains) /\ Clear(toHwc, O)
    BY <1>6 DEF HeadersInOrder, GainsTurn
  <2>2. /\ x \in N => rtl.gains = h.gains /\ ~(rtl.dummies > 0)
        /\ x \in O => ~SettledAt(rtl, h.gains)
    BY <1>3
  <2>3. SettledAt(rtl, h.gains) => SettledAt(rtl', h.gains)
    BY <1>1, <2>1 DEF SettledAt
  <2>4. x \in N => SettledAt(rtl', h.gains)
    BY <1>1, <2>1, <2>2 DEF SettledAt
  <2> SUFFICES /\ Turns(toHwc', N, O)
               /\ ~Clear(toHwc', N) => SettledAt(rtl', h.gains)
               /\ h.state = "GAIN_TUNE" => SettledAt(rtl', h.gains) /\ Clear(toHwc', O)
    BY <1>1, <2>1 DEF GainsTurn
  <2> HIDE DEF N, O
  <2>5. Turns(toHwc', N, O)
    BY <1>2, <2>1, <2>2
  <2>6. ~Clear(toHwc', N) => SettledAt(rtl', h.gains)
    BY <1>2, <2>1, <2>3, <2>4
  <2>7. h.state = "GAIN_TUNE" => SettledAt(rtl', h.gains) /\ Clear(toHwc', O)
    BY <1>2, <2>1, <2>2, <2>3
  <2> QED
    BY <2>5, <2>6, <2>7
<1> QED
  BY <1>4, <1>5, <1>6 DEF HeadersInOrder

\* A command is accepted.
LEMMA AcceptEffect ==
    ASSUME rtl \in RtlType, NEW cmd \in Command
    PROVE  LET r == Accept(cmd)
           IN  /\ r \in RtlType
               /\ r.gains = rtl.gains /\ r.scan = rtl.scan
               /\ r.new_gains = IF cmd[1] = "g" THEN cmd[2] ELSE rtl.new_gains
               /\ r.noise = IF cmd[1] = "n" THEN cmd[2] ELSE rtl.noise
<1> DEFINE g == IF cmd[1] = "g" THEN cmd[2] ELSE rtl.new_gains
           n == IF cmd[1] = "n" THEN cmd[2] ELSE rtl.noise
           r == Accept(cmd)
<1>1. g \in Gains \cup {None} /\ n \in BOOLEAN /\ NoDummyFrames \in 0 .. NoDummyFrames
  BY CommandFacts, ConstantFacts DEF RtlType
<1>2. r = [rtl EXCEPT !.new_gains = g, !.noise = n, !.dummies = NoDummyFrames]
  BY DEF Accept
<1>3. /\ g = IF cmd[1] = "g" THEN cmd[2] ELSE rtl.new_gains
      /\ n = IF cmd[1] = "n" THEN cmd[2] ELSE rtl.noise
  OBVIOUS
<1> HIDE DEF g, n, r
<1>4. r \in RtlType /\ r.gains = rtl.gains /\ r.scan = rtl.scan /\ r.new_gains = g /\ r.noise = n
  BY <1>1, <1>2 DEF RtlType
<1> QED
  BY <1>3, <1>4 DEF r

\* The controller sends its next command.
LEMMA SendFacts ==
    ASSUME TypeOK, HwcSend
    PROVE  /\ hwc.todo \in Seq(Command) /\ hwc.todo # <<>> /\ hwc'.todo = Tail(hwc.todo)
           /\ hwc' \in HwcType /\ Len(hwc'.todo) <= 4
           /\ hwc'.state = hwc.state /\ hwc'.gains = hwc.gains /\ hwc'.noise = hwc.noise
           /\ hwc'.last_gains = hwc.last_gains /\ hwc'.tune = hwc.tune
           /\ hwc'.checks = hwc.checks
           /\ Head(hwc.todo) \in Command /\ rtl' = Accept(Head(hwc.todo))
           /\ rtl' \in RtlType /\ toHwc' = toHwc
<1>1. hwc.todo \in Seq(Command) /\ hwc.todo # <<>> /\ Len(hwc.todo) <= 4
  BY DEF TypeOK, HwcType, HwcSend
<1>2. /\ Tail(hwc.todo) \in Seq(Command) /\ Len(Tail(hwc.todo)) = Len(hwc.todo) - 1
      /\ Head(hwc.todo) \in Command
  BY <1>1, TailElements
<1> DEFINE t == Tail(hwc.todo)
<1>3. t \in Seq(Command) /\ Len(t) <= 4
  BY <1>1, <1>2
<1>4. hwc' = [hwc EXCEPT !.todo = t] /\ hwc \in HwcType
  BY DEF HwcSend, TypeOK
<1>5. t = Tail(hwc.todo)
  OBVIOUS
<1> HIDE DEF t
<1>6. /\ hwc' \in HwcType /\ hwc'.todo = t
      /\ hwc'.state = hwc.state /\ hwc'.gains = hwc.gains /\ hwc'.noise = hwc.noise
      /\ hwc'.last_gains = hwc.last_gains /\ hwc'.tune = hwc.tune /\ hwc'.checks = hwc.checks
  BY <1>3, <1>4 DEF HwcType
<1>7. hwc'.todo \in Seq(Command) /\ Len(hwc'.todo) <= 4
  BY <1>3, <1>6
<1>8. rtl' = Accept(Head(hwc.todo)) /\ toHwc' = toHwc /\ rtl \in RtlType
  BY DEF HwcSend, TypeOK
<1>9. rtl' \in RtlType
  BY <1>2, <1>8, AcceptEffect
<1> QED
  BY <1>1, <1>2, <1>5, <1>6, <1>7, <1>8, <1>9

LEMMA SendInOrder ==
    ASSUME TypeOK, HwcSend, HeadersInOrder(hwc, rtl, toHwc)
    PROVE  HeadersInOrder(hwc', rtl', toHwc')
<1> DEFINE cmd == Head(hwc.todo)
<1>1. /\ hwc.todo \in Seq(Command) /\ hwc.todo # <<>> /\ hwc'.todo = Tail(hwc.todo)
      /\ hwc'.state = hwc.state /\ hwc'.gains = hwc.gains /\ hwc'.noise = hwc.noise
      /\ cmd \in Command /\ rtl' = Accept(cmd) /\ toHwc' = toHwc
  BY SendFacts
<1>2. /\ rtl'.gains = rtl.gains /\ rtl'.scan = rtl.scan
      /\ rtl'.new_gains = IF cmd[1] = "g" THEN cmd[2] ELSE rtl.new_gains
      /\ rtl'.noise = IF cmd[1] = "n" THEN cmd[2] ELSE rtl.noise
  BY <1>1, AcceptEffect DEF TypeOK
<1>3. \A what, x : Only(hwc.todo, what, x) =>
         Only(hwc'.todo, what, x) /\ (cmd[1] = what => cmd[2] = x)
  BY <1>1, OnlyTail
<1> HIDE DEF cmd
<1>4. hwc.state # "INIT"
  BY <1>1 DEF HeadersInOrder, Untouched
<1>5. NoiseTurns(hwc', rtl', toHwc')
  <2>1. Only(hwc'.todo, "n", hwc.noise) /\ (cmd[1] = "n" => cmd[2] = hwc.noise)
    BY <1>3 DEF HeadersInOrder, NoiseTurns
  <2>2. rtl.noise = hwc.noise => rtl'.noise = hwc.noise
    BY <1>2, <2>1
  <2> QED
    BY <1>1, <2>1, <2>2 DEF HeadersInOrder, NoiseTurns
<1>6. ASSUME hwc.state \in {"GAIN_CTR_WAIT", "GAIN_TUNE"}
      PROVE  GainsTurn(hwc', rtl', toHwc')
  <2>1. GainsTurn(hwc, rtl, toHwc)
    BY <1>6 DEF HeadersInOrder
  <2>2. Only(hwc'.todo, "g", hwc.gains) /\ (cmd[1] = "g" => cmd[2] = hwc.gains)
    BY <1>3, <2>1 DEF GainsTurn
  <2>3. rtl'.gains = hwc.gains => rtl'.new_gains \in {None, hwc.gains}
    BY <1>2, <2>1, <2>2 DEF GainsTurn
  <2>4. SettledAt(rtl, hwc.gains) => SettledAt(rtl', hwc.gains)
    BY <1>2 DEF SettledAt
  <2> QED
    BY <1>1, <2>1, <2>2, <2>3, <2>4 DEF GainsTurn
<1> QED
  BY <1>1, <1>4, <1>5, <1>6 DEF HeadersInOrder

-----------------------------------------------------------------------------
(* The main loop takes a frame *)

LEMMA ReceiveFacts ==
    ASSUME TypeOK, FlagsOfScan, NEW s, Receive(s)
    PROVE  /\ toHwc \in Seq(Frame) /\ toHwc # <<>> /\ toHwc' = Tail(toHwc)
           /\ Head(toHwc) \in DataFrame
           /\ Head(toHwc).overdrive =
                 {m \in Channels : Head(toHwc).scanned[m] > cfg.limit[m]}
           /\ hwc \in HwcType /\ hwc.state = s /\ hwc.todo = <<>> /\ ~hwc.checks
           /\ lock # "main"
           /\ UNCHANGED <<cfg, rtl, lock, served, serverVars, ctr_request, locked, refused>>
<1>1. toHwc \in Seq(Frame) /\ toHwc # <<>> /\ toHwc' = Tail(toHwc) /\ Head(toHwc) # DummyFrame
  BY DEF Receive, TypeOK
<1>2. Head(toHwc) \in Frame /\ Head(toHwc) = toHwc[1] /\ 1 \in DOMAIN toHwc
  BY <1>1, TailElements
<1>3. Head(toHwc).overdrive = {m \in Channels : Head(toHwc).scanned[m] > cfg.limit[m]}
  BY <1>1, <1>2 DEF FlagsOfScan
<1>4. Head(toHwc) \in DataFrame
  BY <1>1, <1>2, FrameFacts
<1> QED
  BY <1>1, <1>3, <1>4 DEF Receive, Busy, TypeOK

LEMMA FlagsDequeue ==
    ASSUME TypeOK, FlagsOfScan, toHwc # <<>>, toHwc' = Tail(toHwc), cfg' = cfg
    PROVE  FlagsOfScan' /\ toHwc' \in Seq(Frame) /\ Len(toHwc') <= 2
<1>1. toHwc \in Seq(Frame) /\ Len(toHwc) <= 2
  BY DEF TypeOK
<1>2. /\ Tail(toHwc) \in Seq(Frame) /\ Len(Tail(toHwc)) = Len(toHwc) - 1
      /\ \A i \in DOMAIN Tail(toHwc) : i + 1 \in DOMAIN toHwc /\ Tail(toHwc)[i] = toHwc[i + 1]
  BY <1>1, TailElements
<1>3. FlagsOfScan'
  <2> SUFFICES ASSUME NEW i \in DOMAIN Tail(toHwc), Tail(toHwc)[i] # DummyFrame
               PROVE  Tail(toHwc)[i].overdrive =
                         {m \in Channels : Tail(toHwc)[i].scanned[m] > cfg.limit[m]}
    BY DEF FlagsOfScan
  <2> QED
    BY <1>2 DEF FlagsOfScan
<1>4. Len(Tail(toHwc)) <= 2
  BY <1>1, <1>2
<1> QED
  BY <1>2, <1>3, <1>4

\* The types of what the main loop leaves alone.
LEMMA MainTypes ==
    ASSUME TypeOK, rtl' \in RtlType, toHwc' \in Seq(Frame), Len(toHwc') <= 2,
           hwc' \in HwcType, Len(hwc'.todo) <= 4,
           lock' \in {"free", "main", "server"}, refused' \in BOOLEAN,
           UNCHANGED <<cfg, locked, ctr_request, server, connection, inbox>>
    PROVE  TypeOK'
BY DEF TypeOK

\* A step of the main loop that takes a frame.
Taken(h) ==
    /\ h \in HwcType /\ Len(h.todo) <= 4
    /\ HeadersInOrder(h, rtl, Tail(toHwc))
    /\ h.state \in {"INIT", "GAIN_CTR_WAIT", "GAIN_TUNE"} => ~h.checks /\ ~h.noise
    /\ cfg.tune /\ Tunable => Progress(h)

\* The configuration stays, and a client that has asked for gains has asked for them.
LEMMA ProgressPrime ==
    ASSUME UNCHANGED cfg, NoGainAsked' => NoGainAsked,
           cfg.tune /\ Tunable => Progress(hwc')
    PROVE  (cfg.tune /\ Tunable => Progress(hwc))'
<1>1. (cfg.tune /\ Tunable)' <=> cfg.tune /\ Tunable
  BY DEF Tunable
<1>2. BestGains' = BestGains
  BY DEF BestGains, Cap
<1>3. NotBelow(hwc') => NotBelow(hwc)'
  BY <1>2 DEF NotBelow
<1>4. BestKept(hwc') => BestKept(hwc)'
  BY <1>2 DEF BestKept
<1>5. Progress(hwc') => Progress(hwc)'
  <2>1. CASE hwc'.state = "INIT"
    BY <2>1 DEF Progress
  <2>2. CASE hwc'.state \in {"GAIN_CTR_WAIT", "GAIN_TUNE"}
    BY <1>3, <2>2 DEF Progress
  <2>3. CASE hwc'.state \notin {"INIT", "GAIN_CTR_WAIT", "GAIN_TUNE"}
    BY <1>4, <2>3 DEF Progress
  <2> QED
    BY <2>1, <2>2, <2>3
<1> QED
  BY <1>1, <1>5

LEMMA TakenStep ==
    ASSUME IInv, toHwc # <<>>, toHwc' = Tail(toHwc), lock # "main",
           UNCHANGED <<cfg, rtl, lock, served, serverVars, ctr_request, locked, refused>>,
           Taken(hwc')
    PROVE  IInv'
<1>1. TypeOK'
  BY FlagsDequeue, MainTypes DEF IInv, TypeOK, Taken, serverVars
<1>2. FlagsOfScan'
  BY FlagsDequeue DEF IInv
<1>3. RequestsLater'
  BY DEF Taken, RequestsLater, Tuning
<1>4. HeadersInOrder(hwc', rtl', toHwc')
  BY DEF Taken
<1>5. (cfg.tune /\ Tunable => Progress(hwc))'
  BY ProgressPrime DEF Taken, NoGainAsked, serverVars
<1> QED
  BY <1>1, <1>2, <1>3, <1>4, <1>5 DEF IInv

LEMMA InitTaken ==
    ASSUME IInv, HwcInit
    PROVE  Taken(hwc')
<1> DEFINE no == FALSE
           cmd == <<"n", no>>
           c == ChangeGains(hwc)
           t == Append(c.todo, cmd)
           st == IF \E m \in Channels : hwc.tune[m] THEN "GAIN_CTR_WAIT" ELSE "IQ_CAL"
           q == Tail(toHwc)
<1>1. hwc' = [c EXCEPT !.todo = t, !.state = st]
  BY DEF HwcInit
<1>2. no \in BOOLEAN /\ ~no
  OBVIOUS
<1> HIDE DEF no
<1>3. cmd \in Command /\ cmd[1] = "n" /\ cmd[2] = no
  BY <1>2, Commands
<1> HIDE DEF cmd
<1>4. /\ toHwc \in Seq(Frame) /\ toHwc # <<>>
      /\ hwc \in HwcType /\ hwc.state = "INIT" /\ hwc.todo = <<>> /\ ~hwc.checks /\ ~hwc.noise
  BY ReceiveFacts DEF IInv, HwcInit, RequestsLater, Tuning
<1>5. hwc.todo \in Seq(Command) /\ Len(hwc.todo) = 0 /\ hwc.noise = no
  BY <1>2, <1>4 DEF HwcType
<1>6. /\ Only(hwc.todo, "n", no)
      /\ Only(hwc.todo, "g", c.gains)
  BY <1>4, OnlyEmpty
<1>7. /\ c \in HwcType /\ c.noise = hwc.noise /\ c.tune = hwc.tune /\ c.checks = hwc.checks
      /\ c.gains = Unified(hwc.gains) /\ Len(c.todo) = Len(hwc.todo) + 1
  BY <1>4, ChangeGainsEffect
<1>8. Only(c.todo, "n", no) /\ Only(c.todo, "g", c.gains)
  BY <1>4, <1>6, ChangeGainsEffect
<1> HIDE DEF c
<1>9. c.todo \in Seq(Command) /\ Len(c.todo) = 1
  BY <1>5, <1>7 DEF HwcType
<1>10. t \in Seq(Command) /\ Len(t) <= 4
  <2>1. t \in Seq(Command) /\ Len(t) = Len(c.todo) + 1
    BY <1>3, <1>9, AppendElements
  <2> QED
    BY <1>9, <2>1
<1>11. Only(t, "n", no) /\ Only(t, "g", c.gains)
  BY <1>3, <1>8, <1>9, OnlyAppend
<1> HIDE DEF t
<1>12. st \in {"GAIN_CTR_WAIT", "IQ_CAL"}
  OBVIOUS
<1>13. st = "IQ_CAL" <=> \A m \in Channels : ~hwc.tune[m]
  OBVIOUS
<1> HIDE DEF st
<1>14. /\ hwc' \in HwcType /\ hwc'.todo = t /\ hwc'.state = st /\ hwc'.gains = c.gains
       /\ hwc'.noise = no /\ hwc'.tune = hwc.tune /\ hwc'.checks = hwc.checks
  BY <1>1, <1>2, <1>5, <1>7, <1>10, <1>12 DEF HwcType
<1>15. Only(hwc'.todo, "n", hwc'.noise) /\ Only(hwc'.todo, "g", hwc'.gains)
  BY <1>11, <1>14
<1>16. NoiseTurns(hwc', rtl, q)
  BY <1>4, <1>5, <1>14, <1>15, NoiseDequeue DEF IInv, HeadersInOrder
<1>17. ASSUME st = "GAIN_CTR_WAIT"
       PROVE  GainsTurn(hwc', rtl, q)
  <2>1. /\ rtl.new_gains = None /\ SettledAt(rtl, rtl.gains)
        /\ Clear(toHwc, NotBy(rtl.gains))
    BY <1>4 DEF IInv, HeadersInOrder, Untouched
  <2>2. rtl.new_gains \in {None, rtl.gains}
    BY <2>1
  <2> QED
    BY <1>4, <1>14, <1>15, <1>17, <2>1, <2>2, GainsSet
<1>18. HeadersInOrder(hwc', rtl, q)
  BY <1>12, <1>14, <1>16, <1>17 DEF HeadersInOrder
<1>19. ASSUME cfg.tune, Tunable
       PROVE  Progress(hwc')
  <2>1. \A m \in Channels : hwc.tune[m]
    BY <1>4, <1>19 DEF IInv, Progress
  <2>2. st = "GAIN_CTR_WAIT"
    BY <1>12, <1>13, <2>1, ConstantFacts
  <2>3. cfg.unified => \A m, k \in Channels : hwc'.gains[m] = hwc'.gains[k]
    BY <1>4, <1>7, <1>14, UnifiedFacts DEF HwcType
  <2>4. \A m \in Channels : hwc'.tune[m] = TRUE
    <3>1. hwc.tune \in [Channels -> BOOLEAN]
      BY <1>4 DEF HwcType
    <3> QED
      BY <1>14, <2>1, <3>1
  <2>5. NotBelow(hwc')
    BY <2>3, <2>4 DEF NotBelow
  <2> QED
    BY <1>14, <2>2, <2>5 DEF Progress
<1>20. hwc'.todo \in Seq(Command) /\ Len(hwc'.todo) <= 4
  BY <1>10, <1>14
<1> QED
  BY <1>2, <1>4, <1>14, <1>18, <1>19, <1>20 DEF Taken

LEMMA GainCtrWaitTaken ==
    ASSUME IInv, HwcGainCtrWait
    PROVE  Taken(hwc')
<1> DEFINE q == Tail(toHwc)
           f == Head(toHwc)
<1>1. /\ toHwc \in Seq(Frame) /\ toHwc # <<>> /\ f \in DataFrame
      /\ hwc \in HwcType /\ hwc.state = "GAIN_CTR_WAIT" /\ ~hwc.checks /\ ~hwc.noise
  BY ReceiveFacts DEF IInv, HwcGainCtrWait, RequestsLater, Tuning
<1>2. hwc' = IF f.gains = hwc.gains THEN [hwc EXCEPT !.state = "GAIN_TUNE"] ELSE hwc
  BY DEF HwcGainCtrWait
<1>3. /\ hwc' \in HwcType /\ hwc'.todo = hwc.todo /\ hwc'.gains = hwc.gains
      /\ hwc'.noise = hwc.noise /\ hwc'.tune = hwc.tune /\ hwc'.checks = hwc.checks
      /\ hwc'.state = IF f.gains = hwc.gains THEN "GAIN_TUNE" ELSE "GAIN_CTR_WAIT"
  BY <1>1, <1>2 DEF HwcType
<1>4. hwc'.state = hwc.state \/ f \in With(hwc.gains)
  BY <1>1, <1>3 DEF With
<1>5. /\ NoiseTurns(hwc, rtl, toHwc) /\ GainsTurn(hwc, rtl, toHwc)
      /\ Only(hwc'.todo, "n", hwc'.noise)
  BY <1>1, <1>3 DEF IInv, HeadersInOrder, NoiseTurns
<1>6. hwc.state # "NOISE_CTR_WAIT"
  BY <1>1
<1>7. NoiseTurns(hwc', rtl, q)
  BY <1>1, <1>3, <1>5, <1>6, NoiseDequeue
<1>8. GainsTurn(hwc', rtl, q)
  BY <1>1, <1>3, <1>4, <1>5, GainsDequeue
<1>9. hwc'.state \in {"GAIN_CTR_WAIT", "GAIN_TUNE"} /\ hwc'.state # "INIT"
  BY <1>3
<1>10. HeadersInOrder(hwc', rtl, q)
  BY <1>7, <1>8, <1>9 DEF HeadersInOrder
<1>11. ASSUME cfg.tune, Tunable
       PROVE  Progress(hwc')
  <2>1. NotBelow(hwc)
    BY <1>1, <1>11 DEF IInv, Progress
  <2>2. NotBelow(hwc')
    BY <1>3, <2>1 DEF NotBelow
  <2> QED
    BY <1>9, <2>2 DEF Progress
<1>12. hwc'.todo \in Seq(Command) /\ Len(hwc'.todo) <= 4
  <2>1. hwc.todo \in Seq(Command) /\ Len(hwc.todo) <= 4
    BY <1>1 DEF IInv, TypeOK, HwcType
  <2> QED
    BY <1>3, <2>1
<1> QED
  BY <1>1, <1>3, <1>10, <1>11, <1>12 DEF Taken

\* In STATE_GAIN_TUNE the frame was taken with the gains in use, and shows them.
LEMMA HeadIsJudged ==
    ASSUME IInv, hwc.state = "GAIN_TUNE", toHwc # <<>>, Head(toHwc) \in DataFrame
    PROVE  /\ Head(toHwc).gains = hwc.gains /\ Head(toHwc).scanned = hwc.gains
           /\ GainsTurn(hwc, rtl, toHwc)
           /\ SettledAt(rtl, hwc.gains) /\ Clear(toHwc, NotBy(hwc.gains))
           /\ rtl.new_gains \in {None, hwc.gains}
<1>1. GainsTurn(hwc, rtl, toHwc)
  BY DEF IInv, HeadersInOrder
<1>2. SettledAt(rtl, hwc.gains) /\ Clear(toHwc, NotBy(hwc.gains))
  BY <1>1 DEF GainsTurn
<1>3. toHwc \in Seq(Frame)
  BY DEF IInv, TypeOK
<1>4. Head(toHwc) \notin NotBy(hwc.gains)
  BY <1>2, <1>3, Dequeue
<1>5. rtl.new_gains \in {None, hwc.gains}
  BY <1>1, <1>2 DEF GainsTurn, SettledAt
<1> QED
  BY <1>1, <1>2, <1>4, <1>5 DEF NotBy

LEMMA GainTuneTaken ==
    ASSUME IInv, HwcGainTune
    PROVE  Taken(hwc')
<1> DEFINE q == Tail(toHwc)
           f == Head(toHwc)
<1>1. /\ toHwc \in Seq(Frame) /\ toHwc # <<>> /\ f \in DataFrame
      /\ f.overdrive = {m \in Channels : f.scanned[m] > cfg.limit[m]}
      /\ hwc \in HwcType /\ hwc.state = "GAIN_TUNE" /\ hwc.todo = <<>> /\ ~hwc.checks /\ ~hwc.noise
  BY ReceiveFacts DEF IInv, HwcGainTune, RequestsLater, Tuning
<1>2. /\ f.gains = hwc.gains /\ f.scanned = hwc.gains
      /\ GainsTurn(hwc, rtl, toHwc)
      /\ SettledAt(rtl, hwc.gains) /\ Clear(toHwc, NotBy(hwc.gains))
      /\ rtl.new_gains \in {None, hwc.gains}
  BY <1>1, HeadIsJudged
<1>3. f.overdrive = {m \in Channels : hwc.gains[m] > cfg.limit[m]}
  BY <1>1, <1>2
<1> HIDE DEF f
<1>4. /\ NoiseTurns(hwc, rtl, toHwc) /\ hwc.state # "NOISE_CTR_WAIT"
      /\ Only(hwc.todo, "n", hwc.noise)
  BY <1>1 DEF IInv, HeadersInOrder, NoiseTurns
<1>5. cfg.tune /\ Tunable => NotBelow(hwc) /\ Limits
  BY <1>1, TunableLimits DEF IInv, Progress, TypeOK
<1>6. hwc.todo \in Seq(Command) /\ Len(hwc.todo) = 0
  BY <1>1 DEF HwcType
<1>7. CASE hwc' = [TuneGains(hwc, f) EXCEPT !.state = "GAIN_CTR_WAIT", !.gain_lock_cntr = 0]
  <2> DEFINE t == Tuned(hwc, f)
             c == TuneGains(hwc, f)
  <2>1. c = ChangeGains(t)
    BY <1>1, <1>2, TuneGainsIs
  <2>2. /\ t \in HwcType /\ t.noise = hwc.noise /\ t.checks = hwc.checks /\ t.todo = hwc.todo
    BY <1>1, TunedType DEF Tuned, HwcType
  <2>3. Only(t.todo, "n", hwc.noise) /\ Only(t.todo, "g", c.gains)
    BY <1>1, <2>2, OnlyEmpty
  <2> HIDE DEF t, c
  <2>4. /\ c \in HwcType /\ c.noise = t.noise /\ c.checks = t.checks
        /\ Len(c.todo) = Len(t.todo) + 1
    BY <2>1, <2>2, ChangeGainsEffect
  <2>5. Only(c.todo, "n", hwc.noise) /\ Only(c.todo, "g", c.gains)
    BY <2>1, <2>2, <2>3, ChangeGainsEffect
  <2>6. cfg.tune /\ Tunable => NotBelow(c)
    BY <1>1, <1>2, <1>3, <1>5, TuneStep DEF c
  <2>7. hwc' = [c EXCEPT !.state = "GAIN_CTR_WAIT", !.gain_lock_cntr = 0]
    BY <1>7 DEF c
  <2>8. /\ hwc' \in HwcType /\ hwc'.state = "GAIN_CTR_WAIT" /\ hwc'.noise = hwc.noise
        /\ hwc'.checks = hwc.checks /\ hwc'.gains = c.gains /\ hwc'.tune = c.tune
        /\ hwc'.todo = c.todo
    <3>1. 0 \in 0 .. GainLockInterval
      BY ConstantFacts
    <3>2. /\ hwc'.state = "GAIN_CTR_WAIT" /\ hwc'.noise = c.noise
          /\ hwc'.checks = c.checks /\ hwc'.gains = c.gains /\ hwc'.tune = c.tune
          /\ hwc'.todo = c.todo
      BY <2>4, <2>7 DEF HwcType
    <3>3. hwc' \in HwcType
      BY <2>4, <2>7, <3>1 DEF HwcType
    <3> QED
      BY <2>2, <2>4, <3>2, <3>3
  <2>9. Only(hwc'.todo, "n", hwc'.noise) /\ Only(hwc'.todo, "g", hwc'.gains)
    BY <2>5, <2>8
  <2>10. NoiseTurns(hwc', rtl, q)
    BY <1>1, <1>4, <2>8, <2>9, NoiseDequeue
  <2>11. GainsTurn(hwc', rtl, q)
    BY <1>1, <1>2, <2>8, <2>9, GainsSet
  <2>12. HeadersInOrder(hwc', rtl, q)
    BY <2>8, <2>10, <2>11 DEF HeadersInOrder
  <2>13. cfg.tune /\ Tunable => Progress(hwc')
    BY <2>6, <2>8 DEF Progress, NotBelow
  <2>14. hwc'.todo \in Seq(Command) /\ Len(hwc'.todo) <= 4
    <3>1. c.todo \in Seq(Command) /\ Len(c.todo) = 1
      BY <1>6, <2>2, <2>4 DEF HwcType
    <3> QED
      BY <2>8, <3>1
  <2> QED
    BY <1>1, <2>8, <2>12, <2>13, <2>14 DEF Taken
<1>8. CASE /\ hwc' = [hwc EXCEPT !.state = "IQ_CAL", !.gain_lock_cntr = 0]
           /\ f.overdrive = {} /\ \A m \in Channels : ~hwc.tune[m]
  <2>1. /\ hwc' \in HwcType /\ hwc'.state = "IQ_CAL" /\ hwc'.noise = hwc.noise
        /\ hwc'.gains = hwc.gains /\ hwc'.todo = hwc.todo
    <3>1. 0 \in 0 .. GainLockInterval
      BY ConstantFacts
    <3> QED
      BY <1>1, <1>8, <3>1 DEF HwcType
  <2>2. NoiseTurns(hwc', rtl, q)
    BY <1>1, <1>4, <2>1, NoiseDequeue
  <2>3. HeadersInOrder(hwc', rtl, q)
    BY <2>1, <2>2 DEF HeadersInOrder
  <2>4. ASSUME cfg.tune, Tunable
        PROVE  Progress(hwc')
    <3>1. \A m \in Channels : ~(hwc.gains[m] > cfg.limit[m])
      BY <1>3, <1>8
    <3>2. hwc.gains = BestGains
      BY <1>1, <1>5, <1>8, <2>4, <3>1, TunedIsBest
    <3> QED
      BY <1>1, <2>1, <3>2 DEF Progress, BestKept
  <2>5. hwc'.todo \in Seq(Command) /\ Len(hwc'.todo) <= 4
    BY <1>6, <2>1
  <2> QED
    BY <2>1, <2>3, <2>4, <2>5 DEF Taken
<1>9. CASE hwc' = [hwc EXCEPT !.gain_lock_cntr = @ + 1] /\ hwc.gain_lock_cntr # GainLockInterval
  <2>1. hwc.gain_lock_cntr + 1 \in 0 .. GainLockInterval
    BY <1>1, <1>9, ConstantFacts DEF HwcType
  <2>2. /\ hwc' \in HwcType /\ hwc'.state = hwc.state /\ hwc'.noise = hwc.noise
        /\ hwc'.gains = hwc.gains /\ hwc'.todo = hwc.todo /\ hwc'.tune = hwc.tune
        /\ hwc'.checks = hwc.checks
    BY <1>1, <1>9, <2>1 DEF HwcType
  <2>3. NoiseTurns(hwc', rtl, q)
    BY <1>1, <1>4, <2>2, NoiseDequeue
  <2>4. GainsTurn(hwc', rtl, q)
    BY <1>1, <1>2, <2>2, GainsDequeue
  <2>5. HeadersInOrder(hwc', rtl, q)
    BY <1>1, <2>2, <2>3, <2>4 DEF HeadersInOrder
  <2>6. cfg.tune /\ Tunable => Progress(hwc')
    BY <1>1, <1>5, <2>2 DEF Progress, NotBelow
  <2>7. hwc'.todo \in Seq(Command) /\ Len(hwc'.todo) <= 4
    BY <1>6, <2>2
  <2> QED
    BY <1>1, <2>2, <2>5, <2>6, <2>7 DEF Taken
<1> QED
  BY <1>7, <1>8, <1>9 DEF HwcGainTune, f

\* After the tuning only the noise source and the gains to be kept matter.
LEMMA LaterTaken ==
    ASSUME IInv, hwc.state \in {"IQ_CAL", "NOISE_CTR_WAIT"},
           NEW s \in HwcType, s.state \in {"IQ_CAL", "NOISE_CTR_WAIT"}, Len(s.todo) <= 4,
           NoiseTurns(s, rtl, Tail(toHwc)),
           Limits /\ BestKept(hwc) => BestKept(s)
    PROVE  Taken(s)
<1>1. HeadersInOrder(s, rtl, Tail(toHwc))
  BY DEF HeadersInOrder
<1>2. ASSUME cfg.tune, Tunable
      PROVE  Progress(s)
  <2>1. NoGainAsked => BestKept(hwc)
    BY <1>2 DEF IInv, Progress
  <2>2. Limits
    BY <1>2, TunableLimits DEF IInv, TypeOK
  <2>3. NoGainAsked => BestKept(s)
    BY <2>1, <2>2
  <2> QED
    BY <2>3 DEF Progress
<1> QED
  BY <1>1, <1>2 DEF Taken

LEMMA NoiseCtrWaitTaken ==
    ASSUME IInv, HwcNoiseCtrWait
    PROVE  Taken(hwc')
<1> DEFINE f == Head(toHwc)
<1>1. /\ toHwc \in Seq(Frame) /\ toHwc # <<>> /\ f \in DataFrame
      /\ hwc \in HwcType /\ hwc.state = "NOISE_CTR_WAIT" /\ hwc.todo = <<>>
  BY ReceiveFacts DEF IInv, HwcNoiseCtrWait
<1>2. hwc' = IF f.noise = hwc.noise /\ f.gains = hwc.gains
             THEN [hwc EXCEPT !.state = "IQ_CAL"] ELSE hwc
  BY DEF HwcNoiseCtrWait
<1>3. /\ hwc' \in HwcType /\ hwc'.todo = hwc.todo /\ hwc'.gains = hwc.gains
      /\ hwc'.noise = hwc.noise /\ hwc'.last_gains = hwc.last_gains
      /\ \/ hwc'.state = "NOISE_CTR_WAIT"
         \/ hwc'.state = "IQ_CAL" /\ f.noise = hwc.noise
  BY <1>1, <1>2 DEF HwcType
<1>4. hwc'.state = hwc.state \/ f \in Showing(hwc.noise)
  BY <1>1, <1>3 DEF Showing
<1>5. NoiseTurns(hwc, rtl, toHwc) /\ Only(hwc'.todo, "n", hwc'.noise)
  BY <1>1, <1>3, OnlyEmpty DEF IInv, HeadersInOrder
<1>6. NoiseTurns(hwc', rtl, Tail(toHwc))
  BY <1>1, <1>3, <1>4, <1>5, NoiseDequeue
<1>7. BestKept(hwc) => BestKept(hwc')
  BY <1>3 DEF BestKept
<1>8. hwc'.todo \in Seq(Command) /\ Len(hwc'.todo) <= 4
  <2>1. hwc.todo \in Seq(Command) /\ Len(hwc.todo) <= 4
    BY <1>1 DEF IInv, TypeOK, HwcType
  <2> QED
    BY <1>3, <2>1
<1>9. hwc'.state \in {"IQ_CAL", "NOISE_CTR_WAIT"}
  BY <1>3
<1> QED
  BY <1>1, <1>3, <1>6, <1>7, <1>8, <1>9, LaterTaken

\* The best gains are the same for all receivers where they have to be.
LEMMA UnifiedBest ==
    ASSUME Limits
    PROVE  Unified(BestGains) = BestGains
<1>1. BestGains \in Gains /\ Unified(BestGains) \in Gains
  BY BestFacts, UnifiedFacts
<1>2. CASE ~cfg.unified
  BY <1>1, <1>2, UnifiedFacts
<1>3. CASE cfg.unified
  <2>1. \A m, k \in Channels : BestGains[m] = BestGains[k]
    BY <1>3 DEF BestGains
  <2>2. \A m \in Channels : \E k \in Channels : Unified(BestGains)[m] = BestGains[k]
    BY <1>1, <1>3, UnifiedFacts
  <2>3. \A m \in Channels : Unified(BestGains)[m] = BestGains[m]
    BY <2>1, <2>2
  <2> QED
    BY <1>1, <2>3 DEF Gains
<1> QED
  BY <1>2, <1>3

LEMMA IqCalTaken ==
    ASSUME IInv, HwcIqCal
    PROVE  Taken(hwc')
<1> DEFINE q == Tail(toHwc)
           f == Head(toHwc)
           yes == TRUE
<1>1. /\ toHwc \in Seq(Frame) /\ toHwc # <<>> /\ f \in DataFrame
      /\ hwc \in HwcType /\ hwc.state = "IQ_CAL" /\ hwc.todo = <<>>
  BY ReceiveFacts DEF IInv, HwcIqCal
<1>2. NoiseTurns(hwc, rtl, toHwc)
  BY DEF IInv, HeadersInOrder
<1>3. f.noise = hwc.noise
  <2>1. Clear(toHwc, NotShowing(hwc.noise))
    BY <1>1, <1>2 DEF NoiseTurns
  <2>2. f \notin NotShowing(hwc.noise)
    BY <1>1, <2>1, Dequeue
  <2> QED
    BY <1>1, <2>2 DEF NotShowing
<1>4. PICK s : /\ hwc' = [s EXCEPT !.checks = yes]
               /\ \/ s = NoiseOn(hwc) /\ ~f.noise
                  \/ s = NoiseOff(hwc) /\ f.noise
                  \/ s = hwc
  BY DEF HwcIqCal
<1>5. yes \in BOOLEAN
  OBVIOUS
<1> HIDE DEF yes, f
<1>6. SUFFICES /\ s \in HwcType /\ Len(s.todo) <= 4
               /\ s.state \in {"IQ_CAL", "NOISE_CTR_WAIT"}
               /\ NoiseTurns(s, rtl, q)
               /\ Limits /\ BestKept(hwc) => BestKept(s)
  <2>1. /\ hwc' \in HwcType /\ hwc'.todo = s.todo /\ hwc'.state = s.state
        /\ hwc'.noise = s.noise /\ hwc'.gains = s.gains /\ hwc'.last_gains = s.last_gains
    BY <1>4, <1>5, <1>6 DEF HwcType
  <2>2. NoiseTurns(hwc', rtl, q)
    BY <1>6, <2>1 DEF NoiseTurns
  <2>3. BestKept(s) => BestKept(hwc')
    BY <2>1 DEF BestKept
  <2>4. hwc'.todo \in Seq(Command) /\ Len(hwc'.todo) <= 4
    <3>1. s.todo \in Seq(Command) /\ Len(s.todo) <= 4
      BY <1>6 DEF HwcType
    <3> QED
      BY <2>1, <3>1
  <2> QED
    BY <1>1, <1>6, <2>1, <2>2, <2>3, <2>4, LaterTaken
<1>7. CASE s = NoiseOn(hwc) /\ ~f.noise
  <2>1. /\ s \in HwcType /\ Len(s.todo) <= 3 /\ Only(s.todo, "n", s.noise)
        /\ s.noise /\ s.state = "NOISE_CTR_WAIT" /\ s.last_gains = hwc.gains
    BY <1>1, <1>7, NoiseOnEffect
  <2>2. s.noise # hwc.noise /\ ~hwc.noise
    BY <1>3, <1>7, <2>1
  <2>3. NoiseTurns(s, rtl, q)
    BY <1>1, <1>2, <2>1, <2>2, NoiseSwitch
  <2>4. BestKept(hwc) => BestKept(s)
    BY <2>1, <2>2 DEF BestKept
  <2>5. s.todo \in Seq(Command) /\ Len(s.todo) <= 4
    <3>1. s.todo \in Seq(Command) /\ Len(s.todo) <= 3
      BY <2>1 DEF HwcType
    <3> QED
      BY <3>1
  <2> QED
    BY <2>1, <2>3, <2>4, <2>5
<1>8. CASE s = NoiseOff(hwc) /\ f.noise
  <2>1. /\ s \in HwcType /\ Len(s.todo) <= 3 /\ Only(s.todo, "n", s.noise)
        /\ ~s.noise /\ s.state = "NOISE_CTR_WAIT" /\ s.gains = Unified(hwc.last_gains)
    BY <1>1, <1>8, NoiseOffEffect
  <2>2. s.noise # hwc.noise /\ hwc.noise
    BY <1>3, <1>8, <2>1
  <2>3. NoiseTurns(s, rtl, q)
    BY <1>1, <1>2, <2>1, <2>2, NoiseSwitch
  <2>4. ASSUME Limits, BestKept(hwc)
        PROVE  BestKept(s)
    <3>1. hwc.last_gains = BestGains
      BY <2>2, <2>4 DEF BestKept
    <3>2. s.gains = BestGains
      BY <2>1, <2>4, <3>1, UnifiedBest
    <3> QED
      BY <2>1, <3>2 DEF BestKept
  <2>5. s.todo \in Seq(Command) /\ Len(s.todo) <= 4
    <3>1. s.todo \in Seq(Command) /\ Len(s.todo) <= 3
      BY <2>1 DEF HwcType
    <3> QED
      BY <3>1
  <2> QED
    BY <2>1, <2>3, <2>4, <2>5
<1>9. CASE s = hwc
  <2>1. NoiseTurns(s, rtl, q)
    BY <1>1, <1>2, <1>9, NoiseDequeue DEF NoiseTurns
  <2> QED
    BY <1>1, <1>9, <2>1 DEF IInv, TypeOK
<1> QED
  BY <1>4, <1>7, <1>8, <1>9

\* A dummy frame changes nothing.
LEMMA DummyTaken ==
    ASSUME IInv, HwcDummy
    PROVE  Taken(hwc')
<1> DEFINE q == Tail(toHwc)
<1>1. /\ toHwc \in Seq(Frame) /\ toHwc # <<>>
      /\ hwc \in HwcType /\ hwc' = hwc /\ Len(hwc.todo) <= 4
  BY DEF IInv, TypeOK, HwcDummy, mainVars
<1>2. NoiseTurns(hwc, rtl, q)
  <2>1. NoiseTurns(hwc, rtl, toHwc) /\ Only(hwc.todo, "n", hwc.noise)
    BY DEF IInv, HeadersInOrder, NoiseTurns
  <2> QED
    BY <1>1, <2>1, NoiseDequeue
<1>3. ASSUME hwc.state = "INIT"
      PROVE  Untouched(hwc, rtl, q)
  <2>1. Untouched(hwc, rtl, toHwc)
    BY <1>3 DEF IInv, HeadersInOrder
  <2>2. Clear(toHwc, NotBy(rtl.gains)) => Clear(q, NotBy(rtl.gains))
    BY <1>1, Dequeue
  <2> QED
    BY <2>1, <2>2 DEF Untouched
<1>4. ASSUME hwc.state \in {"GAIN_CTR_WAIT", "GAIN_TUNE"}
      PROVE  GainsTurn(hwc, rtl, q)
  <2>1. GainsTurn(hwc, rtl, toHwc)
    BY <1>4 DEF IInv, HeadersInOrder
  <2> QED
    BY <1>1, <2>1, GainsDequeue
<1>5. HeadersInOrder(hwc, rtl, q)
  BY <1>2, <1>3, <1>4 DEF HeadersInOrder
<1> QED
  BY <1>1, <1>5 DEF IInv, Taken, RequestsLater, Tuning

\* Whatever the main loop does with a frame.
LEMMA FrameTaken ==
    ASSUME IInv, \/ HwcDummy \/ HwcInit \/ HwcGainCtrWait \/ HwcGainTune \/ HwcIqCal
                 \/ HwcNoiseCtrWait
    PROVE  IInv'
<1>1. Taken(hwc')
  BY DummyTaken, InitTaken, GainCtrWaitTaken, GainTuneTaken, IqCalTaken, NoiseCtrWaitTaken
<1>2. /\ toHwc # <<>> /\ toHwc' = Tail(toHwc) /\ lock # "main"
      /\ UNCHANGED <<cfg, rtl, lock, served, serverVars, ctr_request, locked, refused>>
  BY DEF HwcDummy, HwcInit, HwcGainCtrWait, HwcGainTune, HwcIqCal, HwcNoiseCtrWait, Receive,
         Busy, mainVars
<1> QED
  BY <1>1, <1>2, TakenStep

-----------------------------------------------------------------------------
(* The other steps *)

\* rtl_daq and delay_sync.
LEMMA ChainStep ==
    ASSUME IInv, ChainFrame
    PROVE  IInv'
<1>1. TypeOK /\ FlagsOfScan
  BY DEF IInv
<1>2. /\ toHwc' \in Seq(Frame) /\ Len(toHwc') <= 2
      /\ toHwc' = toHwc \/ toHwc' = Append(toHwc, SyncedHeader)
      /\ rtl' \in RtlType
  BY <1>1, ChainFrameFacts
<1>3. /\ hwc' = hwc /\ refused' = refused /\ lock' = lock
      /\ UNCHANGED <<cfg, locked, ctr_request, server, connection, inbox, asked>>
  BY DEF ChainFrame, mainVars, serverVars
<1>4. TypeOK'
  <2>1. /\ hwc' \in HwcType /\ lock' \in {"free", "main", "server"} /\ refused' \in BOOLEAN
    BY <1>1, <1>3 DEF TypeOK
  <2>2. Len(hwc'.todo) <= 4
    BY <1>1, <1>3 DEF TypeOK
  <2> QED
    BY <1>1, <1>2, <1>3, <2>1, <2>2, MainTypes
<1>5. FlagsOfScan'
  <2>1. CASE toHwc' = toHwc
    BY <1>1, <1>3, <2>1 DEF FlagsOfScan
  <2>2. CASE toHwc' = Append(toHwc, SyncedHeader)
    <3>1. \A i \in DOMAIN toHwc' : toHwc'[i] # DummyFrame =>
             toHwc'[i].overdrive = {m \in Channels : toHwc'[i].scanned[m] > cfg.limit[m]}
      <4> SUFFICES ASSUME NEW i \in DOMAIN toHwc', toHwc'[i] # DummyFrame
                   PROVE  toHwc'[i].overdrive
                             = {m \in Channels : toHwc'[i].scanned[m] > cfg.limit[m]}
        OBVIOUS
      <4>1. \/ i \in DOMAIN toHwc /\ toHwc'[i] = toHwc[i]
            \/ toHwc'[i] = SyncedHeader
        <5>1. toHwc \in Seq(Frame) /\ SyncedHeader \in Frame
          BY <1>1, HeaderFacts DEF TypeOK
        <5> QED
          BY <2>2, <5>1, AppendElements
      <4>2. CASE i \in DOMAIN toHwc /\ toHwc'[i] = toHwc[i]
        BY <1>1, <4>2 DEF FlagsOfScan
      <4>3. CASE toHwc'[i] = SyncedHeader
        BY <1>1, <4>3, HeaderFacts
      <4> QED
        BY <4>1, <4>2, <4>3
    <3> QED
      BY <1>3, <3>1 DEF FlagsOfScan
  <2> QED
    BY <1>2, <2>1, <2>2
<1>6. HeadersInOrder(hwc', rtl', toHwc')
  <2>1. HeadersInOrder(hwc, rtl', toHwc')
    BY <1>1, ChainFrameInOrder DEF IInv
  <2> QED
    BY <1>3, <2>1
<1>7. RequestsLater'
  BY <1>3 DEF IInv, RequestsLater, Tuning
<1>8. (cfg.tune /\ Tunable => Progress(hwc))'
  BY <1>3, ProgressPrime DEF IInv, NoGainAsked
<1> QED
  BY <1>4, <1>5, <1>6, <1>7, <1>8 DEF IInv

LEMMA SendStep ==
    ASSUME IInv, HwcSend
    PROVE  IInv'
<1>1. TypeOK /\ FlagsOfScan
  BY DEF IInv
<1>2. /\ hwc' \in HwcType /\ Len(hwc'.todo) <= 4
      /\ hwc'.state = hwc.state /\ hwc'.gains = hwc.gains /\ hwc'.noise = hwc.noise
      /\ hwc'.last_gains = hwc.last_gains /\ hwc'.tune = hwc.tune /\ hwc'.checks = hwc.checks
      /\ rtl' \in RtlType /\ toHwc' = toHwc
  BY <1>1, SendFacts
<1>3. /\ refused' = refused /\ lock' = lock
      /\ UNCHANGED <<cfg, locked, ctr_request, server, connection, inbox, asked>>
  BY DEF HwcSend, serverVars
<1>4. TypeOK'
  <2>1. /\ toHwc' \in Seq(Frame) /\ lock' \in {"free", "main", "server"} /\ refused' \in BOOLEAN
    BY <1>1, <1>2, <1>3 DEF TypeOK
  <2>2. Len(toHwc') <= 2
    BY <1>1, <1>2 DEF TypeOK
  <2> QED
    BY <1>1, <1>2, <1>3, <2>1, <2>2, MainTypes
<1>5. FlagsOfScan'
  BY <1>1, <1>2, <1>3 DEF FlagsOfScan
<1>6. HeadersInOrder(hwc', rtl', toHwc')
  BY <1>1, SendInOrder DEF IInv
<1>7. RequestsLater'
  BY <1>2, <1>3 DEF IInv, RequestsLater, Tuning
<1>8. ASSUME cfg.tune, Tunable
      PROVE  Progress(hwc')
  <2>1. Progress(hwc)
    BY <1>8 DEF IInv
  <2>2. NotBelow(hwc) => NotBelow(hwc')
    BY <1>2 DEF NotBelow
  <2>3. BestKept(hwc) => BestKept(hwc')
    BY <1>2 DEF BestKept
  <2> QED
    BY <1>2, <2>1, <2>2, <2>3 DEF Progress
<1>9. (cfg.tune /\ Tunable => Progress(hwc))'
  BY <1>3, <1>8, ProgressPrime DEF NoGainAsked
<1> QED
  BY <1>4, <1>5, <1>6, <1>7, <1>9 DEF IInv

\* The request is the last one asked for.
LEMMA RequestIsAsked ==
    ASSUME RInv, ctr_request # None, NoGainAsked
    PROVE  ctr_request[1] # "GAIN"
<1>1. served \in Seq(Requests) /\ ctr_request \in Requests /\ asked = Append(served, ctr_request)
  BY DEF RInv
<1>2. Len(served) + 1 \in DOMAIN asked /\ asked[Len(served) + 1] = ctr_request
  BY <1>1
<1> QED
  BY <1>2 DEF NoGainAsked

LEMMA CheckStep ==
    ASSUME IInv, RInv, CheckRequest
    PROVE  IInv'
<1> DEFINE s == IF ctr_request = None THEN hwc ELSE HandleControlRequest(hwc, ctr_request)
           no == FALSE
<1>1. /\ TypeOK /\ FlagsOfScan /\ hwc \in HwcType /\ hwc.todo = <<>> /\ hwc.checks
  BY DEF IInv, TypeOK, CheckRequest
<1>2. hwc' = [s EXCEPT !.checks = no]
  BY DEF CheckRequest
<1>3. no \in BOOLEAN /\ ~no
  OBVIOUS
<1>4. /\ lock' = "main" /\ refused' \in BOOLEAN
      /\ UNCHANGED <<cfg, rtl, locked, toHwc, ctr_request, server, connection, inbox, asked>>
  <2>1. refused \in BOOLEAN
    BY <1>1 DEF TypeOK
  <2>2. refused' = \/ refused
                   \/ /\ ctr_request # None /\ ctr_request[1] = "GAIN"
                      /\ Named(ctr_request[2]) # Channels
    BY DEF CheckRequest
  <2>3. refused' \in BOOLEAN
    BY <2>1, <2>2
  <2> QED
    BY <2>3 DEF CheckRequest, chainVars, serverVars
<1>5. \/ s = hwc /\ Handled(hwc, s, <<"INIT">>)
      \/ ctr_request # None /\ Handled(hwc, s, ctr_request)
  <2>1. CASE ctr_request = None
    BY <1>1, <2>1, UnchangedHandled
  <2>2. CASE ctr_request # None
    <3>1. ctr_request \in Requests
      BY <2>2 DEF RInv
    <3> QED
      BY <1>1, <2>2, <3>1, HandleEffect
  <2> QED
    BY <2>1, <2>2
<1> HIDE DEF s, no
<1>6. /\ s \in HwcType /\ Len(s.todo) <= 1 /\ (\A x : Only(s.todo, "n", x))
      /\ s.noise = hwc.noise /\ s.state = hwc.state
  BY <1>5 DEF Handled
<1>7. NoGainAsked => s.gains = hwc.gains /\ s.last_gains = hwc.last_gains
  BY <1>5, RequestIsAsked DEF Handled
<1>8. /\ hwc' \in HwcType /\ hwc'.todo = s.todo /\ hwc'.noise = hwc.noise
      /\ hwc'.state = hwc.state /\ hwc'.gains = s.gains /\ hwc'.last_gains = s.last_gains
      /\ ~hwc'.checks
  BY <1>2, <1>3, <1>6 DEF HwcType
<1>9. hwc.state \in {"IQ_CAL", "NOISE_CTR_WAIT"}
  BY <1>1 DEF IInv, RequestsLater, Tuning, HwcType
<1>10. hwc'.todo \in Seq(Command) /\ Len(hwc'.todo) <= 4
  <2>1. s.todo \in Seq(Command) /\ Len(s.todo) <= 1
    BY <1>6 DEF HwcType
  <2> QED
    BY <1>8, <2>1
<1>11. TypeOK'
  <2>1. rtl' \in RtlType /\ toHwc' \in Seq(Frame) /\ lock' \in {"free", "main", "server"}
    BY <1>1, <1>4 DEF TypeOK
  <2>2. Len(toHwc') <= 2
    BY <1>1, <1>4 DEF TypeOK
  <2> QED
    BY <1>1, <1>4, <1>8, <1>10, <2>1, <2>2, MainTypes
<1>12. FlagsOfScan'
  BY <1>1, <1>4 DEF FlagsOfScan
<1>13. HeadersInOrder(hwc', rtl', toHwc')
  <2>1. NoiseTurns(hwc, rtl, toHwc)
    BY DEF IInv, HeadersInOrder
  <2>2. Only(hwc'.todo, "n", hwc'.noise)
    BY <1>6, <1>8
  <2>3. NoiseTurns(hwc', rtl', toHwc')
    BY <1>4, <1>8, <2>1, <2>2 DEF NoiseTurns
  <2> QED
    BY <1>8, <1>9, <2>3 DEF HeadersInOrder
<1>14. RequestsLater'
  BY <1>8, <1>9 DEF RequestsLater, Tuning
<1>15. ASSUME cfg.tune, Tunable
       PROVE  Progress(hwc')
  <2>1. NoGainAsked => BestKept(hwc)
    BY <1>9, <1>15 DEF IInv, Progress
  <2>2. NoGainAsked => BestKept(hwc')
    BY <1>7, <1>8, <2>1 DEF BestKept
  <2> QED
    BY <1>8, <1>9, <2>2 DEF Progress
<1>16. (cfg.tune /\ Tunable => Progress(hwc))'
  BY <1>4, <1>15, ProgressPrime DEF NoGainAsked
<1> QED
  BY <1>11, <1>12, <1>13, <1>14, <1>16 DEF IInv

\* Steps that leave the main loop and the chain alone.
LEMMA ThreadStep ==
    ASSUME IInv, RInv', UNCHANGED <<cfg, rtl, toHwc, hwc, refused>>,
           locked' \in BOOLEAN,
           lock' \in {"free", "server"} \/ lock' = lock,
           connection' \in {"none", "open", "gone"},
           NoGainAsked' => NoGainAsked
    PROVE  IInv'
<1>1. TypeOK'
  <2>1. /\ ctr_request' \in Requests \cup {None} /\ inbox' \in Messages \cup {None}
        /\ server' \in {"accept", "recv", "waiting", "woken", "reply", "close", "dead"}
    BY DEF RInv, ServerStates
  <2>2. lock' \in {"free", "main", "server"}
    BY DEF IInv, TypeOK
  <2> QED
    BY <2>1, <2>2 DEF IInv, TypeOK
<1>2. FlagsOfScan' /\ RequestsLater'
  BY DEF IInv, FlagsOfScan, RequestsLater, Tuning
<1>3. HeadersInOrder(hwc, rtl, toHwc)'
  BY DEF IInv
<1>4. (cfg.tune /\ Tunable => Progress(hwc))'
  BY ProgressPrime DEF IInv
<1> QED
  BY <1>1, <1>2, <1>3, <1>4 DEF IInv

LEMMA OtherThreads ==
    ASSUME IInv, RInv, RInv',
           SyncChanges \/ FinishRequest \/ ServerStep \/ ClientStep \/ UNCHANGED vars
    PROVE  IInv'
<1>1. UNCHANGED <<cfg, rtl, toHwc, hwc, refused>>
  BY DEF SyncChanges, FinishRequest, ServerStep, HandOver, WaitForNothing, TakeExit,
         FailUnderLock, TakeMessage, Resume, SendAnswer, EndOfData, CloseConnection,
         ClientStep, Connect, ClientSends, HangUp, ClientUnchanged, vars, chainVars, mainVars
<1>2. locked' \in BOOLEAN
  BY DEF SyncChanges, FinishRequest, ServerStep, HandOver, WaitForNothing, TakeExit,
         FailUnderLock, TakeMessage, Resume, SendAnswer, EndOfData, CloseConnection,
         ClientStep, Connect, ClientSends, HangUp, ClientUnchanged, vars, chainVars,
         IInv, TypeOK
<1>3. lock' \in {"free", "server"} \/ lock' = lock
  BY DEF SyncChanges, FinishRequest, ServerStep, HandOver, WaitForNothing, TakeExit,
         FailUnderLock, TakeMessage, Resume, SendAnswer, EndOfData, CloseConnection,
         ClientStep, Connect, ClientSends, HangUp, ClientUnchanged, vars
<1>4. connection' \in {"none", "open", "gone"}
  BY DEF SyncChanges, FinishRequest, ServerStep, HandOver, WaitForNothing, TakeExit,
         FailUnderLock, TakeMessage, Resume, SendAnswer, EndOfData, CloseConnection,
         ClientStep, Connect, ClientSends, HangUp, ClientUnchanged, vars, serverVars,
         IInv, TypeOK
<1>5. asked' = asked \/ HandOver
  BY DEF SyncChanges, FinishRequest, ServerStep, WaitForNothing, TakeExit,
         FailUnderLock, Resume, SendAnswer, EndOfData, CloseConnection,
         ClientStep, Connect, ClientSends, HangUp, ClientUnchanged, vars, serverVars
<1>6. NoGainAsked' => NoGainAsked
  <2>1. CASE asked' = asked
    BY <2>1 DEF NoGainAsked
  <2>2. CASE HandOver
    <3>1. asked \in Seq(Requests) /\ inbox \in Requests /\ asked' = Append(asked, inbox)
      BY <2>2, TakenIsRequest DEF RInv, HandOver
    <3>2. \A i \in DOMAIN asked : i \in DOMAIN asked' /\ asked'[i] = asked[i]
      BY <3>1
    <3> QED
      BY <3>2 DEF NoGainAsked
  <2> QED
    BY <1>5, <2>1, <2>2
<1> QED
  BY <1>1, <1>2, <1>3, <1>4, <1>6, ThreadStep

LEMMA IInvStep ==
    ASSUME IInv, RInv, [Next]_vars
    PROVE  IInv'
<1>1. RInv'
  BY NextStep
<1> QED
  BY <1>1, ChainStep, FrameTaken, SendStep, CheckStep, OtherThreads DEF Next, MainStep

LEMMA InitIInv == Init => IInv
<1> SUFFICES ASSUME Init PROVE IInv
  OBVIOUS
<1> DEFINE z == [m \in Channels |-> 0]
           no == FALSE
           tune == [m \in Channels |-> cfg.tune]
<1>1. /\ rtl = [gains |-> z, new_gains |-> None, noise |-> no, dummies |-> 0, scan |-> z]
      /\ hwc = [state |-> "INIT", gains |-> cfg.gains, last_gains |-> cfg.gains,
                tune |-> tune, gain_lock_cntr |-> 0, agc |-> no, last_agc |-> no,
                noise |-> no, todo |-> <<>>, checks |-> no]
      /\ cfg \in Configurations
      /\ toHwc = <<>> /\ lock = "free"
  BY DEF Init
<1>2. /\ no \in BOOLEAN /\ ~no
      /\ z \in Gains /\ cfg.gains \in Gains /\ tune \in [Channels -> BOOLEAN]
      /\ 0 \in 0 .. NoDummyFrames /\ 0 \in 0 .. GainLockInterval
  BY <1>1, ConstantFacts DEF Configuration, Gains
<1>3. /\ hwc.tune = tune /\ hwc.state = "INIT" /\ hwc.todo = <<>> /\ hwc.noise = no
      /\ hwc.checks = no /\ rtl.noise = no
      /\ rtl.new_gains = None /\ rtl.gains = z /\ rtl.scan = z
  BY <1>1
<1>4. cfg.tune => \A m \in Channels : hwc.tune[m]
  BY <1>3
<1> HIDE DEF z, no, tune
<1>5. rtl \in RtlType
  BY <1>1, <1>2 DEF RtlType
<1>6. hwc \in HwcType
  <2>1. <<>> \in Seq(Command)
    OBVIOUS
  <2> QED
    BY <1>1, <1>2, <2>1 DEF HwcType
<1>7. TypeOK
  <2>1. /\ locked \in BOOLEAN /\ lock \in {"free", "main", "server"} /\ refused \in BOOLEAN
        /\ ctr_request \in Requests \cup {None} /\ inbox \in Messages \cup {None}
        /\ server \in {"accept", "recv", "waiting", "woken", "reply", "close", "dead"}
        /\ connection \in {"none", "open", "gone"}
    BY DEF Init
  <2>2. toHwc \in Seq(Frame) /\ Len(toHwc) <= 2 /\ Len(hwc.todo) <= 4
    BY <1>1, <1>3
  <2> QED
    BY <1>1, <1>5, <1>6, <2>1, <2>2 DEF TypeOK
<1>8. RequestsLater /\ FlagsOfScan
  BY <1>1, <1>2, <1>3 DEF RequestsLater, FlagsOfScan
<1>9. HeadersInOrder(hwc, rtl, toHwc)
  <2>1. \A N, O : Clear(toHwc, N) /\ Turns(toHwc, N, O)
    BY <1>1 DEF Clear, Turns
  <2>2. NoiseTurns(hwc, rtl, toHwc)
    BY <1>3, <2>1, OnlyEmpty DEF NoiseTurns
  <2>3. Untouched(hwc, rtl, toHwc)
    BY <1>3, <2>1 DEF Untouched, SettledAt
  <2> QED
    BY <1>3, <2>2, <2>3 DEF HeadersInOrder
<1>10. cfg.tune => Progress(hwc)
  BY <1>3, <1>4 DEF Progress
<1> QED
  BY <1>7, <1>8, <1>9, <1>10 DEF IInv

-----------------------------------------------------------------------------
(* Theorems about the gains *)

\* What rtl_daq, the frames under way and the attributes of hw_controller.py's main
\* loop have to do with each other: the headers show the changes in the order in which
\* they were asked for, and none is taken for another.
THEOREM Invariance == Spec => []IInv
<1>1. IInv /\ RInv /\ [Next]_vars => IInv'
  BY IInvStep
<1> QED
  BY InitIInv, <1>1, RequestsKept, PTL DEF Spec

\* The state keeps its shape: gains stay indices of the table whatever the tuning and
\* the clients do, an iteration of the loop never leaves more than four commands to
\* send, and at most two frames are under way.
THEOREM TypeCorrect == Spec => []TypeOK
<1>1. IInv => TypeOK
  BY DEF IInv
<1> QED
  BY Invariance, <1>1, PTL

\* _tune_gains judges gains by samples taken with them, although the flags are one
\* frame older than the header that carries them: for every number of receivers, gain
\* table and configuration.
THEOREM TuningJudgesItsGains == Spec => []JudgedAtItsGains
<1>1. IInv => JudgedAtItsGains
  <2> SUFFICES ASSUME IInv, hwc.state = "GAIN_TUNE",
                      NEW i \in DOMAIN toHwc, toHwc[i] # DummyFrame
               PROVE  toHwc[i].scanned = hwc.gains
    BY DEF JudgedAtItsGains
  <2>1. toHwc[i] \in DataFrame
    BY FrameFacts DEF IInv, TypeOK
  <2>2. toHwc[i] \notin NotBy(hwc.gains)
    BY DEF IInv, HeadersInOrder, GainsTurn, Clear
  <2> QED
    BY <2>1, <2>2 DEF NotBy
<1> QED
  BY Invariance, <1>1, PTL

\* STATE_GAIN_TUNE leaves the highest gains that overdrive no receiver, and the
\* calibrations after it give them back: for every gain table, every set of limits and
\* every number of receivers, with separate and with unified control.
THEOREM TuningEndsAtTheLimit == Spec => []TunedToTheLimit
<1>1. IInv => TunedToTheLimit
  <2> SUFFICES ASSUME IInv, cfg.tune, Tunable, hwc.state = "IQ_CAL", ~hwc.noise, NoGainAsked
               PROVE  hwc.gains = BestGains
    BY DEF TunedToTheLimit, NoGainAsked
  <2>1. BestKept(hwc)
    BY DEF IInv, Progress
  <2> QED
    BY <2>1 DEF BestKept
<1> QED
  BY Invariance, <1>1, PTL
=============================================================================
