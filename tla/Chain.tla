------------------------------- MODULE Chain -------------------------------
(***************************************************************************)
(* The processes that daq_start_sm.sh starts behind rtl_daq, from the      *)
(* opening of their interfaces to their end.                               *)
(*                                                                         *)
(*   rebuffer --> decimator --> delay_sync --+--> iq_server --> client     *)
(*                                           +--> hw_controller            *)
(*                                                                         *)
(* A link is a shared memory interface, described by what ShmemTransfer    *)
(* shows to matter: how many buffers are free at the source, announced and *)
(* handed back, and which ends of its FIFOs are open.  rebuffer waits for  *)
(* a buffer, the others drop the frame.                                    *)
(*                                                                         *)
(* Opening a FIFO waits for the other end, so the interfaces are opened in *)
(* step; delay_sync alone opens its backward FIFOs without waiting.  A     *)
(* process that ends closes its ends: whoever reads from it gets           *)
(* end-of-file, whoever writes to it gets SIGPIPE (the C programs) or an   *)
(* exception in its main thread (the Python programs).  The exception ends *)
(* delay_sync; hw_controller is kept alive by the thread of its control    *)
(* interface, which stays in accept().                                     *)
(*                                                                         *)
(* delay_sync and hw_controller send commands to rtl_daq and wait for the  *)
(* answer without a timeout.                                               *)
(***************************************************************************)
EXTENDS Integers, Sequences, FiniteSets

CONSTANTS
    Killable,       \* processes that may be killed once the chain is up
    MaxIncidents    \* bound: how many kills, resets and ends of the input there are

Procs == {"rebuffer", "decimator", "delay_sync", "iq_server", "hw_controller"}
Links == {"decimator_in", "decimator_out", "delay_sync_iq", "delay_sync_hwc"}

ASSUME ChainAssumption ==
    /\ Killable \subseteq Procs
    /\ MaxIncidents \in Nat

Source(l) == CASE l = "decimator_in" -> "rebuffer"
               [] l = "decimator_out" -> "decimator"
               [] OTHER -> "delay_sync"

Sink(l) == CASE l = "decimator_in" -> "decimator"
             [] l = "decimator_out" -> "delay_sync"
             [] l = "delay_sync_iq" -> "iq_server"
             [] l = "delay_sync_hwc" -> "hw_controller"

\* drop_mode
Drops(l) == l # "decimator_in"

\* The backward FIFO is opened O_NONBLOCK; sh_mem_util.c sets the flag later.
OpensNonblocking(l) == Source(l) = "delay_sync"

\* Opening both FIFOs of an interface and passing INIT_READY.
Opening(l) == <<<<"fw", l>>, <<"bw", l>>, <<"INIT_READY", l>>>>

\* Mutant: the inputs are opened after the outputs.
StartupOutputsFirst == [p \in Procs |->
    CASE p = "rebuffer" -> Opening("decimator_in")
      [] p = "decimator" -> Opening("decimator_out") \o Opening("decimator_in")
      [] p = "delay_sync" -> Opening("delay_sync_iq") \o Opening("delay_sync_hwc")
                               \o Opening("decimator_out")
      [] p = "iq_server" -> Opening("delay_sync_iq")
      [] p = "hw_controller" -> <<<<"bw", "delay_sync_hwc">>, <<"fw", "delay_sync_hwc">>,
                                  <<"INIT_READY", "delay_sync_hwc">>>>]

\* What a process does before its main loop.
Startup == [p \in Procs |->
    CASE p = "rebuffer" -> Opening("decimator_in")
      [] p = "decimator" -> Opening("decimator_in") \o Opening("decimator_out")
      [] p = "delay_sync" -> Opening("decimator_out") \o Opening("delay_sync_iq")
                               \o Opening("delay_sync_hwc")
      [] p = "iq_server" -> Opening("delay_sync_iq")
      [] p = "hw_controller" -> Opening("delay_sync_hwc")]

VARIABLES
    opened,     \* how many steps of its Startup each process has done
    pc,         \* where each process stands after that
    link,       \* the interfaces
    got,        \* delay_sync: the outputs whose buffer is still to be announced
    errnoEAGAIN,\* decimator: errno still holds EAGAIN
    why         \* history: what has happened to the chain

vars == <<opened, pc, link, got, errnoEAGAIN, why>>

Init ==
    /\ opened = [p \in Procs |-> 0]
    /\ pc = [p \in Procs |-> CASE p = "rebuffer" -> "alloc"
                               [] p = "decimator" -> "setup"
                               [] p = "iq_server" -> "client"
                               [] OTHER -> "wait"]
    /\ link = [l \in Links |-> [srcOpen |-> TRUE, snkOpen |-> TRUE,
                                bwReader |-> FALSE, bwWriter |-> FALSE,
                                free |-> 2, fw |-> <<>>, bw |-> 0]]
    /\ got = {} /\ errnoEAGAIN = FALSE
    /\ why = {}

Running(p) == opened[p] = Len(Startup[p]) /\ pc[p] # "ended"
Started == \A p \in Procs : opened[p] = Len(Startup[p])
Ended == {p \in Procs : pc[p] = "ended"}

\* Bound: there are not too many incidents, and kills and resets happen to a
\* chain that is up.
MayHappen == Cardinality(why) < MaxIncidents
MayHappenLater == Started /\ MayHappen

-----------------------------------------------------------------------------
(* Start *)

\* p's next step of its Startup.
AtStep(p, step) ==
    /\ pc[p] # "ended"
    /\ opened[p] < Len(Startup[p]) /\ Startup[p][opened[p] + 1] = step

Opens(P) == opened' = [p \in Procs |-> IF p \in P THEN opened[p] + 1 ELSE opened[p]]

BothAtStep(l, what) == AtStep(Source(l), <<what, l>>) /\ AtStep(Sink(l), <<what, l>>)

\* Both fopens of the forward FIFO return when both have been called.
MeetsForward(l) == BothAtStep(l, "fw")
OpenForward(l) ==
    /\ MeetsForward(l)
    /\ Opens({Source(l), Sink(l)})
    /\ UNCHANGED <<pc, link, got, errnoEAGAIN, why>>

\* So do those of the backward FIFO, when the source waits for the sink.
MeetsBackward(l) == ~OpensNonblocking(l) /\ BothAtStep(l, "bw")
OpenBackward(l) ==
    /\ MeetsBackward(l)
    /\ Opens({Source(l), Sink(l)})
    /\ link' = [link EXCEPT ![l].bwReader = TRUE, ![l].bwWriter = TRUE]
    /\ UNCHANGED <<pc, got, errnoEAGAIN, why>>

\* O_NONBLOCK: the source's open returns, the sink's needs a reader.
ReaderMayOpen(l) == OpensNonblocking(l) /\ AtStep(Source(l), <<"bw", l>>)
OpenBackwardReader(l) ==
    /\ ReaderMayOpen(l)
    /\ Opens({Source(l)})
    /\ link' = [link EXCEPT ![l].bwReader = TRUE]
    /\ UNCHANGED <<pc, got, errnoEAGAIN, why>>

WriterMayOpen(l) ==
    /\ OpensNonblocking(l)
    /\ AtStep(Sink(l), <<"bw", l>>)
    /\ link[l].bwReader /\ link[l].srcOpen
OpenBackwardWriter(l) ==
    /\ WriterMayOpen(l)
    /\ Opens({Sink(l)})
    /\ link' = [link EXCEPT ![l].bwWriter = TRUE]
    /\ UNCHANGED <<pc, got, errnoEAGAIN, why>>

MaySendReady(l) == AtStep(Source(l), <<"INIT_READY", l>>)
SendInitReady(l) ==
    /\ MaySendReady(l)
    /\ Opens({Source(l)})
    /\ link' = [link EXCEPT ![l].fw = Append(@, "INIT_READY")]
    /\ UNCHANGED <<pc, got, errnoEAGAIN, why>>

\* The sink maps the memories the source has made.
ReadyAnnounced(l) == link[l].fw # <<>> /\ Head(link[l].fw) = "INIT_READY"
MayTakeReady(l) == AtStep(Sink(l), <<"INIT_READY", l>>) /\ ReadyAnnounced(l)
WaitInitReady(l) ==
    /\ MayTakeReady(l)
    /\ Opens({Sink(l)})
    /\ link' = [link EXCEPT ![l].fw = Tail(@)]
    /\ UNCHANGED <<pc, got, errnoEAGAIN, why>>

StartupStep ==
    \E l \in Links : \/ OpenForward(l) \/ OpenBackward(l) \/ OpenBackwardReader(l)
                     \/ OpenBackwardWriter(l) \/ SendInitReady(l) \/ WaitInitReady(l)

-----------------------------------------------------------------------------
(* The interface, as one end sees it.  P is the process at this end, s the  *)
(* place it goes on from.                                                   *)

At(p, s) == Running(p) /\ pc[p] = s
Goes(p, s) == pc' = [pc EXCEPT ![p] = s]

\* The process ends and the kernel closes its FIFOs.
CloseEnds(p) ==
    [l \in Links |-> [link[l] EXCEPT !.srcOpen = @ /\ Source(l) # p,
                                     !.snkOpen = @ /\ Sink(l) # p]]
Ends(p) == Goes(p, "ended") /\ link' = CloseEnds(p)

\* wait_buff_free finds or reads a free buffer.
AllocSucceeds(l, s) ==
    /\ Goes(Source(l), s)
    /\ \/ link[l].free > 0 /\ UNCHANGED link
       \/ /\ link[l].free = 0 /\ link[l].bw > 0
          /\ link' = [link EXCEPT ![l].free = 1, ![l].bw = @ - 1]

NoneFree(l) == link[l].free = 0 /\ link[l].bw = 0
HasWriter(l) == link[l].snkOpen /\ link[l].bwWriter

\* It finds none: the frame is dropped.
AllocDrops(l, s) ==
    /\ NoneFree(l) /\ HasWriter(l) /\ Drops(l)
    /\ Goes(Source(l), s)
    /\ UNCHANGED link

\* There is nobody to hand one back.
AllocAtEof(l) == NoneFree(l) /\ ~HasWriter(l)

\* A write to the forward FIFO.
Announce(l, what, s) ==
    \/ /\ link[l].snkOpen
       /\ Goes(Source(l), s)
       /\ link' = [link EXCEPT ![l].fw = Append(@, what),
                               ![l].free = IF what = "frame" THEN @ - 1 ELSE @]
    \/ ~link[l].snkOpen /\ Ends(Source(l))

\* A command's answer arrives: rtl_daq takes commands under the mutex it holds while
\* it writes to rebuffer, and it is gone soon after rebuffer is.
Answered ==
    /\ "input ended" \notin why
    /\ \/ pc["rebuffer"] = "send"
       \/ pc["rebuffer"] = "alloc" /\ ~NoneFree("decimator_in")

\* wait_buff_ready returns a signal.
Take(l, what, s) ==
    /\ link[l].fw # <<>> /\ Head(link[l].fw) = what
    /\ Goes(Sink(l), s)
    /\ link' = [link EXCEPT ![l].fw = Tail(@)]

DrainedAndClosed(l) == link[l].fw = <<>> /\ ~link[l].srcOpen

\* A write to the backward FIFO.
HandBack(l, s) ==
    \/ /\ link[l].srcOpen
       /\ Goes(Sink(l), s)
       /\ link' = [link EXCEPT ![l].bw = @ + 1]
    \/ ~link[l].srcOpen /\ Ends(Sink(l))

-----------------------------------------------------------------------------
(* rebuffer *)

\* rtl_daq has ended, or never got as far as its main loop: feof of stdin.
InputEnds ==
    /\ At("rebuffer", "alloc") /\ MayHappen
    /\ Goes("rebuffer", "end")
    /\ why' = why \cup {"input ended"}
    /\ UNCHANGED <<opened, link, got, errnoEAGAIN>>

\* A frame has been gathered; a decimator that is gone ends the loop.
RebufferFrame ==
    /\ UNCHANGED why
    /\ \/ At("rebuffer", "alloc") /\ AllocSucceeds("decimator_in", "send")
       \/ /\ At("rebuffer", "alloc") /\ AllocAtEof("decimator_in")
          /\ Goes("rebuffer", "end") /\ UNCHANGED link
       \/ At("rebuffer", "send") /\ Announce("decimator_in", "frame", "alloc")

\* TERMINATE, sleep(3), destory_sm_buffer.
RebufferEnd ==
    /\ UNCHANGED why
    /\ \/ At("rebuffer", "end") /\ Announce("decimator_in", "TERMINATE", "linger")
       \/ At("rebuffer", "linger") /\ Ends("rebuffer")

RebufferStep ==
    /\ RebufferFrame \/ RebufferEnd
    /\ UNCHANGED <<opened, got, errnoEAGAIN>>

-----------------------------------------------------------------------------
(* decimator *)

\* The filter is set up, between the interfaces and the main loop.
DecimatorSetup ==
    /\ At("decimator", "setup")
    /\ Goes("decimator", "wait")
    /\ UNCHANGED <<link, errnoEAGAIN>>

\* A file of coefficients that is not there or of the wrong length.
FilterSetupFails ==
    /\ At("decimator", "setup") /\ MayHappen
    /\ Ends("decimator")
    /\ why' = why \cup {"setup failed"}
    /\ UNCHANGED <<opened, got, errnoEAGAIN>>

DecimatorTake ==
    /\ At("decimator", "wait")
    /\ \/ Take("decimator_in", "frame", "alloc")
       \/ Take("decimator_in", "TERMINATE", "end")
       \/ DrainedAndClosed("decimator_in") /\ Goes("decimator", "end") /\ UNCHANGED link
    /\ UNCHANGED errnoEAGAIN

\* Mutant: a full interface is taken for a closed one.
DecimatorAllocGivesUp ==
    /\ At("decimator", "alloc")
    /\ \/ AllocSucceeds("decimator_out", "send") /\ UNCHANGED errnoEAGAIN
       \/ AllocDrops("decimator_out", "last free") /\ errnoEAGAIN' = TRUE
       \/ /\ AllocAtEof("decimator_out")
          /\ Goes("decimator", IF errnoEAGAIN THEN "free" ELSE "last free")
          /\ UNCHANGED <<link, errnoEAGAIN>>

\* At end-of-file a stale EAGAIN makes wait_buff_free report a drop.
DecimatorAlloc ==
    /\ At("decimator", "alloc")
    /\ \/ AllocSucceeds("decimator_out", "send") /\ UNCHANGED errnoEAGAIN
       \/ AllocDrops("decimator_out", "free") /\ errnoEAGAIN' = TRUE
       \/ /\ AllocAtEof("decimator_out")
          /\ Goes("decimator", IF errnoEAGAIN THEN "free" ELSE "last free")
          /\ UNCHANGED <<link, errnoEAGAIN>>

\* The output is announced, the input handed back.
DecimatorSend ==
    /\ UNCHANGED errnoEAGAIN
    /\ \/ At("decimator", "send") /\ Announce("decimator_out", "frame", "free")
       \/ At("decimator", "free") /\ HandBack("decimator_in", "wait")
       \/ At("decimator", "last free") /\ HandBack("decimator_in", "end")

\* TERMINATE, sleep(3), both interfaces destroyed.
DecimatorEnd ==
    /\ UNCHANGED errnoEAGAIN
    /\ \/ At("decimator", "end") /\ Announce("decimator_out", "TERMINATE", "linger")
       \/ At("decimator", "linger") /\ Ends("decimator")

DecimatorStep ==
    /\ DecimatorSetup \/ DecimatorTake \/ DecimatorAlloc \/ DecimatorSend \/ DecimatorEnd
    /\ UNCHANGED <<opened, got, why>>

-----------------------------------------------------------------------------
(* delay_sync *)

DelaySyncTake ==
    /\ At("delay_sync", "wait")
    /\ \/ Take("decimator_out", "frame", "alloc iq")
       \/ Take("decimator_out", "TERMINATE", "close in")
       \/ DrainedAndClosed("decimator_out") /\ Ends("delay_sync")
    /\ UNCHANGED <<got, why>>

\* Mutant: the IQ server is waited for.
DelaySyncAllocWaits(l, from, to) ==
    /\ At("delay_sync", from)
    /\ \/ AllocSucceeds(l, to) /\ got' = got \cup {l} /\ UNCHANGED why
       \/ l = "delay_sync_hwc" /\ AllocDrops(l, to) /\ UNCHANGED <<got, why>>
       \/ /\ AllocAtEof(l)
          /\ Ends("delay_sync")
          /\ why' = IF link[l].bwWriter THEN why ELSE why \cup {"late open"}
          /\ UNCHANGED got

\* A read at end-of-file raises, be it that the sink has ended or that it has
\* not opened the FIFO yet.
DelaySyncAlloc(l, from, to) ==
    /\ At("delay_sync", from)
    /\ \/ AllocSucceeds(l, to) /\ got' = got \cup {l} /\ UNCHANGED why
       \/ AllocDrops(l, to) /\ UNCHANGED <<got, why>>
       \/ /\ AllocAtEof(l)
          /\ Ends("delay_sync")
          /\ why' = IF link[l].bwWriter THEN why ELSE why \cup {"late open"}
          /\ UNCHANGED got

DelaySyncAnnounce(l, from, to) ==
    /\ At("delay_sync", from)
    /\ \/ l \in got /\ Announce(l, "frame", to)
       \/ l \notin got /\ Goes("delay_sync", to) /\ UNCHANGED link
    /\ got' = got \ {l}
    /\ UNCHANGED why

\* A tuning command to rtl_daq, sent in some iterations: zmq's send and recv.  One that
\* is answered at once leaves no trace here.
DelaySyncAsk ==
    /\ At("delay_sync", "send iq") /\ ~Answered
    /\ Goes("delay_sync", "asks")
    /\ UNCHANGED <<link, got, why>>

DelaySyncHandBack ==
    /\ At("delay_sync", "free")
    /\ HandBack("decimator_out", "wait")
    /\ UNCHANGED <<got, why>>

\* Mutant: nobody is told.
DelaySyncCloseSilent ==
    /\ At("delay_sync", "close in")
    /\ Goes("delay_sync", "linger")
    /\ UNCHANGED <<link, got, why>>

\* close_interfaces: input, IQ server, hw_controller, with sleep(2) in between.
DelaySyncClose ==
    /\ \/ /\ At("delay_sync", "close in")
          /\ Goes("delay_sync", "end iq")
          /\ link' = [link EXCEPT !["decimator_out"].snkOpen = FALSE]
       \/ At("delay_sync", "end iq") /\ Announce("delay_sync_iq", "TERMINATE", "close iq")
       \/ /\ At("delay_sync", "close iq")
          /\ Goes("delay_sync", "end hwc")
          /\ link' = [link EXCEPT !["delay_sync_iq"].srcOpen = FALSE]
       \/ At("delay_sync", "end hwc") /\ Announce("delay_sync_hwc", "TERMINATE", "linger")
       \/ At("delay_sync", "linger") /\ Ends("delay_sync")
    /\ UNCHANGED <<got, why>>

DelaySyncStep ==
    /\ \/ DelaySyncTake
       \/ DelaySyncAlloc("delay_sync_iq", "alloc iq", "alloc hwc")
       \/ DelaySyncAlloc("delay_sync_hwc", "alloc hwc", "send iq")
       \/ DelaySyncAsk
       \/ DelaySyncAnnounce("delay_sync_iq", "send iq", "send hwc")
       \/ Answered /\ DelaySyncAnnounce("delay_sync_iq", "asks", "send hwc")
       \/ DelaySyncAnnounce("delay_sync_hwc", "send hwc", "free")
       \/ DelaySyncHandBack \/ DelaySyncClose
    /\ UNCHANGED <<opened, errnoEAGAIN>>

-----------------------------------------------------------------------------
(* iq_server *)

\* "client" stands for the recv after a transfer and for iq_stream_con, between
\* which a client that hangs up makes the difference.  The result of
\* iq_stream_con is not looked at: the server goes on with or without a client.
IqServerClient ==
    /\ At("iq_server", "client")
    /\ Goes("iq_server", "wait")
    /\ UNCHANGED <<link, why>>

\* TERMINATE is not told from a buffer index: what shm_ptr[255] yields either
\* crashes or fails the sync word check.
IqServerTake ==
    /\ At("iq_server", "wait")
    /\ \/ Take("delay_sync_iq", "frame", "send")
       \/ Take("delay_sync_iq", "TERMINATE", "client")
       \/ /\ link["delay_sync_iq"].fw # <<>>
          /\ Head(link["delay_sync_iq"].fw) = "TERMINATE"
          /\ Ends("iq_server")
       \/ DrainedAndClosed("delay_sync_iq") /\ Goes("iq_server", "client") /\ UNCHANGED link
    /\ UNCHANGED why

\* send_iq_frame: the client reads it or has hung up, or its reset has arrived
\* and SIGPIPE ends the server.
IqServerSend ==
    /\ At("iq_server", "send")
    /\ \/ Goes("iq_server", "free") /\ UNCHANGED <<link, why>>
       \/ MayHappenLater /\ Ends("iq_server") /\ why' = why \cup {"client reset"}

\* Mutant: the buffer is not handed back when the transfer has failed.
IqServerHandBackOnSuccess ==
    /\ At("iq_server", "free")
    /\ \/ HandBack("delay_sync_iq", "client")
       \/ Goes("iq_server", "client") /\ UNCHANGED link
    /\ UNCHANGED why

\* Whether or not the transfer succeeded.
IqServerHandBack ==
    /\ At("iq_server", "free")
    /\ HandBack("delay_sync_iq", "client")
    /\ UNCHANGED why

\* The steps that wait for the chain, and those that wait for a client.
IqServerStep ==
    /\ IqServerTake \/ IqServerHandBack
    /\ UNCHANGED <<opened, got, errnoEAGAIN>>

ClientStep ==
    /\ IqServerClient \/ IqServerSend
    /\ UNCHANGED <<opened, got, errnoEAGAIN>>

-----------------------------------------------------------------------------
(* hw_controller *)

\* TERMINATE ends the main loop and close() the interface, end-of-file the main thread;
\* the process goes on "serving" the clients of its control interface.
HwcTake ==
    /\ At("hw_controller", "wait")
    /\ \/ Take("delay_sync_hwc", "frame", "hold")
       \/ /\ link["delay_sync_hwc"].fw # <<>>
          /\ Head(link["delay_sync_hwc"].fw) = "TERMINATE"
          /\ Goes("hw_controller", "serving") /\ link' = CloseEnds("hw_controller")
       \/ /\ DrainedAndClosed("delay_sync_hwc")
          /\ Goes("hw_controller", "serving") /\ UNCHANGED link

\* A command to rtl_daq, as in DelaySyncAsk.
HwcAsk ==
    /\ At("hw_controller", "hold") /\ ~Answered
    /\ Goes("hw_controller", "asks")
    /\ UNCHANGED link

\* Without delay_sync the write raises: the main thread dies with the buffer.
HwcHandBack ==
    /\ \/ At("hw_controller", "hold")
       \/ At("hw_controller", "asks") /\ Answered
    /\ \/ /\ link["delay_sync_hwc"].srcOpen
          /\ HandBack("delay_sync_hwc", "wait")
       \/ /\ ~link["delay_sync_hwc"].srcOpen
          /\ Goes("hw_controller", "crashed") /\ UNCHANGED link

HwcStep ==
    /\ HwcTake \/ HwcAsk \/ HwcHandBack
    /\ UNCHANGED <<opened, got, errnoEAGAIN, why>>

-----------------------------------------------------------------------------
\* A process that cannot load its configuration ends before it opens anything;
\* its neighbours stay in fopen.
StartFails(p) ==
    /\ MayHappen
    /\ opened[p] = 0 /\ pc[p] # "ended"
    /\ Ends(p)
    /\ why' = why \cup {"start failed"}
    /\ UNCHANGED <<opened, got, errnoEAGAIN>>

\* daq_stop.sh, or an operator.
Kill(p) ==
    /\ MayHappenLater /\ p \in Killable \ Ended
    /\ Ends(p)
    /\ why' = why \cup {"killed"}
    /\ UNCHANGED <<opened, got, errnoEAGAIN>>

Next ==
    \/ StartupStep \/ InputEnds \/ RebufferStep \/ DecimatorStep \/ DelaySyncStep
    \/ IqServerStep \/ ClientStep \/ HwcStep
    \/ FilterSetupFails
    \/ \E p \in Procs : StartFails(p) \/ Kill(p)

Spec == Init /\ [][Next]_vars

\* rtl_daq delivers unless it has ended, and every process is scheduled.  An answer is
\* not put off for ever while rtl_daq gives its mutex up again and again.  A client
\* owes nothing: it may neither read nor hang up.
FairSpec ==
    /\ Spec
    /\ WF_vars(StartupStep) /\ WF_vars(RebufferStep) /\ WF_vars(DecimatorStep)
    /\ SF_vars(DelaySyncStep) /\ WF_vars(IqServerStep) /\ SF_vars(HwcStep)

-----------------------------------------------------------------------------
(* Safety *)

\* The places at which the sink of a link has one of its buffers.
InUse(l) == CASE l = "decimator_in" -> {"alloc", "send", "free", "last free"}
              [] l = "decimator_out" -> {"alloc iq", "alloc hwc", "send iq", "asks", "send hwc", "free"}
              [] l = "delay_sync_iq" -> {"send", "free"}
              [] l = "delay_sync_hwc" -> {"hold", "asks", "crashed"}

\* Where the two buffers of a link are: free at the source, announced, with the
\* sink or on their way back.
Held(l) == IF pc[Sink(l)] \in InUse(l) THEN 1 ELSE 0
Frames(q) == Cardinality({i \in DOMAIN q : q[i] = "frame"})
Announced(l) == Frames(link[l].fw)

\* Both buffers of every link are accounted for while its sink runs: the chain
\* never slows down to one buffer or none, whatever a client does.
BuffersKept ==
    \A l \in Links : link[l].snkOpen =>
        link[l].free + Announced(l) + Held(l) + link[l].bw = 2

\* A chain that nobody touches does not come to an end: nothing ends unless a
\* process was killed, the input ended, a client's connection was reset, or a
\* sink opened its backward FIFO later than two frames after its forward FIFO.
EndsForAReason == Ended # {} => why # {}

\* Some call of a start can return: StartupStep is enabled.
SomebodyGoesOn ==
    \E l \in Links : \/ MeetsForward(l) \/ MeetsBackward(l) \/ ReaderMayOpen(l)
                     \/ WriterMayOpen(l) \/ MaySendReady(l) \/ MayTakeReady(l)

\* The FIFOs are opened in an order in which nobody waits for ever: until the
\* chain is up somebody can go on opening.
ChainStarts == Started \/ why # {} \/ SomebodyGoesOn

-----------------------------------------------------------------------------
(* The inductive invariant behind them *)

Place == {"setup", "client", "wait", "alloc", "alloc iq", "alloc hwc", "send", "send iq",
          "send hwc", "free", "last free", "hold", "asks", "serving", "crashed", "end",
          "end iq", "end hwc", "close in", "close iq", "linger", "ended"}
Interface ==
    [srcOpen : BOOLEAN, snkOpen : BOOLEAN, bwReader : BOOLEAN, bwWriter : BOOLEAN,
     free : 0 .. 2, fw : Seq({"INIT_READY", "frame", "TERMINATE"}), bw : Nat]
TypeOK ==
    /\ opened \in [Procs -> Nat] /\ pc \in [Procs -> Place]
    /\ link \in [Links -> Interface]
    /\ got \subseteq {"delay_sync_iq", "delay_sync_hwc"}

\* A source that is about to announce a buffer has one.
Reserved ==
    /\ pc["rebuffer"] = "send" => link["decimator_in"].free > 0
    /\ pc["decimator"] = "send" => link["decimator_out"].free > 0
    /\ \A l \in got : link[l].free > 0

\* While nothing has happened to the chain, no process is about to end, nothing is
\* closed and nobody has been told to end, and a C program that is up has somebody
\* to hand its buffers back.
Undisturbed ==
    /\ pc["rebuffer"] \in {"alloc", "send"}
    /\ pc["decimator"] \in {"setup", "wait", "alloc", "send", "free"}
    /\ pc["delay_sync"] \in {"wait", "alloc iq", "alloc hwc", "send iq", "asks", "send hwc", "free"}
    /\ pc["iq_server"] \in {"client", "wait", "send", "free"}
    /\ pc["hw_controller"] \in {"wait", "hold", "asks"}
    /\ \A l \in Links : /\ link[l].srcOpen /\ link[l].snkOpen
                        /\ \A i \in DOMAIN link[l].fw : link[l].fw[i] # "TERMINATE"
    /\ opened["rebuffer"] >= 2 => link["decimator_in"].bwWriter
    /\ opened["decimator"] >= 5 => link["decimator_out"].bwWriter

\* The steps a source has to do before those at the interface l.  Every sink begins
\* with the interface it reads.
StepsBefore(l) == CASE l = "decimator_in" -> 0
                    [] l \in {"decimator_out", "delay_sync_iq"} -> 3
                    [] l = "delay_sync_hwc" -> 6

\* The two ends of the interface l keep step, src and snk being how far they are.
OnPace(l, src, snk, reader, fw) ==
    /\ src >= 1 <=> snk >= 1
    /\ src >= 2 <=> reader
    /\ snk >= 2 => src >= 2
    /\ ~OpensNonblocking(l) /\ src >= 2 => snk >= 2
    /\ snk >= 3 => src >= 3
    /\ src < 3 => fw = <<>>
    /\ src >= 3 /\ snk < 3 => fw # <<>> /\ Head(fw) = "INIT_READY"

InStep ==
    /\ \A p \in Procs : opened[p] <= Len(Startup[p])
    /\ \A l \in Links : OnPace(l, opened[Source(l)] - StepsBefore(l), opened[Sink(l)],
                               link[l].bwReader, link[l].fw)

IInv == TypeOK /\ Reserved /\ BuffersKept /\ InStep /\ (why = {} => Undisturbed)

-----------------------------------------------------------------------------
(* Liveness *)

\* The hardware controller gets frames as long as nothing ends, whether or not
\* there is a client and whatever it does.
AcquisitionGoesOn == <>(Ended # {}) \/ []<>(pc["hw_controller"] = "hold")

\* delay_sync is gone, and the decimator takes that for a full interface.
DropsForever ==
    errnoEAGAIN /\ AllocAtEof("decimator_out") /\ "delay_sync" \in Ended

\* The main loop of p is over, or waits for an answer that rtl_daq no longer gives.
Over(p) == pc[p] \in {"ended", "serving", "crashed"}
LeftWaiting(p) == pc[p] = "asks" /\ ~Answered

\* When one process of a chain ends, the C programs end too, once the rest of the chain
\* is up, and then delay_sync ends, with it the main loop of the hardware controller.
\* The exceptions: rtl_daq may be gone before it has answered, and whoever has asked
\* it stays where it is; a decimator with a stale errno goes on dropping every frame.
\* The IQ server has no way to end, the hardware controller's process none either.
EndSpreads ==
    (Ended # {} /\ \A p \in Procs \ Ended : opened[p] = Len(Startup[p]))
        ~> \/ /\ {"rebuffer", "decimator"} \subseteq Ended
              /\ \/ LeftWaiting("delay_sync")
                 \/ Over("delay_sync") /\ (Over("hw_controller") \/ LeftWaiting("hw_controller"))
           \/ DropsForever
=============================================================================
