---------------------------- MODULE Chain_proofs ----------------------------
(***************************************************************************)
(* Machine-checked proofs about the chain of processes, whichever of them  *)
(* may be killed and however many incidents there are.                     *)
(***************************************************************************)
EXTENDS Chain, QueueLemmas

Signal == {"INIT_READY", "frame", "TERMINATE"}

\* A move of p to s neither takes nor gives back a buffer.
Steady(p, s) == \A l \in Links : Sink(l) = p => (s \in InUse(l) <=> pc[p] \in InUse(l))

\* Both buffers of the one link l are accounted for.
KeptOn(l) ==
    link[l].snkOpen => link[l].free + Announced(l) + Held(l) + link[l].bw = 2

LEMMA KeptOnAll == BuffersKept <=> \A l \in Links : KeptOn(l)
BY DEF BuffersKept, KeptOn

-----------------------------------------------------------------------------
(* The links and their signals *)

LEMMA LinkEnds ==
    /\ \A l \in Links : Source(l) \in Procs /\ Sink(l) \in Procs /\ Source(l) # Sink(l)
    /\ \A k, l \in Links : Sink(k) = Sink(l) => k = l
    /\ Source("decimator_in") = "rebuffer" /\ Source("decimator_out") = "decimator"
    /\ Source("delay_sync_iq") = "delay_sync" /\ Source("delay_sync_hwc") = "delay_sync"
    /\ Sink("decimator_in") = "decimator" /\ Sink("decimator_out") = "delay_sync"
    /\ Sink("delay_sync_iq") = "iq_server" /\ Sink("delay_sync_hwc") = "hw_controller"
BY DEF Links, Procs, Source, Sink

LEMMA FramesCount ==
    ASSUME NEW q \in Seq(Signal)
    PROVE  /\ Frames(q) \in Nat
           /\ \A y \in Signal : Frames(Append(q, y)) = Frames(q) + (IF y = "frame" THEN 1 ELSE 0)
           /\ q # <<>> => Frames(q) = Frames(Tail(q)) + (IF Head(q) = "frame" THEN 1 ELSE 0)
<1>1. \A r : Frames(r) = Cardinality(Occurrences(r, "frame"))
  BY DEF Frames, Occurrences
<1>2. Frames(q) \in Nat
  BY <1>1, OccurrencesFinite
<1>3. ASSUME NEW y \in Signal
      PROVE  Frames(Append(q, y)) = Frames(q) + (IF y = "frame" THEN 1 ELSE 0)
  BY <1>1, OccurrencesAppend
<1>4. ASSUME q # <<>>
      PROVE  Frames(q) = Frames(Tail(q)) + (IF Head(q) = "frame" THEN 1 ELSE 0)
  BY <1>1, <1>4, OccurrencesTail
<1> QED
  BY <1>2, <1>3, <1>4

LEMMA LinkTypes ==
    ASSUME TypeOK, NEW l \in Links
    PROVE  /\ link[l] \in Interface
           /\ link[l].free \in 0 .. 2 /\ link[l].bw \in Nat /\ link[l].fw \in Seq(Signal)
           /\ link[l].srcOpen \in BOOLEAN /\ link[l].snkOpen \in BOOLEAN
           /\ Announced(l) \in Nat /\ Held(l) \in Nat
<1>1. link[l] \in Interface
  BY DEF TypeOK
<1>2. /\ link[l].free \in 0 .. 2 /\ link[l].bw \in Nat /\ link[l].fw \in Seq(Signal)
      /\ link[l].srcOpen \in BOOLEAN /\ link[l].snkOpen \in BOOLEAN
  BY <1>1 DEF Interface, Signal
<1>3. Announced(l) \in Nat
  BY <1>2, FramesCount DEF Announced
<1>4. Held(l) \in Nat
  BY DEF Held
<1> QED
  BY <1>1, <1>2, <1>3, <1>4

-----------------------------------------------------------------------------
(* The uses of an interface keep its account. *)

\* A link whose buffers did not move.
LEMMA Untouched ==
    ASSUME NEW l, KeptOn(l),
           link'[l].snkOpen =>
              /\ link[l].snkOpen
              /\ link'[l].free = link[l].free /\ link'[l].bw = link[l].bw
              /\ link'[l].fw = link[l].fw
              /\ pc'[Sink(l)] \in InUse(l) <=> pc[Sink(l)] \in InUse(l)
    PROVE  KeptOn(l)'
BY DEF KeptOn, Announced, Held

\* A process has closed its ends of the FIFOs; every buffer is where it was.
LEMMA CloseKeeps ==
    ASSUME TypeOK, BuffersKept, NEW p \in Procs, NEW s \in Place, Goes(p, s),
           link' = CloseEnds(p)
    PROVE  /\ pc' \in [Procs -> Place] /\ link' \in [Links -> Interface] /\ BuffersKept'
           /\ pc'[p] = s /\ \A q \in Procs \ {p} : pc'[q] = pc[q]
           /\ \A l \in Links : link'[l].free = link[l].free
<1>1. pc' = [pc EXCEPT ![p] = s] /\ link' = CloseEnds(p)
  BY DEF Goes
<1>2. pc \in [Procs -> Place] /\ link \in [Links -> Interface]
  BY DEF TypeOK
<1>3. /\ pc' \in [Procs -> Place] /\ pc'[p] = s
      /\ \A q \in Procs \ {p} : pc'[q] = pc[q]
  BY <1>1, <1>2
<1>4. ASSUME NEW l \in Links
      PROVE  /\ link'[l] = [link[l] EXCEPT !.srcOpen = @ /\ Source(l) # p,
                                           !.snkOpen = @ /\ Sink(l) # p]
             /\ link'[l] \in Interface
  <2>1. link'[l] = [link[l] EXCEPT !.srcOpen = @ /\ Source(l) # p,
                                   !.snkOpen = @ /\ Sink(l) # p]
    BY <1>1 DEF CloseEnds
  <2>2. link[l] \in Interface
    BY <1>2
  <2> QED
    BY <2>1, <2>2 DEF Interface
<1>5. link' \in [Links -> Interface]
  <2>1. link' = [l \in Links |-> link'[l]]
    BY <1>1 DEF CloseEnds
  <2> QED
    BY <1>4, <2>1
<1>6. ASSUME NEW l \in Links
      PROVE  /\ link'[l].free = link[l].free /\ link'[l].bw = link[l].bw
             /\ link'[l].fw = link[l].fw
             /\ link'[l].snkOpen <=> link[l].snkOpen /\ Sink(l) # p
  <2>1. link[l] \in Interface
    BY <1>2
  <2> QED
    BY <1>4, <2>1 DEF Interface
<1>7. ASSUME NEW l \in Links PROVE KeptOn(l)'
  <2>1. KeptOn(l) /\ Sink(l) \in Procs
    BY KeptOnAll, LinkEnds
  <2>2. link'[l].snkOpen => pc'[Sink(l)] = pc[Sink(l)]
    BY <1>3, <1>6, <2>1
  <2> QED
    BY <1>6, <2>1, <2>2, Untouched
<1>8. BuffersKept'
  BY <1>7 DEF BuffersKept, KeptOn
<1> QED
  BY <1>3, <1>5, <1>6, <1>8

LEMMA EndsKeeps ==
    ASSUME TypeOK, BuffersKept, NEW p \in Procs, Ends(p)
    PROVE  /\ pc' \in [Procs -> Place] /\ link' \in [Links -> Interface] /\ BuffersKept'
           /\ pc'[p] = "ended" /\ \A q \in Procs \ {p} : pc'[q] = pc[q]
           /\ \A l \in Links : link'[l].free = link[l].free
<1>1. "ended" \in Place
  BY DEF Place
<1> QED
  BY <1>1, CloseKeeps DEF Ends

\* A move of p that leaves the links alone.
LEMMA GoesKeeps ==
    ASSUME TypeOK, BuffersKept, NEW p \in Procs, NEW s \in Place, Goes(p, s),
           UNCHANGED link, Steady(p, s)
    PROVE  /\ pc' \in [Procs -> Place] /\ link' \in [Links -> Interface] /\ BuffersKept'
           /\ pc'[p] = s /\ \A q \in Procs \ {p} : pc'[q] = pc[q]
<1>1. pc' = [pc EXCEPT ![p] = s] /\ pc \in [Procs -> Place] /\ link \in [Links -> Interface]
  BY DEF Goes, TypeOK
<1>2. pc' \in [Procs -> Place] /\ pc'[p] = s /\ \A q \in Procs \ {p} : pc'[q] = pc[q]
  BY <1>1
<1>3. ASSUME NEW l \in Links PROVE KeptOn(l)'
  <2>1. KeptOn(l) /\ Sink(l) \in Procs
    BY KeptOnAll, LinkEnds
  <2>2. pc'[Sink(l)] \in InUse(l) <=> pc[Sink(l)] \in InUse(l)
    BY <1>2, <2>1 DEF Steady
  <2> QED
    BY <2>1, <2>2, Untouched
<1> QED
  BY <1>1, <1>2, <1>3 DEF BuffersKept, KeptOn
\* A move of p with which the interface l changes, and no other.
LEMMA OneLink ==
    ASSUME TypeOK, BuffersKept, NEW p \in Procs, NEW s \in Place, NEW l \in Links,
           Goes(p, s), link' \in [Links -> Interface], KeptOn(l)',
           \A k \in Links \ {l} : link'[k] = link[k],
           \A k \in Links \ {l} : Sink(k) = p => (s \in InUse(k) <=> pc[p] \in InUse(k))
    PROVE  /\ pc' \in [Procs -> Place] /\ BuffersKept'
           /\ pc'[p] = s /\ \A q \in Procs \ {p} : pc'[q] = pc[q]
<1>1. pc' = [pc EXCEPT ![p] = s] /\ pc \in [Procs -> Place]
  BY DEF Goes, TypeOK
<1>2. pc' \in [Procs -> Place] /\ pc'[p] = s /\ \A q \in Procs \ {p} : pc'[q] = pc[q]
  BY <1>1
<1>3. ASSUME NEW k \in Links PROVE KeptOn(k)'
  <2>1. CASE k = l
    BY <2>1
  <2>2. CASE k # l
    <3>1. KeptOn(k) /\ Sink(k) \in Procs /\ link'[k] = link[k]
      BY <2>2, KeptOnAll, LinkEnds
    <3>2. pc'[Sink(k)] \in InUse(k) <=> pc[Sink(k)] \in InUse(k)
      BY <1>2, <2>2, <3>1
    <3> QED
      BY <3>1, <3>2, Untouched
  <2> QED
    BY <2>1, <2>2
<1> QED
  BY <1>2, <1>3 DEF BuffersKept, KeptOn

\* wait_buff_free: the source has a free buffer then.
LEMMA AllocKeeps ==
    ASSUME TypeOK, BuffersKept, NEW l \in Links, NEW s \in Place, AllocSucceeds(l, s),
           Steady(Source(l), s)
    PROVE  /\ pc' \in [Procs -> Place] /\ link' \in [Links -> Interface] /\ BuffersKept'
           /\ pc'[Source(l)] = s /\ \A q \in Procs \ {Source(l)} : pc'[q] = pc[q]
           /\ link'[l].free > 0 /\ \A k \in Links \ {l} : link'[k] = link[k]
<1>1. Source(l) \in Procs /\ Source(l) # Sink(l) /\ Sink(l) \in Procs
  BY LinkEnds
<1>2. Goes(Source(l), s)
  BY DEF AllocSucceeds
<1>3. CASE link[l].free > 0 /\ UNCHANGED link
  BY <1>1, <1>2, <1>3, GoesKeeps
<1>4. CASE /\ link[l].free = 0 /\ link[l].bw > 0
           /\ link' = [link EXCEPT ![l].free = 1, ![l].bw = @ - 1]
  <2>1. link \in [Links -> Interface] /\ link[l] \in Interface
    BY DEF TypeOK
  <2>2. /\ link'[l] = [link[l] EXCEPT !.free = 1, !.bw = link[l].bw - 1]
        /\ \A k \in Links \ {l} : link'[k] = link[k]
    BY <1>4, <2>1
  <2>3. link[l].bw - 1 \in Nat /\ 1 \in 0 .. 2
    BY <1>4, <2>1 DEF Interface
  <2>4. link'[l] \in Interface
    BY <2>1, <2>2, <2>3 DEF Interface
  <2>5. link' \in [Links -> Interface]
    BY <1>4, <2>1, <2>2, <2>4
  <2>6. /\ link'[l].free = 1 /\ link'[l].bw = link[l].bw - 1
        /\ link'[l].fw = link[l].fw /\ link'[l].snkOpen = link[l].snkOpen
    BY <2>1, <2>2 DEF Interface
  <2>7. pc'[Sink(l)] = pc[Sink(l)]
    BY <1>1, <1>2 DEF Goes, TypeOK
  <2>8. KeptOn(l)'
    <3>1. KeptOn(l) /\ Announced(l)' = Announced(l) /\ Held(l)' = Held(l)
      BY <2>6, <2>7, KeptOnAll DEF Announced, Held
    <3> QED
      BY <1>4, <2>6, <3>1, LinkTypes DEF KeptOn
  <2> QED
    BY <1>1, <1>2, <2>2, <2>5, <2>6, <2>8, OneLink DEF Steady
<1> QED
  BY <1>3, <1>4 DEF AllocSucceeds

\* send_ctr_buff_ready: a free buffer becomes an announced one.
LEMMA AnnounceKeeps ==
    ASSUME TypeOK, BuffersKept, NEW l \in Links, NEW s \in Place, NEW what \in Signal,
           Announce(l, what, s), Steady(Source(l), s), what = "frame" => link[l].free > 0
    PROVE  /\ pc' \in [Procs -> Place] /\ link' \in [Links -> Interface] /\ BuffersKept'
           /\ pc'[Source(l)] \in {s, "ended"} /\ \A q \in Procs \ {Source(l)} : pc'[q] = pc[q]
           /\ \A k \in Links \ {l} : link'[k].free = link[k].free
<1>1. Source(l) \in Procs /\ Source(l) # Sink(l) /\ Sink(l) \in Procs
  BY LinkEnds
<1>2. CASE /\ link[l].snkOpen /\ Goes(Source(l), s)
           /\ link' = [link EXCEPT ![l].fw = Append(@, what),
                                   ![l].free = IF what = "frame" THEN @ - 1 ELSE @]
  <2> DEFINE n == IF what = "frame" THEN link[l].free - 1 ELSE link[l].free
  <2>1. link \in [Links -> Interface] /\ link[l] \in Interface
    BY DEF TypeOK
  <2>2. /\ link'[l] = [link[l] EXCEPT !.fw = Append(link[l].fw, what), !.free = n]
        /\ \A k \in Links \ {l} : link'[k] = link[k]
    BY <1>2, <2>1
  <2>3. n \in 0 .. 2
    BY LinkTypes
  <2>4. Append(link[l].fw, what) \in Seq(Signal)
    BY LinkTypes, AppendProperties
  <2>5. link'[l] \in Interface
    BY <2>1, <2>2, <2>3, <2>4 DEF Interface, Signal
  <2>6. link' \in [Links -> Interface]
    BY <1>2, <2>1, <2>2, <2>5
  <2>7. /\ link'[l].free = n /\ link'[l].bw = link[l].bw
        /\ link'[l].fw = Append(link[l].fw, what) /\ link'[l].snkOpen = link[l].snkOpen
    BY <2>1, <2>2 DEF Interface
  <2>8. pc'[Sink(l)] = pc[Sink(l)]
    BY <1>1, <1>2 DEF Goes, TypeOK
  <2>9. KeptOn(l)'
    <3>1. KeptOn(l) /\ Held(l)' = Held(l)
      BY <2>8, KeptOnAll DEF Held
    <3>2. Announced(l)' = Announced(l) + (IF what = "frame" THEN 1 ELSE 0)
      BY <2>7, LinkTypes, FramesCount DEF Announced
    <3>3. /\ link[l].free \in 0 .. 2 /\ link[l].bw \in Nat
          /\ Announced(l) \in Nat /\ Held(l) \in Nat
      BY LinkTypes
    <3> QED
      BY <2>7, <3>1, <3>2, <3>3 DEF KeptOn
  <2> QED
    BY <1>1, <1>2, <2>2, <2>6, <2>9, OneLink DEF Steady
<1>3. CASE ~link[l].snkOpen /\ Ends(Source(l))
  BY <1>1, <1>3, EndsKeeps
<1> QED
  BY <1>2, <1>3 DEF Announce

\* wait_buff_ready: an announced buffer becomes one the sink has.
LEMMA TakeKeeps ==
    ASSUME TypeOK, BuffersKept, NEW l \in Links, NEW s \in Place, NEW what \in Signal,
           Take(l, what, s), pc[Sink(l)] \notin InUse(l), what = "frame" <=> s \in InUse(l)
    PROVE  /\ pc' \in [Procs -> Place] /\ link' \in [Links -> Interface] /\ BuffersKept'
           /\ pc'[Sink(l)] = s /\ \A q \in Procs \ {Sink(l)} : pc'[q] = pc[q]
           /\ \A k \in Links : link'[k].free = link[k].free
<1>1. Sink(l) \in Procs /\ \A k \in Links \ {l} : Sink(k) # Sink(l)
  BY LinkEnds
<1>2. /\ link[l].fw # <<>> /\ Head(link[l].fw) = what
      /\ Goes(Sink(l), s) /\ link' = [link EXCEPT ![l].fw = Tail(@)]
  BY DEF Take
<1>3. link \in [Links -> Interface] /\ link[l] \in Interface
  BY DEF TypeOK
<1>4. /\ link'[l] = [link[l] EXCEPT !.fw = Tail(link[l].fw)]
      /\ \A k \in Links \ {l} : link'[k] = link[k]
  BY <1>2, <1>3
<1>5. Tail(link[l].fw) \in Seq(Signal)
  BY <1>2, LinkTypes, TailElements
<1>6. link'[l] \in Interface
  BY <1>3, <1>4, <1>5 DEF Interface, Signal
<1>7. link' \in [Links -> Interface]
  BY <1>2, <1>3, <1>4, <1>6
<1>8. /\ link'[l].free = link[l].free /\ link'[l].bw = link[l].bw
      /\ link'[l].fw = Tail(link[l].fw) /\ link'[l].snkOpen = link[l].snkOpen
  BY <1>3, <1>4 DEF Interface
<1>9. pc'[Sink(l)] = s
  BY <1>1, <1>2 DEF Goes, TypeOK
<1>10. KeptOn(l)'
  <2>1. KeptOn(l) /\ Held(l) = 0 /\ Held(l)' = IF what = "frame" THEN 1 ELSE 0
    BY <1>9, KeptOnAll DEF Held
  <2>2. Announced(l) = Announced(l)' + (IF what = "frame" THEN 1 ELSE 0)
    BY <1>2, <1>8, LinkTypes, FramesCount DEF Announced
  <2>3. Announced(l)' \in Nat
    BY <1>5, <1>8, FramesCount DEF Announced
  <2>4. link[l].free \in 0 .. 2 /\ link[l].bw \in Nat
    BY LinkTypes
  <2> QED
    BY <1>8, <2>1, <2>2, <2>3, <2>4 DEF KeptOn
<1> QED
  BY <1>1, <1>2, <1>4, <1>7, <1>8, <1>10, OneLink

\* send_ctr_buff_free: the buffer the sink had is on its way back.
LEMMA HandBackKeeps ==
    ASSUME TypeOK, BuffersKept, NEW l \in Links, NEW s \in Place,
           HandBack(l, s), pc[Sink(l)] \in InUse(l), s \notin InUse(l)
    PROVE  /\ pc' \in [Procs -> Place] /\ link' \in [Links -> Interface] /\ BuffersKept'
           /\ pc'[Sink(l)] \in {s, "ended"} /\ \A q \in Procs \ {Sink(l)} : pc'[q] = pc[q]
           /\ \A k \in Links : link'[k].free = link[k].free
<1>1. Sink(l) \in Procs /\ \A k \in Links \ {l} : Sink(k) # Sink(l)
  BY LinkEnds
<1>2. CASE /\ link[l].srcOpen /\ Goes(Sink(l), s) /\ link' = [link EXCEPT ![l].bw = @ + 1]
  <2>1. link \in [Links -> Interface] /\ link[l] \in Interface
    BY DEF TypeOK
  <2>2. /\ link'[l] = [link[l] EXCEPT !.bw = link[l].bw + 1]
        /\ \A k \in Links \ {l} : link'[k] = link[k]
    BY <1>2, <2>1
  <2>3. link[l].bw + 1 \in Nat
    BY LinkTypes
  <2>4. link'[l] \in Interface
    BY <2>1, <2>2, <2>3 DEF Interface
  <2>5. link' \in [Links -> Interface]
    BY <1>2, <2>1, <2>2, <2>4
  <2>6. /\ link'[l].free = link[l].free /\ link'[l].bw = link[l].bw + 1
        /\ link'[l].fw = link[l].fw /\ link'[l].snkOpen = link[l].snkOpen
    BY <2>1, <2>2 DEF Interface
  <2>7. pc'[Sink(l)] = s
    BY <1>1, <1>2 DEF Goes, TypeOK
  <2>8. KeptOn(l)'
    <3>1. KeptOn(l) /\ Held(l) = 1 /\ Held(l)' = 0
      BY <2>7, KeptOnAll DEF Held
    <3>2. Announced(l)' = Announced(l)
      BY <2>6 DEF Announced
    <3>3. link[l].free \in 0 .. 2 /\ link[l].bw \in Nat /\ Announced(l) \in Nat
      BY LinkTypes
    <3> QED
      BY <2>6, <3>1, <3>2, <3>3 DEF KeptOn
  <2> QED
    BY <1>1, <1>2, <2>2, <2>5, <2>6, <2>8, OneLink
<1>3. CASE ~link[l].srcOpen /\ Ends(Sink(l))
  BY <1>1, <1>3, EndsKeeps
<1> QED
  BY <1>2, <1>3 DEF HandBack

-----------------------------------------------------------------------------
(* The start *)

Kind == <<"fw", "bw", "INIT_READY">>

\* Which step a process comes to in the first of two interfaces, and in the second.
LEMMA FirstSteps ==
    ASSUME NEW T, NEW a \in Seq(T), NEW b \in Seq(T), NEW n \in Nat, n >= 1, n <= Len(a)
    PROVE  (a \o b)[n] = a[n]
<1>1. Len(a) \in Nat /\ Len(b) \in Nat
  BY LenProperties
<1>2. n \in 1 .. Len(a) + Len(b)
  BY <1>1
<1> QED
  BY <1>2, ConcatProperties

LEMMA LaterSteps ==
    ASSUME NEW T, NEW a \in Seq(T), NEW b \in Seq(T), NEW n \in Nat,
           n > Len(a), n <= Len(a) + Len(b)
    PROVE  (a \o b)[n] = b[n - Len(a)]
<1>1. Len(a) \in Nat /\ Len(b) \in Nat
  BY LenProperties
<1>2. n \in 1 .. Len(a) + Len(b) /\ ~(n <= Len(a))
  BY <1>1
<1> QED
  BY <1>2, ConcatProperties

\* s[b + 1], s[b + 2] and s[b + 3] are the steps of the interface l.
OpensFrom(s, b, l) == \A i \in 1 .. 3 : \A n \in Nat : n = b + i => s[n] = <<Kind[i], l>>

Step == {"fw", "bw", "INIT_READY"} \X Links

LEMMA OpeningSteps ==
    ASSUME NEW l \in Links
    PROVE  /\ Opening(l) \in Seq(Step) /\ Len(Opening(l)) = 3
           /\ OpensFrom(Opening(l), 0, l)
BY DEF Opening, Kind, OpensFrom, Step

\* The steps of an interface after those of others.
LEMMA OneMoreOpening ==
    ASSUME NEW s \in Seq(Step), NEW l \in Links
    PROVE  /\ s \o Opening(l) \in Seq(Step)
           /\ Len(s \o Opening(l)) = Len(s) + 3
           /\ OpensFrom(s \o Opening(l), Len(s), l)
           /\ \A b \in Nat : \A k : b + 3 <= Len(s) /\ OpensFrom(s, b, k)
                                       => OpensFrom(s \o Opening(l), b, k)
<1> DEFINE o == Opening(l)
<1>1. /\ s \in Seq(Step) /\ o \in Seq(Step) /\ Len(o) = 3 /\ OpensFrom(o, 0, l) /\ Len(s) \in Nat
  BY OpeningSteps, LenProperties
<1> HIDE DEF o
<1>2. s \o o \in Seq(Step) /\ Len(s \o o) = Len(s) + 3
  <2>1. s \o o \in Seq(Step) /\ Len(s \o o) = Len(s) + Len(o)
    BY <1>1, ConcatProperties
  <2> QED
    BY <1>1, <2>1
<1>3. OpensFrom(s \o o, Len(s), l)
  <2> SUFFICES ASSUME NEW i \in 1 .. 3, NEW n \in Nat, n = Len(s) + i
               PROVE  (s \o o)[n] = <<Kind[i], l>>
    BY DEF OpensFrom
  <2>1. /\ n > Len(s) /\ n <= Len(s) + Len(o) /\ n - Len(s) = i
        /\ i \in Nat /\ i = 0 + i
    BY <1>1
  <2>2. (s \o o)[n] = o[n - Len(s)]
    BY <1>1, <2>1, LaterSteps
  <2>3. o[i] = <<Kind[i], l>>
    BY <1>1, <2>1 DEF OpensFrom
  <2> QED
    BY <2>1, <2>2, <2>3
<1>4. ASSUME NEW b \in Nat, NEW k, b + 3 <= Len(s), OpensFrom(s, b, k)
      PROVE  OpensFrom(s \o o, b, k)
  <2> SUFFICES ASSUME NEW i \in 1 .. 3, NEW n \in Nat, n = b + i
               PROVE  (s \o o)[n] = <<Kind[i], k>>
    BY DEF OpensFrom
  <2>1. n >= 1 /\ n <= Len(s)
    BY <1>1, <1>4
  <2>2. (s \o o)[n] = s[n]
    BY <1>1, <2>1, FirstSteps
  <2>3. s[n] = <<Kind[i], k>>
    BY <1>4 DEF OpensFrom
  <2> QED
    BY <2>2, <2>3
<1> QED
  BY <1>2, <1>3, <1>4 DEF o

\* What each end of an interface has to do at it, and how much there is to do.
LEMMA StartupSteps ==
    /\ Len(Startup["rebuffer"]) = 3 /\ Len(Startup["decimator"]) = 6
    /\ Len(Startup["delay_sync"]) = 9 /\ Len(Startup["iq_server"]) = 3
    /\ Len(Startup["hw_controller"]) = 3
    /\ \A l \in Links : /\ OpensFrom(Startup[Source(l)], StepsBefore(l), l)
                        /\ OpensFrom(Startup[Sink(l)], 0, l)
<1>1. /\ "rebuffer" \in Procs /\ "decimator" \in Procs /\ "delay_sync" \in Procs
      /\ "iq_server" \in Procs /\ "hw_controller" \in Procs
      /\ "decimator_in" \in Links /\ "decimator_out" \in Links
      /\ "delay_sync_iq" \in Links /\ "delay_sync_hwc" \in Links
      /\ Links = {"decimator_in", "decimator_out", "delay_sync_iq", "delay_sync_hwc"}
  BY DEF Procs, Links
<1>2. /\ Startup["rebuffer"] = Opening("decimator_in")
      /\ Startup["decimator"] = Opening("decimator_in") \o Opening("decimator_out")
      /\ Startup["delay_sync"] = Opening("decimator_out") \o Opening("delay_sync_iq")
                                    \o Opening("delay_sync_hwc")
      /\ Startup["iq_server"] = Opening("delay_sync_iq")
      /\ Startup["hw_controller"] = Opening("delay_sync_hwc")
  BY <1>1 DEF Startup
<1>3. /\ StepsBefore("decimator_in") = 0 /\ StepsBefore("decimator_out") = 3
      /\ StepsBefore("delay_sync_iq") = 3 /\ StepsBefore("delay_sync_hwc") = 6
  BY DEF StepsBefore
<1> DEFINE one(l) == Opening(l)
           two(k, l) == one(k) \o Opening(l)
           three(j, k, l) == two(j, k) \o Opening(l)
<1>4. ASSUME NEW l \in Links
      PROVE  one(l) \in Seq(Step) /\ Len(one(l)) = 3 /\ OpensFrom(one(l), 0, l)
  BY OpeningSteps
<1>5. ASSUME NEW k \in Links, NEW l \in Links
      PROVE  /\ two(k, l) \in Seq(Step) /\ Len(two(k, l)) = 6
             /\ OpensFrom(two(k, l), 0, k) /\ OpensFrom(two(k, l), 3, l)
  <2>1. one(k) \in Seq(Step) /\ Len(one(k)) = 3 /\ OpensFrom(one(k), 0, k)
    BY <1>4
  <2> HIDE DEF one
  <2>2. 0 \in Nat /\ 0 + 3 <= Len(one(k))
    BY <2>1
  <2> QED
    BY <2>1, <2>2, OneMoreOpening
<1>6. ASSUME NEW j \in Links, NEW k \in Links, NEW l \in Links
      PROVE  /\ Len(three(j, k, l)) = 9
             /\ OpensFrom(three(j, k, l), 0, j) /\ OpensFrom(three(j, k, l), 3, k)
             /\ OpensFrom(three(j, k, l), 6, l)
  <2>1. /\ two(j, k) \in Seq(Step) /\ Len(two(j, k)) = 6
        /\ OpensFrom(two(j, k), 0, j) /\ OpensFrom(two(j, k), 3, k)
    BY <1>5
  <2> HIDE DEF two
  <2>2. 0 \in Nat /\ 0 + 3 <= Len(two(j, k)) /\ 3 \in Nat /\ 3 + 3 <= Len(two(j, k))
    BY <2>1
  <2>3. Len(three(j, k, l)) = 9
    <3>1. Len(three(j, k, l)) = Len(two(j, k)) + 3
      BY <2>1, OneMoreOpening
    <3> QED
      BY <2>1, <3>1
  <2>4. OpensFrom(three(j, k, l), 6, l)
    BY <2>1, OneMoreOpening
  <2>5. OpensFrom(three(j, k, l), 0, j)
    BY <2>1, <2>2, OneMoreOpening
  <2>6. OpensFrom(three(j, k, l), 3, k)
    BY <2>1, <2>2, OneMoreOpening
  <2> QED
    BY <2>3, <2>4, <2>5, <2>6
<1>7. /\ Startup["rebuffer"] = one("decimator_in")
      /\ Startup["decimator"] = two("decimator_in", "decimator_out")
      /\ Startup["delay_sync"] = three("decimator_out", "delay_sync_iq", "delay_sync_hwc")
      /\ Startup["iq_server"] = one("delay_sync_iq")
      /\ Startup["hw_controller"] = one("delay_sync_hwc")
  BY <1>2
<1> HIDE DEF one, two, three
<1>8. /\ Len(Startup["rebuffer"]) = 3 /\ Len(Startup["decimator"]) = 6
      /\ Len(Startup["delay_sync"]) = 9 /\ Len(Startup["iq_server"]) = 3
      /\ Len(Startup["hw_controller"]) = 3
  BY <1>1, <1>4, <1>5, <1>6, <1>7
<1>9. /\ OpensFrom(Startup["rebuffer"], 0, "decimator_in")
      /\ OpensFrom(Startup["decimator"], 0, "decimator_in")
      /\ OpensFrom(Startup["decimator"], 3, "decimator_out")
      /\ OpensFrom(Startup["delay_sync"], 0, "decimator_out")
      /\ OpensFrom(Startup["delay_sync"], 3, "delay_sync_iq")
      /\ OpensFrom(Startup["delay_sync"], 6, "delay_sync_hwc")
      /\ OpensFrom(Startup["iq_server"], 0, "delay_sync_iq")
      /\ OpensFrom(Startup["hw_controller"], 0, "delay_sync_hwc")
  BY <1>1, <1>4, <1>5, <1>6, <1>7
<1>10. ASSUME NEW l \in Links
       PROVE  OpensFrom(Startup[Source(l)], StepsBefore(l), l) /\ OpensFrom(Startup[Sink(l)], 0, l)
  BY <1>1, <1>3, <1>9, LinkEnds
<1> QED
  BY <1>8, <1>10

\* The steps in which the C programs have opened their backward FIFO.
LEMMA StartupOrder ==
    /\ Len(Startup["rebuffer"]) = 3 /\ Startup["rebuffer"][2] = <<"bw", "decimator_in">>
    /\ Len(Startup["decimator"]) = 6 /\ Startup["decimator"][5] = <<"bw", "decimator_out">>
<1>1. /\ OpensFrom(Startup["rebuffer"], 0, "decimator_in")
      /\ OpensFrom(Startup["decimator"], 3, "decimator_out")
  BY StartupSteps, LinkEnds DEF Links, StepsBefore
<1>2. 2 \in 1 .. 3 /\ 2 = 0 + 2 /\ 5 = 3 + 2 /\ Kind[2] = "bw"
  BY DEF Kind
<1> QED
  BY <1>1, <1>2, StartupSteps DEF OpensFrom

-----------------------------------------------------------------------------
(* Every step keeps the types, the account and the reserve. *)

Account == TypeOK /\ Reserved /\ BuffersKept

LEMMA Places ==
    /\ InUse("decimator_in") = {"alloc", "send", "free", "last free"}
    /\ InUse("decimator_out") = {"alloc iq", "alloc hwc", "send iq", "asks", "send hwc", "free"}
    /\ InUse("delay_sync_iq") = {"send", "free"}
    /\ InUse("delay_sync_hwc") = {"hold", "asks", "crashed"}
BY DEF InUse

LEMMA SteadyMoves ==
    /\ \A s : Steady("rebuffer", s)
    /\ \A s : (s \in InUse("decimator_in") <=> pc["decimator"] \in InUse("decimator_in"))
                => Steady("decimator", s)
    /\ \A s : (s \in InUse("decimator_out") <=> pc["delay_sync"] \in InUse("decimator_out"))
                => Steady("delay_sync", s)
    /\ \A s : (s \in InUse("delay_sync_iq") <=> pc["iq_server"] \in InUse("delay_sync_iq"))
                => Steady("iq_server", s)
    /\ \A s : (s \in InUse("delay_sync_hwc") <=> pc["hw_controller"] \in InUse("delay_sync_hwc"))
                => Steady("hw_controller", s)
BY LinkEnds DEF Steady, Links

\* The kinds of steps as they bear on the reserve: a process that announces nothing
\* moves, or one of the sources goes to or from the place where it announces.
LEMMA ReservedElsewhere ==
    ASSUME Reserved, got' \subseteq got,
           pc'["rebuffer"] = "send" => pc["rebuffer"] = "send",
           pc'["decimator"] = "send" => pc["decimator"] = "send",
           link'["decimator_in"].free = link["decimator_in"].free,
           link'["decimator_out"].free = link["decimator_out"].free,
           \A l \in got' : link'[l].free = link[l].free
    PROVE  Reserved'
BY DEF Reserved

LEMMA EndsAccount ==
    ASSUME Account, NEW p \in Procs, Ends(p), UNCHANGED opened, got' \subseteq got
    PROVE  Account'
<1>1. /\ pc' \in [Procs -> Place] /\ link' \in [Links -> Interface] /\ BuffersKept'
      /\ pc'[p] = "ended" /\ \A q \in Procs \ {p} : pc'[q] = pc[q]
      /\ \A l \in Links : link'[l].free = link[l].free
  BY EndsKeeps DEF Account
<1>2. TypeOK'
  BY <1>1 DEF Account, TypeOK
<1>3. Reserved'
  <2>1. got \subseteq Links /\ "rebuffer" \in Procs /\ "decimator" \in Procs
    BY DEF Account, TypeOK, Links, Procs
  <2>2. "decimator_in" \in Links /\ "decimator_out" \in Links
    BY DEF Links
  <2> QED
    BY <1>1, <2>1, <2>2, ReservedElsewhere DEF Account
<1> QED
  BY <1>1, <1>2, <1>3 DEF Account

LEMMA RebufferAccount == Account /\ (RebufferStep \/ InputEnds) => Account'
<1> SUFFICES ASSUME Account, RebufferStep \/ InputEnds PROVE Account'
  OBVIOUS
<1>1. /\ TypeOK /\ BuffersKept /\ Reserved /\ UNCHANGED <<opened, got>>
      /\ "rebuffer" \in Procs /\ "decimator" \in Procs /\ "decimator_in" \in Links
      /\ "decimator_out" \in Links /\ "decimator_out" # "decimator_in"
      /\ got \subseteq Links \ {"decimator_in", "decimator_out"}
  BY DEF Account, RebufferStep, InputEnds, TypeOK, Procs, Links
<1>2. /\ Source("decimator_in") = "rebuffer"
      /\ \A s : Steady("rebuffer", s)
      /\ {"alloc", "send", "end", "linger"} \subseteq Place /\ {"frame", "TERMINATE"} \subseteq Signal
  BY LinkEnds, SteadyMoves DEF Place, Signal
<1>3. CASE At("rebuffer", "alloc") /\ AllocSucceeds("decimator_in", "send")
  <2>1. /\ pc' \in [Procs -> Place] /\ link' \in [Links -> Interface] /\ BuffersKept'
        /\ pc'["rebuffer"] = "send" /\ pc'["decimator"] = pc["decimator"]
        /\ link'["decimator_in"].free > 0
        /\ \A k \in Links \ {"decimator_in"} : link'[k] = link[k]
    BY <1>1, <1>2, <1>3, AllocKeeps DEF Procs
  <2>2. Reserved'
    BY <1>1, <2>1 DEF Reserved
  <2> QED
    BY <1>1, <2>1, <2>2 DEF Account, TypeOK
<1>4. CASE Goes("rebuffer", "end") /\ UNCHANGED link
  <2>1. /\ pc' \in [Procs -> Place] /\ link' \in [Links -> Interface] /\ BuffersKept'
        /\ pc'["rebuffer"] = "end" /\ pc'["decimator"] = pc["decimator"]
    BY <1>1, <1>2, <1>4, GoesKeeps DEF Procs
  <2>2. Reserved'
    BY <1>1, <1>4, <2>1 DEF Reserved
  <2> QED
    BY <1>1, <2>1, <2>2 DEF Account, TypeOK
<1>5. ASSUME NEW what \in Signal, NEW s \in {"alloc", "linger"},
             Announce("decimator_in", what, s), what = "frame" => pc["rebuffer"] = "send"
      PROVE  Account'
  <2>1. what = "frame" => link["decimator_in"].free > 0
    BY <1>1, <1>5 DEF Reserved
  <2>2. /\ pc' \in [Procs -> Place] /\ link' \in [Links -> Interface] /\ BuffersKept'
        /\ pc'["rebuffer"] \in {s, "ended"} /\ pc'["decimator"] = pc["decimator"]
        /\ \A k \in Links \ {"decimator_in"} : link'[k].free = link[k].free
    BY <1>1, <1>2, <1>5, <2>1, AnnounceKeeps DEF Procs
  <2>3. Reserved'
    BY <1>1, <2>2 DEF Reserved
  <2> QED
    BY <1>1, <2>2, <2>3 DEF Account, TypeOK
<1>6. CASE Ends("rebuffer")
  BY <1>1, <1>6, EndsAccount
<1>7. CASE InputEnds
  BY <1>4, <1>7 DEF InputEnds
<1>8. CASE RebufferStep
  BY <1>2, <1>3, <1>4, <1>5, <1>6, <1>8 DEF RebufferStep, RebufferFrame, RebufferEnd, At
<1> QED
  BY <1>7, <1>8

LEMMA DecimatorAccount == Account /\ (DecimatorStep \/ FilterSetupFails) => Account'
<1> SUFFICES ASSUME Account, DecimatorStep \/ FilterSetupFails PROVE Account'
  OBVIOUS
<1>1. /\ TypeOK /\ BuffersKept /\ Reserved /\ UNCHANGED <<opened, got>>
      /\ "rebuffer" \in Procs /\ "decimator" \in Procs /\ "decimator_in" \in Links
      /\ "decimator_out" \in Links /\ "decimator_out" # "decimator_in"
      /\ "rebuffer" # "decimator"
      /\ got \subseteq Links \ {"decimator_in", "decimator_out"}
  BY DEF Account, DecimatorStep, FilterSetupFails, TypeOK, Procs, Links
<1>2. /\ Source("decimator_out") = "decimator" /\ Sink("decimator_in") = "decimator"
      /\ InUse("decimator_in") = {"alloc", "send", "free", "last free"}
      /\ \A s : (s \in InUse("decimator_in") <=> pc["decimator"] \in InUse("decimator_in"))
                   => Steady("decimator", s)
      /\ {"wait", "alloc", "send", "free", "last free", "end", "linger"} \subseteq Place
      /\ {"frame", "TERMINATE"} \subseteq Signal
  BY LinkEnds, Places, SteadyMoves DEF Place, Signal
<1>3. CASE At("decimator", "alloc") /\ AllocSucceeds("decimator_out", "send")
  <2>1. Steady("decimator", "send")
    BY <1>2, <1>3 DEF At
  <2>2. /\ pc' \in [Procs -> Place] /\ link' \in [Links -> Interface] /\ BuffersKept'
        /\ pc'["decimator"] = "send" /\ pc'["rebuffer"] = pc["rebuffer"]
        /\ link'["decimator_out"].free > 0
        /\ \A k \in Links \ {"decimator_out"} : link'[k] = link[k]
    BY <1>1, <1>2, <1>3, <2>1, AllocKeeps
  <2>3. Reserved'
    BY <1>1, <2>2 DEF Reserved
  <2> QED
    BY <1>1, <2>2, <2>3 DEF Account, TypeOK
<1>4. ASSUME NEW s \in Place, s # "send", Goes("decimator", s), UNCHANGED link,
             s \in InUse("decimator_in") <=> pc["decimator"] \in InUse("decimator_in")
      PROVE  Account'
  <2>1. Steady("decimator", s)
    BY <1>2, <1>4
  <2>2. /\ pc' \in [Procs -> Place] /\ link' \in [Links -> Interface] /\ BuffersKept'
        /\ pc'["decimator"] = s /\ pc'["rebuffer"] = pc["rebuffer"]
    BY <1>1, <1>4, <2>1, GoesKeeps
  <2>3. Reserved'
    BY <1>1, <1>4, <2>2 DEF Reserved
  <2> QED
    BY <1>1, <2>2, <2>3 DEF Account, TypeOK
<1>5. ASSUME NEW what \in Signal, NEW s \in Place \ {"send"}, Announce("decimator_out", what, s),
             what = "frame" => pc["decimator"] = "send",
             s \in InUse("decimator_in") <=> pc["decimator"] \in InUse("decimator_in")
      PROVE  Account'
  <2>1. what = "frame" => link["decimator_out"].free > 0
    BY <1>1, <1>5 DEF Reserved
  <2>2. Steady(Source("decimator_out"), s) /\ s \in Place
    BY <1>2, <1>5
  <2>3. /\ pc' \in [Procs -> Place] /\ link' \in [Links -> Interface] /\ BuffersKept'
        /\ pc'["decimator"] \in {s, "ended"} /\ pc'["rebuffer"] = pc["rebuffer"]
        /\ \A k \in Links \ {"decimator_out"} : link'[k].free = link[k].free
    <3>1. /\ pc' \in [Procs -> Place] /\ link' \in [Links -> Interface] /\ BuffersKept'
          /\ pc'[Source("decimator_out")] \in {s, "ended"}
          /\ \A q \in Procs \ {Source("decimator_out")} : pc'[q] = pc[q]
          /\ \A k \in Links \ {"decimator_out"} : link'[k].free = link[k].free
      BY <1>1, <1>5, <2>1, <2>2, AnnounceKeeps
    <3> QED
      BY <1>1, <1>2, <3>1
  <2>4. Reserved'
    BY <1>1, <2>3 DEF Reserved
  <2> QED
    BY <1>1, <2>3, <2>4 DEF Account, TypeOK
<1>6. ASSUME NEW what \in Signal, NEW s \in Place \ {"send"}, Take("decimator_in", what, s),
             At("decimator", "wait"), what = "frame" <=> s \in InUse("decimator_in")
      PROVE  Account'
  <2>1. pc["decimator"] \notin InUse("decimator_in")
    BY <1>2, <1>6 DEF At
  <2>2. /\ pc' \in [Procs -> Place] /\ link' \in [Links -> Interface] /\ BuffersKept'
        /\ pc'["decimator"] = s /\ pc'["rebuffer"] = pc["rebuffer"]
        /\ \A k \in Links : link'[k].free = link[k].free
    BY <1>1, <1>2, <1>6, <2>1, TakeKeeps
  <2>3. Reserved'
    BY <1>1, <2>2 DEF Reserved
  <2> QED
    BY <1>1, <2>2, <2>3 DEF Account, TypeOK
<1>7. ASSUME NEW s \in {"wait", "end"}, HandBack("decimator_in", s),
             pc["decimator"] \in InUse("decimator_in")
      PROVE  Account'
  <2>1. s \notin InUse("decimator_in") /\ s \in Place /\ s # "send"
    BY <1>2
  <2>2. /\ pc' \in [Procs -> Place] /\ link' \in [Links -> Interface] /\ BuffersKept'
        /\ pc'["decimator"] \in {s, "ended"} /\ pc'["rebuffer"] = pc["rebuffer"]
        /\ \A k \in Links : link'[k].free = link[k].free
    BY <1>1, <1>2, <1>7, <2>1, HandBackKeeps
  <2>3. Reserved'
    BY <1>1, <2>1, <2>2 DEF Reserved
  <2> QED
    BY <1>1, <2>2, <2>3 DEF Account, TypeOK
<1>8. CASE Ends("decimator")
  BY <1>1, <1>8, EndsAccount
<1>9. CASE DecimatorSetup
  BY <1>2, <1>4, <1>9 DEF DecimatorSetup, At
<1>10. CASE DecimatorTake
  BY <1>2, <1>4, <1>6, <1>10 DEF DecimatorTake, At
<1>11. CASE DecimatorAlloc
  <2>1. CASE AllocDrops("decimator_out", "free")
    BY <1>2, <1>4, <1>11, <2>1 DEF DecimatorAlloc, At, AllocDrops
  <2>2. CASE AllocAtEof("decimator_out") /\ UNCHANGED link
             /\ Goes("decimator", IF errnoEAGAIN THEN "free" ELSE "last free")
    BY <1>2, <1>4, <1>11, <2>2 DEF DecimatorAlloc, At
  <2> QED
    BY <1>3, <1>11, <2>1, <2>2 DEF DecimatorAlloc
<1>12. CASE DecimatorSend
  <2>1. CASE At("decimator", "send") /\ Announce("decimator_out", "frame", "free")
    BY <1>2, <1>5, <2>1 DEF At
  <2>2. CASE At("decimator", "free") /\ HandBack("decimator_in", "wait")
    BY <1>2, <1>7, <2>2 DEF At
  <2>3. CASE At("decimator", "last free") /\ HandBack("decimator_in", "end")
    BY <1>2, <1>7, <2>3 DEF At
  <2> QED
    BY <1>12, <2>1, <2>2, <2>3 DEF DecimatorSend
<1>13. CASE DecimatorEnd
  BY <1>2, <1>5, <1>8, <1>13 DEF DecimatorEnd, At
<1> QED
  BY <1>8, <1>9, <1>10, <1>11, <1>12, <1>13 DEF DecimatorStep, FilterSetupFails
LEMMA DelaySyncAccount == Account /\ DelaySyncStep => Account'
<1> SUFFICES ASSUME Account, DelaySyncStep PROVE Account'
  OBVIOUS
<1> DEFINE Outputs == {"delay_sync_iq", "delay_sync_hwc"}
<1>1. /\ TypeOK /\ BuffersKept /\ Reserved /\ UNCHANGED opened
      /\ "rebuffer" \in Procs /\ "decimator" \in Procs /\ "delay_sync" \in Procs
      /\ "rebuffer" # "delay_sync" /\ "decimator" # "delay_sync"
      /\ Outputs \subseteq Links /\ "decimator_in" \in Links \ Outputs
      /\ "decimator_out" \in Links \ Outputs
      /\ got \subseteq Outputs
  BY DEF Account, DelaySyncStep, TypeOK, Procs, Links
<1>2. /\ \A l \in Outputs : Source(l) = "delay_sync"
      /\ Sink("decimator_out") = "delay_sync"
      /\ InUse("decimator_out") = {"alloc iq", "alloc hwc", "send iq", "asks", "send hwc", "free"}
      /\ \A s : (s \in InUse("decimator_out") <=> pc["delay_sync"] \in InUse("decimator_out"))
                   => Steady("delay_sync", s)
      /\ InUse("decimator_out") \cup {"wait", "close in", "end iq", "close iq", "end hwc",
                                      "linger"} \subseteq Place
      /\ {"frame", "TERMINATE"} \subseteq Signal
  BY LinkEnds, Places, SteadyMoves DEF Place, Signal
<1>3. ASSUME NEW l \in Outputs, NEW s \in InUse("decimator_out"), AllocSucceeds(l, s),
             pc["delay_sync"] \in InUse("decimator_out"), got' = got \cup {l}
      PROVE  Account'
  <2>1. Steady(Source(l), s) /\ s \in Place /\ l \in Links
    BY <1>1, <1>2, <1>3
  <2>2. /\ pc' \in [Procs -> Place] /\ link' \in [Links -> Interface] /\ BuffersKept'
        /\ \A q \in Procs \ {Source(l)} : pc'[q] = pc[q]
        /\ link'[l].free > 0
        /\ \A k \in Links \ {l} : link'[k] = link[k]
    BY <1>1, <1>3, <2>1, AllocKeeps
  <2>3. Reserved'
    <3>1. pc'["rebuffer"] = pc["rebuffer"] /\ pc'["decimator"] = pc["decimator"]
      BY <1>1, <1>2, <2>2
    <3>2. \A k \in got' : link'[k].free > 0
      BY <1>1, <1>3, <2>2 DEF Reserved
    <3>3. /\ link'["decimator_in"] = link["decimator_in"]
          /\ link'["decimator_out"] = link["decimator_out"]
      BY <1>1, <2>2
    <3> QED
      BY <1>1, <3>1, <3>2, <3>3 DEF Reserved
  <2> QED
    BY <1>1, <1>3, <2>2, <2>3 DEF Account, TypeOK
<1>4. ASSUME NEW s \in Place, Goes("delay_sync", s), UNCHANGED link, got' \subseteq got,
             s \in InUse("decimator_out") <=> pc["delay_sync"] \in InUse("decimator_out")
      PROVE  Account'
  <2>1. Steady("delay_sync", s)
    BY <1>2, <1>4
  <2>2. /\ pc' \in [Procs -> Place] /\ link' \in [Links -> Interface] /\ BuffersKept'
        /\ pc'["decimator"] = pc["decimator"] /\ pc'["rebuffer"] = pc["rebuffer"]
    BY <1>1, <1>4, <2>1, GoesKeeps
  <2>3. Reserved'
    BY <1>1, <1>4, <2>2, ReservedElsewhere
  <2> QED
    BY <1>1, <1>4, <2>2, <2>3 DEF Account, TypeOK
<1>5. ASSUME NEW l \in Outputs, NEW what \in Signal, NEW s \in Place, Announce(l, what, s),
             what = "frame" => l \in got, got' = got \ {l},
             s \in InUse("decimator_out") <=> pc["delay_sync"] \in InUse("decimator_out")
      PROVE  Account'
  <2>1. what = "frame" => link[l].free > 0
    BY <1>1, <1>5 DEF Reserved
  <2>2. Steady(Source(l), s) /\ l \in Links
    BY <1>1, <1>2, <1>5
  <2>3. /\ pc' \in [Procs -> Place] /\ link' \in [Links -> Interface] /\ BuffersKept'
        /\ \A q \in Procs \ {Source(l)} : pc'[q] = pc[q]
        /\ \A k \in Links \ {l} : link'[k].free = link[k].free
    BY <1>1, <1>5, <2>1, <2>2, AnnounceKeeps
  <2>4. Reserved'
    <3>1. pc'["rebuffer"] = pc["rebuffer"] /\ pc'["decimator"] = pc["decimator"]
      BY <1>1, <1>2, <2>3
    <3>2. /\ link'["decimator_in"].free = link["decimator_in"].free
          /\ link'["decimator_out"].free = link["decimator_out"].free
          /\ \A k \in got' : link'[k].free = link[k].free
      BY <1>1, <1>5, <2>3
    <3> QED
      BY <1>1, <1>5, <3>1, <3>2, ReservedElsewhere
  <2> QED
    BY <1>1, <1>5, <2>3, <2>4 DEF Account, TypeOK
<1>6. ASSUME NEW what \in Signal, NEW s \in Place, Take("decimator_out", what, s),
             At("delay_sync", "wait"), what = "frame" <=> s \in InUse("decimator_out"),
             UNCHANGED got
      PROVE  Account'
  <2>1. pc["delay_sync"] \notin InUse("decimator_out")
    BY <1>2, <1>6 DEF At
  <2>2. /\ pc' \in [Procs -> Place] /\ link' \in [Links -> Interface] /\ BuffersKept'
        /\ pc'["decimator"] = pc["decimator"] /\ pc'["rebuffer"] = pc["rebuffer"]
        /\ \A k \in Links : link'[k].free = link[k].free
    BY <1>1, <1>2, <1>6, <2>1, TakeKeeps
  <2>3. Reserved'
    BY <1>1, <1>6, <2>2, ReservedElsewhere
  <2> QED
    BY <1>1, <1>6, <2>2, <2>3 DEF Account, TypeOK
<1>7. ASSUME HandBack("decimator_out", "wait"), At("delay_sync", "free"), UNCHANGED got
      PROVE  Account'
  <2>1. /\ "wait" \notin InUse("decimator_out") /\ "wait" \in Place
        /\ pc["delay_sync"] \in InUse("decimator_out")
    BY <1>2, <1>7 DEF At
  <2>2. /\ pc' \in [Procs -> Place] /\ link' \in [Links -> Interface] /\ BuffersKept'
        /\ pc'["decimator"] = pc["decimator"] /\ pc'["rebuffer"] = pc["rebuffer"]
        /\ \A k \in Links : link'[k].free = link[k].free
    BY <1>1, <1>2, <1>7, <2>1, HandBackKeeps
  <2>3. Reserved'
    BY <1>1, <1>7, <2>2, ReservedElsewhere
  <2> QED
    BY <1>1, <1>7, <2>2, <2>3 DEF Account, TypeOK
<1>8. ASSUME Ends("delay_sync"), got' \subseteq got PROVE Account'
  BY <1>1, <1>8, EndsAccount
<1>9. ASSUME NEW l \in Links, NEW s \in Place, Goes("delay_sync", s), UNCHANGED got,
             s \notin InUse("decimator_out"), pc["delay_sync"] \notin InUse("decimator_out"),
             \/ link' = [link EXCEPT ![l].snkOpen = FALSE]
             \/ link' = [link EXCEPT ![l].srcOpen = FALSE]
      PROVE  Account'
  <2>1. link \in [Links -> Interface] /\ link[l] \in Interface
    BY <1>1 DEF TypeOK
  <2>2. /\ \/ link'[l] = [link[l] EXCEPT !.snkOpen = FALSE]
           \/ link'[l] = [link[l] EXCEPT !.srcOpen = FALSE]
        /\ \A k \in Links \ {l} : link'[k] = link[k]
    BY <1>9, <2>1
  <2>3. link'[l] \in Interface
    BY <2>1, <2>2 DEF Interface
  <2>4. link' \in [Links -> Interface]
    BY <1>9, <2>1, <2>3
  <2>5. /\ link'[l].free = link[l].free /\ link'[l].bw = link[l].bw
        /\ link'[l].fw = link[l].fw
        /\ link'[l].snkOpen => link[l].snkOpen
    BY <2>1, <2>2 DEF Interface
  <2>6. Steady("delay_sync", s)
    BY <1>2, <1>9
  <2>7. pc' = [pc EXCEPT !["delay_sync"] = s] /\ pc \in [Procs -> Place]
    BY <1>1, <1>9 DEF Goes, TypeOK
  <2>8. KeptOn(l)'
    <3>1. KeptOn(l) /\ Sink(l) \in Procs
      BY <1>1, KeptOnAll, LinkEnds
    <3>2. pc'[Sink(l)] \in InUse(l) <=> pc[Sink(l)] \in InUse(l)
      BY <2>6, <2>7, <3>1 DEF Steady
    <3> QED
      BY <2>5, <3>1, <3>2, Untouched
  <2>9. /\ pc' \in [Procs -> Place] /\ BuffersKept'
        /\ \A q \in Procs \ {"delay_sync"} : pc'[q] = pc[q]
    BY <1>1, <1>9, <2>2, <2>4, <2>6, <2>8, OneLink DEF Steady
  <2>10. Reserved'
    <3>1. pc'["rebuffer"] = pc["rebuffer"] /\ pc'["decimator"] = pc["decimator"]
      BY <1>1, <2>9
    <3>2. \A k \in Links : link'[k].free = link[k].free
      BY <2>2, <2>5
    <3> QED
      BY <1>1, <1>9, <3>1, <3>2, ReservedElsewhere
  <2> QED
    BY <1>1, <1>9, <2>4, <2>9, <2>10 DEF Account, TypeOK
<1>10. CASE DelaySyncTake
  BY <1>2, <1>6, <1>8, <1>10 DEF DelaySyncTake
<1>11. ASSUME NEW l \in Outputs, NEW from \in InUse("decimator_out"),
              NEW to \in InUse("decimator_out"), DelaySyncAlloc(l, from, to)
       PROVE  Account'
  <2>1. pc["delay_sync"] = from
    BY <1>11 DEF DelaySyncAlloc, At
  <2>2. CASE AllocSucceeds(l, to) /\ got' = got \cup {l}
    BY <1>3, <2>1, <2>2
  <2>3. CASE AllocDrops(l, to) /\ UNCHANGED got
    BY <1>2, <1>4, <2>1, <2>3 DEF AllocDrops
  <2>4. CASE Ends("delay_sync") /\ UNCHANGED got
    BY <1>8, <2>4
  <2> QED
    BY <1>11, <2>2, <2>3, <2>4 DEF DelaySyncAlloc
<1>12. ASSUME NEW l \in Outputs, NEW from \in InUse("decimator_out"),
              NEW to \in InUse("decimator_out"), DelaySyncAnnounce(l, from, to)
       PROVE  Account'
  <2>1. pc["delay_sync"] = from /\ got' = got \ {l} /\ to \in Place
    BY <1>2, <1>12 DEF DelaySyncAnnounce, At
  <2>2. CASE l \in got /\ Announce(l, "frame", to)
    BY <1>2, <1>5, <2>1, <2>2
  <2>3. CASE l \notin got /\ Goes("delay_sync", to) /\ UNCHANGED link
    BY <1>4, <2>1, <2>3
  <2> QED
    BY <1>12, <2>2, <2>3 DEF DelaySyncAnnounce
<1>13. CASE DelaySyncHandBack
  BY <1>7, <1>13 DEF DelaySyncHandBack
<1>14. CASE DelaySyncClose
  <2>1. UNCHANGED got
    BY <1>14 DEF DelaySyncClose
  <2>2. CASE At("delay_sync", "close in") /\ Goes("delay_sync", "end iq")
             /\ link' = [link EXCEPT !["decimator_out"].snkOpen = FALSE]
    BY <1>1, <1>2, <1>9, <2>1, <2>2 DEF At
  <2>3. ASSUME NEW l \in Outputs, NEW from \in {"end iq", "end hwc"},
               NEW to \in {"close iq", "linger"}, At("delay_sync", from),
               Announce(l, "TERMINATE", to)
        PROVE  Account'
    <3>1. /\ Steady(Source(l), to) /\ l \in Links /\ to \in Place
          /\ "TERMINATE" \in Signal /\ "TERMINATE" # "frame"
      BY <1>1, <1>2, <2>3 DEF At
    <3>2. /\ pc' \in [Procs -> Place] /\ link' \in [Links -> Interface] /\ BuffersKept'
          /\ \A q \in Procs \ {Source(l)} : pc'[q] = pc[q]
          /\ \A k \in Links \ {l} : link'[k].free = link[k].free
      BY <1>1, <2>3, <3>1, AnnounceKeeps
    <3>3. link'[l].free = link[l].free
      <4>1. link \in [Links -> Interface] /\ link[l] \in Interface
        BY <1>1, <3>1 DEF TypeOK
      <4>2. CASE link' = [link EXCEPT ![l].fw = Append(@, "TERMINATE"), ![l].free = @]
        <5>1. link'[l] = [link[l] EXCEPT !.fw = Append(link[l].fw, "TERMINATE")]
          BY <3>1, <4>1, <4>2 DEF Interface
        <5> QED
          BY <4>1, <5>1 DEF Interface
      <4>3. CASE Ends(Source(l))
        BY <1>1, <1>2, <3>1, <4>3, EndsKeeps
      <4> QED
        BY <2>3, <3>1, <4>2, <4>3 DEF Announce
    <3>4. Reserved'
      <4>1. pc'["rebuffer"] = pc["rebuffer"] /\ pc'["decimator"] = pc["decimator"]
        BY <1>1, <1>2, <3>2
      <4>2. \A k \in Links : link'[k].free = link[k].free
        BY <3>2, <3>3
      <4> QED
        BY <1>1, <2>1, <4>1, <4>2, ReservedElsewhere
    <3> QED
      BY <1>1, <2>1, <3>2, <3>4 DEF Account, TypeOK
  <2>4. CASE At("delay_sync", "close iq") /\ Goes("delay_sync", "end hwc")
             /\ link' = [link EXCEPT !["delay_sync_iq"].srcOpen = FALSE]
    BY <1>1, <1>2, <1>9, <2>1, <2>4 DEF At
  <2>5. CASE Ends("delay_sync")
    BY <1>8, <2>1, <2>5
  <2> QED
    BY <1>14, <2>2, <2>3, <2>4, <2>5 DEF DelaySyncClose
<1>15. CASE DelaySyncAsk
  <2>1. /\ pc["delay_sync"] \in InUse("decimator_out") /\ "asks" \in InUse("decimator_out")
        /\ "asks" \in Place
    BY <1>2, <1>15 DEF DelaySyncAsk, At
  <2> QED
    BY <1>4, <1>15, <2>1 DEF DelaySyncAsk
<1> QED
  BY <1>2, <1>10, <1>11, <1>12, <1>13, <1>14, <1>15 DEF DelaySyncStep

LEMMA IqServerAccount == Account /\ (IqServerStep \/ ClientStep) => Account'
<1> SUFFICES ASSUME Account, IqServerStep \/ ClientStep PROVE Account'
  OBVIOUS
<1> DEFINE L == "delay_sync_iq"
<1>1. /\ TypeOK /\ BuffersKept /\ Reserved /\ UNCHANGED <<opened, got>>
      /\ "rebuffer" \in Procs /\ "decimator" \in Procs /\ "iq_server" \in Procs
      /\ "rebuffer" # "iq_server" /\ "decimator" # "iq_server"
      /\ L \in Links /\ "decimator_in" \in Links /\ "decimator_out" \in Links
      /\ got \subseteq Links
  BY DEF Account, IqServerStep, ClientStep, TypeOK, Procs, Links
<1>2. /\ Sink(L) = "iq_server" /\ InUse(L) = {"send", "free"}
      /\ \A s : (s \in InUse(L) <=> pc["iq_server"] \in InUse(L)) => Steady("iq_server", s)
      /\ {"client", "wait", "send", "free"} \subseteq Place
      /\ {"frame", "TERMINATE"} \subseteq Signal
  BY LinkEnds, Places, SteadyMoves DEF Place, Signal
<1>3. ASSUME pc' \in [Procs -> Place], link' \in [Links -> Interface], BuffersKept',
             \A q \in Procs \ {"iq_server"} : pc'[q] = pc[q],
             \A k \in Links : link'[k].free = link[k].free
      PROVE  Account'
  <2>1. pc'["rebuffer"] = pc["rebuffer"] /\ pc'["decimator"] = pc["decimator"]
    BY <1>1, <1>3
  <2>2. Reserved'
    BY <1>1, <1>3, <2>1, ReservedElsewhere
  <2> QED
    BY <1>1, <1>3, <2>2 DEF Account, TypeOK
<1>4. ASSUME NEW s \in Place, Goes("iq_server", s), UNCHANGED link,
             s \in InUse(L) <=> pc["iq_server"] \in InUse(L)
      PROVE  Account'
  BY <1>1, <1>2, <1>3, <1>4, GoesKeeps
<1>5. ASSUME NEW what \in Signal, NEW s \in Place, Take(L, what, s), At("iq_server", "wait"),
             what = "frame" <=> s \in InUse(L)
      PROVE  Account'
  <2>1. pc["iq_server"] \notin InUse(L)
    BY <1>2, <1>5 DEF At
  <2> QED
    BY <1>1, <1>2, <1>3, <1>5, <2>1, TakeKeeps
<1>6. CASE Ends("iq_server")
  BY <1>1, <1>6, EndsAccount
<1>7. CASE IqServerTake
  BY <1>2, <1>4, <1>5, <1>6, <1>7 DEF IqServerTake, At
<1>8. CASE IqServerHandBack
  <2>1. /\ HandBack(L, "client") /\ "client" \notin InUse(L) /\ "client" \in Place
        /\ pc[Sink(L)] \in InUse(L)
    BY <1>2, <1>8 DEF IqServerHandBack, At
  <2> QED
    BY <1>1, <1>2, <1>3, <2>1, HandBackKeeps
<1>9. CASE IqServerClient
  BY <1>2, <1>4, <1>9 DEF IqServerClient, At
<1>10. CASE IqServerSend
  BY <1>2, <1>4, <1>6, <1>10 DEF IqServerSend, At
<1> QED
  BY <1>7, <1>8, <1>9, <1>10 DEF IqServerStep, ClientStep

LEMMA HwcAccount == Account /\ HwcStep => Account'
<1> SUFFICES ASSUME Account, HwcStep PROVE Account'
  OBVIOUS
<1> DEFINE L == "delay_sync_hwc"
<1>1. /\ TypeOK /\ BuffersKept /\ Reserved /\ UNCHANGED <<opened, got>>
      /\ "rebuffer" \in Procs /\ "decimator" \in Procs /\ "hw_controller" \in Procs
      /\ "rebuffer" # "hw_controller" /\ "decimator" # "hw_controller"
      /\ L \in Links /\ "decimator_in" \in Links /\ "decimator_out" \in Links
      /\ got \subseteq Links
  BY DEF Account, HwcStep, TypeOK, Procs, Links
<1>2. /\ Sink(L) = "hw_controller" /\ InUse(L) = {"hold", "asks", "crashed"}
      /\ {"wait", "hold", "asks", "serving", "crashed"} \subseteq Place /\ "frame" \in Signal
      /\ \A s : (s \in InUse(L) <=> pc["hw_controller"] \in InUse(L))
                   => Steady("hw_controller", s)
  BY LinkEnds, Places, SteadyMoves DEF Place, Signal
<1>3. ASSUME pc' \in [Procs -> Place], link' \in [Links -> Interface], BuffersKept',
             \A q \in Procs \ {"hw_controller"} : pc'[q] = pc[q],
             \A k \in Links : link'[k].free = link[k].free
      PROVE  Account'
  <2>1. pc'["rebuffer"] = pc["rebuffer"] /\ pc'["decimator"] = pc["decimator"]
    BY <1>1, <1>3
  <2>2. Reserved'
    BY <1>1, <1>3, <2>1, ReservedElsewhere
  <2> QED
    BY <1>1, <1>3, <2>2 DEF Account, TypeOK
<1>4. ASSUME NEW s \in {"serving", "asks", "crashed"}, Goes("hw_controller", s), UNCHANGED link,
             s \in InUse(L) <=> pc["hw_controller"] \in InUse(L)
      PROVE  Account'
  <2>1. Steady("hw_controller", s) /\ s \in Place
    BY <1>2, <1>4
  <2>2. /\ pc' \in [Procs -> Place] /\ link' \in [Links -> Interface] /\ BuffersKept'
        /\ \A q \in Procs \ {"hw_controller"} : pc'[q] = pc[q]
    BY <1>1, <1>4, <2>1, GoesKeeps
  <2> QED
    BY <1>3, <1>4, <2>2
<1>5. CASE HwcTake
  <2>1. pc["hw_controller"] \notin InUse(L)
    BY <1>2, <1>5 DEF HwcTake, At
  <2>2. CASE Take(L, "frame", "hold")
    BY <1>1, <1>2, <1>3, <2>1, <2>2, TakeKeeps
  <2>3. CASE Goes("hw_controller", "serving") /\ link' = CloseEnds("hw_controller")
    BY <1>1, <1>2, <1>3, <2>3, CloseKeeps
  <2>4. CASE Goes("hw_controller", "serving") /\ UNCHANGED link
    BY <1>2, <1>4, <2>1, <2>4
  <2> QED
    BY <1>5, <2>2, <2>3, <2>4 DEF HwcTake
<1>6. CASE HwcAsk
  <2>1. pc["hw_controller"] \in InUse(L) /\ "asks" \in InUse(L)
    BY <1>2, <1>6 DEF HwcAsk, At
  <2> QED
    BY <1>4, <1>6, <2>1 DEF HwcAsk
<1>7. CASE HwcHandBack
  <2>1. pc[Sink(L)] \in InUse(L) /\ pc["hw_controller"] \in InUse(L)
    BY <1>2, <1>7 DEF HwcHandBack, At
  <2>2. CASE HandBack(L, "wait")
    <3>1. "wait" \notin InUse(L) /\ "wait" \in Place
      BY <1>2
    <3> QED
      BY <1>1, <1>2, <1>3, <2>1, <2>2, <3>1, HandBackKeeps
  <2>3. CASE Goes("hw_controller", "crashed") /\ UNCHANGED link
    BY <1>2, <1>4, <2>1, <2>3
  <2> QED
    BY <1>7, <2>2, <2>3 DEF HwcHandBack
<1> QED
  BY <1>5, <1>6, <1>7 DEF HwcStep

LEMMA StartupAccount == Account /\ StartupStep => Account'
<1> SUFFICES ASSUME Account, StartupStep PROVE Account'
  OBVIOUS
<1>1. /\ TypeOK /\ BuffersKept /\ Reserved
      /\ "decimator_in" \in Links /\ "decimator_out" \in Links /\ got \subseteq Links
      /\ link \in [Links -> Interface] /\ opened \in [Procs -> Nat]
  BY DEF Account, TypeOK, Links
<1>2. PICK l \in Links :
         \/ OpenForward(l) \/ OpenBackward(l) \/ OpenBackwardReader(l)
         \/ OpenBackwardWriter(l) \/ SendInitReady(l) \/ WaitInitReady(l)
  BY DEF StartupStep
<1>3. UNCHANGED <<pc, got>> /\ \E P : Opens(P)
  BY <1>2 DEF OpenForward, OpenBackward, OpenBackwardReader, OpenBackwardWriter,
              SendInitReady, WaitInitReady
<1>4. opened' \in [Procs -> Nat]
  BY <1>1, <1>3 DEF Opens
<1>5. link[l] \in Interface
  BY <1>1
<1>6. ASSUME NEW x \in Interface, link' = [link EXCEPT ![l] = x],
             x.free = link[l].free, x.bw = link[l].bw, x.snkOpen = link[l].snkOpen,
             Frames(x.fw) = Frames(link[l].fw)
      PROVE  Account'
  <2>1. link' \in [Links -> Interface] /\ link'[l] = x /\ \A k \in Links \ {l} : link'[k] = link[k]
    BY <1>1, <1>6
  <2>2. ASSUME NEW k \in Links PROVE KeptOn(k)'
    <3>1. KeptOn(k)
      BY <1>1, KeptOnAll
    <3>2. /\ link'[k].free = link[k].free /\ link'[k].bw = link[k].bw
          /\ link'[k].snkOpen = link[k].snkOpen /\ Frames(link'[k].fw) = Frames(link[k].fw)
      BY <1>6, <2>1
    <3> QED
      BY <1>3, <3>1, <3>2 DEF KeptOn, Announced, Held
  <2>3. BuffersKept'
    BY <2>2 DEF BuffersKept, KeptOn
  <2>4. Reserved'
    <3>1. \A k \in Links : link'[k].free = link[k].free
      BY <1>6, <2>1
    <3> QED
      BY <1>1, <1>3, <3>1, ReservedElsewhere
  <2> QED
    BY <1>1, <1>3, <1>4, <2>1, <2>3, <2>4 DEF Account, TypeOK
<1>7. CASE UNCHANGED link
  <2>1. link' = [link EXCEPT ![l] = link[l]]
    BY <1>1, <1>7
  <2> QED
    BY <1>5, <1>6, <2>1
<1>8. ASSUME NEW r \in BOOLEAN, NEW w \in BOOLEAN,
             link' = [link EXCEPT ![l] = [link[l] EXCEPT !.bwReader = r, !.bwWriter = w]]
      PROVE  Account'
  <2> DEFINE x == [link[l] EXCEPT !.bwReader = r, !.bwWriter = w]
  <2>1. /\ x \in Interface /\ x.free = link[l].free /\ x.bw = link[l].bw
        /\ x.snkOpen = link[l].snkOpen /\ x.fw = link[l].fw
    BY <1>5 DEF Interface
  <2> HIDE DEF x
  <2>2. link' = [link EXCEPT ![l] = x]
    BY <1>8 DEF x
  <2> QED
    BY <1>6, <2>1, <2>2
<1>9. CASE OpenForward(l)
  BY <1>7, <1>9 DEF OpenForward, MeetsForward, BothAtStep
<1>10. CASE OpenBackward(l)
  <2>1. link' = [link EXCEPT ![l] = [link[l] EXCEPT !.bwReader = TRUE, !.bwWriter = TRUE]]
    BY <1>1, <1>10 DEF OpenBackward
  <2> QED
    BY <1>8, <2>1
<1>11. CASE OpenBackwardReader(l)
  <2>1. link[l].bwWriter \in BOOLEAN
    BY <1>5 DEF Interface
  <2>2. [link[l] EXCEPT !.bwReader = TRUE] =
           [link[l] EXCEPT !.bwReader = TRUE, !.bwWriter = link[l].bwWriter]
    BY <1>5 DEF Interface
  <2>3. link' = [link EXCEPT ![l] = [link[l] EXCEPT !.bwReader = TRUE]]
    BY <1>1, <1>11 DEF OpenBackwardReader
  <2> QED
    BY <1>8, <2>1, <2>2, <2>3
<1>12. CASE OpenBackwardWriter(l)
  <2>1. link[l].bwReader \in BOOLEAN
    BY <1>5 DEF Interface
  <2>2. [link[l] EXCEPT !.bwWriter = TRUE] =
           [link[l] EXCEPT !.bwReader = link[l].bwReader, !.bwWriter = TRUE]
    BY <1>5 DEF Interface
  <2>3. link' = [link EXCEPT ![l] = [link[l] EXCEPT !.bwWriter = TRUE]]
    BY <1>1, <1>12 DEF OpenBackwardWriter
  <2> QED
    BY <1>8, <2>1, <2>2, <2>3
<1>13. ASSUME NEW q \in Seq(Signal), Frames(q) = Frames(link[l].fw),
              link' = [link EXCEPT ![l] = [link[l] EXCEPT !.fw = q]]
       PROVE  Account'
  <2> DEFINE x == [link[l] EXCEPT !.fw = q]
  <2>1. /\ x \in Interface /\ x.free = link[l].free /\ x.bw = link[l].bw
        /\ x.snkOpen = link[l].snkOpen /\ x.fw = q
    BY <1>5 DEF Interface, Signal
  <2> HIDE DEF x
  <2>2. link' = [link EXCEPT ![l] = x]
    BY <1>13 DEF x
  <2> QED
    BY <1>6, <1>13, <2>1, <2>2
<1>14. CASE SendInitReady(l)
  <2>1. link' = [link EXCEPT ![l] = [link[l] EXCEPT !.fw = Append(link[l].fw, "INIT_READY")]]
    BY <1>1, <1>14 DEF SendInitReady
  <2>2. link[l].fw \in Seq(Signal) /\ "INIT_READY" \in Signal /\ "INIT_READY" # "frame"
    BY <1>1, LinkTypes DEF Signal
  <2>3. Append(link[l].fw, "INIT_READY") \in Seq(Signal)
    BY <2>2, AppendProperties
  <2>4. Frames(Append(link[l].fw, "INIT_READY")) = Frames(link[l].fw)
    BY <2>2, FramesCount
  <2> QED
    BY <1>13, <2>1, <2>3, <2>4
<1>15. CASE WaitInitReady(l)
  <2>1. /\ link' = [link EXCEPT ![l] = [link[l] EXCEPT !.fw = Tail(link[l].fw)]]
        /\ link[l].fw # <<>> /\ Head(link[l].fw) = "INIT_READY"
    BY <1>1, <1>15 DEF WaitInitReady, MayTakeReady, ReadyAnnounced
  <2>2. link[l].fw \in Seq(Signal)
    BY <1>1, LinkTypes
  <2>3. Tail(link[l].fw) \in Seq(Signal)
    BY <2>1, <2>2, TailElements
  <2>4. Frames(Tail(link[l].fw)) = Frames(link[l].fw)
    <3>1. Frames(Tail(link[l].fw)) \in Nat
      BY <2>3, FramesCount
    <3>2. Frames(link[l].fw) = Frames(Tail(link[l].fw)) + 0
      BY <2>1, <2>2, FramesCount
    <3> QED
      BY <3>1, <3>2
  <2> QED
    BY <1>13, <2>1, <2>3, <2>4
<1> QED
  BY <1>2, <1>9, <1>10, <1>11, <1>12, <1>14, <1>15

LEMMA InitAccount == Init => Account
<1> SUFFICES ASSUME Init PROVE Account
  OBVIOUS
<1>1. TypeOK
  <2>1. opened \in [Procs -> Nat] /\ got \subseteq {"delay_sync_iq", "delay_sync_hwc"}
    BY DEF Init
  <2>2. pc \in [Procs -> Place]
    BY DEF Init, Place, Procs
  <2>3. <<>> \in Seq(Signal)
    BY EmptySeq
  <2>4. link \in [Links -> Interface]
    BY <2>3 DEF Init, Interface, Signal
  <2> QED
    BY <2>1, <2>2, <2>4 DEF TypeOK
<1>2. Reserved
  BY DEF Init, Reserved, Procs
<1>3. BuffersKept
  <2> SUFFICES ASSUME NEW l \in Links PROVE KeptOn(l)
    BY KeptOnAll
  <2>1. link[l].free = 2 /\ link[l].fw = <<>> /\ link[l].bw = 0
    BY DEF Init
  <2>2. Announced(l) = 0
    <3>1. {i \in DOMAIN link[l].fw : link[l].fw[i] = "frame"} = {}
      BY <2>1
    <3> QED
      BY <3>1, FS_EmptySet DEF Announced, Frames
  <2>3. Held(l) = 0
    BY DEF Init, Held, InUse, Sink, Links, Procs
  <2> QED
    BY <2>1, <2>2, <2>3 DEF KeptOn
<1> QED
  BY <1>1, <1>2, <1>3 DEF Account

LEMMA AccountStep == Account /\ [Next]_vars => Account'
<1> SUFFICES ASSUME Account, [Next]_vars PROVE Account'
  OBVIOUS
<1>1. CASE StartupStep
  BY <1>1, StartupAccount
<1>2. CASE InputEnds \/ RebufferStep
  BY <1>2, RebufferAccount
<1>3. CASE DecimatorStep \/ FilterSetupFails
  BY <1>3, DecimatorAccount
<1>4. CASE DelaySyncStep
  BY <1>4, DelaySyncAccount
<1>5. CASE IqServerStep \/ ClientStep
  BY <1>5, IqServerAccount
<1>6. CASE HwcStep
  BY <1>6, HwcAccount
<1>7. ASSUME NEW p \in Procs, StartFails(p) \/ Kill(p) PROVE Account'
  BY <1>7, EndsAccount DEF StartFails, Kill
<1>8. CASE UNCHANGED vars
  <2>1. UNCHANGED <<opened, pc, link, got>>
    BY <1>8 DEF vars
  <2> QED
    BY <2>1 DEF Account, TypeOK, Reserved, BuffersKept, Announced, Held
<1> QED
  BY <1>1, <1>2, <1>3, <1>4, <1>5, <1>6, <1>7, <1>8 DEF Next

\* Types, the account of the buffers and the buffers the sources hold ready to announce.
THEOREM AccountHolds == Spec => []Account
<1>1. Init => Account
  BY InitAccount
<1>2. Account /\ [Next]_vars => Account'
  BY AccountStep
<1> QED
  BY <1>1, <1>2, PTL DEF Spec

\* As long as its sink runs no link loses a buffer, whoever else ends, is killed or
\* loses its client (iq_server.c hands the buffer back whatever the transfer did).
THEOREM NoBufferLost == Spec => []BuffersKept
<1>1. Account => BuffersKept
  BY DEF Account
<1> QED
  BY <1>1, AccountHolds, PTL
-----------------------------------------------------------------------------
(* Nothing ends by itself: while nothing has happened, every step leaves the *)
(* chain undisturbed.                                                        *)

\* No end of a link is closed, nobody is told to end.
Quiet == \A l \in Links : /\ link[l].srcOpen /\ link[l].snkOpen
                          /\ \A i \in DOMAIN link[l].fw : link[l].fw[i] # "TERMINATE"

\* Whoever has opened a backward FIFO for writing keeps it.
WritersStay == \A l \in Links : link[l].bwWriter => link'[l].bwWriter

\* Every process is at a place of its loop.
Looping ==
    /\ pc["rebuffer"] \in {"alloc", "send"}
    /\ pc["decimator"] \in {"setup", "wait", "alloc", "send", "free"}
    /\ pc["delay_sync"] \in {"wait", "alloc iq", "alloc hwc", "send iq", "asks", "send hwc", "free"}
    /\ pc["iq_server"] \in {"client", "wait", "send", "free"}
    /\ pc["hw_controller"] \in {"wait", "hold", "asks"}

\* The C programs that are up have somebody to hand their buffers back.
Served ==
    /\ opened["rebuffer"] >= 2 => link["decimator_in"].bwWriter
    /\ opened["decimator"] >= 5 => link["decimator_out"].bwWriter

LEMMA UndisturbedParts == Undisturbed <=> Quiet /\ Looping /\ Served
BY DEF Undisturbed, Quiet, Looping, Served

LEMMA QuietStep ==
    ASSUME TypeOK, Quiet, NEW l \in Links, NEW x \in Interface, link' = [link EXCEPT ![l] = x],
           x.srcOpen = link[l].srcOpen, x.snkOpen = link[l].snkOpen,
           link[l].bwWriter => x.bwWriter,
           \/ x.fw = link[l].fw
           \/ link[l].fw # <<>> /\ x.fw = Tail(link[l].fw)
           \/ \E y \in Signal \ {"TERMINATE"} : x.fw = Append(link[l].fw, y)
    PROVE  Quiet' /\ WritersStay
<1>1. /\ link'[l] = x /\ \A k \in Links \ {l} : link'[k] = link[k]
  BY DEF TypeOK
<1>2. link[l].fw \in Seq(Signal)
  BY LinkTypes
<1>3. \A i \in DOMAIN x.fw : x.fw[i] # "TERMINATE"
  <2>1. \A i \in DOMAIN link[l].fw : link[l].fw[i] # "TERMINATE"
    BY DEF Quiet
  <2>2. CASE x.fw = link[l].fw
    BY <2>1, <2>2
  <2>3. CASE link[l].fw # <<>> /\ x.fw = Tail(link[l].fw)
    BY <1>2, <2>1, <2>3, TailElements
  <2>4. ASSUME NEW y \in Signal \ {"TERMINATE"}, x.fw = Append(link[l].fw, y)
        PROVE  \A i \in DOMAIN x.fw : x.fw[i] # "TERMINATE"
    BY <1>2, <2>1, <2>4, AppendElements
  <2> QED
    BY <2>2, <2>3, <2>4
<1>4. Quiet'
  BY <1>1, <1>3 DEF Quiet
<1>5. WritersStay
  BY <1>1 DEF WritersStay
<1> QED
  BY <1>4, <1>5

\* The uses of an interface in a quiet chain.
LEMMA QuietAlloc ==
    ASSUME TypeOK, Quiet, NEW l \in Links, NEW s, AllocSucceeds(l, s)
    PROVE  Goes(Source(l), s) /\ Quiet' /\ WritersStay
<1>1. CASE UNCHANGED link
  BY <1>1 DEF AllocSucceeds, Quiet, WritersStay
<1>2. CASE link' = [link EXCEPT ![l].free = 1, ![l].bw = @ - 1] /\ link[l].bw > 0
  <2> DEFINE x == [link[l] EXCEPT !.free = 1, !.bw = link[l].bw - 1]
  <2>1. link \in [Links -> Interface] /\ link[l] \in Interface
    BY DEF TypeOK
  <2>2. link[l].bw - 1 \in Nat /\ 1 \in 0 .. 2
    BY <1>2, LinkTypes
  <2>3. /\ x \in Interface /\ x.srcOpen = link[l].srcOpen /\ x.snkOpen = link[l].snkOpen
        /\ x.bwWriter = link[l].bwWriter /\ x.fw = link[l].fw
    BY <2>1, <2>2 DEF Interface
  <2>4. link' = [link EXCEPT ![l] = x]
    BY <1>2, <2>1
  <2> HIDE DEF x
  <2> QED
    BY <2>3, <2>4, QuietStep DEF AllocSucceeds
<1> QED
  BY <1>1, <1>2 DEF AllocSucceeds

LEMMA QuietAnnounce ==
    ASSUME Account, Quiet, NEW l \in Links, NEW s, Announce(l, "frame", s), link[l].free > 0
    PROVE  Goes(Source(l), s) /\ Quiet' /\ WritersStay
<1> DEFINE x == [link[l] EXCEPT !.fw = Append(link[l].fw, "frame"), !.free = link[l].free - 1]
<1>1. /\ TypeOK /\ link \in [Links -> Interface] /\ link[l] \in Interface
      /\ link[l].snkOpen
  BY DEF Account, TypeOK, Quiet
<1>2. link[l].free - 1 \in 0 .. 2 /\ Append(link[l].fw, "frame") \in Seq(Signal)
  BY <1>1, LinkTypes, AppendProperties DEF Signal
<1>3. /\ x \in Interface /\ x.srcOpen = link[l].srcOpen /\ x.snkOpen = link[l].snkOpen
      /\ x.bwWriter = link[l].bwWriter /\ x.fw = Append(link[l].fw, "frame")
  BY <1>1, <1>2 DEF Interface, Signal
<1>4. Goes(Source(l), s) /\ link' = [link EXCEPT ![l] = x]
  BY <1>1 DEF Announce
<1>5. "frame" \in Signal \ {"TERMINATE"}
  BY DEF Signal
<1> HIDE DEF x
<1> QED
  BY <1>1, <1>3, <1>4, <1>5, QuietStep

LEMMA QuietTake ==
    ASSUME TypeOK, Quiet, NEW l \in Links, NEW s, NEW what, Take(l, what, s)
    PROVE  what # "TERMINATE" /\ Goes(Sink(l), s) /\ Quiet' /\ WritersStay
<1> DEFINE x == [link[l] EXCEPT !.fw = Tail(link[l].fw)]
<1>1. /\ link \in [Links -> Interface] /\ link[l] \in Interface
      /\ link[l].fw # <<>> /\ link[l].fw \in Seq(Signal) /\ Head(link[l].fw) = what
  BY LinkTypes DEF TypeOK, Take
<1>2. Tail(link[l].fw) \in Seq(Signal) /\ what # "TERMINATE"
  BY <1>1, TailElements DEF Quiet
<1>3. /\ x \in Interface /\ x.srcOpen = link[l].srcOpen /\ x.snkOpen = link[l].snkOpen
      /\ x.bwWriter = link[l].bwWriter /\ x.fw = Tail(link[l].fw)
  BY <1>1, <1>2 DEF Interface, Signal
<1>4. Goes(Sink(l), s) /\ link' = [link EXCEPT ![l] = x]
  BY DEF Take
<1> HIDE DEF x
<1> QED
  BY <1>1, <1>2, <1>3, <1>4, QuietStep

LEMMA QuietHandBack ==
    ASSUME TypeOK, Quiet, NEW l \in Links, NEW s, HandBack(l, s)
    PROVE  Goes(Sink(l), s) /\ Quiet' /\ WritersStay
<1> DEFINE x == [link[l] EXCEPT !.bw = link[l].bw + 1]
<1>1. /\ link \in [Links -> Interface] /\ link[l] \in Interface
      /\ link[l].srcOpen /\ link[l].bw + 1 \in Nat
  BY LinkTypes DEF TypeOK, Quiet
<1>2. /\ x \in Interface /\ x.srcOpen = link[l].srcOpen /\ x.snkOpen = link[l].snkOpen
      /\ x.bwWriter = link[l].bwWriter /\ x.fw = link[l].fw
  BY <1>1 DEF Interface
<1>3. Goes(Sink(l), s) /\ link' = [link EXCEPT ![l] = x]
  BY <1>1 DEF HandBack
<1> HIDE DEF x
<1> QED
  BY <1>2, <1>3, QuietStep

\* A C program that is up never finds its interface without a writer.
LEMMA NeverAtEof ==
    ASSUME Quiet, Served, NEW p \in {"rebuffer", "decimator"}, Running(p), NEW l \in Links,
           Source(l) = p
    PROVE  ~AllocAtEof(l)
<1>1. CASE p = "rebuffer"
  <2>1. l = "decimator_in" /\ opened["rebuffer"] = 3
    BY <1>1, StartupOrder, LinkEnds DEF Running, Links
  <2> QED
    BY <2>1 DEF AllocAtEof, HasWriter, Served, Quiet
<1>2. CASE p = "decimator"
  <2>1. l = "decimator_out" /\ opened["decimator"] = 6
    BY <1>2, StartupOrder, LinkEnds DEF Running, Links
  <2> QED
    BY <2>1 DEF AllocAtEof, HasWriter, Served, Quiet
<1> QED
  BY <1>1, <1>2
Loop(p) ==
    CASE p = "rebuffer" -> {"alloc", "send"}
      [] p = "decimator" -> {"setup", "wait", "alloc", "send", "free"}
      [] p = "delay_sync" -> {"wait", "alloc iq", "alloc hwc", "send iq", "asks", "send hwc", "free"}
      [] p = "iq_server" -> {"client", "wait", "send", "free"}
      [] p = "hw_controller" -> {"wait", "hold", "asks"}

LEMMA LoopPlaces ==
    /\ Loop("rebuffer") = {"alloc", "send"}
    /\ Loop("decimator") = {"setup", "wait", "alloc", "send", "free"}
    /\ Loop("delay_sync") =
          {"wait", "alloc iq", "alloc hwc", "send iq", "asks", "send hwc", "free"}
    /\ Loop("iq_server") = {"client", "wait", "send", "free"}
    /\ Loop("hw_controller") = {"wait", "hold", "asks"}
BY DEF Loop

LEMMA LoopingAll == Looping <=> \A p \in Procs : pc[p] \in Loop(p)
BY LoopPlaces DEF Looping, Procs

\* A move within a process's loop.
LEMMA CalmMove ==
    ASSUME TypeOK, Undisturbed, NEW p \in Procs, NEW s \in Loop(p), Goes(p, s),
           Quiet', WritersStay, UNCHANGED opened
    PROVE  Undisturbed'
<1>1. /\ pc' = [pc EXCEPT ![p] = s] /\ pc \in [Procs -> Place]
      /\ \A q \in Procs : pc[q] \in Loop(q)
  BY UndisturbedParts, LoopingAll DEF Goes, TypeOK
<1>2. \A q \in Procs : pc'[q] \in Loop(q)
  BY <1>1
<1>3. Looping'
  BY <1>2, LoopPlaces DEF Looping, Procs
<1>4. Served'
  BY UndisturbedParts DEF Served, WritersStay, Links
<1> QED
  BY <1>3, <1>4 DEF Undisturbed, Quiet, Looping, Served

LEMMA QuietSame == ASSUME Quiet, UNCHANGED link PROVE Quiet' /\ WritersStay
BY DEF Quiet, WritersStay

LEMMA RebufferUndisturbed ==
    ASSUME Account, Undisturbed, RebufferStep
    PROVE  Undisturbed'
<1>1. /\ TypeOK /\ Reserved /\ Quiet /\ Served /\ UNCHANGED opened
      /\ pc["rebuffer"] \in {"alloc", "send"}
      /\ "rebuffer" \in Procs /\ "decimator_in" \in Links
      /\ Source("decimator_in") = "rebuffer"
      /\ "alloc" \in Loop("rebuffer") /\ "send" \in Loop("rebuffer")
  BY UndisturbedParts, LinkEnds, LoopPlaces DEF Account, Looping, RebufferStep, Procs, Links
<1>2. CASE AllocSucceeds("decimator_in", "send")
  BY <1>1, <1>2, QuietAlloc, CalmMove
<1>3. CASE At("rebuffer", "send") /\ Announce("decimator_in", "frame", "alloc")
  <2>1. link["decimator_in"].free > 0
    BY <1>1, <1>3 DEF Reserved, At
  <2>2. Goes(Source("decimator_in"), "alloc") /\ Quiet' /\ WritersStay
    BY <1>1, <1>3, <2>1, QuietAnnounce
  <2> QED
    BY <1>1, <2>2, CalmMove
<1>4. CASE At("rebuffer", "alloc") /\ AllocAtEof("decimator_in")
  BY <1>1, <1>4, NeverAtEof DEF At
<1>5. ~At("rebuffer", "end") /\ ~At("rebuffer", "linger")
  BY <1>1 DEF At
<1> QED
  BY <1>2, <1>3, <1>4, <1>5 DEF RebufferStep, RebufferFrame, RebufferEnd

LEMMA DecimatorUndisturbed ==
    ASSUME Account, Undisturbed, DecimatorStep
    PROVE  Undisturbed'
<1>1. /\ TypeOK /\ Reserved /\ Quiet /\ Served /\ UNCHANGED opened
      /\ pc["decimator"] \in {"setup", "wait", "alloc", "send", "free"}
      /\ "decimator" \in Procs /\ "decimator_in" \in Links /\ "decimator_out" \in Links
      /\ Source("decimator_out") = "decimator" /\ Sink("decimator_in") = "decimator"
      /\ {"wait", "alloc", "send", "free"} \subseteq Loop("decimator")
  BY UndisturbedParts, LinkEnds, LoopPlaces DEF Account, Looping, DecimatorStep, Procs, Links
<1>2. CASE DecimatorSetup
  BY <1>1, <1>2, QuietSame, CalmMove DEF DecimatorSetup
<1>3. CASE DecimatorTake
  <2>1. CASE Take("decimator_in", "frame", "alloc")
    BY <1>1, <2>1, QuietTake, CalmMove
  <2>2. ~Take("decimator_in", "TERMINATE", "end")
    BY <1>1, QuietTake
  <2>3. ~DrainedAndClosed("decimator_in")
    BY <1>1 DEF DrainedAndClosed, Quiet
  <2> QED
    BY <1>3, <2>1, <2>2, <2>3 DEF DecimatorTake
<1>4. CASE DecimatorAlloc
  <2>1. CASE AllocSucceeds("decimator_out", "send")
    BY <1>1, <2>1, QuietAlloc, CalmMove
  <2>2. CASE AllocDrops("decimator_out", "free")
    BY <1>1, <2>2, QuietSame, CalmMove DEF AllocDrops
  <2>3. ~AllocAtEof("decimator_out")
    BY <1>1, <1>4, NeverAtEof DEF DecimatorAlloc, At
  <2> QED
    BY <1>4, <2>1, <2>2, <2>3 DEF DecimatorAlloc
<1>5. CASE DecimatorSend
  <2>1. CASE At("decimator", "send") /\ Announce("decimator_out", "frame", "free")
    <3>1. link["decimator_out"].free > 0
      BY <1>1, <2>1 DEF Reserved, At
    <3>2. Goes(Source("decimator_out"), "free") /\ Quiet' /\ WritersStay
      BY <1>1, <2>1, <3>1, QuietAnnounce
    <3> QED
      BY <1>1, <3>2, CalmMove
  <2>2. CASE HandBack("decimator_in", "wait")
    BY <1>1, <2>2, QuietHandBack, CalmMove
  <2>3. ~At("decimator", "last free")
    BY <1>1 DEF At
  <2> QED
    BY <1>5, <2>1, <2>2, <2>3 DEF DecimatorSend
<1>6. ~DecimatorEnd
  BY <1>1 DEF DecimatorEnd, At
<1> QED
  BY <1>2, <1>3, <1>4, <1>5, <1>6 DEF DecimatorStep

\* delay_sync ends at the interface of a sink that has no writer only when that sink is
\* late, which is an incident.
LEMMA DelaySyncUndisturbed ==
    ASSUME Account, Undisturbed, DelaySyncStep, why' = {}
    PROVE  Undisturbed'
<1> DEFINE Outputs == {"delay_sync_iq", "delay_sync_hwc"}
           Busy == {"alloc iq", "alloc hwc", "send iq", "asks", "send hwc", "free"}
<1>1. /\ TypeOK /\ Reserved /\ Quiet /\ Served /\ UNCHANGED opened
      /\ pc["delay_sync"] \in Busy \cup {"wait"}
      /\ "delay_sync" \in Procs /\ "decimator_out" \in Links /\ Outputs \subseteq Links
      /\ Sink("decimator_out") = "delay_sync" /\ \A l \in Outputs : Source(l) = "delay_sync"
      /\ Loop("delay_sync") = Busy \cup {"wait"}
  BY UndisturbedParts, LinkEnds, LoopPlaces DEF Account, Looping, DelaySyncStep, Procs, Links
<1>2. CASE DelaySyncTake
  <2>1. CASE Take("decimator_out", "frame", "alloc iq")
    BY <1>1, <2>1, QuietTake, CalmMove
  <2>2. ~Take("decimator_out", "TERMINATE", "close in")
    BY <1>1, QuietTake
  <2>3. ~DrainedAndClosed("decimator_out")
    BY <1>1 DEF DrainedAndClosed, Quiet
  <2> QED
    BY <1>2, <2>1, <2>2, <2>3 DEF DelaySyncTake
<1>3. ASSUME NEW l \in Outputs, NEW from, NEW to \in Busy, DelaySyncAlloc(l, from, to)
      PROVE  Undisturbed'
  <2>1. CASE AllocSucceeds(l, to)
    BY <1>1, <2>1, QuietAlloc, CalmMove
  <2>2. CASE AllocDrops(l, to)
    BY <1>1, <2>2, QuietSame, CalmMove DEF AllocDrops
  <2>3. CASE /\ AllocAtEof(l)
             /\ why' = IF link[l].bwWriter THEN why ELSE why \cup {"late open"}
    <3>1. link[l].bwWriter
      BY <2>3
    <3>2. HasWriter(l)
      BY <1>1, <3>1 DEF HasWriter, Quiet
    <3> QED
      BY <2>3, <3>2 DEF AllocAtEof
  <2> QED
    BY <1>3, <2>1, <2>2, <2>3 DEF DelaySyncAlloc
<1>4. ASSUME NEW l \in Outputs, NEW from, NEW to \in Busy, DelaySyncAnnounce(l, from, to)
      PROVE  Undisturbed'
  <2>1. CASE l \in got /\ Announce(l, "frame", to)
    <3>1. link[l].free > 0
      BY <1>1, <2>1 DEF Reserved
    <3>2. Goes(Source(l), to) /\ Quiet' /\ WritersStay
      BY <1>1, <2>1, <3>1, QuietAnnounce
    <3> QED
      BY <1>1, <3>2, CalmMove
  <2>2. CASE Goes("delay_sync", to) /\ UNCHANGED link
    BY <1>1, <2>2, QuietSame, CalmMove
  <2> QED
    BY <1>4, <2>1, <2>2 DEF DelaySyncAnnounce
<1>5. CASE DelaySyncHandBack
  <2>1. HandBack("decimator_out", "wait")
    BY <1>5 DEF DelaySyncHandBack
  <2> QED
    BY <1>1, <2>1, QuietHandBack, CalmMove
<1>6. ~DelaySyncClose
  BY <1>1 DEF DelaySyncClose, At
<1>7. CASE DelaySyncAsk
  BY <1>1, <1>7, QuietSame, CalmMove DEF DelaySyncAsk
<1> QED
  BY <1>2, <1>3, <1>4, <1>5, <1>6, <1>7 DEF DelaySyncStep

LEMMA IqServerUndisturbed ==
    ASSUME Account, Undisturbed, IqServerStep \/ ClientStep, why' = {}
    PROVE  Undisturbed'
<1>1. /\ TypeOK /\ Quiet /\ UNCHANGED opened
      /\ "iq_server" \in Procs /\ "delay_sync_iq" \in Links
      /\ Sink("delay_sync_iq") = "iq_server"
      /\ Loop("iq_server") = {"client", "wait", "send", "free"}
  BY UndisturbedParts, LinkEnds, LoopPlaces
     DEF Account, IqServerStep, ClientStep, Procs, Links
<1>2. CASE IqServerTake
  <2>1. CASE Take("delay_sync_iq", "frame", "send")
    BY <1>1, <2>1, QuietTake, CalmMove
  <2>2. ~Take("delay_sync_iq", "TERMINATE", "client")
    BY <1>1, QuietTake
  <2>3. ~(link["delay_sync_iq"].fw # <<>> /\ Head(link["delay_sync_iq"].fw) = "TERMINATE")
    BY <1>1, LinkTypes, TailElements DEF Quiet
  <2>4. ~DrainedAndClosed("delay_sync_iq")
    BY <1>1 DEF DrainedAndClosed, Quiet
  <2> QED
    BY <1>2, <2>1, <2>2, <2>3, <2>4 DEF IqServerTake
<1>3. CASE IqServerHandBack
  <2>1. HandBack("delay_sync_iq", "client")
    BY <1>3 DEF IqServerHandBack
  <2> QED
    BY <1>1, <2>1, QuietHandBack, CalmMove
<1>4. CASE IqServerClient
  BY <1>1, <1>4, QuietSame, CalmMove DEF IqServerClient
<1>5. CASE IqServerSend
  <2>1. Goes("iq_server", "free") /\ UNCHANGED link
    BY <1>5 DEF IqServerSend
  <2> QED
    BY <1>1, <2>1, QuietSame, CalmMove
<1> QED
  BY <1>2, <1>3, <1>4, <1>5 DEF IqServerStep, ClientStep

LEMMA HwcUndisturbed ==
    ASSUME Account, Undisturbed, HwcStep
    PROVE  Undisturbed'
<1>1. /\ TypeOK /\ Quiet /\ UNCHANGED opened
      /\ "hw_controller" \in Procs /\ "delay_sync_hwc" \in Links
      /\ Sink("delay_sync_hwc") = "hw_controller"
      /\ Loop("hw_controller") = {"wait", "hold", "asks"}
  BY UndisturbedParts, LinkEnds, LoopPlaces DEF Account, HwcStep, Procs, Links
<1>2. CASE Take("delay_sync_hwc", "frame", "hold")
  BY <1>1, <1>2, QuietTake, CalmMove
<1>3. ~(link["delay_sync_hwc"].fw # <<>> /\ Head(link["delay_sync_hwc"].fw) = "TERMINATE")
  BY <1>1, LinkTypes, TailElements DEF Quiet
<1>4. ~DrainedAndClosed("delay_sync_hwc")
  BY <1>1 DEF DrainedAndClosed, Quiet
<1>5. CASE HandBack("delay_sync_hwc", "wait")
  BY <1>1, <1>5, QuietHandBack, CalmMove
<1>6. link["delay_sync_hwc"].srcOpen
  BY <1>1 DEF Quiet
<1>7. CASE HwcAsk
  BY <1>1, <1>7, QuietSame, CalmMove DEF HwcAsk
<1> QED
  BY <1>2, <1>3, <1>4, <1>5, <1>6, <1>7 DEF HwcStep, HwcTake, HwcHandBack

\* A C program has opened the backward FIFO of its output only together with the sink.
LEMMA StartupUndisturbed ==
    ASSUME Account, Undisturbed, StartupStep
    PROVE  Undisturbed'
<1>1. /\ TypeOK /\ Quiet /\ Served /\ Looping
      /\ link \in [Links -> Interface] /\ opened \in [Procs -> Nat]
  BY UndisturbedParts DEF Account, TypeOK
<1>2. PICK l \in Links :
         \/ OpenForward(l) \/ OpenBackward(l) \/ OpenBackwardReader(l)
         \/ OpenBackwardWriter(l) \/ SendInitReady(l) \/ WaitInitReady(l)
  BY DEF StartupStep
<1>3. UNCHANGED pc
  BY <1>2 DEF OpenForward, OpenBackward, OpenBackwardReader, OpenBackwardWriter,
              SendInitReady, WaitInitReady
<1>4. link[l] \in Interface /\ link[l].fw \in Seq(Signal)
  BY <1>1, LinkTypes
<1>5. Quiet' /\ WritersStay
  <2>1. CASE UNCHANGED link
    BY <1>1, <2>1, QuietSame
  <2>2. ASSUME NEW x \in Interface, link' = [link EXCEPT ![l] = x],
               x.srcOpen = link[l].srcOpen, x.snkOpen = link[l].snkOpen,
               x.fw = link[l].fw, link[l].bwWriter => x.bwWriter
        PROVE  Quiet' /\ WritersStay
    BY <1>1, <2>2, QuietStep
  <2>3. CASE OpenForward(l)
    BY <2>1, <2>3 DEF OpenForward, MeetsForward, BothAtStep
  <2>4. CASE OpenBackward(l)
    <3> DEFINE x == [link[l] EXCEPT !.bwReader = TRUE, !.bwWriter = TRUE]
    <3>1. link' = [link EXCEPT ![l] = x]
      BY <1>1, <2>4 DEF OpenBackward
    <3>2. /\ x \in Interface /\ x.srcOpen = link[l].srcOpen /\ x.snkOpen = link[l].snkOpen
          /\ x.fw = link[l].fw /\ x.bwWriter = TRUE
      BY <1>4 DEF Interface
    <3> HIDE DEF x
    <3> QED
      BY <2>2, <3>1, <3>2
  <2>5. CASE OpenBackwardReader(l)
    <3> DEFINE x == [link[l] EXCEPT !.bwReader = TRUE]
    <3>1. link' = [link EXCEPT ![l] = x]
      BY <1>1, <2>5 DEF OpenBackwardReader
    <3>2. /\ x \in Interface /\ x.srcOpen = link[l].srcOpen /\ x.snkOpen = link[l].snkOpen
          /\ x.fw = link[l].fw /\ x.bwWriter = link[l].bwWriter
      BY <1>4 DEF Interface
    <3> HIDE DEF x
    <3> QED
      BY <2>2, <3>1, <3>2
  <2>6. CASE OpenBackwardWriter(l)
    <3> DEFINE x == [link[l] EXCEPT !.bwWriter = TRUE]
    <3>1. link' = [link EXCEPT ![l] = x]
      BY <1>1, <2>6 DEF OpenBackwardWriter
    <3>2. /\ x \in Interface /\ x.srcOpen = link[l].srcOpen /\ x.snkOpen = link[l].snkOpen
          /\ x.fw = link[l].fw /\ x.bwWriter = TRUE
      BY <1>4 DEF Interface
    <3> HIDE DEF x
    <3> QED
      BY <2>2, <3>1, <3>2
  <2>7. CASE SendInitReady(l)
    <3> DEFINE x == [link[l] EXCEPT !.fw = Append(link[l].fw, "INIT_READY")]
    <3>1. link' = [link EXCEPT ![l] = x]
      BY <1>1, <2>7 DEF SendInitReady
    <3>2. "INIT_READY" \in Signal \ {"TERMINATE"}
      BY DEF Signal
    <3>3. Append(link[l].fw, "INIT_READY") \in Seq(Signal)
      BY <1>4, <3>2, AppendProperties
    <3>4. /\ x \in Interface /\ x.srcOpen = link[l].srcOpen /\ x.snkOpen = link[l].snkOpen
          /\ x.fw = Append(link[l].fw, "INIT_READY") /\ x.bwWriter = link[l].bwWriter
      BY <1>4, <3>3 DEF Interface, Signal
    <3> HIDE DEF x
    <3> QED
      BY <1>1, <3>1, <3>2, <3>4, QuietStep
  <2>8. CASE WaitInitReady(l)
    <3> DEFINE x == [link[l] EXCEPT !.fw = Tail(link[l].fw)]
    <3>1. link' = [link EXCEPT ![l] = x] /\ link[l].fw # <<>>
      BY <1>1, <2>8 DEF WaitInitReady, MayTakeReady, ReadyAnnounced
    <3>2. Tail(link[l].fw) \in Seq(Signal)
      BY <1>4, <3>1, TailElements
    <3>3. /\ x \in Interface /\ x.srcOpen = link[l].srcOpen /\ x.snkOpen = link[l].snkOpen
          /\ x.fw = Tail(link[l].fw) /\ x.bwWriter = link[l].bwWriter
      BY <1>4, <3>2 DEF Interface, Signal
    <3> HIDE DEF x
    <3> QED
      BY <1>1, <3>1, <3>3, QuietStep
  <2> QED
    BY <1>2, <2>3, <2>4, <2>5, <2>6, <2>7, <2>8
<1>6. ASSUME NEW p \in Procs, NEW k \in Links, ~OpensNonblocking(k),
             opened'[p] # opened[p], Startup[p][opened[p] + 1] = <<"bw", k>>
      PROVE  opened'[p] = opened[p] + 1 /\ link'[k].bwWriter
  <2>1. ASSUME NEW what \in {"fw", "bw", "INIT_READY"}, AtStep(p, <<what, l>>)
        PROVE  what = "bw" /\ l = k
    <3>1. Startup[p][opened[p] + 1] = <<what, l>>
      BY <2>1 DEF AtStep
    <3>2. <<what, l>> = <<"bw", k>>
      BY <1>6, <3>1
    <3> QED
      BY <3>2
  <2>2. ASSUME NEW P, Opens(P)
        PROVE  p \in P /\ opened'[p] = opened[p] + 1
    BY <1>1, <1>6, <2>2 DEF Opens
  <2>3. ~OpenForward(l)
    <3> SUFFICES ASSUME OpenForward(l) PROVE FALSE
      OBVIOUS
    <3>1. p \in {Source(l), Sink(l)}
      BY <2>2 DEF OpenForward, MeetsForward, BothAtStep
    <3>2. AtStep(p, <<"fw", l>>)
      BY <3>1 DEF OpenForward, MeetsForward, BothAtStep
    <3> QED
      BY <2>1, <3>2
  <2>4. ~SendInitReady(l)
    <3> SUFFICES ASSUME SendInitReady(l) PROVE FALSE
      OBVIOUS
    <3>1. p \in {Source(l)}
      BY <2>2 DEF SendInitReady
    <3>2. AtStep(p, <<"INIT_READY", l>>)
      BY <3>1 DEF SendInitReady, MaySendReady
    <3> QED
      BY <2>1, <3>2
  <2>5. ~WaitInitReady(l)
    <3> SUFFICES ASSUME WaitInitReady(l) PROVE FALSE
      OBVIOUS
    <3>1. p \in {Sink(l)}
      BY <2>2 DEF WaitInitReady
    <3>2. AtStep(p, <<"INIT_READY", l>>)
      BY <3>1 DEF WaitInitReady, MayTakeReady, ReadyAnnounced
    <3> QED
      BY <2>1, <3>2
  <2>6. ~OpenBackwardReader(l)
    <3> SUFFICES ASSUME OpenBackwardReader(l) PROVE FALSE
      OBVIOUS
    <3>1. p \in {Source(l)} /\ OpensNonblocking(l)
      BY <2>2 DEF OpenBackwardReader, ReaderMayOpen
    <3>2. AtStep(p, <<"bw", l>>)
      BY <3>1 DEF OpenBackwardReader, ReaderMayOpen
    <3> QED
      BY <1>6, <2>1, <3>1, <3>2
  <2>7. ~OpenBackwardWriter(l)
    <3> SUFFICES ASSUME OpenBackwardWriter(l) PROVE FALSE
      OBVIOUS
    <3>1. p \in {Sink(l)} /\ OpensNonblocking(l)
      BY <2>2 DEF OpenBackwardWriter, WriterMayOpen
    <3>2. AtStep(p, <<"bw", l>>)
      BY <3>1 DEF OpenBackwardWriter, WriterMayOpen
    <3> QED
      BY <1>6, <2>1, <3>1, <3>2
  <2>8. OpenBackward(l)
    BY <1>2, <2>3, <2>4, <2>5, <2>6, <2>7
  <2>9. p \in {Source(l), Sink(l)} /\ opened'[p] = opened[p] + 1
    BY <2>2, <2>8 DEF OpenBackward
  <2>10. AtStep(p, <<"bw", l>>)
    BY <2>8, <2>9 DEF OpenBackward, MeetsBackward, BothAtStep
  <2>11. l = k
    BY <2>1, <2>10
  <2>12. link'[k] = [link[k] EXCEPT !.bwReader = TRUE, !.bwWriter = TRUE]
    BY <1>1, <2>8, <2>11 DEF OpenBackward
  <2>13. link'[k].bwWriter
    BY <1>4, <2>11, <2>12 DEF Interface
  <2> QED
    BY <2>9, <2>13
<1>7. /\ "rebuffer" \in Procs /\ "decimator" \in Procs
      /\ "decimator_in" \in Links /\ "decimator_out" \in Links
      /\ ~OpensNonblocking("decimator_in") /\ ~OpensNonblocking("decimator_out")
  BY LinkEnds DEF Procs, Links, OpensNonblocking
<1>8. \A p \in Procs : opened'[p] = opened[p] \/ opened'[p] = opened[p] + 1
  BY <1>1, <1>2 DEF OpenForward, OpenBackward, OpenBackwardReader, OpenBackwardWriter,
              SendInitReady, WaitInitReady, Opens
<1>9. opened'["rebuffer"] >= 2 => link'["decimator_in"].bwWriter
  <2>1. CASE opened["rebuffer"] >= 2
    BY <1>1, <1>5, <1>7, <2>1 DEF Served, WritersStay
  <2>2. CASE ~(opened["rebuffer"] >= 2) /\ opened'["rebuffer"] >= 2
    <3>1. opened["rebuffer"] + 1 = 2 /\ opened'["rebuffer"] # opened["rebuffer"]
      BY <1>1, <1>7, <1>8, <2>2
    <3>2. Startup["rebuffer"][opened["rebuffer"] + 1] = <<"bw", "decimator_in">>
      BY <3>1, StartupOrder
    <3> QED
      BY <1>6, <1>7, <3>1, <3>2
  <2> QED
    BY <2>1, <2>2
<1>10. opened'["decimator"] >= 5 => link'["decimator_out"].bwWriter
  <2>1. CASE opened["decimator"] >= 5
    BY <1>1, <1>5, <1>7, <2>1 DEF Served, WritersStay
  <2>2. CASE ~(opened["decimator"] >= 5) /\ opened'["decimator"] >= 5
    <3>1. opened["decimator"] + 1 = 5 /\ opened'["decimator"] # opened["decimator"]
      BY <1>1, <1>7, <1>8, <2>2
    <3>2. Startup["decimator"][opened["decimator"] + 1] = <<"bw", "decimator_out">>
      BY <3>1, StartupOrder
    <3> QED
      BY <1>6, <1>7, <3>1, <3>2
  <2> QED
    BY <2>1, <2>2
<1> QED
  BY <1>1, <1>3, <1>5, <1>9, <1>10 DEF Undisturbed, Quiet, Looping

LEMMA UndisturbedStep ==
    Account /\ (why = {} => Undisturbed) /\ [Next]_vars => (why' = {} => Undisturbed')
<1> SUFFICES ASSUME Account, why = {} => Undisturbed, [Next]_vars, why' = {}
             PROVE  Undisturbed'
  OBVIOUS
<1>1. why = {}
  BY DEF Next, vars, StartupStep, OpenForward, OpenBackward, OpenBackwardReader,
         OpenBackwardWriter, SendInitReady, WaitInitReady, InputEnds, RebufferStep,
         RebufferFrame, RebufferEnd, DecimatorStep, FilterSetupFails, DelaySyncStep,
         DelaySyncTake, DelaySyncAlloc, DelaySyncAsk, DelaySyncAnnounce, DelaySyncHandBack,
         DelaySyncClose,
         IqServerStep, IqServerTake, IqServerHandBack, ClientStep, IqServerClient,
         IqServerSend, HwcStep, StartFails, Kill
<1>2. Undisturbed
  BY <1>1
<1>3. CASE StartupStep
  BY <1>2, <1>3, StartupUndisturbed
<1>4. CASE RebufferStep
  BY <1>2, <1>4, RebufferUndisturbed
<1>5. CASE DecimatorStep
  BY <1>2, <1>5, DecimatorUndisturbed
<1>6. CASE DelaySyncStep
  BY <1>2, <1>6, DelaySyncUndisturbed
<1>7. CASE IqServerStep \/ ClientStep
  BY <1>2, <1>7, IqServerUndisturbed
<1>8. CASE HwcStep
  BY <1>2, <1>8, HwcUndisturbed
<1>9. CASE InputEnds \/ FilterSetupFails \/ \E p \in Procs : StartFails(p) \/ Kill(p)
  BY <1>9 DEF InputEnds, FilterSetupFails, StartFails, Kill
<1>10. CASE UNCHANGED vars
  BY <1>2, <1>10 DEF vars, Undisturbed
<1> QED
  BY <1>3, <1>4, <1>5, <1>6, <1>7, <1>8, <1>9, <1>10 DEF Next

-----------------------------------------------------------------------------
(* The two ends of an interface keep step.                                   *)

\* How far the two ends of l are.
Src(l) == opened[Source(l)] - StepsBefore(l)
Snk(l) == opened[Sink(l)]

\* Numbers that are on the same side of 1, 2 and 3.
Alike(m, n) == /\ m >= 1 <=> n >= 1
               /\ m >= 2 <=> n >= 2
               /\ m >= 3 <=> n >= 3

LEMMA PaceAlike ==
    ASSUME NEW l, NEW m \in Int, NEW n \in Int, NEW m2 \in Int, NEW n2 \in Int,
           NEW reader, NEW fw, OnPace(l, m, n, reader, fw), Alike(m, m2), Alike(n, n2)
    PROVE  OnPace(l, m2, n2, reader, fw)
<1>1. (m < 3 <=> m2 < 3) /\ (n < 3 <=> n2 < 3)
  BY DEF Alike
<1> QED
  BY <1>1 DEF OnPace, Alike

\* The use of a FIFO once the program at its end is up.
LEMMA PaceUsed ==
    ASSUME NEW l, NEW m \in Int, NEW n \in Int, NEW reader, NEW fw \in Seq(Signal), NEW fw2,
           OnPace(l, m, n, reader, fw),
           \/ fw2 = fw
           \/ m >= 3 /\ \E y \in Signal : fw2 = Append(fw, y)
           \/ n >= 3
    PROVE  OnPace(l, m, n, reader, fw2)
<1>1. CASE fw2 = fw
  BY <1>1
<1>2. ASSUME m >= 3, NEW y \in Signal, fw2 = Append(fw, y)
      PROVE  OnPace(l, m, n, reader, fw2)
  <2>1. fw # <<>> => fw2 # <<>> /\ Head(fw2) = Head(fw)
    BY <1>2, AppendElements
  <2> QED
    BY <1>2, <2>1 DEF OnPace
<1>3. CASE n >= 3
  <2>1. m >= 3
    BY <1>3 DEF OnPace
  <2> QED
    BY <1>3, <2>1 DEF OnPace
<1> QED
  BY <1>1, <1>2, <1>3

LEMMA Kinds == /\ Kind[1] = "fw" /\ Kind[2] = "bw" /\ Kind[3] = "INIT_READY"
               /\ \A i, j \in 1 .. 3 : Kind[i] = Kind[j] => i = j
BY DEF Kind

\* How much there is to do at the two ends.
LEMMA EndSteps ==
    \A l \in Links : /\ StepsBefore(l) \in Nat
                     /\ Len(Startup[Source(l)]) \in Nat /\ Len(Startup[Sink(l)]) \in Nat
                     /\ Len(Startup[Source(l)]) >= StepsBefore(l) + 3
                     /\ Len(Startup[Sink(l)]) >= 3
<1>1. /\ StepsBefore("decimator_in") = 0 /\ StepsBefore("decimator_out") = 3
      /\ StepsBefore("delay_sync_iq") = 3 /\ StepsBefore("delay_sync_hwc") = 6
  BY DEF StepsBefore
<1> SUFFICES ASSUME NEW l \in Links
             PROVE  /\ StepsBefore(l) \in Nat
                    /\ Len(Startup[Source(l)]) \in Nat /\ Len(Startup[Sink(l)]) \in Nat
                    /\ Len(Startup[Source(l)]) >= StepsBefore(l) + 3
                    /\ Len(Startup[Sink(l)]) >= 3
  OBVIOUS
<1>0. /\ Len(Startup["rebuffer"]) = 3 /\ Len(Startup["decimator"]) = 6
      /\ Len(Startup["delay_sync"]) = 9 /\ Len(Startup["iq_server"]) = 3
      /\ Len(Startup["hw_controller"]) = 3
  BY StartupSteps
<1>2. CASE l = "decimator_in"
  <2>1. Source(l) = "rebuffer" /\ Sink(l) = "decimator" /\ StepsBefore(l) = 0
    BY <1>1, <1>2, LinkEnds
  <2>2. Len(Startup[Source(l)]) = 3 /\ Len(Startup[Sink(l)]) = 6
    BY <1>0, <2>1
  <2> QED
    BY <2>1, <2>2
<1>3. CASE l = "decimator_out"
  <2>1. Source(l) = "decimator" /\ Sink(l) = "delay_sync" /\ StepsBefore(l) = 3
    BY <1>1, <1>3, LinkEnds
  <2>2. Len(Startup[Source(l)]) = 6 /\ Len(Startup[Sink(l)]) = 9
    BY <1>0, <2>1
  <2> QED
    BY <2>1, <2>2
<1>4. CASE l = "delay_sync_iq"
  <2>1. Source(l) = "delay_sync" /\ Sink(l) = "iq_server" /\ StepsBefore(l) = 3
    BY <1>1, <1>4, LinkEnds
  <2>2. Len(Startup[Source(l)]) = 9 /\ Len(Startup[Sink(l)]) = 3
    BY <1>0, <2>1
  <2> QED
    BY <2>1, <2>2
<1>5. CASE l = "delay_sync_hwc"
  <2>1. Source(l) = "delay_sync" /\ Sink(l) = "hw_controller" /\ StepsBefore(l) = 6
    BY <1>1, <1>5, LinkEnds
  <2>2. Len(Startup[Source(l)]) = 9 /\ Len(Startup[Sink(l)]) = 3
    BY <1>0, <2>1
  <2> QED
    BY <2>1, <2>2
<1> QED
  BY <1>2, <1>3, <1>4, <1>5 DEF Links

LEMMA PaceOf ==
    ASSUME TypeOK, NEW l \in Links
    PROVE  /\ opened[Source(l)] \in Nat /\ opened[Sink(l)] \in Nat
           /\ Src(l) \in Int /\ Snk(l) \in Nat /\ Src(l) = opened[Source(l)] - StepsBefore(l)
           /\ InStep => OnPace(l, Src(l), Snk(l), link[l].bwReader, link[l].fw)
<1>1. opened[Source(l)] \in Nat /\ opened[Sink(l)] \in Nat
  BY LinkEnds DEF TypeOK
<1> QED
  BY <1>1, EndSteps DEF InStep, Src, Snk

\* A process that is that far stands at that step.
LEMMA StandsAt ==
    ASSUME TypeOK, NEW l \in Links, NEW i \in 1 .. 3
    PROVE  /\ Src(l) = i - 1 /\ pc[Source(l)] # "ended" => AtStep(Source(l), <<Kind[i], l>>)
           /\ Snk(l) = i - 1 /\ pc[Sink(l)] # "ended" => AtStep(Sink(l), <<Kind[i], l>>)
<1>1. /\ OpensFrom(Startup[Source(l)], StepsBefore(l), l) /\ OpensFrom(Startup[Sink(l)], 0, l)
      /\ opened[Source(l)] \in Nat /\ opened[Sink(l)] \in Nat
  BY StartupSteps, PaceOf
<1>2. ASSUME Src(l) = i - 1, pc[Source(l)] # "ended"
      PROVE  AtStep(Source(l), <<Kind[i], l>>)
  <2> DEFINE n == opened[Source(l)]
             b == StepsBefore(l)
  <2>1. n \in Nat /\ b \in Nat /\ n - b = i - 1 /\ Len(Startup[Source(l)]) \in Nat
        /\ Len(Startup[Source(l)]) >= b + 3 /\ OpensFrom(Startup[Source(l)], b, l)
    BY <1>1, <1>2, EndSteps DEF Src
  <2> HIDE DEF n, b
  <2>2. n < Len(Startup[Source(l)]) /\ n + 1 \in Nat /\ n + 1 = b + i
    BY <2>1
  <2>3. Startup[Source(l)][n + 1] = <<Kind[i], l>>
    BY <2>1, <2>2 DEF OpensFrom
  <2> QED
    BY <1>2, <2>2, <2>3 DEF AtStep, n
<1>3. ASSUME Snk(l) = i - 1, pc[Sink(l)] # "ended"
      PROVE  AtStep(Sink(l), <<Kind[i], l>>)
  <2> DEFINE n == opened[Sink(l)]
  <2>1. n \in Nat /\ n = i - 1 /\ Len(Startup[Sink(l)]) \in Nat /\ Len(Startup[Sink(l)]) >= 3
    BY <1>1, <1>3, EndSteps DEF Snk
  <2> HIDE DEF n
  <2>2. n < Len(Startup[Sink(l)]) /\ n + 1 \in Nat /\ n + 1 = 0 + i
    BY <2>1
  <2>3. Startup[Sink(l)][n + 1] = <<Kind[i], l>>
    BY <1>1, <2>2 DEF OpensFrom
  <2> QED
    BY <1>3, <2>2, <2>3 DEF AtStep, n
<1> QED
  BY <1>2, <1>3

\* Every step of a start is one at an interface, at its place.
LEMMA StepIsAt ==
    ASSUME NEW p \in Procs, NEW n \in Nat, n >= 1, n <= Len(Startup[p])
    PROVE  \E k \in Links, i \in 1 .. 3 :
              /\ Startup[p][n] = <<Kind[i], k>>
              /\ \/ p = Source(k) /\ n = StepsBefore(k) + i
                 \/ p = Sink(k) /\ n = i
<1> DEFINE At1(k, b) == \E i \in 1 .. 3 : Startup[p][n] = <<Kind[i], k>> /\ n = b + i
<1>1. ASSUME NEW k \in Links, NEW b \in Nat, OpensFrom(Startup[p], b, k), n > b, n <= b + 3
      PROVE  At1(k, b)
  <2>1. n - b \in 1 .. 3 /\ n = b + (n - b)
    BY <1>1
  <2> DEFINE i == n - b
  <2>2. i \in 1 .. 3 /\ n = b + i
    BY <2>1
  <2> HIDE DEF i
  <2>3. Startup[p][n] = <<Kind[i], k>>
    BY <1>1, <2>2 DEF OpensFrom
  <2> QED
    BY <2>2, <2>3
<1>2. ASSUME NEW k \in Links, p = Source(k), n > StepsBefore(k), n <= StepsBefore(k) + 3
      PROVE  At1(k, StepsBefore(k))
  BY <1>1, <1>2, EndSteps, StartupSteps
<1>3. ASSUME NEW k \in Links, p = Sink(k), n <= 3
      PROVE  At1(k, 0)
  BY <1>1, <1>3, StartupSteps
<1>4. ASSUME NEW k \in Links,
             \/ p = Source(k) /\ At1(k, StepsBefore(k))
             \/ p = Sink(k) /\ At1(k, 0)
      PROVE  \E i \in 1 .. 3 : /\ Startup[p][n] = <<Kind[i], k>>
                               /\ \/ p = Source(k) /\ n = StepsBefore(k) + i
                                  \/ p = Sink(k) /\ n = i
  BY <1>4
<1> HIDE DEF At1
<1>5. /\ StepsBefore("decimator_in") = 0 /\ StepsBefore("decimator_out") = 3
      /\ StepsBefore("delay_sync_iq") = 3 /\ StepsBefore("delay_sync_hwc") = 6
      /\ "decimator_in" \in Links /\ "decimator_out" \in Links
      /\ "delay_sync_iq" \in Links /\ "delay_sync_hwc" \in Links
  BY DEF StepsBefore, Links
<1>6. CASE p = "rebuffer"
  <2>1. n <= 3
    BY <1>6, StartupSteps
  <2> QED
    BY <1>2, <1>4, <1>5, <1>6, <2>1, LinkEnds
<1>7. CASE p = "decimator"
  <2>1. n <= 6
    BY <1>7, StartupSteps
  <2>2. CASE n <= 3
    BY <1>3, <1>4, <1>5, <1>7, <2>2, LinkEnds
  <2>3. CASE n > 3
    BY <1>2, <1>4, <1>5, <1>7, <2>1, <2>3, LinkEnds
  <2> QED
    BY <2>2, <2>3
<1>8. CASE p = "delay_sync"
  <2>1. n <= 9
    BY <1>8, StartupSteps
  <2>2. CASE n <= 3
    BY <1>3, <1>4, <1>5, <1>8, <2>2, LinkEnds
  <2>3. CASE n > 3 /\ n <= 6
    BY <1>2, <1>4, <1>5, <1>8, <2>3, LinkEnds
  <2>4. CASE n > 6
    BY <1>2, <1>4, <1>5, <1>8, <2>1, <2>4, LinkEnds
  <2> QED
    BY <2>2, <2>3, <2>4
<1>9. CASE p = "iq_server"
  <2>1. n <= 3
    BY <1>9, StartupSteps
  <2> QED
    BY <1>3, <1>4, <1>5, <1>9, <2>1, LinkEnds
<1>10. CASE p = "hw_controller"
  <2>1. n <= 3
    BY <1>10, StartupSteps
  <2> QED
    BY <1>3, <1>4, <1>5, <1>10, <2>1, LinkEnds
<1> QED
  BY <1>6, <1>7, <1>8, <1>9, <1>10 DEF Procs

\* A process that stands at a step is that far at the interface, and the step counts
\* at no other interface.
LEMMA FarAt ==
    ASSUME TypeOK, NEW l \in Links, NEW i \in 1 .. 3
    PROVE  /\ AtStep(Source(l), <<Kind[i], l>>) => Src(l) = i - 1
           /\ AtStep(Sink(l), <<Kind[i], l>>) => Snk(l) = i - 1
<1>1. ASSUME NEW p \in Procs, AtStep(p, <<Kind[i], l>>)
      PROVE  /\ opened[p] \in Nat /\ opened[p] < Len(Startup[p])
             /\ \/ p = Source(l) /\ opened[p] + 1 = StepsBefore(l) + i
                \/ p = Sink(l) /\ opened[p] + 1 = i
  <2> DEFINE n == opened[p] + 1
  <2>1. /\ opened[p] \in Nat /\ opened[p] < Len(Startup[p]) /\ Len(Startup[p]) \in Nat
        /\ Startup[p][n] = <<Kind[i], l>>
    BY <1>1, StartupSteps DEF AtStep, TypeOK, Procs
  <2>2. n \in Nat /\ n >= 1 /\ n <= Len(Startup[p])
    BY <2>1
  <2> HIDE DEF n
  <2>3. PICK k \in Links, j \in 1 .. 3 :
              /\ Startup[p][n] = <<Kind[j], k>>
              /\ \/ p = Source(k) /\ n = StepsBefore(k) + j
                 \/ p = Sink(k) /\ n = j
    BY <2>2, StepIsAt
  <2>4. k = l /\ j = i
    BY <2>1, <2>3, Kinds
  <2> QED
    BY <2>1, <2>3, <2>4 DEF n
<1>2. Source(l) \in Procs /\ Sink(l) \in Procs /\ Source(l) # Sink(l) /\ StepsBefore(l) \in Nat
  BY LinkEnds, EndSteps
<1>3. ASSUME AtStep(Source(l), <<Kind[i], l>>) PROVE Src(l) = i - 1
  <2>1. opened[Source(l)] + 1 = StepsBefore(l) + i /\ opened[Source(l)] \in Nat
    BY <1>1, <1>2, <1>3
  <2> QED
    BY <1>2, <2>1 DEF Src
<1>4. ASSUME AtStep(Sink(l), <<Kind[i], l>>) PROVE Snk(l) = i - 1
  <2>1. opened[Sink(l)] + 1 = i /\ opened[Sink(l)] \in Nat
    BY <1>1, <1>2, <1>4
  <2> QED
    BY <2>1 DEF Snk
<1> QED
  BY <1>3, <1>4

LEMMA NotCounted ==
    ASSUME TypeOK, NEW p \in Procs, NEW l \in Links, NEW w, AtStep(p, <<w, l>>),
           NEW k \in Links, k # l
    PROVE  \A i \in 1 .. 3 : /\ p = Source(k) => opened[p] + 1 # StepsBefore(k) + i
                             /\ p = Sink(k) => opened[p] + 1 # i
<1> DEFINE n == opened[p] + 1
<1>1. n \in Nat /\ Startup[p][n] = <<w, l>>
  BY DEF AtStep, TypeOK
<1> HIDE DEF n
<1>2. ASSUME NEW i \in 1 .. 3, p = Source(k), n = StepsBefore(k) + i PROVE FALSE
  <2>1. Startup[p][n] = <<Kind[i], k>>
    BY <1>1, <1>2, StartupSteps DEF OpensFrom
  <2> QED
    BY <1>1, <2>1
<1>3. ASSUME NEW i \in 1 .. 3, p = Sink(k), n = i PROVE FALSE
  <2>1. n = 0 + i
    BY <1>3
  <2>2. Startup[p][n] = <<Kind[i], k>>
    BY <1>1, <1>3, <2>1, StartupSteps DEF OpensFrom
  <2> QED
    BY <1>1, <2>2
<1> QED
  BY <1>2, <1>3 DEF n

\* What a step of the start does to the interfaces it is not about.
LEMMA PaceElsewhere ==
    ASSUME TypeOK, InStep, NEW P, P \subseteq Procs, Opens(P), NEW l \in Links, NEW w,
           \A p \in P : AtStep(p, <<w, l>>), NEW k \in Links, k # l,
           link'[k].bwReader = link[k].bwReader, link'[k].fw = link[k].fw
    PROVE  OnPace(k, opened[Source(k)] - StepsBefore(k), opened[Sink(k)],
                  link[k].bwReader, link[k].fw)'
<1>1. /\ opened[Source(k)] \in Nat /\ opened[Sink(k)] \in Nat /\ StepsBefore(k) \in Nat
      /\ Source(k) \in Procs /\ Sink(k) \in Procs
      /\ OnPace(k, Src(k), Snk(k), link[k].bwReader, link[k].fw)
  BY PaceOf, EndSteps, LinkEnds
<1>2. /\ opened'[Source(k)] \in {opened[Source(k)], opened[Source(k)] + 1}
      /\ opened'[Sink(k)] \in {opened[Sink(k)], opened[Sink(k)] + 1}
  BY <1>1 DEF Opens
<1>3. Alike(opened[Source(k)] - StepsBefore(k), opened'[Source(k)] - StepsBefore(k))
  <2>1. CASE Source(k) \notin P
    BY <1>1, <2>1 DEF Opens, Alike
  <2>2. CASE Source(k) \in P
    <3> DEFINE n == opened[Source(k)]
               n2 == opened'[Source(k)]
               b == StepsBefore(k)
    <3>1. n2 = n + 1
      BY <1>1, <2>2 DEF Opens
    <3>2. n + 1 # b + 1 /\ n + 1 # b + 2 /\ n + 1 # b + 3
      <4>1. \A i \in 1 .. 3 : n + 1 # b + i
        BY <1>1, <2>2, NotCounted
      <4> HIDE DEF n, n2, b
      <4> QED
        BY <4>1
    <3>3. n \in Nat /\ b \in Nat
      BY <1>1
    <3> HIDE DEF n, n2, b
    <3>4. Alike(n - b, n2 - b)
      BY <3>1, <3>2, <3>3 DEF Alike
    <3> QED
      BY <3>4 DEF n, n2, b
  <2> QED
    BY <2>1, <2>2
<1>4. Alike(opened[Sink(k)], opened'[Sink(k)])
  <2>1. CASE Sink(k) \notin P
    BY <1>1, <2>1 DEF Opens, Alike
  <2>2. CASE Sink(k) \in P
    <3> DEFINE n == opened[Sink(k)]
    <3>1. opened'[Sink(k)] = n + 1
      BY <1>1, <2>2 DEF Opens
    <3>2. n + 1 # 1 /\ n + 1 # 2 /\ n + 1 # 3
      <4>1. \A i \in 1 .. 3 : n + 1 # i
        BY <1>1, <2>2, NotCounted
      <4> HIDE DEF n
      <4> QED
        BY <4>1
    <3>3. n \in Nat
      BY <1>1
    <3> HIDE DEF n
    <3>4. Alike(n, n + 1)
      BY <3>2, <3>3 DEF Alike
    <3> QED
      BY <3>1, <3>4 DEF n
  <2> QED
    BY <2>1, <2>2
<1> DEFINE m == opened[Source(k)] - StepsBefore(k)
           n == opened[Sink(k)]
           m2 == opened'[Source(k)] - StepsBefore(k)
           n2 == opened'[Sink(k)]
<1>5. m \in Int /\ n \in Int /\ m2 \in Int /\ n2 \in Int
  BY <1>1, <1>2
<1>6. Alike(m, m2) /\ Alike(n, n2) /\ OnPace(k, m, n, link[k].bwReader, link[k].fw)
  BY <1>1, <1>3, <1>4 DEF Src, Snk
<1> HIDE DEF m, n, m2, n2
<1>7. OnPace(k, m2, n2, link[k].bwReader, link[k].fw)
  BY <1>5, <1>6, PaceAlike
<1> QED
  BY <1>7 DEF m2, n2

\* Nobody does more than there is to do.
LEMMA OpenedBounds ==
    ASSUME TypeOK, InStep, NEW P, P \subseteq Procs, Opens(P), NEW step,
           \A p \in P : AtStep(p, step)
    PROVE  \A p \in Procs : opened'[p] <= Len(Startup[p])
<1> SUFFICES ASSUME NEW p \in Procs PROVE opened'[p] <= Len(Startup[p])
  OBVIOUS
<1>1. /\ opened[p] \in Nat /\ opened[p] <= Len(Startup[p]) /\ Len(Startup[p]) \in Nat
  BY StartupSteps DEF TypeOK, InStep, Procs
<1>2. CASE p \in P
  <2>1. opened[p] < Len(Startup[p]) /\ opened'[p] = opened[p] + 1
    BY <1>2 DEF AtStep, Opens
  <2> QED
    BY <1>1, <2>1
<1>3. CASE p \notin P
  BY <1>1, <1>3 DEF Opens
<1> QED
  BY <1>2, <1>3

\* A step of the start at the interface l, after which its ends are still in step.
LEMMA StartInStep ==
    ASSUME TypeOK, InStep, NEW P, P \subseteq Procs, Opens(P), NEW l \in Links, NEW w,
           \A p \in P : AtStep(p, <<w, l>>),
           \A k \in Links \ {l} : /\ link'[k].bwReader = link[k].bwReader
                                  /\ link'[k].fw = link[k].fw,
           NEW m \in Int, NEW n \in Int,
           Src(l) = IF Source(l) \in P THEN m - 1 ELSE m,
           Snk(l) = IF Sink(l) \in P THEN n - 1 ELSE n,
           OnPace(l, m, n, link'[l].bwReader, link'[l].fw)
    PROVE  InStep'
<1>1. \A p \in Procs : opened'[p] <= Len(Startup[p])
  BY OpenedBounds
<1>2. /\ opened[Source(l)] \in Nat /\ opened[Sink(l)] \in Nat /\ StepsBefore(l) \in Nat
      /\ Source(l) \in Procs /\ Sink(l) \in Procs
  BY PaceOf, EndSteps, LinkEnds
<1>3. opened'[Source(l)] - StepsBefore(l) = m
  <2>1. opened[Source(l)] - StepsBefore(l) = IF Source(l) \in P THEN m - 1 ELSE m
    BY DEF Src
  <2>2. opened'[Source(l)] = IF Source(l) \in P THEN opened[Source(l)] + 1 ELSE opened[Source(l)]
    BY <1>2 DEF Opens
  <2> QED
    BY <1>2, <2>1, <2>2
<1>4. opened'[Sink(l)] = n
  <2>1. opened'[Sink(l)] = IF Sink(l) \in P THEN opened[Sink(l)] + 1 ELSE opened[Sink(l)]
    BY <1>2 DEF Opens
  <2> QED
    BY <1>2, <2>1 DEF Snk
<1>5. OnPace(l, opened[Source(l)] - StepsBefore(l), opened[Sink(l)],
             link[l].bwReader, link[l].fw)'
  BY <1>3, <1>4
<1>6. \A k \in Links \ {l} : OnPace(k, opened[Source(k)] - StepsBefore(k), opened[Sink(k)],
                                    link[k].bwReader, link[k].fw)'
  BY PaceElsewhere
<1> QED
  BY <1>1, <1>5, <1>6 DEF InStep

LEMMA StartupInStep == TypeOK /\ InStep /\ StartupStep => InStep'
<1> SUFFICES ASSUME TypeOK, InStep, StartupStep PROVE InStep'
  OBVIOUS
<1>1. PICK l \in Links :
         \/ OpenForward(l) \/ OpenBackward(l) \/ OpenBackwardReader(l)
         \/ OpenBackwardWriter(l) \/ SendInitReady(l) \/ WaitInitReady(l)
  BY DEF StartupStep
<1> DEFINE s == Source(l)
           t == Sink(l)
<1>2. /\ s \in Procs /\ t \in Procs /\ s # t
      /\ Src(l) \in Int /\ Snk(l) \in Nat
      /\ OnPace(l, Src(l), Snk(l), link[l].bwReader, link[l].fw)
      /\ link \in [Links -> Interface] /\ link[l] \in Interface /\ link[l].fw \in Seq(Signal)
  BY LinkEnds, PaceOf, LinkTypes DEF TypeOK
<1>3. /\ AtStep(s, <<"fw", l>>) => Src(l) = 0
      /\ AtStep(s, <<"bw", l>>) => Src(l) = 1
      /\ AtStep(s, <<"INIT_READY", l>>) => Src(l) = 2
      /\ AtStep(t, <<"fw", l>>) => Snk(l) = 0
      /\ AtStep(t, <<"bw", l>>) => Snk(l) = 1
      /\ AtStep(t, <<"INIT_READY", l>>) => Snk(l) = 2
  <2>1. 1 \in 1 .. 3 /\ 2 \in 1 .. 3 /\ 3 \in 1 .. 3 /\ 1 - 1 = 0 /\ 2 - 1 = 1 /\ 3 - 1 = 2
    OBVIOUS
  <2> QED
    BY <2>1, FarAt, Kinds
<1> HIDE DEF s, t
<1>4. CASE OpenForward(l)
  <2>1. /\ Opens({s, t}) /\ UNCHANGED link /\ AtStep(s, <<"fw", l>>) /\ AtStep(t, <<"fw", l>>)
    BY <1>4 DEF OpenForward, MeetsForward, BothAtStep, s, t
  <2>2. Src(l) = 0 /\ Snk(l) = 0
    BY <1>3, <2>1
  <2>3. OnPace(l, 1, 1, link'[l].bwReader, link'[l].fw)
    BY <1>2, <2>1, <2>2 DEF OnPace
  <2>4. Src(l) = 1 - 1 /\ Snk(l) = 1 - 1
    BY <2>2
  <2> DEFINE P == {s, t}
             m == 1
             n == 1
  <2>8. P \subseteq Procs /\ Opens(P) /\ \A p \in P : AtStep(p, <<"fw", l>>)
    BY <1>2, <2>1
  <2>9. /\ m \in Int /\ n \in Int /\ OnPace(l, m, n, link'[l].bwReader, link'[l].fw)
        /\ Src(l) = IF s \in P THEN m - 1 ELSE m
        /\ Snk(l) = IF t \in P THEN n - 1 ELSE n
    BY <1>2, <2>3, <2>4
  <2>10. \A k \in Links \ {l} : /\ link'[k].bwReader = link[k].bwReader
                                /\ link'[k].fw = link[k].fw
    BY <2>1
  <2> HIDE DEF P, m, n
  <2> QED
    BY <1>2, <2>8, <2>9, <2>10, StartInStep DEF s, t
<1>5. CASE OpenBackward(l)
  <2>1. /\ Opens({s, t}) /\ AtStep(s, <<"bw", l>>) /\ AtStep(t, <<"bw", l>>)
        /\ link' = [link EXCEPT ![l].bwReader = TRUE, ![l].bwWriter = TRUE]
    BY <1>5 DEF OpenBackward, MeetsBackward, BothAtStep, s, t
  <2>2. Src(l) = 1 /\ Snk(l) = 1
    BY <1>3, <2>1
  <2>3. /\ link'[l].bwReader = TRUE /\ link'[l].fw = link[l].fw
        /\ \A k \in Links \ {l} : link'[k] = link[k]
    BY <1>2, <2>1 DEF Interface
  <2>4. OnPace(l, 2, 2, link'[l].bwReader, link'[l].fw)
    BY <1>2, <2>2, <2>3 DEF OnPace
  <2>5. Src(l) = 2 - 1 /\ Snk(l) = 2 - 1
    BY <2>2
  <2> DEFINE P == {s, t}
             m == 2
             n == 2
  <2>8. P \subseteq Procs /\ Opens(P) /\ \A p \in P : AtStep(p, <<"bw", l>>)
    BY <1>2, <2>1
  <2>9. /\ m \in Int /\ n \in Int /\ OnPace(l, m, n, link'[l].bwReader, link'[l].fw)
        /\ Src(l) = IF s \in P THEN m - 1 ELSE m
        /\ Snk(l) = IF t \in P THEN n - 1 ELSE n
    BY <1>2, <2>4, <2>5
  <2>10. \A k \in Links \ {l} : /\ link'[k].bwReader = link[k].bwReader
                                /\ link'[k].fw = link[k].fw
    BY <2>3
  <2> HIDE DEF P, m, n
  <2> QED
    BY <1>2, <2>8, <2>9, <2>10, StartInStep DEF s, t
<1>6. CASE OpenBackwardReader(l)
  <2>1. /\ Opens({s}) /\ AtStep(s, <<"bw", l>>) /\ OpensNonblocking(l)
        /\ link' = [link EXCEPT ![l].bwReader = TRUE]
    BY <1>6 DEF OpenBackwardReader, ReaderMayOpen, s
  <2>2. Src(l) = 1
    BY <1>3, <2>1
  <2>3. /\ link'[l].bwReader = TRUE /\ link'[l].fw = link[l].fw
        /\ \A k \in Links \ {l} : link'[k] = link[k]
    BY <1>2, <2>1 DEF Interface
  <2>4. OnPace(l, 2, Snk(l), link'[l].bwReader, link'[l].fw)
    BY <1>2, <2>1, <2>2, <2>3 DEF OnPace
  <2>5. Src(l) = 2 - 1
    BY <2>2
  <2> DEFINE P == {s}
             m == 2
             n == Snk(l)
  <2>8. P \subseteq Procs /\ Opens(P) /\ \A p \in P : AtStep(p, <<"bw", l>>)
    BY <1>2, <2>1
  <2>9. /\ m \in Int /\ n \in Int /\ OnPace(l, m, n, link'[l].bwReader, link'[l].fw)
        /\ Src(l) = IF s \in P THEN m - 1 ELSE m
        /\ Snk(l) = IF t \in P THEN n - 1 ELSE n
    BY <1>2, <2>4, <2>5
  <2>10. \A k \in Links \ {l} : /\ link'[k].bwReader = link[k].bwReader
                                /\ link'[k].fw = link[k].fw
    BY <2>3
  <2> HIDE DEF P, m, n
  <2> QED
    BY <1>2, <2>8, <2>9, <2>10, StartInStep DEF s, t
<1>7. CASE OpenBackwardWriter(l)
  <2>1. /\ Opens({t}) /\ AtStep(t, <<"bw", l>>) /\ link[l].bwReader
        /\ link' = [link EXCEPT ![l].bwWriter = TRUE]
    BY <1>7 DEF OpenBackwardWriter, WriterMayOpen, t
  <2>2. Snk(l) = 1
    BY <1>3, <2>1
  <2>3. /\ link'[l].bwReader = link[l].bwReader /\ link'[l].fw = link[l].fw
        /\ \A k \in Links \ {l} : link'[k] = link[k]
    BY <1>2, <2>1 DEF Interface
  <2>4. OnPace(l, Src(l), 2, link'[l].bwReader, link'[l].fw)
    BY <1>2, <2>1, <2>2, <2>3 DEF OnPace
  <2>5. Snk(l) = 2 - 1
    BY <2>2
  <2> DEFINE P == {t}
             m == Src(l)
             n == 2
  <2>8. P \subseteq Procs /\ Opens(P) /\ \A p \in P : AtStep(p, <<"bw", l>>)
    BY <1>2, <2>1
  <2>9. /\ m \in Int /\ n \in Int /\ OnPace(l, m, n, link'[l].bwReader, link'[l].fw)
        /\ Src(l) = IF s \in P THEN m - 1 ELSE m
        /\ Snk(l) = IF t \in P THEN n - 1 ELSE n
    BY <1>2, <2>4, <2>5
  <2>10. \A k \in Links \ {l} : /\ link'[k].bwReader = link[k].bwReader
                                /\ link'[k].fw = link[k].fw
    BY <2>3
  <2> HIDE DEF P, m, n
  <2> QED
    BY <1>2, <2>8, <2>9, <2>10, StartInStep DEF s, t
<1>8. CASE SendInitReady(l)
  <2>1. /\ Opens({s}) /\ AtStep(s, <<"INIT_READY", l>>)
        /\ link' = [link EXCEPT ![l].fw = Append(@, "INIT_READY")]
    BY <1>8 DEF SendInitReady, MaySendReady, s
  <2>2. Src(l) = 2
    BY <1>3, <2>1
  <2>3. /\ link'[l].bwReader = link[l].bwReader
        /\ link'[l].fw = Append(link[l].fw, "INIT_READY")
        /\ \A k \in Links \ {l} : link'[k] = link[k]
    BY <1>2, <2>1 DEF Interface
  <2>4. link[l].fw = <<>>
    BY <1>2, <2>2 DEF OnPace
  <2>5. link'[l].fw # <<>> /\ Head(link'[l].fw) = "INIT_READY"
    BY <2>3, <2>4
  <2>6. OnPace(l, 3, Snk(l), link'[l].bwReader, link'[l].fw)
    BY <1>2, <2>2, <2>3, <2>5 DEF OnPace
  <2>7. Src(l) = 3 - 1
    BY <2>2
  <2> DEFINE P == {s}
             m == 3
             n == Snk(l)
  <2>8. P \subseteq Procs /\ Opens(P) /\ \A p \in P : AtStep(p, <<"INIT_READY", l>>)
    BY <1>2, <2>1
  <2>9. /\ m \in Int /\ n \in Int /\ OnPace(l, m, n, link'[l].bwReader, link'[l].fw)
        /\ Src(l) = IF s \in P THEN m - 1 ELSE m
        /\ Snk(l) = IF t \in P THEN n - 1 ELSE n
    BY <1>2, <2>6, <2>7
  <2>10. \A k \in Links \ {l} : /\ link'[k].bwReader = link[k].bwReader
                                /\ link'[k].fw = link[k].fw
    BY <2>3
  <2> HIDE DEF P, m, n
  <2> QED
    BY <1>2, <2>8, <2>9, <2>10, StartInStep DEF s, t
<1>9. CASE WaitInitReady(l)
  <2>1. /\ Opens({t}) /\ AtStep(t, <<"INIT_READY", l>>) /\ link[l].fw # <<>>
        /\ link' = [link EXCEPT ![l].fw = Tail(@)]
    BY <1>9 DEF WaitInitReady, MayTakeReady, ReadyAnnounced, t
  <2>2. Snk(l) = 2 /\ Src(l) >= 3
    BY <1>2, <1>3, <2>1 DEF OnPace
  <2>3. /\ link'[l].bwReader = link[l].bwReader
        /\ \A k \in Links \ {l} : link'[k] = link[k]
    BY <1>2, <2>1 DEF Interface
  <2>4. OnPace(l, Src(l), 3, link'[l].bwReader, link'[l].fw)
    BY <1>2, <2>2, <2>3 DEF OnPace
  <2>5. Snk(l) = 3 - 1
    BY <2>2
  <2> DEFINE P == {t}
             m == Src(l)
             n == 3
  <2>8. P \subseteq Procs /\ Opens(P) /\ \A p \in P : AtStep(p, <<"INIT_READY", l>>)
    BY <1>2, <2>1
  <2>9. /\ m \in Int /\ n \in Int /\ OnPace(l, m, n, link'[l].bwReader, link'[l].fw)
        /\ Src(l) = IF s \in P THEN m - 1 ELSE m
        /\ Snk(l) = IF t \in P THEN n - 1 ELSE n
    BY <1>2, <2>4, <2>5
  <2>10. \A k \in Links \ {l} : /\ link'[k].bwReader = link[k].bwReader
                                /\ link'[k].fw = link[k].fw
    BY <2>3
  <2> HIDE DEF P, m, n
  <2> QED
    BY <1>2, <2>8, <2>9, <2>10, StartInStep DEF s, t
<1> QED
  BY <1>1, <1>4, <1>5, <1>6, <1>7, <1>8, <1>9

\* What programs that are up do to the forward FIFOs.
FifosInUse ==
    \A l \in Links : /\ link'[l].bwReader = link[l].bwReader
                     /\ \/ link'[l].fw = link[l].fw
                        \/ /\ Running(Source(l))
                           /\ \E y \in Signal : link'[l].fw = Append(link[l].fw, y)
                        \/ Running(Sink(l))

LEMMA UseInStep ==
    ASSUME TypeOK, InStep, UNCHANGED opened, FifosInUse
    PROVE  InStep'
<1> SUFFICES ASSUME NEW l \in Links
             PROVE  OnPace(l, opened[Source(l)] - StepsBefore(l), opened[Sink(l)],
                           link[l].bwReader, link[l].fw)'
  BY DEF InStep
<1>1. /\ Src(l) \in Int /\ Snk(l) \in Int /\ link[l].fw \in Seq(Signal)
      /\ OnPace(l, Src(l), Snk(l), link[l].bwReader, link[l].fw)
  BY PaceOf, LinkTypes
<1>2. Running(Source(l)) => Src(l) >= 3
  BY EndSteps DEF Running, Src
<1>3. Running(Sink(l)) => Snk(l) >= 3
  BY EndSteps DEF Running, Snk
<1>4. /\ link'[l].bwReader = link[l].bwReader
      /\ \/ link'[l].fw = link[l].fw
         \/ Src(l) >= 3 /\ \E y \in Signal : link'[l].fw = Append(link[l].fw, y)
         \/ Snk(l) >= 3
  BY <1>2, <1>3 DEF FifosInUse
<1>5. OnPace(l, Src(l), Snk(l), link[l].bwReader, link'[l].fw)
  BY <1>1, <1>4, PaceUsed
<1> QED
  BY <1>4, <1>5 DEF Src, Snk

LEMMA OneInUse ==
    ASSUME TypeOK, NEW l \in Links, NEW x, link' = [link EXCEPT ![l] = x],
           x.bwReader = link[l].bwReader,
           \/ x.fw = link[l].fw
           \/ Running(Source(l)) /\ \E y \in Signal : x.fw = Append(link[l].fw, y)
           \/ Running(Sink(l))
    PROVE  FifosInUse
<1>1. /\ link'[l] = x /\ \A k \in Links \ {l} : link'[k] = link[k]
  BY DEF TypeOK
<1>2. \A k \in Links \ {l} : link'[k].bwReader = link[k].bwReader /\ link'[k].fw = link[k].fw
  BY <1>1
<1> QED
  BY <1>1, <1>2 DEF FifosInUse

LEMMA SameInUse == ASSUME UNCHANGED link PROVE FifosInUse
BY DEF FifosInUse

LEMMA EndsInUse == ASSUME TypeOK, NEW p, link' = CloseEnds(p) PROVE FifosInUse
<1> SUFFICES ASSUME NEW l \in Links
             PROVE  link'[l].bwReader = link[l].bwReader /\ link'[l].fw = link[l].fw
  BY DEF FifosInUse
<1>1. link[l] \in Interface
  BY DEF TypeOK
<1>2. link'[l] = [link[l] EXCEPT !.srcOpen = @ /\ Source(l) # p, !.snkOpen = @ /\ Sink(l) # p]
  BY DEF CloseEnds
<1> QED
  BY <1>1, <1>2 DEF Interface

LEMMA AllocInUse ==
    ASSUME TypeOK, NEW l \in Links, NEW s, AllocSucceeds(l, s)
    PROVE  FifosInUse
<1>1. CASE UNCHANGED link
  BY <1>1, SameInUse
<1>2. CASE link' = [link EXCEPT ![l].free = 1, ![l].bw = @ - 1]
  <2> DEFINE x == [link[l] EXCEPT !.free = 1, !.bw = link[l].bw - 1]
  <2>1. link \in [Links -> Interface] /\ link[l] \in Interface
    BY DEF TypeOK
  <2>2. x.bwReader = link[l].bwReader /\ x.fw = link[l].fw
    BY <2>1 DEF Interface
  <2>3. link' = [link EXCEPT ![l] = x]
    BY <1>2, <2>1
  <2> HIDE DEF x
  <2> QED
    BY <2>2, <2>3, OneInUse
<1> QED
  BY <1>1, <1>2 DEF AllocSucceeds

LEMMA AnnounceInUse ==
    ASSUME TypeOK, NEW l \in Links, NEW s, NEW what \in Signal, Announce(l, what, s),
           Running(Source(l))
    PROVE  FifosInUse
<1>1. CASE Ends(Source(l))
  BY <1>1, EndsInUse DEF Ends
<1>2. CASE link' = [link EXCEPT ![l].fw = Append(@, what),
                                ![l].free = IF what = "frame" THEN @ - 1 ELSE @]
  <2> DEFINE n == IF what = "frame" THEN link[l].free - 1 ELSE link[l].free
             x == [link[l] EXCEPT !.fw = Append(link[l].fw, what), !.free = n]
  <2>1. link \in [Links -> Interface] /\ link[l] \in Interface
    BY DEF TypeOK
  <2>2. link' = [link EXCEPT ![l] = x]
    BY <1>2, <2>1
  <2> HIDE DEF n
  <2>3. x.bwReader = link[l].bwReader /\ x.fw = Append(link[l].fw, what)
    BY <2>1 DEF Interface
  <2> HIDE DEF x
  <2> QED
    BY <2>2, <2>3, OneInUse
<1> QED
  BY <1>1, <1>2 DEF Announce

LEMMA TakeInUse ==
    ASSUME TypeOK, NEW l \in Links, NEW s, NEW what, Take(l, what, s), Running(Sink(l))
    PROVE  FifosInUse
<1> DEFINE x == [link[l] EXCEPT !.fw = Tail(link[l].fw)]
<1>1. link \in [Links -> Interface] /\ link[l] \in Interface
  BY DEF TypeOK
<1>2. x.bwReader = link[l].bwReader
  BY <1>1 DEF Interface
<1>3. link' = [link EXCEPT ![l] = x]
  BY <1>1 DEF Take
<1> HIDE DEF x
<1> QED
  BY <1>2, <1>3, OneInUse

LEMMA HandBackInUse ==
    ASSUME TypeOK, NEW l \in Links, NEW s, HandBack(l, s)
    PROVE  FifosInUse
<1>1. CASE Ends(Sink(l))
  BY <1>1, EndsInUse DEF Ends
<1>2. CASE link' = [link EXCEPT ![l].bw = @ + 1]
  <2> DEFINE x == [link[l] EXCEPT !.bw = link[l].bw + 1]
  <2>1. link \in [Links -> Interface] /\ link[l] \in Interface
    BY DEF TypeOK
  <2>2. x.bwReader = link[l].bwReader /\ x.fw = link[l].fw
    BY <2>1 DEF Interface
  <2>3. link' = [link EXCEPT ![l] = x]
    BY <1>2, <2>1
  <2> HIDE DEF x
  <2> QED
    BY <2>2, <2>3, OneInUse
<1> QED
  BY <1>1, <1>2 DEF HandBack

\* Closing one end of one interface.
LEMMA CloseInUse ==
    ASSUME TypeOK, NEW l \in Links,
           \/ link' = [link EXCEPT ![l].snkOpen = FALSE]
           \/ link' = [link EXCEPT ![l].srcOpen = FALSE]
    PROVE  FifosInUse
<1>1. link \in [Links -> Interface] /\ link[l] \in Interface
  BY DEF TypeOK
<1>2. CASE link' = [link EXCEPT ![l].snkOpen = FALSE]
  <2> DEFINE x == [link[l] EXCEPT !.snkOpen = FALSE]
  <2>1. x.bwReader = link[l].bwReader /\ x.fw = link[l].fw
    BY <1>1 DEF Interface
  <2>2. link' = [link EXCEPT ![l] = x]
    BY <1>1, <1>2
  <2> HIDE DEF x
  <2> QED
    BY <2>1, <2>2, OneInUse
<1>3. CASE link' = [link EXCEPT ![l].srcOpen = FALSE]
  <2> DEFINE x == [link[l] EXCEPT !.srcOpen = FALSE]
  <2>1. x.bwReader = link[l].bwReader /\ x.fw = link[l].fw
    BY <1>1 DEF Interface
  <2>2. link' = [link EXCEPT ![l] = x]
    BY <1>1, <1>3
  <2> HIDE DEF x
  <2> QED
    BY <2>1, <2>2, OneInUse
<1> QED
  BY <1>2, <1>3

\* No step after the start changes how far a process is.
LEMMA RebufferInUse ==
    ASSUME TypeOK, RebufferStep \/ InputEnds
    PROVE  FifosInUse /\ UNCHANGED opened
<1>1. /\ "decimator_in" \in Links /\ Source("decimator_in") = "rebuffer"
      /\ "frame" \in Signal /\ "TERMINATE" \in Signal
  BY LinkEnds DEF Links, Signal
<1>2. CASE InputEnds
  BY <1>2, SameInUse DEF InputEnds
<1>3. CASE RebufferStep
  <2>1. UNCHANGED opened
    BY <1>3 DEF RebufferStep
  <2>2. CASE AllocSucceeds("decimator_in", "send")
    BY <1>1, <2>1, <2>2, AllocInUse
  <2>3. CASE UNCHANGED link
    BY <2>1, <2>3, SameInUse
  <2>4. CASE At("rebuffer", "send") /\ Announce("decimator_in", "frame", "alloc")
    BY <1>1, <2>1, <2>4, AnnounceInUse DEF At
  <2>5. CASE At("rebuffer", "end") /\ Announce("decimator_in", "TERMINATE", "linger")
    BY <1>1, <2>1, <2>5, AnnounceInUse DEF At
  <2>6. CASE Ends("rebuffer")
    BY <2>1, <2>6, EndsInUse DEF Ends
  <2> QED
    BY <1>3, <2>2, <2>3, <2>4, <2>5, <2>6 DEF RebufferStep, RebufferFrame, RebufferEnd
<1> QED
  BY <1>2, <1>3

LEMMA DecimatorInUse ==
    ASSUME TypeOK, DecimatorStep \/ FilterSetupFails
    PROVE  FifosInUse /\ UNCHANGED opened
<1>1. /\ "decimator_in" \in Links /\ Sink("decimator_in") = "decimator"
      /\ "decimator_out" \in Links /\ Source("decimator_out") = "decimator"
      /\ "frame" \in Signal /\ "TERMINATE" \in Signal
  BY LinkEnds DEF Links, Signal
<1>2. UNCHANGED opened
  BY DEF DecimatorStep, FilterSetupFails
<1>3. CASE FilterSetupFails
  BY <1>2, <1>3, EndsInUse DEF FilterSetupFails, Ends
<1>4. CASE UNCHANGED link
  BY <1>2, <1>4, SameInUse
<1>5. CASE DecimatorTake
  <2>1. Running("decimator")
    BY <1>5 DEF DecimatorTake, At
  <2>2. CASE Take("decimator_in", "frame", "alloc")
    BY <1>1, <1>2, <2>1, <2>2, TakeInUse
  <2>3. CASE Take("decimator_in", "TERMINATE", "end")
    BY <1>1, <1>2, <2>1, <2>3, TakeInUse
  <2> QED
    BY <1>4, <1>5, <2>2, <2>3 DEF DecimatorTake
<1>6. CASE DecimatorAlloc
  <2>1. CASE AllocSucceeds("decimator_out", "send")
    BY <1>1, <1>2, <2>1, AllocInUse
  <2> QED
    BY <1>4, <1>6, <2>1 DEF DecimatorAlloc, AllocDrops
<1>7. CASE At("decimator", "send") /\ Announce("decimator_out", "frame", "free")
  BY <1>1, <1>2, <1>7, AnnounceInUse DEF At
<1>8. CASE HandBack("decimator_in", "wait") \/ HandBack("decimator_in", "end")
  BY <1>1, <1>2, <1>8, HandBackInUse
<1>9. CASE At("decimator", "end") /\ Announce("decimator_out", "TERMINATE", "linger")
  BY <1>1, <1>2, <1>9, AnnounceInUse DEF At
<1>10. CASE Ends("decimator")
  BY <1>2, <1>10, EndsInUse DEF Ends
<1> QED
  BY <1>3, <1>4, <1>5, <1>6, <1>7, <1>8, <1>9, <1>10
  DEF DecimatorStep, DecimatorSetup, DecimatorSend, DecimatorEnd

LEMMA DelaySyncInUse ==
    ASSUME TypeOK, DelaySyncStep
    PROVE  FifosInUse /\ UNCHANGED opened
<1>1. /\ "decimator_out" \in Links /\ Sink("decimator_out") = "delay_sync"
      /\ "delay_sync_iq" \in Links /\ Source("delay_sync_iq") = "delay_sync"
      /\ "delay_sync_hwc" \in Links /\ Source("delay_sync_hwc") = "delay_sync"
      /\ "frame" \in Signal /\ "TERMINATE" \in Signal
  BY LinkEnds DEF Links, Signal
<1>2. UNCHANGED opened
  BY DEF DelaySyncStep
<1>3. CASE UNCHANGED link
  BY <1>2, <1>3, SameInUse
<1>4. CASE Ends("delay_sync")
  BY <1>2, <1>4, EndsInUse DEF Ends
<1>5. CASE DelaySyncTake
  <2>1. Running("delay_sync")
    BY <1>5 DEF DelaySyncTake, At
  <2>2. CASE Take("decimator_out", "frame", "alloc iq")
    BY <1>1, <1>2, <2>1, <2>2, TakeInUse
  <2>3. CASE Take("decimator_out", "TERMINATE", "close in")
    BY <1>1, <1>2, <2>1, <2>3, TakeInUse
  <2> QED
    BY <1>4, <1>5, <2>2, <2>3 DEF DelaySyncTake
<1>6. ASSUME NEW l \in {"delay_sync_iq", "delay_sync_hwc"}, NEW from, NEW to,
             DelaySyncAlloc(l, from, to)
      PROVE  FifosInUse
  <2>1. CASE AllocSucceeds(l, to)
    BY <1>1, <2>1, AllocInUse
  <2> QED
    BY <1>3, <1>4, <1>6, <2>1 DEF DelaySyncAlloc, AllocDrops
<1>7. ASSUME NEW l \in {"delay_sync_iq", "delay_sync_hwc"}, NEW from, NEW to,
             DelaySyncAnnounce(l, from, to)
      PROVE  FifosInUse
  <2>1. CASE Announce(l, "frame", to)
    BY <1>1, <1>7, <2>1, AnnounceInUse DEF DelaySyncAnnounce, At
  <2> QED
    BY <1>3, <1>7, <2>1 DEF DelaySyncAnnounce
<1>8. CASE DelaySyncHandBack
  BY <1>1, <1>2, <1>8, HandBackInUse DEF DelaySyncHandBack
<1>9. CASE DelaySyncClose
  <2>1. CASE At("delay_sync", "end iq") /\ Announce("delay_sync_iq", "TERMINATE", "close iq")
    BY <1>1, <1>2, <2>1, AnnounceInUse DEF At
  <2>2. CASE At("delay_sync", "end hwc") /\ Announce("delay_sync_hwc", "TERMINATE", "linger")
    BY <1>1, <1>2, <2>2, AnnounceInUse DEF At
  <2>3. CASE \/ link' = [link EXCEPT !["decimator_out"].snkOpen = FALSE]
             \/ link' = [link EXCEPT !["delay_sync_iq"].srcOpen = FALSE]
    BY <1>1, <1>2, <2>3, CloseInUse
  <2> QED
    BY <1>4, <1>9, <2>1, <2>2, <2>3 DEF DelaySyncClose
<1>10. CASE \/ DelaySyncAlloc("delay_sync_iq", "alloc iq", "alloc hwc")
            \/ DelaySyncAlloc("delay_sync_hwc", "alloc hwc", "send iq")
  BY <1>2, <1>6, <1>10
<1>11. CASE \/ DelaySyncAnnounce("delay_sync_iq", "send iq", "send hwc")
            \/ DelaySyncAnnounce("delay_sync_iq", "asks", "send hwc")
            \/ DelaySyncAnnounce("delay_sync_hwc", "send hwc", "free")
  BY <1>2, <1>7, <1>11
<1>12. CASE DelaySyncAsk
  BY <1>3, <1>12 DEF DelaySyncAsk
<1> QED
  BY <1>5, <1>8, <1>9, <1>10, <1>11, <1>12 DEF DelaySyncStep

LEMMA IqServerInUse ==
    ASSUME TypeOK, IqServerStep \/ ClientStep
    PROVE  FifosInUse /\ UNCHANGED opened
<1>1. "delay_sync_iq" \in Links /\ Sink("delay_sync_iq") = "iq_server"
  BY LinkEnds DEF Links
<1>2. UNCHANGED opened
  BY DEF IqServerStep, ClientStep
<1>3. CASE UNCHANGED link
  BY <1>2, <1>3, SameInUse
<1>4. CASE Ends("iq_server")
  BY <1>2, <1>4, EndsInUse DEF Ends
<1>5. CASE IqServerTake
  <2>1. Running("iq_server")
    BY <1>5 DEF IqServerTake, At
  <2>2. CASE Take("delay_sync_iq", "frame", "send")
    BY <1>1, <1>2, <2>1, <2>2, TakeInUse
  <2>3. CASE Take("delay_sync_iq", "TERMINATE", "client")
    BY <1>1, <1>2, <2>1, <2>3, TakeInUse
  <2> QED
    BY <1>3, <1>4, <1>5, <2>2, <2>3 DEF IqServerTake
<1>6. CASE IqServerHandBack
  BY <1>1, <1>2, <1>6, HandBackInUse DEF IqServerHandBack
<1>7. CASE IqServerClient \/ IqServerSend
  BY <1>3, <1>4, <1>7 DEF IqServerClient, IqServerSend
<1> QED
  BY <1>5, <1>6, <1>7 DEF IqServerStep, ClientStep

LEMMA HwcInUse == ASSUME TypeOK, HwcStep PROVE FifosInUse /\ UNCHANGED opened
<1>1. "delay_sync_hwc" \in Links /\ Sink("delay_sync_hwc") = "hw_controller"
  BY LinkEnds DEF Links
<1>2. UNCHANGED opened
  BY DEF HwcStep
<1>3. CASE link' = CloseEnds("hw_controller")
  BY <1>2, <1>3, EndsInUse
<1>4. CASE At("hw_controller", "wait") /\ Take("delay_sync_hwc", "frame", "hold")
  BY <1>1, <1>2, <1>4, TakeInUse DEF At
<1>5. CASE HandBack("delay_sync_hwc", "wait")
  BY <1>1, <1>2, <1>5, HandBackInUse
<1>6. CASE UNCHANGED link
  BY <1>2, <1>6, SameInUse
<1> QED
  BY <1>3, <1>4, <1>5, <1>6 DEF HwcStep, HwcTake, HwcAsk, HwcHandBack

LEMMA InStepStep == TypeOK /\ InStep /\ [Next]_vars => InStep'
<1> SUFFICES ASSUME TypeOK, InStep, [Next]_vars PROVE InStep'
  OBVIOUS
<1>1. CASE StartupStep
  BY <1>1, StartupInStep
<1>2. CASE RebufferStep \/ InputEnds
  BY <1>2, RebufferInUse, UseInStep
<1>3. CASE DecimatorStep \/ FilterSetupFails
  BY <1>3, DecimatorInUse, UseInStep
<1>4. CASE DelaySyncStep
  BY <1>4, DelaySyncInUse, UseInStep
<1>5. CASE IqServerStep \/ ClientStep
  BY <1>5, IqServerInUse, UseInStep
<1>6. CASE HwcStep
  BY <1>6, HwcInUse, UseInStep
<1>7. ASSUME NEW p \in Procs, StartFails(p) \/ Kill(p) PROVE InStep'
  <2>1. UNCHANGED opened /\ link' = CloseEnds(p)
    BY <1>7 DEF StartFails, Kill, Ends
  <2> QED
    BY <2>1, EndsInUse, UseInStep
<1>8. CASE UNCHANGED vars
  BY <1>8 DEF vars, InStep
<1> QED
  BY <1>1, <1>2, <1>3, <1>4, <1>5, <1>6, <1>7, <1>8 DEF Next

LEMMA InitInStep == Init => InStep
<1> SUFFICES ASSUME Init PROVE InStep
  OBVIOUS
<1>1. \A p \in Procs : opened[p] = 0 /\ Len(Startup[p]) >= 0
  BY StartupSteps DEF Init, Procs
<1>2. ASSUME NEW l \in Links
      PROVE  OnPace(l, opened[Source(l)] - StepsBefore(l), opened[Sink(l)],
                    link[l].bwReader, link[l].fw)
  <2>1. /\ opened[Source(l)] = 0 /\ opened[Sink(l)] = 0 /\ StepsBefore(l) \in Nat
        /\ link[l].bwReader = FALSE /\ link[l].fw = <<>>
    BY LinkEnds, EndSteps DEF Init
  <2> QED
    BY <2>1 DEF OnPace
<1> QED
  BY <1>1, <1>2 DEF InStep

-----------------------------------------------------------------------------
(* A start goes on.                                                          *)

\* An interface whose source has come to it, both of whose ends are there and are
\* not through with it.
LEMMA LinkGoesOn ==
    ASSUME TypeOK, InStep, NEW l \in Links, Src(l) >= 0, ~(Src(l) >= 3 /\ Snk(l) >= 3),
           pc[Source(l)] # "ended", pc[Sink(l)] # "ended", link[l].srcOpen
    PROVE  \/ MeetsForward(l) \/ MeetsBackward(l) \/ ReaderMayOpen(l)
           \/ WriterMayOpen(l) \/ MaySendReady(l) \/ MayTakeReady(l)
<1>1. /\ Src(l) \in Int /\ Snk(l) \in Nat
      /\ OnPace(l, Src(l), Snk(l), link[l].bwReader, link[l].fw)
  BY PaceOf
<1>2. /\ Src(l) = 0 => AtStep(Source(l), <<"fw", l>>)
      /\ Src(l) = 1 => AtStep(Source(l), <<"bw", l>>)
      /\ Src(l) = 2 => AtStep(Source(l), <<"INIT_READY", l>>)
      /\ Snk(l) = 0 => AtStep(Sink(l), <<"fw", l>>)
      /\ Snk(l) = 1 => AtStep(Sink(l), <<"bw", l>>)
      /\ Snk(l) = 2 => AtStep(Sink(l), <<"INIT_READY", l>>)
  <2>1. 1 \in 1 .. 3 /\ 2 \in 1 .. 3 /\ 3 \in 1 .. 3 /\ 1 - 1 = 0 /\ 2 - 1 = 1 /\ 3 - 1 = 2
    OBVIOUS
  <2> QED
    BY <2>1, StandsAt, Kinds
<1>3. CASE Src(l) = 0
  <2>1. Snk(l) = 0
    BY <1>1, <1>3 DEF OnPace
  <2> QED
    BY <1>2, <1>3, <2>1 DEF MeetsForward, BothAtStep
<1>4. CASE Src(l) = 1
  <2>1. Snk(l) = 1
    BY <1>1, <1>4 DEF OnPace
  <2> QED
    BY <1>2, <1>4, <2>1 DEF MeetsBackward, BothAtStep, ReaderMayOpen
<1>5. CASE Src(l) = 2
  BY <1>2, <1>5 DEF MaySendReady
<1>6. CASE Src(l) >= 3
  <2>1. Snk(l) = 1 \/ Snk(l) = 2
    BY <1>1, <1>6 DEF OnPace
  <2>2. CASE Snk(l) = 1
    <3>1. link[l].bwReader /\ OpensNonblocking(l)
      BY <1>1, <1>6, <2>2 DEF OnPace
    <3> QED
      BY <1>2, <2>2, <3>1 DEF WriterMayOpen
  <2>3. CASE Snk(l) = 2
    <3>1. link[l].fw # <<>> /\ Head(link[l].fw) = "INIT_READY"
      BY <1>1, <1>6, <2>3 DEF OnPace
    <3> QED
      BY <1>2, <2>3, <3>1 DEF MayTakeReady, ReadyAnnounced
  <2> QED
    BY <2>1, <2>2, <2>3
<1> QED
  BY <1>1, <1>3, <1>4, <1>5, <1>6

\* The interfaces are gone through from the input of the chain to its outputs: the
\* first whose ends are not through with it goes on.
LEMMA GoesOnUnlessStarted ==
    ASSUME TypeOK, InStep, \A p \in Procs : pc[p] # "ended", \A l \in Links : link[l].srcOpen
    PROVE  Started \/ SomebodyGoesOn
<1> SUFFICES ASSUME ~SomebodyGoesOn PROVE Started
  OBVIOUS
<1>1. ASSUME NEW l \in Links, Src(l) >= 0 PROVE Src(l) >= 3 /\ Snk(l) >= 3
  BY <1>1, LinkGoesOn, LinkEnds DEF SomebodyGoesOn
<1>2. /\ Src("decimator_in") = opened["rebuffer"] - 0
      /\ Src("decimator_out") = opened["decimator"] - 3
      /\ Src("delay_sync_iq") = opened["delay_sync"] - 3
      /\ Src("delay_sync_hwc") = opened["delay_sync"] - 6
      /\ Snk("decimator_in") = opened["decimator"]
      /\ Snk("decimator_out") = opened["delay_sync"]
      /\ Snk("delay_sync_iq") = opened["iq_server"]
      /\ Snk("delay_sync_hwc") = opened["hw_controller"]
  BY LinkEnds DEF Src, Snk, StepsBefore
<1>3. /\ "decimator_in" \in Links /\ "decimator_out" \in Links
      /\ "delay_sync_iq" \in Links /\ "delay_sync_hwc" \in Links
  BY DEF Links
<1>4. \A p \in Procs : opened[p] \in Nat /\ opened[p] <= Len(Startup[p])
  BY DEF TypeOK, InStep
<1>5. /\ opened["rebuffer"] \in Nat /\ opened["decimator"] \in Nat
      /\ opened["delay_sync"] \in Nat /\ opened["iq_server"] \in Nat
      /\ opened["hw_controller"] \in Nat
  BY <1>4 DEF Procs
<1>6. opened["rebuffer"] >= 3 /\ opened["decimator"] >= 3
  <2>1. Src("decimator_in") >= 0
    BY <1>2, <1>5
  <2> QED
    BY <1>1, <1>2, <1>3, <1>5, <2>1
<1>7. opened["decimator"] >= 6 /\ opened["delay_sync"] >= 3
  <2>1. Src("decimator_out") >= 0
    BY <1>2, <1>5, <1>6
  <2>2. Src("decimator_out") >= 3 /\ Snk("decimator_out") >= 3
    BY <1>1, <1>3, <2>1
  <2> QED
    BY <1>2, <1>5, <2>2
<1>8. opened["delay_sync"] >= 6 /\ opened["iq_server"] >= 3
  <2>1. Src("delay_sync_iq") >= 0
    BY <1>2, <1>5, <1>7
  <2>2. Src("delay_sync_iq") >= 3 /\ Snk("delay_sync_iq") >= 3
    BY <1>1, <1>3, <2>1
  <2> QED
    BY <1>2, <1>5, <2>2
<1>9. opened["delay_sync"] >= 9 /\ opened["hw_controller"] >= 3
  <2>1. Src("delay_sync_hwc") >= 0
    BY <1>2, <1>5, <1>8
  <2>2. Src("delay_sync_hwc") >= 3 /\ Snk("delay_sync_hwc") >= 3
    BY <1>1, <1>3, <2>1
  <2> QED
    BY <1>2, <1>5, <2>2
<1>10. /\ opened["rebuffer"] <= 3 /\ opened["decimator"] <= 6 /\ opened["delay_sync"] <= 9
       /\ opened["iq_server"] <= 3 /\ opened["hw_controller"] <= 3
  BY <1>4, StartupSteps DEF Procs
<1>11. /\ opened["rebuffer"] = 3 /\ opened["decimator"] = 6 /\ opened["delay_sync"] = 9
       /\ opened["iq_server"] = 3 /\ opened["hw_controller"] = 3
  BY <1>5, <1>6, <1>7, <1>8, <1>9, <1>10
<1> QED
  BY <1>11, StartupSteps DEF Started, Procs

\* The inductive invariant of the chain.
THEOREM Invariance == Spec => []IInv
<1>1. Init => Account /\ (why = {} => Undisturbed)
  <2> SUFFICES ASSUME Init PROVE Account /\ Undisturbed
    OBVIOUS
  <2>1. Quiet
    BY DEF Init, Quiet
  <2>2. Looping
    BY DEF Init, Looping, Procs
  <2>3. Served
    BY DEF Init, Served, Procs
  <2> QED
    BY <2>1, <2>2, <2>3, InitAccount, UndisturbedParts
<1>2. Account /\ (why = {} => Undisturbed) /\ [Next]_vars
         => (Account /\ (why = {} => Undisturbed))'
  BY AccountStep, UndisturbedStep
<1>3. Account /\ InStep /\ [Next]_vars => InStep'
  BY InStepStep DEF Account
<1>4. Account /\ InStep /\ (why = {} => Undisturbed) => IInv
  BY DEF IInv, Account
<1> QED
  BY <1>1, <1>2, <1>3, <1>4, InitInStep, PTL DEF Spec

\* A chain that nobody touches, whose input goes on and whose clients do not reset
\* their connections runs for ever: no process ends by itself.
THEOREM NothingEndsByItself == Spec => []EndsForAReason
<1>1. IInv => EndsForAReason
  <2> SUFFICES ASSUME Undisturbed PROVE Ended = {}
    BY DEF IInv, EndsForAReason
  <2>1. \A p \in Procs : pc[p] \in Loop(p)
    BY UndisturbedParts, LoopingAll
  <2>2. \A p \in Procs : "ended" \notin Loop(p)
    <3> SUFFICES ASSUME NEW p \in Procs PROVE "ended" \notin Loop(p)
      OBVIOUS
    <3>1. CASE p = "rebuffer"
      BY <3>1, LoopPlaces
    <3>2. CASE p = "decimator"
      BY <3>2, LoopPlaces
    <3>3. CASE p = "delay_sync"
      BY <3>3, LoopPlaces
    <3>4. CASE p = "iq_server"
      BY <3>4, LoopPlaces
    <3>5. CASE p = "hw_controller"
      BY <3>5, LoopPlaces
    <3> QED
      BY <3>1, <3>2, <3>3, <3>4, <3>5 DEF Procs
  <2> QED
    BY <2>1, <2>2 DEF Ended
<1> QED
  BY <1>1, Invariance, PTL

\* No start gets stuck: as long as nothing has happened to the chain and it is not yet
\* up, one of the calls its processes are in (init_out_sm_buffer, init_in_sm_buffer and
\* their Python counterparts) can return.
THEOREM StartGoesOn == Spec => []ChainStarts
<1>1. IInv => ChainStarts
  <2> SUFFICES ASSUME TypeOK, InStep, Undisturbed PROVE Started \/ SomebodyGoesOn
    BY DEF IInv, ChainStarts
  <2>1. \A p \in Procs : pc[p] # "ended"
    BY DEF Undisturbed, Procs
  <2>2. \A l \in Links : link[l].srcOpen
    BY DEF Undisturbed
  <2> QED
    BY <2>1, <2>2, GoesOnUnlessStarted
<1> QED
  BY <1>1, Invariance, PTL
=============================================================================
