-------------------------- MODULE MCShmemTransfer --------------------------
(***************************************************************************)
(* Both kinds of interface in one state space: drop_mode says which one    *)
(* this is.  ShmemTransfer itself is taken with DropMode = TRUE.           *)
(***************************************************************************)
EXTENDS ShmemTransfer

VARIABLE drop_mode

Blocking == INSTANCE ShmemTransfer WITH DropMode <- FALSE

mcVars == <<vars, drop_mode>>

MCInit == Init /\ drop_mode \in BOOLEAN

InMode(dropping, blocking) ==
    /\ IF drop_mode THEN dropping ELSE blocking
    /\ UNCHANGED drop_mode

MCNext == InMode(Next, Blocking!Next)

MCSpec ==
    /\ MCInit /\ [][MCNext]_mcVars
    /\ WF_mcVars(InMode(SourceStep, Blocking!SourceStep))
    /\ WF_mcVars(InMode(SinkStep, Blocking!SinkStep))

\* Every frame announced reaches its user, and without drop mode every frame
\* the source is offered does (send_ctr_buff_ready, wait_buff_free).
EveryFrameUsed == SentIsUsed /\ (~drop_mode => Blocking!OfferedIsUsed)
=============================================================================
