---------------------------- MODULE RequestReply ----------------------------
(***************************************************************************)
(* What the control interface promises a client: requests are taken one at *)
(* a time, each that is taken is carried out at most once and in order,    *)
(* and a reply stands for a request that has been carried out.             *)
(*                                                                         *)
(* HwController implements this with a list, a lock and a condition that   *)
(* two threads share.                                                      *)
(***************************************************************************)
EXTENDS Naturals, Sequences

CONSTANT Requests

VARIABLES
    asked,      \* requests taken, in order
    served,     \* requests carried out, in order
    answered    \* number of replies sent

requestVars == <<asked, served, answered>>

RequestInit == asked = <<>> /\ served = <<>> /\ answered = 0

Ask ==
    /\ Len(asked) = Len(served)
    /\ \E r \in Requests : asked' = Append(asked, r)
    /\ UNCHANGED <<served, answered>>

Serve ==
    /\ Len(served) < Len(asked)
    /\ served' = Append(served, asked[Len(served) + 1])
    /\ UNCHANGED <<asked, answered>>

\* A client that has hung up gets no reply, so some are never sent.
Reply ==
    /\ Len(served) = Len(asked)
    /\ answered < Len(served)
    /\ answered' = answered + 1
    /\ UNCHANGED <<asked, served>>

RequestSpec == RequestInit /\ [][Ask \/ Serve \/ Reply]_requestVars
=============================================================================
