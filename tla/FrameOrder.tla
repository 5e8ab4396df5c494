----------------------------- MODULE FrameOrder -----------------------------
(***************************************************************************)
(* Old and new frames in a queue.  A state machine that has asked for a    *)
(* change goes on when it sees the first frame with it, on the assumption  *)
(* that no frame without it comes after.                                   *)
(***************************************************************************)
EXTENDS Naturals, Sequences

\* No frame of q is one of N.
Clear(q, N) == \A i \in DOMAIN q : q[i] \notin N

\* No frame of O follows one of N in q.
Turns(q, N, O) == \A i, j \in DOMAIN q : i < j /\ q[i] \in N => q[j] \notin O
=============================================================================
