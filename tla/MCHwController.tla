--------------------------- MODULE MCHwController ---------------------------
(* Two receivers, three gains: configurations and messages for TLC. *)
EXTENDS HwController

Two(a, b) == [m \in {0, 1} |-> IF m = 0 THEN a ELSE b]

\* A receiver that starts too high beside one that is never overdriven, unified
\* control with limits that differ, and no tuning, with one always overdriven.
MCConfigurations ==
    {[unified |-> FALSE, tune |-> TRUE, gains |-> Two(2, 0), limit |-> Two(0, 2)],
     [unified |-> TRUE, tune |-> TRUE, gains |-> Two(0, 1), limit |-> Two(1, 2)],
     [unified |-> FALSE, tune |-> FALSE, gains |-> Two(1, 1), limit |-> Two(-1, 1)]}

MCCalGains == Two(2, 2)

MCMessages ==
    {<<"AGC ">>, <<"GAIN", Two(0, 1)>>, <<"GAIN", Two(0, 3)>>,
     <<"EXIT">>, <<"unknown">>, <<"undecodable">>}
=============================================================================
