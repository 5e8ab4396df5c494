------------------------------ MODULE MCRtlDaq ------------------------------
(* An instance of RtlDaq for TLC. *)
EXTENDS RtlDaq

\* Two commands in a row: the second may come before, while or after the first
\* one is carried out.
MCScripts == {<<"s", "s">>, <<"n", "g">>, <<"c", "h">>, <<"a">>}

\* Both receivers slightly off, or the second one far off.
MCFsCorrections == {[c \in Receivers |-> "small"],
                    [c \in Receivers |-> IF c = 0 THEN "small" ELSE "huge"]}

\* One block of one receiver overdrives.
MCOverdriven == {<<0, 2>>}
=============================================================================
