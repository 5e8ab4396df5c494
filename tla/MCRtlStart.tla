----------------------------- MODULE MCRtlStart -----------------------------
(* Files of two sections and defaults, with options at the margin and indented. *)
EXTENDS RtlStart

Line(kind, indented, name, value) ==
    [kind |-> kind, indented |-> indented, name |-> name, capital |-> FALSE, value |-> value]

Number(n) == [int |-> n, atoi |-> n, empty |-> FALSE]
Underscored == [int |-> 10, atoi |-> 1, empty |-> FALSE]    \* 1_0

MCLines ==
    {Line("section", i, s, Empty) : i \in BOOLEAN, s \in {"hw", "daq"}}
    \cup {Line("section", FALSE, "DEFAULT", Empty)}
    \cup {Line("pair", i, "num_ch", v) : i \in BOOLEAN, v \in {Empty, Number(2)}}
    \cup {[Line("pair", FALSE, "num_ch", Number(2)) EXCEPT !.capital = TRUE]}
    \cup {Line("pair", i, "gain", Underscored) : i \in BOOLEAN}
    \cup {Line("word", i, "", v) : i \in BOOLEAN, v \in {Letters, Number(1)}}
    \cup {Line("unclosed", FALSE, "", Empty), Line("comment", TRUE, "", Empty)}
=============================================================================
