------------------------------ MODULE IniParse ------------------------------
(***************************************************************************)
(* How the C blocks load daq_chain_config.ini: ini_parse_stream reads it   *)
(* line by line and hands name=value pairs to the handler of the block,    *)
(* which keeps those it knows in a local structure nobody initialises.     *)
(*                                                                         *)
(* The same file is read by Python's ConfigParser: by ini_checker.py and   *)
(* by the Python blocks.  PythonReads describes what it makes of the file. *)
(*                                                                         *)
(* A line is what is left of it without white space and comments; all      *)
(* lines fit into INI_MAX_LINE, and they begin with a letter or a bracket  *)
(* unless they are words.                                                  *)
(***************************************************************************)
EXTENDS Integers, Sequences

CONSTANTS
    Lines,      \* the lines a file may consist of
    MaxLines,   \* bound: how many there are
    Blocks,     \* the blocks that are started
    Garbage     \* what an uninitialised variable holds

Text == -1      \* not a number

\* What Python's int() and what atoi make of a value: 1_000 is 1000 and 1, "5 dB" is
\* Text and 5.  Plain digits are the same number to both.
Value == [int : Nat \cup {Text}, atoi : Nat, empty : BOOLEAN]
Plain(v) == v.int = v.atoi
Empty == [int |-> Text, atoi |-> 0, empty |-> TRUE]    \* nothing behind the = or :
Letters == [int |-> Text, atoi |-> 0, empty |-> FALSE]

\* "comment" stands for blank lines too, "unclosed" is a [section without ], a "word"
\* has neither = nor :.  The name of an option is in lower case, and "capital" whether
\* it is written with capitals.
LineType ==
    [kind : {"comment", "section", "unclosed", "pair", "word"}, indented : BOOLEAN,
     name : STRING, capital : BOOLEAN, value : Value]

RtlDaqKeys ==
    {"hw"} \X {"num_ch", "name", "unit_id", "ioo_type", "en_bias_tee"}
    \cup {"daq"} \X {"daq_buffer_size", "sample_rate", "center_freq", "gain",
                     "en_noise_source_ctr", "ctr_channel_serial_no", "log_level"}

RebufferKeys ==
    {<<"hw", "num_ch">>, <<"calibration", "corr_size">>, <<"daq", "daq_buffer_size">>,
     <<"pre_processing", "decimation_ratio">>, <<"pre_processing", "cpi_size">>,
     <<"daq", "log_level">>}

DecimatorKeys ==
    {<<"hw", "num_ch">>, <<"calibration", "corr_size">>, <<"daq", "log_level">>}
    \cup {"pre_processing"} \X {"cpi_size", "decimation_ratio", "en_filter_reset",
                                "fir_tap_size"}

IqServerKeys ==
    {<<"hw", "num_ch">>, <<"pre_processing", "cpi_size">>, <<"daq", "log_level">>}

Keys(b) == CASE b = "rtl_daq" -> RtlDaqKeys
             [] b = "rebuffer" -> RebufferKeys
             [] b = "decimator" -> DecimatorKeys
             [] b = "iq_server" -> IqServerKeys

ASSUME IniParseAssumption ==
    /\ Lines \subseteq LineType
    /\ MaxLines \in Nat
    /\ Blocks \subseteq {"rtl_daq", "rebuffer", "decimator", "iq_server"}
    /\ Garbage \notin Nat \cup Value

VARIABLES
    block,      \* the program
    pc,         \* "open", "parse", "parsed", then "main", or "exit"
    file,       \* the lines read so far
    section, prev_name,
    error,      \* number of the first faulty line
    config      \* the configuration structure

lineVars == <<file, section, prev_name, error>>
parseVars == <<block, pc, lineVars, config>>

ParseInit ==
    /\ block \in Blocks
    /\ pc = "open"
    /\ file = <<>> /\ section = "" /\ prev_name = "" /\ error = 0
    /\ config = [k \in Keys(block) |-> Garbage]

-----------------------------------------------------------------------------
(* ini_parse *)

\* fopen; without a file ini_parse returns -1 and main gives up.
OpenFile ==
    /\ pc = "open"
    /\ pc' \in {"parse", "exit"}
    /\ UNCHANGED <<block, lineVars, config>>

NoteError == error' = IF error = 0 THEN Len(file) + 1 ELSE error

\* Every value but two goes through atoi.
Strings == {<<"hw", "name">>, <<"hw", "en_bias_tee">>}
Loaded(k, v) == IF k \in Strings THEN v ELSE v.atoi

\* The handlers compare names as they are written.  None knows a name with a capital,
\* so that one name stands for all of these.
Written(l) == IF l.capital THEN "A name" ELSE l.name

\* The handler keeps what it knows and reports a failure whatever it is given.
Handler(name, value) ==
    LET k == <<section, name>>
    IN  /\ config' = IF k \in DOMAIN config THEN [config EXCEPT ![k] = Loaded(k, value)]
                     ELSE config
        /\ NoteError

\* A line behind white space is one more value for the name before it.
Continues(l) == l.kind # "comment" /\ prev_name # "" /\ l.indented
Continuation(l) == IF l.kind = "word" THEN l.value ELSE Letters

\* Mutant: a section leaves the name before it to be continued.
EnterSectionKeepsName(l) ==
    /\ l.kind = "section"
    /\ section' = l.name
    /\ UNCHANGED <<prev_name, error, config>>

EnterSection(l) ==
    /\ l.kind = "section"
    /\ section' = l.name /\ prev_name' = ""
    /\ UNCHANGED <<error, config>>

ReadLine(l) ==
    /\ pc = "parse" /\ Len(file) < MaxLines
    /\ file' = Append(file, l)
    /\ \/ l.kind = "comment" /\ UNCHANGED <<section, prev_name, error, config>>
       \/ /\ Continues(l)
          /\ Handler(prev_name, Continuation(l))
          /\ UNCHANGED <<section, prev_name>>
       \/ ~Continues(l) /\ EnterSection(l)
       \/ /\ ~Continues(l) /\ l.kind = "pair"
          /\ prev_name' = Written(l)
          /\ Handler(Written(l), l.value)
          /\ UNCHANGED section
       \/ /\ ~Continues(l) /\ l.kind \in {"unclosed", "word"}
          /\ NoteError
          /\ UNCHANGED <<section, prev_name, config>>
    /\ UNCHANGED <<block, pc>>

\* The end of the file.  main looks for a negative result, and there is none.
CloseFile ==
    /\ pc = "parse"
    /\ pc' = "parsed"
    /\ UNCHANGED <<block, lineVars, config>>

ParseStep == OpenFile \/ (\E l \in Lines : ReadLine(l)) \/ CloseFile

-----------------------------------------------------------------------------
(* ConfigParser of Python's library, with its defaults.                     *)

\* A value is the sequence of its lines; no option is open after a section.  "verbatim"
\* are the options written as they are named, without capitals.
PythonStart == [refused |-> FALSE, nested |-> FALSE, section |-> "", option |-> "",
                indented |-> FALSE, sections |-> {}, values |-> <<>>, verbatim |-> {}]

WithValue(f, k, v) == [x \in DOMAIN f \cup {k} |-> IF x = k THEN v ELSE f[x]]
Lined(v) == IF v.empty THEN <<>> ELSE <<v>>

\* The section of the defaults may come again and again.
Repeats(s, name) == name # "DEFAULT" /\ name \in s.sections

\* The line after those that led to s.  Names are read in lower case.
PythonReadsLine(s, l) ==
    LET k == <<s.section, s.option>>
        new == <<s.section, l.name>>
        open == s.option # ""
    IN  CASE l.kind = "comment" -> s
          [] l.kind # "comment" /\ open /\ l.indented /\ ~s.indented ->
                [s EXCEPT !.values[k] = Append(@, Continuation(l))]
          [] OTHER ->
                LET t == [s EXCEPT !.indented = l.indented,
                                   !.nested = @ \/ (open /\ l.indented)]
                IN  IF l.kind = "section" /\ l.name # "" /\ ~Repeats(s, l.name)
                    THEN [t EXCEPT !.section = l.name, !.option = "",
                                   !.sections = @ \cup {l.name}]
                    ELSE IF /\ l.kind = "pair" /\ l.name # ""
                            /\ s.section # "" /\ new \notin DOMAIN s.values
                    THEN [t EXCEPT !.option = l.name,
                                   !.values = WithValue(@, new, Lined(l.value)),
                                   !.verbatim = IF l.capital THEN @ ELSE @ \cup {new}]
                    ELSE [t EXCEPT !.refused = TRUE]

PythonReads(f) ==
    LET after[i \in 0 .. Len(f)] ==
            IF i = 0 THEN PythonStart ELSE PythonReadsLine(after[i - 1], f[i])
    IN  after[Len(f)]

\* Where Python finds the option k when all is read: in its section, or among the
\* defaults of all sections.
NoOption == <<"", "">>
PythonFinds(s, k) ==
    IF k \in DOMAIN s.values THEN k
    ELSE IF k[1] \in s.sections /\ <<"DEFAULT", k[2]>> \in DOMAIN s.values
    THEN <<"DEFAULT", k[2]>>
    ELSE NoOption

-----------------------------------------------------------------------------
\* What the block has loaded is what Python reads.
Agrees(k, v) == IF k \in Strings THEN config[k] = v ELSE Plain(v) => config[k] = v.int

\* A file that Python's parser takes without an error means to a C block what
\* it means to ini_checker.py and the Python blocks, as far as options are
\* written in lower case and in their own section: where Python finds a number
\* in plain digits the block has the same number, where it finds a text the
\* same text.  All else the block has not set, be it that Python does not find
\* it either or that it stands among the defaults or has a capital in its name.
\* Excepted are files with options indented under options, which only the C
\* blocks take for continuations.
CheckedIsLoaded ==
    pc = "parsed" =>
        LET python == PythonReads(file)
        IN  ~python.refused /\ ~python.nested =>
                \A k \in DOMAIN config :
                    LET found == PythonFinds(python, k)
                    IN  IF found = k /\ k \in python.verbatim
                        THEN Len(python.values[k]) = 1 => Agrees(k, python.values[k][1])
                        ELSE config[k] = Garbage
=============================================================================
