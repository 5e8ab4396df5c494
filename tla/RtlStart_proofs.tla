--------------------------- MODULE RtlStart_proofs ---------------------------
(***************************************************************************)
(* Machine-checked proofs about the start of the C blocks, for every       *)
(* configuration file and every number of receivers: all receivers begin   *)
(* together, and a file that Python's parser takes means the same to C.    *)
(***************************************************************************)
EXTENDS RtlStart, QueueLemmas

-----------------------------------------------------------------------------
(* What Python's parser makes of one more line *)

\* g is what the parser has read after each of the first n lines of f.
IsReading(f, n, g) ==
    g = [i \in 0 .. n |-> IF i = 0 THEN PythonStart ELSE PythonReadsLine(g[i - 1], f[i])]

\* There is such a function for every length: the definition is a recursion.
LEMMA ReadingExists ==
    ASSUME NEW f, NEW n \in Nat
    PROVE  \E g : IsReading(f, n, g)
<1> DEFINE S == {m \in Nat : ~(\E g : IsReading(f, m, g))}
<1>1. SUFFICES ASSUME S # {} PROVE FALSE
  OBVIOUS
<1>2. PICK m \in S : \A k \in S : m <= k
  BY <1>1, LeastOfNaturals
<1>3. CASE m = 0
  <2> DEFINE g == [i \in 0 .. 0 |-> PythonStart]
  <2>1. IsReading(f, 0, g)
    BY DEF IsReading
  <2> QED
    BY <1>2, <1>3, <2>1
<1>4. CASE m # 0
  <2>1. m \in Nat /\ m - 1 \in Nat /\ ~(m <= m - 1)
    BY <1>2, <1>4
  <2>2. m - 1 \notin S
    BY <1>2, <2>1
  <2>3. PICK g : IsReading(f, m - 1, g)
    BY <2>1, <2>2
  <2> DEFINE h == [i \in 0 .. m |-> IF i = m THEN PythonReadsLine(g[m - 1], f[m]) ELSE g[i]]
  <2>4. \A i \in 0 .. m - 1 :
           g[i] = IF i = 0 THEN PythonStart ELSE PythonReadsLine(g[i - 1], f[i])
    BY <2>3 DEF IsReading
  <2>5. ASSUME NEW i \in 0 .. m
        PROVE  h[i] = IF i = 0 THEN PythonStart ELSE PythonReadsLine(h[i - 1], f[i])
    <3>1. CASE i = m
      <4>1. m - 1 \in 0 .. m /\ m - 1 # m
        BY <2>1
      <4> QED
        BY <1>4, <3>1, <4>1
    <3>2. CASE i # m /\ i # 0
      <4>1. i \in 0 .. m - 1 /\ i - 1 \in 0 .. m /\ i - 1 # m
        BY <2>1, <3>2
      <4> QED
        BY <2>4, <3>2, <4>1
    <3>3. CASE i = 0
      <4>1. 0 \in 0 .. m - 1 /\ 0 # m
        BY <2>1
      <4> QED
        BY <2>4, <3>3, <4>1
    <3> QED
      BY <3>1, <3>2, <3>3
  <2>6. IsReading(f, m, h)
    <3>1. h = [i \in 0 .. m |-> h[i]]
      OBVIOUS
    <3> HIDE DEF h
    <3>2. [i \in 0 .. m |-> h[i]]
             = [i \in 0 .. m |-> IF i = 0 THEN PythonStart
                                 ELSE PythonReadsLine(h[i - 1], f[i])]
      BY <2>5
    <3> QED
      BY <3>1, <3>2 DEF IsReading
  <2> QED
    BY <1>2, <2>6
<1> QED
  BY <1>3, <1>4

\* What has been read of the first lines does not depend on those that follow.
LEMMA ReadingUnique ==
    ASSUME NEW f, NEW e, NEW n \in Nat, NEW m \in Nat, NEW g, NEW h,
           IsReading(f, n, g), IsReading(e, m, h),
           \A i \in 1 .. n : f[i] = e[i], n <= m
    PROVE  \A i \in 0 .. n : g[i] = h[i]
<1> DEFINE S == {k \in 0 .. n : g[k] # h[k]}
<1>1. SUFFICES ASSUME S # {} PROVE FALSE
  OBVIOUS
<1>2. PICK k \in S : \A j \in S : k <= j
  <2>1. S \subseteq Nat
    OBVIOUS
  <2> HIDE DEF S
  <2> QED
    BY <1>1, <2>1, LeastOfNaturals
<1>3. k \in 0 .. n /\ k \in 0 .. m /\ g[k] # h[k]
  BY <1>2
<1>4. /\ g[k] = IF k = 0 THEN PythonStart ELSE PythonReadsLine(g[k - 1], f[k])
      /\ h[k] = IF k = 0 THEN PythonStart ELSE PythonReadsLine(h[k - 1], e[k])
  BY <1>3 DEF IsReading
<1>5. CASE k = 0
  BY <1>3, <1>4, <1>5
<1>6. CASE k # 0
  <2>1. k - 1 \in 0 .. n /\ ~(k <= k - 1) /\ k \in 1 .. n
    BY <1>3, <1>6
  <2>2. g[k - 1] = h[k - 1]
    BY <1>2, <2>1
  <2> QED
    BY <1>3, <1>4, <1>6, <2>1, <2>2
<1> QED
  BY <1>5, <1>6

\* PythonReads is the last of what is read.
LEMMA ReadsIs ==
    ASSUME NEW f, Len(f) \in Nat
    PROVE  \E g : IsReading(f, Len(f), g) /\ PythonReads(f) = g[Len(f)]
<1> DEFINE after == CHOOSE g : IsReading(f, Len(f), g)
<1>1. IsReading(f, Len(f), after)
  BY ReadingExists
<1>2. PythonReads(f) = after[Len(f)]
  BY DEF PythonReads, IsReading
<1> QED
  BY <1>1, <1>2
LEMMA ReadsNothing == PythonReads(<<>>) = PythonStart
<1>1. Len(<<>>) = 0
  OBVIOUS
<1>2. PICK g : IsReading(<<>>, 0, g) /\ PythonReads(<<>>) = g[0]
  BY <1>1, ReadsIs
<1>3. 0 \in 0 .. 0
  OBVIOUS
<1> QED
  BY <1>2, <1>3 DEF IsReading

LEMMA ReadsMore ==
    ASSUME NEW S, NEW f \in Seq(S), NEW l \in S
    PROVE  PythonReads(Append(f, l)) = PythonReadsLine(PythonReads(f), l)
<1> DEFINE e == Append(f, l)
           n == Len(f)
<1>1. /\ n \in Nat /\ Len(e) = n + 1 /\ e[n + 1] = l
      /\ \A i \in 1 .. n : f[i] = e[i]
  OBVIOUS
<1> HIDE DEF e
<1>2. PICK g : IsReading(f, n, g) /\ PythonReads(f) = g[n]
  BY <1>1, ReadsIs
<1>3. n + 1 \in Nat /\ n <= n + 1 /\ n \in 0 .. n /\ n + 1 \in 0 .. n + 1 /\ n + 1 # 0
      /\ (n + 1) - 1 = n
  BY <1>1
<1>4. PICK h : IsReading(e, n + 1, h) /\ PythonReads(e) = h[n + 1]
  BY <1>1, <1>3, ReadsIs
<1> HIDE DEF n
<1>5. g[n] = h[n]
  <2>1. \A i \in 1 .. n : f[i] = e[i]
    BY <1>1
  <2> DEFINE m == n + 1
  <2>2. m \in Nat /\ n \in Nat /\ n <= m /\ IsReading(e, m, h)
    BY <1>1, <1>3, <1>4
  <2> HIDE DEF m
  <2>3. \A i \in 0 .. n : g[i] = h[i]
    BY <1>2, <2>1, <2>2, ReadingUnique
  <2> QED
    BY <1>3, <2>3
<1>6. h[n + 1] = PythonReadsLine(h[n], l)
  BY <1>1, <1>3, <1>4 DEF IsReading
<1> QED
  BY <1>2, <1>4, <1>5, <1>6 DEF e

\* What a parser's state is.  The provers do not take "" for a string.
Name == STRING \cup {""}

StateIn(V, W) == [refused : BOOLEAN, nested : BOOLEAN, section : Name, option : Name,
                  indented : BOOLEAN, sections : SUBSET STRING, values : V, verbatim : W]

IsState(s) == \E V, W : s \in StateIn(V, W)

\* The four things a line may be to Python, apart from being refused.
Ignores(s, l, t) == l.kind = "comment" /\ t = s

Appends(s, l, t) ==
    /\ l.kind # "comment" /\ s.option # "" /\ l.indented
    /\ t.section = s.section /\ t.option = s.option /\ t.verbatim = s.verbatim
    /\ t.values = [s.values EXCEPT ![<<s.section, s.option>>] = Append(@, Continuation(l))]

Opens(s, l, t) ==
    /\ l.kind = "section" /\ ~(s.option # "" /\ l.indented)
    /\ t.section = l.name /\ t.option = ""
    /\ t.values = s.values /\ t.verbatim = s.verbatim

Assigns(s, l, t) ==
    /\ l.kind = "pair" /\ l.name # "" /\ ~(s.option # "" /\ l.indented)
    /\ <<s.section, l.name>> \notin DOMAIN s.values
    /\ t.section = s.section /\ t.option = l.name
    /\ t.values = WithValue(s.values, <<s.section, l.name>>, Lined(l.value))
    /\ t.verbatim = IF l.capital THEN s.verbatim
                    ELSE s.verbatim \cup {<<s.section, l.name>>}

Accepted(s) == ~s.refused /\ ~s.nested

LEMMA ReadsLine ==
    ASSUME NEW s, IsState(s), NEW l \in LineType
    PROVE  LET t == PythonReadsLine(s, l)
           IN  /\ IsState(t)
               /\ Accepted(t) => /\ Accepted(s)
                                 /\ \/ Ignores(s, l, t) \/ Appends(s, l, t)
                                    \/ Opens(s, l, t) \/ Assigns(s, l, t)
<1> DEFINE t == PythonReadsLine(s, l)
           k == <<s.section, s.option>>
           new == <<s.section, l.name>>
           open == s.option # ""
           u == [s EXCEPT !.indented = l.indented, !.nested = @ \/ (open /\ l.indented)]
<1>1. PICK V, W : s \in StateIn(V, W)
  BY DEF IsState
<1>2. /\ l.kind \in {"comment", "section", "unclosed", "pair", "word"}
      /\ l.indented \in BOOLEAN /\ l.name \in STRING
  BY DEF LineType
<1>3. CASE l.kind = "comment"
  <2>1. t = s
    BY <1>3 DEF PythonReadsLine
  <2> QED
    BY <2>1, <1>3 DEF Ignores
<1>4. CASE l.kind # "comment" /\ open /\ l.indented /\ ~s.indented
  <2> DEFINE w == [s.values EXCEPT ![k] = Append(@, Continuation(l))]
  <2>1. t = [s EXCEPT !.values = w]
    BY <1>4 DEF PythonReadsLine
  <2> HIDE DEF t, w
  <2>2. t \in StateIn({w}, W)
    BY <1>1, <2>1 DEF StateIn
  <2>3. /\ t.refused = s.refused /\ t.nested = s.nested /\ t.section = s.section
        /\ t.option = s.option /\ t.values = w /\ t.verbatim = s.verbatim
    BY <1>1, <2>1 DEF StateIn
  <2>4. IsState(t)
    BY <2>2 DEF IsState
  <2>5. Appends(s, l, t)
    BY <1>4, <2>3 DEF Appends, w
  <2> QED
    BY <2>3, <2>4, <2>5 DEF Accepted, t
<1>5. CASE l.kind # "comment" /\ ~(open /\ l.indented /\ ~s.indented)
  <2> DEFINE opens == l.kind = "section" /\ l.name # "" /\ ~Repeats(s, l.name)
             assigns == /\ l.kind = "pair" /\ l.name # ""
                        /\ s.section # "" /\ new \notin DOMAIN s.values
  <2>1. u \in StateIn({s.values}, {s.verbatim})
    BY <1>1, <1>2 DEF StateIn
  <2>2. /\ u.refused = s.refused /\ u.section = s.section /\ u.option = s.option
        /\ u.nested = (s.nested \/ (open /\ l.indented)) /\ u.values = s.values
        /\ u.sections = s.sections /\ u.verbatim = s.verbatim
    BY <1>1 DEF StateIn
  <2>3. t = IF opens
            THEN [u EXCEPT !.section = l.name, !.option = "", !.sections = @ \cup {l.name}]
            ELSE IF assigns
            THEN [u EXCEPT !.option = l.name,
                           !.values = WithValue(@, new, Lined(l.value)),
                           !.verbatim = IF l.capital THEN @ ELSE @ \cup {new}]
            ELSE [u EXCEPT !.refused = TRUE]
    BY <1>5 DEF PythonReadsLine
  <2> HIDE DEF t, u
  <2>4. CASE opens
    <3>1. t = [u EXCEPT !.section = l.name, !.option = "", !.sections = @ \cup {l.name}]
      BY <2>3, <2>4
    <3>2. t \in StateIn({s.values}, {s.verbatim})
      <4> DEFINE v == [u EXCEPT !.section = l.name]
                 w == [v EXCEPT !.option = ""]
      <4>1. v \in StateIn({s.values}, {s.verbatim}) /\ v.sections = u.sections
        BY <1>2, <2>1 DEF Name, StateIn
      <4>2. t = [w EXCEPT !.sections = u.sections \cup {l.name}]
        BY <2>1, <3>1 DEF StateIn
      <4> HIDE DEF v
      <4>3. w \in StateIn({s.values}, {s.verbatim})
        BY <4>1 DEF Name, StateIn
      <4> HIDE DEF w
      <4>4. u.sections \cup {l.name} \in SUBSET STRING
        BY <1>2, <2>1 DEF StateIn
      <4> QED
        BY <4>2, <4>3, <4>4 DEF StateIn
    <3>3. /\ t.refused = u.refused /\ t.nested = u.nested /\ t.section = l.name
          /\ t.option = "" /\ t.values = u.values /\ t.verbatim = u.verbatim
      BY <2>1, <3>1 DEF StateIn
    <3>4. IsState(t)
      BY <3>2 DEF IsState
    <3> QED
      BY <2>2, <2>4, <3>3, <3>4 DEF Accepted, Opens, t
  <2>5. CASE ~opens /\ assigns
    <3> DEFINE w == WithValue(u.values, new, Lined(l.value))
               x == IF l.capital THEN u.verbatim ELSE u.verbatim \cup {new}
    <3>1. t = [u EXCEPT !.option = l.name, !.values = w, !.verbatim = x]
      BY <2>3, <2>5, <2>1
    <3> HIDE DEF w, x
    <3>2. t \in StateIn({w}, {x})
      <4> DEFINE v == [u EXCEPT !.option = l.name]
                 y == [v EXCEPT !.values = w]
      <4>1. v \in StateIn({s.values}, {s.verbatim})
        BY <1>2, <2>1 DEF Name, StateIn
      <4>2. t = [y EXCEPT !.verbatim = x]
        BY <2>1, <3>1 DEF StateIn
      <4> HIDE DEF v
      <4>3. y \in StateIn({w}, {s.verbatim})
        BY <4>1 DEF StateIn
      <4> HIDE DEF y
      <4> QED
        BY <4>2, <4>3 DEF StateIn
    <3>3. /\ t.refused = u.refused /\ t.nested = u.nested /\ t.section = u.section
          /\ t.option = l.name /\ t.values = w /\ t.verbatim = x
      BY <2>1, <3>1 DEF StateIn
    <3>4. IsState(t)
      BY <3>2 DEF IsState
    <3>5. t.verbatim = IF l.capital THEN s.verbatim ELSE s.verbatim \cup {new}
      BY <2>2, <3>3 DEF x
    <3> QED
      BY <2>2, <2>5, <3>3, <3>4, <3>5 DEF Accepted, Assigns, t, w
  <2>6. CASE ~opens /\ ~assigns
    <3>1. t = [u EXCEPT !.refused = TRUE]
      BY <2>3, <2>6
    <3>2. t \in StateIn({s.values}, {s.verbatim})
      BY <2>1, <3>1 DEF StateIn
    <3>3. t.refused
      BY <2>1, <3>1 DEF StateIn
    <3>4. IsState(t)
      BY <3>2 DEF IsState
    <3> QED
      BY <3>3, <3>4 DEF Accepted, t
  <2> QED
    BY <2>4, <2>5, <2>6
<1> QED
  BY <1>3, <1>4, <1>5
-----------------------------------------------------------------------------
(* What the C block has and what Python has                                *)

\* What c has for the option k when s has been read.
SameValue(s, c, k) ==
    IF k \in s.verbatim
    THEN Len(s.values[k]) = 1 => c[k] = Loaded(k, s.values[k][1])
    ELSE c[k] = Garbage

\* The name that the C block has for the option that is open.
NameInC(s) ==
    IF s.option = "" THEN ""
    ELSE IF <<s.section, s.option>> \in s.verbatim THEN s.option ELSE "A name"

\* Both are at the same place of the file, and mean the same by what they read.
SamePlace(s, sec, prev, c) ==
    /\ IsState(s)
    /\ Accepted(s) =>
          /\ sec = s.section /\ prev = NameInC(s)
          /\ s.option # "" => <<s.section, s.option>> \in DOMAIN s.values
          /\ s.verbatim \subseteq DOMAIN s.values
          /\ \A k \in DOMAIN s.values : s.values[k] \in Seq(Value)
          /\ \A k \in DOMAIN c : SameValue(s, c, k)

\* What a variable of the configuration may hold.
Setting == Nat \cup Value \cup {Garbage}

\* No block knows an option with a capital.
LowerCase(D) == \A sec : <<sec, "A name">> \notin D

LEMMA NoCapitals == ASSUME NEW b \in Blocks PROVE LowerCase(Keys(b))
<1> SUFFICES ASSUME NEW sec PROVE <<sec, "A name">> \notin Keys(b)
  BY DEF LowerCase
<1>1. b \in {"rtl_daq", "rebuffer", "decimator", "iq_server"}
  BY IniParseAssumption
<1>2. <<sec, "A name">> \notin RtlDaqKeys
  BY DEF RtlDaqKeys
<1>3. <<sec, "A name">> \notin RebufferKeys
  BY DEF RebufferKeys
<1>4. <<sec, "A name">> \notin DecimatorKeys
  BY DEF DecimatorKeys
<1>5. <<sec, "A name">> \notin IqServerKeys
  BY DEF IqServerKeys
<1> QED
  BY <1>1, <1>2, <1>3, <1>4, <1>5 DEF Keys

\* The handler of a block, given one value.
SetOption(c, k, v) == IF k \in DOMAIN c THEN [c EXCEPT ![k] = Loaded(k, v)] ELSE c

LEMMA OptionSet ==
    ASSUME NEW D, NEW c \in [D -> Setting], NEW k, NEW v \in Value
    PROVE  /\ SetOption(c, k, v) \in [D -> Setting]
           /\ \A j \in D : j # k => SetOption(c, k, v)[j] = c[j]
           /\ k \in D => SetOption(c, k, v)[k] = Loaded(k, v)
<1>1. Loaded(k, v) \in Setting
  BY DEF Loaded, Value, Setting
<1> QED
  BY <1>1 DEF SetOption

LEMMA ContinuationIsValue ==
    ASSUME NEW l \in LineType
    PROVE  Continuation(l) \in Value /\ l.value \in Value
<1>1. l.value \in Value
  BY DEF LineType
<1>2. Letters \in Value
  BY DEF Letters, Value, Text
<1> QED
  BY <1>1, <1>2 DEF Continuation

\* The lines of a value.
LEMMA ValueLines ==
    ASSUME NEW S, NEW v \in S
    PROVE  /\ <<>> \in Seq(S) /\ <<v>> \in Seq(S)
           /\ \A q \in Seq(S) : /\ Append(q, v) \in Seq(S)
                                /\ Len(Append(q, v)) = 1 => Append(q, v)[1] = v
OBVIOUS

LEMMA AppendAgrees ==
    ASSUME NEW D, LowerCase(D),
           NEW c \in [D -> Setting], NEW s, NEW t, NEW l \in LineType,
           NEW sec, NEW prev, SamePlace(s, sec, prev, c), Accepted(s), IsState(t),
           Appends(s, l, t)
    PROVE  SamePlace(t, sec, prev, SetOption(c, <<sec, prev>>, Continuation(l)))
<1> DEFINE v == Continuation(l)
           k == <<s.section, s.option>>
           d == SetOption(c, <<sec, prev>>, v)
<1>1. /\ sec = s.section /\ prev = NameInC(s) /\ k \in DOMAIN s.values
      /\ s.option # "" /\ s.verbatim \subseteq DOMAIN s.values
      /\ \A j \in DOMAIN s.values : s.values[j] \in Seq(Value)
      /\ \A j \in D : SameValue(s, c, j)
  BY DEF SamePlace, Appends
<1>2. v \in Value
  BY ContinuationIsValue
<1> HIDE DEF v
<1>3. /\ t.section = sec /\ t.option = s.option /\ t.verbatim = s.verbatim
      /\ t.values = [s.values EXCEPT ![k] = Append(s.values[k], v)]
  BY <1>1 DEF Appends, v
<1>4. /\ d \in [D -> Setting]
      /\ \A j \in D : j # k => d[j] = c[j]
      /\ k \in D /\ k \in s.verbatim => d[k] = Loaded(k, v)
      /\ k \in D /\ k \notin s.verbatim => d[k] = c[k]
  <2>1. CASE k \in s.verbatim
    <3>1. d = SetOption(c, k, v)
      BY <1>1, <2>1 DEF NameInC
    <3> HIDE DEF k, d
    <3>2. /\ SetOption(c, k, v) \in [D -> Setting]
          /\ \A j \in D : j # k => SetOption(c, k, v)[j] = c[j]
          /\ k \in D => SetOption(c, k, v)[k] = Loaded(k, v)
      BY <1>2, OptionSet
    <3> QED
      BY <2>1, <3>1, <3>2
  <2>2. CASE k \notin s.verbatim
    <3>1. prev = "A name"
      BY <1>1, <2>2 DEF NameInC
    <3>2. d = c
      BY <3>1 DEF SetOption, LowerCase
    <3> HIDE DEF d
    <3> QED
      BY <2>2, <3>2
  <2> QED
    BY <2>1, <2>2
<1>5. NameInC(t) = prev
  BY <1>1, <1>3 DEF NameInC
<1>6. t.option # "" => <<t.section, t.option>> = k
  BY <1>1, <1>3
<1> HIDE DEF d, k
<1>7. /\ DOMAIN t.values = DOMAIN s.values
      /\ t.values[k] = Append(s.values[k], v)
      /\ \A j \in DOMAIN s.values : j # k => t.values[j] = s.values[j]
  BY <1>1, <1>3
<1>8. /\ s.values[k] \in Seq(Value)
      /\ Append(s.values[k], v) \in Seq(Value)
      /\ Len(Append(s.values[k], v)) = 1 => Append(s.values[k], v)[1] = v
  <2>1. s.values[k] \in Seq(Value)
    BY <1>1
  <2> QED
    BY <1>2, <2>1, ValueLines
<1>9. \A j \in DOMAIN t.values : t.values[j] \in Seq(Value)
  BY <1>1, <1>7, <1>8
<1>10. ASSUME NEW j \in D PROVE SameValue(t, d, j)
  <2>1. CASE j = k
    BY <2>1, <1>1, <1>3, <1>4, <1>7, <1>8 DEF SameValue
  <2>2. CASE j # k
    <3>1. SameValue(s, c, j) /\ d[j] = c[j]
      BY <1>1, <1>4, <2>2
    <3> QED
      BY <3>1, <2>2, <1>1, <1>3, <1>7 DEF SameValue
  <2> QED
    BY <2>1, <2>2
<1>11. DOMAIN d = D
  BY <1>4
<1> QED
  BY <1>1, <1>3, <1>5, <1>6, <1>7, <1>9, <1>10, <1>11 DEF SamePlace, d, v

LEMMA AssignAgrees ==
    ASSUME NEW D, LowerCase(D),
           NEW c \in [D -> Setting], NEW s, NEW t, NEW l \in LineType,
           NEW sec, NEW prev, SamePlace(s, sec, prev, c), Accepted(s), IsState(t),
           Assigns(s, l, t)
    PROVE  SamePlace(t, sec, Written(l), SetOption(c, <<sec, Written(l)>>, l.value))
<1> DEFINE v == l.value
           k == <<sec, l.name>>
           d == SetOption(c, <<sec, Written(l)>>, v)
<1>1. /\ sec = s.section /\ s.verbatim \subseteq DOMAIN s.values
      /\ \A j \in DOMAIN s.values : s.values[j] \in Seq(Value)
      /\ \A j \in D : SameValue(s, c, j)
  BY DEF SamePlace
<1>2. v \in Value /\ l.capital \in BOOLEAN
  BY DEF LineType
<1>3. /\ t.section = sec /\ t.option = l.name /\ l.name # "" /\ k \notin DOMAIN s.values
      /\ t.values = WithValue(s.values, k, Lined(v))
      /\ t.verbatim = IF l.capital THEN s.verbatim ELSE s.verbatim \cup {k}
  BY <1>1 DEF Assigns
<1> HIDE DEF v
<1>4. /\ d \in [D -> Setting]
      /\ \A j \in D : j # k => d[j] = c[j]
      /\ k \in D /\ ~l.capital => d[k] = Loaded(k, v)
      /\ k \in D /\ l.capital => d[k] = c[k]
  <2>1. CASE ~l.capital
    <3>1. d = SetOption(c, k, v)
      BY <2>1 DEF Written
    <3> HIDE DEF k, d
    <3>2. /\ SetOption(c, k, v) \in [D -> Setting]
          /\ \A j \in D : j # k => SetOption(c, k, v)[j] = c[j]
          /\ k \in D => SetOption(c, k, v)[k] = Loaded(k, v)
      BY <1>2, OptionSet
    <3> QED
      BY <2>1, <3>1, <3>2
  <2>2. CASE l.capital
    <3>1. d = c
      BY <2>2 DEF SetOption, Written, LowerCase
    <3> HIDE DEF d
    <3> QED
      BY <2>2, <3>1
  <2> QED
    BY <2>1, <2>2
<1>5. <<t.section, t.option>> = k
  BY <1>3
<1> HIDE DEF k
<1>6. k \in t.verbatim <=> ~l.capital
  BY <1>1, <1>2, <1>3
<1>7. NameInC(t) = Written(l)
  BY <1>2, <1>3, <1>5, <1>6 DEF NameInC, Written
<1> HIDE DEF d
<1>8. /\ DOMAIN t.values = DOMAIN s.values \cup {k}
      /\ t.values[k] = Lined(v)
      /\ \A j \in DOMAIN s.values : j # k => t.values[j] = s.values[j]
  BY <1>3 DEF WithValue
<1>9. /\ Lined(v) \in Seq(Value)
      /\ Len(Lined(v)) = 1 => Lined(v)[1] = v
  <2>1. <<>> \in Seq(Value) /\ <<v>> \in Seq(Value)
    BY <1>2, ValueLines
  <2>2. Len(<<>>) = 0 /\ <<v>>[1] = v
    OBVIOUS
  <2>3. CASE v.empty
    <3>1. Lined(v) = <<>>
      BY <2>3 DEF Lined
    <3>2. Len(Lined(v)) = 0
      BY <2>2, <3>1
    <3>3. Lined(v) \in Seq(Value)
      BY <2>1, <3>1
    <3> QED
      BY <3>2, <3>3
  <2>4. CASE ~v.empty
    BY <2>1, <2>2, <2>4 DEF Lined
  <2> QED
    BY <2>3, <2>4
<1>10. \A j \in DOMAIN t.values : t.values[j] \in Seq(Value)
  BY <1>1, <1>3, <1>8, <1>9
<1>11. ASSUME NEW j \in D PROVE SameValue(t, d, j)
  <2>1. CASE j = k
    <3>1. k \notin s.verbatim
      BY <1>1, <1>3
    <3> QED
      BY <2>1, <3>1, <1>1, <1>4, <1>6, <1>8, <1>9 DEF SameValue
  <2>2. CASE j # k
    <3>1. SameValue(s, c, j) /\ d[j] = c[j] /\ (j \in t.verbatim <=> j \in s.verbatim)
      BY <1>1, <1>3, <1>4, <2>2
    <3> QED
      BY <3>1, <2>2, <1>1, <1>8 DEF SameValue
  <2> QED
    BY <2>1, <2>2
<1>12. DOMAIN d = D
  BY <1>4
<1>13. k \in DOMAIN t.values /\ t.verbatim \subseteq DOMAIN t.values
  BY <1>1, <1>3, <1>8
<1> QED
  BY <1>3, <1>5, <1>7, <1>10, <1>11, <1>12, <1>13 DEF SamePlace, d, v

LEMMA OpenAgrees ==
    ASSUME NEW D, NEW c \in [D -> Setting], NEW s, NEW t, NEW l \in LineType,
           NEW sec, NEW prev, SamePlace(s, sec, prev, c), Accepted(s), IsState(t),
           Opens(s, l, t)
    PROVE  SamePlace(t, l.name, "", c)
BY DEF SamePlace, Opens, NameInC, SameValue
-----------------------------------------------------------------------------
(* The file means the same to both                                         *)

\* As long as the parser's locals are there.
FileInv ==
    pc \in {"open", "parse", "parsed"} =>
        /\ file \in Seq(Lines)
        /\ block \in Blocks
        /\ config \in [Keys(block) -> Setting]
        /\ SamePlace(PythonReads(file), section, prev_name, config)

LEMMA StartAgrees ==
    ASSUME ParseInit
    PROVE  FileInv
<1> DEFINE D == Keys(block)
<1>1. /\ config = [k \in D |-> Garbage] /\ section = "" /\ prev_name = "" /\ file = <<>>
      /\ block \in Blocks
  BY DEF ParseInit
<1> HIDE DEF D
<1>2. config \in [D -> Setting] /\ \A k \in D : config[k] = Garbage
  BY <1>1 DEF Setting
<1>3. IsState(PythonStart)
  <2> DEFINE V == {PythonStart.values}
             W == {PythonStart.verbatim}
  <2>1. PythonStart \in StateIn(V, W)
    BY DEF PythonStart, Name, StateIn
  <2> HIDE DEF V, W
  <2> QED
    BY <2>1 DEF IsState
<1>4. /\ PythonStart.section = "" /\ PythonStart.option = ""
      /\ DOMAIN PythonStart.values = {} /\ PythonStart.verbatim = {}
  BY DEF PythonStart
<1>5. SamePlace(PythonStart, section, prev_name, config)
  BY <1>1, <1>2, <1>3, <1>4 DEF SamePlace, SameValue, NameInC
<1>6. file \in Seq(Lines)
  BY <1>1, EmptySeq
<1>7. SamePlace(PythonReads(file), section, prev_name, config)
  BY <1>1, <1>5, ReadsNothing
<1> QED
  BY <1>1, <1>2, <1>6, <1>7 DEF FileInv, D

LEMMA LineAgrees ==
    ASSUME FileInv, NEW l \in Lines, ReadLine(l)
    PROVE  FileInv'
<1> DEFINE D == Keys(block)
           s == PythonReads(file)
           t == PythonReadsLine(s, l)
           k == <<section, prev_name>>
           v == Continuation(l)
           new == <<section, Written(l)>>
<1>1. /\ file \in Seq(Lines) /\ config \in [D -> Setting] /\ block \in Blocks
      /\ SamePlace(s, section, prev_name, config)
  BY DEF FileInv, ReadLine
<1>2. file' = Append(file, l) /\ block' = block
  BY DEF ReadLine
<1>3. file' \in Seq(Lines) /\ PythonReads(file') = t
  BY <1>1, <1>2, ReadsMore
<1>4. l \in LineType
  BY IniParseAssumption
<1>5. IsState(s)
  BY <1>1 DEF SamePlace
<1> HIDE DEF s
<1>6. /\ IsState(t)
      /\ Accepted(t) => /\ Accepted(s)
                        /\ \/ Ignores(s, l, t) \/ Appends(s, l, t)
                           \/ Opens(s, l, t) \/ Assigns(s, l, t)
  BY <1>4, <1>5, ReadsLine
<1> HIDE DEF t
<1>7. \/ /\ l.kind = "comment"
         /\ section' = section /\ prev_name' = prev_name /\ config' = config
      \/ /\ l.kind # "comment" /\ prev_name # "" /\ l.indented
         /\ section' = section /\ prev_name' = prev_name
         /\ config' = SetOption(config, k, v)
      \/ /\ ~(l.kind # "comment" /\ prev_name # "" /\ l.indented) /\ l.kind = "section"
         /\ section' = l.name /\ prev_name' = "" /\ config' = config
      \/ /\ ~(l.kind # "comment" /\ prev_name # "" /\ l.indented) /\ l.kind = "pair"
         /\ section' = section /\ prev_name' = Written(l)
         /\ config' = SetOption(config, new, l.value)
      \/ /\ ~(l.kind # "comment" /\ prev_name # "" /\ l.indented)
         /\ l.kind \in {"unclosed", "word"}
         /\ section' = section /\ prev_name' = prev_name /\ config' = config
  BY DEF ReadLine, Handler, Continues, EnterSection, SetOption
<1>8. v \in Value /\ l.value \in Value
  BY <1>4, ContinuationIsValue
<1>9. LowerCase(D)
  BY <1>1, NoCapitals
<1> HIDE DEF D
<1>10. config' \in [D -> Setting]
  <2>1. SetOption(config, k, v) \in [D -> Setting]
    BY <1>1, <1>8, OptionSet
  <2>2. SetOption(config, new, l.value) \in [D -> Setting]
    BY <1>1, <1>8, OptionSet
  <2> QED
    BY <1>1, <1>7, <2>1, <2>2
<1>11. SamePlace(t, section', prev_name', config')
  <2>1. CASE ~Accepted(t)
    BY <1>6, <2>1 DEF SamePlace
  <2>2. ASSUME Accepted(t) PROVE SamePlace(t, section', prev_name', config')
    <3>1. /\ Accepted(s) /\ section = s.section /\ prev_name = NameInC(s)
          /\ prev_name = "" <=> s.option = ""
      BY <1>1, <1>6, <2>2 DEF SamePlace, NameInC
    <3>2. CASE Ignores(s, l, t)
      <4>1. section' = section /\ prev_name' = prev_name /\ config' = config /\ t = s
        BY <1>7, <3>2 DEF Ignores
      <4> QED
        BY <1>1, <4>1
    <3>3. CASE Appends(s, l, t)
      <4>1. /\ section' = section /\ prev_name' = prev_name
            /\ config' = SetOption(config, k, v)
        BY <1>7, <3>1, <3>3 DEF Appends
      <4>2. SamePlace(t, section, prev_name, SetOption(config, k, v))
        BY <1>1, <1>4, <1>6, <1>9, <3>1, <3>3, AppendAgrees
      <4> QED
        BY <4>1, <4>2
    <3>4. CASE Opens(s, l, t)
      <4>1. section' = l.name /\ prev_name' = "" /\ config' = config
        BY <1>7, <3>1, <3>4 DEF Opens
      <4>2. SamePlace(t, l.name, "", config)
        BY <1>1, <1>4, <1>6, <3>1, <3>4, OpenAgrees
      <4> QED
        BY <4>1, <4>2
    <3>5. CASE Assigns(s, l, t)
      <4>1. /\ section' = section /\ prev_name' = Written(l)
            /\ config' = SetOption(config, new, l.value)
        BY <1>7, <3>1, <3>5 DEF Assigns
      <4>2. SamePlace(t, section, Written(l), SetOption(config, new, l.value))
        BY <1>1, <1>4, <1>6, <1>9, <3>1, <3>5, AssignAgrees
      <4> QED
        BY <4>1, <4>2
    <3> QED
      BY <1>6, <2>2, <3>2, <3>3, <3>4, <3>5
  <2> QED
    BY <2>1, <2>2
<1>12. block' \in Blocks /\ config' \in [Keys(block') -> Setting]
  BY <1>1, <1>2, <1>10 DEF D
<1> QED
  BY <1>3, <1>11, <1>12 DEF FileInv

\* No other step touches what the parser has, or it leaves the parser behind.
LEMMA FileStep ==
    ASSUME FileInv, [Next]_vars
    PROVE  FileInv'
<1>1. CASE \E l \in Lines : ReadLine(l)
  BY <1>1, LineAgrees
<1>2. CASE OpenFile \/ CloseFile \/ UNCHANGED vars
  <2>1. pc \in {"open", "parse"} \/ pc' = pc
    BY <1>2 DEF OpenFile, CloseFile, vars, parseVars
  <2>2. UNCHANGED <<block, file, section, prev_name, config>>
    BY <1>2 DEF OpenFile, CloseFile, vars, parseVars, lineVars
  <2> QED
    BY <2>1, <2>2 DEF FileInv
<1>3. CASE MainStep
  <2>1. pc' \notin {"open", "parse", "parsed"}
    BY <1>3 DEF MainStep, TakeConfig, FindDevices, SpawnControl, OpenDevice, SetBiasTees,
                SpawnReader, Goes
  <2> QED
    BY <2>1 DEF FileInv
<1>4. CASE BindControl \/ OtherStep \/ \E i \in Receivers : ReadReturns(i)
  <2>1. UNCHANGED <<block, file, section, prev_name, config>> /\ pc' \in {pc, "exit"}
    BY <1>4 DEF BindControl, OtherStep, BarrierOpens, ReaderStep, SetUpReader, StartRead,
                ReadReturns, ReaderMoves, parseVars, lineVars
  <2> QED
    BY <2>1 DEF FileInv
<1> QED
  BY <1>1, <1>2, <1>3, <1>4 DEF Next, ParseStep, AtRest

\* Whatever the file says, and whatever number of lines it has: where Python's
\* parser takes it and finds an option that is written in lower case in its own
\* section, the C block has the same number, if it is in plain digits, or the
\* same text.  All its other variables were not set, be it that Python does not
\* find the option either, or that it stands among the defaults or has a
\* capital, which only Python passes over.  Files with options indented under
\* options are excepted.
THEOREM FileIsReadAlike == Spec => []CheckedIsLoaded
<1>1. Init => FileInv
  BY StartAgrees DEF Init
<1>2. FileInv /\ [Next]_vars => FileInv'
  BY FileStep
<1>3. FileInv => CheckedIsLoaded
  <2> DEFINE s == PythonReads(file)
  <2>1. SUFFICES ASSUME FileInv, pc = "parsed", Accepted(s), NEW k \in DOMAIN config
                 PROVE  IF PythonFinds(s, k) = k /\ k \in s.verbatim
                        THEN Len(s.values[k]) = 1 => Agrees(k, s.values[k][1])
                        ELSE config[k] = Garbage
    BY DEF CheckedIsLoaded, Accepted
  <2>2. SameValue(s, config, k) /\ s.verbatim \subseteq DOMAIN s.values
    BY <2>1 DEF FileInv, SamePlace
  <2> HIDE DEF s
  <2>3. CASE k \in s.verbatim
    <3>1. PythonFinds(s, k) = k
      BY <2>2, <2>3 DEF PythonFinds
    <3>2. ASSUME Len(s.values[k]) = 1 PROVE Agrees(k, s.values[k][1])
      BY <2>2, <2>3, <3>2 DEF SameValue, Agrees, Loaded, Plain
    <3> QED
      BY <2>3, <3>1, <3>2
  <2>4. CASE k \notin s.verbatim
    BY <2>2, <2>4 DEF SameValue
  <2> QED
    BY <2>3, <2>4
<1> QED
  BY <1>1, <1>2, <1>3, PTL DEF Spec

-----------------------------------------------------------------------------
(* All receivers start together                                            *)

ReaderStates == {"none", "setup", "barrier", "released", "async"}

\* The option that says how many receivers there are.
NumCh == <<"hw", "num_ch">>

\* The readers, when there are any, are those of all receivers.  Either nobody
\* has passed the barrier, or everybody has and those whose read has returned
\* have come back to it.
ReaderInv ==
    /\ ch_no \in Nat
    /\ pc \in {"open", "parse", "parsed"} =>
          NumCh \in DOMAIN config /\ config[NumCh] \in Nat \cup {Garbage}
    /\ reader \in [DOMAIN reader -> ReaderStates]
    /\ DOMAIN reader = {} \/ DOMAIN reader = Receivers
    /\ DOMAIN reader # {} => pc \in {"spawn readers", "main loop", "exit"}
    /\ \/ \A i \in DOMAIN reader : reader[i] \in {"none", "setup", "barrier"}
       \/ \A i \in DOMAIN reader : reader[i] \in IF i \in failed THEN {"setup", "barrier"}
                                                 ELSE {"released", "async"}

\* The number of receivers is read through atoi.
LEMMA NumChSet ==
    ASSUME NEW c, NumCh \in DOMAIN c, c[NumCh] \in Nat \cup {Garbage},
           NEW k, NEW v \in Value, NEW d,
           d = IF k \in DOMAIN c THEN [c EXCEPT ![k] = Loaded(k, v)] ELSE c
    PROVE  NumCh \in DOMAIN d /\ d[NumCh] \in Nat \cup {Garbage}
<1>1. Loaded(NumCh, v) \in Nat
  <2>1. NumCh \notin Strings
    BY DEF Strings, NumCh
  <2> QED
    BY <2>1 DEF Loaded, Value
<1>2. CASE k = NumCh
  BY <1>1, <1>2
<1>3. CASE k # NumCh
  BY <1>3
<1> QED
  BY <1>2, <1>3

LEMMA NobodyReadsAtFirst ==
    ASSUME Init
    PROVE  ReaderInv
<1>1. block \in {"rtl_daq", "rebuffer", "decimator", "iq_server"}
  BY IniParseAssumption DEF Init, ParseInit
<1>2. NumCh \in Keys(block)
  <2>1. NumCh \in RtlDaqKeys
    BY DEF NumCh, RtlDaqKeys
  <2>2. NumCh \in RebufferKeys
    BY DEF NumCh, RebufferKeys
  <2>3. NumCh \in DecimatorKeys
    BY DEF NumCh, DecimatorKeys
  <2>4. NumCh \in IqServerKeys
    BY DEF NumCh, IqServerKeys
  <2> QED
    BY <1>1, <2>1, <2>2, <2>3, <2>4 DEF Keys
<1> DEFINE D == Keys(block)
<1>3. config = [k \in D |-> Garbage]
  BY DEF Init, ParseInit
<1> HIDE DEF D
<1>4. NumCh \in DOMAIN config /\ config[NumCh] = Garbage
  BY <1>2, <1>3 DEF D
<1>5. reader = <<>> /\ DOMAIN reader = {} /\ ch_no \in Nat
  BY DEF Init
<1>6. reader \in [DOMAIN reader -> ReaderStates]
  BY <1>5
<1> QED
  BY <1>4, <1>5, <1>6 DEF ReaderInv

\* The parser and the main thread up to the readers.
LEMMA LoadStep ==
    ASSUME ReaderInv, ParseStep, UNCHANGED startVars
    PROVE  ReaderInv'
<1>1. UNCHANGED <<ch_no, reader, failed>>
  BY DEF startVars, devVars
<1>2. pc \in {"open", "parse"} /\ pc' \in {"open", "parse", "parsed", "exit"}
  BY DEF ParseStep, OpenFile, CloseFile, ReadLine
<1>3. NumCh \in DOMAIN config /\ config[NumCh] \in Nat \cup {Garbage}
  BY <1>2 DEF ReaderInv
<1>4. NumCh \in DOMAIN config' /\ config'[NumCh] \in Nat \cup {Garbage}
  <2>1. CASE config' = config
    BY <1>3, <2>1
  <2>2. ASSUME NEW k, NEW v \in Value,
               config' = IF k \in DOMAIN config THEN [config EXCEPT ![k] = Loaded(k, v)]
                         ELSE config
        PROVE  NumCh \in DOMAIN config' /\ config'[NumCh] \in Nat \cup {Garbage}
    BY <1>3, <2>2, NumChSet
  <2>3. ASSUME NEW l \in Lines, ReadLine(l)
        PROVE  \/ config' = config
               \/ \E k : \E v \in Value :
                     config' = IF k \in DOMAIN config
                               THEN [config EXCEPT ![k] = Loaded(k, v)] ELSE config
    <3>1. l.value \in Value /\ Continuation(l) \in Value
      BY IniParseAssumption, ContinuationIsValue
    <3>2. ASSUME NEW name, NEW v \in Value, Handler(name, v)
          PROVE  config' = IF <<section, name>> \in DOMAIN config
                           THEN [config EXCEPT ![<<section, name>>] =
                                    Loaded(<<section, name>>, v)] ELSE config
      BY <3>2 DEF Handler
    <3>3. \/ config' = config
          \/ \E name : \E v \in Value : Handler(name, v)
      BY <2>3, <3>1 DEF ReadLine, EnterSection
    <3> QED
      BY <3>2, <3>3
  <2> QED
    BY <2>1, <2>2, <2>3 DEF ParseStep, OpenFile, CloseFile
<1> QED
  BY <1>1, <1>2, <1>4 DEF ReaderInv, Receivers

LEMMA MainReaderStep ==
    ASSUME ReaderInv, MainStep
    PROVE  ReaderInv'
<1>1. CASE TakeConfig
  <2>1. DOMAIN reader = {} /\ reader' = reader /\ pc' \in {"find", "exit"}
    BY <1>1 DEF TakeConfig, Goes, ReaderInv
  <2>2. ch_no' \in Nat
    <3>1. 0 .. MaxCh \subseteq Nat
      OBVIOUS
    <3>2. config[NumCh] \in Nat \cup {Garbage}
      BY <1>1 DEF TakeConfig, ReaderInv
    <3> QED
      BY <1>1, <3>1, <3>2 DEF TakeConfig, NumCh
  <2> QED
    BY <2>1, <2>2 DEF ReaderInv
<1>2. CASE FindDevices \/ SpawnControl \/ OpenDevice
  <2>1. /\ DOMAIN reader = {} /\ reader' = reader /\ ch_no' = ch_no
        /\ pc' \notin {"open", "parse", "parsed"}
    BY <1>2 DEF FindDevices, SpawnControl, OpenDevice, Goes, ReaderInv, devVars
  <2> QED
    BY <2>1 DEF ReaderInv
<1>3. CASE SetBiasTees
  <2>1. /\ reader' = [i \in Receivers |-> "none"] /\ ch_no' = ch_no
        /\ pc' = "spawn readers" /\ Receivers' = Receivers
    BY <1>3 DEF SetBiasTees, devVars, Receivers
  <2> HIDE DEF Receivers
  <2>2. /\ DOMAIN reader' = Receivers' /\ \A i \in DOMAIN reader' : reader'[i] = "none"
        /\ reader' \in [DOMAIN reader' -> ReaderStates]
    BY <2>1 DEF ReaderStates
  <2> QED
    BY <2>1, <2>2 DEF ReaderInv
<1>4. CASE SpawnReader
  <2>1. /\ ch_no' = ch_no /\ Receivers' = Receivers /\ failed' = failed
        /\ pc' \in {"spawn readers", "main loop"}
    BY <1>4 DEF SpawnReader, devVars, Receivers
  <2>2. CASE reader' = reader
    BY <2>1, <2>2 DEF ReaderInv
  <2>3. ASSUME NEW i \in Receivers, reader[i] = "none",
               reader' = [reader EXCEPT ![i] = "setup"]
        PROVE  ReaderInv'
    <3>1. CASE DOMAIN reader = {}
      <4>1. reader' = reader
        BY <2>3, <3>1 DEF ReaderInv
      <4> QED
        BY <2>2, <4>1
    <3>2. CASE i \in DOMAIN reader
      <4>1. /\ reader' \in [DOMAIN reader -> ReaderStates] /\ DOMAIN reader' = DOMAIN reader
            /\ reader'[i] = "setup"
            /\ \A j \in DOMAIN reader : j # i => reader'[j] = reader[j]
        BY <2>3, <3>2 DEF ReaderInv, ReaderStates
      <4> QED
        BY <2>1, <2>3, <3>2, <4>1 DEF ReaderInv
    <3> QED
      BY <3>1, <3>2 DEF ReaderInv
  <2> QED
    BY <1>4, <2>2, <2>3 DEF SpawnReader
<1> QED
  BY <1>1, <1>2, <1>3, <1>4 DEF MainStep

\* The barrier opens for all receivers or for none.
LEMMA BarrierForAll ==
    ASSUME ch_no \in Nat, NEW W, W \subseteq Receivers, Cardinality(W) = ch_no
    PROVE  W = Receivers
<1>1. IsFiniteSet(Receivers) /\ Cardinality(Receivers) = ch_no
  <2>1. /\ IsFiniteSet(1 .. ch_no)
        /\ Cardinality(1 .. ch_no) = IF 1 > ch_no THEN 0 ELSE ch_no - 1 + 1
    BY FS_Interval
  <2> QED
    BY <2>1 DEF Receivers
<1> QED
  BY <1>1, FS_Subset

LEMMA OtherReaderStep ==
    ASSUME ReaderInv, BindControl \/ OtherStep \/ \E i \in Receivers : ReadReturns(i)
    PROVE  ReaderInv'
<1>1. CASE BindControl
  <2>1. /\ ch_no' = ch_no /\ reader' = reader /\ config' = config /\ pc' \in {pc, "exit"}
        /\ failed' = failed
    BY <1>1 DEF BindControl, devVars
  <2> QED
    BY <2>1 DEF ReaderInv, Receivers
<1>2. CASE BarrierOpens
  <2> DEFINE W == {i \in DOMAIN reader : reader[i] = "barrier"}
  <2>1. /\ W # {} /\ Cardinality(W) = ch_no
        /\ reader' = [i \in DOMAIN reader |-> IF i \in W THEN "released" ELSE reader[i]]
        /\ ch_no' = ch_no /\ config' = config /\ pc' = pc /\ failed' = {}
    BY <1>2 DEF BarrierOpens, BarrierCount, parseVars, devVars
  <2>2. DOMAIN reader = Receivers /\ ch_no \in Nat
    BY <2>1 DEF ReaderInv
  <2>3. W = Receivers
    BY <2>1, <2>2, BarrierForAll
  <2> DEFINE D == DOMAIN reader
  <2>4. W = D
    BY <2>2, <2>3
  <2> HIDE DEF W
  <2>5. /\ DOMAIN reader' = D /\ \A i \in D : reader'[i] = "released"
        /\ reader' = [i \in D |-> reader'[i]]
    BY <2>1, <2>4
  <2>6. reader' \in [DOMAIN reader' -> ReaderStates]
    BY <2>5 DEF ReaderStates
  <2> QED
    BY <2>1, <2>2, <2>5, <2>6 DEF ReaderInv, Receivers
<1>3. ASSUME NEW i, NEW from, NEW to \in ReaderStates, ReaderMoves(i, from, to),
             \/ from = "setup" /\ to = "barrier" /\ failed' = failed
             \/ from = "released" /\ to = "async" /\ failed' = failed
             \/ from \in {"released", "async"} /\ to = "setup" /\ failed' = failed \cup {i}
      PROVE  ReaderInv'
  <2>1. /\ i \in DOMAIN reader /\ reader[i] = from
        /\ reader' = [reader EXCEPT ![i] = to]
        /\ ch_no' = ch_no /\ config' = config /\ pc' = pc
    BY <1>3 DEF ReaderMoves, parseVars, devVars
  <2>2. /\ reader' \in [DOMAIN reader -> ReaderStates] /\ DOMAIN reader' = DOMAIN reader
        /\ reader'[i] = to
        /\ \A j \in DOMAIN reader : j # i => reader'[j] = reader[j]
    BY <2>1 DEF ReaderInv
  <2>3. \/ \A j \in DOMAIN reader' : reader'[j] \in {"none", "setup", "barrier"}
        \/ \A j \in DOMAIN reader' : reader'[j] \in IF j \in failed' THEN {"setup", "barrier"}
                                                    ELSE {"released", "async"}
    <3>1. CASE \A j \in DOMAIN reader : reader[j] \in {"none", "setup", "barrier"}
      BY <1>3, <2>1, <2>2, <3>1
    <3>2. CASE \A j \in DOMAIN reader : reader[j] \in IF j \in failed THEN {"setup", "barrier"}
                                                      ELSE {"released", "async"}
      BY <1>3, <2>1, <2>2, <3>2
    <3> QED
      BY <3>1, <3>2 DEF ReaderInv
  <2> QED
    BY <2>1, <2>2, <2>3 DEF ReaderInv, Receivers
<1>4. CASE \E i \in Receivers : ReadReturns(i)
  BY <1>3, <1>4 DEF ReadReturns, ReaderStates
<1>5. CASE \E i \in Receivers : ReaderStep(i)
  BY <1>3, <1>5 DEF ReaderStep, SetUpReader, StartRead, ReaderStates
<1> QED
  BY <1>1, <1>2, <1>4, <1>5 DEF OtherStep

\* No receiver delivers before the last has been set up, however many there
\* are: the barrier's count is their number, and the main thread is not one of
\* those that wait at it.  A receiver whose read has returned does not deliver
\* again before the others have come back to the barrier.
THEOREM ReceiversStartTogether == Spec => []ReadTogether
<1>1. Init => ReaderInv
  BY NobodyReadsAtFirst
<1>2. ReaderInv /\ [Next]_vars => ReaderInv'
  <2>1. ASSUME ReaderInv, UNCHANGED vars
        PROVE  ReaderInv'
    BY <2>1 DEF ReaderInv, Receivers, vars, parseVars, startVars, devVars
  <2> QED
    BY <2>1, LoadStep, MainReaderStep, OtherReaderStep DEF Next, AtRest
<1>3. ReaderInv => ReadTogether
  BY DEF ReaderInv, ReadTogether
<1> QED
  BY <1>1, <1>2, <1>3, PTL DEF Spec
=============================================================================
