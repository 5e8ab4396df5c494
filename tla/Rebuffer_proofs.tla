--------------------------- MODULE Rebuffer_proofs ---------------------------
(***************************************************************************)
(* The circular buffer of rebuffer.c never overruns and implements the     *)
(* sample queue, for every block size and all output sizes that are no     *)
(* smaller than a block.                                                   *)
(***************************************************************************)
EXTENDS Rebuffer, SequenceTheorems, TLAPS

\* Both output sizes are at least a block: the restriction of the theorems.
Wide == OutSize >= InSize /\ CalSize >= InSize

USE RebufferAssumption

\* Integer division rounds down: the multiple below is less than one divisor
\* away.
LEMMA DivBound ==
    ASSUME NEW a \in Nat, NEW b \in Nat \ {0}
    PROVE  /\ a \div b \in Nat
           /\ a < (a \div b + 1) * b
  OBVIOUS

\* An offset that has passed the end of the buffer once wraps by subtraction.
LEMMA Wrap ==
    ASSUME NEW n \in Nat \ {0}, NEW a \in 0 .. 2 * n - 1
    PROVE  a % n = IF a < n THEN a ELSE a - n
  OBVIOUS

\* An offset wrapped on the way ends where one wrapped at the end does.
LEMMA Shift ==
    ASSUME NEW n \in Nat \ {0}, NEW w \in 0 .. n - 1, NEW s \in Nat, NEW j \in Nat,
           s + j <= n
    PROVE  (((w + s) % n) + j) % n = (w + s + j) % n
  <1> DEFINE u == w + s
             v == w + s + j
             x == IF u < n THEN u ELSE u - n
             y == x + j
  <1>1. u \in 0 .. 2 * n - 1 /\ v \in 0 .. 2 * n - 1 /\ y \in 0 .. 2 * n - 1
    OBVIOUS
  <1>2. u % n = x
    <2> HIDE DEF u
    <2> QED
      BY <1>1, Wrap
  <1>3. v % n = IF v < n THEN v ELSE v - n
    <2> HIDE DEF v
    <2> QED
      BY <1>1, Wrap
  <1>4. y % n = IF y < n THEN y ELSE y - n
    <2> HIDE DEF y
    <2> QED
      BY <1>1, Wrap
  <1>5. y % n = v % n
    <2>1. (IF y < n THEN y ELSE y - n) = (IF v < n THEN v ELSE v - n)
      OBVIOUS
    <2> QED
      BY <2>1, <1>3, <1>4
  <1>6. (((w + s) % n) + j) % n = y % n
    BY <1>2
  <1> QED
    BY <1>5, <1>6

\* buffer_num blocks hold a frame of either type and one more block.
LEMMA CapacityBound ==
    /\ Capacity \in Nat
    /\ BufferNum \in Nat
    /\ Capacity > OutSize + InSize
    /\ Capacity > CalSize + InSize
  <1> DEFINE q == OutSize \div InSize
             c == CalSize \div InSize
  <1>1. q \in Nat /\ OutSize < (q + 1) * InSize
    BY DivBound
  <1>2. c \in Nat /\ CalSize < (c + 1) * InSize
    BY DivBound
  <1>3. BufferNum \in Nat /\ BufferNum >= q + 2 /\ BufferNum >= c + 2
    BY <1>1, <1>2 DEF BufferNum
  <1>4. ASSUME NEW x \in Nat, BufferNum >= x + 2
        PROVE  BufferNum * InSize >= (x + 1) * InSize + InSize
    BY <1>3, <1>4
  <1> QED
    BY <1>1, <1>2, <1>3, <1>4 DEF Capacity

\* The invariant holds before the first block.
LEMMA InitIInv == Init => IInv
  <1> SUFFICES ASSUME Init PROVE IInv
    OBVIOUS
  <1>1. TypeOK
    BY CapacityBound DEF Init, TypeOK, NoFrame, NoData, Empty
  <1>2. Kept /\ Contents /\ Passed
    BY DEF Init, Kept, Contents, Passed, NoFrame, NoData, Types
  <1>3. Offsets
    <2>1. 0 = (0 + 0) % Capacity
      BY CapacityBound, Wrap
    <2>2. 0 \in 0 .. BufferNum - 1 /\ 0 = 0 * InSize
      BY CapacityBound DEF Capacity
    <2> QED
      BY <2>1, <2>2 DEF Init, Offsets
  <1> QED
    BY <1>1, <1>2, <1>3 DEF IInv

\* A dummy frame keeps the invariant.
LEMMA DummyStep == IInv /\ Dummy => IInv'
  <1> SUFFICES ASSUME IInv, Dummy PROVE IInv'
    OBVIOUS
  <1> USE DEF IInv, Dummy
  <1>1. TypeOK'
    BY CapacityBound DEF TypeOK, NoFrame, NoData, Empty
  <1>2. Kept' /\ Contents' /\ Passed'
    BY DEF Kept, Contents, Passed, NoFrame, NoData, Types, TypeOK
  <1>3. Offsets'
    <2>1. 0 = (0 + 0) % Capacity
      BY CapacityBound, Wrap
    <2>2. 0 \in 0 .. BufferNum - 1 /\ 0 = 0 * InSize
      BY CapacityBound DEF Capacity
    <2> QED
      BY <2>1, <2>2 DEF Offsets
  <1> QED
    BY <1>1, <1>2, <1>3

\* The next block always fits.
LEMMA Fits == Wide /\ IInv => NoOverrun
  <1> SUFFICES ASSUME Wide, IInv PROVE NoOverrun
    OBVIOUS
  <1>1. available < OutSize \/ available < CalSize
    BY DEF Wide, IInv, Kept, TypeOK, SizeOf, Types
  <1> QED
    BY <1>1, CapacityBound DEF NoOverrun, IInv, TypeOK

\* A block read goes behind the samples available, in one piece, and leaves
\* them alone.
LEMMA ReadStep ==
    ASSUME IInv, NoOverrun, NEW t \in Types, NEW over \in BOOLEAN, Read(t, over)
    PROVE  /\ iq_circ_buffer' \in [0 .. Capacity - 1 -> Nat]
           /\ rd_offset' \in 0 .. Capacity - 1
           /\ rd_offset' = (wr_offset + available + InSize) % Capacity
           /\ \E k \in 0 .. BufferNum - 1 : rd_offset' = k * InSize
           /\ blocks' \in 0 .. MaxBlocks
           /\ blocks' * InSize = blocks * InSize + InSize
           /\ inType' = t
           /\ overdriven' \subseteq Nat
           /\ \A i \in 1 .. available + InSize :
                iq_circ_buffer'[(wr_offset + i - 1) % Capacity]
                    = blocks * InSize - available + i
  <1> DEFINE n == Capacity
             a == wr_offset + available
             B == blocks * InSize
  <1>1. /\ n \in Nat /\ InSize \in Nat \ {0} /\ wr_offset \in 0 .. n - 1
        /\ available \in Nat /\ available + InSize <= n
        /\ B \in Nat /\ available <= B /\ blocks \in Nat
    BY CapacityBound DEF IInv, TypeOK, NoOverrun, Kept
  <1>2. PICK k \in 0 .. BufferNum - 1 : rd_offset = k * InSize
    BY DEF IInv, Offsets
  <1>3. n = BufferNum * InSize
    BY DEF Capacity
  <1>3a. rd_offset + InSize <= n
    <2>1. (k + 1) * InSize <= BufferNum * InSize
      BY <1>2, CapacityBound
    <2> QED
      BY <2>1, <1>2, CapacityBound DEF Capacity
  <1>n. n \in Nat \ {0}
    BY <1>1
  <1>4. rd_offset = IF a < n THEN a ELSE a - n
    <2>1. rd_offset = a % n
      BY DEF IInv, Offsets
    <2>2. a \in 0 .. 2 * n - 1
      BY <1>1
    <2> HIDE DEF a, n
    <2> QED
      BY <1>n, <2>1, <2>2, Wrap
  <1>5. /\ rd_offset' = (rd_offset + InSize) % n
        /\ rd_offset' = IF rd_offset + InSize < n THEN rd_offset + InSize ELSE 0
    <2> DEFINE r == rd_offset + InSize
    <2>1. r \in 0 .. 2 * n - 1
      BY <1>1, <1>3a, <1>4
    <2>2. r % n = IF r < n THEN r ELSE r - n
      <3> HIDE DEF r, n
      <3> QED
        BY <1>n, <2>1, Wrap
    <2>3. rd_offset' = r % n
      BY DEF Read
    <2>4. r < n \/ r = n
      BY <1>1, <1>3a, <1>4
    <2> QED
      BY <2>2, <2>3, <2>4, <1>1
  <1>6. FirstSample = B + 1 /\ blocks' * InSize = B + InSize
    BY <1>1 DEF FirstSample, Read
  <1>7. \A p \in 0 .. n - 1 : iq_circ_buffer'[p] =
            IF p - rd_offset \in 0 .. InSize - 1 THEN B + 1 + (p - rd_offset)
            ELSE iq_circ_buffer[p]
    BY <1>6 DEF Read
  <1>8. iq_circ_buffer' \in [0 .. n - 1 -> Nat]
    <2>1. iq_circ_buffer' = [p \in 0 .. n - 1 |-> iq_circ_buffer'[p]]
      BY DEF Read
    <2>2. ASSUME NEW p \in 0 .. n - 1 PROVE iq_circ_buffer'[p] \in Nat
      BY <1>7, <1>1, <1>4 DEF IInv, TypeOK
    <2> QED
      BY <2>1, <2>2
  <1>9. rd_offset' = (wr_offset + available + InSize) % n
    <2> DEFINE e == a + InSize
    <2>1. e \in 0 .. 2 * n - 1
      BY <1>1
    <2>2. e % n = IF e < n THEN e ELSE e - n
      <3> HIDE DEF e, n
      <3> QED
        BY <1>n, <2>1, Wrap
    <2>3. rd_offset' = IF e < n THEN e ELSE e - n
      BY <1>1, <1>3a, <1>4, <1>5
    <2> QED
      BY <2>2, <2>3
  <1>10. \E j \in 0 .. BufferNum - 1 : rd_offset' = j * InSize
    <2>1. CASE rd_offset + InSize < n
      <3>1. (k + 1) * InSize = rd_offset + InSize
        BY <1>2, <1>1
      <3>2. k + 1 # BufferNum
        BY <3>1, <2>1, <1>3
      <3> QED
        BY <3>1, <3>2, <1>2, <1>5, <2>1, CapacityBound
    <2>2. CASE ~(rd_offset + InSize < n)
      BY <2>2, <1>5, <1>2, CapacityBound
    <2> QED
      BY <2>1, <2>2
  <1>11. ASSUME NEW i \in 1 .. available + InSize
         PROVE  iq_circ_buffer'[(wr_offset + i - 1) % n] = B - available + i
    <2> DEFINE w == wr_offset + i - 1
               p == w % n
    <2>0. w \in 0 .. 2 * n - 1
      BY <1>1
    <2>1a. p = IF w < n THEN w ELSE w - n
      <3> HIDE DEF w, n
      <3> QED
        BY <1>n, <2>0, Wrap
    <2> HIDE DEF p
    <2>1. p = (IF w < n THEN w ELSE w - n) /\ p \in 0 .. n - 1
      BY <2>0, <2>1a, <1>1
    <2>2. CASE i <= available
      <3>1. ~(p - rd_offset \in 0 .. InSize - 1)
        BY <2>1, <2>2, <1>1, <1>4
      <3>2. iq_circ_buffer[p] = B - available + i
        <4>1. i \in 1 .. available
          BY <2>2, <1>1
        <4>2. iq_circ_buffer[(wr_offset + i - 1) % Capacity] = blocks * InSize - available + i
          BY <4>1 DEF IInv, Contents
        <4> QED
          BY <4>2 DEF p
      <3>3. iq_circ_buffer'[p] = B - available + i
        BY <3>1, <3>2, <2>1, <1>7
      <3> QED
        BY <3>3 DEF p
    <2>3. CASE i > available
      <3>1. p - rd_offset = i - available - 1
        BY <2>1, <2>3, <1>1, <1>3a, <1>4
      <3>2. iq_circ_buffer'[p] = B - available + i
        BY <3>1, <2>1, <2>3, <1>1, <1>7
      <3> QED
        BY <3>2 DEF p
    <2> QED
      BY <2>2, <2>3, <1>1
  <1>12. rd_offset' \in 0 .. n - 1
    BY <1>1, <1>4, <1>5
  <1>13. blocks' \in 0 .. MaxBlocks /\ inType' = t /\ overdriven' \subseteq Nat
    <2>1. blocks' \in 0 .. MaxBlocks /\ inType' = t
      BY DEF Read, IInv, TypeOK
    <2>2. FirstSample \in Nat
      BY <1>1, <1>6
    <2>3. overdriven' \subseteq overdriven \cup {FirstSample}
      BY DEF Read
    <2> QED
      BY <2>1, <2>2, <2>3 DEF IInv, TypeOK
  <1> QED
    BY <1>6, <1>8, <1>9, <1>10, <1>11, <1>12, <1>13

\* A block that completes no frame keeps the invariant.
LEMMA GatherStep == Wide /\ IInv /\ Gather => IInv'
  <1> SUFFICES ASSUME Wide, IInv, NEW t \in Types, NEW over \in BOOLEAN,
                      Read(t, over),
                      available + InSize < SizeOf(t),
                      available' = available + InSize,
                      adc_overdrive_flags' = (adc_overdrive_flags \/ over),
                      frame' = NoFrame,
                      wr_offset' = wr_offset
               PROVE  IInv'
    BY DEF Gather
  <1>1. NoOverrun
    BY Fits
  <1>2. /\ available \in Nat /\ wr_offset \in 0 .. Capacity - 1
        /\ blocks * InSize \in Nat /\ available <= blocks * InSize
    BY DEF IInv, TypeOK, Kept
  <1>3. TypeOK'
    <2>1. available' \in Nat /\ wr_offset' \in 0 .. Capacity - 1
      BY <1>2
    <2>2. adc_overdrive_flags' \in BOOLEAN
      BY DEF IInv, TypeOK
    <2>3. /\ frame'.type \in Types \cup {"DUMMY", "none"} /\ frame'.data \in Seq(Nat)
          /\ frame'.time_stamp \in Nat /\ frame'.overdrive \in BOOLEAN
      BY DEF NoFrame, NoData
    <2> QED
      BY <2>1, <2>2, <2>3, <1>1, ReadStep DEF TypeOK
  <1>4. Kept'
    <2>1. inType' = t /\ blocks' * InSize = blocks * InSize + InSize
      BY <1>1, ReadStep
    <2>2. available' <= blocks' * InSize
      BY <1>2, <2>1
    <2>3. t # "DUMMY" /\ available' < SizeOf(t)
      BY DEF Types
    <2> QED
      BY <2>1, <2>2, <2>3 DEF Kept
  <1>5. Offsets'
    <2>1. wr_offset' + available' = wr_offset + available + InSize
      BY <1>2
    <2> QED
      BY <2>1, <1>1, ReadStep DEF Offsets
  <1>6. Contents'
    <2> SUFFICES ASSUME NEW i \in 1 .. available'
                 PROVE  iq_circ_buffer'[(wr_offset' + i - 1) % Capacity]
                            = blocks' * InSize - available' + i
      BY DEF Contents
    <2>1. iq_circ_buffer'[(wr_offset + i - 1) % Capacity]
            = blocks * InSize - available + i
      BY <1>1, ReadStep
    <2>2. blocks' * InSize = blocks * InSize + InSize
      BY <1>1, ReadStep
    <2>3. blocks' * InSize - available' = blocks * InSize - available
      BY <2>2, <1>2
    <2> QED
      BY <2>1, <2>3
  <1>7. Passed'
    BY DEF Passed, NoFrame, NoData, Types
  <1> QED
    BY <1>3, <1>4, <1>5, <1>6, <1>7 DEF IInv

\* A block that completes a frame keeps the invariant.
LEMMA EmitStep == Wide /\ IInv /\ Emit => IInv'
  <1> SUFFICES ASSUME Wide, IInv, NEW t \in Types, NEW over \in BOOLEAN,
                      Read(t, over),
                      available + InSize >= SizeOf(t),
                      available' = available + InSize - SizeOf(t),
                      frame' = [type |-> t, data |-> Oldest(SizeOf(t)),
                                time_stamp |-> LastSample - available',
                                overdrive |-> adc_overdrive_flags \/ over],
                      adc_overdrive_flags' = FALSE,
                      wr_offset' = (wr_offset + SizeOf(t)) % Capacity
               PROVE  IInv'
    BY DEF Emit
  <1> DEFINE S == SizeOf(t)
             n == Capacity
             B == blocks * InSize
  <1>1. NoOverrun
    BY Fits
  <1>2. /\ available \in Nat /\ wr_offset \in 0 .. n - 1 /\ blocks \in Nat
        /\ B \in Nat /\ available <= B /\ n \in Nat \ {0}
        /\ available + InSize <= n /\ InSize \in Nat \ {0}
        /\ adc_overdrive_flags \in BOOLEAN
    <2>1. /\ available \in Nat /\ wr_offset \in 0 .. n - 1 /\ blocks \in Nat
          /\ available <= B /\ adc_overdrive_flags \in BOOLEAN
      BY DEF IInv, TypeOK, Kept
    <2>2. n \in Nat /\ n > OutSize + InSize /\ available + InSize <= n
      BY <1>1, CapacityBound DEF NoOverrun
    <2>3. B \in Nat
      BY <2>1
    <2> QED
      BY <2>1, <2>2, <2>3
  <1>3. S \in Nat \ {0} /\ S >= InSize
    BY DEF Wide, SizeOf, Types
  <1>4. available = 0 \/ available < S
    BY DEF IInv, Kept, Read
  <1>5. available' \in Nat /\ available' < S /\ S + available' = available + InSize
    BY <1>2, <1>3, <1>4
  <1>6. blocks' * InSize = B + InSize /\ LastSample = B + InSize
    <2>1. LastSample = B + InSize
      BY <1>2 DEF LastSample
    <2> QED
      BY <2>1, <1>1, ReadStep
  <1>7. ASSUME NEW i \in 1 .. S + available'
        PROVE  iq_circ_buffer'[(wr_offset + i - 1) % n] = B - available + i
    BY <1>1, <1>5, ReadStep
  <1>8. frame'.data = [i \in 1 .. S |-> B - available + i]
    <2>1. \A i \in 1 .. S : i \in 1 .. S + available'
      BY <1>3, <1>5
    <2>2. \A i \in 1 .. S : iq_circ_buffer'[(wr_offset + i - 1) % n] = B - available + i
      BY <2>1, <1>7
    <2>3. Oldest(S) = [i \in 1 .. S |-> B - available + i]
      BY <2>2 DEF Oldest
    <2> QED
      BY <2>3
  <1>9. wr_offset' \in 0 .. n - 1
    <2> DEFINE u == wr_offset + S
    <2>1. u \in 0 .. 2 * n - 1
      BY <1>2, <1>3, <1>5
    <2>2. u % n = IF u < n THEN u ELSE u - n
      <3> HIDE DEF u, n
      <3> QED
        BY <1>2, <2>1, Wrap
    <2> QED
      BY <1>2, <2>1, <2>2
  <1>10. TypeOK'
    <2>1. frame'.data \in Seq(Nat)
      <3>1. \A i \in 1 .. S : B - available + i \in Nat
        BY <1>2
      <3> QED
        BY <3>1, <1>3, <1>8
    <2>2. LastSample - available' \in Nat
      BY <1>2, <1>3, <1>5, <1>6
    <2>3. /\ frame'.type \in Types \cup {"DUMMY", "none"}
          /\ frame'.time_stamp \in Nat
          /\ frame'.overdrive \in BOOLEAN
      BY <2>2, <1>2
    <2> QED
      BY <2>1, <2>3, <1>1, <1>5, <1>9, ReadStep DEF TypeOK
  <1>11. Kept'
    <2>1. available' <= blocks' * InSize
      BY <1>2, <1>3, <1>5, <1>6
    <2> QED
      BY <2>1, <1>1, <1>5, ReadStep DEF Kept, Types
  <1>12. Offsets'
    <2>1. (wr_offset' + available') % n = (wr_offset + S + available') % n
      <3> DEFINE left == available'
      <3>1. wr_offset' = (wr_offset + S) % n
        OBVIOUS
      <3>2. /\ n \in Nat \ {0} /\ wr_offset \in 0 .. n - 1 /\ S \in Nat
            /\ left \in Nat /\ S + left <= n
        BY <1>2, <1>3, <1>5
      <3> HIDE DEF S, n, left
      <3>3. (((wr_offset + S) % n) + left) % n = (wr_offset + S + left) % n
        BY <3>2, Shift, Zenon
      <3> QED
        BY <3>1, <3>3 DEF left
    <2>2. wr_offset + S + available' = wr_offset + available + InSize
      BY <1>2, <1>3, <1>5
    <2> QED
      BY <2>1, <2>2, <1>1, ReadStep DEF Offsets
  <1>13. Contents'
    <2> SUFFICES ASSUME NEW i \in 1 .. available'
                 PROVE  iq_circ_buffer'[(wr_offset' + i - 1) % n]
                            = blocks' * InSize - available' + i
      BY DEF Contents
    <2>1. i - 1 \in Nat /\ S + (i - 1) <= n /\ S + i \in 1 .. S + available'
      BY <1>2, <1>3, <1>5
    <2>2. (wr_offset' + (i - 1)) % n = (wr_offset + S + (i - 1)) % n
      <3>1. wr_offset' = (wr_offset + S) % n
        OBVIOUS
      <3>2. /\ n \in Nat \ {0} /\ wr_offset \in 0 .. n - 1 /\ S \in Nat
            /\ i - 1 \in Nat /\ S + (i - 1) <= n
        BY <1>2, <1>3, <2>1
      <3> HIDE DEF S, n
      <3>3. (((wr_offset + S) % n) + (i - 1)) % n = (wr_offset + S + (i - 1)) % n
        BY <3>2, Shift, Zenon
      <3> QED
        BY <3>1, <3>3
    <2>3. /\ wr_offset' + i - 1 = wr_offset' + (i - 1)
          /\ wr_offset + S + (i - 1) = wr_offset + (S + i) - 1
      BY <1>2, <1>3, <1>9, <2>1
    <2>4. iq_circ_buffer'[(wr_offset + (S + i) - 1) % n] = B - available + (S + i)
      BY <2>1, <1>7
    <2>5. B - available + (S + i) = blocks' * InSize - available' + i
      BY <1>2, <1>3, <1>5, <1>6
    <2> QED
      BY <2>2, <2>3, <2>4, <2>5
  <1>14. Passed'
    <2>1. \A i \in 1 .. S : B - available + i = blocks' * InSize - available' - S + i
      BY <1>2, <1>3, <1>5, <1>6
    <2>2. [i \in 1 .. S |-> B - available + i]
            = [i \in 1 .. S |-> blocks' * InSize - available' - S + i]
      BY <2>1
    <2>3. frame'.type = t /\ frame'.time_stamp = blocks' * InSize - available'
      BY <1>6
    <2> QED
      BY <2>2, <2>3, <1>8 DEF Passed
  <1> QED
    BY <1>10, <1>11, <1>12, <1>13, <1>14 DEF IInv

\* Every step keeps the invariant.
LEMMA NextIInv == Wide /\ IInv /\ [Next]_vars => IInv'
  <1> SUFFICES ASSUME Wide, IInv, [Next]_vars PROVE IInv'
    OBVIOUS
  <1>1. CASE Dummy
    BY <1>1, DummyStep
  <1>2. CASE Gather
    BY <1>2, GatherStep
  <1>3. CASE Emit
    BY <1>3, EmitStep
  <1>4. CASE UNCHANGED vars
    BY <1>4 DEF vars, IInv, TypeOK, Kept, Offsets, Contents, Passed
  <1>5. CASE Ended
    BY <1>4, <1>5 DEF Ended
  <1> QED
    BY <1>1, <1>2, <1>3, <1>4, <1>5 DEF Next

\* The counters and the contents of the circular buffer agree in every
\* reachable state, for all output sizes of at least a block.
THEOREM IInvHolds == ASSUME Wide PROVE Spec => []IInv
  <1>1. Init => IInv
    BY InitIInv
  <1>2. IInv /\ [Next]_vars => IInv'
    BY NextIInv
  <1> QED
    BY <1>1, <1>2, PTL DEF Spec

\* buffer_num is always large enough: no block overwrites a sample that has
\* not been passed on.
THEOREM NoOverrunHolds == ASSUME Wide PROVE Spec => []NoOverrun
  <1>1. IInv => NoOverrun
    BY Fits
  <1> QED
    BY <1>1, IInvHolds, PTL

\* timestamp_adjust is right for every pair of sizes.
THEOREM TimeOfLastSampleHolds == ASSUME Wide PROVE Spec => []TimeOfLastSample
  <1>1. IInv => TimeOfLastSample
    <2> SUFFICES ASSUME IInv, frame.type \in Types
                 PROVE  frame.time_stamp = frame.data[Len(frame.data)]
      BY DEF TimeOfLastSample
    <2> DEFINE S == SizeOf(frame.type)
               a == blocks * InSize - available - S
    <2>1. S \in Nat \ {0}
      BY DEF SizeOf
    <2>2. /\ frame.data = [i \in 1 .. S |-> a + i]
          /\ frame.time_stamp = blocks * InSize - available
      BY DEF IInv, Passed
    <2>3. blocks * InSize \in Nat /\ available \in Nat
      BY DEF IInv, TypeOK
    <2>4. Len(frame.data) = S
      BY <2>1, <2>2
    <2>5. frame.data[S] = a + S
      BY <2>1, <2>2
    <2> QED
      BY <2>1, <2>2, <2>3, <2>4, <2>5
  <1> QED
    BY <1>1, IInvHolds, PTL

-----------------------------------------------------------------------------
(* Overdrive flags *)

\* The first samples o of overdriven blocks lie in the blocks read, which end at number e,
\* and the flags f are those of all that are still in the buffer, with a samples left.
FlagsOf(o, e, a, f) ==
    /\ \A n \in o : n + InSize <= e + 1
    /\ \A n \in o : n + a > e => f

FlagsKept == FlagsOf(overdriven, blocks * InSize, available, adc_overdrive_flags)

\* One more block, with the flag g.
LEMMA FlagsMore ==
    ASSUME NEW o, NEW p, NEW e \in Nat, NEW a \in Nat, NEW f \in BOOLEAN, NEW g \in BOOLEAN,
           o \subseteq Nat, FlagsOf(o, e, a, f),
           \A n \in p : n \in o \/ (g /\ n = e + 1)
    PROVE  FlagsOf(p, e + InSize, a + InSize, f \/ g)
  <1>1. InSize \in Nat \ {0}
    OBVIOUS
  <1>2. ASSUME NEW n \in p
        PROVE  /\ n \in Nat /\ n <= e + 1
               /\ n + (a + InSize) > e + InSize => f \/ g
    <2>1. CASE n \in o
      <3>1. n \in Nat /\ n + InSize <= e + 1 /\ (n + a > e => f)
        BY <2>1 DEF FlagsOf
      <3> QED
        BY <1>1, <3>1
    <2>2. CASE g /\ n = e + 1
      BY <2>2
    <2> QED
      BY <2>1, <2>2
  <1>3. \A n \in p : n + InSize <= e + InSize + 1
    BY <1>1, <1>2
  <1> QED
    BY <1>2, <1>3 DEF FlagsOf

\* When less than a block is left, the flags are those of nothing.
LEMMA FlagsGone ==
    ASSUME NEW o, NEW p, NEW e \in Nat, NEW a \in Nat, NEW f,
           o \subseteq Nat, FlagsOf(o, e, a, f),
           \A n \in p : n \in o \/ n = e + 1,
           NEW b \in Nat, b < InSize, NEW h
    PROVE  FlagsOf(p, e + InSize, b, h)
  <1>1. InSize \in Nat \ {0}
    OBVIOUS
  <1>2. ASSUME NEW n \in p
        PROVE  n + InSize <= e + InSize + 1 /\ ~(n + b > e + InSize)
    <2>1. CASE n \in o
      <3>1. n \in Nat /\ n + InSize <= e + 1
        BY <2>1 DEF FlagsOf
      <3> QED
        BY <1>1, <3>1
    <2>2. CASE n = e + 1
      BY <1>1, <2>2
    <2> QED
      BY <2>1, <2>2
  <1> QED
    BY <1>2 DEF FlagsOf

\* A block read is the only one that may be added.
LEMMA ReadFlags ==
    ASSUME IInv, FlagsKept, NEW t \in Types, NEW over \in BOOLEAN, Read(t, over)
    PROVE  /\ blocks \in Nat /\ blocks * InSize \in Nat /\ InSize \in Nat \ {0}
           /\ available \in Nat /\ available <= blocks * InSize
           /\ adc_overdrive_flags \in BOOLEAN
           /\ blocks' = blocks + 1 /\ blocks' * InSize = blocks * InSize + InSize
           /\ LastSample = blocks * InSize + InSize
           /\ overdriven \subseteq Nat
           /\ \A n \in overdriven' : \/ n \in overdriven
                                     \/ over /\ n = blocks * InSize + 1
  <1>1. /\ blocks \in Nat /\ available \in Nat /\ available <= blocks * InSize
        /\ adc_overdrive_flags \in BOOLEAN /\ overdriven \subseteq Nat
    BY DEF IInv, TypeOK, Kept
  <1>2. blocks' = blocks + 1
    BY DEF Read
  <1>3. /\ blocks * InSize \in Nat
        /\ (blocks + 1) * InSize = blocks * InSize + InSize
    BY <1>1
  <1>4. FirstSample = blocks * InSize + 1 /\ LastSample = blocks * InSize + InSize
    BY <1>3 DEF FirstSample, LastSample
  <1>5. \A n \in overdriven' : \/ n \in overdriven
                               \/ over /\ n = blocks * InSize + 1
    <2>1. overdriven' = {n \in overdriven : n > FirstSample - Capacity}
                           \cup (IF over THEN {FirstSample} ELSE {})
      BY DEF Read
    <2>2. CASE over
      BY <1>4, <2>1, <2>2, Zenon
    <2>3. CASE ~over
      BY <2>1, <2>3, Zenon
    <2> QED
      BY <2>2, <2>3
  <1>6. InSize \in Nat \ {0}
    OBVIOUS
  <1> QED
    BY <1>1, <1>2, <1>3, <1>4, <1>5, <1>6

LEMMA NextFlags == Wide /\ IInv /\ FlagsKept /\ [Next]_vars => FlagsKept'
  <1> SUFFICES ASSUME Wide, IInv, FlagsKept, [Next]_vars PROVE FlagsKept'
    OBVIOUS
  <1> DEFINE B == blocks * InSize
  <1>1. CASE Dummy
    <2>1. blocks \in Nat /\ available \in Nat /\ overdriven \subseteq Nat
          /\ adc_overdrive_flags \in BOOLEAN
      BY DEF IInv, TypeOK
    <2>2. /\ blocks' = blocks + 1 /\ available' = 0 /\ overdriven' = overdriven
          /\ adc_overdrive_flags' = adc_overdrive_flags
      BY <1>1 DEF Dummy
    <2>3. B \in Nat /\ blocks' * InSize = B + InSize /\ 0 < InSize
      BY <2>1, <2>2
    <2>4. FlagsOf(overdriven, B + InSize, 0, adc_overdrive_flags)
      BY <2>1, <2>3, FlagsGone DEF FlagsKept
    <2> QED
      BY <2>2, <2>3, <2>4 DEF FlagsKept
  <1>2. CASE Gather
    <2>1. PICK t \in Types, over \in BOOLEAN :
             /\ Read(t, over) /\ available' = available + InSize
             /\ adc_overdrive_flags' = (adc_overdrive_flags \/ over)
      BY <1>2 DEF Gather
    <2>2. /\ B \in Nat /\ blocks' * InSize = B + InSize /\ available \in Nat
          /\ overdriven \subseteq Nat /\ adc_overdrive_flags \in BOOLEAN
          /\ \A n \in overdriven' : n \in overdriven \/ (over /\ n = B + 1)
      BY <2>1, ReadFlags
    <2>3. FlagsOf(overdriven', B + InSize, available + InSize, adc_overdrive_flags \/ over)
      BY <2>2, FlagsMore DEF FlagsKept
    <2> QED
      BY <2>1, <2>2, <2>3 DEF FlagsKept
  <1>3. CASE Emit
    <2>1. PICK t \in Types, over \in BOOLEAN :
             /\ Read(t, over) /\ available' = available + InSize - SizeOf(t)
             /\ available + InSize >= SizeOf(t)
      BY <1>3 DEF Emit
    <2>2. /\ B \in Nat /\ blocks' * InSize = B + InSize /\ available \in Nat
          /\ overdriven \subseteq Nat /\ adc_overdrive_flags \in BOOLEAN
          /\ \A n \in overdriven' : n \in overdriven \/ (over /\ n = B + 1)
      BY <2>1, ReadFlags
    <2>3. SizeOf(t) \in Nat /\ SizeOf(t) >= InSize
      BY DEF Wide, SizeOf, Types
    <2>4. available = 0 \/ available < SizeOf(t)
      BY <2>1 DEF IInv, Kept, Read
    <2>5. available' \in Nat /\ available' < InSize
      BY <2>1, <2>2, <2>3, <2>4
    <2>6. FlagsOf(overdriven', B + InSize, available', adc_overdrive_flags')
      <3>1. FlagsOf(overdriven, B, available, adc_overdrive_flags)
        BY DEF FlagsKept
      <3>2. \A n \in overdriven' : n \in overdriven \/ n = B + 1
        BY <2>2
      <3> HIDE DEF B
      <3> QED
        BY <2>2, <2>5, <3>1, <3>2, FlagsGone
    <2> QED
      BY <2>1, <2>2, <2>6 DEF FlagsKept
  <1>4. CASE UNCHANGED vars
    BY <1>4 DEF vars, FlagsKept, FlagsOf
  <1>5. CASE Ended
    BY <1>4, <1>5 DEF Ended
  <1> QED
    BY <1>1, <1>2, <1>3, <1>4, <1>5 DEF Next

\* A frame that leaves reports every overdriven block that starts in it.
LEMMA EmitReports == Wide /\ IInv /\ FlagsKept /\ Emit => OverdriveReported'
  <1> SUFFICES ASSUME Wide, IInv, FlagsKept, NEW t \in Types, NEW over \in BOOLEAN,
                      Read(t, over),
                      available + InSize >= SizeOf(t),
                      available' = available + InSize - SizeOf(t),
                      frame' = [type |-> t, data |-> Oldest(SizeOf(t)),
                                time_stamp |-> LastSample - available',
                                overdrive |-> adc_overdrive_flags \/ over],
                      Passed'
               PROVE  OverdriveReported'
    BY EmitStep DEF Emit, IInv
  <1> SUFFICES ASSUME NEW n \in overdriven', NEW i \in DOMAIN frame'.data, frame'.data[i] = n
               PROVE  frame'.overdrive
    BY DEF OverdriveReported, Holds
  <1> DEFINE B == blocks * InSize
             S == SizeOf(t)
             a == blocks' * InSize - available' - S
  <1>1. /\ B \in Nat /\ blocks' * InSize = B + InSize /\ available \in Nat
        /\ overdriven \subseteq Nat /\ adc_overdrive_flags \in BOOLEAN
        /\ n \in overdriven \/ (over /\ n = B + 1)
    BY ReadFlags
  <1>2. S \in Nat \ {0}
    BY DEF SizeOf
  <1>3. a = B - available
    BY <1>1, <1>2
  <1>4. frame'.type = t /\ frame'.overdrive = (adc_overdrive_flags \/ over)
    BY <1>1
  <1>5. frame'.data = [k \in 1 .. S |-> a + k]
    BY <1>4 DEF Passed
  <1> HIDE DEF a, S
  <1>6. n > B - available
    BY <1>1, <1>2, <1>3, <1>5
  <1> QED
    <2>1. CASE n \in overdriven
      <3>1. n \in Nat /\ n + available > B
        BY <1>1, <1>6, <2>1
      <3>2. adc_overdrive_flags
        BY <2>1, <3>1 DEF FlagsKept, FlagsOf
      <3> QED
        BY <1>4, <3>2
    <2>2. CASE over
      BY <1>4, <2>2
    <2> QED
      BY <1>1, <2>1, <2>2

\* An overdriven block is reported by the frame it starts in, whatever the two sizes:
\* the flags are collected over the blocks of a frame and cleared with it
\* (adc_overdrive_flags of rebuffer.c).  A frame that holds the rest of such a block,
\* and not its start, need not report it.
THEOREM OverdriveReportedHolds == ASSUME Wide PROVE Spec => []OverdriveReported
  <1>1. Init => FlagsKept /\ OverdriveReported
    BY DEF Init, FlagsKept, FlagsOf, OverdriveReported, NoFrame, NoData, Types
  <1>2. IInv /\ FlagsKept /\ [Next]_vars => FlagsKept'
    BY NextFlags
  <1>3. IInv /\ FlagsKept /\ OverdriveReported /\ [Next]_vars => OverdriveReported'
    <2> SUFFICES ASSUME IInv, FlagsKept, OverdriveReported, [Next]_vars
                 PROVE  OverdriveReported'
      OBVIOUS
    <2>1. CASE Emit
      BY <2>1, EmitReports
    <2>2. CASE Dummy \/ Gather
      BY <2>2 DEF Dummy, Gather, OverdriveReported, NoFrame, NoData, Types
    <2>3. CASE UNCHANGED vars
      BY <2>3 DEF vars, OverdriveReported, Holds
    <2>4. CASE Ended
      BY <2>3, <2>4 DEF Ended
    <2> QED
      BY <2>1, <2>2, <2>3, <2>4 DEF Next
  <1> QED
    BY <1>1, <1>2, <1>3, IInvHolds, PTL DEF Spec

-----------------------------------------------------------------------------
(* The circular buffer implements the sample queue *)

\* The n samples that follow number a.
Run(a, n) == [i \in 1 .. n |-> a + i]

\* Consecutive runs join, and a run is cut into consecutive runs.
LEMMA Runs ==
    ASSUME NEW a \in Int, NEW n \in Nat, NEW m \in Nat
    PROVE  /\ Run(a, n) \in Seq(Int) /\ Len(Run(a, n)) = n
           /\ Run(a, n) \o Run(a + n, m) = Run(a, n + m)
           /\ m <= n => /\ SubSeq(Run(a, n), 1, m) = Run(a, m)
                        /\ SubSeq(Run(a, n), m + 1, n) = Run(a + m, n - m)
  <1>1. \A b \in Int, k \in Nat : Run(b, k) \in Seq(Int) /\ Len(Run(b, k)) = k
    BY DEF Run
  <1>2. Run(a, n) \o Run(a + n, m) = Run(a, n + m)
    <2> DEFINE r == Run(a, n)
               t == Run(a + n, m)
               u == Run(a, n + m)
    <2>1. r \in Seq(Int) /\ Len(r) = n /\ t \in Seq(Int) /\ Len(t) = m
          /\ u \in Seq(Int) /\ Len(u) = n + m
      <3>1. a + n \in Int /\ n + m \in Nat
        OBVIOUS
      <3>2. Run(a, n) \in Seq(Int) /\ Len(Run(a, n)) = n
        BY <1>1
      <3>3. Run(a + n, m) \in Seq(Int) /\ Len(Run(a + n, m)) = m
        BY <1>1, <3>1
      <3>4. Run(a, n + m) \in Seq(Int) /\ Len(Run(a, n + m)) = n + m
        BY <1>1, <3>1
      <3> QED
        BY <3>2, <3>3, <3>4
    <2>2. /\ \A i \in 1 .. n : r[i] = a + i
          /\ \A i \in 1 .. m : t[i] = a + n + i
          /\ \A i \in 1 .. n + m : u[i] = a + i
      BY DEF Run
    <2> HIDE DEF r, t, u
    <2>3. /\ r \o t \in Seq(Int)
          /\ Len(r \o t) = n + m
          /\ \A i \in 1 .. n + m : (r \o t)[i] = IF i <= n THEN r[i] ELSE t[i - n]
      BY <2>1, ConcatProperties
    <2>4. ASSUME NEW i \in 1 .. n + m PROVE (r \o t)[i] = u[i]
      <3>1. CASE i <= n
        <4>1. (r \o t)[i] = r[i] /\ i \in 1 .. n
          BY <3>1, <2>3
        <4>2. r[i] = a + i /\ u[i] = a + i
          BY <4>1, <2>2
        <4> QED
          BY <4>1, <4>2
      <3>2. CASE i > n
        <4>1. i - n \in 1 .. m /\ a + n + (i - n) = a + i
          BY <3>2
        <4>2. (r \o t)[i] = t[i - n]
          BY <3>2, <2>3
        <4>3. t[i - n] = a + n + (i - n)
          BY <4>1, <2>2
        <4>4. u[i] = a + i
          BY <2>2
        <4> QED
          BY <4>1, <4>2, <4>3, <4>4
      <3>3. i <= n \/ i > n
        OBVIOUS
      <3> QED
        BY <3>1, <3>2, <3>3, Zenon
    <2>5. r \o t = u
      BY <2>1, <2>3, <2>4, SeqEqual
    <2> QED
      BY <2>5 DEF r, t, u
  <1>3. ASSUME m <= n
        PROVE  /\ SubSeq(Run(a, n), 1, m) = Run(a, m)
               /\ SubSeq(Run(a, n), m + 1, n) = Run(a + m, n - m)
    <2>1. SubSeq(Run(a, n), 1, m) = Run(a, m)
      BY <1>1, <1>3 DEF Run
    <2>2. SubSeq(Run(a, n), m + 1, n) = Run(a + m, n - m)
      BY <1>1, <1>3 DEF Run
    <2> QED
      BY <2>1, <2>2
  <1> QED
    BY <1>1, <1>2, <1>3
\* The queue the circular buffer stands for, once the contents are known.
LEMMA QueueIs ==
    ASSUME IInv
    PROVE  [i \in 1 .. available |-> iq_circ_buffer[(wr_offset + i - 1) % Capacity]]
                = Run(blocks * InSize - available, available)
  BY DEF IInv, Contents, Run

\* The initial buffer is an empty queue.
LEMMA InitQueue == Init => Queue!Init
  BY DEF Init, Queue!Init, NoFrame, NoData

\* Each step of the block is a step of the queue.
LEMMA NextQueue == Wide /\ IInv /\ [Next]_vars => [Queue!Next]_(Queue!qvars)
  <1> SUFFICES ASSUME Wide, IInv, [Next]_vars PROVE [Queue!Next]_(Queue!qvars)
    OBVIOUS
  <1> DEFINE B == blocks * InSize
             q == [i \in 1 .. available |-> iq_circ_buffer[(wr_offset + i - 1) % Capacity]]
  <1>1. IInv' /\ NoOverrun
    BY NextIInv, Fits
  <1>2. B \in Nat /\ available \in Nat /\ InSize \in Nat /\ blocks \in Nat
    BY DEF IInv, TypeOK
  <1>3. q = Run(B - available, available)
    BY QueueIs
  <1>4. q' = Run(blocks' * InSize - available', available')
    BY <1>1 DEF IInv, Contents, Run
  <1>5. frame'.type \in Types =>
            frame'.data = Run(blocks' * InSize - available' - SizeOf(frame'.type),
                              SizeOf(frame'.type))
    BY <1>1 DEF IInv, Passed, Run
  <1>6. CASE UNCHANGED vars
    BY <1>6 DEF vars, Queue!qvars
  <1>7. CASE Dummy
    <2>1. blocks' * InSize = B + InSize
      BY <1>2, <1>7 DEF Dummy
    <2>2. q' = <<>>
      BY <1>4, <1>7 DEF Dummy, Run
    <2>3. frame'.data = <<>>
      BY <1>7 DEF Dummy, NoData
    <2> QED
      BY <2>1, <2>2, <2>3 DEF Queue!Next, Queue!Reset
  <1>8. ASSUME NEW t \in Types, NEW over \in BOOLEAN, Read(t, over)
        PROVE  /\ blocks' * InSize = B + InSize
               /\ Queue!Grown = Run(B - available, available + InSize)
    <2>1. blocks' * InSize = B + InSize
      BY <1>1, <1>8, ReadStep
    <2>2. [i \in 1 .. InSize |-> B + i] = Run(B - available + available, InSize)
      BY <1>2 DEF Run
    <2>3. Run(B - available, available) \o Run(B - available + available, InSize)
            = Run(B - available, available + InSize)
      <3>1. B - available \in Int
        BY <1>2
      <3> HIDE DEF B
      <3> QED
        BY <3>1, <1>2, Runs
    <2> QED
      BY <2>1, <2>2, <2>3, <1>3 DEF Queue!Grown
  <1>9. CASE Gather
    <2>1. PICK t \in Types, over \in BOOLEAN :
            Read(t, over) /\ available' = available + InSize /\ frame' = NoFrame
      BY <1>9 DEF Gather
    <2>2. q' = Run(B - available, available + InSize)
      <3>1. blocks' * InSize - available' = B - available
        BY <2>1, <1>2, <1>8
      <3> QED
        BY <3>1, <2>1, <1>4
    <2>3. frame'.data = <<>>
      BY <2>1 DEF NoFrame, NoData
    <2> QED
      BY <2>1, <2>2, <2>3, <1>8 DEF Queue!Next, Queue!Gather
  <1>10. CASE Emit
    <2>1. PICK t \in Types, over \in BOOLEAN :
            /\ Read(t, over) /\ available + InSize >= SizeOf(t)
            /\ available' = available + InSize - SizeOf(t) /\ frame'.type = t
      BY <1>10 DEF Emit
    <2> DEFINE S == SizeOf(t)
               a == B - available
               n == available + InSize
    <2>2. /\ S \in Nat /\ S \in {OutSize, CalSize} /\ S <= n
          /\ a \in Int /\ n \in Nat /\ S >= 1
      BY <2>1, <1>2 DEF SizeOf
    <2>3. blocks' * InSize - available' - S = a /\ blocks' * InSize - available' = a + S
      BY <2>1, <2>2, <1>2, <1>8
    <2>4. Queue!Grown = Run(a, n)
      BY <2>1, <1>8
    <2>5. /\ Len(Run(a, n)) = n
          /\ SubSeq(Run(a, n), 1, S) = Run(a, S)
          /\ SubSeq(Run(a, n), S + 1, n) = Run(a + S, n - S)
      <3> HIDE DEF a, n, S
      <3> QED
        BY <2>2, Runs
    <2>6. frame'.data = Run(a, S)
      BY <2>1, <2>3, <1>5
    <2>7. q' = Run(a + S, n - S)
      <3>1. available' = n - S
        BY <2>1, <2>2, <1>2
      <3>2. blocks' * InSize - available' = a + S
        BY <2>3
      <3> HIDE DEF q, n, a, S
      <3> QED
        BY <3>1, <3>2, <1>4
    <2>8. blocks' * InSize = B + InSize
      BY <2>1, <1>8
    <2> QED
      BY <2>2, <2>4, <2>5, <2>6, <2>7, <2>8 DEF Queue!Next, Queue!Emit
  <1>11. CASE Ended
    BY <1>6, <1>11 DEF Ended
  <1> QED
    BY <1>6, <1>7, <1>9, <1>10, <1>11 DEF Next

\* For all output sizes of at least a block, what rebuffer.c passes on between
\* two dummies is the sequence of the samples it read: none lost, none twice,
\* none from before the dummy.
THEOREM QueueRefinedHolds == ASSUME Wide PROVE Spec => QueueRefined
  <1>1. Init => Queue!Init
    BY InitQueue
  <1>2. IInv /\ [Next]_vars => [Queue!Next]_(Queue!qvars)
    BY NextQueue
  <1>3. Spec => []IInv
    BY IInvHolds
  <1> QED
    BY <1>1, <1>2, <1>3, PTL DEF Spec, QueueRefined, Queue!SQSpec
=============================================================================
