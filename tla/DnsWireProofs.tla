--------------------------- MODULE DnsWireProofs ---------------------------
(***************************************************************************)
(* What holds of every packet that is written and read: pointers lead back *)
(* to labels, the counts of the header tell what follows, a packet is cut  *)
(* where it has to be, and what is written is read.                        *)
(***************************************************************************)
EXTENDS DnsWire, FiniteSetTheorems, SequenceTheorems, WellFoundedInduction, TLAPS

LEMMA LeastNatural ==
    ASSUME NEW S \in SUBSET Nat, S # {}
    PROVE  \E x \in S : \A y \in S : x <= y
  <1>1. PICK x \in S : \A y \in S : ~ (<<y, x>> \in OpToRel(<, Nat))
    BY NatLessThanWellFounded, WFMin
  <1>2. ASSUME NEW y \in S  PROVE x <= y
    <2>1. ~ (<<y, x>> \in OpToRel(<, Nat))
      BY <1>1
    <2>2. ~ (y < x)
      BY <2>1 DEF OpToRel
    <2> QED
      BY <2>2
  <1> QED
    BY <1>2

(* Induction up to N, for a set.                                           *)
LEMMA UpTo ==
    ASSUME NEW N \in Nat, NEW S, 0 \in S, \A i \in 1..N : i - 1 \in S => i \in S
    PROVE  \A i \in 0..N : i \in S
  <1> DEFINE Bad == {i \in 0..N : i \notin S}
  <1>1. SUFFICES ASSUME Bad # {} PROVE FALSE
    OBVIOUS
  <1>2. PICK m \in Bad : \A y \in Bad : m <= y
    <2>1. Bad \in SUBSET Nat
      OBVIOUS
    <2> HIDE DEF Bad
    <2> QED
      BY <1>1, <2>1, LeastNatural
  <1>3. m \in 0..N /\ m \notin S /\ m # 0
    OBVIOUS
  <1>4. m \in 1..N /\ m - 1 \in 0..N /\ ~(m <= m - 1)
    BY <1>3
  <1>5. m - 1 \in S
    BY <1>2, <1>4
  <1> QED
    BY <1>3, <1>4, <1>5

-----------------------------------------------------------------------------
(* The positions of the labels of a name.                                  *)

LEMMA Lengths ==
    /\ \A l \in Labels : LabelLen[l] \in Nat
    /\ \A l \in Labels : Lower[l] \in Labels
    /\ \A b \in DOMAIN BodyLen : BodyLen[b] \in Nat
  <1>1. ASSUME NEW l \in Labels
        PROVE  LabelLen[l] \in Nat /\ Lower[l] \in Labels
    <2>1. LabelLen[l] \in Nat
      BY WireAssumption
    <2>2. Lower \in [Labels -> Labels]
      BY WireAssumption
    <2> QED
      BY <2>1, <2>2
  <1>2. \A b \in DOMAIN BodyLen : BodyLen[b] \in Nat
    BY WireAssumption
  <1> QED
    BY <1>1, <1>2

LEMMA NameTypes ==
    ASSUME NEW name \in Seq(Labels)
    PROVE  /\ Len(name) \in Nat
           /\ DOMAIN name = 1..Len(name)
           /\ \A i \in 1..Len(name) : name[i] \in Labels /\ LabelLen[name[i]] \in Nat
  BY LenProperties, ElementOfSeq, Lengths

(* Positions are well defined.                                             *)
LEMMA PositionsExist ==
    ASSUME NEW start, NEW name, NEW N \in Nat
    PROVE  \E f : f = [i \in 0..N |-> IF i = 0 THEN start ELSE f[i - 1] + 1 + LabelLen[name[i]]]
  <1> DEFINE Follows(f, m) ==
                f = [i \in 0..m |-> IF i = 0 THEN start ELSE f[i - 1] + 1 + LabelLen[name[i]]]
             Missing == {m \in Nat : ~ \E f : Follows(f, m)}
  <1>1. SUFFICES ASSUME Missing # {} PROVE FALSE
    OBVIOUS
  <1>2. PICK m \in Missing : \A y \in Missing : m <= y
    BY <1>1, LeastNatural
  <1>3. m \in Nat
    OBVIOUS
  <1>4. CASE m = 0
    <2>1. Follows([k \in 0..0 |-> start], 0)
      OBVIOUS
    <2> QED
      BY <1>4, <2>1
  <1>5. CASE m # 0
    <2>1. m - 1 \in Nat /\ ~(m <= m - 1)
      BY <1>3, <1>5
    <2>2. PICK g : Follows(g, m - 1)
      BY <1>2, <2>1
    <2> DEFINE f == [k \in 0..m |-> IF k = m THEN g[m - 1] + 1 + LabelLen[name[m]] ELSE g[k]]
    <2>3. \A k \in 0..(m - 1) : g[k] = IF k = 0 THEN start ELSE g[k - 1] + 1 + LabelLen[name[k]]
      <3>1. g = [k \in 0..(m - 1) |-> IF k = 0 THEN start ELSE g[k - 1] + 1 + LabelLen[name[k]]]
        BY <2>2
      <3> QED
        BY ONLY <3>1
    <2>4. ASSUME NEW k \in 0..m
          PROVE  f[k] = IF k = 0 THEN start ELSE f[k - 1] + 1 + LabelLen[name[k]]
      <3>1. CASE k = m
        <4>1. m - 1 \in 0..m /\ m - 1 # m
          BY <2>1, <1>3
        <4>2. f[m - 1] = g[m - 1] /\ f[m] = g[m - 1] + 1 + LabelLen[name[m]]
          BY <1>3, <4>1
        <4> QED
          BY <1>5, <3>1, <4>2
      <3>2. CASE k # m
        <4>1. k \in 0..(m - 1) /\ f[k] = g[k]
          BY <1>3, <2>4, <3>2
        <4>2. k # 0 => k - 1 \in 0..m /\ k - 1 # m
          BY <1>3, <2>4
        <4>3. k # 0 => f[k - 1] = g[k - 1]
          BY <4>2
        <4> QED
          BY <2>3, <4>1, <4>3
      <3> QED
        BY <3>1, <3>2
    <2>5. Follows(f, m)
      BY <2>4
    <2> QED
      BY <2>5
  <1> QED
    BY <1>4, <1>5

LEMMA PositionsUnfold ==
    ASSUME NEW start, NEW name \in Seq(Labels)
    PROVE  /\ Positions(start, name)[0] = start
           /\ \A i \in 1..Len(name) : Positions(start, name)[i]
                    = Positions(start, name)[i - 1] + 1 + LabelLen[name[i]]
  <1> DEFINE at == Positions(start, name)
  <1>1. Len(name) \in Nat
    BY NameTypes
  <1>2. at = [i \in 0..Len(name) |-> IF i = 0 THEN start ELSE at[i - 1] + 1 + LabelLen[name[i]]]
    BY <1>1, PositionsExist DEF Positions
  <1> HIDE DEF at
  <1>3. \A i \in 0..Len(name) : at[i] = IF i = 0 THEN start ELSE at[i - 1] + 1 + LabelLen[name[i]]
    BY ONLY <1>2
  <1>4. 0 \in 0..Len(name) /\ \A i \in 1..Len(name) : i \in 0..Len(name) /\ i # 0
    BY <1>1
  <1>5. at[0] = start /\ \A i \in 1..Len(name) : at[i] = at[i - 1] + 1 + LabelLen[name[i]]
    BY <1>3, <1>4
  <1> QED
    BY <1>5 DEF at

(* They increase by a byte at least, and with the start.                   *)
LEMMA PositionsShift ==
    ASSUME NEW start \in Nat, NEW other \in Nat, NEW name \in Seq(Labels)
    PROVE  \A i \in 0..Len(name) :
              /\ Positions(start, name)[i] \in Nat /\ Positions(start, name)[i] >= start + i
              /\ Positions(start, name)[i] - start = Positions(other, name)[i] - other
  <1> DEFINE at == Positions(start, name)
             bt == Positions(other, name)
             Wrong == {i \in 0..Len(name) : ~(at[i] \in Nat /\ at[i] >= start + i
                            /\ bt[i] \in Nat /\ at[i] - start = bt[i] - other)}
  <1>1. Len(name) \in Nat /\ \A i \in 1..Len(name) : LabelLen[name[i]] \in Nat
    BY NameTypes
  <1>2. at[0] = start /\ \A i \in 1..Len(name) : at[i] = at[i - 1] + 1 + LabelLen[name[i]]
    BY PositionsUnfold
  <1>3. bt[0] = other /\ \A i \in 1..Len(name) : bt[i] = bt[i - 1] + 1 + LabelLen[name[i]]
    BY PositionsUnfold
  <1> HIDE DEF at, bt
  <1>4. Wrong = {}
    <2>1. SUFFICES ASSUME Wrong # {} PROVE FALSE
      OBVIOUS
    <2>2. PICK m \in Wrong : \A y \in Wrong : m <= y
      <3>1. Wrong \in SUBSET Nat
        BY <1>1
      <3> HIDE DEF Wrong
      <3> QED
        BY <2>1, <3>1, LeastNatural
    <2>3. m \in 0..Len(name)
      OBVIOUS
    <2>4. m # 0
      BY <1>1, <1>2, <1>3
    <2>5. m - 1 \in 0..Len(name) /\ ~(m <= m - 1) /\ m \in 1..Len(name)
      BY <1>1, <2>3, <2>4
    <2>6. at[m - 1] \in Nat /\ at[m - 1] >= start + (m - 1) /\ bt[m - 1] \in Nat
            /\ at[m - 1] - start = bt[m - 1] - other
      BY <2>2, <2>5
    <2>7. LabelLen[name[m]] \in Nat
      BY <1>1, <2>5
    <2>8. at[m] = at[m - 1] + 1 + LabelLen[name[m]] /\ bt[m] = bt[m - 1] + 1 + LabelLen[name[m]]
      BY <1>2, <1>3, <2>5
    <2>9. at[m] \in Nat /\ at[m] >= start + m /\ bt[m] \in Nat /\ at[m] - start = bt[m] - other
      <3> DEFINE a == at[m - 1]
                 b == bt[m - 1]
                 l == LabelLen[name[m]]
      <3>1. m \in Nat
        BY <1>1, <2>3
      <3>2. a \in Nat /\ a >= start + (m - 1) /\ b \in Nat /\ a - start = b - other /\ l \in Nat
        BY <2>6, <2>7
      <3> HIDE DEF a, b, l
      <3>3. /\ a + 1 + l \in Nat /\ a + 1 + l >= start + m /\ b + 1 + l \in Nat
            /\ a + 1 + l - start = b + 1 + l - other
        BY <3>1, <3>2
      <3>4. at[m] = a + 1 + l /\ bt[m] = b + 1 + l
        BY <2>8 DEF a, b, l
      <3> QED
        BY <3>1, <3>2, <3>3, <3>4
    <2> QED
      BY <2>3, <2>9
  <1> QED
    BY <1>4 DEF at, bt

(* Labels do not overlap.                                                  *)
LEMMA PositionsIncrease ==
    ASSUME NEW start \in Nat, NEW name \in Seq(Labels),
           NEW i \in 0..Len(name), NEW j \in 0..Len(name), i < j
    PROVE  Positions(start, name)[i] < Positions(start, name)[j]
  <1> DEFINE at == Positions(start, name)
             Wrong == {k \in Nat : k <= Len(name) /\ i < k /\ ~(at[i] < at[k])}
  <1>1. Len(name) \in Nat /\ \A k \in 1..Len(name) : LabelLen[name[k]] \in Nat
    BY NameTypes
  <1>2. \A k \in 1..Len(name) : at[k] = at[k - 1] + 1 + LabelLen[name[k]]
    BY PositionsUnfold
  <1>3. \A k \in 0..Len(name) : at[k] \in Nat
    BY PositionsShift
  <1> HIDE DEF at
  <1>4. Wrong = {}
    <2>1. SUFFICES ASSUME Wrong # {} PROVE FALSE
      OBVIOUS
    <2>2. PICK m \in Wrong : \A y \in Wrong : m <= y
      <3>1. Wrong \in SUBSET Nat
        OBVIOUS
      <3> HIDE DEF Wrong
      <3> QED
        BY <2>1, <3>1, LeastNatural
    <2>3. m \in Nat /\ m <= Len(name) /\ i < m /\ ~(at[i] < at[m])
      OBVIOUS
    <2>4. m - 1 \in Nat /\ m - 1 \in 0..Len(name) /\ ~(m <= m - 1) /\ m \in 1..Len(name)
      BY <1>1, <2>3
    <2>5. at[m] = at[m - 1] + 1 + LabelLen[name[m]] /\ LabelLen[name[m]] \in Nat /\ at[m - 1] \in Nat
          /\ at[i] \in Nat
      BY <1>1, <1>2, <1>3, <2>4
    <2>6. CASE i = m - 1
      BY <2>3, <2>5, <2>6
    <2>7. CASE i # m - 1
      <3>1. i < m - 1 /\ m - 1 <= Len(name)
        BY <1>1, <2>3, <2>7
      <3>2. at[i] < at[m - 1]
        BY <2>2, <2>4, <3>1
      <3> QED
        BY <2>3, <2>5, <3>2
    <2> QED
      BY <2>6, <2>7
  <1>5. j \in Nat /\ j <= Len(name)
    BY <1>1
  <1> QED
    BY <1>4, <1>5 DEF at

-----------------------------------------------------------------------------
(* Buffers.                                                                *)

LEMMA OverFacts ==
    ASSUME NEW f, NEW g
    PROVE  /\ DOMAIN Over(f, g) = DOMAIN f \cup DOMAIN g
           /\ \A x \in DOMAIN g : Over(f, g)[x] = g[x]
           /\ \A x \in DOMAIN f : x \notin DOMAIN g => Over(f, g)[x] = f[x]
  BY DEF Over

IsBuffer(b) == b = [cells |-> b.cells, pos |-> b.pos, labels |-> b.labels]

LEMMA PutFacts ==
    ASSUME NEW b, NEW cell, NEW length
    PROVE  /\ IsBuffer(Put(b, cell, length))
           /\ Put(b, cell, length).pos = b.pos + length
           /\ Put(b, cell, length).labels = b.labels
           /\ DOMAIN Put(b, cell, length).cells = DOMAIN b.cells \cup {b.pos}
           /\ Put(b, cell, length).cells[b.pos] = cell
           /\ \A p \in DOMAIN b.cells : p # b.pos => Put(b, cell, length).cells[p] = b.cells[p]
  <1> DEFINE g == [p \in {b.pos} |-> cell]
  <1>1. DOMAIN g = {b.pos} /\ g[b.pos] = cell
    OBVIOUS
  <1>2. /\ Put(b, cell, length).cells = Over(b.cells, g)
        /\ Put(b, cell, length).pos = b.pos + length
        /\ Put(b, cell, length).labels = b.labels
        /\ IsBuffer(Put(b, cell, length))
    BY DEF Put, IsBuffer
  <1> HIDE DEF g
  <1>3. /\ DOMAIN Over(b.cells, g) = DOMAIN b.cells \cup DOMAIN g
        /\ \A x \in DOMAIN g : Over(b.cells, g)[x] = g[x]
        /\ \A x \in DOMAIN b.cells : x \notin DOMAIN g => Over(b.cells, g)[x] = b.cells[x]
    BY OverFacts
  <1> QED
    BY <1>1, <1>2, <1>3

LEMMA SuffixFacts ==
    ASSUME NEW name \in Seq(Labels), NEW i \in 1..(Len(name) + 1)
    PROVE  /\ Suffix(name, i) \in Seq(Labels)
           /\ Len(Suffix(name, i)) = Len(name) + 1 - i
           /\ \A j \in 1..(Len(name) + 1 - i) : Suffix(name, i)[j] = name[i + j - 1]
           /\ i <= Len(name) => Suffix(name, i) \in Names
  <1>1. Len(name) \in Nat /\ \A k \in 1..Len(name) : name[k] \in Labels
    BY NameTypes
  <1>2. i \in Int /\ Len(name) \in Int /\ \A k \in i..Len(name) : name[k] \in Labels
    BY <1>1
  <1>3. /\ SubSeq(name, i, Len(name)) \in Seq(Labels)
        /\ Len(SubSeq(name, i, Len(name))) = IF i <= Len(name) THEN Len(name) - i + 1 ELSE 0
        /\ \A j \in 1..(Len(name) - i + 1) : SubSeq(name, i, Len(name))[j] = name[i + j - 1]
    BY <1>2, SubSeqProperties
  <1>4. Len(Suffix(name, i)) = Len(name) + 1 - i
    BY <1>1, <1>3 DEF Suffix
  <1>5. i <= Len(name) => Suffix(name, i) # <<>>
    BY <1>1, <1>4, EmptySeq
  <1> QED
    BY <1>1, <1>3, <1>4, <1>5 DEF Suffix, Names

LEMMA SuffixEnds ==
    ASSUME NEW name \in Seq(Labels)
    PROVE  Suffix(name, 1) = name /\ Suffix(name, Len(name) + 1) = <<>>
  <1>1. Len(name) \in Nat
    BY NameTypes
  <1> QED
    BY <1>1, SubSeqFull, SubSeqEmpty DEF Suffix

(* As many labels are written as are not known.                            *)
LEMMA LabelsWrittenFacts ==
    ASSUME NEW name \in Seq(Labels), NEW known \in SUBSET (1..Len(name))
    PROVE  LET n == LabelsWritten(name, known)
           IN  n \in 0..Len(name) /\ (n = Len(name) \/ n + 1 \in known) /\ \A i \in known : n < i
  <1>1. Len(name) \in Nat
    BY NameTypes
  <1>2. \E n \in 0..Len(name) : (n = Len(name) \/ n + 1 \in known) /\ \A i \in known : n < i
    <2>1. CASE known = {}
      BY <1>1, <2>1
    <2>2. CASE known # {}
      <3>1. known \in SUBSET Nat
        BY <1>1
      <3>2. PICK k \in known : \A y \in known : k <= y
        BY <2>2, <3>1, LeastNatural
      <3>3. k - 1 \in 0..Len(name) /\ k - 1 + 1 = k /\ \A i \in known : k - 1 < i
        BY <1>1, <3>1, <3>2
      <3> QED
        BY <3>3
    <2> QED
      BY <2>1, <2>2
  <1> QED
    BY <1>2 DEF LabelsWritten

Pointer(to) == [kind |-> "pointer", to |-> to]

(* What write_qname leaves in a buffer.                                    *)
NameIn(b, name, n, w) ==
    LET at == Positions(b.pos, name)
    IN  /\ IsBuffer(w)
        /\ n \in 0..Len(name)
        /\ n = Len(name) \/ Suffix(name, n + 1) \in DOMAIN b.labels
        /\ \A i \in 1..n : Suffix(name, i) \notin DOMAIN b.labels
        /\ DOMAIN w.cells = DOMAIN b.cells \cup {at[i] : i \in 0..n}
        /\ \A p \in DOMAIN b.cells : w.cells[p] = b.cells[p]
        /\ \A i \in 1..n : w.cells[at[i - 1]] = Label(name[i])
        /\ w.cells[at[n]] = IF n = Len(name) THEN End
                            ELSE Pointer(b.labels[Suffix(name, n + 1)] % POINTER_RANGE)
        /\ w.pos = at[n] + (IF n = Len(name) THEN 1 ELSE 2)
        /\ DOMAIN w.labels = DOMAIN b.labels \cup {Suffix(name, i) : i \in 1..n}
        /\ \A s \in DOMAIN b.labels : w.labels[s] = b.labels[s]
        /\ \A i \in 1..n : w.labels[Suffix(name, i)] = at[i - 1]

(* A buffer ends behind everything in it.                                  *)
Ends(b) == b.pos \in Nat /\ \A p \in DOMAIN b.cells : p \in Nat /\ p < b.pos

(* And what its loop does.                                                 *)
LabelsIn(b, name, n, at, w) ==
    /\ DOMAIN w.cells = DOMAIN b.cells \cup {at[i - 1] : i \in 1..n}
    /\ \A p \in DOMAIN b.cells : w.cells[p] = b.cells[p]
    /\ \A i \in 1..n : w.cells[at[i - 1]] = Label(name[i])
    /\ w.pos = at[n]
    /\ DOMAIN w.labels = DOMAIN b.labels \cup {Suffix(name, i) : i \in 1..n}
    /\ \A s \in DOMAIN b.labels : w.labels[s] = b.labels[s]
    /\ \A i \in 1..n : w.labels[Suffix(name, i)] = at[i - 1]

LEMMA WithLabelsFacts ==
    ASSUME NEW b, Ends(b), NEW name \in Seq(Labels), NEW n \in 0..Len(name),
           \A i \in 1..n : Suffix(name, i) \notin DOMAIN b.labels
    PROVE  LabelsIn(b, name, n, Positions(b.pos, name), WithLabels(b, name, n, Positions(b.pos, name)))
  <1> DEFINE at == Positions(b.pos, name)
             P == {at[i - 1] : i \in 1..n}
             Q == {Suffix(name, i) : i \in 1..n}
             g == [p \in P |-> Label(name[CHOOSE i \in 1..n : at[i - 1] = p])]
             h == [s \in Q |-> at[Len(name) - Len(s)]]
             w == WithLabels(b, name, n, at)
  <1>1. Len(name) \in Nat /\ n \in Nat /\ n <= Len(name) /\ b.pos \in Nat
    BY NameTypes DEF Ends
  <1>2. w.cells = Over(b.cells, g) /\ w.pos = at[n] /\ w.labels = Over(b.labels, h)
    BY DEF WithLabels
  <1>3. \A i \in 1..n : i - 1 \in 0..Len(name) /\ at[i - 1] \in Nat /\ at[i - 1] >= b.pos
    <2>1. ASSUME NEW i \in 1..n PROVE i - 1 \in 0..Len(name) /\ at[i - 1] \in Nat /\ at[i - 1] >= b.pos
      <3>1. i - 1 \in 0..Len(name) /\ i - 1 \in Nat
        BY <1>1
      <3>2. at[i - 1] \in Nat /\ at[i - 1] >= b.pos + (i - 1)
        BY <1>1, <3>1, PositionsShift
      <3> HIDE DEF at
      <3> QED
        BY <1>1, <3>1, <3>2
    <2> QED
      BY <2>1
  <1>4. \A i, j \in 1..n : at[i - 1] = at[j - 1] => i = j
    <2>1. ASSUME NEW i \in 1..n, NEW j \in 1..n, i < j PROVE at[i - 1] < at[j - 1]
      <3>1. i - 1 \in 0..Len(name) /\ j - 1 \in 0..Len(name) /\ i - 1 < j - 1
        BY <1>1, <2>1
      <3> QED
        BY <1>1, <3>1, PositionsIncrease
    <2> HIDE DEF at
    <2>2. ASSUME NEW i \in 1..n, NEW j \in 1..n, at[i - 1] = at[j - 1] PROVE i = j
      <3>1. at[i - 1] \in Nat /\ at[j - 1] \in Nat
        BY <1>3
      <3>2. ~(at[i - 1] < at[j - 1]) /\ ~(at[j - 1] < at[i - 1])
        BY <2>2, <3>1
      <3> QED
        BY <1>1, <2>1, <3>2
    <2> QED
      BY <2>2
  <1>5. \A i \in 1..n : Len(Suffix(name, i)) = Len(name) + 1 - i
    <2>1. ASSUME NEW i \in 1..n PROVE Len(Suffix(name, i)) = Len(name) + 1 - i
      <3>1. i \in 1..(Len(name) + 1)
        BY <1>1
      <3> QED
        BY <3>1, SuffixFacts
    <2> QED
      BY <2>1
  <1>6. DOMAIN g = P /\ DOMAIN h = Q
    OBVIOUS
  <1> HIDE DEF at
  <1>7. ASSUME NEW i \in 1..n PROVE at[i - 1] \in P /\ g[at[i - 1]] = Label(name[i])
    <2>1. (CHOOSE j \in 1..n : at[j - 1] = at[i - 1]) = i
      BY <1>4
    <2>2. at[i - 1] \in P
      OBVIOUS
    <2> QED
      BY <2>1, <2>2
  <1>8. ASSUME NEW i \in 1..n PROVE Suffix(name, i) \in Q /\ h[Suffix(name, i)] = at[i - 1]
    <2>1. Suffix(name, i) \in Q
      OBVIOUS
    <2>2. Len(name) - Len(Suffix(name, i)) = i - 1
      BY <1>1, <1>5
    <2>3. h[Suffix(name, i)] = at[Len(name) - Len(Suffix(name, i))]
      BY <2>1
    <2> QED
      BY <2>1, <2>2, <2>3
  <1>9. \A p \in DOMAIN b.cells : p \notin P
    <2>1. ASSUME NEW p \in DOMAIN b.cells, NEW i \in 1..n PROVE p # at[i - 1]
      <3>1. p \in Nat /\ p < b.pos
        BY DEF Ends
      <3>2. at[i - 1] \in Nat /\ at[i - 1] >= b.pos
        BY <1>3
      <3> QED
        BY <1>1, <3>1, <3>2
    <2> QED
      BY <2>1
  <1>10. \A s \in DOMAIN b.labels : s \notin Q
    OBVIOUS
  <1> HIDE DEF g, h, w
  <1>11. /\ DOMAIN Over(b.cells, g) = DOMAIN b.cells \cup DOMAIN g
         /\ \A x \in DOMAIN g : Over(b.cells, g)[x] = g[x]
         /\ \A x \in DOMAIN b.cells : x \notin DOMAIN g => Over(b.cells, g)[x] = b.cells[x]
    BY OverFacts
  <1>12. /\ DOMAIN Over(b.labels, h) = DOMAIN b.labels \cup DOMAIN h
         /\ \A x \in DOMAIN h : Over(b.labels, h)[x] = h[x]
         /\ \A x \in DOMAIN b.labels : x \notin DOMAIN h => Over(b.labels, h)[x] = b.labels[x]
    BY OverFacts
  <1>13. /\ DOMAIN w.cells = DOMAIN b.cells \cup P
         /\ \A p \in DOMAIN b.cells : w.cells[p] = b.cells[p]
         /\ \A i \in 1..n : w.cells[at[i - 1]] = Label(name[i])
    <2> HIDE DEF P
    <2> QED
      BY <1>2, <1>6, <1>7, <1>9, <1>11
  <1>14. /\ DOMAIN w.labels = DOMAIN b.labels \cup Q
         /\ \A s \in DOMAIN b.labels : w.labels[s] = b.labels[s]
         /\ \A i \in 1..n : w.labels[Suffix(name, i)] = at[i - 1]
    <2> HIDE DEF Q
    <2> QED
      BY <1>2, <1>6, <1>8, <1>10, <1>12
  <1> QED
    BY <1>2, <1>13, <1>14 DEF at, w, LabelsIn

LEMMA NameWritten ==
    ASSUME NEW b, Ends(b), NEW name \in Seq(Labels)
    PROVE  NameIn(b, name, LabelsWritten(name, Known(b, name)), write_qname(b, name))
  <1> DEFINE n == LabelsWritten(name, Known(b, name))
             at == Positions(b.pos, name)
             v == WithLabels(b, name, n, at)
             cell == IF n = Len(name) THEN End
                     ELSE Pointer(b.labels[Suffix(name, n + 1)] % POINTER_RANGE)
             length == IF n = Len(name) THEN 1 ELSE 2
             w == write_qname(b, name)
  <1>1. Len(name) \in Nat /\ b.pos \in Nat
    BY NameTypes DEF Ends
  <1>2. Known(b, name) \in SUBSET (1..Len(name))
    BY DEF Known
  <1>3. n \in 0..Len(name) /\ (n = Len(name) \/ n + 1 \in Known(b, name)) /\ \A i \in Known(b, name) : n < i
    BY <1>2, LabelsWrittenFacts
  <1>4. w = Put(v, cell, length)
    BY DEF write_qname, Pointer
  <1> HIDE DEF n
  <1>5. n = Len(name) \/ Suffix(name, n + 1) \in DOMAIN b.labels
    BY <1>3 DEF Known
  <1>6. \A i \in 1..n : Suffix(name, i) \notin DOMAIN b.labels
    <2>1. \A i \in 1..n : i \in 1..Len(name) /\ ~(n < i)
      BY <1>1, <1>3
    <2> QED
      BY <1>3, <2>1 DEF Known
  <1>7. /\ DOMAIN v.cells = DOMAIN b.cells \cup {at[i - 1] : i \in 1..n}
        /\ \A p \in DOMAIN b.cells : v.cells[p] = b.cells[p]
        /\ \A i \in 1..n : v.cells[at[i - 1]] = Label(name[i])
        /\ v.pos = at[n]
        /\ DOMAIN v.labels = DOMAIN b.labels \cup {Suffix(name, i) : i \in 1..n}
        /\ \A s \in DOMAIN b.labels : v.labels[s] = b.labels[s]
        /\ \A i \in 1..n : v.labels[Suffix(name, i)] = at[i - 1]
    <2>1. LabelsIn(b, name, n, at, v)
      BY <1>3, <1>6, WithLabelsFacts
    <2> HIDE DEF at, v
    <2> QED
      BY <2>1 DEF LabelsIn
  <1>8. at[n] \in Nat /\ at[n] >= b.pos
    <2>1. at[n] \in Nat /\ at[n] >= b.pos + n
      BY <1>1, <1>3, PositionsShift
    <2> HIDE DEF at
    <2> QED
      BY <1>1, <1>3, <2>1
  <1>9. \A i \in 1..n : at[i - 1] # at[n]
    <2>1. ASSUME NEW i \in 1..n PROVE at[i - 1] < at[n]
      <3>1. i - 1 \in 0..Len(name) /\ i - 1 < n
        BY <1>1, <1>3
      <3> QED
        BY <1>1, <1>3, <3>1, PositionsIncrease
    <2>2. ASSUME NEW i \in 1..n PROVE at[i - 1] \in Nat
      <3>1. i - 1 \in 0..Len(name)
        BY <1>1, <1>3
      <3> QED
        BY <1>1, <3>1, PositionsShift
    <2> HIDE DEF at
    <2> QED
      BY <1>8, <2>1, <2>2
  <1>10. \A p \in DOMAIN b.cells : p # at[n]
    <2> HIDE DEF at
    <2> QED
      BY <1>1, <1>8 DEF Ends
  <1> HIDE DEF at, v, cell, length
  <1>11. /\ IsBuffer(w)
         /\ w.pos = v.pos + length
         /\ w.labels = v.labels
         /\ DOMAIN w.cells = DOMAIN v.cells \cup {v.pos}
         /\ w.cells[v.pos] = cell
         /\ \A p \in DOMAIN v.cells : p # v.pos => w.cells[p] = v.cells[p]
    <2> HIDE DEF w
    <2> QED
      BY <1>4, PutFacts
  <1> HIDE DEF w
  <1>12. DOMAIN w.cells = DOMAIN b.cells \cup {at[i] : i \in 0..n}
    <2>1. {at[i] : i \in 0..n} = {at[i - 1] : i \in 1..n} \cup {at[n]}
      <3>1. ASSUME NEW x \in {at[i] : i \in 0..n} PROVE x \in {at[i - 1] : i \in 1..n} \cup {at[n]}
        <4>1. PICK i \in 0..n : x = at[i]
          OBVIOUS
        <4>2. i # n => i + 1 \in 1..n /\ i + 1 - 1 = i
          BY <1>1, <1>3
        <4> QED
          BY <4>1, <4>2
      <3>2. ASSUME NEW i \in 1..n PROVE i - 1 \in 0..n
        BY <1>1, <1>3
      <3>3. n \in 0..n
        BY <1>1, <1>3
      <3> QED
        BY <3>1, <3>2, <3>3
    <2> QED
      BY <1>7, <1>11, <2>1
  <1>13. \A p \in DOMAIN b.cells : w.cells[p] = b.cells[p]
    BY <1>7, <1>10, <1>11
  <1>14. \A i \in 1..n : w.cells[at[i - 1]] = Label(name[i])
    BY <1>7, <1>9, <1>11
  <1>15. w.cells[at[n]] = cell /\ w.pos = at[n] + length
    BY <1>7, <1>11
  <1>16. /\ DOMAIN w.labels = DOMAIN b.labels \cup {Suffix(name, i) : i \in 1..n}
         /\ \A s \in DOMAIN b.labels : w.labels[s] = b.labels[s]
         /\ \A i \in 1..n : w.labels[Suffix(name, i)] = at[i - 1]
    BY <1>7, <1>11
  <1>17. NameIn(b, name, n, w)
    BY <1>3, <1>5, <1>6, <1>11, <1>12, <1>13, <1>14, <1>15, <1>16 DEF NameIn, at, cell, length
  <1> QED
    BY <1>17 DEF n, w

-----------------------------------------------------------------------------
(* Sound buffers: what a reader finds in a cell is of its type, saved      *)
(* labels are where they are said to be, and pointers lead back.           *)

GoodCell(c) ==
    /\ c.kind = "label" => c.label \in Labels
    /\ c.kind = "pointer" => c.to \in Nat
    /\ c.kind = "meta" => c.type \in Types /\ c.value \in Nat /\ c.data \in Data
    /\ c.kind = "question" => c.type \in Types

LabelsSaved(b) ==
    \A s \in DOMAIN b.labels :
        b.labels[s] \in DOMAIN b.cells /\ b.cells[b.labels[s]].kind \in {"label", "end"}

PointersBack(b) ==
    \A p \in DOMAIN b.cells : b.cells[p].kind = "pointer" =>
        /\ b.cells[p].to < p
        /\ p < POINTER_RANGE => b.cells[p].to \in DOMAIN b.cells
                                /\ b.cells[b.cells[p].to].kind \in {"label", "end"}

Sound(b) ==
    /\ Ends(b)
    /\ \A p \in DOMAIN b.cells : GoodCell(b.cells[p])
    /\ LabelsSaved(b)
    /\ PointersBack(b)

(* What is in a buffer stays there, and what comes is behind it.           *)
Grows(b, w) ==
    /\ DOMAIN b.cells \subseteq DOMAIN w.cells
    /\ \A p \in DOMAIN b.cells : w.cells[p] = b.cells[p]
    /\ \A p \in DOMAIN w.cells : p \notin DOMAIN b.cells => p >= b.pos
    /\ w.pos >= b.pos

MetaCells(b) == {p \in DOMAIN b.cells : b.cells[p].kind = "meta"}

LEMMA SoundPut ==
    ASSUME NEW b, Sound(b), NEW cell, GoodCell(cell), cell.kind # "pointer",
           NEW length \in Nat, length > 0
    PROVE  /\ Sound(Put(b, cell, length)) /\ Grows(b, Put(b, cell, length))
           /\ b.pos \notin DOMAIN b.cells
  <1> DEFINE w == Put(b, cell, length)
  <1>1. /\ w.pos = b.pos + length /\ w.labels = b.labels
        /\ DOMAIN w.cells = DOMAIN b.cells \cup {b.pos} /\ w.cells[b.pos] = cell
        /\ \A p \in DOMAIN b.cells : p # b.pos => w.cells[p] = b.cells[p]
    BY PutFacts
  <1>2. b.pos \in Nat /\ \A p \in DOMAIN b.cells : p \in Nat /\ p < b.pos
    BY DEF Sound, Ends
  <1> HIDE DEF w
  <1>3. \A p \in DOMAIN b.cells : p # b.pos
    BY <1>2
  <1>4. \A p \in DOMAIN b.cells : w.cells[p] = b.cells[p]
    BY <1>1, <1>3
  <1>5. Ends(w) /\ Grows(b, w)
    BY <1>1, <1>2, <1>4 DEF Ends, Grows
  <1>6. \A p \in DOMAIN w.cells : GoodCell(w.cells[p])
    BY <1>1, <1>4 DEF Sound
  <1>7. LabelsSaved(w)
    BY <1>1, <1>4 DEF Sound, LabelsSaved
  <1>8. PointersBack(w)
    BY <1>1, <1>4 DEF Sound, PointersBack
  <1> QED
    BY <1>3, <1>5, <1>6, <1>7, <1>8 DEF Sound, w

LEMMA LabelFacts ==
    ASSUME NEW l \in Labels
    PROVE  /\ GoodCell(Label(l)) /\ Label(l).kind \in {"label", "end"}
           /\ LabelLen[l] > 0 => Label(l) = [kind |-> "label", label |-> l]
  <1>1. LabelLen[l] \in Nat
    BY Lengths
  <1> QED
    BY <1>1 DEF Label, GoodCell, End

LEMMA SoundName ==
    ASSUME NEW b, Sound(b), NEW name \in Seq(Labels)
    PROVE  /\ Sound(write_qname(b, name)) /\ Grows(b, write_qname(b, name))
           /\ MetaCells(write_qname(b, name)) = MetaCells(b)
           /\ IsBuffer(write_qname(b, name))
  <1> DEFINE n == LabelsWritten(name, Known(b, name))
             at == Positions(b.pos, name)
             w == write_qname(b, name)
             cell == IF n = Len(name) THEN End
                     ELSE Pointer(b.labels[Suffix(name, n + 1)] % POINTER_RANGE)
  <1>1. Ends(b) /\ b.pos \in Nat /\ \A p \in DOMAIN b.cells : p \in Nat /\ p < b.pos
    BY DEF Sound, Ends
  <1>2. NameIn(b, name, n, w)
    BY <1>1, NameWritten
  <1>3. Len(name) \in Nat /\ n \in 0..Len(name) /\ n \in Nat
    BY <1>2, NameTypes DEF NameIn
  <1>4. \A i \in 0..n : at[i] \in Nat /\ at[i] >= b.pos
    <2>1. ASSUME NEW i \in 0..n PROVE at[i] \in Nat /\ at[i] >= b.pos
      <3>1. i \in 0..Len(name) /\ i \in Nat
        BY <1>3
      <3>2. at[i] \in Nat /\ at[i] >= b.pos + i
        BY <1>1, <3>1, PositionsShift
      <3> HIDE DEF at
      <3> QED
        BY <1>1, <3>1, <3>2
    <2> QED
      BY <2>1
  <1>5. \A i \in 0..n : at[i] <= at[n]
    <2>1. ASSUME NEW i \in 0..n, i # n PROVE at[i] < at[n]
      <3>1. i \in 0..Len(name) /\ i < n
        BY <1>3, <2>1
      <3> QED
        BY <1>1, <1>3, <3>1, PositionsIncrease
    <2>2. n \in 0..n
      BY <1>3
    <2> HIDE DEF at
    <2>3. ASSUME NEW i \in 0..n PROVE at[i] <= at[n]
      <3>1. at[i] \in Nat /\ at[n] \in Nat
        BY <1>4, <2>2
      <3> QED
        BY <2>1, <3>1
    <2> QED
      BY <2>3
  <1>6. /\ IsBuffer(w)
        /\ DOMAIN w.cells = DOMAIN b.cells \cup {at[i] : i \in 0..n}
        /\ \A p \in DOMAIN b.cells : w.cells[p] = b.cells[p]
        /\ \A i \in 1..n : w.cells[at[i - 1]] = Label(name[i])
        /\ w.cells[at[n]] = cell
        /\ w.pos = at[n] + (IF n = Len(name) THEN 1 ELSE 2)
        /\ DOMAIN w.labels = DOMAIN b.labels \cup {Suffix(name, i) : i \in 1..n}
        /\ \A s \in DOMAIN b.labels : w.labels[s] = b.labels[s]
        /\ \A i \in 1..n : w.labels[Suffix(name, i)] = at[i - 1]
        /\ n = Len(name) \/ Suffix(name, n + 1) \in DOMAIN b.labels
    BY <1>2 DEF NameIn
  <1> HIDE DEF w, at, n
  <1>7. \A i \in 1..n : name[i] \in Labels /\ i - 1 \in 0..n
    BY <1>3, NameTypes
  <1>8. n \in 0..n /\ at[n] \in Nat /\ at[n] >= b.pos
    BY <1>3, <1>4
  <1>9. /\ GoodCell(cell) /\ cell.kind \in {"end", "pointer"}
        /\ cell.kind = "pointer" =>
              /\ cell.to < at[n]
              /\ at[n] < POINTER_RANGE =>
                    cell.to \in DOMAIN b.cells /\ b.cells[cell.to].kind \in {"label", "end"}
    <2>1. CASE n = Len(name)
      BY <2>1 DEF End, GoodCell
    <2>2. CASE n # Len(name)
      <3> DEFINE q == b.labels[Suffix(name, n + 1)]
      <3>1. q \in DOMAIN b.cells /\ b.cells[q].kind \in {"label", "end"}
        BY <1>6, <2>2 DEF Sound, LabelsSaved
      <3>2. q \in Nat /\ q < b.pos
        BY <1>1, <3>1
      <3>3. cell = Pointer(q % POINTER_RANGE)
        BY <2>2
      <3> HIDE DEF q, cell
      <3>4. q % POINTER_RANGE \in Nat /\ q % POINTER_RANGE <= q
            /\ (q < POINTER_RANGE => q % POINTER_RANGE = q)
        BY <3>2 DEF POINTER_RANGE
      <3>5. GoodCell(cell) /\ cell.kind = "pointer" /\ cell.to = q % POINTER_RANGE
        BY <3>3, <3>4 DEF Pointer, GoodCell
      <3>6. q % POINTER_RANGE < at[n] /\ (at[n] < POINTER_RANGE => q < POINTER_RANGE)
        <4>1. q < at[n]
          BY <1>1, <1>8, <3>2
        <4> QED
          BY <1>8, <3>2, <3>4, <4>1 DEF POINTER_RANGE
      <3> QED
        BY <3>1, <3>4, <3>5, <3>6
    <2> QED
      BY <2>1, <2>2
  <1> HIDE DEF cell
  <1>10. ASSUME NEW p \in DOMAIN w.cells, p \notin DOMAIN b.cells
         PROVE  /\ p \in Nat /\ p >= b.pos /\ p < w.pos
                /\ p = at[n] \/ \E i \in 1..n : p = at[i - 1]
    <2>1. PICK i \in 0..n : p = at[i]
      BY <1>6, <1>10
    <2>2. at[i] \in Nat /\ at[i] >= b.pos /\ at[i] <= at[n]
      BY <1>4, <1>5
    <2>3. w.pos \in Nat /\ at[n] < w.pos
      BY <1>6, <1>8
    <2>4. at[i] < w.pos
      BY <1>8, <2>2, <2>3
    <2>5. i # n => i + 1 \in 1..n /\ i + 1 - 1 = i
      BY <1>3
    <2> QED
      BY <2>1, <2>2, <2>4, <2>5
  <1>11. w.pos \in Nat /\ w.pos > b.pos
    BY <1>1, <1>6, <1>8
  <1>12. Grows(b, w)
    BY <1>1, <1>6, <1>10, <1>11 DEF Grows
  <1>13. Ends(w)
    BY <1>1, <1>6, <1>10, <1>11 DEF Ends
  <1>14. ASSUME NEW p \in DOMAIN w.cells, p \notin DOMAIN b.cells
         PROVE  GoodCell(w.cells[p]) /\ (w.cells[p] = cell \/ w.cells[p].kind \in {"label", "end"})
    <2>1. CASE p = at[n]
      BY <1>6, <1>9, <2>1
    <2>2. ASSUME NEW i \in 1..n, p = at[i - 1] PROVE GoodCell(w.cells[p]) /\ w.cells[p].kind \in {"label", "end"}
      BY <1>6, <1>7, <2>2, LabelFacts
    <2> QED
      BY <1>10, <1>14, <2>1, <2>2
  <1>15. \A p \in DOMAIN w.cells : GoodCell(w.cells[p])
    BY <1>6, <1>14 DEF Sound
  <1>16. LabelsSaved(w)
    <2>1. ASSUME NEW s \in DOMAIN b.labels
          PROVE  w.labels[s] \in DOMAIN w.cells /\ w.cells[w.labels[s]].kind \in {"label", "end"}
      BY <1>6 DEF Sound, LabelsSaved
    <2>2. ASSUME NEW i \in 1..n
          PROVE  LET s == Suffix(name, i)
                 IN  w.labels[s] \in DOMAIN w.cells /\ w.cells[w.labels[s]].kind \in {"label", "end"}
      <3>1. w.labels[Suffix(name, i)] = at[i - 1] /\ at[i - 1] \in DOMAIN w.cells
        BY <1>6, <1>7
      <3>2. w.cells[at[i - 1]] = Label(name[i]) /\ name[i] \in Labels
        BY <1>6, <1>7
      <3> QED
        BY <3>1, <3>2, LabelFacts
    <2> QED
      BY <1>6, <2>1, <2>2 DEF LabelsSaved
  <1>17. PointersBack(w)
    <2>1. SUFFICES ASSUME NEW p \in DOMAIN w.cells, w.cells[p].kind = "pointer"
                   PROVE  /\ w.cells[p].to < p
                          /\ p < POINTER_RANGE => w.cells[p].to \in DOMAIN w.cells
                                /\ w.cells[w.cells[p].to].kind \in {"label", "end"}
      BY DEF PointersBack
    <2>2. CASE p \in DOMAIN b.cells
      BY <1>6, <2>1, <2>2 DEF Sound, PointersBack
    <2>3. CASE p \notin DOMAIN b.cells
      <3>1. w.cells[p].kind \notin {"label", "end"}
        BY <2>1
      <3>2. p = at[n]
        <4>1. ASSUME NEW i \in 1..n, p = at[i - 1] PROVE FALSE
          BY <1>6, <1>7, <3>1, <4>1, LabelFacts
        <4> QED
          BY <1>10, <2>3, <4>1
      <3>3. w.cells[p] = cell
        BY <1>6, <3>2
      <3> QED
        BY <1>6, <1>9, <2>1, <3>2, <3>3
    <2> QED
      BY <2>2, <2>3
  <1>18. MetaCells(w) = MetaCells(b)
    <2>1. ASSUME NEW p \in DOMAIN w.cells, p \notin DOMAIN b.cells PROVE w.cells[p].kind # "meta"
      BY <1>9, <1>14, <2>1
    <2> QED
      BY <1>6, <2>1 DEF MetaCells
  <1> QED
    BY <1>6, <1>12, <1>13, <1>15, <1>16, <1>17, <1>18 DEF Sound, w

LEMMA GrowsOn ==
    ASSUME NEW a, NEW b, NEW c, Ends(a), Ends(b), Ends(c), Grows(a, b), Grows(b, c)
    PROVE  Grows(a, c)
  <1>1. a.pos \in Nat /\ b.pos \in Nat /\ c.pos \in Nat
    BY DEF Ends
  <1>2. /\ DOMAIN a.cells \subseteq DOMAIN c.cells
        /\ \A p \in DOMAIN a.cells : c.cells[p] = a.cells[p]
    BY DEF Grows
  <1>3. c.pos >= a.pos
    BY <1>1 DEF Grows
  <1>4. ASSUME NEW p \in DOMAIN c.cells, p \notin DOMAIN a.cells PROVE p >= a.pos
    <2>1. p \in Nat
      BY DEF Ends
    <2>2. CASE p \in DOMAIN b.cells
      BY <1>4, <2>2 DEF Grows
    <2>3. CASE p \notin DOMAIN b.cells
      <3>1. p >= b.pos /\ b.pos >= a.pos
        BY <2>3 DEF Grows
      <3> QED
        BY <1>1, <2>1, <3>1
    <2> QED
      BY <2>2, <2>3
  <1> QED
    BY <1>2, <1>3, <1>4 DEF Grows

LEMMA SkippedFacts ==
    ASSUME NEW b, IsBuffer(b), NEW length
    PROVE  LET w == [b EXCEPT !.pos = @ + length]
           IN  w.cells = b.cells /\ w.labels = b.labels /\ w.pos = b.pos + length
  BY DEF IsBuffer

LEMMA SoundSkipped ==
    ASSUME NEW b, IsBuffer(b), Sound(b), NEW length \in Nat
    PROVE  LET w == [b EXCEPT !.pos = @ + length]
           IN  Sound(w) /\ Grows(b, w) /\ MetaCells(w) = MetaCells(b)
  <1> DEFINE w == [b EXCEPT !.pos = @ + length]
  <1>1. w.cells = b.cells /\ w.labels = b.labels /\ w.pos = b.pos + length
    BY SkippedFacts
  <1> HIDE DEF w
  <1>2. b.pos \in Nat /\ \A p \in DOMAIN b.cells : p \in Nat /\ p < b.pos
    BY DEF Sound, Ends
  <1>3. Ends(w) /\ Grows(b, w)
    BY <1>1, <1>2 DEF Ends, Grows
  <1>4. LabelsSaved(w) /\ PointersBack(w) /\ \A p \in DOMAIN w.cells : GoodCell(w.cells[p])
    BY <1>1 DEF Sound, LabelsSaved, PointersBack
  <1>5. MetaCells(w) = MetaCells(b)
    BY <1>1 DEF MetaCells
  <1> QED
    BY <1>3, <1>4, <1>5 DEF w, Sound

LEMMA NumberTypes ==
    ASSUME NEW type
    PROVE  Fixed(type) \in Nat /\ Behind(type) \in Nat /\ NameCount(type) \in 0..2
  <1>1. Fixed(type) \in {4, 16, 2, 6, 3, 0}
    BY Zenon DEF Fixed
  <1>2. NameCount(type) \in {0, 1, 2}
    BY Zenon DEF NameCount
  <1>3. Behind(type) \in {20, 0}
    BY DEF Behind
  <1> QED
    BY <1>1, <1>2, <1>3

LEMMA RecordTypes ==
    ASSUME NEW r \in DnsRecord
    PROVE  /\ r.type \in Types /\ r.domain \in Seq(Labels) /\ r.value \in Nat
           /\ r.names \in Seq(Names) /\ r.data \in Data
           /\ Len(r.names) \in Nat /\ \A i \in 1..Len(r.names) : r.names[i] \in Seq(Labels)
           /\ Written(r).data \in Data /\ DataLen(Written(r).data) \in Nat
  <1>1. r.type \in Types /\ r.domain \in Names /\ r.value \in Nat /\ r.names \in Seq(Names) /\ r.data \in Data
    BY DEF DnsRecord
  <1>2. Names \subseteq Seq(Labels)
    BY DEF Names
  <1>3. Len(r.names) \in Nat /\ \A i \in 1..Len(r.names) : r.names[i] \in Seq(Labels)
    BY <1>1, <1>2, LenProperties, ElementOfSeq
  <1>4. r.data.body \in DOMAIN BodyLen /\ r.data.prefix \in Nat
        /\ r.data = [body |-> r.data.body, prefix |-> r.data.prefix]
    BY <1>1 DEF Data
  <1>5. Written(r).data \in Data
    <2>1. CASE r.type = "TXT"
      <3>1. Written(r) = [r EXCEPT !.data = [r.data EXCEPT !.prefix = r.data.prefix + 1]]
        BY <2>1 DEF Written
      <3>2. Written(r).data = [r.data EXCEPT !.prefix = r.data.prefix + 1]
        BY <3>1 DEF DnsRecord
      <3>3. r.data.prefix + 1 \in Nat
        BY <1>4
      <3>4. [r.data EXCEPT !.prefix = r.data.prefix + 1] \in Data
        BY <1>1, <3>3 DEF Data
      <3> QED
        BY <3>2, <3>4
    <2>2. CASE r.type # "TXT"
      BY <1>1, <2>2 DEF Written
    <2> QED
      BY <2>1, <2>2
  <1>6. DataLen(Written(r).data) \in Nat
    <2>1. ASSUME NEW d \in Data PROVE DataLen(d) \in Nat
      <3>1. d.body \in DOMAIN BodyLen /\ d.prefix \in Nat
        BY DEF Data
      <3>2. BodyLen[d.body] \in Nat
        BY <3>1, Lengths
      <3> QED
        BY <3>1, <3>2 DEF DataLen
    <2> QED
      BY <1>5, <2>1
  <1> QED
    BY <1>1, <1>2, <1>3, <1>5, <1>6

(* What DnsRecord_write makes of a buffer: the name, the numbers and the   *)
(* data, and the names after them.                                         *)
Meta(r) == [kind |-> "meta", type |-> r.type, value |-> r.value, data |-> Written(r).data]

NamedBy(b, r) == IF r.type = "OPT" THEN Put(b, End, 1) ELSE write_qname(b, r.domain)

MetaLen(r) == META + Fixed(r.type) + DataLen(Written(r).data)

FilledBy(b, r) == Put(NamedBy(b, r), Meta(r), MetaLen(r))

NamesIn(b, r, f) ==
    /\ f[0] = FilledBy(b, r)
    /\ \A i \in 1..Len(r.names) : f[i] = write_qname(f[i - 1], r.names[i])

LEMMA FullExists ==
    ASSUME NEW start, NEW names, NEW N \in Nat
    PROVE  \E f : f = [i \in 0..N |-> IF i = 0 THEN start ELSE write_qname(f[i - 1], names[i])]
  <1> DEFINE Follows(f, m) ==
                f = [i \in 0..m |-> IF i = 0 THEN start ELSE write_qname(f[i - 1], names[i])]
             Missing == {m \in Nat : ~ \E f : Follows(f, m)}
  <1>1. SUFFICES ASSUME Missing # {} PROVE FALSE
    OBVIOUS
  <1>2. PICK m \in Missing : \A y \in Missing : m <= y
    BY <1>1, LeastNatural
  <1>3. m \in Nat
    OBVIOUS
  <1>4. CASE m = 0
    <2>1. Follows([k \in 0..0 |-> start], 0)
      OBVIOUS
    <2> QED
      BY <1>4, <2>1
  <1>5. CASE m # 0
    <2>1. m - 1 \in Nat /\ ~(m <= m - 1)
      BY <1>3, <1>5
    <2>2. PICK g : Follows(g, m - 1)
      BY <1>2, <2>1
    <2> DEFINE f == [k \in 0..m |-> IF k = m THEN write_qname(g[m - 1], names[m]) ELSE g[k]]
    <2>3. \A k \in 0..(m - 1) : g[k] = IF k = 0 THEN start ELSE write_qname(g[k - 1], names[k])
      <3>1. g = [k \in 0..(m - 1) |-> IF k = 0 THEN start ELSE write_qname(g[k - 1], names[k])]
        BY <2>2
      <3> QED
        BY ONLY <3>1
    <2>4. ASSUME NEW k \in 0..m
          PROVE  f[k] = IF k = 0 THEN start ELSE write_qname(f[k - 1], names[k])
      <3>1. CASE k = m
        <4>1. m - 1 \in 0..m /\ m - 1 # m
          BY <2>1, <1>3
        <4>2. f[m - 1] = g[m - 1] /\ f[m] = write_qname(g[m - 1], names[m])
          BY <1>3, <4>1
        <4> QED
          BY <1>5, <3>1, <4>2
      <3>2. CASE k # m
        <4>1. k \in 0..(m - 1) /\ f[k] = g[k]
          BY <1>3, <2>4, <3>2
        <4>2. k # 0 => k - 1 \in 0..m /\ k - 1 # m
          BY <1>3, <2>4
        <4>3. k # 0 => f[k - 1] = g[k - 1]
          BY <4>2
        <4> QED
          BY <2>3, <4>1, <4>3
      <3> QED
        BY <3>1, <3>2
    <2>5. Follows(f, m)
      BY <2>4
    <2> QED
      BY <2>5
  <1> QED
    BY <1>4, <1>5

LEMMA RecordUnfolds ==
    ASSUME NEW b, NEW r \in DnsRecord, r.type # "UNKNOWN"
    PROVE  \E f : /\ NamesIn(b, r, f)
                  /\ DnsRecord_write(b, r) = [f[Len(r.names)] EXCEPT !.pos = @ + Behind(r.type)]
  <1> DEFINE start == FilledBy(b, r)
             f == CHOOSE g : g = [i \in 0..Len(r.names) |->
                                    IF i = 0 THEN start ELSE write_qname(g[i - 1], r.names[i])]
  <1>1. Len(r.names) \in Nat
    BY RecordTypes
  <1>2. DnsRecord_write(b, r) = [f[Len(r.names)] EXCEPT !.pos = @ + Behind(r.type)]
    BY DEF DnsRecord_write, FilledBy, NamedBy, Meta, MetaLen
  <1> HIDE DEF start
  <1>3. f = [i \in 0..Len(r.names) |-> IF i = 0 THEN start ELSE write_qname(f[i - 1], r.names[i])]
    BY <1>1, FullExists
  <1> HIDE DEF f
  <1>4. \A i \in 0..Len(r.names) : f[i] = IF i = 0 THEN start ELSE write_qname(f[i - 1], r.names[i])
    BY ONLY <1>3
  <1>5. 0 \in 0..Len(r.names) /\ \A i \in 1..Len(r.names) : i \in 0..Len(r.names) /\ i # 0
    BY <1>1
  <1>6. f[0] = start /\ \A i \in 1..Len(r.names) : f[i] = write_qname(f[i - 1], r.names[i])
    BY <1>4, <1>5
  <1>7. NamesIn(b, r, f)
    BY <1>6 DEF NamesIn, start
  <1> QED
    BY <1>2, <1>7

LEMMA SoundNamedBy ==
    ASSUME NEW b, Sound(b), NEW r \in DnsRecord
    PROVE  /\ Sound(NamedBy(b, r)) /\ Grows(b, NamedBy(b, r))
           /\ MetaCells(NamedBy(b, r)) = MetaCells(b)
  <1>1. CASE r.type = "OPT"
    <2>1. GoodCell(End) /\ End.kind = "end"
      BY DEF GoodCell, End
    <2>2. Sound(Put(b, End, 1)) /\ Grows(b, Put(b, End, 1)) /\ b.pos \notin DOMAIN b.cells
      BY <2>1, SoundPut
    <2>3. /\ DOMAIN Put(b, End, 1).cells = DOMAIN b.cells \cup {b.pos}
          /\ Put(b, End, 1).cells[b.pos] = End
          /\ \A p \in DOMAIN b.cells : p # b.pos => Put(b, End, 1).cells[p] = b.cells[p]
      BY PutFacts
    <2>4. MetaCells(Put(b, End, 1)) = MetaCells(b)
      BY <2>1, <2>2, <2>3 DEF MetaCells
    <2> QED
      BY <1>1, <2>2, <2>4 DEF NamedBy
  <1>2. CASE r.type # "OPT"
    <2>1. r.domain \in Seq(Labels)
      BY RecordTypes
    <2> QED
      BY <1>2, <2>1, SoundName DEF NamedBy
  <1> QED
    BY <1>1, <1>2

LEMMA MetaFacts ==
    ASSUME NEW r \in DnsRecord
    PROVE  GoodCell(Meta(r)) /\ Meta(r).kind = "meta" /\ MetaLen(r) \in Nat /\ MetaLen(r) > 0
  <1>1. Fixed(r.type) \in Nat /\ DataLen(Written(r).data) \in Nat
    BY NumberTypes, RecordTypes
  <1>2. MetaLen(r) \in Nat /\ MetaLen(r) > 0
    BY <1>1 DEF MetaLen, META
  <1>3. r.type \in Types /\ r.value \in Nat /\ Written(r).data \in Data
    BY RecordTypes
  <1> QED
    BY <1>2, <1>3 DEF Meta, GoodCell

LEMMA SoundFilledBy ==
    ASSUME NEW b, Sound(b), NEW r \in DnsRecord
    PROVE  /\ Sound(FilledBy(b, r)) /\ Grows(b, FilledBy(b, r)) /\ IsBuffer(FilledBy(b, r))
           /\ MetaCells(FilledBy(b, r)) = MetaCells(b) \cup {NamedBy(b, r).pos}
           /\ NamedBy(b, r).pos \notin MetaCells(b)
  <1> DEFINE v == NamedBy(b, r)
             w == FilledBy(b, r)
  <1>1. Sound(v) /\ Grows(b, v) /\ MetaCells(v) = MetaCells(b)
    BY SoundNamedBy
  <1>2. GoodCell(Meta(r)) /\ Meta(r).kind = "meta" /\ MetaLen(r) \in Nat /\ MetaLen(r) > 0
    BY MetaFacts
  <1>3. w = Put(v, Meta(r), MetaLen(r))
    BY DEF FilledBy
  <1> HIDE DEF v, w
  <1>4. Sound(w) /\ Grows(v, w) /\ v.pos \notin DOMAIN v.cells
    BY <1>1, <1>2, <1>3, SoundPut
  <1>5. Grows(b, w)
    BY <1>1, <1>4, GrowsOn DEF Sound
  <1>6. /\ IsBuffer(w)
        /\ DOMAIN w.cells = DOMAIN v.cells \cup {v.pos}
        /\ w.cells[v.pos] = Meta(r)
        /\ \A p \in DOMAIN v.cells : p # v.pos => w.cells[p] = v.cells[p]
    BY <1>3, PutFacts
  <1>7. MetaCells(w) = MetaCells(v) \cup {v.pos} /\ v.pos \notin MetaCells(v)
    BY <1>2, <1>4, <1>6 DEF MetaCells
  <1> QED
    BY <1>1, <1>4, <1>5, <1>6, <1>7 DEF v, w

LEMMA SoundRecord ==
    ASSUME NEW b, Sound(b), NEW r \in DnsRecord
    PROVE  /\ Sound(DnsRecord_write(b, r)) /\ Grows(b, DnsRecord_write(b, r))
           /\ r.type = "UNKNOWN" => DnsRecord_write(b, r) = b
           /\ r.type # "UNKNOWN" =>
                 \E p : p \notin MetaCells(b) /\ MetaCells(DnsRecord_write(b, r)) = MetaCells(b) \cup {p}
  <1>1. CASE r.type = "UNKNOWN"
    <2>1. DnsRecord_write(b, r) = b
      BY <1>1 DEF DnsRecord_write
    <2>2. Ends(b)
      BY DEF Sound
    <2>3. Grows(b, b)
      BY <2>2 DEF Grows, Ends
    <2> QED
      BY <1>1, <2>1, <2>3
  <1>2. CASE r.type # "UNKNOWN"
    <2> DEFINE N == Len(r.names)
               start == FilledBy(b, r)
               w == DnsRecord_write(b, r)
    <2>1. PICK f : NamesIn(b, r, f) /\ w = [f[N] EXCEPT !.pos = @ + Behind(r.type)]
      BY <1>2, RecordUnfolds
    <2>2. N \in Nat /\ \A i \in 1..N : r.names[i] \in Seq(Labels)
      BY RecordTypes
    <2>3. /\ Sound(start) /\ Grows(b, start) /\ IsBuffer(start)
          /\ MetaCells(start) = MetaCells(b) \cup {NamedBy(b, r).pos}
          /\ NamedBy(b, r).pos \notin MetaCells(b)
      BY SoundFilledBy
    <2>4. f[0] = start /\ \A i \in 1..N : f[i] = write_qname(f[i - 1], r.names[i])
      BY <2>1 DEF NamesIn
    <2> HIDE DEF start, w, N
    <2> DEFINE Good(x) == Sound(x) /\ Grows(b, x) /\ IsBuffer(x) /\ MetaCells(x) = MetaCells(start)
               Bad == {i \in 0..N : ~Good(f[i])}
    <2>5. Bad = {}
      <3>1. SUFFICES ASSUME Bad # {} PROVE FALSE
        OBVIOUS
      <3>2. PICK m \in Bad : \A y \in Bad : m <= y
        <4>1. Bad \in SUBSET Nat
          BY <2>2
        <4> HIDE DEF Bad
        <4> QED
          BY <3>1, <4>1, LeastNatural
      <3>3. m \in 0..N /\ ~Good(f[m])
        OBVIOUS
      <3>4. m # 0
        BY <2>3, <2>4, <3>3
      <3>5. m - 1 \in 0..N /\ ~(m <= m - 1) /\ m \in 1..N
        BY <2>2, <3>3, <3>4
      <3>6. Good(f[m - 1])
        BY <3>2, <3>5
      <3>7. f[m] = write_qname(f[m - 1], r.names[m]) /\ r.names[m] \in Seq(Labels)
        BY <2>2, <2>4, <3>5
      <3>8. /\ Sound(f[m]) /\ Grows(f[m - 1], f[m]) /\ IsBuffer(f[m])
            /\ MetaCells(f[m]) = MetaCells(f[m - 1])
        BY <3>6, <3>7, SoundName
      <3>9. Grows(b, f[m])
        BY <3>6, <3>8, GrowsOn DEF Sound
      <3> QED
        BY <3>3, <3>6, <3>8, <3>9
    <2>6. Good(f[N])
      BY <2>2, <2>5
    <2>7. Behind(r.type) \in Nat
      BY NumberTypes
    <2>8. Sound(w) /\ Grows(f[N], w) /\ MetaCells(w) = MetaCells(f[N])
      BY <2>1, <2>6, <2>7, SoundSkipped
    <2>9. Grows(b, w)
      BY <2>6, <2>8, GrowsOn DEF Sound
    <2> QED
      BY <1>2, <2>3, <2>6, <2>8, <2>9 DEF w
  <1> QED
    BY <1>1, <1>2

-----------------------------------------------------------------------------
(* Questions.                                                              *)

LEMMA QuestionTypes ==
    ASSUME NEW p \in DnsPacket
    PROVE  /\ Len(p.questions) \in 0..1
           /\ p.questions = <<>> <=> Len(p.questions) = 0
           /\ p.questions # <<>> =>
                 /\ p.questions[1] \in DnsQuestion
                 /\ p.questions[1].name \in Names /\ p.questions[1].name \in Seq(Labels)
                 /\ p.questions[1].type \in Types
  <1>1. p.questions \in Seq(DnsQuestion) /\ Len(p.questions) <= 1
    BY DEF DnsPacket
  <1>2. Len(p.questions) \in Nat /\ Len(<<>>) = 0 /\ (p.questions # <<>> => Len(p.questions) # 0)
    BY <1>1, LenProperties, EmptySeq
  <1>3. p.questions # <<>> => 1 \in 1..Len(p.questions)
    BY <1>2
  <1>4. p.questions # <<>> => p.questions[1] \in DnsQuestion
    BY <1>1, <1>3, ElementOfSeq
  <1>5. \A q \in DnsQuestion : q.name \in Names /\ q.name \in Seq(Labels) /\ q.type \in Types
    BY DEF DnsQuestion, Names
  <1>6. Len(p.questions) \in 0..1
    <2>1. \A n \in Nat : n <= 1 => n \in 0..1
      OBVIOUS
    <2> QED
      BY <1>1, <1>2, <2>1
  <1>7. p.questions = <<>> <=> Len(p.questions) = 0
    BY <1>2
  <1> QED
    BY <1>4, <1>5, <1>6, <1>7

LEMMA QuestionCellFacts ==
    ASSUME NEW type \in Types
    PROVE  /\ GoodCell([kind |-> "question", type |-> type])
           /\ [kind |-> "question", type |-> type].kind = "question"
  BY DEF GoodCell

LEMMA SoundQuestion ==
    ASSUME NEW b, Sound(b), NEW p \in DnsPacket
    PROVE  /\ Sound(WriteQuestion(b, p)) /\ Grows(b, WriteQuestion(b, p))
           /\ MetaCells(WriteQuestion(b, p)) = MetaCells(b)
  <1>1. CASE p.questions = <<>>
    <2>1. WriteQuestion(b, p) = b
      BY <1>1 DEF WriteQuestion
    <2>2. Grows(b, b)
      BY DEF Grows, Ends, Sound
    <2> QED
      BY <2>1, <2>2
  <1>2. CASE p.questions # <<>>
    <2> DEFINE q == p.questions[1]
               cell == [kind |-> "question", type |-> q.type]
               v == write_qname(b, q.name)
               w == WriteQuestion(b, p)
    <2>1. q.name \in Seq(Labels) /\ q.type \in Types
      BY <1>2, QuestionTypes
    <2>2. w = Put(v, cell, QUESTION_META)
      BY <1>2 DEF WriteQuestion, question_write
    <2>3. GoodCell(cell) /\ cell.kind = "question"
      BY <2>1, QuestionCellFacts
    <2>4. Sound(v) /\ Grows(b, v) /\ MetaCells(v) = MetaCells(b)
      BY <2>1, SoundName
    <2> HIDE DEF q, cell, v, w
    <2>5. QUESTION_META \in Nat /\ QUESTION_META > 0
      BY DEF QUESTION_META
    <2>6. Sound(w) /\ Grows(v, w) /\ v.pos \notin DOMAIN v.cells
      BY <2>2, <2>3, <2>4, <2>5, SoundPut
    <2>7. /\ DOMAIN w.cells = DOMAIN v.cells \cup {v.pos} /\ w.cells[v.pos] = cell
          /\ \A x \in DOMAIN v.cells : x # v.pos => w.cells[x] = v.cells[x]
      BY <2>2, PutFacts
    <2>8. MetaCells(w) = MetaCells(v)
      BY <2>3, <2>6, <2>7 DEF MetaCells
    <2>9. Grows(b, w)
      BY <2>4, <2>6, GrowsOn DEF Sound
    <2> QED
      BY <2>4, <2>6, <2>8, <2>9 DEF w
  <1> QED
    BY <1>1, <1>2

LEMMA SoundEmpty == Sound(EmptyBuffer) /\ MetaCells(EmptyBuffer) = {} /\ IsBuffer(EmptyBuffer)
  BY DEF EmptyBuffer, Sound, Ends, LabelsSaved, PointersBack, MetaCells, IsBuffer

-----------------------------------------------------------------------------
(* Reading a name, whatever is in the buffer.                              *)

Statuses == {"ok", "failed", "garbage"}

LoopStates ==
    [at : Nat, name : Seq(Labels), jumped : BOOLEAN, pos : Nat, status : Statuses \cup {"reading"}]

LEMMA OutcomeTypes == \A kind : Outcome(kind) \in Statuses /\ Outcome(kind) # "ok"
  BY DEF Outcome, Statuses

LEMMA CellTypes ==
    ASSUME NEW b, Sound(b), NEW p, NEW t
    PROVE  GoodCell(Cell(b, p, t))
  BY DEF Cell, GoodCell, Sound

LEMMA RoundCases ==
    ASSUME NEW s, NEW c
    PROVE  /\ s.status # "reading" => Round(s, c) = s
           /\ s.status = "reading" /\ c.kind = "label" /\ LabelLen[c.label] < LABEL_RANGE =>
                 Round(s, c) = PastLabel(s, c.label)
           /\ s.status = "reading" /\ c.kind = "pointer" => Round(s, c) = Jump(s, c.to)
           /\ s.status = "reading" /\ c.kind \in {"end", "zero"} => Round(s, c) = AtEnd(s)
           /\ s.status = "reading" /\ c.kind \notin {"pointer", "end", "zero"}
                 /\ ~(c.kind = "label" /\ LabelLen[c.label] < LABEL_RANGE) =>
                 Round(s, c) = Loop(s.at, s.name, s.jumped, s.pos, Outcome(c.kind))
  <1>1. s.status # "reading" => Round(s, c) = s
    BY Zenon DEF Round
  <1>2. s.status = "reading" /\ c.kind = "label" /\ LabelLen[c.label] < LABEL_RANGE =>
                 Round(s, c) = PastLabel(s, c.label)
    BY Zenon DEF Round
  <1>3. s.status = "reading" /\ c.kind = "pointer" => Round(s, c) = Jump(s, c.to)
    BY Zenon DEF Round
  <1>4. s.status = "reading" /\ c.kind \in {"end", "zero"} => Round(s, c) = AtEnd(s)
    BY Zenon DEF Round
  <1>5. s.status = "reading" /\ c.kind \notin {"pointer", "end", "zero"}
                 /\ ~(c.kind = "label" /\ LabelLen[c.label] < LABEL_RANGE) =>
                 Round(s, c) = Loop(s.at, s.name, s.jumped, s.pos, Outcome(c.kind))
    BY Zenon DEF Round
  <1> QED
    BY <1>1, <1>2, <1>3, <1>4, <1>5

LEMMA StateFields ==
    ASSUME NEW s \in LoopStates
    PROVE  /\ s.at \in Nat /\ s.name \in Seq(Labels) /\ s.jumped \in BOOLEAN /\ s.pos \in Nat
           /\ s.status \in Statuses \cup {"reading"}
  BY DEF LoopStates

LEMMA LoopFields ==
    ASSUME NEW at, NEW name, NEW jumped, NEW here, NEW status
    PROVE  /\ Loop(at, name, jumped, here, status).at = at
           /\ Loop(at, name, jumped, here, status).name = name
           /\ Loop(at, name, jumped, here, status).jumped = jumped
           /\ Loop(at, name, jumped, here, status).pos = here
           /\ Loop(at, name, jumped, here, status).status = status
  BY DEF Loop

LEMMA LoopTypes ==
    ASSUME NEW at \in Nat, NEW name \in Seq(Labels), NEW jumped \in BOOLEAN, NEW here \in Nat,
           NEW status \in Statuses \cup {"reading"}
    PROVE  Loop(at, name, jumped, here, status) \in LoopStates
  BY DEF Loop, LoopStates

LEMMA RoundTypes ==
    ASSUME NEW s \in LoopStates, NEW c, GoodCell(c)
    PROVE  Round(s, c) \in LoopStates
  <1>1. /\ s.at \in Nat /\ s.name \in Seq(Labels) /\ s.jumped \in BOOLEAN /\ s.pos \in Nat
        /\ s.status \in Statuses \cup {"reading"} /\ "reading" \in Statuses \cup {"reading"}
        /\ "ok" \in Statuses \cup {"reading"}
    BY StateFields DEF Statuses
  <1>2. CASE s.status # "reading"
    BY <1>2, RoundCases
  <1>3. CASE s.status = "reading" /\ c.kind = "label" /\ LabelLen[c.label] < LABEL_RANGE
    <2>1. c.label \in Labels
      BY <1>3 DEF GoodCell
    <2>2. LabelLen[c.label] \in Nat /\ Lower[c.label] \in Labels
      BY <2>1, Lengths
    <2>3. s.at + 1 + LabelLen[c.label] \in Nat
      BY <1>1, <2>2
    <2>4. Append(s.name, Lower[c.label]) \in Seq(Labels)
      BY <1>1, <2>2, AppendProperties
    <2>5. PastLabel(s, c.label) \in LoopStates
      BY <1>1, <2>3, <2>4, LoopTypes DEF PastLabel
    <2> QED
      BY <1>3, <2>5, RoundCases
  <1>4. CASE s.status = "reading" /\ c.kind = "pointer"
    <2>1. c.to \in Nat
      BY <1>4 DEF GoodCell
    <2>2. (IF s.jumped THEN s.pos ELSE s.at + 2) \in Nat /\ TRUE \in BOOLEAN
      BY <1>1
    <2>3. Jump(s, c.to) \in LoopStates
      BY <1>1, <2>1, <2>2, LoopTypes DEF Jump
    <2> QED
      BY <1>4, <2>3, RoundCases
  <1>5. CASE s.status = "reading" /\ c.kind \in {"end", "zero"}
    <2>1. (IF s.jumped THEN s.pos ELSE s.at + 1) \in Nat
      BY <1>1
    <2>2. AtEnd(s) \in LoopStates
      BY <1>1, <2>1, LoopTypes DEF AtEnd
    <2> QED
      BY <1>5, <2>2, RoundCases
  <1>6. CASE /\ s.status = "reading" /\ c.kind \notin {"pointer", "end", "zero"}
             /\ ~(c.kind = "label" /\ LabelLen[c.label] < LABEL_RANGE)
    <2>1. Outcome(c.kind) \in Statuses \cup {"reading"}
      BY OutcomeTypes
    <2>2. Loop(s.at, s.name, s.jumped, s.pos, Outcome(c.kind)) \in LoopStates
      BY <1>1, <2>1, LoopTypes
    <2> QED
      BY <1>6, <2>2, RoundCases
  <1> QED
    BY <1>2, <1>3, <1>4, <1>5, <1>6

LEMMA LoopExists ==
    ASSUME NEW b, NEW start, NEW t, NEW N \in Nat
    PROVE  \E f : f = [k \in 0..N |-> IF k = 0 THEN start ELSE Round(f[k - 1], Cell(b, f[k - 1].at, t))]
  <1> DEFINE Step(s) == Round(s, Cell(b, s.at, t))
             Follows(f, m) == f = [k \in 0..m |-> IF k = 0 THEN start ELSE Step(f[k - 1])]
             Missing == {m \in Nat : ~ \E f : Follows(f, m)}
  <1> HIDE DEF Step
  <1>0. SUFFICES Missing = {}
    <2>1. ASSUME Missing = {} PROVE \E f : Follows(f, N)
      BY <2>1
    <2> QED
      BY <2>1 DEF Step
  <1>1. SUFFICES ASSUME Missing # {} PROVE FALSE
    OBVIOUS
  <1>2. PICK m \in Missing : \A y \in Missing : m <= y
    BY <1>1, LeastNatural
  <1>3. m \in Nat
    OBVIOUS
  <1>4. CASE m = 0
    <2>1. Follows([k \in 0..0 |-> start], 0)
      OBVIOUS
    <2> QED
      BY <1>4, <2>1
  <1>5. CASE m # 0
    <2>1. m - 1 \in Nat /\ ~(m <= m - 1)
      BY <1>3, <1>5
    <2>2. PICK g : Follows(g, m - 1)
      BY <1>2, <2>1
    <2> DEFINE f == [k \in 0..m |-> IF k = m THEN Step(g[m - 1]) ELSE g[k]]
    <2>3. \A k \in 0..(m - 1) : g[k] = IF k = 0 THEN start ELSE Step(g[k - 1])
      <3>1. g = [k \in 0..(m - 1) |-> IF k = 0 THEN start ELSE Step(g[k - 1])]
        BY <2>2
      <3> QED
        BY ONLY <3>1
    <2>4. ASSUME NEW k \in 0..m
          PROVE  f[k] = IF k = 0 THEN start ELSE Step(f[k - 1])
      <3>1. CASE k = m
        <4>1. m - 1 \in 0..m /\ m - 1 # m
          BY <2>1, <1>3
        <4>2. f[m - 1] = g[m - 1] /\ f[m] = Step(g[m - 1])
          BY <1>3, <4>1
        <4> QED
          BY <1>5, <3>1, <4>2
      <3>2. CASE k # m
        <4>1. k \in 0..(m - 1) /\ f[k] = g[k]
          BY <1>3, <2>4, <3>2
        <4>2. k # 0 => k - 1 \in 0..m /\ k - 1 # m
          BY <1>3, <2>4
        <4>3. k # 0 => f[k - 1] = g[k - 1]
          BY <4>2
        <4> QED
          BY <2>3, <4>1, <4>3
      <3> QED
        BY <3>1, <3>2
    <2>5. Follows(f, m)
      BY <2>4
    <2> QED
      BY <2>5
  <1> QED
    BY <1>4, <1>5

LEMMA RoundsFacts ==
    ASSUME NEW b, Ends(b)
    PROVE  /\ IsFiniteSet(DOMAIN b.cells) /\ Cardinality(DOMAIN b.cells) \in Nat
           /\ Rounds(b) \in Nat /\ Rounds(b) = Cardinality(DOMAIN b.cells) + 1
  <1>1. b.pos \in Nat /\ \A p \in DOMAIN b.cells : p \in Nat /\ p <= b.pos
    BY DEF Ends
  <1>2. DOMAIN b.cells \in SUBSET Nat
    BY <1>1
  <1>3. IsFiniteSet(DOMAIN b.cells)
    BY <1>1, <1>2, FS_BoundedSetOfNaturals
  <1>4. Cardinality(DOMAIN b.cells) \in Nat
    BY <1>3, FS_CardinalityType
  <1> QED
    BY <1>3, <1>4 DEF Rounds

(* The states of the loop of read_qname.                                   *)
Reads(b, start, t, f) ==
    /\ f[0] = Loop(start, <<>>, FALSE, start, "reading")
    /\ \A k \in 1..Rounds(b) : f[k] = Round(f[k - 1], Cell(b, f[k - 1].at, t))

LEMMA ReadUnfolds ==
    ASSUME NEW b, Ends(b), NEW start, NEW t
    PROVE  \E f : Reads(b, start, t, f) /\ read_qname(b, start, t) = NameRead(f[Rounds(b)])
  <1> DEFINE first == Loop(start, <<>>, FALSE, start, "reading")
             N == Rounds(b)
             f == CHOOSE g : g = [k \in 0..N |->
                        IF k = 0 THEN first ELSE Round(g[k - 1], Cell(b, g[k - 1].at, t))]
  <1>1. N \in Nat
    BY RoundsFacts
  <1>2. read_qname(b, start, t) = NameRead(f[N])
    BY DEF read_qname
  <1> HIDE DEF first, N
  <1>3. f = [k \in 0..N |-> IF k = 0 THEN first ELSE Round(f[k - 1], Cell(b, f[k - 1].at, t))]
    BY <1>1, LoopExists
  <1> HIDE DEF f
  <1>4. \A k \in 0..N : f[k] = IF k = 0 THEN first ELSE Round(f[k - 1], Cell(b, f[k - 1].at, t))
    BY ONLY <1>3
  <1>5. 0 \in 0..N /\ \A k \in 1..N : k \in 0..N /\ k # 0
    BY <1>1
  <1>6. f[0] = first /\ \A k \in 1..N : f[k] = Round(f[k - 1], Cell(b, f[k - 1].at, t))
    BY <1>4, <1>5
  <1>7. Reads(b, start, t, f)
    BY <1>6 DEF Reads, first, N
  <1> QED
    BY <1>2, <1>7 DEF N

LEMMA LoopKeepsTypes ==
    ASSUME NEW b, Sound(b), NEW start \in Nat, NEW t, NEW f, Reads(b, start, t, f)
    PROVE  \A k \in 0..Rounds(b) : f[k] \in LoopStates
  <1> DEFINE N == Rounds(b)
             Bad == {k \in 0..N : f[k] \notin LoopStates}
  <1>1. N \in Nat
    BY RoundsFacts DEF Sound
  <1>2. f[0] \in LoopStates
    <2>1. <<>> \in Seq(Labels) /\ FALSE \in BOOLEAN /\ "reading" \in Statuses \cup {"reading"}
      BY EmptySeq
    <2>2. Loop(start, <<>>, FALSE, start, "reading") \in LoopStates
      BY <2>1, LoopTypes
    <2> QED
      BY <2>2 DEF Reads
  <1>3. \A k \in 1..N : f[k] = Round(f[k - 1], Cell(b, f[k - 1].at, t))
    BY DEF Reads
  <1> HIDE DEF N
  <1>4. Bad = {}
    <2>1. SUFFICES ASSUME Bad # {} PROVE FALSE
      OBVIOUS
    <2>2. PICK m \in Bad : \A y \in Bad : m <= y
      <3>1. Bad \in SUBSET Nat
        BY <1>1
      <3> HIDE DEF Bad
      <3> QED
        BY <2>1, <3>1, LeastNatural
    <2>3. m \in 0..N /\ f[m] \notin LoopStates
      OBVIOUS
    <2>4. m # 0
      BY <1>2, <2>3
    <2>5. m - 1 \in 0..N /\ ~(m <= m - 1) /\ m \in 1..N
      BY <1>1, <2>3, <2>4
    <2>6. f[m - 1] \in LoopStates
      BY <2>2, <2>5
    <2>7. GoodCell(Cell(b, f[m - 1].at, t))
      BY CellTypes
    <2>8. f[m] = Round(f[m - 1], Cell(b, f[m - 1].at, t))
      BY <1>3, <2>5
    <2>9. f[m] \in LoopStates
      BY <2>6, <2>7, <2>8, RoundTypes
    <2> QED
      BY <2>3, <2>9
  <1> QED
    BY <1>4 DEF N

LEMMA OneElement ==
    ASSUME NEW S, NEW e \in S
    PROVE  <<e>> \in Seq(S) /\ Len(<<e>>) = 1 /\ <<e>>[1] = e /\ <<e>> # <<>>
  OBVIOUS

LEMMA RootFacts == Root \in Names /\ Root \in Seq(Labels) /\ Lower[""] = ""
  <1>1. "" \in Labels /\ Lower[""] = ""
    BY WireAssumption
  <1>2. Root \in Seq(Labels) /\ Root # <<>>
    BY <1>1, OneElement DEF Root
  <1> QED
    BY <1>1, <1>2 DEF Names

LEMMA ReadTypes ==
    ASSUME NEW b, Sound(b), NEW start \in Nat, NEW t
    PROVE  LET q == read_qname(b, start, t)
           IN  q.status \in Statuses /\ q.name \in Names /\ q.pos \in Nat
  <1>1. PICK f : Reads(b, start, t, f) /\ read_qname(b, start, t) = NameRead(f[Rounds(b)])
    BY ReadUnfolds DEF Sound
  <1>2. Rounds(b) \in Nat
    BY RoundsFacts DEF Sound
  <1>3. f[Rounds(b)] \in LoopStates
    <2>1. Rounds(b) \in 0..Rounds(b)
      BY <1>2
    <2> QED
      BY <1>1, <2>1, LoopKeepsTypes
  <1> DEFINE s == f[Rounds(b)]
  <1>4. s.name \in Seq(Labels) /\ s.pos \in Nat /\ s.status \in Statuses \cup {"reading"}
    BY <1>3, StateFields
  <1>5. read_qname(b, start, t) = NameRead(s)
    BY <1>1
  <1> HIDE DEF s
  <1>6. NameRead(s).status \in Statuses
    BY <1>4 DEF NameRead, Statuses
  <1>7. NameRead(s).name \in Names /\ NameRead(s).pos \in Nat
    BY <1>4, RootFacts DEF NameRead, Names
  <1> QED
    BY <1>5, <1>6, <1>7

(* Reading the names of a record.                                          *)
LEMMA NamesExist ==
    ASSUME NEW b, NEW start, NEW t, NEW N \in Nat
    PROVE  \E f : f = [i \in 0..N |-> IF i = 0 THEN start ELSE read_qname(b, f[i - 1].pos, t)]
  <1> DEFINE Step(s) == read_qname(b, s.pos, t)
             Follows(f, m) == f = [k \in 0..m |-> IF k = 0 THEN start ELSE Step(f[k - 1])]
             Missing == {m \in Nat : ~ \E f : Follows(f, m)}
  <1> HIDE DEF Step
  <1>0. SUFFICES Missing = {}
    <2>1. ASSUME Missing = {} PROVE \E f : Follows(f, N)
      BY <2>1
    <2> QED
      BY <2>1 DEF Step
  <1>1. SUFFICES ASSUME Missing # {} PROVE FALSE
    OBVIOUS
  <1>2. PICK m \in Missing : \A y \in Missing : m <= y
    BY <1>1, LeastNatural
  <1>3. m \in Nat
    OBVIOUS
  <1>4. CASE m = 0
    <2>1. Follows([k \in 0..0 |-> start], 0)
      OBVIOUS
    <2> QED
      BY <1>4, <2>1
  <1>5. CASE m # 0
    <2>1. m - 1 \in Nat /\ ~(m <= m - 1)
      BY <1>3, <1>5
    <2>2. PICK g : Follows(g, m - 1)
      BY <1>2, <2>1
    <2> DEFINE f == [k \in 0..m |-> IF k = m THEN Step(g[m - 1]) ELSE g[k]]
    <2>3. \A k \in 0..(m - 1) : g[k] = IF k = 0 THEN start ELSE Step(g[k - 1])
      <3>1. g = [k \in 0..(m - 1) |-> IF k = 0 THEN start ELSE Step(g[k - 1])]
        BY <2>2
      <3> QED
        BY ONLY <3>1
    <2>4. ASSUME NEW k \in 0..m
          PROVE  f[k] = IF k = 0 THEN start ELSE Step(f[k - 1])
      <3>1. CASE k = m
        <4>1. m - 1 \in 0..m /\ m - 1 # m
          BY <2>1, <1>3
        <4>2. f[m - 1] = g[m - 1] /\ f[m] = Step(g[m - 1])
          BY <1>3, <4>1
        <4> QED
          BY <1>5, <3>1, <4>2
      <3>2. CASE k # m
        <4>1. k \in 0..(m - 1) /\ f[k] = g[k]
          BY <1>3, <2>4, <3>2
        <4>2. k # 0 => k - 1 \in 0..m /\ k - 1 # m
          BY <1>3, <2>4
        <4>3. k # 0 => f[k - 1] = g[k - 1]
          BY <4>2
        <4> QED
          BY <2>3, <4>1, <4>3
      <3> QED
        BY <3>1, <3>2
    <2>5. Follows(f, m)
      BY <2>4
    <2> QED
      BY <2>5
  <1> QED
    BY <1>4, <1>5

LEMMA ReadNamesUnfolds ==
    ASSUME NEW b, NEW start, NEW n \in Nat, NEW t
    PROVE  LET f == ReadNames(b, start, n, t)
           IN  /\ f[0] = [status |-> "ok", pos |-> start]
               /\ \A i \in 1..n : f[i] = read_qname(b, f[i - 1].pos, t)
  <1> DEFINE first == [status |-> "ok", pos |-> start]
             f == ReadNames(b, start, n, t)
  <1>1. f = CHOOSE g : g = [i \in 0..n |-> IF i = 0 THEN first ELSE read_qname(b, g[i - 1].pos, t)]
    BY DEF ReadNames
  <1> HIDE DEF first, f
  <1>2. f = [i \in 0..n |-> IF i = 0 THEN first ELSE read_qname(b, f[i - 1].pos, t)]
    BY <1>1, NamesExist
  <1>3. \A i \in 0..n : f[i] = IF i = 0 THEN first ELSE read_qname(b, f[i - 1].pos, t)
    BY ONLY <1>2
  <1>4. 0 \in 0..n /\ \A i \in 1..n : i \in 0..n /\ i # 0
    OBVIOUS
  <1>5. f[0] = first /\ \A i \in 1..n : f[i] = read_qname(b, f[i - 1].pos, t)
    BY <1>3, <1>4
  <1> QED
    BY <1>5 DEF first, f

LEMMA ReadNamesTypes ==
    ASSUME NEW b, Sound(b), NEW start \in Nat, NEW n \in 0..2, NEW t
    PROVE  LET f == ReadNames(b, start, n, t)
           IN  /\ \A i \in 0..n : f[i].status \in Statuses /\ f[i].pos \in Nat
               /\ \A i \in 1..n : f[i].name \in Names
  <1> DEFINE f == ReadNames(b, start, n, t)
  <1>1. /\ f[0] = [status |-> "ok", pos |-> start]
        /\ \A i \in 1..n : f[i] = read_qname(b, f[i - 1].pos, t)
    BY ReadNamesUnfolds
  <1> HIDE DEF f
  <1>2. f[0].status \in Statuses /\ f[0].pos \in Nat
    BY <1>1 DEF Statuses
  <1>3. ASSUME n >= 1 PROVE f[1].status \in Statuses /\ f[1].pos \in Nat /\ f[1].name \in Names
    <2>1. 1 \in 1..n /\ 1 - 1 = 0
      BY <1>3
    <2>2. f[1] = read_qname(b, f[0].pos, t)
      BY <1>1, <2>1
    <2> QED
      BY <1>2, <2>2, ReadTypes
  <1>4. ASSUME n = 2 PROVE f[2].status \in Statuses /\ f[2].pos \in Nat /\ f[2].name \in Names
    <2>1. 2 \in 1..n /\ 2 - 1 = 1 /\ n >= 1
      BY <1>4
    <2>2. f[2] = read_qname(b, f[1].pos, t)
      BY <1>1, <2>1
    <2> QED
      BY <1>3, <2>1, <2>2, ReadTypes
  <1>5. /\ \A i \in 0..n : i = 0 \/ (i = 1 /\ n >= 1) \/ (i = 2 /\ n = 2)
        /\ \A i \in 1..n : (i = 1 /\ n >= 1) \/ (i = 2 /\ n = 2)
    OBVIOUS
  <1>6. /\ \A i \in 0..n : f[i].status \in Statuses /\ f[i].pos \in Nat
        /\ \A i \in 1..n : f[i].name \in Names
    BY <1>2, <1>3, <1>4, <1>5
  <1> QED
    BY <1>6 DEF f

LEMMA SequenceOf ==
    ASSUME NEW S, NEW n \in Nat, NEW f \in [1..n -> S]
    PROVE  f \in Seq(S) /\ Len(f) = n
  OBVIOUS

(* What the reader makes of a record is a record.                          *)
TheRecord(domain, meta, names, n) ==
    [type |-> meta.type, domain |-> domain.name, value |-> meta.value,
     names |-> [i \in 1..n |-> names[i].name], data |-> from_utf8_lossy(meta.type, meta.data)]

LEMMA LossyTypes ==
    ASSUME NEW type, NEW data \in Data
    PROVE  from_utf8_lossy(type, data) \in Data
  <1>1. data.prefix + 2 \in Nat
    BY DEF Data
  <1>2. [data EXCEPT !.prefix = data.prefix + 2] \in Data
    BY <1>1 DEF Data
  <1> QED
    BY <1>2 DEF from_utf8_lossy

LEMMA TheRecordTypes ==
    ASSUME NEW domain, domain.name \in Names,
           NEW meta, meta.type \in Types, meta.value \in Nat, meta.data \in Data,
           NEW names, \A i \in 1..NameCount(meta.type) : names[i].name \in Names
    PROVE  TheRecord(domain, meta, names, NameCount(meta.type)) \in DnsRecord
  <1> DEFINE n == NameCount(meta.type)
             g == [i \in 1..n |-> names[i].name]
             r == TheRecord(domain, meta, names, n)
             e == from_utf8_lossy(meta.type, meta.data)
  <1>0. e \in Data
    BY LossyTypes
  <1>1. n \in Nat
    BY NumberTypes
  <1>2. g \in [1..n -> Names]
    OBVIOUS
  <1>3. r = [type |-> meta.type, domain |-> domain.name, value |-> meta.value, names |-> g, data |-> e]
    BY DEF TheRecord
  <1> HIDE DEF g, r, n, e
  <1>4. g \in Seq(Names) /\ Len(g) = n
    BY <1>1, <1>2, SequenceOf
  <1>5. r \in [type : Types, domain : Names, value : Nat, names : Seq(Names), data : Data]
    BY <1>0, <1>3, <1>4
  <1>6. r.names = g /\ r.type = meta.type
    BY <1>3
  <1>7. r \in DnsRecord
    BY <1>4, <1>5, <1>6 DEF DnsRecord, n
  <1> QED
    BY <1>7 DEF r, n

GoodRead(q) == q.status \in Statuses /\ (q.status = "ok" => q.pos \in Nat /\ q.record \in DnsRecord)

LEMMA RecordOfTypes ==
    ASSUME NEW domain, domain.name \in Names,
           NEW meta, meta.type \in Types, meta.value \in Nat, meta.data \in Data,
           NEW names, NEW t,
           \A i \in 0..NameCount(meta.type) : names[i].status \in Statuses /\ names[i].pos \in Nat,
           \A i \in 1..NameCount(meta.type) : names[i].name \in Names
    PROVE  GoodRead(RecordOf(domain, meta, names, NameCount(meta.type), t))
  <1> DEFINE n == NameCount(meta.type)
             q == RecordOf(domain, meta, names, n, t)
             r == TheRecord(domain, meta, names, n)
  <1>1. n \in Nat /\ n \in 0..n /\ Behind(meta.type) \in Nat
    BY NumberTypes
  <1>2. CASE Refused(meta, names[n].pos, t)
    <2>1. q = [status |-> "failed"]
      BY <1>2 DEF RecordOf
    <2>2. q.status = "failed"
      BY <2>1
    <2> QED
      BY <2>2 DEF GoodRead, Statuses
  <1>3. CASE ~Refused(meta, names[n].pos, t) /\ \E i \in 0..n : names[i].status # "ok"
    <2> DEFINE A == {names[i].status : i \in 0..n}
               x == CHOOSE s \in A : s # "ok"
    <2>1. q = [status |-> x]
      BY <1>3 DEF RecordOf
    <2>2. x \in A /\ x # "ok"
      BY <1>3
    <2>3. A \subseteq Statuses
      OBVIOUS
    <2> HIDE DEF x
    <2>4. q.status = x
      BY <2>1
    <2> QED
      BY <2>2, <2>3, <2>4 DEF GoodRead
  <1>4. CASE ~Refused(meta, names[n].pos, t) /\ ~ \E i \in 0..n : names[i].status # "ok"
    <2>1. q = [status |-> "ok", pos |-> names[n].pos + Behind(meta.type), record |-> r]
      BY <1>4 DEF RecordOf, TheRecord
    <2>2. r \in DnsRecord
      BY TheRecordTypes
    <2>3. names[n].pos + Behind(meta.type) \in Nat
      BY <1>1
    <2> HIDE DEF r, n, q
    <2>4. q.status = "ok" /\ q.pos = names[n].pos + Behind(meta.type) /\ q.record = r
      BY <2>1
    <2>5. GoodRead(q)
      BY <2>2, <2>3, <2>4 DEF GoodRead, Statuses
    <2> QED
      BY <2>5 DEF q, n
  <1> QED
    BY <1>2, <1>3, <1>4

LEMMA MetaOfTypes ==
    ASSUME NEW cell, GoodCell(cell), MetaOf(cell).kind = "meta"
    PROVE  MetaOf(cell).type \in Types /\ MetaOf(cell).value \in Nat /\ MetaOf(cell).data \in Data
  <1>1. CASE cell.kind = "zero"
    <2>1. MetaOf(cell) = [kind |-> "meta", type |-> "UNKNOWN", value |-> 0, data |-> NoData]
      BY <1>1 DEF MetaOf
    <2>2. "" \in DOMAIN BodyLen
      BY WireAssumption
    <2>3. NoData \in Data
      BY <2>2 DEF NoData, Data
    <2>4. "UNKNOWN" \in Types
      BY DEF Types
    <2>5. MetaOf(cell).type = "UNKNOWN" /\ MetaOf(cell).value = 0 /\ MetaOf(cell).data = NoData
      BY <2>1
    <2> QED
      BY <2>3, <2>4, <2>5
  <1>2. CASE cell.kind # "zero"
    BY <1>2 DEF MetaOf, GoodCell
  <1> QED
    BY <1>1, <1>2

LEMMA RecordReadTypes ==
    ASSUME NEW b, Sound(b), NEW start \in Nat, NEW t
    PROVE  GoodRead(DnsRecord_read(b, start, t))
  <1> DEFINE domain == read_qname(b, start, t)
             cell == Cell(b, domain.pos, t)
             meta == MetaOf(cell)
             from == domain.pos + META + Fixed(meta.type) + DataLen(meta.data)
             names == ReadNames(b, from, NameCount(meta.type), t)
             q == DnsRecord_read(b, start, t)
  <1>1. domain.status \in Statuses /\ domain.name \in Names /\ domain.pos \in Nat
    BY ReadTypes
  <1>2. GoodCell(cell)
    BY CellTypes
  <1>3. q = AfterName(b, domain, meta, t)
    BY DEF DnsRecord_read, NameThen
  <1> HIDE DEF domain, cell, meta, q
  <1>4. CASE domain.status # "ok"
    <2>1. q = [status |-> domain.status]
      BY <1>3, <1>4 DEF AfterName
    <2>2. q.status = domain.status
      BY <2>1
    <2>3. GoodRead(q)
      BY <1>1, <1>4, <2>2 DEF GoodRead
    <2> QED
      BY <2>3 DEF q
  <1>5. CASE domain.status = "ok" /\ meta.kind # "meta"
    <2>1. q = [status |-> Outcome(meta.kind)]
      BY <1>3, <1>5 DEF AfterName
    <2>2. q.status = Outcome(meta.kind)
      BY <2>1
    <2>3. GoodRead(q)
      BY <2>2, OutcomeTypes DEF GoodRead
    <2> QED
      BY <2>3 DEF q
  <1>6. CASE domain.status = "ok" /\ meta.kind = "meta"
    <2>1. q = RecordOf(domain, meta, names, NameCount(meta.type), t)
      BY <1>3, <1>6 DEF AfterName
    <2>2. meta.type \in Types /\ meta.value \in Nat /\ meta.data \in Data
      BY <1>2, <1>6, MetaOfTypes DEF meta
    <2>3. DataLen(meta.data) \in Nat /\ Fixed(meta.type) \in Nat /\ NameCount(meta.type) \in 0..2
      <3>1. meta.data.body \in DOMAIN BodyLen /\ meta.data.prefix \in Nat
        BY <2>2 DEF Data
      <3>2. BodyLen[meta.data.body] \in Nat
        BY <3>1, Lengths
      <3>3. DataLen(meta.data) \in Nat
        BY <3>1, <3>2 DEF DataLen
      <3> QED
        BY <3>3, NumberTypes
    <2>4. from \in Nat
      BY <1>1, <2>3 DEF META
    <2> HIDE DEF from
    <2>5. /\ \A i \in 0..NameCount(meta.type) : names[i].status \in Statuses /\ names[i].pos \in Nat
          /\ \A i \in 1..NameCount(meta.type) : names[i].name \in Names
      BY <2>3, <2>4, ReadNamesTypes
    <2> HIDE DEF names
    <2>6. GoodRead(q)
      BY <1>1, <2>1, <2>2, <2>5, RecordOfTypes
    <2> QED
      BY <2>6 DEF q
  <1> QED
    BY <1>4, <1>5, <1>6

-----------------------------------------------------------------------------
(* Packets.                                                                *)

LEMMA PacketTypes ==
    ASSUME NEW p \in DnsPacket
    PROVE  /\ p.flags \in Flags
           /\ p.answers \in Seq(DnsRecord) /\ p.authorities \in Seq(DnsRecord)
           /\ p.resources \in Seq(DnsRecord)
           /\ Len(p.answers) \in Nat /\ Len(p.authorities) \in Nat /\ Len(p.resources) \in Nat
           /\ Records(p) \in Seq(DnsRecord)
           /\ Len(Records(p)) = Len(p.answers) + Len(p.authorities) + Len(p.resources)
           /\ Len(Records(p)) \in Nat
           /\ \A i \in 1..Len(Records(p)) : Records(p)[i] \in DnsRecord
  <1>1. /\ p.flags \in Flags /\ p.answers \in Seq(DnsRecord) /\ p.authorities \in Seq(DnsRecord)
        /\ p.resources \in Seq(DnsRecord)
    BY DEF DnsPacket
  <1>2. Len(p.answers) \in Nat /\ Len(p.authorities) \in Nat /\ Len(p.resources) \in Nat
    BY <1>1, LenProperties
  <1>3. /\ p.answers \o p.authorities \in Seq(DnsRecord)
        /\ Len(p.answers \o p.authorities) = Len(p.answers) + Len(p.authorities)
    BY <1>1, ConcatProperties
  <1>4. /\ Records(p) \in Seq(DnsRecord)
        /\ Len(Records(p)) = Len(p.answers \o p.authorities) + Len(p.resources)
    BY <1>1, <1>3, ConcatProperties DEF Records
  <1>5. Len(Records(p)) \in Nat
    BY <1>4, LenProperties
  <1>6. \A i \in 1..Len(Records(p)) : Records(p)[i] \in DnsRecord
    BY <1>4, ElementOfSeq
  <1> QED
    BY <1>1, <1>2, <1>3, <1>4, <1>5, <1>6

(* Where the records of a section are.                                     *)
LEMMA SectionsOf ==
    ASSUME NEW p \in DnsPacket
    PROVE  /\ \A i \in 1..Len(p.answers) : Records(p)[i] = p.answers[i]
           /\ \A i \in 1..Len(p.authorities) : Records(p)[Len(p.answers) + i] = p.authorities[i]
           /\ \A i \in 1..Len(p.resources) :
                 Records(p)[Len(p.answers) + Len(p.authorities) + i] = p.resources[i]
  <1> DEFINE A == p.answers
             B == p.authorities
             C == p.resources
             la == Len(A)
             lb == Len(B)
             lc == Len(C)
  <1>1. A \in Seq(DnsRecord) /\ B \in Seq(DnsRecord) /\ C \in Seq(DnsRecord)
        /\ la \in Nat /\ lb \in Nat /\ lc \in Nat
    BY PacketTypes
  <1>2. Records(p) = (A \o B) \o C
    BY DEF Records
  <1> HIDE DEF A, B, C
  <1>3. /\ A \o B \in Seq(DnsRecord) /\ Len(A \o B) = la + lb
        /\ \A i \in 1..(la + lb) : (A \o B)[i] = IF i <= la THEN A[i] ELSE B[i - la]
    BY <1>1, ConcatProperties
  <1>4. \A i \in 1..((la + lb) + lc) : Records(p)[i] = IF i <= la + lb THEN (A \o B)[i] ELSE C[i - (la + lb)]
    BY <1>1, <1>2, <1>3, ConcatProperties
  <1> HIDE DEF la, lb, lc
  <1>5. ASSUME NEW i \in 1..la PROVE Records(p)[i] = A[i]
    <2>1. i \in 1..((la + lb) + lc) /\ i <= la + lb /\ i \in 1..(la + lb) /\ i <= la
      BY <1>1
    <2> QED
      BY <1>3, <1>4, <2>1
  <1>6. ASSUME NEW i \in 1..lb PROVE Records(p)[la + i] = B[i]
    <2> DEFINE j == la + i
    <2>1. j \in 1..((la + lb) + lc) /\ j <= la + lb /\ j \in 1..(la + lb) /\ ~(j <= la) /\ j - la = i
      BY <1>1
    <2> HIDE DEF j
    <2>2. Records(p)[j] = (A \o B)[j] /\ (A \o B)[j] = B[j - la]
      BY <1>3, <1>4, <2>1
    <2> QED
      BY <2>1, <2>2 DEF j
  <1>7. ASSUME NEW i \in 1..lc PROVE Records(p)[la + lb + i] = C[i]
    <2> DEFINE j == la + lb + i
    <2>1. j \in 1..((la + lb) + lc) /\ ~(j <= la + lb) /\ j - (la + lb) = i
      BY <1>1
    <2> HIDE DEF j
    <2>2. Records(p)[j] = C[j - (la + lb)]
      BY <1>4, <2>1
    <2> QED
      BY <2>1, <2>2 DEF j
  <1> QED
    BY <1>5, <1>6, <1>7 DEF la, lb, lc, A, B, C

LEMMA FlagsFields ==
    ASSUME NEW f \in Flags
    PROVE  /\ f.recursion_desired \in BOOLEAN /\ f.truncated_message \in BOOLEAN
           /\ f.authoritative_answer \in BOOLEAN /\ f.opcode \in 0..15 /\ f.response \in BOOLEAN
           /\ f.rescode \in DOMAIN ResultCode /\ f.checking_disabled \in BOOLEAN
           /\ f.authed_data \in BOOLEAN /\ f.z \in BOOLEAN /\ f.recursion_available \in BOOLEAN
  BY DEF Flags

LEMMA Codes ==
    /\ \A c \in DOMAIN ResultCode : ResultCode[c] \in 0..5
    /\ \A n : from_num(n) \in DOMAIN ResultCode
    /\ \A c \in DOMAIN ResultCode : from_num(ResultCode[c]) = c
  <1>1. DOMAIN ResultCode = {"NOERROR", "FORMERR", "SERVFAIL", "NXDOMAIN", "NOTIMP", "REFUSED"}
    BY DEF ResultCode
  <1>2. /\ ResultCode["NOERROR"] = 0 /\ ResultCode["FORMERR"] = 1 /\ ResultCode["SERVFAIL"] = 2
        /\ ResultCode["NXDOMAIN"] = 3 /\ ResultCode["NOTIMP"] = 4 /\ ResultCode["REFUSED"] = 5
    BY DEF ResultCode
  <1>3. \A c \in DOMAIN ResultCode : ResultCode[c] \in 0..5
    BY <1>1, <1>2
  <1>4. \A c, d \in DOMAIN ResultCode : ResultCode[c] = ResultCode[d] => c = d
    BY <1>1, <1>2
  <1>5. \A n : from_num(n) \in DOMAIN ResultCode
    BY <1>1 DEF from_num
  <1>6. \A c \in DOMAIN ResultCode : from_num(ResultCode[c]) = c
    BY <1>4 DEF from_num
  <1> QED
    BY <1>3, <1>5, <1>6

LEMMA FlagsReadTypes ==
    ASSUME NEW a \in Nat, NEW b \in Nat
    PROVE  FlagsRead(a, b) \in Flags
  <1>1. (a \div 8) % 16 \in 0..15
    OBVIOUS
  <1>2. from_num(b % 16) \in DOMAIN ResultCode
    BY Codes
  <1>3. \A x, k : IsSet(x, k) \in BOOLEAN
    BY DEF IsSet
  <1> QED
    BY <1>1, <1>2, <1>3 DEF FlagsRead, Flags

LEMMA ReplyFlagsTypes ==
    ASSUME NEW f \in Flags
    PROVE  ReplyFlags(f) \in Flags /\ NewFlags \in Flags
  <1>1. "NOERROR" \in DOMAIN ResultCode
    BY DEF ResultCode
  <1> QED
    BY <1>1, FlagsFields DEF ReplyFlags, NewFlags, Flags

(* Every flag comes out of the two bytes as it went in.                    *)
Digit(flag) == IF flag THEN 1 ELSE 0

LEMMA Digits ==
    ASSUME NEW flag \in BOOLEAN
    PROVE  /\ Digit(flag) \in {0, 1} /\ (Digit(flag) = 1) = flag
           /\ Bit(flag, 0) = Digit(flag) /\ Bit(flag, 1) = 2 * Digit(flag)
           /\ Bit(flag, 2) = 4 * Digit(flag) /\ Bit(flag, 4) = 16 * Digit(flag)
           /\ Bit(flag, 5) = 32 * Digit(flag) /\ Bit(flag, 6) = 64 * Digit(flag)
           /\ Bit(flag, 7) = 128 * Digit(flag)
  BY DEF Digit, Bit

LEMMA IsSetFacts ==
    ASSUME NEW x
    PROVE  /\ IsSet(x, 0) = ((x \div 1) % 2 = 1) /\ IsSet(x, 1) = ((x \div 2) % 2 = 1)
           /\ IsSet(x, 2) = ((x \div 4) % 2 = 1) /\ IsSet(x, 4) = ((x \div 16) % 2 = 1)
           /\ IsSet(x, 5) = ((x \div 32) % 2 = 1) /\ IsSet(x, 6) = ((x \div 64) % 2 = 1)
           /\ IsSet(x, 7) = ((x \div 128) % 2 = 1)
  BY DEF IsSet

LEMMA FirstFlags ==
    ASSUME NEW f \in Flags
    PROVE  LET x == FlagBytes(f)[1]
           IN  /\ x \in Nat /\ IsSet(x, 0) = f.recursion_desired /\ IsSet(x, 1) = f.truncated_message
               /\ IsSet(x, 2) = f.authoritative_answer /\ IsSet(x, 7) = f.response
               /\ (x \div 8) % 16 = f.opcode
  <1> DEFINE x == FlagBytes(f)[1]
             a == Digit(f.recursion_desired)
             b == Digit(f.truncated_message)
             c == Digit(f.authoritative_answer)
             d == Digit(f.response)
             n == f.opcode
  <1>1. /\ f.recursion_desired \in BOOLEAN /\ f.truncated_message \in BOOLEAN
        /\ f.authoritative_answer \in BOOLEAN /\ f.response \in BOOLEAN /\ n \in 0..15
    BY FlagsFields
  <1>2. /\ a \in {0, 1} /\ b \in {0, 1} /\ c \in {0, 1} /\ d \in {0, 1}
        /\ (a = 1) = f.recursion_desired /\ (b = 1) = f.truncated_message
        /\ (c = 1) = f.authoritative_answer /\ (d = 1) = f.response
        /\ Bit(f.recursion_desired, 0) = a /\ Bit(f.truncated_message, 1) = 2 * b
        /\ Bit(f.authoritative_answer, 2) = 4 * c /\ Bit(f.response, 7) = 128 * d
    BY <1>1, Digits
  <1>3. x = Bit(f.recursion_desired, 0) + Bit(f.truncated_message, 1) + Bit(f.authoritative_answer, 2)
              + 8 * n + Bit(f.response, 7)
    BY DEF FlagBytes
  <1> HIDE DEF x, a, b, c, d, n
  <1>4. x = a + 2 * b + 4 * c + 8 * n + 128 * d
    BY <1>2, <1>3
  <1>5. /\ x \in Nat /\ (x \div 1) % 2 = a /\ (x \div 2) % 2 = b /\ (x \div 4) % 2 = c
        /\ (x \div 128) % 2 = d /\ (x \div 8) % 16 = n
    <2>1. a \in {0, 1} /\ b \in {0, 1} /\ c \in {0, 1} /\ d \in {0, 1} /\ n \in 0..15
      BY <1>1, <1>2
    <2> QED
      BY ONLY <1>4, <2>1
  <1>6. /\ IsSet(x, 0) = (a = 1) /\ IsSet(x, 1) = (b = 1) /\ IsSet(x, 2) = (c = 1) /\ IsSet(x, 7) = (d = 1)
    BY <1>5, IsSetFacts
  <1> QED
    BY <1>2, <1>5, <1>6 DEF x, n

LEMMA SecondFlags ==
    ASSUME NEW f \in Flags
    PROVE  LET x == FlagBytes(f)[2]
           IN  /\ x \in Nat /\ IsSet(x, 4) = f.checking_disabled /\ IsSet(x, 5) = f.authed_data
               /\ IsSet(x, 6) = f.z /\ IsSet(x, 7) = f.recursion_available
               /\ from_num(x % 16) = f.rescode
  <1> DEFINE x == FlagBytes(f)[2]
             a == Digit(f.checking_disabled)
             b == Digit(f.authed_data)
             c == Digit(f.z)
             d == Digit(f.recursion_available)
             n == ResultCode[f.rescode]
  <1>1. /\ f.checking_disabled \in BOOLEAN /\ f.authed_data \in BOOLEAN
        /\ f.z \in BOOLEAN /\ f.recursion_available \in BOOLEAN
        /\ n \in 0..5 /\ from_num(n) = f.rescode
    BY FlagsFields, Codes
  <1>2. /\ a \in {0, 1} /\ b \in {0, 1} /\ c \in {0, 1} /\ d \in {0, 1}
        /\ (a = 1) = f.checking_disabled /\ (b = 1) = f.authed_data
        /\ (c = 1) = f.z /\ (d = 1) = f.recursion_available
        /\ Bit(f.checking_disabled, 4) = 16 * a /\ Bit(f.authed_data, 5) = 32 * b
        /\ Bit(f.z, 6) = 64 * c /\ Bit(f.recursion_available, 7) = 128 * d
    BY <1>1, Digits
  <1>3. x = n + Bit(f.checking_disabled, 4) + Bit(f.authed_data, 5) + Bit(f.z, 6)
              + Bit(f.recursion_available, 7)
    BY DEF FlagBytes
  <1> HIDE DEF x, a, b, c, d, n
  <1>4. x = n + 16 * a + 32 * b + 64 * c + 128 * d
    BY <1>2, <1>3
  <1>5. /\ x \in Nat /\ (x \div 16) % 2 = a /\ (x \div 32) % 2 = b /\ (x \div 64) % 2 = c
        /\ (x \div 128) % 2 = d /\ x % 16 = n
    <2>1. a \in {0, 1} /\ b \in {0, 1} /\ c \in {0, 1} /\ d \in {0, 1} /\ n \in 0..5
      BY <1>1, <1>2
    <2> QED
      BY ONLY <1>4, <2>1
  <1>6. /\ IsSet(x, 4) = (a = 1) /\ IsSet(x, 5) = (b = 1) /\ IsSet(x, 6) = (c = 1) /\ IsSet(x, 7) = (d = 1)
    BY <1>5, IsSetFacts
  <1> QED
    BY <1>1, <1>2, <1>5, <1>6 DEF x

LEMMA FlagsReturn ==
    ASSUME NEW f \in Flags
    PROVE  /\ FlagBytes(f)[1] \in Nat /\ FlagBytes(f)[2] \in Nat
           /\ FlagsRead(FlagBytes(f)[1], FlagBytes(f)[2]) = f
  <1> DEFINE x == FlagBytes(f)[1]
             y == FlagBytes(f)[2]
  <1>1. /\ x \in Nat /\ IsSet(x, 0) = f.recursion_desired /\ IsSet(x, 1) = f.truncated_message
        /\ IsSet(x, 2) = f.authoritative_answer /\ IsSet(x, 7) = f.response
        /\ (x \div 8) % 16 = f.opcode
    BY FirstFlags
  <1>2. /\ y \in Nat /\ IsSet(y, 4) = f.checking_disabled /\ IsSet(y, 5) = f.authed_data
        /\ IsSet(y, 6) = f.z /\ IsSet(y, 7) = f.recursion_available
        /\ from_num(y % 16) = f.rescode
    BY SecondFlags
  <1> HIDE DEF x, y
  <1>3. FlagsRead(x, y) =
          [recursion_desired |-> f.recursion_desired, truncated_message |-> f.truncated_message,
           authoritative_answer |-> f.authoritative_answer, opcode |-> f.opcode,
           response |-> f.response, rescode |-> f.rescode, checking_disabled |-> f.checking_disabled,
           authed_data |-> f.authed_data, z |-> f.z, recursion_available |-> f.recursion_available]
    BY <1>1, <1>2, Zenon DEF FlagsRead
  <1>4. f =
          [recursion_desired |-> f.recursion_desired, truncated_message |-> f.truncated_message,
           authoritative_answer |-> f.authoritative_answer, opcode |-> f.opcode,
           response |-> f.response, rescode |-> f.rescode, checking_disabled |-> f.checking_disabled,
           authed_data |-> f.authed_data, z |-> f.z, recursion_available |-> f.recursion_available]
    BY DEF Flags
  <1>5. x \in Nat /\ y \in Nat /\ FlagsRead(x, y) = f
    BY <1>1, <1>2, <1>3, <1>4
  <1> QED
    BY <1>5 DEF x, y

GoodQuestions(q) ==
    /\ q.status \in Statuses
    /\ q.status = "ok" => q.pos \in Nat /\ q.questions \in Seq(DnsQuestion) /\ Len(q.questions) <= 1

LEMMA QuestionsReadTypes ==
    ASSUME NEW b, Sound(b), NEW n, NEW t
    PROVE  GoodQuestions(ReadQuestions(b, n, t))
  <1> DEFINE q == ReadQuestions(b, n, t)
  <1>1. CASE n = 0
    <2>1. q = [status |-> "ok", pos |-> HEADER, questions |-> <<>>]
      BY <1>1 DEF ReadQuestions
    <2>2. <<>> \in Seq(DnsQuestion) /\ Len(<<>>) = 0
      BY EmptySeq
    <2>3. q.status = "ok" /\ q.pos = HEADER /\ q.questions = <<>>
      BY <2>1
    <2> HIDE DEF q
    <2>4. GoodQuestions(q)
      BY <2>2, <2>3 DEF GoodQuestions, Statuses, HEADER
    <2> QED
      BY <2>4 DEF q
  <1>2. CASE n # 0
    <2> DEFINE name == read_qname(b, HEADER, t)
               cell == Cell(b, name.pos, t)
    <2>1. q = QuestionOf(name, cell)
      BY <1>2 DEF ReadQuestions, question_read
    <2>2. name.status \in Statuses /\ name.name \in Names /\ name.pos \in Nat
      <3>1. HEADER \in Nat
        BY DEF HEADER
      <3> QED
        BY <3>1, ReadTypes
    <2>3. GoodCell(cell)
      BY CellTypes
    <2> HIDE DEF name, cell, q
    <2>6. CASE name.status # "ok"
      <3>1. q = [status |-> name.status]
        BY <2>1, <2>6 DEF QuestionOf
      <3>2. q.status = name.status
        BY <3>1
      <3>3. GoodQuestions(q)
        BY <2>2, <2>6, <3>2 DEF GoodQuestions
      <3> QED
        BY <3>3 DEF q
    <2>7. CASE name.status = "ok" /\ cell.kind \in {"question", "zero"}
      <3> DEFINE type == IF cell.kind = "zero" THEN "UNKNOWN" ELSE cell.type
                 one == [name |-> name.name, type |-> type]
      <3>1. q = [status |-> "ok", pos |-> name.pos + QUESTION_META, questions |-> <<one>>]
        BY <2>1, <2>7 DEF QuestionOf
      <3>2. type \in Types
        BY <2>3, <2>7 DEF GoodCell, Types
      <3> HIDE DEF type
      <3>3. one \in DnsQuestion
        BY <2>2, <3>2 DEF DnsQuestion
      <3> HIDE DEF one
      <3>4. <<one>> \in Seq(DnsQuestion) /\ Len(<<one>>) = 1
        BY <3>3, OneElement
      <3>5. q.status = "ok" /\ q.pos = name.pos + QUESTION_META /\ q.questions = <<one>>
        BY <3>1
      <3>6. GoodQuestions(q)
        BY <2>2, <3>4, <3>5 DEF GoodQuestions, Statuses, QUESTION_META
      <3> QED
        BY <3>6 DEF q
    <2>8. CASE name.status = "ok" /\ cell.kind \notin {"question", "zero"}
      <3>1. q = [status |-> Outcome(cell.kind)]
        BY <2>1, <2>8 DEF QuestionOf
      <3>2. q.status = Outcome(cell.kind)
        BY <3>1
      <3>3. GoodQuestions(q)
        BY <3>2, OutcomeTypes DEF GoodQuestions
      <3> QED
        BY <3>3 DEF q
    <2> QED
      BY <2>6, <2>7, <2>8
  <1> QED
    BY <1>1, <1>2

-----------------------------------------------------------------------------
(* What holds in every state, whatever the packet.                         *)

Phases == {"measure", "header", "write", "read", "failed", "garbage"}

Headers == [answers : Nat, authorities : Nat, resources : Nat, truncated_message : BOOLEAN]

FlagsOf(p, h) == [p.flags EXCEPT !.truncated_message = @ \/ h.truncated_message]

HeaderCell(p, h) == [kind |-> "header", flags |-> FlagBytes(FlagsOf(p, h))]

TypeInv ==
    /\ transport \in Transports
    /\ packet \in DnsPacket /\ parsed \in DnsPacket
    /\ phase \in Phases
    /\ next \in Nat /\ next >= 1
    /\ record_count \in Nat /\ record_count <= Len(Records(packet))
    /\ header \in Headers
    /\ Sound(test_buffer) /\ Sound(buffer)
    /\ pos \in Nat
    /\ phase \in {"write", "read"} =>
          0 \in DOMAIN buffer.cells /\ buffer.cells[0] = HeaderCell(packet, header)

LEMMA HeaderFields ==
    ASSUME NEW h \in Headers
    PROVE  /\ h.answers \in Nat /\ h.authorities \in Nat /\ h.resources \in Nat
           /\ h.truncated_message \in BOOLEAN
  BY DEF Headers

LEMMA FlagsOfTypes ==
    ASSUME NEW p \in DnsPacket, NEW h \in Headers
    PROVE  FlagsOf(p, h) \in Flags
  <1>1. p.flags \in Flags /\ h.truncated_message \in BOOLEAN
    BY PacketTypes, HeaderFields
  <1>2. p.flags.truncated_message \in BOOLEAN
    BY <1>1, FlagsFields
  <1> QED
    BY <1>1, <1>2 DEF FlagsOf, Flags

LEMMA SectionNames ==
    /\ \A p, i : Section(p, i) \in {"answers", "authorities", "resources"}
    /\ \A p : SectionRead(p) \in {"answers", "authorities", "resources"}
  BY DEF Section, SectionRead

LEMMA HeaderCounts ==
    ASSUME NEW h \in Headers, NEW section \in {"answers", "authorities", "resources"}
    PROVE  [h EXCEPT ![section] = @ + 1] \in Headers /\ [h EXCEPT !.truncated_message = TRUE] \in Headers
  <1>1. h.answers + 1 \in Nat /\ h.authorities + 1 \in Nat /\ h.resources + 1 \in Nat
    BY HeaderFields
  <1>2. [h EXCEPT !.answers = h.answers + 1] \in Headers
    BY <1>1 DEF Headers
  <1>3. [h EXCEPT !.authorities = h.authorities + 1] \in Headers
    BY <1>1 DEF Headers
  <1>4. [h EXCEPT !.resources = h.resources + 1] \in Headers
    BY <1>1 DEF Headers
  <1>5. [h EXCEPT !.truncated_message = TRUE] \in Headers
    BY DEF Headers
  <1> QED
    BY <1>2, <1>3, <1>4, <1>5

LEMMA NewHeaderTypes == NewHeader \in Headers
  BY DEF NewHeader, Headers

LEMMA PacketOpened ==
    ASSUME NEW f \in Flags, NEW q \in Seq(DnsQuestion), Len(q) <= 1
    PROVE  Opened(f, q) \in DnsPacket
  <1>1. <<>> \in Seq(DnsRecord)
    BY EmptySeq
  <1> QED
    BY <1>1 DEF DnsPacket, Opened

LEMMA NoPacketTypes == NoPacket \in DnsPacket
  <1>1. NewFlags \in Flags
    <2>1. "NOERROR" \in DOMAIN ResultCode
      BY DEF ResultCode
    <2> QED
      BY <2>1 DEF NewFlags, Flags
  <1>2. <<>> \in Seq(DnsQuestion) /\ Len(<<>>) <= 1
    BY EmptySeq
  <1> HIDE DEF NewFlags
  <1> QED
    BY <1>1, <1>2, PacketOpened DEF NoPacket

LEMMA PacketExtended ==
    ASSUME NEW p \in DnsPacket, NEW r \in DnsRecord,
           NEW section \in {"answers", "authorities", "resources"}
    PROVE  [p EXCEPT ![section] = Append(@, r)] \in DnsPacket
  <1>1. p.answers \in Seq(DnsRecord) /\ p.authorities \in Seq(DnsRecord) /\ p.resources \in Seq(DnsRecord)
    BY PacketTypes
  <1>2. /\ Append(p.answers, r) \in Seq(DnsRecord) /\ Append(p.authorities, r) \in Seq(DnsRecord)
        /\ Append(p.resources, r) \in Seq(DnsRecord)
    BY <1>1, AppendProperties
  <1>3. \A s \in Seq(DnsRecord) : [p EXCEPT !.answers = s] \in DnsPacket
    BY DEF DnsPacket
  <1>4. \A s \in Seq(DnsRecord) : [p EXCEPT !.authorities = s] \in DnsPacket
    BY DEF DnsPacket
  <1>5. \A s \in Seq(DnsRecord) : [p EXCEPT !.resources = s] \in DnsPacket
    BY DEF DnsPacket
  <1>6. CASE section = "answers"
    BY <1>2, <1>3, <1>6
  <1>7. CASE section = "authorities"
    BY <1>2, <1>4, <1>7
  <1>8. CASE section = "resources"
    BY <1>2, <1>5, <1>8
  <1> QED
    BY <1>6, <1>7, <1>8

LEMMA HeaderCellFacts ==
    ASSUME NEW p, NEW h
    PROVE  /\ GoodCell(HeaderCell(p, h)) /\ HeaderCell(p, h).kind = "header"
           /\ HeaderCell(p, h).flags = FlagBytes(FlagsOf(p, h))
  BY DEF HeaderCell, GoodCell

Opening(p, h) == Put(EmptyBuffer, HeaderCell(p, h), HEADER)

LEMMA SoundOpening ==
    ASSUME NEW p \in DnsPacket, NEW h \in Headers
    PROVE  /\ Sound(Opening(p, h)) /\ MetaCells(Opening(p, h)) = {}
           /\ Opening(p, h).pos = HEADER /\ Opening(p, h).labels = <<>>
           /\ DOMAIN Opening(p, h).cells = {0}
           /\ Opening(p, h).cells[0] = HeaderCell(p, h)
  <1> DEFINE c == HeaderCell(p, h)
  <1>1. GoodCell(c) /\ c.kind = "header"
    BY HeaderCellFacts
  <1> HIDE DEF c
  <1>2. HEADER \in Nat /\ HEADER > 0 /\ c.kind # "pointer" /\ c.kind # "meta"
    BY <1>1 DEF HEADER
  <1>3. Sound(Put(EmptyBuffer, c, HEADER))
    BY <1>1, <1>2, SoundEmpty, SoundPut
  <1>4. EmptyBuffer.pos = 0 /\ EmptyBuffer.labels = <<>> /\ DOMAIN EmptyBuffer.cells = {}
    BY DEF EmptyBuffer
  <1> DEFINE w == Put(EmptyBuffer, c, HEADER)
  <1>5. /\ w.pos = EmptyBuffer.pos + HEADER /\ w.labels = EmptyBuffer.labels
        /\ DOMAIN w.cells = DOMAIN EmptyBuffer.cells \cup {EmptyBuffer.pos}
        /\ w.cells[EmptyBuffer.pos] = c
    BY PutFacts
  <1> HIDE DEF w
  <1>6. w.pos = HEADER /\ w.labels = <<>> /\ DOMAIN w.cells = {0} /\ w.cells[0] = c
    BY <1>2, <1>4, <1>5
  <1>7. MetaCells(w) = {}
    BY <1>2, <1>6 DEF MetaCells
  <1> QED
    BY <1>3, <1>6, <1>7 DEF Opening, w, c

LEMMA SoundHeader ==
    ASSUME NEW p \in DnsPacket, NEW h \in Headers
    PROVE  /\ Sound(WriteQuestion(Opening(p, h), p))
           /\ MetaCells(WriteQuestion(Opening(p, h), p)) = {}
           /\ 0 \in DOMAIN WriteQuestion(Opening(p, h), p).cells
           /\ WriteQuestion(Opening(p, h), p).cells[0] = HeaderCell(p, h)
  <1> DEFINE b == Opening(p, h)
             w == WriteQuestion(b, p)
  <1>1. Sound(b) /\ MetaCells(b) = {} /\ 0 \in DOMAIN b.cells /\ b.cells[0] = HeaderCell(p, h)
    BY SoundOpening
  <1> HIDE DEF b
  <1>2. Sound(w) /\ Grows(b, w) /\ MetaCells(w) = MetaCells(b)
    BY <1>1, SoundQuestion
  <1> HIDE DEF w
  <1>3. 0 \in DOMAIN w.cells /\ w.cells[0] = b.cells[0]
    BY <1>1, <1>2 DEF Grows
  <1> QED
    BY <1>1, <1>2, <1>3 DEF w, b

-----------------------------------------------------------------------------
(* Every step keeps the types.                                             *)

(* What is needed of a packet that is about to be measured.                *)
LEMMA StartTypes ==
    ASSUME NEW p \in DnsPacket
    PROVE  /\ Sound(WriteQuestion(EmptyBuffer, p)) /\ Sound(EmptyBuffer)
           /\ Len(Records(p)) \in Nat /\ NewHeader \in Headers /\ NoPacket \in DnsPacket
  BY SoundEmpty, SoundQuestion, PacketTypes, NewHeaderTypes, NoPacketTypes

LEMMA TypeInit == Init => TypeInv
  <1> SUFFICES ASSUME Init PROVE TypeInv
    OBVIOUS
  <1>1. packet \in DnsPacket
    <2>1. Packets \subseteq DnsPacket
      BY WireAssumption
    <2> QED
      BY <2>1 DEF Init
  <1>2. /\ test_buffer = WriteQuestion(EmptyBuffer, packet) /\ buffer = EmptyBuffer
        /\ record_count = Len(Records(packet)) /\ header = NewHeader /\ parsed = NoPacket
        /\ transport \in Transports /\ phase = "measure" /\ next = 1 /\ pos = 0
    BY DEF Init
  <1>3. /\ Sound(WriteQuestion(EmptyBuffer, packet)) /\ Sound(EmptyBuffer)
        /\ Len(Records(packet)) \in Nat /\ NewHeader \in Headers /\ NoPacket \in DnsPacket
    BY <1>1, StartTypes
  <1>4. Sound(test_buffer) /\ Sound(buffer)
    BY <1>2, <1>3
  <1> QED
    BY <1>1, <1>2, <1>3, <1>4 DEF TypeInv, Phases

LEMMA TypeMeasure ==
    ASSUME TypeInv, MeasureRecord
    PROVE  TypeInv'
  <1> DEFINE r == Records(packet)[next]
             w == DnsRecord_write(test_buffer, r)
  <1>1. /\ packet \in DnsPacket /\ parsed \in DnsPacket /\ transport \in Transports
        /\ next \in Nat /\ next >= 1 /\ record_count \in Nat /\ record_count <= Len(Records(packet))
        /\ header \in Headers /\ Sound(test_buffer) /\ Sound(buffer) /\ pos \in Nat
    BY DEF TypeInv
  <1>2. Len(Records(packet)) \in Nat /\ next <= Len(Records(packet))
    BY <1>1, PacketTypes DEF MeasureRecord
  <1>3. r \in DnsRecord
    <2>1. next \in 1..Len(Records(packet))
      BY <1>1, <1>2
    <2> QED
      BY <1>1, <2>1, PacketTypes
  <1> HIDE DEF r
  <1>4. Sound(w)
    BY <1>1, <1>3, SoundRecord
  <1> HIDE DEF w
  <1>5. PICK new : Measured(w, new)
    BY DEF MeasureRecord, w, r
  <1>6. /\ test_buffer' = w
        /\ record_count' \in {record_count, next - 1}
        /\ header' \in {[header EXCEPT ![Section(packet, next)] = @ + 1], [header EXCEPT !.truncated_message = TRUE]}
        /\ next' \in {next + 1, next} /\ phase' \in {"measure", "header"}
    BY <1>5 DEF Measured
  <1>7. header' \in Headers
    BY <1>1, <1>6, HeaderCounts, SectionNames
  <1>8. UNCHANGED <<transport, packet, hops, buffer, pos, parsed>>
    BY DEF MeasureRecord
  <1>9. Sound(test_buffer') /\ Sound(buffer')
    BY <1>1, <1>4, <1>6, <1>8
  <1>10. next' \in Nat /\ next' >= 1 /\ record_count' \in Nat /\ record_count' <= Len(Records(packet))
    BY <1>1, <1>2, <1>6
  <1>11. phase' \in Phases /\ phase' \notin {"write", "read"}
    BY <1>6 DEF Phases
  <1>12. Sound(test_buffer)' /\ Sound(buffer)'
    BY <1>9 DEF Sound, Ends, GoodCell, LabelsSaved, PointersBack
  <1> QED
    BY <1>1, <1>7, <1>8, <1>10, <1>11, <1>12 DEF TypeInv

LEMMA TypeHeader ==
    ASSUME TypeInv, WriteHeader
    PROVE  TypeInv'
  <1>1. /\ packet \in DnsPacket /\ parsed \in DnsPacket /\ transport \in Transports
        /\ record_count \in Nat /\ record_count <= Len(Records(packet))
        /\ header \in Headers /\ Sound(test_buffer) /\ pos \in Nat
    BY DEF TypeInv
  <1>2. /\ buffer' = WriteQuestion(Opening(packet, header), packet)
        /\ phase' = "write" /\ next' = 1
        /\ UNCHANGED <<transport, packet, hops, measuring, pos, parsed>>
    BY DEF WriteHeader, Opening, HeaderCell, FlagsOf
  <1> DEFINE w == WriteQuestion(Opening(packet, header), packet)
  <1>3. Sound(w) /\ 0 \in DOMAIN w.cells /\ w.cells[0] = HeaderCell(packet, header)
    BY <1>1, SoundHeader
  <1> HIDE DEF w
  <1>4. buffer' = w
    BY <1>2 DEF w
  <1>5. Sound(buffer)' /\ Sound(test_buffer)'
    BY <1>1, <1>2, <1>3, <1>4 DEF measuring, Sound, Ends, GoodCell, LabelsSaved, PointersBack
  <1>6. 0 \in DOMAIN buffer'.cells /\ buffer'.cells[0] = HeaderCell(packet', header')
    BY <1>2, <1>3, <1>4 DEF measuring
  <1> QED
    BY <1>1, <1>2, <1>5, <1>6 DEF TypeInv, Phases, measuring

LEMMA TypeWrite ==
    ASSUME TypeInv, WriteRecord
    PROVE  TypeInv'
  <1> DEFINE r == Records(packet)[next]
             w == DnsRecord_write(buffer, r)
  <1>1. /\ packet \in DnsPacket /\ parsed \in DnsPacket /\ transport \in Transports
        /\ next \in Nat /\ next >= 1 /\ record_count \in Nat /\ record_count <= Len(Records(packet))
        /\ header \in Headers /\ Sound(test_buffer) /\ Sound(buffer) /\ pos \in Nat
        /\ phase = "write" /\ 0 \in DOMAIN buffer.cells /\ buffer.cells[0] = HeaderCell(packet, header)
    BY DEF TypeInv, WriteRecord
  <1>2. Len(Records(packet)) \in Nat /\ next <= record_count
    BY <1>1, PacketTypes DEF WriteRecord
  <1>3. r \in DnsRecord
    <2>1. next \in 1..Len(Records(packet))
      BY <1>1, <1>2
    <2> QED
      BY <1>1, <2>1, PacketTypes
  <1>4. buffer' = w /\ next' = next + 1
        /\ UNCHANGED <<transport, packet, hops, phase, measuring, pos, parsed>>
    BY DEF WriteRecord
  <1> HIDE DEF r
  <1>5. Sound(w) /\ Grows(buffer, w)
    BY <1>1, <1>3, SoundRecord
  <1> HIDE DEF w
  <1>6. 0 \in DOMAIN w.cells /\ w.cells[0] = HeaderCell(packet, header)
    BY <1>1, <1>5 DEF Grows
  <1>7. Sound(buffer)' /\ Sound(test_buffer)'
    BY <1>1, <1>4, <1>5 DEF measuring, Sound, Ends, GoodCell, LabelsSaved, PointersBack
  <1>8. 0 \in DOMAIN buffer'.cells /\ buffer'.cells[0] = HeaderCell(packet', header')
    BY <1>4, <1>6 DEF measuring
  <1>9. next' \in Nat /\ next' >= 1
    BY <1>1, <1>4
  <1> QED
    BY <1>1, <1>4, <1>7, <1>8, <1>9 DEF TypeInv, Phases, measuring

LEMMA TypeReadHeader ==
    ASSUME TypeInv, ReadHeader
    PROVE  TypeInv'
  <1> DEFINE q == ReadQuestions(buffer, Len(packet.questions), transport)
             f == FlagsRead(buffer.cells[0].flags[1], buffer.cells[0].flags[2])
  <1>1. /\ packet \in DnsPacket /\ parsed \in DnsPacket /\ transport \in Transports
        /\ next \in Nat /\ next >= 1 /\ record_count \in Nat /\ record_count <= Len(Records(packet))
        /\ header \in Headers /\ Sound(test_buffer) /\ Sound(buffer) /\ pos \in Nat
        /\ 0 \in DOMAIN buffer.cells /\ buffer.cells[0] = HeaderCell(packet, header)
    BY DEF TypeInv, ReadHeader
  <1>2. GoodQuestions(q)
    BY <1>1, QuestionsReadTypes
  <1>3. f \in Flags
    BY <1>1, HeaderCellFacts, FlagsOfTypes, FlagsReturn
  <1>4. /\ IF q.status = "ok"
           THEN phase' = "read" /\ next' = 1 /\ pos' = q.pos /\ parsed' = Opened(f, q.questions)
           ELSE phase' = q.status /\ UNCHANGED <<next, pos, parsed>>
        /\ UNCHANGED <<transport, packet, hops, measuring, buffer>>
    BY DEF ReadHeader
  <1> HIDE DEF q, f
  <1>5. Sound(buffer)' /\ Sound(test_buffer)'
    BY <1>1, <1>4 DEF measuring
  <1>6. 0 \in DOMAIN buffer'.cells /\ buffer'.cells[0] = HeaderCell(packet', header')
    BY <1>1, <1>4 DEF measuring
  <1>7. /\ phase' \in Phases /\ next' \in Nat /\ next' >= 1 /\ pos' \in Nat
        /\ parsed' \in DnsPacket
    <2>1. CASE q.status = "ok"
      BY <1>2, <1>3, <1>4, <2>1, PacketOpened DEF GoodQuestions, Phases
    <2>2. CASE q.status # "ok"
      BY <1>1, <1>2, <1>4, <2>2 DEF GoodQuestions, Phases, Statuses
    <2> QED
      BY <2>1, <2>2
  <1> QED
    BY <1>1, <1>4, <1>5, <1>6, <1>7 DEF TypeInv, measuring

LEMMA TypeReadRecord ==
    ASSUME TypeInv, ReadRecord
    PROVE  TypeInv'
  <1> DEFINE q == DnsRecord_read(buffer, pos, transport)
  <1>1. /\ packet \in DnsPacket /\ parsed \in DnsPacket /\ transport \in Transports
        /\ next \in Nat /\ next >= 1 /\ record_count \in Nat /\ record_count <= Len(Records(packet))
        /\ header \in Headers /\ Sound(test_buffer) /\ Sound(buffer) /\ pos \in Nat
        /\ 0 \in DOMAIN buffer.cells /\ buffer.cells[0] = HeaderCell(packet, header)
    BY DEF TypeInv, ReadRecord
  <1>2. GoodRead(q)
    BY <1>1, RecordReadTypes
  <1>3. /\ IF q.status = "ok"
           THEN /\ phase' = "read" /\ next' = next + 1 /\ pos' = q.pos
                /\ parsed' = [parsed EXCEPT ![SectionRead(parsed)] = Append(@, q.record)]
           ELSE phase' = q.status /\ UNCHANGED <<next, pos, parsed>>
        /\ UNCHANGED <<transport, packet, hops, measuring, buffer>>
    BY DEF ReadRecord
  <1> HIDE DEF q
  <1>4. Sound(buffer)' /\ Sound(test_buffer)'
    BY <1>1, <1>3 DEF measuring
  <1>5. 0 \in DOMAIN buffer'.cells /\ buffer'.cells[0] = HeaderCell(packet', header')
    BY <1>1, <1>3 DEF measuring
  <1>6. /\ phase' \in Phases /\ next' \in Nat /\ next' >= 1 /\ pos' \in Nat
        /\ parsed' \in DnsPacket
    <2>1. CASE q.status = "ok"
      <3>1. SectionRead(parsed) \in {"answers", "authorities", "resources"}
        BY SectionNames
      <3>2. parsed' \in DnsPacket
        BY <1>1, <1>2, <1>3, <2>1, <3>1, PacketExtended DEF GoodRead
      <3> QED
        BY <1>1, <1>2, <1>3, <2>1, <3>2 DEF GoodRead, Phases
    <2>2. CASE q.status # "ok"
      BY <1>1, <1>2, <1>3, <2>2 DEF GoodRead, Phases, Statuses
    <2> QED
      BY <2>1, <2>2
  <1> QED
    BY <1>1, <1>3, <1>4, <1>5, <1>6 DEF TypeInv, measuring

(* A section without its repetitions is a section.                         *)
LEMMA PushedTypes ==
    ASSUME NEW s \in Seq(DnsRecord), NEW r \in DnsRecord
    PROVE  Pushed(s, r) \in Seq(DnsRecord)
  <1>1. Append(s, r) \in Seq(DnsRecord)
    BY AppendProperties
  <1> QED
    BY <1>1 DEF Pushed

LEMMA KeptExist ==
    ASSUME NEW s, NEW N \in Nat
    PROVE  \E f : f = [i \in 0..N |-> IF i = 0 THEN <<>> ELSE Pushed(f[i - 1], s[i])]
  <1> DEFINE Follows(f, m) == f = [i \in 0..m |-> IF i = 0 THEN <<>> ELSE Pushed(f[i - 1], s[i])]
             Missing == {m \in Nat : ~ \E f : Follows(f, m)}
  <1>1. SUFFICES ASSUME Missing # {} PROVE FALSE
    OBVIOUS
  <1>2. PICK m \in Missing : \A y \in Missing : m <= y
    BY <1>1, LeastNatural
  <1>3. m \in Nat
    OBVIOUS
  <1>4. CASE m = 0
    <2>1. Follows([i \in 0..0 |-> <<>>], 0)
      OBVIOUS
    <2> QED
      BY <1>4, <2>1
  <1>5. CASE m # 0
    <2>1. m - 1 \in Nat /\ ~(m <= m - 1)
      BY <1>3, <1>5
    <2>2. PICK g : Follows(g, m - 1)
      BY <1>2, <2>1
    <2> DEFINE f == [i \in 0..m |-> IF i = m THEN Pushed(g[m - 1], s[m]) ELSE g[i]]
    <2>3. \A i \in 0..(m - 1) : g[i] = IF i = 0 THEN <<>> ELSE Pushed(g[i - 1], s[i])
      <3>1. g = [i \in 0..(m - 1) |-> IF i = 0 THEN <<>> ELSE Pushed(g[i - 1], s[i])]
        BY <2>2
      <3> QED
        BY ONLY <3>1
    <2>4. ASSUME NEW i \in 0..m
          PROVE  f[i] = IF i = 0 THEN <<>> ELSE Pushed(f[i - 1], s[i])
      <3>1. CASE i = m
        <4>1. m - 1 \in 0..m /\ m - 1 # m
          BY <2>1, <1>3
        <4>2. f[m - 1] = g[m - 1] /\ f[m] = Pushed(g[m - 1], s[m])
          BY <1>3, <4>1
        <4> QED
          BY <1>5, <3>1, <4>2
      <3>2. CASE i # m
        <4>1. i \in 0..(m - 1) /\ f[i] = g[i]
          BY <1>3, <2>4, <3>2
        <4>2. i # 0 => i - 1 \in 0..m /\ i - 1 # m
          BY <1>3, <2>4
        <4>3. i # 0 => f[i - 1] = g[i - 1]
          BY <4>2
        <4> QED
          BY <2>3, <4>1, <4>3
      <3> QED
        BY <3>1, <3>2
    <2>5. Follows(f, m)
      BY <2>4
    <2> QED
      BY <2>5
  <1> QED
    BY <1>4, <1>5

LEMMA DistinctTypes ==
    ASSUME NEW s \in Seq(DnsRecord)
    PROVE  Distinct(s) \in Seq(DnsRecord)
  <1> DEFINE N == Len(s)
             f == CHOOSE g : g = [i \in 0..N |-> IF i = 0 THEN <<>> ELSE Pushed(g[i - 1], s[i])]
             G == {i \in 0..N : f[i] \in Seq(DnsRecord)}
  <1>1. N \in Nat /\ \A i \in 1..N : s[i] \in DnsRecord
    BY LenProperties, ElementOfSeq
  <1>2. Distinct(s) = f[N]
    BY DEF Distinct
  <1> HIDE DEF N
  <1>3. f = [i \in 0..N |-> IF i = 0 THEN <<>> ELSE Pushed(f[i - 1], s[i])]
    BY <1>1, KeptExist
  <1> HIDE DEF f
  <1>4. \A i \in 0..N : f[i] = IF i = 0 THEN <<>> ELSE Pushed(f[i - 1], s[i])
    BY ONLY <1>3
  <1>5. 0 \in G
    <2>1. f[0] = <<>> /\ 0 \in 0..N
      BY <1>1, <1>4
    <2>2. <<>> \in Seq(DnsRecord)
      BY EmptySeq
    <2> QED
      BY <2>1, <2>2
  <1>6. ASSUME NEW i \in 1..N, i - 1 \in G PROVE i \in G
    <2>1. i \in 0..N /\ i # 0
      BY <1>1
    <2>2. f[i] = Pushed(f[i - 1], s[i])
      BY <1>4, <2>1
    <2>3. f[i - 1] \in Seq(DnsRecord) /\ s[i] \in DnsRecord
      BY <1>1, <1>6
    <2>4. f[i] \in Seq(DnsRecord)
      BY <2>2, <2>3, PushedTypes
    <2> QED
      BY <2>1, <2>4
  <1> HIDE DEF G
  <1>7. \A i \in 0..N : i \in G
    BY <1>1, <1>5, <1>6, UpTo
  <1>8. N \in G
    BY <1>1, <1>7
  <1> QED
    BY <1>2, <1>8 DEF G

LEMMA ReplyTypes ==
    ASSUME NEW p \in DnsPacket
    PROVE  Reply(p) \in DnsPacket
  <1>1. /\ p.answers \in Seq(DnsRecord) /\ p.authorities \in Seq(DnsRecord)
        /\ p.resources \in Seq(DnsRecord) /\ p.questions \in Seq(DnsQuestion)
        /\ Len(p.questions) <= 1 /\ p.flags \in Flags
    BY DEF DnsPacket
  <1>2. ReplyFlags(p.flags) \in Flags
    BY <1>1, ReplyFlagsTypes
  <1> DEFINE f == ReplyFlags(p.flags)
             a == Distinct(p.answers)
             u == Distinct(p.authorities)
             r == Distinct(p.resources)
             q == [flags |-> f, questions |-> p.questions, answers |-> a, authorities |-> u,
                   resources |-> r]
  <1>3. a \in Seq(DnsRecord) /\ u \in Seq(DnsRecord) /\ r \in Seq(DnsRecord)
    BY <1>1, DistinctTypes
  <1>4. Reply(p) = q
    BY DEF Reply
  <1> HIDE DEF f, a, u, r
  <1>5. q \in DnsPacket
    BY <1>1, <1>2, <1>3 DEF DnsPacket, f
  <1> QED
    BY <1>4, <1>5

LEMMA TypePassOn ==
    ASSUME TypeInv, PassOn
    PROVE  TypeInv'
  <1> DEFINE p == Reply(parsed)
  <1>1. parsed \in DnsPacket /\ transport \in Transports
    BY DEF TypeInv
  <1>2. p \in DnsPacket
    BY <1>1, ReplyTypes
  <1>3. Start(p) /\ UNCHANGED transport
    BY DEF PassOn
  <1> HIDE DEF p
  <1>4. /\ packet' = p /\ phase' = "measure" /\ next' = 1
        /\ test_buffer' = WriteQuestion(EmptyBuffer, p)
        /\ record_count' = Len(Records(p))
        /\ header' = NewHeader /\ buffer' = EmptyBuffer /\ pos' = 0 /\ parsed' = NoPacket
    BY <1>3 DEF Start
  <1>5. /\ Sound(WriteQuestion(EmptyBuffer, p)) /\ Sound(EmptyBuffer)
        /\ Len(Records(p)) \in Nat /\ NewHeader \in Headers /\ NoPacket \in DnsPacket
    BY <1>2, StartTypes
  <1>6. Sound(test_buffer)' /\ Sound(buffer)'
    BY <1>4, <1>5
  <1> QED
    BY <1>1, <1>2, <1>3, <1>4, <1>5, <1>6 DEF TypeInv, Phases

LEMMA TypeStutter ==
    ASSUME TypeInv, UNCHANGED vars
    PROVE  TypeInv'
  <1>1. UNCHANGED <<transport, packet, phase, next, test_buffer, record_count, header, buffer, pos, parsed>>
    BY DEF vars, measuring
  <1>2. Sound(test_buffer)' /\ Sound(buffer)'
    BY <1>1 DEF TypeInv
  <1> QED
    BY <1>1, <1>2 DEF TypeInv

LEMMA TypeNext == TypeInv /\ [Next]_vars => TypeInv'
  BY TypeMeasure, TypeHeader, TypeWrite, TypeReadHeader, TypeReadRecord, TypePassOn, TypeStutter DEF Next

(* Whatever is written and read, buffers are well formed, packets are      *)
(* packets, and the header a reader finds is the one that was written.     *)
THEOREM BuffersAreSound == Spec => []TypeInv
  BY TypeInit, TypeNext, PTL DEF Spec

(* Every pointer in a packet leads to an earlier place, and within the     *)
(* range of a pointer to a label (write_qname, save_label).                *)
THEOREM PointersLeadBack == Spec => []PointersGoBack
  <1>1. TypeInv => PointersGoBack
    <2>1. SUFFICES ASSUME TypeInv, NEW p \in DOMAIN buffer.cells, buffer.cells[p].kind = "pointer"
                   PROVE  /\ buffer.cells[p].to < p
                          /\ p < POINTER_RANGE =>
                               Cell(buffer, buffer.cells[p].to, transport).kind \in {"label", "end"}
      BY DEF PointersGoBack
    <2>2. /\ buffer.cells[p].to < p
          /\ p < POINTER_RANGE => /\ buffer.cells[p].to \in DOMAIN buffer.cells
                                  /\ buffer.cells[buffer.cells[p].to].kind \in {"label", "end"}
      BY <2>1 DEF TypeInv, Sound, PointersBack
    <2>3. \A x \in DOMAIN buffer.cells : Cell(buffer, x, transport) = buffer.cells[x]
      BY DEF Cell
    <2> QED
      BY <2>2, <2>3
  <1> QED
    BY <1>1, BuffersAreSound, PTL

-----------------------------------------------------------------------------
(* What the header counts.                                                 *)

(* The first k records are counted, section after section.                 *)
CountedTo(p, h, k) ==
    /\ Count(h) = k
    /\ h.answers <= Len(p.answers)
    /\ h.authorities <= Len(p.authorities)
    /\ h.resources <= Len(p.resources)
    /\ h.authorities > 0 => h.answers = Len(p.answers)
    /\ h.resources > 0 => h.answers = Len(p.answers) /\ h.authorities = Len(p.authorities)

SkippedTo(p, k) == {i \in 1..k : Records(p)[i].type = "UNKNOWN"}

CountInv ==
    /\ phase = "measure" =>
          /\ CountedTo(packet, header, next - 1)
          /\ next <= Len(Records(packet)) + 1 /\ record_count = Len(Records(packet))
          /\ ~header.truncated_message
    /\ phase # "measure" =>
          /\ CountedTo(packet, header, record_count)
          /\ header.truncated_message <=> record_count < Len(Records(packet))
    /\ phase = "header" => next = record_count + 1 /\ record_count < Len(Records(packet))
    /\ phase = "write" =>
          /\ next <= record_count + 1
          /\ Cardinality(MetaCells(buffer)) + Cardinality(SkippedTo(packet, next - 1)) = next - 1

LEMMA CountArithmetic ==
    ASSUME NEW la \in Nat, NEW lb \in Nat, NEW lc \in Nat,
           NEW x \in Nat, NEW y \in Nat, NEW z \in Nat,
           x <= la, y <= lb, z <= lc, y > 0 => x = la, z > 0 => x = la /\ y = lb,
           x + y + z < la + lb + lc
    PROVE  /\ x + y + z + 1 <= la => x < la /\ y = 0 /\ z = 0
           /\ ~(x + y + z + 1 <= la) /\ x + y + z + 1 <= la + lb => x = la /\ y < lb /\ z = 0
           /\ ~(x + y + z + 1 <= la + lb) => x = la /\ y = lb /\ z < lc
  OBVIOUS

LEMMA SectionCounted ==
    ASSUME NEW p \in DnsPacket, NEW h \in Headers, NEW k \in Nat, CountedTo(p, h, k),
           k < Len(Records(p))
    PROVE  CountedTo(p, [h EXCEPT ![Section(p, k + 1)] = @ + 1], k + 1)
  <1> DEFINE la == Len(p.answers)
             lb == Len(p.authorities)
             lc == Len(p.resources)
             x == h.answers
             y == h.authorities
             z == h.resources
             g == [h EXCEPT ![Section(p, k + 1)] = @ + 1]
  <1>1. la \in Nat /\ lb \in Nat /\ lc \in Nat /\ k < la + lb + lc
    BY PacketTypes
  <1>2. x \in Nat /\ y \in Nat /\ z \in Nat /\ x + y + z = k
    BY HeaderFields DEF CountedTo, Count
  <1>3. x <= la /\ y <= lb /\ z <= lc /\ (y > 0 => x = la) /\ (z > 0 => x = la /\ y = lb)
    BY DEF CountedTo
  <1>4. Section(p, k + 1) = IF k + 1 <= la THEN "answers"
                            ELSE IF k + 1 <= la + lb THEN "authorities" ELSE "resources"
    BY DEF Section
  <1>a. /\ [h EXCEPT !.answers = @ + 1].answers = x + 1
        /\ [h EXCEPT !.answers = @ + 1].authorities = y
        /\ [h EXCEPT !.answers = @ + 1].resources = z
    BY DEF Headers
  <1>b. /\ [h EXCEPT !.authorities = @ + 1].answers = x
        /\ [h EXCEPT !.authorities = @ + 1].authorities = y + 1
        /\ [h EXCEPT !.authorities = @ + 1].resources = z
    BY DEF Headers
  <1>c. /\ [h EXCEPT !.resources = @ + 1].answers = x
        /\ [h EXCEPT !.resources = @ + 1].authorities = y
        /\ [h EXCEPT !.resources = @ + 1].resources = z + 1
    BY DEF Headers
  <1>l. Len(p.answers) = la /\ Len(p.authorities) = lb /\ Len(p.resources) = lc
    OBVIOUS
  <1> HIDE DEF la, lb, lc, x, y, z
  <1>d. /\ k + 1 <= la => x < la /\ y = 0 /\ z = 0
        /\ ~(k + 1 <= la) /\ k + 1 <= la + lb => x = la /\ y < lb /\ z = 0
        /\ ~(k + 1 <= la + lb) => x = la /\ y = lb /\ z < lc
    <2>1. x + y + z < la + lb + lc
      BY <1>1, <1>2
    <2> QED
      BY ONLY <1>1, <1>2, <1>3, <2>1, CountArithmetic
  <1>5. CASE k + 1 <= la
    <2>1. g.answers = x + 1 /\ g.authorities = y /\ g.resources = z
      BY <1>4, <1>5, <1>a
    <2> HIDE DEF g
    <2>2. CountedTo(p, g, k + 1)
      BY ONLY <1>1, <1>2, <1>3, <1>5, <1>d, <1>l, <2>1 DEF CountedTo, Count
    <2> QED
      BY <2>2 DEF g
  <1>6. CASE ~(k + 1 <= la) /\ k + 1 <= la + lb
    <2>1. g.answers = x /\ g.authorities = y + 1 /\ g.resources = z
      BY <1>4, <1>6, <1>b
    <2> HIDE DEF g
    <2>2. CountedTo(p, g, k + 1)
      BY ONLY <1>1, <1>2, <1>3, <1>6, <1>d, <1>l, <2>1 DEF CountedTo, Count
    <2> QED
      BY <2>2 DEF g
  <1>7. CASE ~(k + 1 <= la + lb)
    <2>0. ~(k + 1 <= la)
      BY <1>1, <1>7
    <2>1. g.answers = x /\ g.authorities = y /\ g.resources = z + 1
      BY <1>4, <1>7, <1>c, <2>0
    <2> HIDE DEF g
    <2>2. CountedTo(p, g, k + 1)
      BY ONLY <1>1, <1>2, <1>3, <1>7, <1>d, <1>l, <2>1 DEF CountedTo, Count
    <2> QED
      BY <2>2 DEF g
  <1> QED
    BY <1>5, <1>6, <1>7

LEMMA HeaderUntouched ==
    ASSUME NEW h \in Headers, NEW section \in {"answers", "authorities", "resources"}
    PROVE  /\ [h EXCEPT ![section] = @ + 1].truncated_message = h.truncated_message
           /\ [h EXCEPT !.truncated_message = TRUE].truncated_message = TRUE
           /\ [h EXCEPT !.truncated_message = TRUE].answers = h.answers
           /\ [h EXCEPT !.truncated_message = TRUE].authorities = h.authorities
           /\ [h EXCEPT !.truncated_message = TRUE].resources = h.resources
  BY DEF Headers

LEMMA MetaAdded ==
    ASSUME NEW b, Sound(b), NEW r \in DnsRecord
    PROVE  /\ Cardinality(MetaCells(b)) \in Nat
           /\ Cardinality(MetaCells(DnsRecord_write(b, r)))
                = Cardinality(MetaCells(b)) + (IF r.type = "UNKNOWN" THEN 0 ELSE 1)
  <1>1. IsFiniteSet(DOMAIN b.cells)
    BY RoundsFacts DEF Sound
  <1>2. IsFiniteSet(MetaCells(b))
    BY <1>1, FS_Subset DEF MetaCells
  <1>3. Cardinality(MetaCells(b)) \in Nat
    BY <1>2, FS_CardinalityType
  <1>4. CASE r.type = "UNKNOWN"
    <2>1. DnsRecord_write(b, r) = b
      BY <1>4, SoundRecord
    <2> QED
      BY <1>3, <1>4, <2>1
  <1>5. CASE r.type # "UNKNOWN"
    <2>1. PICK p : p \notin MetaCells(b) /\ MetaCells(DnsRecord_write(b, r)) = MetaCells(b) \cup {p}
      BY <1>5, SoundRecord
    <2>2. Cardinality(MetaCells(b) \cup {p}) = Cardinality(MetaCells(b)) + 1
      BY <1>2, <2>1, FS_AddElement
    <2> QED
      BY <1>3, <1>5, <2>1, <2>2
  <1> QED
    BY <1>4, <1>5

LEMMA SkippedAdded ==
    ASSUME NEW p, NEW k \in Nat
    PROVE  /\ Cardinality(SkippedTo(p, k)) \in Nat
           /\ Cardinality(SkippedTo(p, k + 1))
                = Cardinality(SkippedTo(p, k)) + (IF Records(p)[k + 1].type = "UNKNOWN" THEN 1 ELSE 0)
  <1>1. IsFiniteSet(1..k)
    BY FS_Interval
  <1>2. IsFiniteSet(SkippedTo(p, k))
    BY <1>1, FS_Subset DEF SkippedTo
  <1>3. Cardinality(SkippedTo(p, k)) \in Nat
    BY <1>2, FS_CardinalityType
  <1>4. k + 1 \notin SkippedTo(p, k)
    BY DEF SkippedTo
  <1>5. CASE Records(p)[k + 1].type = "UNKNOWN"
    <2>1. SkippedTo(p, k + 1) = SkippedTo(p, k) \cup {k + 1}
      BY <1>5 DEF SkippedTo
    <2>2. Cardinality(SkippedTo(p, k) \cup {k + 1}) = Cardinality(SkippedTo(p, k)) + 1
      BY <1>2, <1>4, FS_AddElement
    <2> QED
      BY <1>3, <1>5, <2>1, <2>2
  <1>6. CASE Records(p)[k + 1].type # "UNKNOWN"
    <2>1. SkippedTo(p, k + 1) = SkippedTo(p, k)
      BY <1>6 DEF SkippedTo
    <2> QED
      BY <1>3, <1>6, <2>1
  <1> QED
    BY <1>5, <1>6

LEMMA NothingSkipped == \A p : SkippedTo(p, 0) = {} /\ Cardinality({}) = 0
  BY FS_EmptySet DEF SkippedTo

LEMMA NothingCounted ==
    ASSUME NEW p \in DnsPacket
    PROVE  CountedTo(p, NewHeader, 0) /\ ~NewHeader.truncated_message
  BY PacketTypes DEF CountedTo, NewHeader, Count

(* A packet about to be measured has nothing counted.                      *)
LEMMA CountStart ==
    ASSUME NEW p \in DnsPacket
    PROVE  CountedTo(p, NewHeader, 1 - 1) /\ 1 <= Len(Records(p)) + 1 /\ ~NewHeader.truncated_message
  <1>1. Len(Records(p)) \in Nat /\ 1 - 1 = 0
    BY PacketTypes
  <1> QED
    BY <1>1, NothingCounted

LEMMA CountInit == Init => CountInv
  <1> SUFFICES ASSUME Init PROVE CountInv
    OBVIOUS
  <1>1. packet \in DnsPacket
    BY TypeInit DEF TypeInv
  <1>2. phase = "measure" /\ next = 1 /\ header = NewHeader /\ record_count = Len(Records(packet))
    BY DEF Init
  <1>3. CountedTo(packet, header, next - 1) /\ next <= Len(Records(packet)) + 1 /\ ~header.truncated_message
    BY <1>1, <1>2, CountStart
  <1> QED
    BY <1>2, <1>3 DEF CountInv

LEMMA CountMeasure ==
    ASSUME TypeInv, CountInv, MeasureRecord
    PROVE  CountInv'
  <1>1. /\ packet \in DnsPacket /\ header \in Headers /\ next \in Nat /\ next >= 1
        /\ phase = "measure" /\ next <= Len(Records(packet)) /\ Len(Records(packet)) \in Nat
    BY PacketTypes DEF TypeInv, MeasureRecord
  <1> DEFINE k == next - 1
             N == Len(Records(packet))
  <1>2. /\ CountedTo(packet, header, k) /\ record_count = N /\ ~header.truncated_message
    BY <1>1 DEF CountInv
  <1>3. k \in Nat /\ k < N /\ next = k + 1 /\ N \in Nat
    BY <1>1
  <1>4. UNCHANGED packet
    BY DEF MeasureRecord
  <1>5. PICK after, new : Measured(after, new)
    BY DEF MeasureRecord
  <1> HIDE DEF k, N
  <1>6. CASE new <= max_size(transport)
    <2>1. /\ header' = [header EXCEPT ![Section(packet, k + 1)] = @ + 1]
          /\ next' = next + 1 /\ phase' = "measure" /\ record_count' = record_count
      BY <1>3, <1>5, <1>6 DEF Measured
    <2>2. CountedTo(packet, header', k + 1)
      BY <1>1, <1>2, <1>3, <2>1, SectionCounted DEF N
    <2>3. ~header'.truncated_message
      BY <1>1, <1>2, <2>1, HeaderUntouched, SectionNames
    <2>4. next' - 1 = k + 1 /\ next' <= N + 1
      BY <1>3, <2>1
    <2> QED
      BY <1>2, <1>4, <2>1, <2>2, <2>3, <2>4 DEF CountInv, N
  <1>7. CASE ~(new <= max_size(transport))
    <2>1. /\ header' = [header EXCEPT !.truncated_message = TRUE]
          /\ next' = next /\ phase' = "header" /\ record_count' = next - 1
      BY <1>5, <1>7 DEF Measured
    <2>2. /\ header'.truncated_message = TRUE /\ header'.answers = header.answers
          /\ header'.authorities = header.authorities /\ header'.resources = header.resources
      BY <1>1, <2>1, HeaderUntouched
    <2>3. CountedTo(packet, header', k)
      BY <1>2, <2>2 DEF CountedTo, Count
    <2>4. record_count' = k /\ next' = k + 1
      BY <1>3, <2>1
    <2> QED
      BY <1>3, <1>4, <2>1, <2>2, <2>3, <2>4 DEF CountInv, N
  <1> QED
    BY <1>6, <1>7

LEMMA CountHeader ==
    ASSUME TypeInv, CountInv, WriteHeader
    PROVE  CountInv'
  <1> DEFINE w == WriteQuestion(Opening(packet, header), packet)
             N == Len(Records(packet))
  <1>1. /\ packet \in DnsPacket /\ header \in Headers /\ next \in Nat /\ next >= 1
        /\ N \in Nat /\ record_count \in Nat
        /\ phase = "header" \/ (phase = "measure" /\ next > N)
    BY PacketTypes DEF TypeInv, WriteHeader
  <1>2. /\ buffer' = w /\ phase' = "write" /\ next' = 1
        /\ UNCHANGED <<packet, header, record_count>>
    BY DEF WriteHeader, Opening, HeaderCell, FlagsOf, measuring
  <1>3. MetaCells(w) = {}
    BY <1>1, SoundHeader
  <1> HIDE DEF w
  <1>4. CountedTo(packet, header, record_count) /\ (header.truncated_message <=> record_count < N)
    <2>1. CASE phase = "header"
      BY <2>1 DEF CountInv
    <2>2. CASE phase = "measure" /\ next > N
      <3>1. /\ CountedTo(packet, header, next - 1) /\ next <= N + 1 /\ record_count = N
            /\ ~header.truncated_message
        BY <2>2 DEF CountInv
      <3>2. next - 1 = N /\ ~(record_count < N)
        BY <1>1, <2>2, <3>1
      <3> QED
        BY <3>1, <3>2
    <2> QED
      BY <1>1, <2>1, <2>2
  <1>5. MetaCells(buffer)' = {}
    BY <1>2, <1>3 DEF MetaCells
  <1>6. /\ Cardinality(MetaCells(buffer)') = 0 /\ next' - 1 = 0
        /\ Cardinality(SkippedTo(packet, next' - 1)) = 0
    BY <1>2, <1>5, NothingSkipped
  <1>7. /\ Cardinality(MetaCells(buffer)') + Cardinality(SkippedTo(packet, next' - 1)) = next' - 1
        /\ next' <= record_count + 1
    BY <1>1, <1>2, <1>6
  <1> HIDE DEF N
  <1>8. /\ phase' = "write" /\ CountedTo(packet', header', record_count')
        /\ header'.truncated_message <=> record_count' < Len(Records(packet'))
        /\ next' <= record_count' + 1
        /\ Cardinality(MetaCells(buffer)') + Cardinality(SkippedTo(packet', next' - 1)) = next' - 1
    BY <1>2, <1>4, <1>7 DEF N
  <1> QED
    BY <1>8 DEF CountInv

LEMMA CountWrite ==
    ASSUME TypeInv, CountInv, WriteRecord
    PROVE  CountInv'
  <1> DEFINE k == next - 1
             r == Records(packet)[next]
             w == DnsRecord_write(buffer, r)
  <1>1. /\ packet \in DnsPacket /\ next \in Nat /\ next >= 1 /\ record_count \in Nat
        /\ Len(Records(packet)) \in Nat /\ record_count <= Len(Records(packet))
        /\ Sound(buffer) /\ next <= record_count /\ phase = "write"
    BY PacketTypes DEF TypeInv, WriteRecord
  <1>2. /\ CountedTo(packet, header, record_count)
        /\ header.truncated_message <=> record_count < Len(Records(packet))
        /\ Cardinality(MetaCells(buffer)) + Cardinality(SkippedTo(packet, k)) = k
    BY <1>1 DEF CountInv
  <1>3. next \in 1..Len(Records(packet))
    BY <1>1
  <1>4. r \in DnsRecord
    BY <1>1, <1>3, PacketTypes
  <1>5. /\ buffer' = w /\ next' = next + 1 /\ phase' = "write"
        /\ UNCHANGED <<packet, header, record_count>>
    BY <1>1 DEF WriteRecord, measuring
  <1>6. k \in Nat /\ next = k + 1 /\ next' - 1 = k + 1 /\ next' <= record_count + 1
    BY <1>1, <1>5
  <1>7. r = Records(packet)[k + 1]
    BY <1>6
  <1> HIDE DEF r, k
  <1>8. /\ Cardinality(MetaCells(buffer)) \in Nat
        /\ Cardinality(MetaCells(w))
             = Cardinality(MetaCells(buffer)) + (IF r.type = "UNKNOWN" THEN 0 ELSE 1)
    BY <1>1, <1>4, MetaAdded
  <1>9. /\ Cardinality(SkippedTo(packet, k)) \in Nat
        /\ Cardinality(SkippedTo(packet, k + 1))
             = Cardinality(SkippedTo(packet, k)) + (IF r.type = "UNKNOWN" THEN 1 ELSE 0)
    BY <1>6, <1>7, SkippedAdded
  <1> HIDE DEF w
  <1>10. Cardinality(MetaCells(w)) + Cardinality(SkippedTo(packet, k + 1)) = k + 1
    BY <1>2, <1>6, <1>8, <1>9
  <1>11. MetaCells(buffer)' = MetaCells(w)
    BY <1>5 DEF MetaCells
  <1>12. /\ phase' = "write" /\ CountedTo(packet', header', record_count')
         /\ header'.truncated_message <=> record_count' < Len(Records(packet'))
         /\ next' <= record_count' + 1
         /\ Cardinality(MetaCells(buffer)') + Cardinality(SkippedTo(packet', next' - 1)) = next' - 1
    BY <1>2, <1>5, <1>6, <1>10, <1>11
  <1> QED
    BY <1>12 DEF CountInv

LEMMA ReadPhase ==
    ASSUME TypeInv, ReadHeader \/ ReadRecord
    PROVE  phase' \in {"read", "ok", "failed", "garbage"}
  <1>1. CASE ReadHeader
    <2>1. phase' \in {"read", ReadQuestions(buffer, Len(packet.questions), transport).status}
      BY <1>1 DEF ReadHeader
    <2>2. ReadQuestions(buffer, Len(packet.questions), transport).status \in Statuses
      BY QuestionsReadTypes DEF TypeInv, GoodQuestions
    <2> QED
      BY <2>1, <2>2 DEF Statuses
  <1>2. CASE ReadRecord
    <2>1. phase' \in {"read", DnsRecord_read(buffer, pos, transport).status}
      BY <1>2 DEF ReadRecord
    <2>2. DnsRecord_read(buffer, pos, transport).status \in Statuses
      BY RecordReadTypes DEF TypeInv, GoodRead
    <2> QED
      BY <2>1, <2>2 DEF Statuses
  <1> QED
    BY <1>1, <1>2

LEMMA CountRead ==
    ASSUME TypeInv, CountInv, ReadHeader \/ ReadRecord
    PROVE  CountInv'
  <1>1. phase \in {"write", "read"} /\ UNCHANGED <<packet, header, record_count>>
    BY DEF ReadHeader, ReadRecord, measuring
  <1>2. phase' \in {"read", "ok", "failed", "garbage"}
    BY ReadPhase
  <1>3. /\ CountedTo(packet, header, record_count)
        /\ header.truncated_message <=> record_count < Len(Records(packet))
    BY <1>1 DEF CountInv
  <1>4. /\ CountedTo(packet', header', record_count')
        /\ header'.truncated_message <=> record_count' < Len(Records(packet'))
    BY <1>1, <1>3
  <1> QED
    BY <1>2, <1>4 DEF CountInv

LEMMA CountPassOn ==
    ASSUME TypeInv, PassOn
    PROVE  CountInv'
  <1> DEFINE p == Reply(parsed)
  <1>1. p \in DnsPacket
    BY ReplyTypes DEF TypeInv
  <1>2. Start(p)
    BY DEF PassOn
  <1> HIDE DEF p
  <1>3. /\ packet' = p /\ phase' = "measure" /\ next' = 1
        /\ record_count' = Len(Records(p)) /\ header' = NewHeader
    BY <1>2 DEF Start
  <1>4. /\ CountedTo(packet', header', next' - 1) /\ next' <= Len(Records(packet')) + 1
        /\ ~header'.truncated_message
    BY <1>1, <1>3, CountStart
  <1> QED
    BY <1>3, <1>4 DEF CountInv

LEMMA CountStutter ==
    ASSUME CountInv, UNCHANGED vars
    PROVE  CountInv'
  <1>1. UNCHANGED <<packet, phase, next, record_count, header, buffer>>
    BY DEF vars, measuring
  <1>2. MetaCells(buffer)' = MetaCells(buffer)
    BY <1>1
  <1> QED
    BY <1>1, <1>2 DEF CountInv

LEMMA CountNext == TypeInv /\ CountInv /\ [Next]_vars => CountInv'
  BY CountMeasure, CountHeader, CountWrite, CountRead, CountPassOn, CountStutter DEF Next

(* The header tells a reader of as many records as there are, those of     *)
(* unknown types apart, and cuts the sections from the last backwards      *)
(* (DnsPacket::write).                                                     *)
THEOREM CountsAreTrue == Spec => []CountsTellWhatFollows
  <1>1. TypeInv /\ CountInv => CountsTellWhatFollows
    <2> SUFFICES ASSUME TypeInv, CountInv, phase = "write" /\ next > record_count
                 PROVE  /\ Cardinality(MetaCells(buffer)) + Cardinality(SkippedTo(packet, record_count))
                             = Count(header)
                        /\ header.answers <= Len(packet.answers)
                        /\ header.authorities > 0 => header.answers = Len(packet.answers)
                        /\ header.resources > 0 => header.authorities = Len(packet.authorities)
      BY DEF CountsTellWhatFollows, MetaCells, SkippedTo
    <2>1. /\ next \in Nat /\ record_count \in Nat /\ next <= record_count + 1
          /\ Cardinality(MetaCells(buffer)) + Cardinality(SkippedTo(packet, next - 1)) = next - 1
          /\ CountedTo(packet, header, record_count)
      BY DEF TypeInv, CountInv
    <2>2. next - 1 = record_count
      BY <2>1
    <2> QED
      BY <2>1, <2>2 DEF CountedTo
  <1>2. Spec => []CountInv
    BY CountInit, CountNext, BuffersAreSound, PTL DEF Spec
  <1> QED
    BY <1>1, <1>2, BuffersAreSound, PTL

-----------------------------------------------------------------------------
(* The buffer that is measured and the one that is sent grow alike.        *)

(* c knows the same names as b and is d bytes behind it.                   *)
InStep(b, c, d) == b.pos = c.pos + d /\ DOMAIN b.labels = DOMAIN c.labels

LEMMA InStepPut ==
    ASSUME NEW b, NEW c, NEW d \in Nat, InStep(b, c, d), c.pos \in Nat,
           NEW x, NEW y, NEW length \in Nat
    PROVE  InStep(Put(b, x, length), Put(c, y, length), d)
  <1>1. /\ Put(b, x, length).pos = b.pos + length /\ Put(b, x, length).labels = b.labels
        /\ Put(c, y, length).pos = c.pos + length /\ Put(c, y, length).labels = c.labels
    BY PutFacts
  <1>2. b.pos + length = c.pos + length + d
    BY DEF InStep
  <1> QED
    BY <1>1, <1>2 DEF InStep

LEMMA InStepName ==
    ASSUME NEW b, NEW c, NEW d \in Nat, InStep(b, c, d), Ends(b), Ends(c), NEW name \in Seq(Labels)
    PROVE  InStep(write_qname(b, name), write_qname(c, name), d)
  <1> DEFINE n == LabelsWritten(name, Known(b, name))
             v == write_qname(b, name)
             w == write_qname(c, name)
  <1>1. Known(b, name) = Known(c, name)
    BY DEF Known, InStep
  <1>2. NameIn(b, name, n, v)
    BY NameWritten
  <1>3. NameIn(c, name, n, w)
    BY <1>1, NameWritten
  <1> HIDE DEF n, v, w
  <1>4. n \in 0..Len(name) /\ b.pos \in Nat /\ c.pos \in Nat /\ b.pos = c.pos + d
    BY <1>2 DEF NameIn, Ends, InStep
  <1> DEFINE e == IF n = Len(name) THEN 1 ELSE 2
             x == Positions(b.pos, name)[n]
             y == Positions(c.pos, name)[n]
  <1>5. v.pos = x + e /\ w.pos = y + e
    BY <1>2, <1>3 DEF NameIn
  <1>6. x \in Nat /\ y \in Nat /\ x - b.pos = y - c.pos
    BY <1>4, PositionsShift
  <1>7. e \in Nat
    OBVIOUS
  <1> HIDE DEF e, x, y
  <1>8. v.pos = w.pos + d
    BY <1>4, <1>5, <1>6, <1>7
  <1>9. /\ DOMAIN v.labels = DOMAIN b.labels \cup {Suffix(name, i) : i \in 1..n}
        /\ DOMAIN w.labels = DOMAIN c.labels \cup {Suffix(name, i) : i \in 1..n}
    BY <1>2, <1>3 DEF NameIn
  <1>10. DOMAIN v.labels = DOMAIN w.labels
    BY <1>9 DEF InStep
  <1> QED
    BY <1>8, <1>10 DEF InStep, v, w

LEMMA InStepRecord ==
    ASSUME NEW b, NEW c, NEW d \in Nat, InStep(b, c, d), Sound(b), Sound(c), NEW r \in DnsRecord
    PROVE  InStep(DnsRecord_write(b, r), DnsRecord_write(c, r), d)
  <1>1. CASE r.type = "UNKNOWN"
    BY <1>1, SoundRecord
  <1>2. CASE r.type # "UNKNOWN"
    <2> DEFINE N == Len(r.names)
               v == DnsRecord_write(b, r)
               w == DnsRecord_write(c, r)
    <2>1. PICK f : NamesIn(b, r, f) /\ v = [f[N] EXCEPT !.pos = @ + Behind(r.type)]
      BY <1>2, RecordUnfolds
    <2>2. PICK g : NamesIn(c, r, g) /\ w = [g[N] EXCEPT !.pos = @ + Behind(r.type)]
      BY <1>2, RecordUnfolds
    <2>3. N \in Nat /\ \A i \in 1..N : r.names[i] \in Seq(Labels)
      BY RecordTypes
    <2> HIDE DEF N, v, w
    <2> DEFINE Good(i) == /\ InStep(f[i], g[i], d) /\ Sound(f[i]) /\ Sound(g[i])
                          /\ IsBuffer(f[i]) /\ IsBuffer(g[i])
               S == {i \in 0..N : Good(i)}
    <2>4. InStep(NamedBy(b, r), NamedBy(c, r), d)
      <3>1. r.domain \in Seq(Labels) /\ Ends(b) /\ Ends(c) /\ c.pos \in Nat
        BY RecordTypes DEF Sound, Ends
      <3>2. InStep(write_qname(b, r.domain), write_qname(c, r.domain), d)
        BY <3>1, InStepName
      <3>3. InStep(Put(b, End, 1), Put(c, End, 1), d)
        BY <3>1, InStepPut
      <3> QED
        BY <3>2, <3>3 DEF NamedBy
    <2>5. Good(0)
      <3>1. f[0] = FilledBy(b, r) /\ g[0] = FilledBy(c, r)
        BY <2>1, <2>2 DEF NamesIn
      <3>2. /\ Sound(FilledBy(b, r)) /\ IsBuffer(FilledBy(b, r))
            /\ Sound(FilledBy(c, r)) /\ IsBuffer(FilledBy(c, r))
        BY SoundFilledBy
      <3>3. Sound(NamedBy(c, r)) /\ MetaLen(r) \in Nat
        BY SoundNamedBy, MetaFacts
      <3>4. NamedBy(c, r).pos \in Nat
        BY <3>3 DEF Sound, Ends
      <3>5. InStep(FilledBy(b, r), FilledBy(c, r), d)
        BY <2>4, <3>3, <3>4, InStepPut DEF FilledBy
      <3> QED
        BY <3>1, <3>2, <3>5
    <2>6. ASSUME NEW i \in 1..N, i - 1 \in S PROVE i \in S
      <3>1. Good(i - 1) /\ i \in 0..N
        BY <2>3, <2>6
      <3> DEFINE x == f[i - 1]
                 y == g[i - 1]
      <3>2. f[i] = write_qname(x, r.names[i]) /\ g[i] = write_qname(y, r.names[i])
        BY <2>1, <2>2 DEF NamesIn, N
      <3>3. r.names[i] \in Seq(Labels)
        BY <2>3
      <3>4. InStep(x, y, d) /\ Sound(x) /\ Sound(y)
        BY <3>1
      <3> HIDE DEF x, y
      <3>5. InStep(write_qname(x, r.names[i]), write_qname(y, r.names[i]), d)
        BY <3>3, <3>4, InStepName DEF Sound
      <3>6. /\ Sound(write_qname(x, r.names[i])) /\ IsBuffer(write_qname(x, r.names[i]))
            /\ Sound(write_qname(y, r.names[i])) /\ IsBuffer(write_qname(y, r.names[i]))
        BY <3>3, <3>4, SoundName
      <3>7. Good(i)
        BY <3>2, <3>5, <3>6
      <3> QED
        BY <3>1, <3>7
    <2>7. Good(N)
      <3>1. 0 \in S
        BY <2>3, <2>5
      <3> HIDE DEF S, Good
      <3>2. \A i \in 0..N : i \in S
        BY <2>3, <2>6, <3>1, UpTo
      <3>3. N \in S
        BY <2>3, <3>2
      <3> QED
        BY <3>3 DEF S
    <2>8. /\ v.pos = f[N].pos + Behind(r.type) /\ v.labels = f[N].labels
          /\ w.pos = g[N].pos + Behind(r.type) /\ w.labels = g[N].labels
      BY <2>1, <2>2, <2>7, SkippedFacts
    <2>9. Behind(r.type) \in Nat /\ f[N].pos = g[N].pos + d /\ g[N].pos \in Nat
      BY <2>7, NumberTypes DEF InStep, Sound, Ends
    <2>10. v.pos = w.pos + d
      BY <2>8, <2>9
    <2> QED
      BY <2>7, <2>8, <2>10 DEF InStep, v, w
  <1> QED
    BY <1>1, <1>2

LEMMA InStepQuestion ==
    ASSUME NEW b, NEW c, NEW d \in Nat, InStep(b, c, d), Sound(b), Sound(c), NEW p \in DnsPacket
    PROVE  InStep(WriteQuestion(b, p), WriteQuestion(c, p), d)
  <1>1. CASE p.questions = <<>>
    BY <1>1 DEF WriteQuestion
  <1>2. CASE p.questions # <<>>
    <2> DEFINE name == p.questions[1].name
               cell == [kind |-> "question", type |-> p.questions[1].type]
    <2>1. name \in Seq(Labels)
      BY <1>2, QuestionTypes
    <2>2. /\ WriteQuestion(b, p) = Put(write_qname(b, name), cell, QUESTION_META)
          /\ WriteQuestion(c, p) = Put(write_qname(c, name), cell, QUESTION_META)
      BY <1>2 DEF WriteQuestion, question_write
    <2> HIDE DEF name, cell
    <2>3. InStep(write_qname(b, name), write_qname(c, name), d)
      BY <2>1, InStepName DEF Sound
    <2>4. write_qname(c, name).pos \in Nat /\ QUESTION_META \in Nat
      BY <2>1, SoundName DEF Sound, Ends, QUESTION_META
    <2> QED
      BY <2>2, <2>3, <2>4, InStepPut
  <1> QED
    BY <1>1, <1>2

(* The buffers a packet is measured in, one for every record.              *)
Trace(p) ==
    LET trace[i \in 0..Len(Records(p))] ==
            IF i = 0 THEN WriteQuestion(EmptyBuffer, p) ELSE DnsRecord_write(trace[i - 1], Records(p)[i])
    IN  trace

LEMMA TraceExists ==
    ASSUME NEW start, NEW records, NEW N \in Nat
    PROVE  \E f : f = [i \in 0..N |-> IF i = 0 THEN start ELSE DnsRecord_write(f[i - 1], records[i])]
  <1> DEFINE Follows(f, m) ==
                f = [i \in 0..m |-> IF i = 0 THEN start ELSE DnsRecord_write(f[i - 1], records[i])]
             S == {m \in Nat : \E f : Follows(f, m)}
  <1>1. 0 \in S
    <2>1. Follows([k \in 0..0 |-> start], 0)
      OBVIOUS
    <2> QED
      BY <2>1
  <1>2. ASSUME NEW m \in 1..N, m - 1 \in S PROVE m \in S
    <2>1. m \in Nat /\ m # 0 /\ m - 1 \in Nat
      OBVIOUS
    <2>2. PICK g : Follows(g, m - 1)
      BY <1>2
    <2> DEFINE f == [k \in 0..m |-> IF k = m THEN DnsRecord_write(g[m - 1], records[m]) ELSE g[k]]
    <2>3. \A k \in 0..(m - 1) : g[k] = IF k = 0 THEN start ELSE DnsRecord_write(g[k - 1], records[k])
      <3>1. g = [k \in 0..(m - 1) |-> IF k = 0 THEN start ELSE DnsRecord_write(g[k - 1], records[k])]
        BY <2>2
      <3> QED
        BY ONLY <3>1
    <2>4. ASSUME NEW k \in 0..m
          PROVE  f[k] = IF k = 0 THEN start ELSE DnsRecord_write(f[k - 1], records[k])
      <3>1. CASE k = m
        <4>1. m - 1 \in 0..m /\ m - 1 # m
          BY <2>1
        <4>2. f[m - 1] = g[m - 1] /\ f[m] = DnsRecord_write(g[m - 1], records[m])
          BY <2>1, <4>1
        <4> QED
          BY <2>1, <3>1, <4>2
      <3>2. CASE k # m
        <4>1. k \in 0..(m - 1) /\ f[k] = g[k]
          BY <2>1, <2>4, <3>2
        <4>2. k # 0 => k - 1 \in 0..m /\ k - 1 # m
          BY <2>1, <2>4
        <4>3. k # 0 => f[k - 1] = g[k - 1]
          BY <4>2
        <4> QED
          BY <2>3, <4>1, <4>3
      <3> QED
        BY <3>1, <3>2
    <2>5. Follows(f, m)
      BY <2>4
    <2> QED
      BY <2>1, <2>5
  <1> HIDE DEF S
  <1>3. \A i \in 0..N : i \in S
    BY <1>1, <1>2, UpTo
  <1>4. N \in S
    BY <1>3
  <1> QED
    BY <1>4 DEF S

LEMMA TraceUnfolds ==
    ASSUME NEW p \in DnsPacket
    PROVE  /\ Trace(p)[0] = WriteQuestion(EmptyBuffer, p)
           /\ \A i \in 1..Len(Records(p)) :
                 Trace(p)[i] = DnsRecord_write(Trace(p)[i - 1], Records(p)[i])
  <1> DEFINE N == Len(Records(p))
             start == WriteQuestion(EmptyBuffer, p)
             R == Records(p)
             f == Trace(p)
  <1>1. N \in Nat
    BY PacketTypes
  <1>2. f = [i \in 0..N |-> IF i = 0 THEN start ELSE DnsRecord_write(f[i - 1], R[i])]
    BY <1>1, TraceExists DEF Trace
  <1> HIDE DEF f, start, R, N
  <1>3. \A i \in 0..N : f[i] = IF i = 0 THEN start ELSE DnsRecord_write(f[i - 1], R[i])
    BY ONLY <1>2
  <1>4. 0 \in 0..N /\ \A i \in 1..N : i \in 0..N /\ i # 0
    BY <1>1
  <1>5. f[0] = start /\ \A i \in 1..N : f[i] = DnsRecord_write(f[i - 1], R[i])
    BY <1>3, <1>4
  <1> QED
    BY <1>5 DEF f, start, R, N

LEMMA TraceSound ==
    ASSUME NEW p \in DnsPacket, NEW k \in 0..Len(Records(p))
    PROVE  Sound(Trace(p)[k]) /\ Trace(p)[k].pos \in Nat
  <1> DEFINE N == Len(Records(p))
             S == {i \in 0..N : Sound(Trace(p)[i])}
  <1>1. N \in Nat
    BY PacketTypes
  <1>2. 0 \in S
    BY <1>1, TraceUnfolds, SoundEmpty, SoundQuestion
  <1>3. ASSUME NEW i \in 1..N, i - 1 \in S PROVE i \in S
    <2>1. Sound(Trace(p)[i - 1]) /\ i \in 0..N
      BY <1>1, <1>3
    <2>2. Trace(p)[i] = DnsRecord_write(Trace(p)[i - 1], Records(p)[i]) /\ Records(p)[i] \in DnsRecord
      BY TraceUnfolds, PacketTypes
    <2>3. Sound(Trace(p)[i])
      BY <2>1, <2>2, SoundRecord
    <2> QED
      BY <2>1, <2>3
  <1> HIDE DEF S
  <1>4. \A i \in 0..N : i \in S
    BY <1>1, <1>2, <1>3, UpTo
  <1>5. Sound(Trace(p)[k])
    BY <1>4 DEF S
  <1> QED
    BY <1>5 DEF Sound, Ends

(* What is measured: all but the four bytes of the question.               *)
Unmeasured(p) == Len(p.questions) * QUESTION_META

SizeOf(p, k) == Trace(p)[k].pos + HEADER - Unmeasured(p)

LEMMA SizeTypes ==
    ASSUME NEW p \in DnsPacket, NEW k \in 0..Len(Records(p))
    PROVE  Unmeasured(p) \in Nat /\ SizeOf(p, k) \in Int
  <1>1. Trace(p)[k].pos \in Nat
    BY TraceSound
  <1>2. Len(p.questions) \in 0..1
    BY QuestionTypes
  <1>3. Unmeasured(p) \in Nat
    BY <1>2 DEF Unmeasured, QUESTION_META
  <1> QED
    BY <1>1, <1>3 DEF SizeOf, HEADER

LEMMA SizeStart ==
    ASSUME NEW p \in DnsPacket
    PROVE  MeasuredQuestion(p) = SizeOf(p, 0)
  <1>1. Trace(p)[0] = WriteQuestion(EmptyBuffer, p)
    BY TraceUnfolds
  <1>2. CASE p.questions = <<>>
    <2>1. Len(p.questions) = 0 /\ WriteQuestion(EmptyBuffer, p) = EmptyBuffer
      BY <1>2, QuestionTypes DEF WriteQuestion
    <2>2. EmptyBuffer.pos = 0 /\ MeasuredQuestion(p) = HEADER
      BY <1>2 DEF EmptyBuffer, MeasuredQuestion, HEADER
    <2> QED
      BY <1>1, <2>1, <2>2 DEF SizeOf, Unmeasured, HEADER, QUESTION_META
  <1>3. CASE p.questions # <<>>
    <2> DEFINE name == p.questions[1].name
               cell == [kind |-> "question", type |-> p.questions[1].type]
               w == write_qname(EmptyBuffer, name)
               n == LabelsWritten(name, Known(EmptyBuffer, name))
               x == Positions(0, name)[Len(name)]
    <2>1. name \in Seq(Labels) /\ Len(p.questions) = 1
      BY <1>3, QuestionTypes
    <2>2. Trace(p)[0].pos = w.pos + QUESTION_META
      BY <1>1, <1>3, PutFacts DEF WriteQuestion, question_write
    <2>3. MeasuredQuestion(p) = HEADER + Positions(1, name)[Len(name)]
      BY <1>3 DEF MeasuredQuestion, binary_len
    <2>4. EmptyBuffer.pos = 0 /\ EmptyBuffer.labels = <<>> /\ Ends(EmptyBuffer)
      BY SoundEmpty DEF EmptyBuffer, Sound
    <2> HIDE DEF name, w, n
    <2>5. NameIn(EmptyBuffer, name, n, w)
      BY <2>1, <2>4, NameWritten DEF w, n
    <2>6. n = Len(name) \/ Suffix(name, n + 1) \in DOMAIN <<>>
      BY <2>4, <2>5 DEF NameIn
    <2>7. n = Len(name) /\ w.pos = Positions(0, name)[n] + 1
      BY <2>4, <2>5, <2>6 DEF NameIn
    <2>8. Len(name) \in 0..Len(name)
      BY <2>1, NameTypes
    <2>9. /\ Positions(0, name)[Len(name)] \in Nat /\ Positions(1, name)[Len(name)] \in Nat
          /\ Positions(1, name)[Len(name)] - 1 = Positions(0, name)[Len(name)] - 0
      BY <2>1, <2>8, PositionsShift
    <2>10. w.pos = x + 1 /\ Positions(1, name)[Len(name)] = x + 1 /\ x \in Nat
      BY <2>7, <2>9
    <2> HIDE DEF x
    <2> QED
      BY <2>1, <2>2, <2>3, <2>10 DEF SizeOf, Unmeasured, HEADER, QUESTION_META
  <1> QED
    BY <1>2, <1>3

(* The first k records of the packet are those that fit.                   *)
FitTo(p, t, k) ==
    /\ k = 0 \/ SizeOf(p, k) <= max_size(t)
    /\ k < Len(Records(p)) => SizeOf(p, k + 1) > max_size(t)

SizeInv ==
    /\ phase = "measure" =>
          /\ test_buffer = Trace(packet)[next - 1] /\ size = SizeOf(packet, next - 1)
          /\ next = 1 \/ size <= max_size(transport)
    /\ phase # "measure" => FitTo(packet, transport, record_count)
    /\ phase = "write" => InStep(buffer, Trace(packet)[next - 1], HEADER)

LEMMA SizeInit == Init => SizeInv
  <1> SUFFICES ASSUME Init PROVE SizeInv
    OBVIOUS
  <1>1. packet \in DnsPacket
    BY TypeInit DEF TypeInv
  <1>2. /\ phase = "measure" /\ next = 1 /\ size = MeasuredQuestion(packet)
        /\ test_buffer = WriteQuestion(EmptyBuffer, packet) /\ next - 1 = 0
    BY DEF Init
  <1> QED
    BY <1>1, <1>2, SizeStart, TraceUnfolds DEF SizeInv

LEMMA SizeMeasure ==
    ASSUME TypeInv, CountInv, SizeInv, MeasureRecord
    PROVE  SizeInv'
  <1> DEFINE N == Len(Records(packet))
             k == next - 1
             T == Trace(packet)
             r == Records(packet)[next]
             max == max_size(transport)
  <1>1. /\ packet \in DnsPacket /\ transport \in Transports /\ next \in Nat /\ next >= 1
        /\ phase = "measure" /\ next <= N /\ N \in Nat
    BY PacketTypes DEF TypeInv, MeasureRecord
  <1>2. next \in 1..N /\ next \in 0..N /\ k \in 0..N /\ k < N /\ next = k + 1
    BY <1>1
  <1>3. test_buffer = T[k] /\ size = SizeOf(packet, k) /\ (next = 1 \/ size <= max)
        /\ record_count = N
    BY <1>1 DEF SizeInv, CountInv
  <1>4. T[next] = DnsRecord_write(test_buffer, r)
    BY <1>1, <1>2, <1>3, TraceUnfolds
  <1>5. Measured(T[next], size + T[next].pos - test_buffer.pos) /\ UNCHANGED <<packet, transport>>
    BY <1>4 DEF MeasureRecord
  <1>6. size + T[next].pos - test_buffer.pos = SizeOf(packet, next)
    <2>1. T[next].pos \in Nat /\ T[k].pos \in Nat /\ Unmeasured(packet) \in Nat
      BY <1>1, <1>2, TraceSound, SizeTypes
    <2>2. size = T[k].pos + HEADER - Unmeasured(packet) /\ test_buffer.pos = T[k].pos
      BY <1>3 DEF SizeOf
    <2>3. SizeOf(packet, next) = T[next].pos + HEADER - Unmeasured(packet)
      BY DEF SizeOf
    <2>4. HEADER \in Nat
      BY DEF HEADER
    <2> HIDE DEF T, k
    <2> QED
      BY <2>1, <2>2, <2>3, <2>4
  <1>7. max \in Nat /\ SizeOf(packet, next) \in Int
    BY <1>1, <1>2, SizeTypes DEF max_size
  <1>8. Measured(T[next], SizeOf(packet, next))
    BY <1>5, <1>6
  <1>9. CASE SizeOf(packet, next) <= max
    <2>1. /\ test_buffer' = T[next] /\ size' = SizeOf(packet, next)
          /\ next' = next + 1 /\ phase' = "measure"
      BY <1>8, <1>9 DEF Measured
    <2>2. next' - 1 = next
      BY <1>1, <2>1
    <2>3. /\ test_buffer' = Trace(packet')[next' - 1] /\ size' = SizeOf(packet', next' - 1)
          /\ size' <= max_size(transport')
      BY <1>5, <1>9, <2>1, <2>2
    <2> QED
      BY <2>1, <2>3 DEF SizeInv
  <1>10. CASE ~(SizeOf(packet, next) <= max)
    <2>1. phase' = "header" /\ record_count' = k
      BY <1>8, <1>10 DEF Measured
    <2>2. k = 0 \/ SizeOf(packet, k) <= max
      BY <1>1, <1>3
    <2>3. SizeOf(packet, k + 1) > max
      BY <1>2, <1>7, <1>10
    <2> HIDE DEF k
    <2>4. FitTo(packet, transport, k)
      BY <2>2, <2>3 DEF FitTo
    <2>5. FitTo(packet', transport', record_count')
      BY <1>5, <2>1, <2>4
    <2> QED
      BY <2>1, <2>5 DEF SizeInv
  <1> QED
    BY <1>9, <1>10

LEMMA SizeHeader ==
    ASSUME TypeInv, CountInv, SizeInv, WriteHeader
    PROVE  SizeInv'
  <1> DEFINE N == Len(Records(packet))
             b == Opening(packet, header)
             w == WriteQuestion(b, packet)
  <1>1. /\ packet \in DnsPacket /\ header \in Headers /\ transport \in Transports
        /\ next \in Nat /\ next >= 1 /\ N \in Nat /\ record_count \in Nat
        /\ phase = "header" \/ (phase = "measure" /\ next > N)
    BY PacketTypes DEF TypeInv, WriteHeader
  <1>2. /\ buffer' = w /\ phase' = "write" /\ next' = 1
        /\ UNCHANGED <<packet, transport, record_count>>
    BY DEF WriteHeader, Opening, HeaderCell, FlagsOf, measuring
  <1>3. FitTo(packet, transport, record_count)
    <2>1. CASE phase = "header"
      BY <2>1 DEF SizeInv
    <2>2. CASE phase = "measure" /\ next > N
      <3>1. next <= N + 1 /\ record_count = N
        BY <2>2 DEF CountInv
      <3>2. next - 1 = N /\ ~(N < N) /\ (next = 1 => N = 0)
        BY <1>1, <2>2, <3>1
      <3>3. size = SizeOf(packet, N) /\ (N = 0 \/ size <= max_size(transport))
        BY <2>2, <3>2 DEF SizeInv
      <3> QED
        BY <3>1, <3>2, <3>3 DEF FitTo
    <2> QED
      BY <1>1, <2>1, <2>2
  <1>4. Sound(b) /\ b.pos = HEADER /\ b.labels = <<>>
    BY <1>1, SoundOpening
  <1>5. EmptyBuffer.pos = 0 /\ EmptyBuffer.labels = <<>> /\ Sound(EmptyBuffer) /\ HEADER \in Nat
    BY SoundEmpty DEF EmptyBuffer, HEADER
  <1> HIDE DEF b
  <1>6. InStep(b, EmptyBuffer, HEADER)
    BY <1>4, <1>5 DEF InStep
  <1>7. InStep(w, WriteQuestion(EmptyBuffer, packet), HEADER)
    BY <1>1, <1>4, <1>5, <1>6, InStepQuestion
  <1>8. Trace(packet)[next' - 1] = WriteQuestion(EmptyBuffer, packet)
    <2>1. next' - 1 = 0
      BY <1>2
    <2> QED
      BY <1>1, <2>1, TraceUnfolds
  <1> HIDE DEF w
  <1>9. InStep(buffer', Trace(packet')[next' - 1], HEADER)
    BY <1>2, <1>7, <1>8
  <1>10. FitTo(packet', transport', record_count')
    BY <1>2, <1>3
  <1> QED
    BY <1>2, <1>9, <1>10 DEF SizeInv

LEMMA SizeWrite ==
    ASSUME TypeInv, CountInv, SizeInv, WriteRecord
    PROVE  SizeInv'
  <1> DEFINE N == Len(Records(packet))
             k == next - 1
             c == Trace(packet)[k]
             r == Records(packet)[next]
  <1>1. /\ packet \in DnsPacket /\ next \in Nat /\ next >= 1 /\ N \in Nat /\ record_count \in Nat
        /\ record_count <= N /\ Sound(buffer) /\ next <= record_count /\ phase = "write"
    BY PacketTypes DEF TypeInv, WriteRecord
  <1>2. next \in 1..N /\ k \in 0..N
    BY <1>1
  <1>3. InStep(buffer, c, HEADER) /\ FitTo(packet, transport, record_count)
    BY <1>1 DEF SizeInv
  <1>4. r \in DnsRecord /\ Sound(c) /\ HEADER \in Nat
    BY <1>1, <1>2, PacketTypes, TraceSound DEF HEADER
  <1>5. Trace(packet)[next] = DnsRecord_write(c, r)
    BY <1>1, <1>2, TraceUnfolds
  <1>6. /\ buffer' = DnsRecord_write(buffer, r) /\ next' = next + 1 /\ phase' = "write"
        /\ UNCHANGED <<packet, transport, record_count>>
    BY <1>1 DEF WriteRecord, measuring
  <1> HIDE DEF c, r
  <1>7. InStep(DnsRecord_write(buffer, r), DnsRecord_write(c, r), HEADER)
    BY <1>1, <1>3, <1>4, InStepRecord
  <1>8. next' - 1 = next
    BY <1>1, <1>6
  <1>9. InStep(buffer', Trace(packet')[next' - 1], HEADER)
    BY <1>5, <1>6, <1>7, <1>8
  <1>10. FitTo(packet', transport', record_count')
    BY <1>3, <1>6
  <1> QED
    BY <1>6, <1>9, <1>10 DEF SizeInv

LEMMA SizeRead ==
    ASSUME TypeInv, SizeInv, ReadHeader \/ ReadRecord
    PROVE  SizeInv'
  <1>1. /\ phase \in {"write", "read"}
        /\ UNCHANGED <<packet, transport, record_count>>
    BY DEF ReadHeader, ReadRecord, measuring
  <1>2. phase' \in {"read", "ok", "failed", "garbage"}
    BY ReadPhase
  <1>3. FitTo(packet', transport', record_count')
    BY <1>1 DEF SizeInv
  <1> QED
    BY <1>2, <1>3 DEF SizeInv

LEMMA SizePassOn ==
    ASSUME TypeInv, PassOn
    PROVE  SizeInv'
  <1> DEFINE p == Reply(parsed)
  <1>1. p \in DnsPacket
    BY ReplyTypes DEF TypeInv
  <1>2. Start(p)
    BY DEF PassOn
  <1> HIDE DEF p
  <1>3. /\ packet' = p /\ phase' = "measure" /\ next' = 1 /\ next' - 1 = 0
        /\ test_buffer' = WriteQuestion(EmptyBuffer, p) /\ size' = MeasuredQuestion(p)
    BY <1>2 DEF Start
  <1>4. test_buffer' = Trace(packet')[next' - 1] /\ size' = SizeOf(packet', next' - 1)
    BY <1>1, <1>3, SizeStart, TraceUnfolds
  <1> QED
    BY <1>3, <1>4 DEF SizeInv

LEMMA SizeStutter ==
    ASSUME SizeInv, UNCHANGED vars
    PROVE  SizeInv'
  <1>1. UNCHANGED <<transport, packet, phase, next, test_buffer, size, record_count, buffer>>
    BY DEF vars, measuring
  <1> QED
    BY <1>1 DEF SizeInv

LEMMA SizeNext == TypeInv /\ CountInv /\ SizeInv /\ [Next]_vars => SizeInv'
  BY SizeMeasure, SizeHeader, SizeWrite, SizeRead, SizePassOn, SizeStutter DEF Next

LEMMA SizeHolds == Spec => [](TypeInv /\ CountInv /\ SizeInv)
  BY TypeInit, TypeNext, CountInit, CountNext, SizeInit, SizeNext, PTL DEF Spec

(* The limit is kept although another buffer is measured than is sent, the *)
(* flag tells when records are missing, and the first that is missing      *)
(* would not have fitted (DnsPacket::write).                               *)
THEOREM PacketsAreCutToSize == Spec => []CutToSize
  <1>1. TypeInv /\ CountInv /\ SizeInv => CutToSize
    <2> DEFINE N == Len(Records(packet))
               rest == Unmeasured(packet)
               rc == record_count
               T == Trace(packet)
               r == Records(packet)[rc + 1]
    <2> SUFFICES ASSUME TypeInv, CountInv, SizeInv, phase = "write" /\ next > rc
                 PROVE  /\ rc = 0 \/ buffer.pos - rest <= max_size(transport)
                        /\ header.truncated_message <=> rc < N
                        /\ header.truncated_message =>
                              DnsRecord_write(buffer, r).pos - rest > max_size(transport)
      BY DEF CutToSize, Unmeasured
    <2>1. /\ packet \in DnsPacket /\ next \in Nat /\ rc \in Nat /\ rc <= N /\ N \in Nat
          /\ Sound(buffer) /\ next <= rc + 1 /\ HEADER \in Nat
      BY PacketTypes DEF TypeInv, CountInv, HEADER
    <2>2. next - 1 = rc /\ rc \in 0..N
      BY <2>1
    <2>3. InStep(buffer, T[rc], HEADER) /\ FitTo(packet, transport, rc)
      BY <2>2 DEF SizeInv
    <2>4. header.truncated_message <=> rc < N
      BY DEF CountInv
    <2>5. buffer.pos = T[rc].pos + HEADER
      BY <2>3 DEF InStep
    <2>6. rc = 0 \/ buffer.pos - rest <= max_size(transport)
      <3>1. SizeOf(packet, rc) = buffer.pos - rest
        <4>1. SizeOf(packet, rc) = T[rc].pos + (HEADER - rest)
          BY DEF SizeOf
        <4>2. T[rc].pos \in Nat /\ rest \in Nat
          BY <2>1, <2>2, TraceSound, SizeTypes
        <4> HIDE DEF T, rest
        <4> QED
          BY <2>1, <2>5, <4>1, <4>2
      <3>2. rc = 0 \/ SizeOf(packet, rc) <= max_size(transport)
        BY <2>3 DEF FitTo
      <3> QED
        BY <3>1, <3>2
    <2>7. ASSUME rc < N
          PROVE  DnsRecord_write(buffer, r).pos - rest > max_size(transport)
      <3>1. rc + 1 \in 1..N /\ rc + 1 - 1 = rc
        BY <2>1, <2>7
      <3>2. r \in DnsRecord /\ Sound(T[rc])
        BY <2>1, <2>2, <3>1, PacketTypes, TraceSound
      <3>3. T[rc + 1] = DnsRecord_write(T[rc], r)
        BY <2>1, <3>1, TraceUnfolds
      <3> HIDE DEF r, T
      <3>4. InStep(DnsRecord_write(buffer, r), T[rc + 1], HEADER)
        BY <2>1, <2>3, <3>2, <3>3, InStepRecord
      <3>5. DnsRecord_write(buffer, r).pos = T[rc + 1].pos + HEADER
        BY <3>4 DEF InStep
      <3>6. SizeOf(packet, rc + 1) > max_size(transport)
        BY <2>3, <2>7 DEF FitTo
      <3>7. SizeOf(packet, rc + 1) = DnsRecord_write(buffer, r).pos - rest
        <4>1. SizeOf(packet, rc + 1) = T[rc + 1].pos + (HEADER - rest)
          BY DEF SizeOf, T
        <4>2. T[rc + 1].pos \in Nat /\ rest \in Nat
          <5>1. rc + 1 \in 0..N
            BY <2>1, <3>1
          <5> QED
            BY <2>1, <5>1, TraceSound, SizeTypes DEF T
        <4> HIDE DEF rest
        <4> QED
          BY <2>1, <3>5, <4>1, <4>2
      <3> QED
        BY <3>6, <3>7
    <2> QED
      BY <2>4, <2>6, <2>7
  <1> QED
    BY <1>1, SizeHolds, PTL

-----------------------------------------------------------------------------
(* What a name that was written is read as.                                *)

NameCell(b, p) == p \in DOMAIN b.cells /\ b.cells[p].kind \in {"label", "pointer", "end"}

(* s is the label l with rest behind it.                                   *)
Led(s, l, rest) ==
    Len(s) = Len(rest) + 1 /\ s[1] = l /\ \A i \in 1..Len(rest) : s[i + 1] = rest[i]

After(b, p) == p + 1 + LabelLen[b.cells[p].label]

(* S says which name begins at a cell, E where reading goes on behind it.  *)
CellSpells(b, S, E, p) ==
    /\ S[p] \in Seq(Labels) /\ E[p] \in Nat
    /\ b.cells[p].kind = "end" => Len(S[p]) = 0 /\ E[p] = p + 1
    /\ b.cells[p].kind = "label" =>
          /\ LabelLen[b.cells[p].label] < LABEL_RANGE
          /\ NameCell(b, After(b, p)) /\ E[p] = E[After(b, p)]
          /\ Led(S[p], b.cells[p].label, S[After(b, p)])
    /\ b.cells[p].kind = "pointer" =>
          /\ b.cells[p].to \in DOMAIN b.cells /\ b.cells[b.cells[p].to].kind = "label"
          /\ S[p] = S[b.cells[p].to] /\ E[p] = p + 2

Spells(b, S, E) ==
    /\ \A p \in DOMAIN b.cells : NameCell(b, p) => CellSpells(b, S, E, p)
    /\ \A s \in DOMAIN b.labels :
          /\ b.labels[s] \in DOMAIN b.cells /\ b.cells[b.labels[s]].kind = "label"
          /\ S[b.labels[s]] = s

(* Of the whole name, `name` has been read in lower case and rest is left. *)
Remains(name, rest, whole) ==
    /\ Len(whole) = Len(name) + Len(rest)
    /\ \A i \in 1..Len(name) : name[i] = Lower[whole[i]]
    /\ \A i \in 1..Len(rest) : rest[i] = whole[Len(name) + i]

LEMMA RemainsAll ==
    ASSUME NEW whole \in Seq(Labels)
    PROVE  Remains(<<>>, whole, whole)
  <1>1. Len(<<>>) = 0 /\ Len(whole) \in Nat
    BY EmptySeq, LenProperties
  <1> QED
    BY <1>1 DEF Remains

LEMMA RemainsLess ==
    ASSUME NEW name \in Seq(Labels), NEW rest \in Seq(Labels), NEW whole \in Seq(Labels),
           Remains(name, rest, whole), NEW l \in Labels, NEW new \in Seq(Labels), Led(rest, l, new)
    PROVE  Remains(Append(name, Lower[l]), new, whole)
  <1> DEFINE x == Append(name, Lower[l])
             n == Len(name)
             m == Len(new)
  <1>1. n \in Nat /\ m \in Nat /\ Len(rest) = m + 1 /\ Len(whole) = n + (m + 1)
    BY LenProperties DEF Led, Remains
  <1>2. Lower[l] \in Labels
    BY Lengths
  <1>3. Len(x) = n + 1 /\ x[n + 1] = Lower[l] /\ \A i \in 1..n : x[i] = name[i]
    BY <1>2, AppendProperties
  <1> HIDE DEF x
  <1>4. \A i \in 1..n : name[i] = Lower[whole[i]]
    BY DEF Remains
  <1>5. \A i \in 1..(m + 1) : rest[i] = whole[n + i]
    BY <1>1 DEF Remains
  <1>6. rest[1] = l /\ \A i \in 1..m : rest[i + 1] = new[i]
    BY DEF Led
  <1>7. x[n + 1] = Lower[whole[n + 1]]
    <2>1. 1 \in 1..(m + 1)
      BY <1>1
    <2> QED
      BY <1>3, <1>5, <1>6, <2>1
  <1>8. ASSUME NEW i \in 1..(n + 1) PROVE x[i] = Lower[whole[i]]
    <2>1. i = n + 1 \/ i \in 1..n
      BY <1>1
    <2> QED
      BY <1>3, <1>4, <1>7, <2>1
  <1>9. ASSUME NEW i \in 1..m PROVE new[i] = whole[n + 1 + i]
    <2>1. i + 1 \in 1..(m + 1) /\ n + (i + 1) = n + 1 + i
      BY <1>1
    <2>2. rest[i + 1] = whole[n + (i + 1)]
      BY <1>5, <2>1
    <2> QED
      BY <1>6, <2>1, <2>2
  <1>10. Len(whole) = Len(x) + Len(new)
    BY <1>1, <1>3
  <1> QED
    BY <1>3, <1>8, <1>9, <1>10 DEF Remains, x

LEMMA RemainsNothing ==
    ASSUME NEW name \in Seq(Labels), NEW rest, NEW whole \in Seq(Labels),
           Remains(name, rest, whole), Len(rest) = 0
    PROVE  name = Lowered(whole)
  <1>1. Len(name) \in Nat /\ Len(whole) = Len(name)
    BY LenProperties DEF Remains
  <1>2. DOMAIN name = 1..Len(name) /\ DOMAIN whole = 1..Len(name)
    BY <1>1, LenProperties
  <1>3. name = [i \in DOMAIN name |-> name[i]]
    BY <1>2, LenProperties
  <1>4. \A i \in DOMAIN name : name[i] = Lower[whole[i]]
    BY <1>2 DEF Remains
  <1> QED
    BY <1>2, <1>3, <1>4 DEF Lowered

(* Every round leads to a cell with less of the name in front of it.       *)
Weight(b, S, p) == 2 * Len(S[p]) + (IF b.cells[p].kind = "pointer" THEN 1 ELSE 0)

Above(b, S, p) == {v \in DOMAIN b.cells : NameCell(b, v) /\ Weight(b, S, v) > Weight(b, S, p)}

LEMMA WeightTypes ==
    ASSUME NEW b, NEW S, NEW E, Spells(b, S, E), NEW p, NameCell(b, p)
    PROVE  /\ p \in DOMAIN b.cells /\ CellSpells(b, S, E, p) /\ Len(S[p]) \in Nat
           /\ Weight(b, S, p) \in Nat
           /\ b.cells[p].kind = "pointer" => Weight(b, S, p) = 2 * Len(S[p]) + 1
           /\ b.cells[p].kind # "pointer" => Weight(b, S, p) = 2 * Len(S[p])
  <1>1. p \in DOMAIN b.cells /\ CellSpells(b, S, E, p)
    BY DEF Spells, NameCell
  <1>2. Len(S[p]) \in Nat
    BY <1>1, LenProperties DEF CellSpells
  <1> DEFINE n == Len(S[p])
             d == IF b.cells[p].kind = "pointer" THEN 1 ELSE 0
  <1>3. n \in Nat /\ d \in Nat /\ Weight(b, S, p) = 2 * n + d
    BY <1>2 DEF Weight
  <1>4. /\ b.cells[p].kind = "pointer" => d = 1
        /\ b.cells[p].kind # "pointer" => d = 0
    OBVIOUS
  <1> HIDE DEF n, d
  <1>5. /\ Weight(b, S, p) \in Nat
        /\ b.cells[p].kind = "pointer" => Weight(b, S, p) = 2 * n + 1
        /\ b.cells[p].kind # "pointer" => Weight(b, S, p) = 2 * n
    BY <1>3, <1>4
  <1> QED
    BY <1>1, <1>2, <1>5 DEF n

LEMMA AboveGrows ==
    ASSUME NEW b, Ends(b), NEW S, NEW E, Spells(b, S, E), NEW p, NameCell(b, p), NEW q, NameCell(b, q),
           Weight(b, S, q) < Weight(b, S, p), NEW k \in Nat, k <= Cardinality(Above(b, S, p))
    PROVE  k + 1 <= Cardinality(Above(b, S, q))
  <1> DEFINE A == Above(b, S, p)
             B == Above(b, S, q)
  <1>1. IsFiniteSet(DOMAIN b.cells)
    BY RoundsFacts
  <1>2. Weight(b, S, p) \in Nat /\ Weight(b, S, q) \in Nat
    BY WeightTypes
  <1>3. \A v \in DOMAIN b.cells : NameCell(b, v) => Weight(b, S, v) \in Nat
    BY WeightTypes
  <1>4. A \cup {p} \subseteq B /\ p \notin A
    BY <1>2, <1>3 DEF Above, NameCell
  <1>5. IsFiniteSet(A) /\ IsFiniteSet(B)
    BY <1>1, FS_Subset DEF Above
  <1> HIDE DEF A, B
  <1>6. Cardinality(A \cup {p}) = Cardinality(A) + 1 /\ Cardinality(A) \in Nat /\ Cardinality(B) \in Nat
    BY <1>4, <1>5, FS_AddElement, FS_CardinalityType
  <1>7. Cardinality(A \cup {p}) <= Cardinality(B)
    BY <1>4, <1>5, FS_Subset
  <1>8. k <= Cardinality(A)
    BY DEF A
  <1> QED
    BY <1>6, <1>7, <1>8 DEF B

LEMMA AboveBounded ==
    ASSUME NEW b, Ends(b), NEW S, NEW p
    PROVE  Cardinality(Above(b, S, p)) < Rounds(b) /\ Cardinality(Above(b, S, p)) \in Nat
  <1>1. /\ IsFiniteSet(DOMAIN b.cells) /\ Cardinality(DOMAIN b.cells) \in Nat
        /\ Rounds(b) = Cardinality(DOMAIN b.cells) + 1
    BY RoundsFacts
  <1>2. Above(b, S, p) \subseteq DOMAIN b.cells
    BY DEF Above
  <1>3. /\ Cardinality(Above(b, S, p)) <= Cardinality(DOMAIN b.cells)
        /\ IsFiniteSet(Above(b, S, p))
    BY <1>1, <1>2, FS_Subset
  <1>4. Cardinality(Above(b, S, p)) \in Nat
    BY <1>3, FS_CardinalityType
  <1> QED
    BY <1>1, <1>3, <1>4

LEMMA LoweredFacts ==
    ASSUME NEW name \in Seq(Labels)
    PROVE  /\ Lowered(name) \in Seq(Labels) /\ Len(Lowered(name)) = Len(name)
           /\ Lowered(name) = <<>> <=> name = <<>>
  <1>1. Len(name) \in Nat /\ DOMAIN name = 1..Len(name)
    BY LenProperties
  <1>2. Lowered(name) \in [1..Len(name) -> Labels]
    <2>1. \A i \in 1..Len(name) : Lower[name[i]] \in Labels
      BY NameTypes, Lengths
    <2> QED
      BY <1>1, <2>1 DEF Lowered
  <1>3. Lowered(name) \in Seq(Labels) /\ Len(Lowered(name)) = Len(name)
    BY <1>1, <1>2, SequenceOf
  <1>4. Lowered(name) = <<>> <=> name = <<>>
    BY <1>3, EmptySeq
  <1> QED
    BY <1>3, <1>4

(* The state of the loop of read_qname after k rounds, for the name at p.  *)
InLoop(b, S, E, p, s, k) ==
    /\ s \in LoopStates /\ s.status = "reading" /\ NameCell(b, s.at)
    /\ Remains(s.name, S[s.at], S[p])
    /\ s.jumped => s.pos = E[p]
    /\ ~s.jumped => E[s.at] = E[p]
    /\ k <= Cardinality(Above(b, S, s.at))

LoopDone(S, E, p, s) == s.status = "ok" /\ s.name = Lowered(S[p]) /\ s.pos = E[p]

LEMMA PastLabelFields ==
    ASSUME NEW s, NEW l
    PROVE  /\ PastLabel(s, l).at = s.at + 1 + LabelLen[l]
           /\ PastLabel(s, l).name = Append(s.name, Lower[l])
           /\ PastLabel(s, l).jumped = s.jumped
           /\ PastLabel(s, l).pos = s.pos /\ PastLabel(s, l).status = "reading"
  BY DEF PastLabel, Loop

LEMMA JumpFields ==
    ASSUME NEW s, NEW to
    PROVE  /\ Jump(s, to).at = to /\ Jump(s, to).name = s.name /\ Jump(s, to).jumped
           /\ Jump(s, to).pos = (IF s.jumped THEN s.pos ELSE s.at + 2)
           /\ Jump(s, to).status = "reading"
  BY DEF Jump, Loop

LEMMA RoundOn ==
    ASSUME NEW b, Sound(b), NEW S, NEW E, Spells(b, S, E), NEW p, NameCell(b, p),
           NEW s, NEW k \in Nat, InLoop(b, S, E, p, s, k)
    PROVE  \/ InLoop(b, S, E, p, Round(s, b.cells[s.at]), k + 1)
           \/ LoopDone(S, E, p, Round(s, b.cells[s.at]))
  <1> DEFINE c == b.cells[s.at]
             w == Round(s, c)
             a == s.at
  <1>1. /\ s \in LoopStates /\ s.status = "reading" /\ NameCell(b, a)
        /\ Remains(s.name, S[a], S[p]) /\ (s.jumped => s.pos = E[p]) /\ (~s.jumped => E[a] = E[p])
        /\ k <= Cardinality(Above(b, S, a))
    BY DEF InLoop
  <1>2. a \in Nat /\ s.name \in Seq(Labels) /\ s.jumped \in BOOLEAN /\ s.pos \in Nat
    BY <1>1, StateFields
  <1>3. CellSpells(b, S, E, a) /\ Len(S[a]) \in Nat /\ a \in DOMAIN b.cells
    BY <1>1, WeightTypes
  <1>4. CellSpells(b, S, E, p) /\ S[p] \in Seq(Labels) /\ S[a] \in Seq(Labels)
    BY <1>3, WeightTypes DEF CellSpells
  <1>5. GoodCell(c) /\ Ends(b)
    BY <1>3 DEF Sound
  <1>6. w \in LoopStates
    BY <1>1, <1>5, RoundTypes
  <1>7. CASE c.kind = "label"
    <2> DEFINE l == c.label
               q == After(b, a)
    <2>1. l \in Labels
      BY <1>5, <1>7 DEF GoodCell
    <2>2. NameCell(b, q) /\ E[a] = E[q] /\ Led(S[a], l, S[q]) /\ LabelLen[l] < LABEL_RANGE
      BY <1>3, <1>7 DEF CellSpells
    <2>3. w = PastLabel(s, l)
      BY <1>1, <1>7, <2>2, RoundCases
    <2>q. q = s.at + 1 + LabelLen[l]
      BY DEF After
    <2> HIDE DEF q, l, w
    <2>4. /\ w.at = q /\ w.name = Append(s.name, Lower[l]) /\ w.jumped = s.jumped
          /\ w.pos = s.pos /\ w.status = "reading"
      BY ONLY <2>3, <2>q, PastLabelFields
    <2>5. S[q] \in Seq(Labels) /\ Len(S[q]) \in Nat
      BY <2>2, WeightTypes DEF CellSpells
    <2>6. Remains(w.name, S[w.at], S[p])
      BY <1>1, <1>2, <1>4, <2>1, <2>2, <2>4, <2>5, RemainsLess
    <2>7. Weight(b, S, q) < Weight(b, S, a)
      <3> DEFINE x == Len(S[q])
                 y == Len(S[a])
                 u == Weight(b, S, q)
                 v == Weight(b, S, a)
      <3>1. y = x + 1
        BY <2>2 DEF Led
      <3>2. v = 2 * y
        BY <1>1, <1>7, WeightTypes
      <3>3. u = 2 * x \/ u = 2 * x + 1
        BY <2>2, WeightTypes
      <3>4. x \in Nat
        BY <2>5
      <3> HIDE DEF x, y, u, v
      <3>5. u < v
        BY <3>1, <3>2, <3>3, <3>4
      <3> QED
        BY <3>5 DEF u, v
    <2> HIDE DEF a, c
    <2>8. k + 1 <= Cardinality(Above(b, S, q))
      BY <1>1, <1>5, <2>2, <2>7, AboveGrows
    <2>9. InLoop(b, S, E, p, w, k + 1)
      BY <1>1, <1>6, <2>2, <2>4, <2>6, <2>8 DEF InLoop
    <2> QED
      BY <2>9 DEF w, c, a
  <1>8. CASE c.kind = "pointer"
    <2> DEFINE q == c.to
    <2>2. q \in DOMAIN b.cells /\ b.cells[q].kind = "label" /\ S[a] = S[q] /\ E[a] = a + 2
      BY <1>3, <1>8 DEF CellSpells
    <2>3. w = Jump(s, q)
      BY <1>1, <1>8, RoundCases
    <2> HIDE DEF q, w
    <2>4. /\ w.at = q /\ w.name = s.name /\ w.jumped
          /\ w.pos = (IF s.jumped THEN s.pos ELSE a + 2) /\ w.status = "reading"
      BY ONLY <2>3, JumpFields DEF a
    <2>5. NameCell(b, q)
      BY <2>2 DEF NameCell
    <2>6. Remains(w.name, S[w.at], S[p])
      BY <1>1, <2>2, <2>4
    <2>7. Weight(b, S, q) < Weight(b, S, a)
      <3> DEFINE x == Len(S[q])
                 u == Weight(b, S, q)
                 v == Weight(b, S, a)
      <3>1. v = 2 * x + 1
        BY <1>1, <1>8, <2>2, WeightTypes
      <3>2. u = 2 * x /\ x \in Nat
        BY <2>2, <2>5, WeightTypes
      <3> HIDE DEF x, u, v
      <3>3. u < v
        BY <3>1, <3>2
      <3> QED
        BY <3>3 DEF u, v
    <2>8. w.pos = E[p]
      BY <1>1, <2>2, <2>4
    <2> HIDE DEF a, c
    <2>9. k + 1 <= Cardinality(Above(b, S, q))
      BY <1>1, <1>5, <2>5, <2>7, AboveGrows
    <2>10. InLoop(b, S, E, p, w, k + 1)
      BY <1>6, <2>4, <2>5, <2>6, <2>8, <2>9 DEF InLoop
    <2> QED
      BY <2>10 DEF w, c, a
  <1>9. CASE c.kind = "end"
    <2>1. Len(S[a]) = 0 /\ E[a] = a + 1
      BY <1>3, <1>9 DEF CellSpells
    <2>2. w = AtEnd(s)
      BY <1>1, <1>9, RoundCases
    <2>3. /\ w.name = s.name /\ w.pos = (IF s.jumped THEN s.pos ELSE a + 1) /\ w.status = "ok"
      BY <2>2, LoopFields DEF AtEnd
    <2> HIDE DEF w
    <2>4. s.name = Lowered(S[p])
      BY <1>1, <1>2, <1>4, <2>1, RemainsNothing
    <2>5. LoopDone(S, E, p, w)
      BY <1>1, <2>1, <2>3, <2>4 DEF LoopDone
    <2> QED
      BY <2>5 DEF w, c
  <1> QED
    BY <1>1, <1>7, <1>8, <1>9 DEF NameCell

(* What read_qname returns for a name.                                     *)
AsName(name) == IF name = <<>> THEN Root ELSE Lowered(name)

LEMMA NameIsRead ==
    ASSUME NEW b, Sound(b), NEW S, NEW E, Spells(b, S, E), NEW p, NameCell(b, p), NEW t
    PROVE  LET q == read_qname(b, p, t)
           IN  q.status = "ok" /\ q.name = AsName(S[p]) /\ q.pos = E[p]
  <1> DEFINE N == Rounds(b)
  <1>1. Ends(b) /\ p \in Nat /\ p \in DOMAIN b.cells /\ CellSpells(b, S, E, p) /\ S[p] \in Seq(Labels)
    BY WeightTypes DEF Sound, Ends, CellSpells, NameCell
  <1>2. PICK f : Reads(b, p, t, f) /\ read_qname(b, p, t) = NameRead(f[N])
    BY <1>1, ReadUnfolds
  <1>3. N \in Nat
    BY <1>1, RoundsFacts
  <1>4. f[0] = Loop(p, <<>>, FALSE, p, "reading")
        /\ \A k \in 1..N : f[k] = Round(f[k - 1], Cell(b, f[k - 1].at, t))
    BY <1>2 DEF Reads
  <1> HIDE DEF N
  <1> DEFINE Good(k) == InLoop(b, S, E, p, f[k], k) \/ LoopDone(S, E, p, f[k])
             G == {k \in 0..N : Good(k)}
  <1>5. Good(0)
    <2> DEFINE s == Loop(p, <<>>, FALSE, p, "reading")
    <2>1. /\ s.at = p /\ s.name = <<>> /\ ~s.jumped /\ s.pos = p /\ s.status = "reading"
      BY DEF Loop
    <2>2. <<>> \in Seq(Labels) /\ "reading" \in Statuses \cup {"reading"}
      BY EmptySeq
    <2>3. s \in LoopStates
      BY <1>1, <2>2, LoopTypes
    <2> HIDE DEF s
    <2>4. Remains(s.name, S[s.at], S[p])
      BY <1>1, <2>1, RemainsAll
    <2>5. 0 <= Cardinality(Above(b, S, s.at))
      BY <1>1, AboveBounded
    <2>6. InLoop(b, S, E, p, s, 0)
      BY <2>1, <2>3, <2>4, <2>5 DEF InLoop
    <2> QED
      BY <1>4, <2>6 DEF s
  <1>6. ASSUME NEW k \in 1..N, k - 1 \in G PROVE k \in G
    <2> DEFINE s == f[k - 1]
    <2>1. k \in 0..N /\ k - 1 \in Nat /\ k - 1 + 1 = k /\ Good(k - 1)
      BY <1>3, <1>6
    <2>2. f[k] = Round(s, Cell(b, s.at, t))
      BY <1>4
    <2> HIDE DEF s
    <2>3. CASE InLoop(b, S, E, p, s, k - 1)
      <3>1. Cell(b, s.at, t) = b.cells[s.at]
        BY <2>3 DEF InLoop, NameCell, Cell
      <3>2. InLoop(b, S, E, p, f[k], k - 1 + 1) \/ LoopDone(S, E, p, f[k])
        BY <2>1, <2>2, <2>3, <3>1, RoundOn
      <3> QED
        BY <2>1, <3>2
    <2>4. CASE LoopDone(S, E, p, s)
      <3>1. f[k] = s
        BY <2>2, <2>4, RoundCases DEF LoopDone
      <3> QED
        BY <2>1, <2>4, <3>1
    <2> QED
      BY <2>1, <2>3, <2>4 DEF s
  <1>7. Good(N)
    <2>1. 0 \in G
      BY <1>3, <1>5
    <2> HIDE DEF G, Good
    <2>2. \A k \in 0..N : k \in G
      BY <1>3, <1>6, <2>1, UpTo
    <2>3. N \in G
      BY <1>3, <2>2
    <2> QED
      BY <2>3 DEF G
  <1>8. LoopDone(S, E, p, f[N])
    <2>1. ~(N <= Cardinality(Above(b, S, f[N].at)))
      <3>1. Cardinality(Above(b, S, f[N].at)) < N /\ Cardinality(Above(b, S, f[N].at)) \in Nat
        BY <1>1, AboveBounded DEF N
      <3> QED
        BY <1>3, <3>1
    <2>2. ~InLoop(b, S, E, p, f[N], N)
      BY <2>1 DEF InLoop
    <2> QED
      BY <1>7, <2>2
  <1> DEFINE q == read_qname(b, p, t)
  <1>9. q.status = "ok" /\ q.pos = E[p] /\ q.name = IF Lowered(S[p]) = <<>> THEN Root ELSE Lowered(S[p])
    BY <1>2, <1>8 DEF NameRead, LoopDone
  <1>10. Lowered(S[p]) = <<>> <=> S[p] = <<>>
    BY <1>1, LoweredFacts
  <1> QED
    BY <1>9, <1>10 DEF AsName

-----------------------------------------------------------------------------
(* What a record that was written is read as.                              *)

CleanRecord(r) ==
    /\ r.type # "UNKNOWN"
    /\ IF r.type = "OPT" THEN r.domain = Root ELSE Named(r.domain)
    /\ \A j \in DOMAIN r.names : Named(r.names[j])

DomainOf(r) == IF r.type = "OPT" THEN <<>> ELSE r.domain

(* The record r is at p, its names at X[0], X[1], ...                      *)
HeadAt(b, S, E, p, r, X) ==
    /\ NameCell(b, p) /\ S[p] = DomainOf(r)
    /\ E[p] \in DOMAIN b.cells /\ b.cells[E[p]] = Meta(r)
    /\ X[0] = E[p] + MetaLen(r)

NamesAt(b, S, E, r, X, k) ==
    \A i \in 1..k : NameCell(b, X[i - 1]) /\ S[X[i - 1]] = r.names[i] /\ X[i] = E[X[i - 1]]

RecordAt(b, S, E, p, r, X) ==
    /\ HeadAt(b, S, E, p, r, X)
    /\ NamesAt(b, S, E, r, X, Len(r.names))
    /\ X[Len(r.names)] \in Nat /\ X[Len(r.names)] + Behind(r.type) <= b.pos

LEMMA OneLowered ==
    ASSUME NEW e \in Labels, Lower[e] = e
    PROVE  Lowered(<<e>>) = <<e>>
  <1> DEFINE s == <<e>>
  <1>1. s \in Seq(Labels) /\ Len(s) = 1 /\ s[1] = e
    BY OneElement
  <1> HIDE DEF s
  <1>2. DOMAIN s = 1..1 /\ s = [i \in DOMAIN s |-> s[i]]
    BY <1>1, LenProperties
  <1>3. \A i \in DOMAIN s : Lower[s[i]] = s[i]
    BY <1>1, <1>2
  <1>4. Lowered(s) = s
    BY <1>2, <1>3 DEF Lowered
  <1> QED
    BY <1>4 DEF s

LEMMA DomainRead ==
    ASSUME NEW r \in DnsRecord, CleanRecord(r)
    PROVE  AsName(DomainOf(r)) = Lowered(r.domain)
  <1>1. CASE r.type = "OPT"
    <2>1. r.domain = Root /\ DomainOf(r) = <<>>
      BY <1>1 DEF CleanRecord, DomainOf
    <2>2. Lowered(Root) = Root
      <3>1. "" \in Labels /\ Lower[""] = ""
        BY WireAssumption
      <3> QED
        BY <3>1, OneLowered DEF Root
    <2> QED
      BY <2>1, <2>2 DEF AsName
  <1>2. CASE r.type # "OPT"
    <2>1. r.domain # <<>> /\ DomainOf(r) = r.domain
      BY <1>2 DEF DnsRecord, Names, DomainOf
    <2> QED
      BY <2>1 DEF AsName
  <1> QED
    BY <1>1, <1>2

NamesRead(f, r, X) ==
    /\ \A i \in 0..Len(r.names) : f[i].status = "ok" /\ f[i].pos = X[i]
    /\ \A i \in 1..Len(r.names) : f[i].name = Lowered(r.names[i])

LEMMA NamesAreRead ==
    ASSUME NEW b, Sound(b), NEW S, NEW E, Spells(b, S, E), NEW r \in DnsRecord,
           NEW X, NamesAt(b, S, E, r, X, Len(r.names)), NEW t
    PROVE  NamesRead(ReadNames(b, X[0], Len(r.names), t), r, X)
  <1> DEFINE n == Len(r.names)
             f == ReadNames(b, X[0], n, t)
             G == {i \in 0..n : f[i].status = "ok" /\ f[i].pos = X[i]}
  <1>1. n \in Nat /\ r.names \in Seq(Names)
    BY RecordTypes
  <1>2. f[0] = [status |-> "ok", pos |-> X[0]] /\ \A i \in 1..n : f[i] = read_qname(b, f[i - 1].pos, t)
    BY <1>1, ReadNamesUnfolds
  <1>3. \A i \in 1..n : NameCell(b, X[i - 1]) /\ S[X[i - 1]] = r.names[i] /\ X[i] = E[X[i - 1]]
    BY DEF NamesAt
  <1>4. \A i \in 1..n : r.names[i] # <<>>
    BY <1>1, ElementOfSeq DEF Names
  <1> HIDE DEF f, n
  <1>5. 0 \in G
    BY <1>1, <1>2
  <1>6. ASSUME NEW i \in 1..n, i - 1 \in G
        PROVE  i \in G /\ f[i].name = Lowered(r.names[i])
    <2>1. f[i] = read_qname(b, X[i - 1], t) /\ i \in 0..n
      BY <1>1, <1>2, <1>6
    <2>2. /\ read_qname(b, X[i - 1], t).status = "ok"
          /\ read_qname(b, X[i - 1], t).name = AsName(r.names[i])
          /\ read_qname(b, X[i - 1], t).pos = X[i]
      BY <1>3, NameIsRead
    <2>3. AsName(r.names[i]) = Lowered(r.names[i])
      BY <1>4 DEF AsName
    <2> QED
      BY <2>1, <2>2, <2>3
  <1> HIDE DEF G
  <1>7. \A i \in 0..n : i \in G
    BY <1>1, <1>5, <1>6, UpTo
  <1>8. \A i \in 1..n : f[i].name = Lowered(r.names[i])
    <2>1. ASSUME NEW i \in 1..n PROVE f[i].name = Lowered(r.names[i])
      <3>1. i - 1 \in 0..n
        BY <1>1
      <3> QED
        BY <1>6, <1>7, <3>1
    <2> QED
      BY <2>1
  <1>9. \A i \in 0..n : f[i].status = "ok" /\ f[i].pos = X[i]
    BY <1>7 DEF G
  <1> QED
    BY <1>8, <1>9 DEF f, n, NamesRead

(* A text is read with its length before it.                               *)
LEMMA DataRead ==
    ASSUME NEW r \in DnsRecord
    PROVE  from_utf8_lossy(r.type, Written(r).data)
             = IF r.type = "TXT" THEN [r.data EXCEPT !.prefix = @ + Longer(r.data)] ELSE r.data
  <1>1. CASE r.type # "TXT"
    BY <1>1 DEF from_utf8_lossy, Written
  <1>2. CASE r.type = "TXT"
    <2> DEFINE d == Written(r).data
               k == r.data.prefix
               x == BodyLen[r.data.body]
    <2>1. r.data \in Data
      BY DEF DnsRecord
    <2>2. d = [r.data EXCEPT !.prefix = k + 1]
      <3>1. Written(r) = [r EXCEPT !.data = [r.data EXCEPT !.prefix = r.data.prefix + 1]]
        BY <1>2 DEF Written
      <3> QED
        BY <3>1 DEF DnsRecord
    <2>3. d.body = r.data.body /\ d.prefix = k + 1 /\ k \in Nat /\ x \in Nat
      <3>1. r.data.body \in DOMAIN BodyLen /\ r.data.prefix \in Nat
        BY <2>1 DEF Data
      <3>2. x \in Nat
        BY <3>1, Lengths
      <3> QED
        BY <2>1, <2>2, <3>1, <3>2 DEF Data
    <2> HIDE DEF d
    <2>4. DataLen(d) = x + (k + 1) /\ DataLen(r.data) = x + k
      BY <2>3 DEF DataLen
    <2> HIDE DEF x
    <2>5. DataLen(d) - 1 = DataLen(r.data) /\ DataLen(r.data) \in Nat
      BY <2>3, <2>4
    <2> DEFINE e == DataLen(r.data) % 256
    <2>6. e \in 0..255 /\ (DataLen(d) - 1) % 256 = e
      BY <2>5
    <2> HIDE DEF e
    <2>7. CASE e < 128
      <3>1. Longer(r.data) = 1 /\ ~((DataLen(d) - 1) % 256 >= 128)
        BY <2>6, <2>7 DEF Longer, e
      <3>2. from_utf8_lossy(r.type, d) = d
        BY <3>1 DEF from_utf8_lossy
      <3> QED
        BY <1>2, <2>2, <3>1, <3>2 DEF d
    <2>8. CASE ~(e < 128)
      <3>1. Longer(r.data) = 3 /\ (DataLen(d) - 1) % 256 >= 128
        BY <2>6, <2>8 DEF Longer, e
      <3>2. from_utf8_lossy(r.type, d) = [d EXCEPT !.prefix = d.prefix + 2]
        BY <1>2, <3>1 DEF from_utf8_lossy
      <3>3. d.prefix + 2 = k + 3
        BY <2>3
      <3>4. [d EXCEPT !.prefix = k + 3] = [r.data EXCEPT !.prefix = k + 3]
        BY <2>1, <2>2 DEF Data
      <3> QED
        BY <1>2, <3>1, <3>2, <3>3, <3>4 DEF d
    <2> QED
      BY <2>7, <2>8
  <1> QED
    BY <1>1, <1>2

LEMMA RecordIsRead ==
    ASSUME NEW b, Sound(b), NEW S, NEW E, Spells(b, S, E), NEW r \in DnsRecord, CleanRecord(r),
           NEW p, NEW X, RecordAt(b, S, E, p, r, X), NEW t, t = "udp" => b.pos < BYTE_BUFFER
    PROVE  LET q == DnsRecord_read(b, p, t)
           IN  /\ q.status = "ok" /\ q.record = AsRead(r)
               /\ q.pos = X[Len(r.names)] + Behind(r.type)
  <1> DEFINE n == Len(r.names)
             d == read_qname(b, p, t)
             m == Meta(r)
             f == ReadNames(b, X[0], n, t)
  <1>1. /\ NameCell(b, p) /\ S[p] = DomainOf(r) /\ E[p] \in DOMAIN b.cells /\ b.cells[E[p]] = m
        /\ X[0] = E[p] + MetaLen(r) /\ X[n] \in Nat /\ X[n] + Behind(r.type) <= b.pos
        /\ NamesAt(b, S, E, r, X, Len(r.names))
    BY DEF RecordAt, HeadAt
  <1>2. d.status = "ok" /\ d.name = Lowered(r.domain) /\ d.pos = E[p]
    BY <1>1, NameIsRead, DomainRead
  <1>3. m.kind = "meta" /\ m.type = r.type /\ m.value = r.value /\ m.data = Written(r).data
    BY DEF Meta
  <1>4. n \in Nat /\ n = NameCount(r.type) /\ DataLen(m.data) \in Nat /\ E[p] \in Nat
        /\ DOMAIN r.names = 1..n
    BY <1>1, <1>3, RecordTypes, LenProperties DEF DnsRecord, Sound, Ends
  <1>5. Fixed(r.type) \in Nat /\ Behind(r.type) \in Nat /\ b.pos \in Nat
    BY NumberTypes DEF Sound, Ends
  <1>6. /\ \A i \in 0..n : f[i].status = "ok" /\ f[i].pos = X[i]
        /\ \A i \in 1..n : f[i].name = Lowered(r.names[i])
    <2>1. NamesRead(f, r, X)
      BY <1>1, NamesAreRead
    <2> HIDE DEF f
    <2> QED
      BY <2>1 DEF NamesRead
  <1>7. MetaOf(Cell(b, d.pos, t)) = m
    BY <1>1, <1>2, <1>3 DEF Cell, MetaOf
  <1> HIDE DEF m, d
  <1>8. d.pos + META + Fixed(m.type) + DataLen(m.data) = X[0]
    <2>1. X[0] = E[p] + (META + Fixed(r.type) + DataLen(m.data))
      BY <1>1, <1>3 DEF MetaLen
    <2>2. META \in Nat
      BY DEF META
    <2>3. d.pos = E[p] /\ m.type = r.type
      BY <1>2, <1>3
    <2> QED
      BY <1>4, <1>5, <2>1, <2>2, <2>3
  <1>9. DnsRecord_read(b, p, t) = RecordOf(d, m, f, n, t)
    <2>1. DnsRecord_read(b, p, t) = AfterName(b, d, m, t)
      BY <1>7 DEF DnsRecord_read, NameThen, d
    <2>2. AfterName(b, d, m, t) = RecordOf(d, m, ReadNames(b, X[0], n, t), n, t)
      BY <1>2, <1>3, <1>4, <1>8 DEF AfterName
    <2> QED
      BY <2>1, <2>2
  <1> HIDE DEF f
  <1>10. ~Refused(m, f[n].pos, t)
    <2>1. f[n].pos = X[n]
      BY <1>4, <1>6
    <2>2. X[n] <= b.pos
      BY <1>1, <1>5
    <2>3. t = "udp" => ~(X[n] >= BYTE_BUFFER)
      BY <1>1, <1>5, <2>2 DEF BYTE_BUFFER
    <2> QED
      BY <2>1, <2>3 DEF Refused
  <1>11. ~ \E i \in 0..n : f[i].status # "ok"
    BY <1>6
  <1>12. RecordOf(d, m, f, n, t)
           = [status |-> "ok", pos |-> f[n].pos + Behind(m.type),
              record |-> [type |-> m.type, domain |-> d.name, value |-> m.value,
                          names |-> [i \in 1..n |-> f[i].name],
                          data |-> from_utf8_lossy(m.type, m.data)]]
    BY <1>10, <1>11 DEF RecordOf
  <1>13. [i \in 1..n |-> f[i].name] = [i \in DOMAIN r.names |-> Lowered(r.names[i])]
    BY <1>4, <1>6
  <1>14. f[n].pos = X[n]
    BY <1>4, <1>6
  <1> HIDE DEF n
  <1>15. [type |-> m.type, domain |-> d.name, value |-> m.value,
          names |-> [i \in 1..n |-> f[i].name], data |-> from_utf8_lossy(m.type, m.data)] = AsRead(r)
    BY <1>2, <1>3, <1>13, DataRead DEF AsRead
  <1> QED
    BY <1>3, <1>9, <1>12, <1>14, <1>15 DEF n

-----------------------------------------------------------------------------
(* What is written can be read, and stays so when more is written.         *)

Keeps(b, S, E, w, F, G) == Grows(b, w) /\ \A p \in DOMAIN b.cells : F[p] = S[p] /\ G[p] = E[p]

LEMMA CellKept ==
    ASSUME NEW b, NEW S, NEW E, NEW w, NEW F, NEW G, Keeps(b, S, E, w, F, G),
           NEW p \in DOMAIN b.cells
    PROVE  /\ p \in DOMAIN w.cells /\ w.cells[p] = b.cells[p] /\ F[p] = S[p] /\ G[p] = E[p]
           /\ NameCell(b, p) <=> NameCell(w, p)
  BY DEF Keeps, Grows, NameCell

LEMMA CellSpellsKept ==
    ASSUME NEW b, NEW S, NEW E, NEW w, NEW F, NEW G, Keeps(b, S, E, w, F, G),
           NEW p \in DOMAIN b.cells, CellSpells(b, S, E, p)
    PROVE  CellSpells(w, F, G, p)
  <1> DEFINE c == b.cells[p]
             q == After(b, p)
             v == c.to
  <1>1. p \in DOMAIN w.cells /\ w.cells[p] = c /\ F[p] = S[p] /\ G[p] = E[p]
    BY CellKept
  <1>2. After(w, p) = q
    BY <1>1 DEF After
  <1>3. S[p] \in Seq(Labels) /\ E[p] \in Nat /\ (c.kind = "end" => Len(S[p]) = 0 /\ E[p] = p + 1)
    BY DEF CellSpells
  <1>4. c.kind = "label" =>
            LabelLen[c.label] < LABEL_RANGE /\ NameCell(b, q) /\ E[p] = E[q] /\ Led(S[p], c.label, S[q])
    BY DEF CellSpells
  <1>5. c.kind = "pointer" =>
            v \in DOMAIN b.cells /\ b.cells[v].kind = "label" /\ S[p] = S[v] /\ E[p] = p + 2
    BY DEF CellSpells
  <1> HIDE DEF c, q, v
  <1>6. c.kind = "label" =>
            LabelLen[c.label] < LABEL_RANGE /\ NameCell(w, q) /\ G[p] = G[q] /\ Led(F[p], c.label, F[q])
    BY <1>1, <1>4, CellKept DEF NameCell
  <1>7. c.kind = "pointer" =>
            v \in DOMAIN w.cells /\ w.cells[v].kind = "label" /\ F[p] = F[v] /\ G[p] = p + 2
    BY <1>1, <1>5, CellKept
  <1>8. w.cells[p].to = v /\ w.cells[p].label = c.label
    BY <1>1 DEF v
  <1> QED
    BY <1>1, <1>2, <1>3, <1>6, <1>7, <1>8 DEF CellSpells

LEMMA KeepsOn ==
    ASSUME NEW a, NEW P, NEW Q, NEW b, NEW S, NEW E, NEW c, NEW F, NEW G,
           Ends(a), Ends(b), Ends(c), Keeps(a, P, Q, b, S, E), Keeps(b, S, E, c, F, G)
    PROVE  Keeps(a, P, Q, c, F, G)
  <1>1. Grows(a, c)
    BY GrowsOn DEF Keeps
  <1> QED
    BY <1>1 DEF Keeps, Grows

LEMMA HeadKept ==
    ASSUME NEW b, NEW S, NEW E, NEW w, NEW F, NEW G, Keeps(b, S, E, w, F, G),
           NEW p, NEW r, NEW X, HeadAt(b, S, E, p, r, X)
    PROVE  HeadAt(w, F, G, p, r, X)
  <1>1. /\ NameCell(b, p) /\ S[p] = DomainOf(r)
        /\ E[p] \in DOMAIN b.cells /\ b.cells[E[p]] = Meta(r) /\ X[0] = E[p] + MetaLen(r)
    BY DEF HeadAt
  <1>2. /\ NameCell(w, p) /\ F[p] = DomainOf(r)
        /\ G[p] = E[p] /\ E[p] \in DOMAIN w.cells /\ w.cells[E[p]] = Meta(r)
    BY <1>1, CellKept DEF NameCell
  <1> QED
    BY <1>1, <1>2 DEF HeadAt

LEMMA NamesKept ==
    ASSUME NEW b, NEW S, NEW E, NEW w, NEW F, NEW G, Keeps(b, S, E, w, F, G),
           NEW r, NEW X, NEW k, NamesAt(b, S, E, r, X, k)
    PROVE  NamesAt(w, F, G, r, X, k)
  <1> SUFFICES ASSUME NEW i \in 1..k
               PROVE  NameCell(w, X[i - 1]) /\ F[X[i - 1]] = r.names[i] /\ X[i] = G[X[i - 1]]
    BY DEF NamesAt
  <1> DEFINE x == X[i - 1]
  <1>1. NameCell(b, x) /\ S[x] = r.names[i] /\ X[i] = E[x]
    BY DEF NamesAt
  <1> HIDE DEF x
  <1>2. NameCell(w, x) /\ F[x] = r.names[i] /\ X[i] = G[x]
    BY <1>1, CellKept DEF NameCell
  <1> QED
    BY <1>2 DEF x

LEMMA RecordKept ==
    ASSUME NEW b, NEW S, NEW E, NEW w, NEW F, NEW G, Keeps(b, S, E, w, F, G), Ends(b), Ends(w),
           NEW p, NEW r \in DnsRecord, NEW X, RecordAt(b, S, E, p, r, X)
    PROVE  RecordAt(w, F, G, p, r, X)
  <1> DEFINE e == X[Len(r.names)]
             k == Behind(r.type)
  <1>1. HeadAt(w, F, G, p, r, X) /\ NamesAt(w, F, G, r, X, Len(r.names)) /\ e \in Nat /\ e + k <= b.pos
    BY HeadKept, NamesKept DEF RecordAt
  <1>2. b.pos \in Nat /\ w.pos \in Nat /\ w.pos >= b.pos /\ k \in Nat
    BY NumberTypes DEF Ends, Keeps, Grows
  <1> HIDE DEF e, k
  <1>3. e + k <= w.pos
    BY <1>1, <1>2
  <1> QED
    BY <1>1, <1>3 DEF RecordAt, e, k

LEMMA LedSuffix ==
    ASSUME NEW name \in Seq(Labels), NEW j \in 1..Len(name)
    PROVE  Led(Suffix(name, j), name[j], Suffix(name, j + 1))
  <1> DEFINE n == Len(name)
             s == Suffix(name, j)
             u == Suffix(name, j + 1)
  <1>1. n \in Nat /\ j \in 1..(n + 1) /\ j + 1 \in 1..(n + 1)
    BY NameTypes
  <1>2. Len(s) = n + 1 - j /\ \A i \in 1..(n + 1 - j) : s[i] = name[j + i - 1]
    BY <1>1, SuffixFacts
  <1>3. Len(u) = n + 1 - (j + 1) /\ \A i \in 1..(n + 1 - (j + 1)) : u[i] = name[(j + 1) + i - 1]
    BY <1>1, SuffixFacts
  <1> HIDE DEF n, s, u
  <1>4. Len(s) = Len(u) + 1 /\ Len(u) \in Nat
    BY <1>1, <1>2, <1>3
  <1>5. s[1] = name[j]
    <2>1. 1 \in 1..(n + 1 - j) /\ j + 1 - 1 = j
      BY <1>1
    <2> QED
      BY <1>2, <2>1
  <1>6. ASSUME NEW i \in 1..Len(u) PROVE s[i + 1] = u[i]
    <2>1. i + 1 \in 1..(n + 1 - j) /\ i \in 1..(n + 1 - (j + 1)) /\ j + (i + 1) - 1 = (j + 1) + i - 1
      BY <1>1, <1>2, <1>3, <1>4
    <2>2. s[i + 1] = name[j + (i + 1) - 1]
      BY <1>2, <2>1
    <2>3. u[i] = name[(j + 1) + i - 1]
      BY <1>3, <2>1
    <2> QED
      BY <2>1, <2>2, <2>3
  <1> QED
    BY <1>4, <1>5, <1>6 DEF Led, s, u

(* The name s begins at p, and reading goes on at e.                       *)
NameAt(b, S, E, p, s, e) == NameCell(b, p) /\ S[p] = s /\ E[p] = e

(* The names that begin at the labels of a name, and where they end.       *)
Spelled(b, S, name, n, w) ==
    [x \in DOMAIN w.cells |->
        IF x \in DOMAIN b.cells THEN S[x]
        ELSE Suffix(name, 1 + CHOOSE i \in 0..n : Positions(b.pos, name)[i] = x)]

Ended(b, E, w) == [x \in DOMAIN w.cells |-> IF x \in DOMAIN b.cells THEN E[x] ELSE w.pos]

NewlySpelled(b, S, E, name, n, w, F, G) ==
    /\ \A p \in DOMAIN b.cells : F[p] = S[p] /\ G[p] = E[p]
    /\ \A i \in 0..n :
          /\ Positions(b.pos, name)[i] \in DOMAIN w.cells
          /\ Positions(b.pos, name)[i] \notin DOMAIN b.cells
          /\ F[Positions(b.pos, name)[i]] = Suffix(name, 1 + i)
          /\ G[Positions(b.pos, name)[i]] = w.pos

LEMMA SpelledFacts ==
    ASSUME NEW b, Ends(b), NEW S, NEW E, NEW name \in Seq(Labels), NEW n, NEW w, NameIn(b, name, n, w)
    PROVE  NewlySpelled(b, S, E, name, n, w, Spelled(b, S, name, n, w), Ended(b, E, w))
  <1> DEFINE at == Positions(b.pos, name)
             F == Spelled(b, S, name, n, w)
             G == Ended(b, E, w)
  <1>1. n \in 0..Len(name) /\ DOMAIN w.cells = DOMAIN b.cells \cup {at[i] : i \in 0..n}
    BY DEF NameIn
  <1>2. b.pos \in Nat /\ Len(name) \in Nat
    BY NameTypes DEF Ends
  <1>3. ASSUME NEW p \in DOMAIN b.cells PROVE F[p] = S[p] /\ G[p] = E[p]
    BY <1>1 DEF Spelled, Ended
  <1>4. ASSUME NEW i \in 0..n
        PROVE  at[i] \in DOMAIN w.cells /\ at[i] \notin DOMAIN b.cells
               /\ F[at[i]] = Suffix(name, 1 + i) /\ G[at[i]] = w.pos
    <2>1. at[i] \in DOMAIN w.cells
      BY <1>1
    <2>2. i \in 0..Len(name)
      BY <1>1, <1>2
    <2>3. at[i] \in Nat /\ at[i] >= b.pos + i
      BY <1>2, <2>2, PositionsShift
    <2> DEFINE x == at[i]
    <2>4. x >= b.pos
      <3>1. x \in Nat /\ x >= b.pos + i
        BY <2>3
      <3> HIDE DEF x
      <3> QED
        BY <1>2, <2>2, <3>1
    <2>5. x \notin DOMAIN b.cells
      <3> HIDE DEF x
      <3> QED
        BY <1>2, <2>4 DEF Ends
    <2>6. ASSUME NEW j \in 0..n, at[j] = at[i] PROVE j = i
      <3>1. j \in 0..Len(name)
        BY <1>1, <1>2
      <3>2. ASSUME i < j PROVE FALSE
        <4>1. at[i] < at[j]
          BY <1>2, <2>2, <3>1, <3>2, PositionsIncrease
        <4> QED
          BY <2>3, <2>6, <4>1
      <3>3. ASSUME j < i PROVE FALSE
        <4>1. at[j] < at[i]
          BY <1>2, <2>2, <3>1, <3>3, PositionsIncrease
        <4> QED
          BY <2>3, <2>6, <4>1
      <3> QED
        BY <1>2, <2>2, <3>1, <3>2, <3>3
    <2>7. (CHOOSE j \in 0..n : at[j] = at[i]) = i
      BY <2>6
    <2>8. F[at[i]] = Suffix(name, 1 + (CHOOSE j \in 0..n : at[j] = at[i]))
      BY <2>1, <2>5 DEF Spelled
    <2>9. G[at[i]] = w.pos
      BY <2>1, <2>5 DEF Ended
    <2> QED
      BY <2>1, <2>5, <2>7, <2>8, <2>9
  <1> QED
    BY <1>3, <1>4 DEF NewlySpelled

LEMMA SpellsName ==
    ASSUME NEW b, Sound(b), NEW S, NEW E, Spells(b, S, E), NEW name \in Seq(Labels), Named(name),
           write_qname(b, name).pos <= POINTER_RANGE
    PROVE  \E F, G : /\ Spells(write_qname(b, name), F, G)
                     /\ Keeps(b, S, E, write_qname(b, name), F, G)
                     /\ NameAt(write_qname(b, name), F, G, b.pos, name, write_qname(b, name).pos)
  <1> DEFINE w == write_qname(b, name)
             n == LabelsWritten(name, Known(b, name))
             at == Positions(b.pos, name)
             F == Spelled(b, S, name, n, w)
             G == Ended(b, E, w)
  <1>1. Ends(b) /\ b.pos \in Nat /\ Len(name) \in Nat
    BY NameTypes DEF Sound, Ends
  <1>2. NameIn(b, name, n, w)
    BY <1>1, NameWritten
  <1>3. Sound(w) /\ Grows(b, w) /\ Ends(w) /\ w.pos \in Nat /\ w.pos >= b.pos /\ w.pos <= POINTER_RANGE
    BY SoundName DEF Sound, Ends, Grows
  <1> HIDE DEF w, n
  <1>4. /\ n \in 0..Len(name) /\ (n = Len(name) \/ Suffix(name, n + 1) \in DOMAIN b.labels)
        /\ DOMAIN w.cells = DOMAIN b.cells \cup {at[i] : i \in 0..n}
        /\ \A i \in 1..n : w.cells[at[i - 1]] = Label(name[i])
        /\ w.cells[at[n]] = IF n = Len(name) THEN End
                            ELSE Pointer(b.labels[Suffix(name, n + 1)] % POINTER_RANGE)
        /\ w.pos = at[n] + (IF n = Len(name) THEN 1 ELSE 2)
        /\ DOMAIN w.labels = DOMAIN b.labels \cup {Suffix(name, i) : i \in 1..n}
        /\ \A s \in DOMAIN b.labels : w.labels[s] = b.labels[s]
        /\ \A i \in 1..n : w.labels[Suffix(name, i)] = at[i - 1]
    BY <1>2 DEF NameIn
  <1>5. /\ \A p \in DOMAIN b.cells : F[p] = S[p] /\ G[p] = E[p]
        /\ \A i \in 0..n : /\ at[i] \in DOMAIN w.cells /\ at[i] \notin DOMAIN b.cells
                           /\ F[at[i]] = Suffix(name, 1 + i) /\ G[at[i]] = w.pos
    <2>1. NewlySpelled(b, S, E, name, n, w, F, G)
      BY <1>1, <1>2, SpelledFacts
    <2> HIDE DEF F, G
    <2> QED
      BY <2>1 DEF NewlySpelled
  <1>6. at[0] = b.pos /\ \A i \in 1..Len(name) : at[i] = at[i - 1] + 1 + LabelLen[name[i]]
    BY PositionsUnfold
  <1> HIDE DEF F, G, at
  <1>7. Keeps(b, S, E, w, F, G)
    BY <1>3, <1>5 DEF Keeps
  <1>8. \A i \in 1..n : i \in 1..Len(name) /\ i - 1 \in 0..n /\ i \in 0..n
    BY <1>1, <1>4
  <1>9. \A i \in 1..n : /\ w.cells[at[i - 1]].kind = "label" /\ w.cells[at[i - 1]].label = name[i]
                        /\ LabelLen[name[i]] < LABEL_RANGE
    <2>1. ASSUME NEW i \in 1..n
          PROVE  /\ w.cells[at[i - 1]].kind = "label" /\ w.cells[at[i - 1]].label = name[i]
                 /\ LabelLen[name[i]] < LABEL_RANGE
      <3>1. i \in 1..Len(name) /\ i \in DOMAIN name /\ name[i] \in Labels
        BY <1>8, NameTypes
      <3>2. LabelLen[name[i]] > 0 /\ LabelLen[name[i]] < LABEL_RANGE
        <4> DEFINE y == LabelLen[name[i]]
        <4>1. y \in 1..(LABEL_RANGE - 1)
          BY <3>1 DEF Named
        <4>2. LABEL_RANGE \in Nat
          BY DEF LABEL_RANGE
        <4> HIDE DEF y
        <4>3. y > 0 /\ y < LABEL_RANGE
          BY <4>1, <4>2
        <4> QED
          BY <4>3 DEF y
      <3>3. Label(name[i]) = [kind |-> "label", label |-> name[i]]
        BY <3>1, <3>2, LabelFacts
      <3> QED
        BY <1>4, <3>2, <3>3
    <2> QED
      BY <2>1
  <1>10. w.cells[at[n]].kind \in {"end", "pointer"}
    BY <1>4 DEF End, Pointer
  <1>11. \A i \in 0..n : NameCell(w, at[i])
    <2>1. ASSUME NEW i \in 0..n PROVE NameCell(w, at[i])
      <3>1. CASE i = n
        BY <1>5, <1>10, <3>1 DEF NameCell
      <3>2. CASE i # n
        <4>1. i + 1 \in 1..n /\ i + 1 - 1 = i
          BY <1>1, <1>4, <3>2
        <4>2. w.cells[at[i]].kind = "label"
          BY <1>9, <4>1
        <4> QED
          BY <1>5, <4>2 DEF NameCell
      <3> QED
        BY <3>1, <3>2
    <2> QED
      BY <2>1
  <1>12. ASSUME NEW i \in 1..n PROVE CellSpells(w, F, G, at[i - 1])
    <2> DEFINE p == at[i - 1]
               q == at[i]
    <2>1. i \in 1..Len(name) /\ i - 1 \in 0..n /\ i \in 0..n /\ 1 + (i - 1) = i /\ 1 + i = i + 1
      BY <1>8
    <2>2. F[p] = Suffix(name, i) /\ F[q] = Suffix(name, i + 1) /\ G[p] = w.pos /\ G[q] = w.pos
      BY <1>5, <2>1
    <2>3. w.cells[p].kind = "label" /\ w.cells[p].label = name[i] /\ LabelLen[name[i]] < LABEL_RANGE
      BY <1>9
    <2>4. After(w, p) = q
      BY <1>6, <2>1, <2>3 DEF After
    <2>5. Led(F[p], name[i], F[q])
      BY <2>1, <2>2, LedSuffix
    <2>6. F[p] \in Seq(Labels)
      <3>1. i \in 1..(Len(name) + 1)
        BY <1>1, <2>1
      <3> QED
        BY <2>2, <3>1, SuffixFacts
    <2>7. NameCell(w, q)
      BY <1>11, <2>1
    <2> HIDE DEF p, q
    <2>8. CellSpells(w, F, G, p)
      BY <1>3, <2>2, <2>3, <2>4, <2>5, <2>6, <2>7 DEF CellSpells
    <2> QED
      BY <2>8 DEF p
  <1>13. CellSpells(w, F, G, at[n])
    <2> DEFINE p == at[n]
    <2>0. n \in 0..n /\ 1 + n = n + 1 /\ n + 1 \in 1..(Len(name) + 1)
      BY <1>1, <1>4
    <2>1. F[p] = Suffix(name, n + 1) /\ G[p] = w.pos
      BY <1>5, <2>0
    <2>2. F[p] \in Seq(Labels)
      BY <2>0, <2>1, SuffixFacts
    <2>3. CASE n = Len(name)
      <3>1. w.cells[p] = End /\ w.pos = p + 1
        BY <1>4, <2>3
      <3>2. Len(F[p]) = 0
        BY <2>1, <2>3, SuffixEnds, EmptySeq
      <3>3. w.cells[p].kind = "end"
        BY <3>1 DEF End
      <3> HIDE DEF p
      <3>4. CellSpells(w, F, G, p)
        BY <1>3, <2>1, <2>2, <3>1, <3>2, <3>3 DEF CellSpells
      <3> QED
        BY <3>4 DEF p
    <2>4. CASE n # Len(name)
      <3> DEFINE s == Suffix(name, n + 1)
                 v == b.labels[s]
      <3>1. w.cells[p] = Pointer(v % POINTER_RANGE) /\ w.pos = p + 2 /\ s \in DOMAIN b.labels
        BY <1>4, <2>4
      <3>2. v \in DOMAIN b.cells /\ b.cells[v].kind = "label" /\ S[v] = s
        BY <3>1 DEF Spells
      <3>3. v \in Nat /\ v < b.pos
        BY <1>1, <3>2 DEF Ends
      <3> HIDE DEF p, s, v
      <3>4. v % POINTER_RANGE = v
        BY <1>1, <1>3, <3>3 DEF POINTER_RANGE
      <3>5. w.cells[p].kind = "pointer" /\ w.cells[p].to = v
        BY <3>1, <3>4 DEF Pointer
      <3>6. v \in DOMAIN w.cells /\ w.cells[v].kind = "label" /\ F[v] = s
        BY <1>7, <3>2, CellKept
      <3>7. CellSpells(w, F, G, p)
        BY <1>3, <2>1, <2>2, <3>1, <3>5, <3>6 DEF CellSpells, s
      <3> QED
        BY <3>7 DEF p
    <2> QED
      BY <2>3, <2>4
  <1>14. ASSUME NEW p \in DOMAIN w.cells, NameCell(w, p) PROVE CellSpells(w, F, G, p)
    <2>1. CASE p \in DOMAIN b.cells
      <3>1. CellSpells(b, S, E, p)
        BY <1>7, <1>14, <2>1, CellKept DEF Spells
      <3> QED
        BY <1>7, <2>1, <3>1, CellSpellsKept
    <2>2. CASE p \notin DOMAIN b.cells
      <3>1. PICK i \in 0..n : p = at[i]
        BY <1>4, <2>2
      <3>2. i = n \/ (i + 1 \in 1..n /\ i + 1 - 1 = i)
        BY <1>1, <1>4
      <3> QED
        BY <1>12, <1>13, <3>1, <3>2
    <2> QED
      BY <2>1, <2>2
  <1>15. ASSUME NEW s \in DOMAIN w.labels
         PROVE  /\ w.labels[s] \in DOMAIN w.cells /\ w.cells[w.labels[s]].kind = "label"
                /\ F[w.labels[s]] = s
    <2>1. CASE s \in DOMAIN b.labels
      <3> DEFINE v == b.labels[s]
      <3>1. w.labels[s] = v /\ v \in DOMAIN b.cells /\ b.cells[v].kind = "label" /\ S[v] = s
        BY <1>4, <2>1 DEF Spells
      <3> HIDE DEF v
      <3> QED
        BY <1>7, <3>1, CellKept
    <2>2. CASE s \notin DOMAIN b.labels
      <3>1. PICK i \in 1..n : s = Suffix(name, i)
        BY <1>4, <2>2
      <3>2. w.labels[s] = at[i - 1] /\ i - 1 \in 0..n /\ 1 + (i - 1) = i
        BY <1>4, <1>8, <3>1
      <3>3. F[at[i - 1]] = s /\ at[i - 1] \in DOMAIN w.cells /\ w.cells[at[i - 1]].kind = "label"
        BY <1>5, <1>9, <3>1, <3>2
      <3> QED
        BY <3>2, <3>3
    <2> QED
      BY <2>1, <2>2
  <1>16. Spells(w, F, G)
    BY <1>14, <1>15 DEF Spells
  <1>17. NameAt(w, F, G, b.pos, name, w.pos)
    <2>1. 0 \in 0..n /\ 1 + 0 = 1
      BY <1>1, <1>4
    <2>2. NameCell(w, b.pos) /\ F[b.pos] = Suffix(name, 1) /\ G[b.pos] = w.pos
      BY <1>5, <1>6, <1>11, <2>1
    <2> QED
      BY <2>2, SuffixEnds DEF NameAt
  <1>18. \E P, Q : Spells(w, P, Q) /\ Keeps(b, S, E, w, P, Q) /\ NameAt(w, P, Q, b.pos, name, w.pos)
    BY <1>7, <1>16, <1>17
  <1> QED
    BY <1>18 DEF w

(* A cell that is no part of a name leaves the names as they are.          *)
LEMMA SpellsPut ==
    ASSUME NEW b, Sound(b), NEW S, NEW E, Spells(b, S, E),
           NEW cell, GoodCell(cell), cell.kind \notin {"label", "pointer", "end"},
           NEW length \in Nat, length > 0
    PROVE  /\ Spells(Put(b, cell, length), S, E)
           /\ Keeps(b, S, E, Put(b, cell, length), S, E)
           /\ b.pos \in DOMAIN Put(b, cell, length).cells /\ Put(b, cell, length).cells[b.pos] = cell
  <1> DEFINE w == Put(b, cell, length)
  <1>1. Grows(b, w) /\ b.pos \notin DOMAIN b.cells
    BY SoundPut
  <1>2. /\ w.labels = b.labels /\ DOMAIN w.cells = DOMAIN b.cells \cup {b.pos} /\ w.cells[b.pos] = cell
    BY PutFacts
  <1> HIDE DEF w
  <1>3. Keeps(b, S, E, w, S, E)
    BY <1>1 DEF Keeps
  <1>4. ASSUME NEW p \in DOMAIN w.cells, NameCell(w, p) PROVE CellSpells(w, S, E, p)
    <2>1. p \in DOMAIN b.cells
      BY <1>2, <1>4 DEF NameCell
    <2>2. CellSpells(b, S, E, p)
      BY <1>3, <1>4, <2>1, CellKept DEF Spells
    <2> QED
      BY <1>3, <2>1, <2>2, CellSpellsKept
  <1>5. ASSUME NEW s \in DOMAIN w.labels
        PROVE  /\ w.labels[s] \in DOMAIN w.cells /\ w.cells[w.labels[s]].kind = "label"
               /\ S[w.labels[s]] = s
    <2> DEFINE v == b.labels[s]
    <2>1. w.labels[s] = v /\ v \in DOMAIN b.cells /\ b.cells[v].kind = "label" /\ S[v] = s
      BY <1>2 DEF Spells
    <2> HIDE DEF v
    <2> QED
      BY <1>3, <2>1, CellKept
  <1>6. Spells(w, S, E)
    BY <1>4, <1>5 DEF Spells
  <1> QED
    BY <1>2, <1>3, <1>6 DEF w

LEMMA SpellsEnd ==
    ASSUME NEW b, Sound(b), NEW S, NEW E, Spells(b, S, E)
    PROVE  \E F, G : /\ Spells(Put(b, End, 1), F, G) /\ Keeps(b, S, E, Put(b, End, 1), F, G)
                     /\ NameAt(Put(b, End, 1), F, G, b.pos, <<>>, Put(b, End, 1).pos)
  <1> DEFINE w == Put(b, End, 1)
             none == <<>>
             F == [x \in DOMAIN w.cells |-> IF x \in DOMAIN b.cells THEN S[x] ELSE none]
             G == [x \in DOMAIN w.cells |-> IF x \in DOMAIN b.cells THEN E[x] ELSE w.pos]
  <1>0. GoodCell(End) /\ End.kind = "end"
    BY DEF GoodCell, End
  <1>1. Grows(b, w) /\ b.pos \notin DOMAIN b.cells /\ b.pos \in Nat
    BY <1>0, SoundPut DEF Sound, Ends
  <1>2. /\ w.labels = b.labels /\ DOMAIN w.cells = DOMAIN b.cells \cup {b.pos} /\ w.cells[b.pos] = End
        /\ w.pos = b.pos + 1
    BY PutFacts
  <1>3. none \in Seq(Labels) /\ Len(none) = 0
    BY EmptySeq
  <1> HIDE DEF w, none
  <1>4. F[b.pos] = none /\ G[b.pos] = w.pos /\ \A x \in DOMAIN b.cells : F[x] = S[x] /\ G[x] = E[x]
    BY <1>1, <1>2
  <1> HIDE DEF F, G
  <1>5. Keeps(b, S, E, w, F, G)
    BY <1>1, <1>4 DEF Keeps
  <1>6. ASSUME NEW p \in DOMAIN w.cells, NameCell(w, p) PROVE CellSpells(w, F, G, p)
    <2>1. CASE p \in DOMAIN b.cells
      <3>1. CellSpells(b, S, E, p)
        BY <1>5, <1>6, <2>1, CellKept DEF Spells
      <3> QED
        BY <1>5, <2>1, <3>1, CellSpellsKept
    <2>2. CASE p \notin DOMAIN b.cells
      <3>1. p = b.pos
        BY <1>2, <2>2
      <3>2. w.cells[p].kind = "end" /\ F[p] = none /\ G[p] = p + 1 /\ p + 1 \in Nat
        BY <1>0, <1>1, <1>2, <1>4, <3>1
      <3> QED
        BY <1>3, <3>2 DEF CellSpells
    <2> QED
      BY <2>1, <2>2
  <1>7. ASSUME NEW s \in DOMAIN w.labels
        PROVE  /\ w.labels[s] \in DOMAIN w.cells /\ w.cells[w.labels[s]].kind = "label"
               /\ F[w.labels[s]] = s
    <2> DEFINE v == b.labels[s]
    <2>1. w.labels[s] = v /\ v \in DOMAIN b.cells /\ b.cells[v].kind = "label" /\ S[v] = s
      BY <1>2 DEF Spells
    <2> HIDE DEF v
    <2> QED
      BY <1>5, <2>1, CellKept
  <1>8. Spells(w, F, G)
    BY <1>6, <1>7 DEF Spells
  <1>9. NameAt(w, F, G, b.pos, none, w.pos)
    BY <1>0, <1>2, <1>4 DEF NameAt, NameCell
  <1>10. \E P, Q : Spells(w, P, Q) /\ Keeps(b, S, E, w, P, Q) /\ NameAt(w, P, Q, b.pos, none, w.pos)
    BY <1>5, <1>8, <1>9
  <1> QED
    BY <1>10 DEF w, none

LEMMA SpellsSkipped ==
    ASSUME NEW b, IsBuffer(b), Sound(b), NEW S, NEW E, Spells(b, S, E), NEW length \in Nat,
           NEW w, w = [b EXCEPT !.pos = @ + length]
    PROVE  Spells(w, S, E) /\ Keeps(b, S, E, w, S, E)
  <1>1. w.cells = b.cells /\ w.labels = b.labels /\ Grows(b, w)
    BY SkippedFacts, SoundSkipped
  <1>2. Keeps(b, S, E, w, S, E)
    BY <1>1 DEF Keeps
  <1>3. Spells(w, S, E)
    BY <1>1 DEF Spells, CellSpells, NameCell, After
  <1> QED
    BY <1>2, <1>3

(* The name of a record, and its numbers.                                  *)
LEMMA SpellsHead ==
    ASSUME NEW b, Sound(b), NEW S, NEW E, Spells(b, S, E), NEW r \in DnsRecord, CleanRecord(r),
           NamedBy(b, r).pos <= POINTER_RANGE, NEW X, X[0] = FilledBy(b, r).pos
    PROVE  \E F, G : /\ Spells(FilledBy(b, r), F, G) /\ Keeps(b, S, E, FilledBy(b, r), F, G)
                     /\ HeadAt(FilledBy(b, r), F, G, b.pos, r, X)
  <1> DEFINE v == NamedBy(b, r)
             w == FilledBy(b, r)
             d == DomainOf(r)
             m == Meta(r)
  <1>1. Sound(v) /\ Ends(v) /\ Ends(b) /\ Ends(w)
    BY SoundNamedBy, SoundFilledBy DEF Sound
  <1>2. \E F, G : Spells(v, F, G) /\ Keeps(b, S, E, v, F, G) /\ NameAt(v, F, G, b.pos, d, v.pos)
    <2>1. CASE r.type = "OPT"
      BY <2>1, SpellsEnd DEF NamedBy, DomainOf
    <2>2. CASE r.type # "OPT"
      <3>1. r.domain \in Seq(Labels) /\ Named(r.domain)
        BY <2>2, RecordTypes DEF CleanRecord
      <3>2. v = write_qname(b, r.domain) /\ d = r.domain
        BY <2>2 DEF NamedBy, DomainOf
      <3> QED
        BY <3>1, <3>2, SpellsName
    <2> QED
      BY <2>1, <2>2
  <1> HIDE DEF v, d
  <1>3. PICK F, G : Spells(v, F, G) /\ Keeps(b, S, E, v, F, G) /\ NameAt(v, F, G, b.pos, d, v.pos)
    BY <1>2
  <1>4. /\ GoodCell(m) /\ m.kind \notin {"label", "pointer", "end"}
        /\ MetaLen(r) \in Nat /\ MetaLen(r) > 0 /\ w = Put(v, m, MetaLen(r))
    BY MetaFacts DEF FilledBy, v
  <1> HIDE DEF w, m
  <1>5. Spells(w, F, G) /\ Keeps(v, F, G, w, F, G) /\ v.pos \in DOMAIN w.cells /\ w.cells[v.pos] = m
    BY <1>1, <1>3, <1>4, SpellsPut
  <1>6. Keeps(b, S, E, w, F, G)
    BY <1>1, <1>3, <1>5, KeepsOn
  <1>7. NameCell(w, b.pos) /\ F[b.pos] = d /\ G[b.pos] = v.pos
    BY <1>3, <1>5, CellKept DEF NameAt, NameCell
  <1>8. X[0] = v.pos + MetaLen(r)
    BY <1>4, PutFacts DEF w
  <1>9. HeadAt(w, F, G, b.pos, r, X)
    BY <1>5, <1>7, <1>8 DEF HeadAt, d, m
  <1> QED
    BY <1>5, <1>6, <1>9 DEF w

(* A record that is written can be read.                                   *)
RecordSpelled(b, S, E, r, w) ==
    \E F, G, X : /\ Spells(w, F, G) /\ Keeps(b, S, E, w, F, G)
                 /\ RecordAt(w, F, G, b.pos, r, X) /\ w.pos = X[Len(r.names)] + Behind(r.type)

LEMMA SpellsRecord ==
    ASSUME NEW b, Sound(b), NEW S, NEW E, Spells(b, S, E), NEW r \in DnsRecord, CleanRecord(r),
           DnsRecord_write(b, r).pos <= POINTER_RANGE
    PROVE  RecordSpelled(b, S, E, r, DnsRecord_write(b, r))
  <1> DEFINE n == Len(r.names)
             w == DnsRecord_write(b, r)
             k == Behind(r.type)
  <1>1. PICK f : NamesIn(b, r, f) /\ w = [f[n] EXCEPT !.pos = @ + k]
    BY RecordUnfolds DEF CleanRecord
  <1>2. n \in Nat /\ DOMAIN r.names = 1..n /\ (\A i \in 1..n : r.names[i] \in Seq(Labels)) /\ k \in Nat
    BY RecordTypes, NumberTypes, LenProperties
  <1>3. f[0] = FilledBy(b, r) /\ \A i \in 1..n : f[i] = write_qname(f[i - 1], r.names[i])
    BY <1>1 DEF NamesIn
  <1>4. \A i \in 1..n : Named(r.names[i])
    BY <1>2 DEF CleanRecord
  <1> HIDE DEF n, w, k
  <1> DEFINE X == [i \in 0..n |-> f[i].pos]
             Fine(i) == Sound(f[i]) /\ IsBuffer(f[i])
             Said(i) == \E F, G : /\ Spells(f[i], F, G) /\ Keeps(b, S, E, f[i], F, G)
                                  /\ HeadAt(f[i], F, G, b.pos, r, X) /\ NamesAt(f[i], F, G, r, X, i)
             Good(i) == Fine(i) /\ (f[i].pos <= POINTER_RANGE => Said(i))
             H == {i \in 0..n : Good(i)}
  <1>5. \A i \in 0..n : X[i] = f[i].pos
    OBVIOUS
  <1>6. POINTER_RANGE \in Nat
    BY DEF POINTER_RANGE
  <1> HIDE DEF X
  <1>7. Good(0)
    <2>1. Fine(0)
      BY <1>3, SoundFilledBy
    <2>2. ASSUME f[0].pos <= POINTER_RANGE PROVE Said(0)
      <3>1. X[0] = FilledBy(b, r).pos
        BY <1>2, <1>3, <1>5
      <3>2. NamedBy(b, r).pos <= POINTER_RANGE
        <4> DEFINE x == NamedBy(b, r).pos
                   y == FilledBy(b, r).pos
        <4>1. y = x + MetaLen(r)
          BY PutFacts DEF FilledBy
        <4>2. x \in Nat /\ MetaLen(r) \in Nat /\ y <= POINTER_RANGE
          BY <1>3, <2>2, SoundNamedBy, MetaFacts DEF Sound, Ends
        <4> HIDE DEF x, y
        <4>3. x <= POINTER_RANGE
          BY <1>6, <4>1, <4>2
        <4> QED
          BY <4>3 DEF x
      <3>3. \E F, G : /\ Spells(f[0], F, G) /\ Keeps(b, S, E, f[0], F, G)
                      /\ HeadAt(f[0], F, G, b.pos, r, X)
        BY <1>3, <3>1, <3>2, SpellsHead
      <3>4. \A F, G : NamesAt(f[0], F, G, r, X, 0)
        BY DEF NamesAt
      <3> QED
        BY <3>3, <3>4
    <2> QED
      BY <2>1, <2>2
  <1>8. ASSUME NEW i \in 1..n, i - 1 \in H PROVE i \in H
    <2> DEFINE u == f[i - 1]
               v == f[i]
               name == r.names[i]
    <2>1. i \in 0..n /\ i - 1 \in 0..n /\ Good(i - 1)
      BY <1>2, <1>8
    <2>2. v = write_qname(u, name) /\ name \in Seq(Labels) /\ Named(name)
      BY <1>2, <1>3, <1>4
    <2>3. Sound(u) /\ IsBuffer(u)
      BY <2>1
    <2>4. X[i] = v.pos /\ X[i - 1] = u.pos
      BY <1>5, <2>1
    <2> HIDE DEF u, v, name
    <2>5. Sound(v) /\ Grows(u, v) /\ IsBuffer(v)
      BY <2>2, <2>3, SoundName
    <2>6. Ends(u) /\ Ends(v) /\ Ends(b) /\ u.pos \in Nat /\ v.pos \in Nat /\ u.pos <= v.pos
      BY <2>3, <2>5 DEF Sound, Ends, Grows
    <2>7. ASSUME v.pos <= POINTER_RANGE PROVE Said(i)
      <3>1. u.pos <= POINTER_RANGE
        BY <1>6, <2>6, <2>7
      <3>2. PICK P, Q : /\ Spells(u, P, Q) /\ Keeps(b, S, E, u, P, Q)
                        /\ HeadAt(u, P, Q, b.pos, r, X) /\ NamesAt(u, P, Q, r, X, i - 1)
        BY <2>1, <3>1 DEF u
      <3>3. PICK F, G : Spells(v, F, G) /\ Keeps(u, P, Q, v, F, G) /\ NameAt(v, F, G, u.pos, name, v.pos)
        BY <2>2, <2>3, <2>7, <3>2, SpellsName
      <3>4. Keeps(b, S, E, v, F, G)
        BY <2>6, <3>2, <3>3, KeepsOn
      <3>5. HeadAt(v, F, G, b.pos, r, X)
        BY <3>2, <3>3, HeadKept
      <3>6. NamesAt(v, F, G, r, X, i - 1)
        BY <3>2, <3>3, NamesKept
      <3>7. NamesAt(v, F, G, r, X, i)
        <4> SUFFICES ASSUME NEW j \in 1..i
                     PROVE  NameCell(v, X[j - 1]) /\ F[X[j - 1]] = r.names[j] /\ X[j] = G[X[j - 1]]
          BY DEF NamesAt
        <4>1. CASE j = i
          BY <2>4, <3>3, <4>1 DEF NameAt, name
        <4>2. CASE j # i
          <5>1. j \in 1..(i - 1)
            BY <2>1, <4>2
          <5> QED
            BY <3>6, <5>1 DEF NamesAt
        <4> QED
          BY <4>1, <4>2
      <3>8. \E A, B : /\ Spells(v, A, B) /\ Keeps(b, S, E, v, A, B)
                      /\ HeadAt(v, A, B, b.pos, r, X) /\ NamesAt(v, A, B, r, X, i)
        BY <3>3, <3>4, <3>5, <3>7
      <3> QED
        BY <3>8 DEF v
    <2>8. Good(i)
      BY <2>5, <2>7 DEF v
    <2> QED
      BY <2>1, <2>8
  <1>9. Good(n)
    <2>1. 0 \in H
      BY <1>2, <1>7
    <2> HIDE DEF H, Good
    <2>2. \A i \in 0..n : i \in H
      BY <1>2, <1>8, <2>1, UpTo
    <2>3. n \in H
      BY <1>2, <2>2
    <2> QED
      BY <2>3 DEF H
  <1> DEFINE v == f[n]
  <1>10. Sound(v) /\ IsBuffer(v) /\ v.pos \in Nat /\ X[n] = v.pos
    BY <1>2, <1>5, <1>9 DEF Sound, Ends
  <1>11. w.pos = v.pos + k /\ Sound(w) /\ w.pos <= POINTER_RANGE
    BY <1>1, <1>2, <1>10, SkippedFacts, SoundRecord DEF w
  <1>12. v.pos <= POINTER_RANGE
    <2> HIDE DEF v
    <2> QED
      BY <1>2, <1>6, <1>10, <1>11
  <1>13. PICK F, G : /\ Spells(v, F, G) /\ Keeps(b, S, E, v, F, G)
                     /\ HeadAt(v, F, G, b.pos, r, X) /\ NamesAt(v, F, G, r, X, n)
    BY <1>9, <1>12
  <1> HIDE DEF v
  <1>14. Spells(w, F, G) /\ Keeps(v, F, G, w, F, G)
    BY <1>1, <1>2, <1>10, <1>13, SpellsSkipped DEF v
  <1>15. Keeps(b, S, E, w, F, G)
    BY <1>10, <1>11, <1>13, <1>14, KeepsOn DEF Sound
  <1>16. HeadAt(w, F, G, b.pos, r, X) /\ NamesAt(w, F, G, r, X, n)
    BY <1>13, <1>14, HeadKept, NamesKept
  <1>17. X[n] \in Nat /\ w.pos = X[n] + k /\ X[n] + k <= w.pos
    BY <1>2, <1>10, <1>11
  <1>18. RecordAt(w, F, G, b.pos, r, X)
    BY <1>16, <1>17 DEF RecordAt, n, k
  <1>19. RecordSpelled(b, S, E, r, w)
    BY <1>14, <1>15, <1>17, <1>18 DEF RecordSpelled, n, k
  <1> QED
    BY <1>19 DEF w

(* The question.                                                           *)
QuestionCell(p) == [kind |-> "question", type |-> p.questions[1].type]

QuestionAt(b, S, E, p, e) ==
    IF p.questions = <<>> THEN e = HEADER
    ELSE /\ NameCell(b, HEADER) /\ S[HEADER] = p.questions[1].name
         /\ E[HEADER] \in DOMAIN b.cells /\ b.cells[E[HEADER]] = QuestionCell(p)
         /\ e = E[HEADER] + QUESTION_META

LoweredQuestions(p) ==
    [i \in DOMAIN p.questions |-> [p.questions[i] EXCEPT !.name = Lowered(@)]]

LEMMA QuestionKept ==
    ASSUME NEW b, NEW S, NEW E, NEW w, NEW F, NEW G, Keeps(b, S, E, w, F, G),
           NEW p, NEW e, QuestionAt(b, S, E, p, e)
    PROVE  QuestionAt(w, F, G, p, e)
  <1>1. CASE p.questions = <<>>
    BY <1>1 DEF QuestionAt
  <1>2. CASE p.questions # <<>>
    <2>1. /\ NameCell(b, HEADER) /\ S[HEADER] = p.questions[1].name
          /\ E[HEADER] \in DOMAIN b.cells /\ b.cells[E[HEADER]] = QuestionCell(p)
          /\ e = E[HEADER] + QUESTION_META
      BY <1>2 DEF QuestionAt
    <2>2. /\ NameCell(w, HEADER) /\ F[HEADER] = p.questions[1].name /\ G[HEADER] = E[HEADER]
          /\ E[HEADER] \in DOMAIN w.cells /\ w.cells[E[HEADER]] = QuestionCell(p)
      BY <2>1, CellKept DEF NameCell
    <2> QED
      BY <1>2, <2>1, <2>2 DEF QuestionAt
  <1> QED
    BY <1>1, <1>2

LEMMA SpellsQuestion ==
    ASSUME NEW p \in DnsPacket, NEW h \in Headers, Clean(p),
           WriteQuestion(Opening(p, h), p).pos <= POINTER_RANGE
    PROVE  LET w == WriteQuestion(Opening(p, h), p)
           IN  \E F, G : Spells(w, F, G) /\ QuestionAt(w, F, G, p, w.pos)
  <1> DEFINE b == Opening(p, h)
             w == WriteQuestion(b, p)
  <1>1. /\ Sound(b) /\ b.pos = HEADER /\ b.labels = <<>> /\ DOMAIN b.cells = {0}
        /\ b.cells[0].kind = "header"
    BY SoundOpening, HeaderCellFacts
  <1> HIDE DEF b
  <1>2. \A S, E : Spells(b, S, E)
    BY <1>1 DEF Spells, NameCell
  <1>3. CASE p.questions = <<>>
    <2>1. w = b
      BY <1>3 DEF WriteQuestion
    <2> QED
      BY <1>1, <1>2, <1>3, <2>1 DEF QuestionAt, b
  <1>4. CASE p.questions # <<>>
    <2> DEFINE name == p.questions[1].name
               c == QuestionCell(p)
               v == write_qname(b, name)
    <2>1. name \in Seq(Labels) /\ p.questions[1].type \in Types /\ Len(p.questions) = 1
      BY <1>4, QuestionTypes
    <2>2. Named(name)
      <3>1. p.questions \in Seq(DnsQuestion)
        BY DEF DnsPacket
      <3>2. 1 \in DOMAIN p.questions
        BY <2>1, <3>1, LenProperties
      <3> QED
        BY <3>2 DEF Clean
    <2>3. w = Put(v, c, QUESTION_META)
      BY <1>4 DEF WriteQuestion, question_write, QuestionCell
    <2>4. GoodCell(c) /\ c.kind \notin {"label", "pointer", "end"}
      BY <2>1, QuestionCellFacts DEF QuestionCell
    <2> HIDE DEF name, c, v, w
    <2>5. Sound(v) /\ v.pos \in Nat /\ Ends(v)
      BY <1>1, <2>1, SoundName DEF v, Sound, Ends
    <2>6. QUESTION_META \in Nat /\ QUESTION_META > 0 /\ w.pos = v.pos + QUESTION_META
      BY <2>3, PutFacts DEF QUESTION_META
    <2>7. v.pos <= POINTER_RANGE
      <3>1. w.pos <= POINTER_RANGE /\ POINTER_RANGE \in Nat
        BY DEF w, b, POINTER_RANGE
      <3> QED
        BY <2>5, <2>6, <3>1
    <2>8. PICK S : Spells(b, S, S)
      BY <1>2
    <2>9. PICK F, G : Spells(v, F, G) /\ NameAt(v, F, G, b.pos, name, v.pos)
      BY <1>1, <2>1, <2>2, <2>7, <2>8, SpellsName DEF v
    <2>10. Spells(w, F, G) /\ Keeps(v, F, G, w, F, G) /\ v.pos \in DOMAIN w.cells /\ w.cells[v.pos] = c
      BY <2>3, <2>4, <2>5, <2>6, <2>9, SpellsPut
    <2>11. NameCell(w, HEADER) /\ F[HEADER] = name /\ G[HEADER] = v.pos
      BY <1>1, <2>9, <2>10, CellKept DEF NameAt, NameCell
    <2>12. QuestionAt(w, F, G, p, w.pos)
      BY <1>4, <2>6, <2>10, <2>11 DEF QuestionAt, name, c
    <2> QED
      BY <2>10, <2>12 DEF w, b
  <1> QED
    BY <1>3, <1>4

LEMMA QuestionIsRead ==
    ASSUME NEW b, Sound(b), NEW S, NEW E, Spells(b, S, E), NEW p \in DnsPacket,
           NEW e, QuestionAt(b, S, E, p, e), NEW t
    PROVE  LET q == ReadQuestions(b, Len(p.questions), t)
           IN  q.status = "ok" /\ q.pos = e /\ q.questions = LoweredQuestions(p)
  <1> DEFINE q == ReadQuestions(b, Len(p.questions), t)
  <1>1. CASE p.questions = <<>>
    <2>1. Len(p.questions) = 0 /\ e = HEADER
      BY <1>1, QuestionTypes DEF QuestionAt
    <2>2. q = [status |-> "ok", pos |-> HEADER, questions |-> <<>>]
      BY <2>1 DEF ReadQuestions
    <2>3. LoweredQuestions(p) = <<>>
      BY <1>1 DEF LoweredQuestions
    <2> QED
      BY <2>1, <2>2, <2>3
  <1>2. CASE p.questions # <<>>
    <2> DEFINE u == p.questions[1]
               n == read_qname(b, HEADER, t)
               c == QuestionCell(p)
    <2>1. /\ NameCell(b, HEADER) /\ S[HEADER] = u.name
          /\ E[HEADER] \in DOMAIN b.cells /\ b.cells[E[HEADER]] = c
          /\ e = E[HEADER] + QUESTION_META
      BY <1>2 DEF QuestionAt
    <2>2. u \in DnsQuestion /\ u.name \in Names /\ Len(p.questions) = 1
      BY <1>2, QuestionTypes
    <2>3. n.status = "ok" /\ n.name = AsName(u.name) /\ n.pos = E[HEADER]
      BY <2>1, NameIsRead
    <2>4. AsName(u.name) = Lowered(u.name)
      BY <2>2 DEF AsName, Names
    <2>5. c.kind = "question" /\ c.type = u.type
      BY DEF QuestionCell
    <2>6. Cell(b, n.pos, t) = c
      BY <2>1, <2>3 DEF Cell
    <2>7. q = QuestionOf(n, c)
      BY <2>2, <2>6 DEF ReadQuestions, question_read
    <2> HIDE DEF n, c, q
    <2>8. /\ q.status = "ok" /\ q.pos = e
          /\ q.questions = <<[name |-> Lowered(u.name), type |-> u.type]>>
      BY <2>1, <2>3, <2>4, <2>5, <2>7 DEF QuestionOf
    <2>9. LoweredQuestions(p) = <<[name |-> Lowered(u.name), type |-> u.type]>>
      <3>1. p.questions \in Seq(DnsQuestion)
        BY DEF DnsPacket
      <3>2. DOMAIN p.questions = 1..1
        BY <2>2, <3>1, LenProperties
      <3>3. [u EXCEPT !.name = Lowered(@)] = [name |-> Lowered(u.name), type |-> u.type]
        BY <2>2 DEF DnsQuestion
      <3> DEFINE g == LoweredQuestions(p)
                 a == [name |-> Lowered(u.name), type |-> u.type]
      <3>4. g = [i \in 1..1 |-> g[i]] /\ g[1] = a
        BY <3>2, <3>3 DEF LoweredQuestions
      <3> HIDE DEF g, a
      <3>5. g = <<a>>
        BY <3>4
      <3> QED
        BY <3>5 DEF g, a
    <2> QED
      BY <2>8, <2>9 DEF q
  <1> QED
    BY <1>1, <1>2

-----------------------------------------------------------------------------
(* The sections of a packet as they are read.                              *)

(* Of s, the first Len(q) records are read.                                *)
SectionAsRead(s, q) == \A i \in 1..Len(q) : q[i] = AsRead(s[i])

(* Of the records the header h tells of, k are read.                       *)
ReadTo(p, h, q, k) ==
    /\ Len(q.answers) + Len(q.authorities) + Len(q.resources) = k
    /\ Len(q.answers) <= h.answers
    /\ Len(q.authorities) <= h.authorities
    /\ Len(q.resources) <= h.resources
    /\ Len(q.authorities) > 0 => Len(q.answers) = h.answers
    /\ Len(q.resources) > 0 => Len(q.answers) = h.answers /\ Len(q.authorities) = h.authorities
    /\ SectionAsRead(p.answers, q.answers)
    /\ SectionAsRead(p.authorities, q.authorities)
    /\ SectionAsRead(p.resources, q.resources)

LEMMA NothingRead ==
    ASSUME NEW p, NEW h \in Headers, NEW f, NEW qs
    PROVE  ReadTo(p, h, Opened(f, qs), 0)
  <1> DEFINE none == <<>>
             q == Opened(f, qs)
  <1>1. q.answers = none /\ q.authorities = none /\ q.resources = none /\ Len(none) = 0
    BY EmptySeq DEF Opened
  <1>2. h.answers \in Nat /\ h.authorities \in Nat /\ h.resources \in Nat
    BY HeaderFields
  <1> HIDE DEF q, none
  <1>3. ReadTo(p, h, q, 0)
    BY <1>1, <1>2 DEF ReadTo, SectionAsRead
  <1> QED
    BY <1>3 DEF q

LEMMA SectionExtended ==
    ASSUME NEW s, NEW q \in Seq(DnsRecord), SectionAsRead(s, q), NEW a \in DnsRecord,
           a = AsRead(s[Len(q) + 1])
    PROVE  SectionAsRead(s, Append(q, a)) /\ Len(Append(q, a)) = Len(q) + 1
  <1> DEFINE n == Len(q)
             w == Append(q, a)
  <1>1. n \in Nat /\ Len(w) = n + 1 /\ w[n + 1] = a /\ \A i \in 1..n : w[i] = q[i]
    BY AppendProperties, LenProperties
  <1> HIDE DEF w, n
  <1>2. \A i \in 1..n : q[i] = AsRead(s[i])
    BY DEF SectionAsRead, n
  <1>3. ASSUME NEW i \in 1..(n + 1) PROVE w[i] = AsRead(s[i])
    <2>1. i = n + 1 \/ i \in 1..n
      BY <1>1
    <2> QED
      BY <1>1, <1>2, <2>1 DEF n
  <1> QED
    BY <1>1, <1>3 DEF SectionAsRead, w, n

LEMMA ReadOneMore ==
    ASSUME NEW p \in DnsPacket, NEW q \in DnsPacket, header \in Headers, NEW n \in Nat,
           CountedTo(p, header, n), NEW k \in Nat, k < n, ReadTo(p, header, q, k),
           NEW a \in DnsRecord, a = AsRead(Records(p)[k + 1])
    PROVE  ReadTo(p, header, [q EXCEPT ![SectionRead(q)] = Append(@, a)], k + 1)
  <1> DEFINE x == Len(q.answers)
             y == Len(q.authorities)
             z == Len(q.resources)
             ha == header.answers
             hb == header.authorities
             hc == header.resources
             la == Len(p.answers)
             lb == Len(p.authorities)
             lc == Len(p.resources)
             w == [q EXCEPT ![SectionRead(q)] = Append(@, a)]
  <1>1. /\ x \in Nat /\ y \in Nat /\ z \in Nat /\ la \in Nat /\ lb \in Nat /\ lc \in Nat
        /\ q.answers \in Seq(DnsRecord) /\ q.authorities \in Seq(DnsRecord)
        /\ q.resources \in Seq(DnsRecord)
    BY PacketTypes
  <1>2. ha \in Nat /\ hb \in Nat /\ hc \in Nat
    BY HeaderFields
  <1>3. /\ ha + hb + hc = n /\ ha <= la /\ hb <= lb /\ hc <= lc
        /\ (hb > 0 => ha = la) /\ (hc > 0 => ha = la /\ hb = lb)
    BY DEF CountedTo, Count
  <1>4. /\ x + y + z = k /\ x <= ha /\ y <= hb /\ z <= hc
        /\ (y > 0 => x = ha) /\ (z > 0 => x = ha /\ y = hb)
        /\ SectionAsRead(p.answers, q.answers) /\ SectionAsRead(p.authorities, q.authorities)
        /\ SectionAsRead(p.resources, q.resources)
    BY DEF ReadTo
  <1>5. SectionRead(q) = IF x < ha THEN "answers" ELSE IF y < hb THEN "authorities" ELSE "resources"
    BY DEF SectionRead
  <1>a. /\ [q EXCEPT !.answers = Append(@, a)].answers = Append(q.answers, a)
        /\ [q EXCEPT !.answers = Append(@, a)].authorities = q.authorities
        /\ [q EXCEPT !.answers = Append(@, a)].resources = q.resources
    BY DEF DnsPacket
  <1>b. /\ [q EXCEPT !.authorities = Append(@, a)].answers = q.answers
        /\ [q EXCEPT !.authorities = Append(@, a)].authorities = Append(q.authorities, a)
        /\ [q EXCEPT !.authorities = Append(@, a)].resources = q.resources
    BY DEF DnsPacket
  <1>c. /\ [q EXCEPT !.resources = Append(@, a)].answers = q.answers
        /\ [q EXCEPT !.resources = Append(@, a)].authorities = q.authorities
        /\ [q EXCEPT !.resources = Append(@, a)].resources = Append(q.resources, a)
    BY DEF DnsPacket
  <1>s. /\ \A i \in 1..la : Records(p)[i] = p.answers[i]
        /\ \A i \in 1..lb : Records(p)[la + i] = p.authorities[i]
        /\ \A i \in 1..lc : Records(p)[la + lb + i] = p.resources[i]
    BY SectionsOf
  <1>l. /\ Len(q.answers) = x /\ Len(q.authorities) = y /\ Len(q.resources) = z
        /\ header.answers = ha /\ header.authorities = hb /\ header.resources = hc
    OBVIOUS
  <1> HIDE DEF x, y, z, ha, hb, hc, la, lb, lc
  <1>6. CASE x < ha
    <2>1. y = 0 /\ z = 0 /\ k = x /\ x + 1 \in 1..la
      BY <1>1, <1>2, <1>3, <1>4, <1>6
    <2>2. a = AsRead(p.answers[x + 1])
      BY <1>s, <2>1
    <2>3. /\ SectionAsRead(p.answers, Append(q.answers, a)) /\ Len(Append(q.answers, a)) = x + 1
      BY <1>1, <1>4, <1>l, <2>2, SectionExtended
    <2>4. w.answers = Append(q.answers, a) /\ w.authorities = q.authorities /\ w.resources = q.resources
      BY <1>5, <1>6, <1>a
    <2> HIDE DEF w
    <2>5. Len(w.answers) = x + 1 /\ Len(w.authorities) = y /\ Len(w.resources) = z
      BY <1>l, <2>3, <2>4
    <2>6. /\ SectionAsRead(p.answers, w.answers) /\ SectionAsRead(p.authorities, w.authorities)
          /\ SectionAsRead(p.resources, w.resources)
      BY <1>4, <2>3, <2>4
    <2>7. /\ (x + 1) + y + z = k + 1 /\ x + 1 <= ha /\ ~(y > 0) /\ ~(z > 0)
      BY <1>1, <1>2, <1>4, <1>6, <2>1
    <2>8. ReadTo(p, header, w, k + 1)
      BY ONLY <1>4, <1>l, <2>5, <2>6, <2>7 DEF ReadTo
    <2> QED
      BY <2>8 DEF w
  <1>7. CASE ~(x < ha) /\ y < hb
    <2>1. x = ha /\ ha = la /\ z = 0 /\ y + 1 \in 1..lb /\ la + (y + 1) = k + 1
      BY <1>1, <1>2, <1>3, <1>4, <1>7
    <2>2. a = AsRead(p.authorities[y + 1])
      BY <1>s, <2>1
    <2>3. /\ SectionAsRead(p.authorities, Append(q.authorities, a))
          /\ Len(Append(q.authorities, a)) = y + 1
      BY <1>1, <1>4, <1>l, <2>2, SectionExtended
    <2>4. w.answers = q.answers /\ w.authorities = Append(q.authorities, a) /\ w.resources = q.resources
      BY <1>5, <1>7, <1>b
    <2> HIDE DEF w
    <2>5. Len(w.answers) = x /\ Len(w.authorities) = y + 1 /\ Len(w.resources) = z
      BY <1>l, <2>3, <2>4
    <2>6. /\ SectionAsRead(p.answers, w.answers) /\ SectionAsRead(p.authorities, w.authorities)
          /\ SectionAsRead(p.resources, w.resources)
      BY <1>4, <2>3, <2>4
    <2>7. /\ x + (y + 1) + z = k + 1 /\ y + 1 <= hb /\ x = ha /\ ~(z > 0)
      BY <1>1, <1>2, <1>4, <1>7, <2>1
    <2>8. ReadTo(p, header, w, k + 1)
      BY ONLY <1>4, <1>l, <2>5, <2>6, <2>7 DEF ReadTo
    <2> QED
      BY <2>8 DEF w
  <1>8. CASE ~(x < ha) /\ ~(y < hb)
    <2>1. x = ha /\ y = hb /\ z < hc /\ ha = la /\ hb = lb /\ z + 1 \in 1..lc /\ la + lb + (z + 1) = k + 1
      BY <1>1, <1>2, <1>3, <1>4, <1>8
    <2>2. a = AsRead(p.resources[z + 1])
      BY <1>s, <2>1
    <2>3. /\ SectionAsRead(p.resources, Append(q.resources, a))
          /\ Len(Append(q.resources, a)) = z + 1
      BY <1>1, <1>4, <1>l, <2>2, SectionExtended
    <2>4. w.answers = q.answers /\ w.authorities = q.authorities /\ w.resources = Append(q.resources, a)
      BY <1>5, <1>8, <1>c
    <2> HIDE DEF w
    <2>5. Len(w.answers) = x /\ Len(w.authorities) = y /\ Len(w.resources) = z + 1
      BY <1>l, <2>3, <2>4
    <2>6. /\ SectionAsRead(p.answers, w.answers) /\ SectionAsRead(p.authorities, w.authorities)
          /\ SectionAsRead(p.resources, w.resources)
      BY <1>4, <2>3, <2>4
    <2>7. /\ x + y + (z + 1) = k + 1 /\ z + 1 <= hc /\ x = ha /\ y = hb
      BY <1>1, <1>2, <1>4, <2>1
    <2>8. ReadTo(p, header, w, k + 1)
      BY ONLY <1>4, <1>l, <2>5, <2>6, <2>7 DEF ReadTo
    <2> QED
      BY <2>8 DEF w
  <1> QED
    BY <1>6, <1>7, <1>8

LEMMA AllTaken ==
    ASSUME NEW p \in DnsPacket, NEW q \in DnsPacket, header \in Headers,
           ReadTo(p, header, q, Count(header))
    PROVE  \A section \in {"answers", "authorities", "resources"} : q[section] = Taken(p, section)
  <1> DEFINE x == Len(q.answers)
             y == Len(q.authorities)
             z == Len(q.resources)
  <1>1. /\ x \in Nat /\ y \in Nat /\ z \in Nat
        /\ q.answers \in Seq(DnsRecord) /\ q.authorities \in Seq(DnsRecord)
        /\ q.resources \in Seq(DnsRecord)
    BY PacketTypes
  <1>2. /\ header.answers \in Nat /\ header.authorities \in Nat /\ header.resources \in Nat
    BY HeaderFields
  <1>3. /\ x + y + z = header.answers + header.authorities + header.resources
        /\ x <= header.answers /\ y <= header.authorities /\ z <= header.resources
    BY DEF ReadTo, Count
  <1>4. x = header.answers /\ y = header.authorities /\ z = header.resources
    <2> HIDE DEF x, y, z
    <2> QED
      BY <1>1, <1>2, <1>3
  <1>5. /\ SectionAsRead(p.answers, q.answers) /\ SectionAsRead(p.authorities, q.authorities)
        /\ SectionAsRead(p.resources, q.resources)
    BY DEF ReadTo
  <1>6. ASSUME NEW s, NEW f \in Seq(DnsRecord), SectionAsRead(s, f)
        PROVE  f = [i \in 1..Len(f) |-> AsRead(s[i])]
    <2>1. DOMAIN f = 1..Len(f) /\ f = [i \in DOMAIN f |-> f[i]]
      BY LenProperties
    <2> QED
      BY <1>6, <2>1 DEF SectionAsRead
  <1>7. q.answers = Taken(p, "answers")
    BY <1>1, <1>4, <1>5, <1>6 DEF Taken
  <1>8. q.authorities = Taken(p, "authorities")
    BY <1>1, <1>4, <1>5, <1>6 DEF Taken
  <1>9. q.resources = Taken(p, "resources")
    BY <1>1, <1>4, <1>5, <1>6 DEF Taken
  <1> QED
    BY <1>7, <1>8, <1>9

-----------------------------------------------------------------------------
(* A packet from one end to the other.                                     *)

RecordFrom(b, S, E, p, r, e) ==
    \E X : RecordAt(b, S, E, p, r, X) /\ e = X[Len(r.names)] + Behind(r.type)

(* The question of p and its first k records are in the buffer b, record i *)
(* between Q[i - 1] and Q[i].                                              *)
Laid(b, p, k, S, E, Q) ==
    /\ Spells(b, S, E) /\ QuestionAt(b, S, E, p, Q[0]) /\ Q[k] = b.pos
    /\ \A i \in 1..k : RecordFrom(b, S, E, Q[i - 1], Records(p)[i], Q[i])

(* And x is where record i ends.                                           *)
LaidTo(b, p, k, i, x) == \E S, E, Q : Laid(b, p, k, S, E, Q) /\ Q[i] = x

LEMMA CleanRecords ==
    ASSUME NEW p \in DnsPacket, Clean(p), NEW i \in 1..Len(Records(p))
    PROVE  Records(p)[i] \in DnsRecord /\ CleanRecord(Records(p)[i])
  <1>1. Records(p) \in Seq(DnsRecord) /\ Records(p)[i] \in DnsRecord
    BY PacketTypes
  <1>2. i \in DOMAIN Records(p)
    BY <1>1, LenProperties
  <1> QED
    BY <1>1, <1>2 DEF Clean, CleanRecord

LEMMA LaidQuestion ==
    ASSUME NEW p \in DnsPacket, NEW h \in Headers, Clean(p),
           WriteQuestion(Opening(p, h), p).pos <= POINTER_RANGE
    PROVE  LaidTo(WriteQuestion(Opening(p, h), p), p, 0, 0, WriteQuestion(Opening(p, h), p).pos)
  <1> DEFINE w == WriteQuestion(Opening(p, h), p)
             Q == [i \in {0} |-> w.pos]
  <1>1. PICK F, G : Spells(w, F, G) /\ QuestionAt(w, F, G, p, w.pos)
    BY SpellsQuestion
  <1>2. Q[0] = w.pos
    OBVIOUS
  <1> HIDE DEF w, Q
  <1>3. Laid(w, p, 0, F, G, Q)
    BY <1>1, <1>2 DEF Laid
  <1> QED
    BY <1>2, <1>3 DEF LaidTo, w

LEMMA FromKept ==
    ASSUME NEW b, NEW S, NEW E, NEW w, NEW F, NEW G, Keeps(b, S, E, w, F, G), Ends(b), Ends(w),
           NEW p, NEW r \in DnsRecord, NEW e, RecordFrom(b, S, E, p, r, e)
    PROVE  RecordFrom(w, F, G, p, r, e)
  <1>1. PICK X : RecordAt(b, S, E, p, r, X) /\ e = X[Len(r.names)] + Behind(r.type)
    BY DEF RecordFrom
  <1>2. RecordAt(w, F, G, p, r, X)
    BY <1>1, RecordKept
  <1> QED
    BY <1>1, <1>2 DEF RecordFrom

LEMMA LaidRecord ==
    ASSUME NEW b, Sound(b), NEW p \in DnsPacket, Clean(p), NEW k \in Nat, k < Len(Records(p)),
           LaidTo(b, p, k, k, b.pos),
           DnsRecord_write(b, Records(p)[k + 1]).pos <= POINTER_RANGE
    PROVE  LET w == DnsRecord_write(b, Records(p)[k + 1])
           IN  LaidTo(w, p, k + 1, k + 1, w.pos)
  <1> DEFINE r == Records(p)[k + 1]
             w == DnsRecord_write(b, r)
  <1>1. Len(Records(p)) \in Nat /\ k + 1 \in 1..Len(Records(p))
    BY PacketTypes
  <1>2. r \in DnsRecord /\ CleanRecord(r) /\ \A i \in 1..k : Records(p)[i] \in DnsRecord
    BY <1>1, CleanRecords
  <1>3. PICK S, E, Q : Laid(b, p, k, S, E, Q)
    BY DEF LaidTo
  <1>4. /\ Spells(b, S, E) /\ QuestionAt(b, S, E, p, Q[0]) /\ Q[k] = b.pos
        /\ \A i \in 1..k : RecordFrom(b, S, E, Q[i - 1], Records(p)[i], Q[i])
    BY <1>3 DEF Laid
  <1> HIDE DEF r
  <1>5. Sound(w) /\ Ends(w) /\ Ends(b)
    BY <1>2, SoundRecord DEF Sound
  <1>6. RecordSpelled(b, S, E, r, w)
    BY <1>2, <1>4, SpellsRecord DEF r
  <1> HIDE DEF w
  <1>7. PICK F, G, X : /\ Spells(w, F, G) /\ Keeps(b, S, E, w, F, G)
                       /\ RecordAt(w, F, G, b.pos, r, X) /\ w.pos = X[Len(r.names)] + Behind(r.type)
    BY <1>6 DEF RecordSpelled
  <1> DEFINE P == [i \in 0..(k + 1) |-> IF i = k + 1 THEN w.pos ELSE Q[i]]
  <1>8. P[k + 1] = w.pos /\ \A i \in 0..k : P[i] = Q[i]
    OBVIOUS
  <1> HIDE DEF P
  <1>9. QuestionAt(w, F, G, p, P[0])
    <2>1. P[0] = Q[0]
      BY <1>8
    <2> QED
      BY <1>4, <1>7, <2>1, QuestionKept
  <1>10. ASSUME NEW i \in 1..(k + 1)
         PROVE  RecordFrom(w, F, G, P[i - 1], Records(p)[i], P[i])
    <2>1. CASE i = k + 1
      <3>1. P[i - 1] = b.pos /\ P[i] = w.pos /\ Records(p)[i] = r
        BY <1>4, <1>8, <2>1 DEF r
      <3> QED
        BY <1>7, <3>1 DEF RecordFrom
    <2>2. CASE i # k + 1
      <3>1. i \in 1..k /\ i - 1 \in 0..k /\ i \in 0..k
        BY <2>2
      <3>2. P[i - 1] = Q[i - 1] /\ P[i] = Q[i]
        BY <1>8, <3>1
      <3>3. RecordFrom(w, F, G, Q[i - 1], Records(p)[i], Q[i])
        BY <1>2, <1>4, <1>5, <1>7, <3>1, FromKept
      <3> QED
        BY <3>2, <3>3
    <2> QED
      BY <2>1, <2>2
  <1>11. Laid(w, p, k + 1, F, G, P)
    BY <1>7, <1>8, <1>9, <1>10 DEF Laid
  <1> QED
    BY <1>8, <1>11 DEF LaidTo, w, r

(* What the reader finds at the end of record k: the next one.             *)
LEMMA LaidIsRead ==
    ASSUME NEW b, Sound(b), NEW p \in DnsPacket, Clean(p), NEW n \in Nat, n <= Len(Records(p)),
           NEW k \in Nat, k < n, NEW x, LaidTo(b, p, n, k, x),
           NEW t, t = "udp" => b.pos < BYTE_BUFFER
    PROVE  LET q == DnsRecord_read(b, x, t)
           IN  q.status = "ok" /\ q.record = AsRead(Records(p)[k + 1]) /\ LaidTo(b, p, n, k + 1, q.pos)
  <1> DEFINE r == Records(p)[k + 1]
             q == DnsRecord_read(b, x, t)
  <1>1. Len(Records(p)) \in Nat /\ k + 1 \in 1..Len(Records(p)) /\ k + 1 \in 1..n
    BY PacketTypes
  <1>2. r \in DnsRecord /\ CleanRecord(r)
    BY <1>1, CleanRecords
  <1>3. PICK S, E, Q : Laid(b, p, n, S, E, Q) /\ Q[k] = x
    BY DEF LaidTo
  <1>4. Spells(b, S, E)
    BY <1>3 DEF Laid
  <1>5. RecordFrom(b, S, E, x, r, Q[k + 1])
    <2>1. RecordFrom(b, S, E, Q[k + 1 - 1], Records(p)[k + 1], Q[k + 1])
      BY <1>1, <1>3 DEF Laid
    <2>2. k + 1 - 1 = k
      OBVIOUS
    <2> QED
      BY <1>3, <2>1, <2>2
  <1> HIDE DEF r
  <1>6. PICK X : RecordAt(b, S, E, x, r, X) /\ Q[k + 1] = X[Len(r.names)] + Behind(r.type)
    BY <1>5 DEF RecordFrom
  <1>7. q.status = "ok" /\ q.record = AsRead(r) /\ q.pos = X[Len(r.names)] + Behind(r.type)
    BY <1>2, <1>4, <1>6, RecordIsRead
  <1> HIDE DEF q
  <1>8. LaidTo(b, p, n, k + 1, q.pos)
    BY <1>3, <1>6, <1>7 DEF LaidTo
  <1> QED
    BY <1>7, <1>8 DEF q, r

ReadSoFar(p, h, q, k) ==
    q.flags = FlagsOf(p, h) /\ q.questions = LoweredQuestions(p) /\ ReadTo(p, h, q, k)

InReach == Clean(packet) /\ buffer.pos <= POINTER_RANGE

TripInv ==
    InReach =>
        /\ phase \notin {"failed", "garbage"}
        /\ phase = "write" => LaidTo(buffer, packet, next - 1, next - 1, buffer.pos)
        /\ phase = "read" =>
              /\ next - 1 <= record_count
              /\ LaidTo(buffer, packet, record_count, next - 1, pos)
              /\ ReadSoFar(packet, header, parsed, next - 1)
              /\ record_count = 0 \/ (transport = "udp" => buffer.pos < BYTE_BUFFER)

LEMMA TripInit == Init => TripInv
  BY DEF Init, TripInv

LEMMA TripMeasure ==
    ASSUME TypeInv, MeasureRecord
    PROVE  TripInv'
  <1>1. phase' \in {"measure", "header"}
    BY DEF MeasureRecord, Measured
  <1> QED
    BY <1>1 DEF TripInv

LEMMA TripHeader ==
    ASSUME TypeInv, WriteHeader
    PROVE  TripInv'
  <1> DEFINE w == WriteQuestion(Opening(packet, header), packet)
  <1>1. packet \in DnsPacket /\ header \in Headers
    BY DEF TypeInv
  <1>2. /\ buffer' = w /\ phase' = "write" /\ next' = 1 /\ packet' = packet
    BY DEF WriteHeader, Opening, HeaderCell, FlagsOf
  <1>3. ASSUME Clean(packet), w.pos <= POINTER_RANGE
        PROVE  LaidTo(w, packet, 0, 0, w.pos)
    BY <1>1, <1>3, LaidQuestion
  <1> HIDE DEF w
  <1>4. next' - 1 = 0
    BY <1>2
  <1>5. InReach' => LaidTo(buffer', packet', next' - 1, next' - 1, buffer'.pos)
    BY <1>2, <1>3, <1>4 DEF InReach
  <1> QED
    BY <1>2, <1>5 DEF TripInv

LEMMA TripWrite ==
    ASSUME TypeInv, TripInv, WriteRecord
    PROVE  TripInv'
  <1> DEFINE k == next - 1
             r == Records(packet)[k + 1]
             w == DnsRecord_write(buffer, r)
  <1>1. /\ packet \in DnsPacket /\ next \in Nat /\ next >= 1 /\ Sound(buffer)
        /\ record_count \in Nat /\ record_count <= Len(Records(packet)) /\ Len(Records(packet)) \in Nat
        /\ next <= record_count /\ phase = "write"
    BY PacketTypes DEF TypeInv, WriteRecord
  <1>2. k \in Nat /\ k + 1 = next /\ k < Len(Records(packet)) /\ k + 1 \in 1..Len(Records(packet))
    BY <1>1
  <1>3. buffer' = w /\ next' = next + 1 /\ packet' = packet /\ phase' = "write"
    BY <1>1, <1>2 DEF WriteRecord
  <1>4. r \in DnsRecord
    BY <1>1, <1>2, PacketTypes
  <1>5. w.pos >= buffer.pos /\ w.pos \in Nat /\ buffer.pos \in Nat
    <2> HIDE DEF r
    <2> QED
      BY <1>1, <1>4, SoundRecord DEF Grows, Sound, Ends
  <1>6. ASSUME Clean(packet), w.pos <= POINTER_RANGE
        PROVE  LaidTo(w, packet, k + 1, k + 1, w.pos)
    <2>1. buffer.pos <= POINTER_RANGE
      <3> HIDE DEF w
      <3>1. POINTER_RANGE \in Nat
        BY DEF POINTER_RANGE
      <3> QED
        BY <1>5, <1>6, <3>1
    <2>2. LaidTo(buffer, packet, k, k, buffer.pos)
      BY <1>1, <1>6, <2>1 DEF TripInv, InReach
    <2> HIDE DEF k
    <2> QED
      BY <1>1, <1>2, <1>6, <2>2, LaidRecord
  <1>7. next' - 1 = k + 1
    BY <1>2, <1>3
  <1> HIDE DEF w, k
  <1>8. InReach' => LaidTo(buffer', packet', next' - 1, next' - 1, buffer'.pos)
    BY <1>3, <1>6, <1>7 DEF InReach
  <1> QED
    BY <1>3, <1>8 DEF TripInv

(* Records are read out of a buffer that is shorter than its limit.        *)
LEMMA SentIsShort ==
    ASSUME TypeInv, CountInv, SizeInv, phase = "write", next = record_count + 1
    PROVE  record_count = 0 \/ (transport = "udp" => buffer.pos < BYTE_BUFFER)
  <1> DEFINE rest == Unmeasured(packet)
             x == Trace(packet)[record_count].pos
  <1>1. /\ packet \in DnsPacket /\ record_count \in Nat /\ Len(Records(packet)) \in Nat
        /\ record_count <= Len(Records(packet)) /\ next \in Nat
    BY PacketTypes DEF TypeInv
  <1>2. next - 1 = record_count /\ record_count \in 0..Len(Records(packet))
    BY <1>1
  <1>3. buffer.pos = x + HEADER
    BY <1>2 DEF SizeInv, InStep
  <1>4. record_count = 0 \/ SizeOf(packet, record_count) <= max_size(transport)
    BY DEF SizeInv, FitTo
  <1>5. SizeOf(packet, record_count) = x + (HEADER - rest)
    BY DEF SizeOf
  <1>6. x \in Nat /\ rest \in Nat
    BY <1>1, <1>2, TraceSound, SizeTypes
  <1>7. rest <= 4
    <2> DEFINE n == Len(packet.questions)
    <2>1. n \in 0..1 /\ rest = n * 4
      BY <1>1, QuestionTypes DEF Unmeasured, QUESTION_META
    <2> HIDE DEF n, rest
    <2>2. n = 0 \/ n = 1
      BY <2>1
    <2> QED
      BY <2>1, <2>2
  <1>8. transport = "udp" => max_size(transport) = 480
    BY DEF max_size
  <1> HIDE DEF x, rest
  <1> QED
    BY <1>3, <1>4, <1>5, <1>6, <1>7, <1>8 DEF HEADER, BYTE_BUFFER

LEMMA TripReadHeader ==
    ASSUME TypeInv, CountInv, SizeInv, TripInv, ReadHeader
    PROVE  TripInv'
  <1> DEFINE q == ReadQuestions(buffer, Len(packet.questions), transport)
             f == FlagsRead(buffer.cells[0].flags[1], buffer.cells[0].flags[2])
  <1>1. /\ packet \in DnsPacket /\ next \in Nat /\ next >= 1 /\ Sound(buffer)
        /\ record_count \in Nat /\ header \in Headers /\ next > record_count /\ phase = "write"
        /\ 0 \in DOMAIN buffer.cells /\ buffer.cells[0] = HeaderCell(packet, header)
    BY DEF TypeInv, ReadHeader
  <1>2. next <= record_count + 1
    BY <1>1 DEF CountInv
  <1>3. next = record_count + 1 /\ next - 1 = record_count
    BY <1>1, <1>2
  <1>4. f = FlagsOf(packet, header)
    BY <1>1, HeaderCellFacts, FlagsOfTypes, FlagsReturn
  <1>5. /\ q.status = "ok" =>
              phase' = "read" /\ next' = 1 /\ pos' = q.pos /\ parsed' = Opened(f, q.questions)
        /\ UNCHANGED <<transport, packet, record_count, header, buffer>>
    BY DEF ReadHeader, measuring
  <1>6. record_count = 0 \/ (transport = "udp" => buffer.pos < BYTE_BUFFER)
    BY <1>1, <1>3, SentIsShort
  <1> SUFFICES ASSUME InReach
               PROVE  TripInv'
    BY <1>5 DEF TripInv, InReach
  <1>7. PICK S, E, Q : Laid(buffer, packet, record_count, S, E, Q)
    BY <1>1, <1>3 DEF TripInv, LaidTo
  <1>8. q.status = "ok" /\ q.pos = Q[0] /\ q.questions = LoweredQuestions(packet)
    BY <1>1, <1>7, QuestionIsRead DEF Laid
  <1> HIDE DEF q, f
  <1>9. LaidTo(buffer, packet, record_count, 0, q.pos)
    BY <1>7, <1>8 DEF LaidTo
  <1>10. ReadSoFar(packet, header, Opened(f, q.questions), 0)
    <2>1. ReadTo(packet, header, Opened(f, q.questions), 0)
      BY <1>1, NothingRead
    <2>2. Opened(f, q.questions).flags = f /\ Opened(f, q.questions).questions = q.questions
      BY DEF Opened
    <2> QED
      BY <1>4, <1>8, <2>1, <2>2 DEF ReadSoFar
  <1>11. /\ phase' = "read" /\ next' - 1 = 0 /\ pos' = q.pos /\ parsed' = Opened(f, q.questions)
    BY <1>5, <1>8
  <1>12. LaidTo(buffer', packet', record_count', next' - 1, pos')
    BY <1>5, <1>9, <1>11
  <1>13. ReadSoFar(packet', header', parsed', next' - 1)
    BY <1>5, <1>10, <1>11
  <1>14. next' - 1 <= record_count'
    BY <1>1, <1>5, <1>11
  <1> QED
    BY <1>5, <1>6, <1>11, <1>12, <1>13, <1>14 DEF TripInv

LEMMA TripReadRecord ==
    ASSUME TypeInv, CountInv, TripInv, ReadRecord
    PROVE  TripInv'
  <1> DEFINE q == DnsRecord_read(buffer, pos, transport)
             k == next - 1
             e == [parsed EXCEPT ![SectionRead(parsed)] = Append(@, q.record)]
  <1>1. /\ packet \in DnsPacket /\ parsed \in DnsPacket /\ next \in Nat /\ next >= 1 /\ Sound(buffer)
        /\ record_count \in Nat /\ record_count <= Len(Records(packet))
        /\ header \in Headers /\ phase = "read" /\ pos \in Nat /\ next <= Count(header)
    BY DEF TypeInv, ReadRecord
  <1>2. CountedTo(packet, header, record_count) /\ Count(header) = record_count
    BY <1>1 DEF CountInv, CountedTo
  <1>3. k \in Nat /\ k + 1 = next /\ k < record_count
    BY <1>1, <1>2
  <1>4. /\ q.status = "ok" => phase' = "read" /\ next' = next + 1 /\ pos' = q.pos /\ parsed' = e
        /\ UNCHANGED <<transport, packet, record_count, header, buffer>>
    BY DEF ReadRecord, measuring
  <1> SUFFICES ASSUME InReach
               PROVE  TripInv'
    BY <1>4 DEF TripInv, InReach
  <1>5. /\ LaidTo(buffer, packet, record_count, k, pos) /\ ReadSoFar(packet, header, parsed, k)
        /\ record_count = 0 \/ (transport = "udp" => buffer.pos < BYTE_BUFFER)
    BY <1>1 DEF TripInv
  <1>6. transport = "udp" => buffer.pos < BYTE_BUFFER
    BY <1>3, <1>5
  <1>7. /\ q.status = "ok" /\ q.record = AsRead(Records(packet)[k + 1])
        /\ LaidTo(buffer, packet, record_count, k + 1, q.pos)
    <2> HIDE DEF k
    <2> QED
      BY <1>1, <1>3, <1>5, <1>6, LaidIsRead DEF InReach
  <1>8. q.record \in DnsRecord
    BY <1>1, <1>7, RecordReadTypes DEF GoodRead
  <1> HIDE DEF q, k
  <1>9. ReadTo(packet, header, e, k + 1)
    BY <1>1, <1>2, <1>3, <1>5, <1>7, <1>8, ReadOneMore DEF ReadSoFar
  <1>10. e.flags = parsed.flags /\ e.questions = parsed.questions
    <2>1. SectionRead(parsed) \in {"answers", "authorities", "resources"}
      BY SectionNames
    <2> QED
      BY <1>1, <2>1 DEF DnsPacket
  <1> HIDE DEF e
  <1>11. ReadSoFar(packet, header, e, k + 1)
    BY <1>5, <1>9, <1>10 DEF ReadSoFar
  <1>12. phase' = "read" /\ next' - 1 = k + 1 /\ pos' = q.pos /\ parsed' = e
    BY <1>1, <1>3, <1>4, <1>7
  <1>13. /\ LaidTo(buffer', packet', record_count', next' - 1, pos')
         /\ ReadSoFar(packet', header', parsed', next' - 1)
    BY <1>4, <1>7, <1>11, <1>12
  <1>14. next' - 1 <= record_count'
    BY <1>1, <1>3, <1>4, <1>12
  <1> QED
    BY <1>4, <1>6, <1>12, <1>13, <1>14 DEF TripInv

LEMMA TripPassOn ==
    ASSUME PassOn
    PROVE  TripInv'
  <1>1. phase' = "measure"
    BY DEF PassOn, Start
  <1> QED
    BY <1>1 DEF TripInv

LEMMA TripStutter ==
    ASSUME TripInv, UNCHANGED vars
    PROVE  TripInv'
  <1>1. UNCHANGED <<transport, packet, phase, next, record_count, header, buffer, pos, parsed>>
    BY DEF vars, measuring
  <1> QED
    BY <1>1 DEF TripInv, InReach

LEMMA TripNext == TypeInv /\ CountInv /\ SizeInv /\ TripInv /\ [Next]_vars => TripInv'
  BY TripMeasure, TripHeader, TripWrite, TripReadHeader, TripReadRecord, TripPassOn, TripStutter
     DEF Next

(* What one node writes another reads: within the range of a pointer no    *)
(* packet of names without empty or overlong labels is refused or misread, *)
(* whichever of its names are written as pointers; the records that fit    *)
(* arrive in their sections and in order, a text with its length before it *)
(* as from_utf8_lossy reads it, and so does every flag (DnsPacket::write,  *)
(* DnsPacket::from_buffer).                                                *)
THEOREM PacketsArrive == Spec => []WhatIsWrittenIsRead
  <1>1. TypeInv /\ CountInv /\ TripInv => WhatIsWrittenIsRead
    <2> SUFFICES ASSUME TypeInv, CountInv, TripInv, InReach
                 PROVE  /\ phase \notin {"failed", "garbage"}
                        /\ AllRead =>
                              /\ parsed.flags = FlagsOf(packet, header)
                              /\ parsed.questions = LoweredQuestions(packet)
                              /\ \A section \in {"answers", "authorities", "resources"} :
                                    parsed[section] = Taken(packet, section)
      BY DEF WhatIsWrittenIsRead, InReach, FlagsOf, LoweredQuestions
    <2>1. phase \notin {"failed", "garbage"}
      BY DEF TripInv
    <2>2. ASSUME AllRead
          PROVE  ReadSoFar(packet, header, parsed, Count(header))
      <3>1. /\ phase = "read" /\ next > Count(header) /\ next \in Nat /\ record_count \in Nat
        BY <2>2 DEF AllRead, TypeInv
      <3>2. Count(header) = record_count
        BY <3>1 DEF CountInv, CountedTo
      <3>3. next - 1 <= record_count /\ ReadSoFar(packet, header, parsed, next - 1)
        BY <3>1 DEF TripInv
      <3>4. next - 1 = Count(header)
        BY <3>1, <3>2, <3>3
      <3> QED
        BY <3>3, <3>4
    <2>3. packet \in DnsPacket /\ parsed \in DnsPacket /\ header \in Headers
      BY DEF TypeInv
    <2> QED
      BY <2>1, <2>2, <2>3, AllTaken DEF ReadSoFar
  <1> QED
    BY <1>1, SizeHolds, SizeInit, TripInit, TripNext, PTL DEF Spec
=============================================================================
