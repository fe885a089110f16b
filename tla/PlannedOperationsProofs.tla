----------------------- MODULE PlannedOperationsProofs -----------------------
(***************************************************************************)
(* Theorems about the operations on one disk, for disks of any size, every *)
(* sequence of operations with any parameters and any write cut short: the *)
(* table read from the disk is always one that PartitionMap promises.  And *)
(* about operations that are planned from what is shown and carried out    *)
(* later, on GPT disks: what they act on, and where they write.            *)
(***************************************************************************)
EXTENDS PlannedOperations, FiniteSetTheorems, SequenceTheorems, WellFoundedInduction, TLAPS

-----------------------------------------------------------------------------
(* Sequences                                                               *)

\* A set of naturals that is not empty has a least member.
LEMMA Least == ASSUME NEW S \in SUBSET Nat, S # {} PROVE \E m \in S : \A n \in S : m <= n
  <1> DEFINE R == {p \in Nat \X Nat : p[1] < p[2]}
  <1>1. OpToRel(<, Nat) = R
    BY DEF OpToRel
  <1>2. IsWellFoundedOn(R, Nat)
    BY <1>1, NatLessThanWellFounded
  <1>3. PICK x \in S : \A y \in S : ~ (<<y, x>> \in R)
    BY <1>2, WFMin
  <1>4. \A y \in S : ~(y < x)
    BY <1>3
  <1> QED BY <1>4, x \in S

\* Ordered lists the members of a set among the first n numbers in increasing
\* order, each of them once.
LEMMA OrderedIs ==
  ASSUME NEW W, NEW n \in Nat
  PROVE  /\ Ordered(W, n) \in Seq({i \in 1..n : i \in W})
         /\ \A j, k \in 1..Len(Ordered(W, n)) : j < k => Ordered(W, n)[j] < Ordered(W, n)[k]
         /\ \A i \in 1..n : i \in W => \E k \in 1..Len(Ordered(W, n)) : Ordered(W, n)[k] = i
  <1> DEFINE Extend(q, m) == IF m \in W THEN Append(q, m) ELSE q
             Up(f, p) == /\ f \in [0..p -> Seq(Nat)]
                         /\ f[0] = <<>>
                         /\ \A m \in 1..p : f[m] = Extend(f[m - 1], m)
             ListsTo(q, m) == /\ q \in Seq({i \in 1..m : i \in W})
                              /\ \A j, k \in 1..Len(q) : j < k => q[j] < q[k]
                              /\ \A i \in 1..m : i \in W => \E k \in 1..Len(q) : q[k] = i
  <1> HIDE DEF Extend, Up, ListsTo
  <1>1. \A p \in Nat : \E f : Up(f, p)
    <2> DEFINE None == {p \in Nat : ~ \E f : Up(f, p)}
    <2>1. SUFFICES ASSUME None # {} PROVE FALSE
      OBVIOUS
    <2>2. PICK p \in None : \A o \in None : p <= o
      BY <2>1, Least
    <2>3. \E f : Up(f, 0)
      <3>1. Up([m \in 0..0 |-> <<>>], 0) BY DEF Up
      <3> QED BY <3>1
    <2>4. p # 0 /\ p - 1 \in Nat
      BY <2>2, <2>3
    <2>5. PICK f : Up(f, p - 1)
      <3>1. p - 1 \notin None
        <4>1. ~(p <= p - 1) BY <2>4
        <4> QED BY <4>1, <2>2
      <3> QED BY <3>1, <2>4
    <2> DEFINE g == [m \in 0..p |-> IF m = p THEN Extend(f[p - 1], p) ELSE f[m]]
    <2>6. f[p - 1] \in Seq(Nat) BY <2>4, <2>5 DEF Up
    <2>7. Extend(f[p - 1], p) \in Seq(Nat) BY <2>4, <2>6, AppendProperties DEF Extend
    <2>8. g \in [0..p -> Seq(Nat)] BY <2>5, <2>4, <2>7 DEF Up
    <2>9. g[0] = <<>> /\ g[p] = Extend(f[p - 1], p) /\ \A m \in 0..(p-1) : g[m] = f[m] BY <2>4, <2>5 DEF Up
    <2>10. ASSUME NEW m \in 1..p PROVE g[m] = Extend(g[m - 1], m)
      <3>1. m - 1 \in 0..(p - 1) /\ g[m - 1] = f[m - 1] BY <2>9, <2>4
      <3>2. CASE m = p BY <3>1, <3>2, <2>9
      <3>3. CASE m # p
        <4>1. m \in 1..(p - 1) BY <3>3, <2>4
        <4> QED BY <4>1, <3>1, <2>9, <2>5 DEF Up
      <3> QED BY <3>2, <3>3
    <2>11. Up(g, p) BY <2>8, <2>9, <2>10 DEF Up
    <2> HIDE DEF g
    <2> QED BY <2>11, <2>2
  <1>2. PICK f : Up(f, n) BY <1>1
  <1> DEFINE G == CHOOSE upTo : upTo = [m \in 0..n |-> IF m = 0 THEN <<>> ELSE IF m \in W THEN Append(upTo[m - 1], m) ELSE upTo[m - 1]]
  <1>3. f = [m \in 0..n |-> IF m = 0 THEN <<>> ELSE IF m \in W THEN Append(f[m - 1], m) ELSE f[m - 1]]
    <2>1. ASSUME NEW m \in 0..n PROVE f[m] = IF m = 0 THEN <<>> ELSE IF m \in W THEN Append(f[m - 1], m) ELSE f[m - 1]
      <3>1. CASE m = 0 BY <3>1, <1>2 DEF Up
      <3>2. CASE m # 0
        <4>1. m \in 1..n BY <3>2
        <4> QED BY <4>1, <3>2, <1>2 DEF Up, Extend
      <3> QED BY <3>1, <3>2
    <2> QED BY <2>1, <1>2 DEF Up
  <1>4. G = [m \in 0..n |-> IF m = 0 THEN <<>> ELSE IF m \in W THEN Append(G[m - 1], m) ELSE G[m - 1]]
    BY <1>3
  <1>5. Ordered(W, n) = G[n]
    BY DEF Ordered
  <1> HIDE DEF G
  <1>6. \A m \in 0..n : ListsTo(G[m], m)
    <2> DEFINE Bad == {m \in 0..n : ~ListsTo(G[m], m)}
    <2>1. SUFFICES ASSUME Bad # {} PROVE FALSE
      OBVIOUS
    <2>2. Bad \in SUBSET Nat OBVIOUS
    <2>3. PICK m \in Bad : \A o \in Bad : m <= o
      BY <2>1, <2>2, Least
    <2>4. G[0] = <<>> BY <1>4
    <2>5. ListsTo(G[0], 0) BY <2>4 DEF ListsTo
    <2>6. m \in 1..n /\ m - 1 \in 0..n /\ m - 1 \notin Bad
      <3>1. m # 0 BY <2>3, <2>5
      <3>2. m \in 1..n /\ m - 1 \in 0..n /\ ~(m <= m - 1) BY <3>1, <2>3
      <3> QED BY <3>2, <2>3
    <2>7. ListsTo(G[m - 1], m - 1) BY <2>6
    <2>8. G[m] = Extend(G[m - 1], m)
      <3>1. m \in 0..n /\ m # 0 BY <2>6
      <3>2. G[m] = IF m = 0 THEN <<>> ELSE IF m \in W THEN Append(G[m - 1], m) ELSE G[m - 1] BY <3>1, <1>4
      <3> QED BY <3>1, <3>2 DEF Extend
    <2> DEFINE q == G[m - 1]
    <2>9. CASE m \notin W
      <3>1. G[m] = q BY <2>8, <2>9 DEF Extend
      <3>2. \A i \in 1..m : i \in W => i \in 1..(m - 1) BY <2>6, <2>9
      <3>3. {i \in 1..m : i \in W} = {i \in 1..(m - 1) : i \in W} BY <3>2, <2>6
      <3>4. ListsTo(q, m) BY <2>7, <3>2, <3>3 DEF ListsTo
      <3> QED BY <3>1, <3>4, <2>3
    <2>10. CASE m \in W
      <3> DEFINE r == Append(q, m)
      <3>0. q \in Seq({i \in 1..(m - 1) : i \in W}) /\ Len(q) \in Nat BY <2>7 DEF ListsTo
      <3>1. G[m] = r BY <2>8, <2>10 DEF Extend
      <3>2. q \in Seq({i \in 1..m : i \in W})
        <4>1. {i \in 1..(m - 1) : i \in W} \subseteq {i \in 1..m : i \in W} BY <2>6
        <4> QED BY <3>0, <4>1
      <3>3. /\ r \in Seq({i \in 1..m : i \in W}) /\ Len(r) = Len(q) + 1 /\ r[Len(q) + 1] = m
            /\ \A k \in 1..Len(q) : r[k] = q[k]
        BY <2>6, <2>10, <3>2, AppendProperties
      <3>4. \A k \in 1..Len(q) : q[k] \in 1..(m - 1) BY <3>0
      <3>5. \A j, k \in 1..Len(r) : j < k => r[j] < r[k]
        <4> SUFFICES ASSUME NEW j \in 1..Len(r), NEW k \in 1..Len(r), j < k PROVE r[j] < r[k] OBVIOUS
        <4>1. j \in 1..Len(q) /\ r[j] = q[j] /\ q[j] \in 1..(m - 1) BY <3>3, <3>4, <3>0
        <4>2. CASE k = Len(q) + 1 BY <4>1, <4>2, <3>3, <2>6
        <4>3. CASE k # Len(q) + 1
          <5>1. k \in 1..Len(q)
            <6>1. Len(q) \in Nat /\ Len(r) = Len(q) + 1 /\ k \in 1..Len(r) BY <3>0, <3>3
            <6> HIDE DEF r
            <6> QED BY <6>1, <4>3
          <5> QED BY <5>1, <4>1, <3>3, <2>7 DEF ListsTo
        <4> QED BY <4>2, <4>3
      <3>6. ASSUME NEW i \in 1..m, i \in W PROVE \E k \in 1..Len(r) : r[k] = i
        <4>1. CASE i = m
          <5>1. Len(q) + 1 \in 1..Len(r) BY <3>3, <3>0
          <5> QED BY <5>1, <4>1, <3>3
        <4>2. CASE i # m
          <5>1. i \in 1..(m - 1) BY <4>2, <2>6
          <5>2. PICK k \in 1..Len(q) : q[k] = i BY <5>1, <3>6, <2>7 DEF ListsTo
          <5>3. k \in 1..Len(r) /\ r[k] = i BY <5>2, <3>3, <3>0
          <5> QED BY <5>3
        <4> QED BY <4>1, <4>2
      <3>7. ListsTo(r, m) BY <3>3, <3>5, <3>6 DEF ListsTo
      <3> QED BY <3>1, <3>7, <2>3
    <2> QED BY <2>9, <2>10
  <1>7. ListsTo(G[n], n) BY <1>6
  <1> QED BY <1>5, <1>7 DEF ListsTo

\* r has the elements of s at the positions in W, in their order: at[k] is where
\* the k-th of them was.
IsKept(r, s, W, at) ==
  /\ at \in Seq(W)
  /\ Len(r) = Len(at)
  /\ r = [k \in 1..Len(at) |-> s[at[k]]]
  /\ \A j, k \in 1..Len(at) : j < k => at[j] < at[k]
  /\ \A i \in W : \E k \in 1..Len(at) : at[k] = i

\* That is what Kept keeps.
LEMMA KeptIs ==
  ASSUME NEW s, Len(s) \in Nat, NEW W \in SUBSET (1..Len(s))
  PROVE  \E at : IsKept(Kept(s, W), s, W, at)
  <1> DEFINE at == Ordered(W, Len(s))
  <1>1. {i \in 1..Len(s) : i \in W} = W
    OBVIOUS
  <1>2. /\ at \in Seq(W)
        /\ \A j, k \in 1..Len(at) : j < k => at[j] < at[k]
        /\ \A i \in 1..Len(s) : i \in W => \E k \in 1..Len(at) : at[k] = i
    BY <1>1, OrderedIs
  <1>3. Kept(s, W) = [k \in 1..Len(at) |-> s[at[k]]]
    BY DEF Kept
  <1> HIDE DEF at
  <1>4. Len(at) \in Nat
    BY <1>2
  <1>5. Len(Kept(s, W)) = Len(at)
    BY <1>3, <1>4
  <1>6. IsKept(Kept(s, W), s, W, at)
    BY <1>2, <1>3, <1>5 DEF IsKept
  <1> QED BY <1>6

\* There are n numbers up to n.
LEMMA UpToCount == ASSUME NEW n \in Nat PROVE IsFiniteSet(1..n) /\ Cardinality(1..n) = n
  BY FS_Interval

\* What is kept has as many elements as there are positions to keep.
LEMMA KeptCount ==
  ASSUME NEW r, NEW s, Len(s) \in Nat, NEW W \in SUBSET (1..Len(s)), NEW at, IsKept(r, s, W, at)
  PROVE  IsFiniteSet(W) /\ Cardinality(W) = Len(r)
  <1>1. at \in [1..Len(at) -> W] /\ Len(at) \in Nat /\ Len(r) = Len(at)
    BY DEF IsKept
  <1>2. IsFiniteSet(1..Len(at)) /\ Cardinality(1..Len(at)) = Len(at)
    BY <1>1, UpToCount
  <1>3. \A j, k \in 1..Len(at) : at[j] = at[k] => j = k
    <2> SUFFICES ASSUME NEW j \in 1..Len(at), NEW k \in 1..Len(at), at[j] = at[k], j < k
                 PROVE  FALSE
      BY <1>1
    <2>1. at[j] < at[j]
      BY DEF IsKept
    <2>2. at[j] \in W
      BY <1>1
    <2>3. \A i \in W : i \in Nat /\ ~(i < i)
      OBVIOUS
    <2> QED BY <2>1, <2>2, <2>3
  <1>4. at \in Bijection(1..Len(at), W)
    BY <1>1, <1>3 DEF IsKept, Bijection, Injection, Surjection, IsInjective
  <1> QED BY <1>1, <1>2, <1>4, FS_Bijection DEF ExistsBijection

-----------------------------------------------------------------------------
(* Parsing                                                                 *)

\* The first three sectors are there.
LEMMA FirstSectors == /\ DiskSectors \in Nat /\ DiskSectors > 7 /\ GptSlots \in Nat
                      /\ Lba = 0..(DiskSectors - 1) /\ Lba \subseteq Nat
                      /\ 0 \in Lba /\ 1 \in Lba /\ 2 \in Lba
  BY DiskSectorsAssumption, GptSlotsAssumption DEF Lba

\* Two extents of which one ends before the other begins.
LEMMA OneBeforeOther ==
  ASSUME NEW a \in Nat, NEW b \in Nat, NEW c \in Nat, NEW d \in Nat, b < c \/ d < a,
         NEW e, e.start = a, e.count = b - a + 1, NEW f, f.start = c, f.count = d - c + 1
  PROVE  ~Overlap(e, f)
  <1>1. a + (b - a + 1) = b + 1 /\ c + (d - c + 1) = d + 1
    OBVIOUS
  <1>2. ~(a < d + 1 /\ c < b + 1)
    OBVIOUS
  <1> QED BY <1>1, <1>2 DEF Overlap

\* What lies in one of two extents that have nothing in common is outside the other.
LEMMA OutsideOf ==
  ASSUME NEW p \in Nat, NEW n \in Nat, NEW a \in Nat, NEW c \in Nat, NEW s \in Nat,
         ~(p <= a + c - 1 /\ a <= p + n - 1), a <= s, s <= a + c - 1
  PROVE  s < p \/ s >= p + n
  OBVIOUS

\* The slot of an index.
LEMMA SlotOfIndex ==
  ASSUME NEW n \in Nat, NEW i \in 0..(n - 1)
  PROVE  i \in Nat /\ i + 1 \in 1..n /\ (i + 1) - 1 = i
  OBVIOUS

LogicalSet == [index : Nat, type : {"basic"}, active : BOOLEAN, logical : {TRUE},
               guid : Nat, start : Nat \ {0}, count : Nat]

\* Whatever a chain of EBRs says, what it gives are logical partitions, none of
\* them at sector 0.
LEMMA LogicalsAre ==
  ASSUME NEW d, \A s \in Lba : SectorOK(d[s]),
         NEW ext, ext.start \in Lba, ext.start > 0, ext.count \in Nat, NEW size \in Nat
  PROVE  Logicals(d, ext, size) \in Seq(LogicalSet)
  <1> DEFINE inside(lba) == lba \in Lba /\ lba >= ext.start /\ lba < ext.start + ext.count
             here(lba) == IF d[lba].count = 0 THEN <<>>
                          ELSE <<Entry(0, "basic", d[lba].active, TRUE, 0, lba + d[lba].off, d[lba].count)>>
             rest(c, lba) == IF d[lba].next = 0 \/ ext.start + d[lba].next \notin Lba THEN <<>>
                             ELSE c[ext.start + d[lba].next]
             Node(c, lba) == IF ~inside(lba) \/ d[lba].k # "ebr" THEN <<>> ELSE here(lba) \o rest(c, lba)
             Row(c) == [lba \in Lba |-> Node(c, lba)]
             None == [lba \in Lba |-> <<>>]
             Rows == [Lba -> Seq(LogicalSet)]
             Up(f, p) == f \in [0..p -> Rows] /\ f[0] = None /\ \A m \in 1..p : f[m] = Row(f[m - 1])
  <1>1. ASSUME NEW c \in Rows PROVE Row(c) \in Rows
    <2> SUFFICES ASSUME NEW lba \in Lba PROVE Node(c, lba) \in Seq(LogicalSet)
      OBVIOUS
    <2>1. CASE ~inside(lba) \/ d[lba].k # "ebr"
      <3> HIDE DEF inside, here, rest
      <3> QED BY <2>1
    <2>2. CASE inside(lba) /\ d[lba].k = "ebr"
      <3>1. /\ d[lba].active \in BOOLEAN /\ d[lba].off \in Nat /\ d[lba].count \in Nat
        BY <2>2 DEF SectorOK
      <3>2. lba + d[lba].off \in Nat \ {0}
        <4>1. lba \in Nat /\ ext.start \in Nat /\ lba >= ext.start
          BY <2>2, FirstSectors
        <4>2. lba > 0
          BY <4>1
        <4>3. \A x \in Nat : lba + x \in Nat \ {0}
          BY <4>1, <4>2
        <4> QED BY <3>1, <4>3
      <3>3. Entry(0, "basic", d[lba].active, TRUE, 0, lba + d[lba].off, d[lba].count) \in LogicalSet
        <4>1. ASSUME NEW a \in BOOLEAN, NEW s \in Nat \ {0}, NEW n \in Nat
              PROVE  Entry(0, "basic", a, TRUE, 0, s, n) \in LogicalSet
          BY DEF Entry, LogicalSet
        <4> QED BY <3>1, <3>2, <4>1
      <3> DEFINE one == Entry(0, "basic", d[lba].active, TRUE, 0, lba + d[lba].off, d[lba].count)
      <3>7. here(lba) = IF d[lba].count = 0 THEN <<>> ELSE <<one>>
        OBVIOUS
      <3> HIDE DEF one, here
      <3>4. here(lba) \in Seq(LogicalSet)
        <4>1. one \in LogicalSet
          BY <3>3 DEF one
        <4>2. <<one>> \in Seq(LogicalSet) /\ <<>> \in Seq(LogicalSet)
          BY <4>1
        <4> QED BY <3>7, <4>2
      <3>5. rest(c, lba) \in Seq(LogicalSet)
        BY <1>1
      <3> HIDE DEF rest
      <3>6. here(lba) \o rest(c, lba) \in Seq(LogicalSet)
        BY <3>4, <3>5, ConcatProperties
      <3> QED BY <2>2, <3>6
    <2> QED BY <2>1, <2>2
  <1>2. None \in Rows
    OBVIOUS
  <1> HIDE DEF Row, None, Rows
  <1>3. \A p \in Nat : \E f : Up(f, p)
    <2> DEFINE Missing == {p \in Nat : ~ \E f : Up(f, p)}
    <2> HIDE DEF Up
    <2>1. SUFFICES ASSUME Missing # {} PROVE FALSE
      OBVIOUS
    <2>2. PICK p \in Missing : \A o \in Missing : p <= o
      BY <2>1, Least
    <2>3. \E f : Up(f, 0)
      <3>1. Up([m \in 0..0 |-> None], 0) BY <1>2 DEF Up
      <3> QED BY <3>1
    <2>4. p # 0 /\ p - 1 \in Nat
      BY <2>2, <2>3
    <2>5. PICK f : Up(f, p - 1)
      <3>1. p - 1 \notin Missing
        <4>1. ~(p <= p - 1) BY <2>4
        <4> QED BY <4>1, <2>2
      <3> QED BY <3>1, <2>4
    <2> DEFINE g == [m \in 0..p |-> IF m = p THEN Row(f[p - 1]) ELSE f[m]]
    <2>6. f[p - 1] \in Rows BY <2>4, <2>5 DEF Up
    <2>7. Row(f[p - 1]) \in Rows BY <1>1, <2>6
    <2>8. g \in [0..p -> Rows] BY <2>5, <2>4, <2>7 DEF Up
    <2>9. g[0] = None /\ g[p] = Row(f[p - 1]) /\ \A m \in 0..(p-1) : g[m] = f[m] BY <2>4, <2>5 DEF Up
    <2>10. ASSUME NEW m \in 1..p PROVE g[m] = Row(g[m - 1])
      <3>1. m - 1 \in 0..(p - 1) /\ g[m - 1] = f[m - 1] BY <2>9, <2>4
      <3>2. CASE m = p BY <3>1, <3>2, <2>9
      <3>3. CASE m # p
        <4>1. m \in 1..(p - 1) BY <3>3, <2>4
        <4> QED BY <4>1, <3>1, <2>9, <2>5 DEF Up
      <3> QED BY <3>2, <3>3
    <2>11. Up(g, p) BY <2>8, <2>9, <2>10 DEF Up
    <2> HIDE DEF g
    <2> QED BY <2>11, <2>2
  <1>4. PICK f : Up(f, DiskSectors) BY <1>3, FirstSectors
  <1> DEFINE G == CHOOSE chain : chain = [n \in 0..DiskSectors |-> [lba \in Lba |->
                    IF n = 0 \/ ~inside(lba) \/ d[lba].k # "ebr" THEN <<>>
                    ELSE here(lba) \o rest(chain[n - 1], lba)]]
  <1>5. f = [n \in 0..DiskSectors |-> [lba \in Lba |->
                    IF n = 0 \/ ~inside(lba) \/ d[lba].k # "ebr" THEN <<>>
                    ELSE here(lba) \o rest(f[n - 1], lba)]]
    <2> HIDE DEF inside, here, rest
    <2>1. ASSUME NEW n \in 0..DiskSectors
          PROVE  f[n] = [lba \in Lba |-> IF n = 0 \/ ~inside(lba) \/ d[lba].k # "ebr" THEN <<>>
                                        ELSE here(lba) \o rest(f[n - 1], lba)]
      <3>1. CASE n = 0
        BY <1>4, <3>1 DEF None
      <3>2. CASE n # 0
        <4>1. n \in 1..DiskSectors
          BY <3>2, FirstSectors
        <4>2. f[n] = Row(f[n - 1])
          BY <1>4, <4>1
        <4> QED BY <3>2, <4>2 DEF Row
      <3> QED BY <3>1, <3>2
    <2> QED BY <1>4, <2>1
  <1>6. G = [n \in 0..DiskSectors |-> [lba \in Lba |->
                    IF n = 0 \/ ~inside(lba) \/ d[lba].k # "ebr" THEN <<>>
                    ELSE here(lba) \o rest(G[n - 1], lba)]]
    <2> HIDE DEF inside, here, rest
    <2> QED BY <1>5
  <1>7. Logicals(d, ext, size) = [i \in 1..Len(G[DiskSectors][ext.start]) |->
                                   [G[DiskSectors][ext.start][i] EXCEPT !.index = size + i - 1]]
    BY DEF Logicals
  <1> HIDE DEF G
  <1>8. \A n \in 0..DiskSectors : G[n] \in Rows
    <2> DEFINE Bad == {n \in 0..DiskSectors : G[n] \notin Rows}
    <2>1. SUFFICES ASSUME Bad # {} PROVE FALSE
      OBVIOUS
    <2>2. Bad \in SUBSET Nat OBVIOUS
    <2>3. PICK n \in Bad : \A o \in Bad : n <= o
      BY <2>1, <2>2, Least
    <2>4. n # 0
      <3> HIDE DEF inside, here, rest
      <3>1. G[0] = None
        BY <1>6, FirstSectors DEF None
      <3> QED BY <1>2, <2>3, <3>1
    <2>5. n - 1 \in 0..DiskSectors /\ n - 1 \notin Bad
      <3>1. n - 1 \in 0..DiskSectors /\ ~(n <= n - 1) BY <2>4, <2>3, FirstSectors
      <3> QED BY <3>1, <2>3
    <2>6. G[n] = Row(G[n - 1])
      <3> HIDE DEF inside, here, rest
      <3> QED BY <1>6, <2>3, <2>4 DEF Row
    <2>7. G[n] \in Rows
      BY <1>1, <2>5, <2>6
    <2> QED BY <2>3, <2>7
  <1>9. G[DiskSectors][ext.start] \in Seq(LogicalSet)
    BY <1>8, FirstSectors DEF Rows
  <1> DEFINE q == G[DiskSectors][ext.start]
  <1> HIDE DEF q
  <1>10. q \in Seq(LogicalSet) /\ Logicals(d, ext, size) = [i \in 1..Len(q) |-> [q[i] EXCEPT !.index = size + i - 1]]
    BY <1>7, <1>9 DEF q
  <1>11. ASSUME NEW i \in 1..Len(q) PROVE [q[i] EXCEPT !.index = size + i - 1] \in LogicalSet
    <2>1. q[i] \in LogicalSet /\ size + i - 1 \in Nat
      BY <1>10
    <2> QED BY <2>1 DEF LogicalSet, EntrySet
  <1>12. Len(q) \in Nat BY <1>10
  <1> QED BY <1>10, <1>11, <1>12

\* A logical partition is an entry.
LEMMA LogicalIsEntry == ASSUME NEW e \in LogicalSet PROVE e \in EntrySet /\ e.logical = TRUE /\ e.type = "basic"
  BY DEF LogicalSet, EntrySet, PartitionTypes

\* The first extended partition of a table is one of its primary entries.
LEMMA ExtendedIs ==
  ASSUME NEW S, NEW t, t.entries \in Seq(S), Extendeds(t) # <<>>
  PROVE  \E i \in PrimaryAt(t) : Head(Extendeds(t)) = t.entries[i] /\ t.entries[i].type = "extended"
  <1> DEFINE W == {i \in 1..Len(t.entries) : t.entries[i].type = "extended" /\ ~t.entries[i].logical}
  <1>1. Extendeds(t) = Kept(t.entries, W)
    BY DEF Extendeds
  <1>2. Len(t.entries) \in Nat /\ W \in SUBSET (1..Len(t.entries))
    OBVIOUS
  <1>3. \A i \in W : i \in PrimaryAt(t) /\ t.entries[i].type = "extended"
    BY DEF PrimaryAt
  <1> HIDE DEF W
  <1>4. PICK at : IsKept(Extendeds(t), t.entries, W, at)
    BY <1>1, <1>2, KeptIs
  <1> DEFINE x == Extendeds(t)
  <1> HIDE DEF x
  <1>5. at \in Seq(W) /\ x = [k \in 1..Len(at) |-> t.entries[at[k]]] /\ x # <<>>
    BY <1>4 DEF IsKept, x
  <1>6. Len(at) # 0 /\ Len(at) \in Nat
    BY <1>5
  <1>7. 1 \in 1..Len(at) /\ at[1] \in W
    BY <1>5, <1>6
  <1>8. Head(x) = t.entries[at[1]]
    BY <1>5, <1>6, <1>7
  <1> QED BY <1>3, <1>7, <1>8 DEF x

\* A table of an MBR: its primary partitions are on the disk and apart.
MbrTable(t) ==
  /\ t = Table("MBR", t.entries, 0, DiskSectors - 1)
  /\ t.entries \in Seq(EntrySet)
  /\ \A i \in PrimaryAt(t) :
       /\ t.entries[i].count > 0
       /\ t.entries[i].start + t.entries[i].count <= DiskSectors
       /\ \A j \in PrimaryAt(t) \ {i} : ~Overlap(t.entries[i], t.entries[j])
  /\ IsFiniteSet(PrimaryAt(t)) /\ PrimaryCount(t) <= MBR_MAX_PRIMARY_PARTITIONS

\* Its protective entries, if any, have no GPT header to protect.
Unprotecting(t, d) == \A i \in 1..Len(t.entries) : t.entries[i].type = "protective" => d[1].k # "gpt"

\* Indices name primary partitions.
IndicesApart(t) ==
  \A i, j \in PrimaryAt(t) : t.entries[i].index = t.entries[j].index => i = j

SlotExtents(d) == {ExtentOf(d[0].slots[i]) : i \in UsedSlots(d)}

\* A slot and what is read from it.
IsPrimary(e, s, i, d) ==
  /\ e \in EntrySet /\ e.logical = FALSE /\ e.index = i - 1 /\ e.type = s.type
  /\ e.start = s.start /\ e.count = s.count /\ ExtentOf(e) = ExtentOf(s)
  /\ e.count > 0 /\ e.start + e.count <= DiskSectors /\ i \in 1..4
  /\ e.start \in Lba
  /\ e.type = "protective" => d[1].k # "gpt"

\* The entry of a used slot.
LEMMA PrimaryIs ==
  ASSUME NEW d, MbrOK(d), NEW i \in UsedSlots(d)
  PROVE  IsPrimary(Primary(d[0].slots, i), d[0].slots[i], i, d)
  <1> DEFINE s == d[0].slots[i]
  <1>1. /\ s.type \in PartitionTypes /\ s.active \in BOOLEAN /\ s.start \in Nat /\ s.count \in Nat
        /\ i \in 1..4
    BY DEF MbrOK, SlotsOK, UsedSlots, MBR_MAX_PRIMARY_PARTITIONS
  <1>2. /\ s.start > 0 /\ s.count > 0 /\ s.start + s.count <= DiskSectors
        /\ s.type = "protective" => d[1].k # "gpt"
    BY DEF MbrOK
  <1>3. Primary(d[0].slots, i) = Entry(i - 1, s.type, s.active, FALSE, 0, s.start, s.count)
    BY DEF Primary
  <1> HIDE DEF s
  <1>4. s.start \in Lba
    BY <1>1, <1>2, FirstSectors
  <1>5. Entry(i - 1, s.type, s.active, FALSE, 0, s.start, s.count) \in EntrySet
    BY <1>1, <1>2 DEF Entry, EntrySet
  <1> QED BY <1>1, <1>2, <1>3, <1>4, <1>5 DEF Entry, ExtentOf, IsPrimary, s

\* The primary entries of a table are those of the used slots, in their order.
LEMMA PrimariesAre ==
  ASSUME NEW d
  PROVE  \E at : /\ at \in Seq(UsedSlots(d))
                 /\ Len(Primaries(d[0].slots)) = Len(at) /\ Len(at) <= MBR_MAX_PRIMARY_PARTITIONS
                 /\ Primaries(d[0].slots) = [n \in 1..Len(at) |-> Primary(d[0].slots, at[n])]
                 /\ \A j, k \in 1..Len(at) : j # k => at[j] # at[k]
                 /\ \A i \in UsedSlots(d) : \E n \in 1..Len(at) : at[n] = i
  <1> DEFINE s == [i \in 1..4 |-> Primary(d[0].slots, i)]
             W == UsedSlots(d)
             r == Primaries(d[0].slots)
  <1>1. r = Kept(s, W)
    BY DEF Primaries, UsedSlots, MBR_MAX_PRIMARY_PARTITIONS
  <1>2. Len(s) = 4 /\ W \in SUBSET (1..Len(s)) /\ \A i \in W : i \in 1..4
    <2>1. Len(s) = 4
      OBVIOUS
    <2>2. \A i \in W : i \in 1..4
      BY DEF UsedSlots, MBR_MAX_PRIMARY_PARTITIONS
    <2> HIDE DEF s, W
    <2> QED BY <2>1, <2>2
  <1> HIDE DEF s, W, r
  <1>a. Len(s) \in Nat
    BY <1>2
  <1>3. PICK at : IsKept(r, s, W, at)
    BY <1>1, <1>2, <1>a, KeptIs
  <1>4. at \in Seq(W) /\ Len(r) = Len(at) /\ r = [n \in 1..Len(at) |-> s[at[n]]] /\ Len(at) \in Nat
    BY <1>3 DEF IsKept
  <1>5. r = [n \in 1..Len(at) |-> Primary(d[0].slots, at[n])]
    <2>1. \A n \in 1..Len(at) : at[n] \in W
      BY <1>4
    <2>2. \A n \in 1..Len(at) : at[n] \in 1..4
      BY <1>2, <2>1
    <2> QED BY <1>4, <2>2 DEF s
  <1>6. Len(at) <= 4
    <2>1. IsFiniteSet(W) /\ Cardinality(W) = Len(at)
      BY <1>2, <1>a, <1>3, <1>4, KeptCount
    <2>2. IsFiniteSet(1..4) /\ Cardinality(1..4) = 4
      BY UpToCount
    <2>3. W \in SUBSET (1..4)
      BY <1>2
    <2> QED BY <2>1, <2>2, <2>3, FS_Subset
  <1>7. \A j, k \in 1..Len(at) : j # k => at[j] # at[k]
    <2> SUFFICES ASSUME NEW j \in 1..Len(at), NEW k \in 1..Len(at), j < k PROVE at[j] # at[k]
      BY <1>4
    <2>1. at[j] < at[k]
      BY <1>3 DEF IsKept
    <2>2. at[k] \in W
      BY <1>4
    <2>3. at[k] \in 1..4
      BY <1>2, <2>2
    <2> QED BY <2>1, <2>3
  <1>8. \A i \in W : \E n \in 1..Len(at) : at[n] = i
    BY <1>3 DEF IsKept
  <1> QED BY <1>4, <1>5, <1>6, <1>7, <1>8 DEF W, r, MBR_MAX_PRIMARY_PARTITIONS

\* The logical entries come after the primary ones, and are what LogicalsAre says.
LEMMA MbrEntriesAre ==
  ASSUME NEW d, \A s \in Lba : SectorOK(d[s]), MbrOK(d)
  PROVE  \E logs \in Seq(LogicalSet) :
           ParseMbr(d) = Table("MBR", Primaries(d[0].slots) \o logs, 0, DiskSectors - 1)
  <1> DEFINE prim == Primaries(d[0].slots)
             t == Table("MBR", prim, 0, DiskSectors - 1)
             exts == Extendeds(t)
             logs == IF exts = <<>> THEN <<>> ELSE Logicals(d, Head(exts), Len(prim))
  <1>1. ParseMbr(d) = Table("MBR", prim \o logs, 0, DiskSectors - 1)
    BY DEF ParseMbr
  <1>2. PICK at : /\ at \in Seq(UsedSlots(d))
                  /\ Len(prim) = Len(at) /\ Len(at) <= MBR_MAX_PRIMARY_PARTITIONS
                  /\ prim = [n \in 1..Len(at) |-> Primary(d[0].slots, at[n])]
    <2>1. PICK at : /\ at \in Seq(UsedSlots(d))
                    /\ Len(prim) = Len(at) /\ Len(at) <= MBR_MAX_PRIMARY_PARTITIONS
                    /\ prim = [n \in 1..Len(at) |-> Primary(d[0].slots, at[n])]
                    /\ \A j, k \in 1..Len(at) : j # k => at[j] # at[k]
                    /\ \A i \in UsedSlots(d) : \E n \in 1..Len(at) : at[n] = i
      BY PrimariesAre
    <2> QED BY <2>1
  <1>3. t.entries = prim
    BY DEF Table
  <1> HIDE DEF prim, t, exts
  <1>4. \A n \in 1..Len(at) : /\ prim[n] \in EntrySet /\ prim[n].start \in Lba
                              /\ prim[n].start > 0 /\ prim[n].count \in Nat
    <2> SUFFICES ASSUME NEW n \in 1..Len(at)
                 PROVE  /\ prim[n] \in EntrySet /\ prim[n].start \in Lba
                        /\ prim[n].start > 0 /\ prim[n].count \in Nat
      OBVIOUS
    <2>1. at[n] \in UsedSlots(d) /\ prim[n] = Primary(d[0].slots, at[n])
      BY <1>2
    <2>2. prim[n] \in EntrySet /\ prim[n].start \in Lba
      BY <2>1, PrimaryIs DEF IsPrimary
    <2> QED BY <2>2 DEF EntrySet
  <1>5. Len(at) \in Nat /\ prim \in Seq(EntrySet)
    BY <1>2, <1>4
  <1>6. logs \in Seq(LogicalSet)
    <2>1. CASE exts = <<>>
      BY <2>1
    <2>2. CASE exts # <<>>
      <3>1. PICK i \in PrimaryAt(t) : Head(exts) = prim[i]
        BY <1>3, <1>5, <2>2, ExtendedIs DEF exts
      <3>2. i \in 1..Len(at)
        BY <1>2, <1>3, <3>1 DEF PrimaryAt
      <3>3. Head(exts).start \in Lba /\ Head(exts).start > 0 /\ Head(exts).count \in Nat
        BY <1>4, <3>1, <3>2
      <3>4. Len(prim) \in Nat
        BY <1>5
      <3>5. Logicals(d, Head(exts), Len(prim)) \in Seq(LogicalSet)
        BY <3>3, <3>4, LogicalsAre
      <3> QED BY <2>2, <3>5
    <2> QED BY <2>1, <2>2
  <1> QED BY <1>1, <1>6 DEF prim

\* What is read from a good MBR is a table, with the primary partitions of its
\* slots; it counts as an MBR, since nothing makes its protective entries stand
\* for a GPT.
LEMMA ParseMbrIs ==
  ASSUME NEW d, \A s \in Lba : SectorOK(d[s]), MbrOK(d)
  PROVE  /\ parse(d) = ParseMbr(d)
         /\ MbrTable(ParseMbr(d))
         /\ PrimaryExtents(ParseMbr(d)) = SlotExtents(d)
         /\ IndicesApart(ParseMbr(d))
         /\ Unprotecting(ParseMbr(d), d)
  <1> DEFINE prim == Primaries(d[0].slots)
             t == ParseMbr(d)
  <1>1. PICK logs \in Seq(LogicalSet) : t = Table("MBR", prim \o logs, 0, DiskSectors - 1)
    BY MbrEntriesAre
  <1>2. PICK at : /\ at \in Seq(UsedSlots(d))
                  /\ Len(prim) = Len(at) /\ Len(at) <= MBR_MAX_PRIMARY_PARTITIONS
                  /\ prim = [n \in 1..Len(at) |-> Primary(d[0].slots, at[n])]
                  /\ \A j, k \in 1..Len(at) : j # k => at[j] # at[k]
                  /\ \A i \in UsedSlots(d) : \E n \in 1..Len(at) : at[n] = i
    BY PrimariesAre
  <1> HIDE DEF prim, t
  <1> DEFINE slot(n) == d[0].slots[at[n]]
  <1>3. ASSUME NEW n \in 1..Len(at)
        PROVE  /\ prim[n] \in EntrySet /\ prim[n].logical = FALSE /\ prim[n].index = at[n] - 1
               /\ prim[n].type = slot(n).type
               /\ prim[n].start = slot(n).start /\ prim[n].count = slot(n).count
               /\ ExtentOf(prim[n]) = ExtentOf(slot(n))
               /\ prim[n].count > 0 /\ prim[n].start + prim[n].count <= DiskSectors
               /\ at[n] \in 1..4 /\ at[n] \in UsedSlots(d)
               /\ prim[n].type = "protective" => d[1].k # "gpt"
    <2>1. at[n] \in UsedSlots(d) /\ prim[n] = Primary(d[0].slots, at[n])
      BY <1>2
    <2> DEFINE i == at[n]
    <2> HIDE DEF i
    <2>2. i \in UsedSlots(d) /\ prim[n] = Primary(d[0].slots, i) /\ slot(n) = d[0].slots[i] /\ at[n] = i
      BY <2>1 DEF i
    <2>3. IsPrimary(Primary(d[0].slots, i), d[0].slots[i], i, d)
      BY <2>2, PrimaryIs
    <2>4. IsPrimary(prim[n], slot(n), i, d)
      BY <2>2, <2>3
    <2> HIDE DEF slot
    <2> QED BY <2>2, <2>4 DEF IsPrimary
  <1> HIDE DEF slot
  <1>4. prim \in Seq(EntrySet) /\ Len(at) \in Nat /\ logs \in Seq(EntrySet)
    <2>1. Len(at) \in Nat
      BY <1>2
    <2>2. prim \in Seq(EntrySet)
      <3>1. \A n \in 1..Len(at) : Primary(d[0].slots, at[n]) \in EntrySet
        BY <1>2, <1>3
      <3> QED BY <1>2, <2>1, <3>1
    <2>3. \A i \in 1..Len(logs) : logs[i] \in EntrySet
      <3> SUFFICES ASSUME NEW i \in 1..Len(logs) PROVE logs[i] \in EntrySet
        OBVIOUS
      <3>1. logs[i] \in LogicalSet
        BY <1>1
      <3> QED BY <3>1, LogicalIsEntry
    <2>4. Len(logs) \in Nat /\ logs = [i \in 1..Len(logs) |-> logs[i]]
      BY <1>1
    <2> QED BY <2>1, <2>2, <2>3, <2>4
  <1>5. /\ t.entries = prim \o logs /\ t.entries \in Seq(EntrySet)
        /\ Len(t.entries) = Len(at) + Len(logs) /\ Len(logs) \in Nat
        /\ \A i \in 1..Len(at) : t.entries[i] = prim[i]
        /\ \A i \in 1..Len(t.entries) : i > Len(at) => t.entries[i] = logs[i - Len(at)]
    <2>1. t.entries = prim \o logs
      BY <1>1 DEF Table
    <2> QED BY <1>2, <1>4, <2>1, ConcatProperties
  <1>6. PrimaryAt(t) = 1..Len(at)
    <2>1. ASSUME NEW i \in 1..Len(at) PROVE i \in PrimaryAt(t)
      <3>1. i \in 1..Len(t.entries)
        BY <1>4, <1>5
      <3>2. ~t.entries[i].logical
        BY <1>3, <1>5
      <3> QED BY <3>1, <3>2 DEF PrimaryAt
    <2>2. ASSUME NEW i \in PrimaryAt(t) PROVE i \in 1..Len(at)
      <3>1. i \in 1..Len(t.entries) /\ ~t.entries[i].logical
        BY DEF PrimaryAt
      <3>2. CASE i > Len(at)
        <4>1. i - Len(at) \in 1..Len(logs) /\ t.entries[i] = logs[i - Len(at)]
          BY <1>4, <1>5, <3>1, <3>2
        <4>2. logs[i - Len(at)] \in LogicalSet
          BY <1>1, <4>1
        <4> QED BY <3>1, <4>1, <4>2, LogicalIsEntry
      <3>3. CASE ~(i > Len(at))
        BY <1>4, <1>5, <3>1, <3>3
      <3> QED BY <3>2, <3>3
    <2> QED BY <2>1, <2>2
  <1>7. \A i \in PrimaryAt(t) : t.entries[i] = prim[i] /\ i \in 1..Len(at)
    BY <1>5, <1>6
  <1>8. MbrTable(t)
    <2>1. t = Table("MBR", t.entries, 0, DiskSectors - 1)
      BY <1>1, <1>5
    <2>2. ASSUME NEW i \in PrimaryAt(t), NEW j \in PrimaryAt(t) \ {i}
          PROVE  ~Overlap(t.entries[i], t.entries[j])
      <3>1. at[i] # at[j] /\ at[i] \in UsedSlots(d) /\ at[j] \in UsedSlots(d)
        BY <1>2, <1>3, <1>7
      <3>2. ~Overlap(slot(i), slot(j))
        BY <3>1 DEF MbrOK, slot
      <3> QED BY <1>3, <1>7, <3>2 DEF Overlap
    <2>3. IsFiniteSet(PrimaryAt(t)) /\ PrimaryCount(t) <= MBR_MAX_PRIMARY_PARTITIONS
      BY <1>2, <1>4, <1>6, UpToCount DEF PrimaryCount
    <2> QED BY <1>3, <1>5, <1>7, <2>1, <2>2, <2>3 DEF MbrTable
  <1>9. PrimaryExtents(t) = SlotExtents(d)
    <2>1. ASSUME NEW i \in PrimaryAt(t) PROVE ExtentOf(t.entries[i]) \in SlotExtents(d)
      <3>1. ExtentOf(t.entries[i]) = ExtentOf(d[0].slots[at[i]]) /\ at[i] \in UsedSlots(d)
        BY <1>3, <1>7 DEF slot
      <3> QED BY <3>1 DEF SlotExtents
    <2>2. ASSUME NEW i \in UsedSlots(d) PROVE ExtentOf(d[0].slots[i]) \in PrimaryExtents(t)
      <3>1. PICK n \in 1..Len(at) : at[n] = i
        BY <1>2
      <3>2. ExtentOf(t.entries[n]) = ExtentOf(d[0].slots[i]) /\ n \in PrimaryAt(t)
        BY <1>3, <1>6, <1>7, <3>1 DEF slot
      <3> QED BY <3>2 DEF PrimaryExtents
    <2> QED BY <2>1, <2>2 DEF PrimaryExtents, SlotExtents
  <1>10. IndicesApart(t)
    <2> SUFFICES ASSUME NEW i \in PrimaryAt(t), NEW j \in PrimaryAt(t),
                        t.entries[i].index = t.entries[j].index, i # j
                 PROVE  FALSE
      BY DEF IndicesApart
    <2>1. i \in 1..Len(at) /\ j \in 1..Len(at) /\ prim[i].index = prim[j].index
      BY <1>7
    <2>2. /\ prim[i].index = at[i] - 1 /\ at[i] \in 1..4
          /\ prim[j].index = at[j] - 1 /\ at[j] \in 1..4
      BY <1>3, <2>1
    <2>3. \A x, y \in 1..4 : x - 1 = y - 1 => x = y
      OBVIOUS
    <2>4. at[i] = at[j]
      BY <2>1, <2>2, <2>3
    <2> QED BY <1>2, <2>1, <2>4
  <1>11. Unprotecting(t, d)
    <2> SUFFICES ASSUME NEW i \in 1..Len(t.entries), t.entries[i].type = "protective" PROVE d[1].k # "gpt"
      BY DEF Unprotecting
    <2>1. CASE i > Len(at)
      <3>1. i - Len(at) \in 1..Len(logs) /\ t.entries[i] = logs[i - Len(at)]
        BY <1>4, <1>5, <2>1
      <3>2. logs[i - Len(at)] \in LogicalSet
        BY <1>1, <3>1
      <3> QED BY <3>1, <3>2, LogicalIsEntry
    <2>2. CASE ~(i > Len(at))
      <3>1. i \in 1..Len(at)
        BY <1>4, <1>5, <2>2
      <3> QED BY <1>3, <1>6, <1>7, <3>1
    <2> QED BY <2>1, <2>2
  <1>12. parse(d) = t
    <2>1. ~(hasGptProtective(t) /\ d[1].k = "gpt")
      <3> SUFFICES ASSUME hasGptProtective(t), d[1].k = "gpt" PROVE FALSE
        OBVIOUS
      <3>1. PICK i \in 1..Len(t.entries) : t.entries[i].type = "protective"
        BY DEF hasGptProtective
      <3>2. CASE i > Len(at)
        <4>1. i - Len(at) \in 1..Len(logs) /\ t.entries[i] = logs[i - Len(at)]
          BY <1>4, <1>5, <3>1, <3>2
        <4>2. logs[i - Len(at)] \in LogicalSet
          BY <1>1, <4>1
        <4> QED BY <3>1, <4>1, <4>2, LogicalIsEntry
      <3>3. CASE ~(i > Len(at))
        <4>1. i \in 1..Len(at)
          BY <1>4, <1>5, <3>1, <3>3
        <4> QED BY <1>3, <1>7, <1>6, <3>1, <4>1
      <3> QED BY <3>2, <3>3
    <2>2. d[0].k = "mbr"
      BY DEF MbrOK, SlotsOK
    <2> QED BY <2>1, <2>2 DEF parse, t
  <1> QED BY <1>8, <1>9, <1>10, <1>11, <1>12 DEF t

-----------------------------------------------------------------------------
(* Writing a table of an MBR                                               *)

\* The slot of an entry.
SlotOf(e) == Slot(e.type, e.active, e.start, e.count)

\* The first sector of a serialized MBR has a slot for each primary partition, and
\* no other.
LEMMA SlotsWritten ==
  ASSUME NEW t, MbrTable(t)
  PROVE  \E at : /\ at \in Seq(PrimaryAt(t)) /\ Len(at) <= 4
                 /\ \A j, k \in 1..Len(at) : j # k => at[j] # at[k]
                 /\ \A i \in PrimaryAt(t) : \E n \in 1..Len(at) : at[n] = i
                 /\ SerializeMbr(t)[1] =
                      MbrSector([i \in 1..4 |-> IF i > Len(at) THEN EmptySlot ELSE SlotOf(t.entries[at[i]])])
  <1> DEFINE W == PrimaryAt(t)
             es == t.entries
             prim == Kept(es, W)
             logs == Kept(es, 1..Len(es) \ W)
             slot(i) == IF i > Len(prim) THEN EmptySlot
                        ELSE Slot(prim[i].type, prim[i].active, prim[i].start, prim[i].count)
             ebr(i) == EbrSector(logs[i].active, 1, logs[i].count,
                                 IF i = Len(logs) THEN 0
                                 ELSE logs[i + 1].start - 1 - Head(Extendeds(t)).start)
             ebrs == IF Extendeds(t) = <<>> THEN <<>> ELSE [i \in 1..Len(logs) |-> ebr(i)]
             first == MbrSector([i \in 1..4 |-> slot(i)])
  <1>1. SerializeMbr(t) = <<first>> \o ebrs
    BY DEF SerializeMbr, MBR_MAX_PRIMARY_PARTITIONS
  <1>2. es \in Seq(EntrySet) /\ Len(es) \in Nat /\ W \in SUBSET (1..Len(es))
    BY DEF MbrTable, PrimaryAt
  <1>3. Len(logs) \in Nat
    <2>1. \E at : IsKept(logs, es, 1..Len(es) \ W, at)
      BY <1>2, KeptIs
    <2> HIDE DEF logs
    <2> QED BY <2>1 DEF IsKept
  <1> HIDE DEF es, W
  <1>4. PICK at : IsKept(prim, es, W, at)
    BY <1>2, KeptIs
  <1> HIDE DEF prim
  <1>5. at \in Seq(W) /\ Len(prim) = Len(at) /\ prim = [n \in 1..Len(at) |-> es[at[n]]] /\ Len(at) \in Nat
    BY <1>4 DEF IsKept
  <1>6. Len(at) <= 4
    <2>1. Cardinality(W) = Len(at)
      BY <1>2, <1>4, <1>5, KeptCount
    <2> QED BY <2>1 DEF MbrTable, PrimaryCount, MBR_MAX_PRIMARY_PARTITIONS, W
  <1>7. \A j, k \in 1..Len(at) : j # k => at[j] # at[k]
    <2> SUFFICES ASSUME NEW j \in 1..Len(at), NEW k \in 1..Len(at), j < k PROVE at[j] # at[k]
      BY <1>5
    <2>1. at[j] < at[k]
      BY <1>4 DEF IsKept
    <2>2. at[k] \in W
      BY <1>5
    <2>3. at[k] \in 1..Len(es)
      BY <1>2, <2>2
    <2> QED BY <2>1, <2>3, <1>2
  <1>8. \A i \in W : \E n \in 1..Len(at) : at[n] = i
    BY <1>4 DEF IsKept
  <1>9. ebrs \in Seq({ebrs[i] : i \in 1..Len(ebrs)}) /\ Len(ebrs) \in Nat
    <2> HIDE DEF logs, ebr
    <2> QED BY <1>3
  <1> HIDE DEF first, ebrs
  <1>10. SerializeMbr(t)[1] = first
    <2>1. <<first>> \in Seq({first}) /\ Len(<<first>>) = 1 /\ <<first>>[1] = first
      OBVIOUS
    <2> QED BY <1>1, <1>9, <2>1
  <1>11. \A i \in 1..4 : slot(i) = IF i > Len(at) THEN EmptySlot ELSE SlotOf(es[at[i]])
    <2> SUFFICES ASSUME NEW i \in 1..4, ~(i > Len(at)) PROVE slot(i) = SlotOf(es[at[i]])
      BY <1>5
    <2>1. i \in 1..Len(at)
      BY <1>5
    <2> QED BY <1>5, <2>1 DEF SlotOf
  <1> HIDE DEF slot
  <1>12. first = MbrSector([i \in 1..4 |-> IF i > Len(at) THEN EmptySlot ELSE SlotOf(es[at[i]])])
    BY <1>11 DEF first
  <1> QED BY <1>5, <1>6, <1>7, <1>8, <1>10, <1>12 DEF W, es

\* The sectors behind it are EBRs.
LEMMA EbrsWritten ==
  ASSUME NEW t, MbrTable(t)
  PROVE  /\ Len(SerializeMbr(t)) \in Nat \ {0}
         /\ \A i \in 2..Len(SerializeMbr(t)) : SectorOK(SerializeMbr(t)[i]) /\ SerializeMbr(t)[i].k = "ebr"
  <1> DEFINE W == 1..Len(t.entries) \ PrimaryAt(t)
             es == t.entries
             prim == Kept(es, PrimaryAt(t))
             logs == Kept(es, W)
             slot(i) == IF i > Len(prim) THEN EmptySlot
                        ELSE Slot(prim[i].type, prim[i].active, prim[i].start, prim[i].count)
             next(i) == IF i = Len(logs) THEN 0 ELSE logs[i + 1].start - 1 - Head(Extendeds(t)).start
             ebr(i) == EbrSector(logs[i].active, 1, logs[i].count, next(i))
             ebrs == IF Extendeds(t) = <<>> THEN <<>> ELSE [i \in 1..Len(logs) |-> ebr(i)]
             first == MbrSector([i \in 1..4 |-> slot(i)])
             secs == SerializeMbr(t)
  <1>1. secs = <<first>> \o ebrs
    BY DEF SerializeMbr, MBR_MAX_PRIMARY_PARTITIONS
  <1> HIDE DEF first, secs
  <1>2. es \in Seq(EntrySet) /\ Len(es) \in Nat /\ W \in SUBSET (1..Len(es))
    BY DEF MbrTable
  <1> HIDE DEF W, es
  <1>3. PICK at : IsKept(logs, es, W, at)
    BY <1>2, KeptIs
  <1> HIDE DEF logs
  <1>4. at \in Seq(W) /\ Len(logs) = Len(at) /\ logs = [n \in 1..Len(at) |-> es[at[n]]] /\ Len(at) \in Nat
    BY <1>3 DEF IsKept
  <1>5. \A n \in 1..Len(logs) : logs[n] \in EntrySet
    <2> SUFFICES ASSUME NEW n \in 1..Len(logs) PROVE logs[n] \in EntrySet
      OBVIOUS
    <2>1. at[n] \in W /\ logs[n] = es[at[n]]
      BY <1>4
    <2>2. at[n] \in 1..Len(es)
      BY <1>2, <2>1
    <2> QED BY <1>2, <2>1, <2>2
  <1>6. ASSUME NEW n \in 1..Len(logs), Extendeds(t) # <<>>
        PROVE  SectorOK(ebr(n)) /\ ebr(n).k = "ebr"
    <2>1. logs[n].active \in BOOLEAN /\ logs[n].count \in Nat
      BY <1>5 DEF EntrySet
    <2>2. next(n) \in Int
      <3>1. PICK i \in PrimaryAt(t) : Head(Extendeds(t)) = es[i]
        BY <1>2, <1>6, ExtendedIs DEF es
      <3>2. i \in 1..Len(es)
        BY <3>1 DEF PrimaryAt, es
      <3>5. es[i] \in EntrySet
        BY <1>2, <3>2
      <3>3. Head(Extendeds(t)).start \in Int
        BY <3>1, <3>5 DEF EntrySet
      <3>4. CASE n # Len(logs)
        <4>1. n + 1 \in 1..Len(logs)
          <5>1. n \in 1..Len(logs) /\ Len(logs) \in Nat /\ n # Len(logs)
            BY <1>4, <1>6, <3>4
          <5> HIDE DEF ebr, next
          <5> QED BY <5>1
        <4>2. logs[n + 1].start \in Int
          BY <1>5, <4>1 DEF EntrySet
        <4> QED BY <3>3, <3>4, <4>2
      <3> QED BY <3>4
    <2> HIDE DEF next
    <2> QED BY <2>1, <2>2 DEF EbrSector, SectorOK
  <1>7. Len(ebrs) \in Nat /\ \A i \in 1..Len(ebrs) : SectorOK(ebrs[i]) /\ ebrs[i].k = "ebr"
    <2> HIDE DEF ebr
    <2>1. CASE Extendeds(t) = <<>>
      BY <2>1
    <2>2. CASE Extendeds(t) # <<>>
      <3>1. ebrs = [i \in 1..Len(logs) |-> ebr(i)] /\ Len(logs) \in Nat
        BY <1>4, <2>2
      <3> HIDE DEF ebrs
      <3>2. Len(ebrs) = Len(logs)
        BY <3>1
      <3> QED BY <1>6, <2>2, <3>1, <3>2
    <2> QED BY <2>1, <2>2
  <1>8. ebrs \in Seq({ebrs[i] : i \in 1..Len(ebrs)})
    <2> HIDE DEF ebr
    <2>1. CASE Extendeds(t) = <<>>
      BY <2>1
    <2>2. CASE Extendeds(t) # <<>>
      <3>1. ebrs = [i \in 1..Len(logs) |-> ebr(i)] /\ Len(logs) \in Nat
        BY <1>4, <2>2
      <3> HIDE DEF ebrs
      <3> QED BY <3>1
    <2> QED BY <2>1, <2>2
  <1> HIDE DEF ebrs
  <1>9. /\ Len(secs) = 1 + Len(ebrs)
        /\ \A i \in 2..Len(secs) : secs[i] = ebrs[i - 1]
    <2>1. <<first>> \in Seq({first}) /\ Len(<<first>>) = 1
      OBVIOUS
    <2> QED BY <1>1, <1>7, <1>8, <2>1
  <1>10. ASSUME NEW i \in 2..Len(secs) PROVE SectorOK(secs[i]) /\ secs[i].k = "ebr"
    <2>1. i - 1 \in 1..Len(ebrs)
      BY <1>7, <1>9
    <2> QED BY <1>7, <1>9, <2>1
  <1> QED BY <1>7, <1>9, <1>10 DEF secs

\* A disk whose sectors are what their kinds say they are.
Readable(d) == d = [s \in Lba |-> d[s]] /\ \A s \in Lba : SectorOK(d[s])

\* Writing the beginning of something readable keeps a disk readable.
LEMMA WriteIs ==
  ASSUME NEW d, Readable(d), NEW lba \in Nat, NEW secs, NEW n \in Nat,
         \A i \in 1..n : SectorOK(secs[i])
  PROVE  /\ Readable(WriteAt(d, lba, secs, n))
         /\ \A s \in Lba : WriteAt(d, lba, secs, n)[s]
                             = IF s >= lba /\ s < lba + n THEN secs[s - lba + 1] ELSE d[s]
  <1> DEFINE w == WriteAt(d, lba, secs, n)
  <1>1. w = [s \in Lba |-> IF s >= lba /\ s < lba + n THEN secs[s - lba + 1] ELSE d[s]]
    BY DEF WriteAt
  <1> HIDE DEF w
  <1>2. ASSUME NEW s \in Lba PROVE SectorOK(w[s])
    <2>1. CASE s >= lba /\ s < lba + n
      <3>1. s - lba + 1 \in 1..n
        BY <2>1, FirstSectors
      <3> QED BY <1>1, <2>1, <3>1
    <2>2. CASE ~(s >= lba /\ s < lba + n)
      BY <1>1, <2>2 DEF Readable
    <2> QED BY <2>1, <2>2
  <1>3. w = [s \in Lba |-> w[s]]
    BY <1>1
  <1> QED BY <1>1, <1>2, <1>3 DEF Readable, w

\* An MBR disk has the table that is being written from the first sector on, and the
\* one it had before that; no write of an MBR makes a GPT header.
LEMMA MbrWritten ==
  ASSUME NEW d, Readable(d), MbrOK(d), NEW t, MbrTable(t), Unprotecting(t, d),
         NEW n \in 0..Len(serialize(t))
  PROVE  LET w == WriteAt(d, 0, serialize(t), n) IN
         /\ Readable(w) /\ MbrOK(w)
         /\ SlotExtents(w) = IF n = 0 THEN SlotExtents(d) ELSE PrimaryExtents(t)
         /\ w[1].k = "gpt" => d[1].k = "gpt"
  <1> DEFINE secs == SerializeMbr(t)
             w == WriteAt(d, 0, secs, n)
  <1>1. serialize(t) = secs
    BY DEF serialize, MbrTable, Table
  <1>2. PICK at : /\ at \in Seq(PrimaryAt(t)) /\ Len(at) <= 4
                  /\ \A j, k \in 1..Len(at) : j # k => at[j] # at[k]
                  /\ \A i \in PrimaryAt(t) : \E k \in 1..Len(at) : at[k] = i
                  /\ secs[1] = MbrSector([i \in 1..4 |-> IF i > Len(at) THEN EmptySlot ELSE SlotOf(t.entries[at[i]])])
    BY SlotsWritten
  <1>3. /\ Len(secs) \in Nat \ {0}
        /\ \A i \in 2..Len(secs) : SectorOK(secs[i]) /\ secs[i].k = "ebr"
    BY EbrsWritten
  <1> HIDE DEF secs
  <1>4. n \in Nat /\ n <= Len(secs)
    BY <1>1, <1>3
  <1>5. secs[1].k = "mbr" /\ SectorOK(secs[1])
    BY <1>2 DEF MbrSector, SectorOK
  <1>6. \A i \in 1..n : SectorOK(secs[i])
    <2> SUFFICES ASSUME NEW i \in 1..n, i # 1 PROVE SectorOK(secs[i])
      BY <1>5
    <2>1. i \in 2..Len(secs)
      BY <1>3, <1>4
    <2> QED BY <1>3, <2>1
  <1>7. Readable(w) /\ \A s \in Lba : w[s] = IF s >= 0 /\ s < 0 + n THEN secs[s - 0 + 1] ELSE d[s]
    BY <1>4, <1>6, WriteIs
  <1> HIDE DEF w
  <1>8. w[1].k = "gpt" => d[1].k = "gpt"
    <2>1. CASE n > 1
      <3>1. w[1] = secs[2] /\ 2 \in 2..Len(secs)
        <4>1. 1 >= 0 /\ 1 < 0 + n /\ 1 - 0 + 1 = 2
          BY <1>4, <2>1
        <4>2. 2 \in 2..Len(secs)
          BY <1>3, <1>4, <2>1
        <4> QED BY <1>7, <4>1, <4>2, FirstSectors
      <3> QED BY <1>3, <3>1
    <2>2. CASE ~(n > 1)
      <3>1. w[1] = d[1]
        BY <1>4, <1>7, <2>2, FirstSectors
      <3> QED BY <3>1
    <2> QED BY <2>1, <2>2
  <1>9. CASE n = 0
    <2>1. w[0] = d[0] /\ w[1] = d[1]
      BY <1>7, <1>9, FirstSectors
    <2>2. UsedSlots(w) = UsedSlots(d)
      BY <2>1 DEF UsedSlots
    <2> QED BY <1>1, <1>7, <1>8, <1>9, <2>1, <2>2 DEF MbrOK, SlotsOK, SlotExtents, w
  <1>10. CASE n # 0
    <2>1. w[0] = secs[1]
      BY <1>4, <1>7, <1>10, FirstSectors
    <2> DEFINE slots == [i \in 1..4 |-> IF i > Len(at) THEN EmptySlot ELSE SlotOf(t.entries[at[i]])]
               e(i) == t.entries[at[i]]
    <2>2. w[0].k = "mbr" /\ w[0].slots = slots
      BY <1>2, <2>1 DEF MbrSector
    <2> HIDE DEF e
    <2>3. ASSUME NEW i \in 1..4, ~(i > Len(at))
          PROVE  /\ slots[i] = SlotOf(e(i)) /\ i \in 1..Len(at)
                 /\ at[i] \in PrimaryAt(t) /\ e(i) \in EntrySet /\ e(i).count > 0
                 /\ e(i).start + e(i).count <= DiskSectors
                 /\ e(i).type = "protective" => d[1].k # "gpt"
      <3>1. i \in 1..Len(at)
        BY <1>2, <2>3
      <3>2. at[i] \in PrimaryAt(t)
        BY <1>2, <3>1
      <3>3. at[i] \in 1..Len(t.entries)
        BY <3>2 DEF PrimaryAt
      <3>4. e(i) \in EntrySet
        BY <3>3 DEF MbrTable, e
      <3> QED BY <2>3, <3>1, <3>2, <3>3, <3>4 DEF MbrTable, Unprotecting, e
    <2> HIDE DEF slots
    <2>4. ASSUME NEW i \in 1..4, i > Len(at) PROVE slots[i] = EmptySlot
      BY <2>4 DEF slots
    <2>5. ASSUME NEW i \in 1..4, ~(i > Len(at))
          PROVE  /\ slots[i] \in [type : PartitionTypes, active : BOOLEAN, start : Nat, count : Nat]
                 /\ slots[i].start = e(i).start /\ slots[i].count = e(i).count /\ slots[i].type = e(i).type
                 /\ slots[i].start > 0 /\ slots[i].count > 0 /\ slots[i].start + slots[i].count <= DiskSectors
                 /\ ExtentOf(slots[i]) = ExtentOf(e(i)) /\ slots[i] # EmptySlot
      <3>1. /\ e(i).type \in PartitionTypes /\ e(i).active \in BOOLEAN
            /\ e(i).start \in Nat \ {0} /\ e(i).count \in Nat /\ e(i).count > 0
            /\ e(i).start + e(i).count <= DiskSectors
        BY <2>3, <2>5 DEF EntrySet
      <3>2. slots[i] = Slot(e(i).type, e(i).active, e(i).start, e(i).count)
        BY <2>3, <2>5 DEF SlotOf
      <3>3. slots[i] \in [type : PartitionTypes, active : BOOLEAN, start : Nat, count : Nat]
        BY <3>1, <3>2 DEF Slot
      <3>4. /\ slots[i].start = e(i).start /\ slots[i].count = e(i).count /\ slots[i].type = e(i).type
            /\ EmptySlot.count = 0
        BY <3>2 DEF Slot, EmptySlot
      <3> QED BY <3>1, <3>3, <3>4 DEF ExtentOf
    <2>6. EmptySlot \in [type : PartitionTypes, active : BOOLEAN, start : Nat, count : Nat]
      BY DEF EmptySlot, Slot, PartitionTypes
    <2>7. slots \in [1..4 -> [type : PartitionTypes, active : BOOLEAN, start : Nat, count : Nat]]
      <3>1. slots = [i \in 1..4 |-> slots[i]]
        BY DEF slots
      <3>2. \A i \in 1..4 : slots[i] \in [type : PartitionTypes, active : BOOLEAN, start : Nat, count : Nat]
        BY <2>4, <2>5, <2>6
      <3> QED BY <3>1, <3>2
    <2>8. UsedSlots(w) = {i \in 1..4 : ~(i > Len(at))}
      BY <2>2, <2>4, <2>5 DEF UsedSlots, MBR_MAX_PRIMARY_PARTITIONS
    <2>9. MbrOK(w)
      <3>1. SlotsOK(w)
        BY <2>2, <2>7 DEF SlotsOK, MBR_MAX_PRIMARY_PARTITIONS
      <3>2. ASSUME NEW i \in UsedSlots(w), NEW j \in UsedSlots(w) \ {i}
            PROVE  ~Overlap(slots[i], slots[j])
        <4>1. at[i] # at[j] /\ at[i] \in PrimaryAt(t) /\ at[j] \in PrimaryAt(t)
          BY <1>2, <2>3, <2>8
        <4>2. ~Overlap(e(i), e(j))
          BY <4>1 DEF MbrTable, e
        <4> QED BY <2>5, <2>8, <4>2 DEF Overlap
      <3>3. ASSUME NEW i \in UsedSlots(w) PROVE slots[i].type = "protective" => w[1].k # "gpt"
        <4>1. i \in 1..4 /\ ~(i > Len(at))
          BY <2>8
        <4>2. slots[i].type = e(i).type
          BY <2>5, <4>1
        <4>3. e(i).type = "protective" => d[1].k # "gpt"
          BY <2>3, <4>1
        <4> QED BY <1>8, <4>2, <4>3
      <3> QED BY <2>2, <2>5, <2>8, <3>1, <3>2, <3>3 DEF MbrOK
    <2>10. SlotExtents(w) = PrimaryExtents(t)
      <3>1. ASSUME NEW i \in UsedSlots(w) PROVE ExtentOf(slots[i]) \in PrimaryExtents(t)
        BY <2>3, <2>5, <2>8 DEF PrimaryExtents, e
      <3>2. ASSUME NEW p \in PrimaryAt(t) PROVE \E i \in UsedSlots(w) : ExtentOf(slots[i]) = ExtentOf(t.entries[p])
        <4>1. PICK k \in 1..Len(at) : at[k] = p
          BY <1>2
        <4>2. Len(at) \in Nat /\ Len(at) <= 4
          BY <1>2
        <4>3. k \in 1..4 /\ ~(k > Len(at))
          BY <4>2
        <4> QED BY <2>5, <2>8, <4>1, <4>3 DEF e
      <3> QED BY <2>2, <3>1, <3>2 DEF SlotExtents, PrimaryExtents
    <2> QED BY <1>1, <1>7, <1>8, <1>10, <2>9, <2>10 DEF w
  <1> QED BY <1>9, <1>10

-----------------------------------------------------------------------------
(* GPT                                                                     *)

\* A table of a GPT: its partitions are where its header allows them, apart, and in
\* slots of their own.
InGpt(e, lo, hi) ==
  /\ e \in EntrySet /\ e.logical = FALSE /\ e.type = "basic" /\ e.index \in 0..(GptSlots - 1)
  /\ e.count > 0 /\ e.start >= lo /\ e.start + e.count - 1 <= hi
AwayFrom(e, f) == ~Overlap(e, f) /\ e.index # f.index
GptTable(t, lo, hi) ==
  /\ t = Table("GPT", t.entries, lo, hi)
  /\ t.entries \in Seq(EntrySet)
  /\ \A i \in 1..Len(t.entries) : InGpt(t.entries[i], lo, hi)
  /\ \A i, j \in 1..Len(t.entries) : i # j => AwayFrom(t.entries[i], t.entries[j])

EntryExtents(d) ==
  {[start |-> d[2].slots[i].start, count |-> d[2].slots[i].end - d[2].slots[i].start + 1] : i \in UsedEntries(d)}

\* The protective slot is found, so the header counts.
LEMMA ProtectiveFound == ASSUME NEW d, GptOK(d) PROVE parse(d) = ParseGpt(d)
  <1> DEFINE prim == Primaries(d[0].slots)
             t == Table("MBR", prim, 0, DiskSectors - 1)
             exts == Extendeds(t)
  <1>1. PICK at : /\ at \in Seq(UsedSlots(d)) /\ Len(prim) = Len(at)
                  /\ prim = [n \in 1..Len(at) |-> Primary(d[0].slots, at[n])]
                  /\ \A i \in UsedSlots(d) : \E n \in 1..Len(at) : at[n] = i
    BY PrimariesAre
  <1>2. t.entries = prim
    BY DEF Table
  <1> HIDE DEF prim, t, exts
  <1>3. \A n \in 1..Len(at) : at[n] \in UsedSlots(d) /\ prim[n].type = d[0].slots[at[n]].type
    BY <1>1 DEF Primary, Entry
  <1>a. Len(at) \in Nat /\ prim = [n \in 1..Len(at) |-> prim[n]]
    BY <1>1
  <1>4. Len(at) \in Nat /\ prim \in Seq({prim[n] : n \in 1..Len(at)})
    BY <1>a
  <1>5. exts = <<>>
    <2> SUFFICES ASSUME exts # <<>> PROVE FALSE
      OBVIOUS
    <2>1. PICK i \in PrimaryAt(t) : t.entries[i].type = "extended"
      BY <1>2, <1>4, ExtendedIs DEF exts
    <2>2. i \in 1..Len(at)
      BY <1>1, <1>2, <2>1 DEF PrimaryAt
    <2> QED BY <1>2, <1>3, <2>1, <2>2 DEF GptOK
  <1>6. ParseMbr(d) = Table("MBR", prim \o <<>>, 0, DiskSectors - 1)
    BY <1>5 DEF ParseMbr, prim, t, exts
  <1>7. ParseMbr(d).entries = prim
    <2>1. prim \o <<>> = prim
      BY <1>4
    <2> QED BY <1>6, <2>1 DEF Table
  <1>8. hasGptProtective(ParseMbr(d))
    <2>1. PICK i \in UsedSlots(d) : d[0].slots[i].type = "protective"
      BY DEF GptOK
    <2>2. PICK n \in 1..Len(at) : at[n] = i
      BY <1>1, <2>1
    <2>3. n \in 1..Len(prim) /\ prim[n].type = "protective"
      BY <1>1, <1>3, <2>1, <2>2
    <2> QED BY <1>7, <2>3 DEF hasGptProtective
  <1> QED BY <1>8 DEF parse, GptOK, SlotsOK

\* What is read from a good GPT is a table, with the partitions of its entries.
LEMMA ParseGptIs ==
  ASSUME NEW d, GptOK(d)
  PROVE  /\ parse(d) = ParseGpt(d)
         /\ GptTable(ParseGpt(d), d[1].first, d[1].last)
         /\ PrimaryExtents(ParseGpt(d)) = EntryExtents(d)
  <1> DEFINE slots == d[2].slots
             entry(i) == Entry(i - 1, "basic", FALSE, FALSE, slots[i].guid, slots[i].start,
                               slots[i].end - slots[i].start + 1)
             s == [i \in 1..GptSlots |-> entry(i)]
             W == UsedEntries(d)
             t == ParseGpt(d)
  <1>1. t = Table("GPT", Kept(s, W), d[1].first, d[1].last)
    BY DEF ParseGpt, GptOK, UsedEntries
  <1>2. Len(s) = GptSlots /\ GptSlots \in Nat /\ W \in SUBSET (1..Len(s))
    BY FirstSectors DEF UsedEntries
  <1>3. ASSUME NEW i \in W
        PROVE  /\ i \in 1..GptSlots
               /\ s[i] = entry(i) /\ slots[i].guid \in Nat /\ slots[i].start \in Nat /\ slots[i].end \in Nat
               /\ slots[i].start > 2 /\ slots[i].start <= slots[i].end
               /\ d[1].first <= slots[i].start /\ slots[i].end <= d[1].last
    <2>1. i \in 1..GptSlots
      BY DEF UsedEntries
    <2>2. slots[i] \in [guid : Nat, start : Nat, end : Nat]
      BY <2>1 DEF GptOK
    <2>3. /\ d[1].first <= slots[i].start /\ slots[i].start <= slots[i].end /\ slots[i].end <= d[1].last
          /\ d[1].first \in Nat /\ d[1].first > 2
      BY DEF GptOK
    <2>4. s[i] = entry(i)
      BY <2>1
    <2> HIDE DEF slots, s, entry
    <2> QED BY <2>1, <2>2, <2>3, <2>4
  <1> HIDE DEF s, W, t
  <1>4. PICK at : IsKept(Kept(s, W), s, W, at)
    BY <1>2, KeptIs
  <1> DEFINE es == Kept(s, W)
  <1>5. at \in Seq(W) /\ Len(es) = Len(at) /\ es = [n \in 1..Len(at) |-> s[at[n]]] /\ Len(at) \in Nat
    BY <1>4 DEF IsKept
  <1>6. \A j, k \in 1..Len(at) : j # k => at[j] # at[k]
    <2> SUFFICES ASSUME NEW j \in 1..Len(at), NEW k \in 1..Len(at), j < k PROVE at[j] # at[k]
      BY <1>5
    <2>1. at[j] < at[k]
      BY <1>4 DEF IsKept
    <2>2. at[k] \in W
      BY <1>5
    <2>3. at[k] \in 1..GptSlots
      BY <1>3, <2>2
    <2> QED BY <2>1, <2>3
  <1>7. \A i \in W : \E n \in 1..Len(at) : at[n] = i
    BY <1>4 DEF IsKept
  <1> HIDE DEF es, entry
  <1>8. t.entries = es
    BY <1>1 DEF Table, es
  <1>9. ASSUME NEW n \in 1..Len(es)
        PROVE  /\ n \in 1..Len(at) /\ at[n] \in W /\ es[n] = entry(at[n])
    BY <1>3, <1>5
  <1> HIDE DEF slots
  <1>10. ASSUME NEW i \in W
         PROVE  LET e == entry(i) IN
                /\ e \in EntrySet /\ e.logical = FALSE /\ e.type = "basic" /\ e.index = i - 1
                /\ e.index \in 0..(GptSlots - 1)
                /\ e.start = slots[i].start /\ e.count = slots[i].end - slots[i].start + 1
                /\ e.count > 0 /\ e.start >= d[1].first /\ e.start + e.count - 1 <= d[1].last
                /\ ExtentOf(e) = [start |-> slots[i].start, count |-> slots[i].end - slots[i].start + 1]
    <2>a. /\ i \in 1..GptSlots /\ slots[i].guid \in Nat /\ slots[i].start \in Nat /\ slots[i].end \in Nat
          /\ slots[i].start > 2 /\ slots[i].start <= slots[i].end
      BY <1>3
    <2>b. i - 1 \in Nat /\ i - 1 \in 0..(GptSlots - 1)
      BY <1>2, <2>a
    <2>c. /\ slots[i].start \in Nat \ {0}
          /\ slots[i].end - slots[i].start + 1 \in Nat /\ slots[i].end - slots[i].start + 1 > 0
          /\ slots[i].start + (slots[i].end - slots[i].start + 1) - 1 = slots[i].end
      BY <2>a
    <2>1. /\ i - 1 \in Nat /\ i - 1 \in 0..(GptSlots - 1) /\ slots[i].guid \in Nat /\ slots[i].start \in Nat \ {0}
          /\ slots[i].end - slots[i].start + 1 \in Nat /\ slots[i].end - slots[i].start + 1 > 0
          /\ slots[i].start + (slots[i].end - slots[i].start + 1) - 1 = slots[i].end
      BY <2>a, <2>b, <2>c
    <2>2. entry(i) \in EntrySet
      BY <2>1 DEF entry, Entry, EntrySet, PartitionTypes
    <2> QED BY <1>3, <2>1, <2>2 DEF entry, Entry, ExtentOf
  <1>11. es \in Seq(EntrySet)
    <2>1. \A n \in 1..Len(es) : es[n] \in EntrySet
      BY <1>9, <1>10
    <2> QED BY <1>5, <2>1
  <1>12. GptTable(t, d[1].first, d[1].last)
    <2>1. t = Table("GPT", t.entries, d[1].first, d[1].last)
      BY <1>1, <1>8 DEF es
    <2>2. ASSUME NEW n \in 1..Len(es), NEW m \in 1..Len(es) \ {n}
          PROVE  ~Overlap(es[n], es[m]) /\ es[n].index # es[m].index
      <3> DEFINE i == at[n]
                 j == at[m]
      <3>1. i \in W /\ j \in W /\ i # j /\ es[n] = entry(i) /\ es[m] = entry(j)
        BY <1>6, <1>9
      <3> HIDE DEF i, j
      <3>2. slots[i].end < slots[j].start \/ slots[j].end < slots[i].start
        BY <3>1 DEF GptOK, slots, W
      <3>3. i \in Nat /\ j \in Nat
        BY <1>3, <3>1
      <3>4. /\ slots[i].start \in Nat /\ slots[i].end \in Nat /\ slots[j].start \in Nat /\ slots[j].end \in Nat
            /\ entry(i).start = slots[i].start /\ entry(i).count = slots[i].end - slots[i].start + 1
            /\ entry(j).start = slots[j].start /\ entry(j).count = slots[j].end - slots[j].start + 1
            /\ entry(i).index = i - 1 /\ entry(j).index = j - 1
        <4>1. /\ slots[i].start \in Nat /\ slots[i].end \in Nat
              /\ slots[j].start \in Nat /\ slots[j].end \in Nat
          BY <1>3, <3>1
        <4>2. \A k \in W : /\ entry(k).start = slots[k].start
                            /\ entry(k).count = slots[k].end - slots[k].start + 1
                            /\ entry(k).index = k - 1
          BY <1>10
        <4> QED BY <3>1, <4>1, <4>2
      <3>5. ~Overlap(entry(i), entry(j))
        BY <3>2, <3>4, OneBeforeOther
      <3>6. entry(i).index # entry(j).index
        BY <3>1, <3>3, <3>4
      <3> QED BY <3>1, <3>5, <3>6
    <2>3. ASSUME NEW n \in 1..Len(es) PROVE InGpt(es[n], d[1].first, d[1].last)
      <3>1. ASSUME NEW i \in W PROVE InGpt(entry(i), d[1].first, d[1].last)
        BY <1>10 DEF InGpt
      <3> QED BY <1>9, <3>1
    <2> QED BY <1>8, <1>11, <2>1, <2>2, <2>3 DEF GptTable, AwayFrom
  <1>13. PrimaryExtents(t) = EntryExtents(d)
    <2>1. ASSUME NEW n \in PrimaryAt(t) PROVE ExtentOf(t.entries[n]) \in EntryExtents(d)
      <3>1. n \in 1..Len(es)
        BY <1>8 DEF PrimaryAt
      <3>2. at[n] \in W /\ t.entries[n] = entry(at[n])
        BY <1>8, <1>9, <3>1
      <3>3. ExtentOf(t.entries[n])
              = [start |-> slots[at[n]].start, count |-> slots[at[n]].end - slots[at[n]].start + 1]
        BY <1>10, <3>2
      <3> QED BY <3>2, <3>3 DEF EntryExtents, slots, W
    <2>2. ASSUME NEW i \in W
          PROVE  [start |-> slots[i].start, count |-> slots[i].end - slots[i].start + 1] \in PrimaryExtents(t)
      <3>1. PICK n \in 1..Len(at) : at[n] = i
        BY <1>7
      <3>2. n \in 1..Len(es) /\ es[n] = entry(i)
        BY <1>5, <1>9, <3>1
      <3>3. n \in PrimaryAt(t)
        BY <1>8, <1>10, <3>2 DEF PrimaryAt
      <3> QED BY <1>8, <1>10, <3>2, <3>3 DEF PrimaryExtents
    <2> QED BY <2>1, <2>2 DEF PrimaryExtents, EntryExtents, slots, W
  <1> QED BY <1>12, <1>13, ProtectiveFound DEF t

\* FindIndex finds an entry with the index, if there is one.
LEMMA FindIndexIs ==
  ASSUME NEW t, Len(t.entries) \in Nat, NEW index, HasIndex(t, index)
  PROVE  FindIndex(t, index) \in 1..Len(t.entries) /\ t.entries[FindIndex(t, index)].index = index
  <1> DEFINE S == {i \in 1..Len(t.entries) : t.entries[i].index = index}
  <1>1. S # {} /\ S \in SUBSET Nat
    BY DEF HasIndex
  <1>2. PICK i \in S : \A j \in S : i <= j
    BY <1>1, Least
  <1>3. \A j \in 1..(i - 1) : t.entries[j].index # index
    <2> SUFFICES ASSUME NEW j \in 1..(i - 1), t.entries[j].index = index PROVE FALSE
      OBVIOUS
    <2>1. j \in S /\ j < i
      BY <1>2
    <2> QED BY <1>2, <2>1
  <1>4. \E k \in 1..Len(t.entries) :
          /\ t.entries[k].index = index
          /\ \A j \in 1..(k - 1) : t.entries[j].index # index
    BY <1>2, <1>3
  <1> QED BY <1>4 DEF FindIndex

\* A good GPT, from what its slots say.
LEMMA GptOKFrom ==
  ASSUME NEW d, NEW w, GptOK(d), SlotsOK(w),
         \E i \in UsedSlots(w) : w[0].slots[i].type = "protective",
         \A i \in UsedSlots(w) : w[0].slots[i].type # "extended",
         w[1].k = "gpt", w[1].entryLba = 2, w[1].first = d[1].first, w[1].last = d[1].last,
         w[2] = d[2]
  PROVE  GptOK(w) /\ EntryExtents(w) = EntryExtents(d)
  <1>1. UsedEntries(w) = UsedEntries(d)
    BY DEF UsedEntries
  <1> QED BY <1>1 DEF GptOK, EntryExtents

\* The three sectors of a GPT that are read again.
LEMMA GptSectors ==
  ASSUME NEW t, t.kind = "GPT"
  PROVE  LET secs == serialize(t) IN
         /\ Len(secs) = 5
         /\ \A i \in 1..5 : SectorOK(secs[i])
         /\ secs[1] = MbrSector([i \in 1..4 |-> IF i = 1 THEN Slot("protective", FALSE, 1, DiskSectors - 1)
                                                ELSE EmptySlot])
         /\ secs[2] = GptHeader(2, t.first, t.last)
         /\ secs[3] = GptEntries([i \in 1..GptSlots |->
                        IF HasIndex(t, i - 1)
                        THEN LET e == t.entries[FindIndex(t, i - 1)]
                             IN GptEntry(e.guid, e.start, e.start + e.count - 1)
                        ELSE UnusedEntry])
  <1> DEFINE mbr == MbrSector([i \in 1..4 |-> IF i = 1 THEN Slot("protective", FALSE, 1, DiskSectors - 1)
                                              ELSE EmptySlot])
             array == GptEntries([i \in 1..GptSlots |->
                        IF HasIndex(t, i - 1)
                        THEN LET e == t.entries[FindIndex(t, i - 1)]
                             IN GptEntry(e.guid, e.start, e.start + e.count - 1)
                        ELSE UnusedEntry])
             header(n) == GptHeader(n, t.first, t.last)
             secs == serialize(t)
  <1>1. secs = << mbr, header(2), array, array, header(DiskSectors - 2) >>
    BY DEF serialize, SerializeGpt, MBR_MAX_PRIMARY_PARTITIONS
  <1>2. mbr.k = "mbr" /\ array.k = "entries" /\ header(2).k = "gpt" /\ header(DiskSectors - 2).k = "gpt"
    BY DEF MbrSector, GptEntries, GptHeader
  <1> HIDE DEF secs, mbr, array, header
  <1>3. /\ Len(secs) = 5 /\ secs[1] = mbr /\ secs[2] = header(2) /\ secs[3] = array
        /\ secs[4] = array /\ secs[5] = header(DiskSectors - 2)
    BY <1>1
  <1>4. \A i \in 1..5 : SectorOK(secs[i])
    <2> SUFFICES ASSUME NEW i \in 1..5 PROVE SectorOK(secs[i])
      OBVIOUS
    <2>1. i = 1 \/ i = 2 \/ i = 3 \/ i = 4 \/ i = 5
      OBVIOUS
    <2>2. secs[i].k \in {"mbr", "entries", "gpt"}
      BY <1>2, <1>3, <2>1
    <2> QED BY <2>2 DEF SectorOK
  <1> QED BY <1>3, <1>4 DEF secs, mbr, array, header

\* The entry array that is written has the partitions of the table.
LEMMA ArrayWritten ==
  ASSUME NEW w, NEW lo \in Nat, NEW hi \in Nat, lo > 2, hi < DiskSectors, NEW t, GptTable(t, lo, hi),
         w[2] = serialize(t)[3], SlotsOK(w),
         \E i \in UsedSlots(w) : w[0].slots[i].type = "protective",
         \A i \in UsedSlots(w) : w[0].slots[i].type # "extended",
         w[1].k = "gpt", w[1].entryLba = 2, w[1].first = lo, w[1].last = hi
  PROVE  GptOK(w) /\ EntryExtents(w) = PrimaryExtents(t)
  <1> DEFINE es == t.entries
             at(i) == FindIndex(t, i - 1)
             entry(e) == GptEntry(e.guid, e.start, e.start + e.count - 1)
             slots == [i \in 1..GptSlots |-> IF HasIndex(t, i - 1) THEN entry(es[at(i)]) ELSE UnusedEntry]
             W == {i \in 1..GptSlots : HasIndex(t, i - 1)}
  <1>1. w[2].k = "entries" /\ w[2].slots = slots
    <2>1. t.kind = "GPT"
      BY DEF GptTable, Table
    <2>2. w[2] = GptEntries(slots)
      <3> DEFINE secs == serialize(t)
      <3>1. secs[3] = GptEntries([i \in 1..GptSlots |->
                        IF HasIndex(t, i - 1)
                        THEN LET e == t.entries[FindIndex(t, i - 1)]
                             IN GptEntry(e.guid, e.start, e.start + e.count - 1)
                        ELSE UnusedEntry])
        BY <2>1, GptSectors
      <3>2. w[2] = secs[3]
        OBVIOUS
      <3> HIDE DEF secs
      <3> QED BY <3>1, <3>2
    <2> HIDE DEF slots
    <2> QED BY <2>2 DEF GptEntries
  <1>2. es \in Seq(EntrySet) /\ Len(es) \in Nat
    BY DEF GptTable
  <1>3. ASSUME NEW k \in 1..Len(es)
        PROVE  /\ es[k] \in EntrySet /\ es[k].logical = FALSE /\ es[k].index \in 0..(GptSlots - 1)
               /\ es[k].start \in Nat \ {0} /\ es[k].count \in Nat /\ es[k].count > 0 /\ es[k].guid \in Nat
               /\ es[k].start >= lo /\ es[k].start + es[k].count - 1 <= hi
               /\ k \in PrimaryAt(t)
    <2>1. es[k] \in EntrySet
      BY <1>2
    <2>2. es[k].start \in Nat \ {0} /\ es[k].count \in Nat /\ es[k].guid \in Nat
      BY <2>1 DEF EntrySet
    <2>3. /\ es[k].logical = FALSE /\ es[k].index \in 0..(GptSlots - 1) /\ es[k].count > 0
          /\ es[k].start >= lo /\ es[k].start + es[k].count - 1 <= hi
      BY DEF GptTable, InGpt
    <2> QED BY <2>1, <2>2, <2>3 DEF PrimaryAt
  <1>4. ASSUME NEW i \in W
        PROVE  at(i) \in 1..Len(es) /\ es[at(i)].index = i - 1 /\ slots[i] = entry(es[at(i)]) /\ i \in 1..GptSlots
    BY <1>2, FindIndexIs
  <1>5. \A i \in 1..GptSlots : i \notin W => slots[i] = UnusedEntry
    OBVIOUS
  <1>6. slots = [i \in 1..GptSlots |-> slots[i]]
    OBVIOUS
  <1> HIDE DEF slots, at, es
  <1>7. ASSUME NEW k \in 1..Len(es)
        PROVE  LET e == entry(es[k]) IN
               /\ e \in [guid : Nat, start : Nat, end : Nat] /\ e # UnusedEntry
               /\ e.start = es[k].start /\ e.end = es[k].start + es[k].count - 1
               /\ e.end - e.start + 1 = es[k].count
               /\ lo <= e.start /\ e.start <= e.end /\ e.end <= hi
               /\ [start |-> e.start, count |-> e.end - e.start + 1] = ExtentOf(es[k])
    <2>1. /\ es[k].start \in Nat \ {0} /\ es[k].count \in Nat /\ es[k].count > 0 /\ es[k].guid \in Nat
          /\ es[k].start >= lo /\ es[k].start + es[k].count - 1 <= hi
      BY <1>3
    <2>2. /\ es[k].start + es[k].count - 1 \in Nat /\ es[k].start <= es[k].start + es[k].count - 1
          /\ (es[k].start + es[k].count - 1) - es[k].start + 1 = es[k].count /\ es[k].start # 0
      BY <2>1
    <2> QED BY <2>1, <2>2 DEF GptEntry, UnusedEntry, ExtentOf
  <1>8. UsedEntries(w) = W
    <2>1. \A i \in 1..GptSlots : slots[i] # UnusedEntry <=> i \in W
      BY <1>4, <1>5, <1>7
    <2> QED BY <1>1, <2>1 DEF UsedEntries
  <1> HIDE DEF entry, W
  <1>9. ASSUME NEW i \in W
        PROVE  /\ slots[i].start = es[at(i)].start /\ slots[i].end = es[at(i)].start + es[at(i)].count - 1
               /\ lo <= slots[i].start /\ slots[i].start <= slots[i].end /\ slots[i].end <= hi
               /\ [start |-> slots[i].start, count |-> slots[i].end - slots[i].start + 1] = ExtentOf(es[at(i)])
               /\ slots[i] \in [guid : Nat, start : Nat, end : Nat]
    BY <1>4, <1>7
  <1>10. ASSUME NEW i \in W, NEW j \in W \ {i}
         PROVE  slots[i].end < slots[j].start \/ slots[j].end < slots[i].start
    <2>1. at(i) \in 1..Len(es) /\ at(j) \in 1..Len(es) /\ at(i) # at(j)
      <3>1. i - 1 # j - 1
        BY <1>4
      <3> QED BY <1>4, <3>1
    <2>2. ~Overlap(es[at(i)], es[at(j)])
      BY <2>1 DEF GptTable, AwayFrom, es
    <2>3. es[at(i)].start \in Nat /\ es[at(i)].count \in Nat /\ es[at(j)].start \in Nat /\ es[at(j)].count \in Nat
      BY <1>3, <2>1
    <2>4. /\ slots[i].start = es[at(i)].start /\ slots[i].end = es[at(i)].start + es[at(i)].count - 1
          /\ slots[j].start = es[at(j)].start /\ slots[j].end = es[at(j)].start + es[at(j)].count - 1
      BY <1>9
    <2> QED BY <2>2, <2>3, <2>4 DEF Overlap
  <1>11. slots \in [1..GptSlots -> [guid : Nat, start : Nat, end : Nat]]
    <2>1. UnusedEntry \in [guid : Nat, start : Nat, end : Nat]
      BY DEF UnusedEntry, GptEntry
    <2>2. \A i \in 1..GptSlots : slots[i] \in [guid : Nat, start : Nat, end : Nat]
      BY <1>5, <1>9, <2>1
    <2> QED BY <1>6, <2>2
  <1>12. GptOK(w)
    BY <1>1, <1>8, <1>9, <1>10, <1>11 DEF GptOK
  <1>13. EntryExtents(w) = {ExtentOf(es[at(i)]) : i \in W}
    <2>1. \A i \in W : [start |-> w[2].slots[i].start, count |-> w[2].slots[i].end - w[2].slots[i].start + 1]
                        = ExtentOf(es[at(i)])
      BY <1>1, <1>9
    <2>2. EntryExtents(w) = {[start |-> w[2].slots[i].start,
                              count |-> w[2].slots[i].end - w[2].slots[i].start + 1] : i \in W}
      BY <1>8 DEF EntryExtents
    <2> QED BY <2>1, <2>2
  <1>14. \A i \in W : at(i) \in PrimaryAt(t)
    BY <1>3, <1>4
  <1>15. ASSUME NEW k \in PrimaryAt(t) PROVE \E i \in W : ExtentOf(es[at(i)]) = ExtentOf(es[k])
    <2>1. k \in 1..Len(es)
      BY DEF PrimaryAt, es
    <2> DEFINE x == es[k].index
               i == x + 1
    <2>a. x \in 0..(GptSlots - 1)
      BY <1>3, <2>1
    <2> HIDE DEF x
    <2>b. i \in 1..GptSlots /\ i - 1 = x
      BY <2>a, FirstSectors
    <2> HIDE DEF i
    <2>2. i \in 1..GptSlots /\ i - 1 = es[k].index
      BY <2>b DEF x
    <2>3. i \in W
      <3>1. HasIndex(t, i - 1)
        BY <2>1, <2>2 DEF HasIndex, es
      <3> QED BY <2>2, <3>1 DEF W
    <2>4. at(i) \in 1..Len(es) /\ es[at(i)].index = es[k].index
      BY <1>4, <2>2, <2>3
    <2>5. at(i) = k
      BY <2>1, <2>4 DEF GptTable, AwayFrom, es
    <2> QED BY <2>3, <2>5
  <1> QED BY <1>12, <1>13, <1>14, <1>15 DEF PrimaryExtents, es

\* The protective MBR that is written has the protective slot and no other.
LEMMA ProtectiveWritten ==
  ASSUME NEW w,
         w[0] = MbrSector([i \in 1..4 |-> IF i = 1 THEN Slot("protective", FALSE, 1, DiskSectors - 1)
                                          ELSE EmptySlot])
  PROVE  /\ SlotsOK(w)
         /\ \E i \in UsedSlots(w) : w[0].slots[i].type = "protective"
         /\ \A i \in UsedSlots(w) : w[0].slots[i].type # "extended"
  <1> DEFINE one == Slot("protective", FALSE, 1, DiskSectors - 1)
             S == [type : PartitionTypes, active : BOOLEAN, start : Nat, count : Nat]
             slots == [i \in 1..4 |-> IF i = 1 THEN one ELSE EmptySlot]
  <1>1. one \in S /\ one.type = "protective" /\ EmptySlot \in S /\ EmptySlot.type = "empty"
    BY FirstSectors DEF Slot, EmptySlot, PartitionTypes
  <1>2. w[0].k = "mbr" /\ w[0].slots = slots
    BY DEF MbrSector
  <1> HIDE DEF one, S
  <1>3. slots \in [1..4 -> S] /\ slots[1] = one /\ one # EmptySlot /\ \A i \in 1..4 : slots[i] = one \/ slots[i] = EmptySlot
    BY <1>1
  <1> HIDE DEF slots
  <1>4. SlotsOK(w)
    BY <1>2, <1>3 DEF SlotsOK, S, MBR_MAX_PRIMARY_PARTITIONS
  <1>5. 1 \in UsedSlots(w) /\ \A i \in UsedSlots(w) : i \in 1..4
    <2>1. UsedSlots(w) = {i \in 1..4 : slots[i] # EmptySlot}
      BY <1>2 DEF UsedSlots, MBR_MAX_PRIMARY_PARTITIONS
    <2>2. 1 \in 1..4 /\ slots[1] # EmptySlot
      BY <1>3
    <2> QED BY <2>1, <2>2
  <1>6. \A i \in UsedSlots(w) : w[0].slots[i].type # "extended"
    BY <1>1, <1>2, <1>3, <1>5
  <1> QED BY <1>1, <1>2, <1>3, <1>4, <1>5, <1>6

\* A GPT disk has the table that is being written once its entry array is; until then
\* it has the one it had, under a header that says the same.
LEMMA GptWritten ==
  ASSUME NEW d, Readable(d), GptOK(d), NEW t, GptTable(t, d[1].first, d[1].last),
         NEW n \in 0..Len(serialize(t))
  PROVE  LET w == WriteAt(d, 0, serialize(t), n) IN
         /\ Readable(w) /\ GptOK(w) /\ w[1].first = d[1].first /\ w[1].last = d[1].last
         /\ EntryExtents(w) = IF n <= 2 THEN EntryExtents(d) ELSE PrimaryExtents(t)
  <1> DEFINE secs == serialize(t)
             w == WriteAt(d, 0, secs, n)
             lo == d[1].first
             hi == d[1].last
             mbr == MbrSector([i \in 1..4 |-> IF i = 1 THEN Slot("protective", FALSE, 1, DiskSectors - 1)
                                              ELSE EmptySlot])
  <1>1. t.kind = "GPT" /\ t.first = lo /\ t.last = hi
    BY DEF GptTable, Table
  <1>2. /\ Len(secs) = 5 /\ \A i \in 1..5 : SectorOK(secs[i])
        /\ secs[1] = mbr /\ secs[2] = GptHeader(2, lo, hi)
    BY <1>1, GptSectors
  <1> HIDE DEF secs, mbr
  <1>3. n \in 0..5
    BY <1>2 DEF secs
  <1>4. n \in Nat /\ \A i \in 1..n : SectorOK(secs[i])
    BY <1>2, <1>3
  <1>5. Readable(w) /\ \A s \in Lba : w[s] = IF s >= 0 /\ s < 0 + n THEN secs[s - 0 + 1] ELSE d[s]
    <2>1. PICK z \in Nat : z = 0
      OBVIOUS
    <2>2. /\ Readable(WriteAt(d, z, secs, n))
          /\ \A s \in Lba : WriteAt(d, z, secs, n)[s]
                               = IF s >= z /\ s < z + n THEN secs[s - z + 1] ELSE d[s]
      BY <1>4, WriteIs
    <2> QED BY <2>1, <2>2
  <1> HIDE DEF w
  <1>6. /\ w[0] = IF n > 0 THEN secs[1] ELSE d[0]
        /\ w[1] = IF n > 1 THEN secs[2] ELSE d[1]
        /\ w[2] = IF n > 2 THEN secs[3] ELSE d[2]
    <2>1. w[0] = IF n > 0 THEN secs[0 - 0 + 1] ELSE d[0]
      BY <1>3, <1>5, FirstSectors
    <2>2. w[1] = IF n > 1 THEN secs[1 - 0 + 1] ELSE d[1]
      BY <1>3, <1>5, FirstSectors
    <2>3. w[2] = IF n > 2 THEN secs[2 - 0 + 1] ELSE d[2]
      BY <1>3, <1>5, FirstSectors
    <2>4. 0 - 0 + 1 = 1 /\ 1 - 0 + 1 = 2 /\ 2 - 0 + 1 = 3
      OBVIOUS
    <2> QED BY <2>1, <2>2, <2>3, <2>4
  <1>7. /\ w[1].k = "gpt" /\ w[1].entryLba = 2 /\ w[1].first = lo /\ w[1].last = hi
        /\ lo \in Nat /\ hi \in Nat /\ lo > 2 /\ hi < DiskSectors
    BY <1>2, <1>6 DEF GptHeader, GptOK
  <1>8. /\ SlotsOK(w)
        /\ \E i \in UsedSlots(w) : w[0].slots[i].type = "protective"
        /\ \A i \in UsedSlots(w) : w[0].slots[i].type # "extended"
    <2>1. CASE n > 0
      <3>1. w[0] = mbr
        BY <1>2, <1>6, <2>1
      <3> QED BY <3>1, ProtectiveWritten DEF mbr
    <2>2. CASE ~(n > 0)
      <3>1. w[0] = d[0]
        BY <1>6, <2>2
      <3>2. UsedSlots(w) = UsedSlots(d)
        BY <3>1 DEF UsedSlots
      <3> QED BY <3>1, <3>2 DEF GptOK, SlotsOK
    <2> QED BY <2>1, <2>2
  <1>9. CASE n > 2
    <2>1. w[2] = serialize(t)[3]
      BY <1>6, <1>9 DEF secs
    <2>2. GptOK(w) /\ EntryExtents(w) = PrimaryExtents(t)
      <3> HIDE DEF lo, hi
      <3>1. GptTable(t, lo, hi)
        BY DEF lo, hi
      <3> QED BY <1>7, <1>8, <2>1, <3>1, ArrayWritten
    <2> QED BY <1>3, <1>5, <1>7, <1>9, <2>2 DEF w, secs
  <1>10. CASE ~(n > 2)
    <2>1. w[2] = d[2]
      BY <1>6, <1>10
    <2>2. GptOK(w) /\ EntryExtents(w) = EntryExtents(d)
      BY <1>7, <1>8, <2>1, GptOKFrom
    <2> QED BY <1>3, <1>5, <1>7, <1>10, <2>2 DEF w, secs
  <1> QED BY <1>9, <1>10

-----------------------------------------------------------------------------
(* Changing a table                                                        *)

\* No more than one member.
Few(S) == \E x : S \subseteq {x}
\* At most one extent goes and at most one comes.
Changed(before, after) == Few(before \ after) /\ Few(after \ before)

\* What is erased is the element at that place.
LEMMA EraseAtIs ==
  ASSUME NEW S, NEW s \in Seq(S), NEW n \in 1..Len(s)
  PROVE  /\ EraseAt(s, n) \in Seq(S) /\ Len(EraseAt(s, n)) = Len(s) - 1
         /\ \A k \in 1..(Len(s) - 1) : EraseAt(s, n)[k] = s[IF k < n THEN k ELSE k + 1]
  <1> DEFINE a == SubSeq(s, 1, n - 1)
             b == SubSeq(s, n + 1, Len(s))
  <1>1. Len(s) \in Nat /\ n \in 1..Len(s)
    OBVIOUS
  <1>2. /\ a \in Seq(S) /\ Len(a) = n - 1 /\ \A k \in 1..(n - 1) : a[k] = s[k]
    <2>1. 1 \in 1..(Len(s) + 1) /\ n - 1 \in 0..Len(s)
      BY <1>1
    <2>2. a = [k \in 1..(n - 1) |-> s[k]]
      BY <1>1
    <2> QED BY <1>1, <2>2
  <1>3. /\ b \in Seq(S) /\ Len(b) = Len(s) - n /\ \A k \in 1..(Len(s) - n) : b[k] = s[n + k]
    <2>1. b = [k \in 1..(Len(s) - n) |-> s[n + k]]
      BY <1>1
    <2>2. \A k \in 1..(Len(s) - n) : s[n + k] \in S
      BY <1>1
    <2> HIDE DEF b
    <2> QED BY <1>1, <2>1, <2>2
  <1> HIDE DEF a, b
  <1>4. EraseAt(s, n) = a \o b
    BY DEF EraseAt, a, b
  <1>5. /\ a \o b \in Seq(S) /\ Len(a \o b) = Len(a) + Len(b)
        /\ \A k \in 1..(Len(a) + Len(b)) : (a \o b)[k] = IF k <= Len(a) THEN a[k] ELSE b[k - Len(a)]
    BY <1>2, <1>3, ConcatProperties
  <1>6. ASSUME NEW k \in 1..(Len(s) - 1) PROVE (a \o b)[k] = s[IF k < n THEN k ELSE k + 1]
    <2>1. CASE k < n
      <3>1. k \in 1..(n - 1) /\ k <= Len(a) /\ k \in 1..(Len(a) + Len(b))
        BY <1>1, <1>2, <1>3, <2>1
      <3> QED BY <1>2, <1>5, <2>1, <3>1
    <2>2. CASE ~(k < n)
      <3>1. /\ k - Len(a) \in 1..(Len(s) - n) /\ ~(k <= Len(a)) /\ k \in 1..(Len(a) + Len(b))
            /\ n + (k - Len(a)) = k + 1
        BY <1>1, <1>2, <1>3, <2>2
      <3> QED BY <1>3, <1>5, <2>2, <3>1
    <2> QED BY <2>1, <2>2
  <1> QED BY <1>1, <1>2, <1>3, <1>4, <1>5, <1>6

\* A table u that has entries of another one, t, numbered or flagged in its own way:
\* its n-th one is the one at g[n].  V are the primary partitions it may have left out.
SameButNumber(e, f) == e.type = f.type /\ e.logical = f.logical /\ e.start = f.start /\ e.count = f.count
PartOf(u, t, g, V) ==
  /\ u = Table("MBR", u.entries, 0, DiskSectors - 1)
  /\ u.entries \in Seq(EntrySet)
  /\ g \in [1..Len(u.entries) -> 1..Len(t.entries)]
  /\ \A n, m \in 1..Len(u.entries) : g[n] = g[m] => n = m
  /\ \A n \in 1..Len(u.entries) : SameButNumber(u.entries[n], t.entries[g[n]])
  /\ \A p \in PrimaryAt(t) : p \notin V => \E n \in 1..Len(u.entries) : g[n] = p

\* It is a table too.
LEMMA PartOfTable ==
  ASSUME NEW d, NEW t, MbrTable(t), Unprotecting(t, d), NEW u, NEW g, NEW V, PartOf(u, t, g, V)
  PROVE  /\ MbrTable(u) /\ Unprotecting(u, d)
         /\ PrimaryExtents(u) \subseteq PrimaryExtents(t)
         /\ \A x \in PrimaryExtents(t) : x \in PrimaryExtents(u) \/ \E v \in V : x = ExtentOf(t.entries[v])
  <1> DEFINE e(n) == u.entries[n]
             f(n) == t.entries[g[n]]
  <1>1. ASSUME NEW n \in 1..Len(u.entries)
        PROVE  /\ e(n).type = f(n).type /\ e(n).logical = f(n).logical
               /\ e(n).start = f(n).start /\ e(n).count = f(n).count
               /\ ExtentOf(e(n)) = ExtentOf(f(n)) /\ g[n] \in 1..Len(t.entries)
               /\ n \in PrimaryAt(u) <=> g[n] \in PrimaryAt(t)
    BY DEF ExtentOf, PrimaryAt, PartOf, SameButNumber
  <1>2. \A n \in PrimaryAt(u) : n \in 1..Len(u.entries)
    BY DEF PrimaryAt
  <1>3. IsFiniteSet(PrimaryAt(u)) /\ PrimaryCount(u) <= MBR_MAX_PRIMARY_PARTITIONS
    <2> DEFINE h == [n \in PrimaryAt(u) |-> g[n]]
    <2>1. h \in Injection(PrimaryAt(u), PrimaryAt(t))
      BY <1>1, <1>2 DEF Injection, IsInjective, PartOf
    <2>2. IsFiniteSet(PrimaryAt(t)) /\ PrimaryCount(t) <= MBR_MAX_PRIMARY_PARTITIONS
      BY DEF MbrTable
    <2> HIDE DEF h
    <2>4. IsFiniteSet(PrimaryAt(u)) /\ Cardinality(PrimaryAt(u)) <= Cardinality(PrimaryAt(t))
      BY <2>1, <2>2, FS_Injection
    <2>5. Cardinality(PrimaryAt(u)) \in Nat /\ Cardinality(PrimaryAt(t)) \in Nat
      BY <2>2, <2>4, FS_CardinalityType
    <2> QED BY <2>2, <2>4, <2>5 DEF PrimaryCount, MBR_MAX_PRIMARY_PARTITIONS
  <1>4. MbrTable(u)
    <2>1. ASSUME NEW n \in PrimaryAt(u)
          PROVE  e(n).count > 0 /\ e(n).start + e(n).count <= DiskSectors
      BY <1>1, <1>2 DEF MbrTable
    <2>2. ASSUME NEW n \in PrimaryAt(u), NEW m \in PrimaryAt(u) \ {n} PROVE ~Overlap(e(n), e(m))
      <3>a. g[n] # g[m] /\ n \in 1..Len(u.entries) /\ m \in 1..Len(u.entries)
        BY <1>2 DEF PartOf
      <3>1. g[n] \in PrimaryAt(t) /\ g[m] \in PrimaryAt(t) \ {g[n]}
        BY <1>1, <3>a
      <3>2. ~Overlap(f(n), f(m))
        BY <3>1 DEF MbrTable
      <3>3. n \in 1..Len(u.entries) /\ m \in 1..Len(u.entries)
        BY <1>2
      <3> QED BY <1>1, <3>2, <3>3 DEF Overlap
    <2> QED BY <1>3, <2>1, <2>2 DEF MbrTable, PartOf
  <1>5. Unprotecting(u, d)
    BY <1>1 DEF Unprotecting
  <1>6. ASSUME NEW n \in PrimaryAt(u) PROVE ExtentOf(e(n)) \in PrimaryExtents(t)
    BY <1>1, <1>2 DEF PrimaryExtents
  <1>7. ASSUME NEW p \in PrimaryAt(t)
        PROVE  ExtentOf(t.entries[p]) \in PrimaryExtents(u) \/ p \in V
    <2> SUFFICES ASSUME p \notin V PROVE ExtentOf(t.entries[p]) \in PrimaryExtents(u)
      OBVIOUS
    <2>1. PICK n \in 1..Len(u.entries) : g[n] = p
      BY DEF PartOf
    <2>2. n \in PrimaryAt(u) /\ ExtentOf(e(n)) = ExtentOf(t.entries[p])
      BY <1>1, <2>1
    <2> QED BY <2>2 DEF PrimaryExtents
  <1> QED BY <1>4, <1>5, <1>6, <1>7 DEF PrimaryExtents

\* What is left after deleting from an MBR table; only the entry deleted is missing
\* from its primary partitions.
LEMMA DeleteMbrIs ==
  ASSUME NEW d, NEW t, MbrTable(t), Unprotecting(t, d), NEW index, HasIndex(t, index)
  PROVE  LET u == DeleteMbr(t, index) IN
         MbrTable(u) /\ Unprotecting(u, d) /\ Changed(PrimaryExtents(t), PrimaryExtents(u))
  <1> DEFINE es == t.entries
             i == FindIndex(t, index)
             er == EraseAt(es, i)
             left == [t EXCEPT !.entries = EraseAt(@, i)]
             W == PrimaryAt(left)
             rest == IF es[i].type = "extended" /\ ~es[i].logical THEN Kept(left.entries, W) ELSE left.entries
             new == [n \in 1..Len(rest) |-> [rest[n] EXCEPT !.index = n - 1]]
             u == DeleteMbr(t, index)
  <1>1. es \in Seq(EntrySet) /\ Len(es) \in Nat /\ t = Table("MBR", es, 0, DiskSectors - 1)
    BY DEF MbrTable
  <1>2. i \in 1..Len(es)
    BY <1>1, FindIndexIs
  <1>3. left.entries = er
    BY <1>1 DEF Table
  <1>4. u = [t EXCEPT !.entries = new]
    BY DEF DeleteMbr
  <1>5. u = Table("MBR", new, 0, DiskSectors - 1) /\ u.entries = new
    <2> HIDE DEF new, u, es
    <2> QED BY <1>1, <1>4 DEF Table
  <1>6. /\ er \in Seq(EntrySet) /\ Len(er) = Len(es) - 1
        /\ \A k \in 1..(Len(es) - 1) : er[k] = es[IF k < i THEN k ELSE k + 1]
    <2> HIDE DEF i, es
    <2> QED BY <1>1, <1>2, EraseAtIs
  <1>7. W = {k \in 1..Len(er) : ~er[k].logical}
    <2> HIDE DEF left, er
    <2> QED BY <1>3 DEF PrimaryAt
  <1> HIDE DEF es, i, er, left, W
  <1>8. \E h : /\ h \in [1..Len(rest) -> 1..Len(er)]
               /\ rest = [n \in 1..Len(rest) |-> er[h[n]]] /\ Len(rest) \in Nat
               /\ \A n, m \in 1..Len(rest) : h[n] = h[m] => n = m
               /\ \A k \in 1..Len(er) : ~er[k].logical => \E n \in 1..Len(rest) : h[n] = k
    <2>1. CASE es[i].type = "extended" /\ ~es[i].logical
      <3>1. rest = Kept(er, W)
        BY <1>3, <2>1
      <3> HIDE DEF rest
      <3>2. Len(er) \in Nat /\ W \in SUBSET (1..Len(er)) /\ \A k \in W : k \in 1..Len(er)
        BY <1>6, <1>7
      <3>3. PICK h : IsKept(rest, er, W, h)
        BY <3>1, <3>2, KeptIs
      <3>4. /\ h \in Seq(W) /\ Len(rest) = Len(h) /\ Len(h) \in Nat
            /\ rest = [n \in 1..Len(h) |-> er[h[n]]]
            /\ \A n, m \in 1..Len(h) : n < m => h[n] < h[m]
            /\ \A k \in W : \E n \in 1..Len(h) : h[n] = k
        BY <3>3 DEF IsKept
      <3>5. \A n \in 1..Len(h) : h[n] \in 1..Len(er)
        <4>1. \A n \in 1..Len(h) : h[n] \in W
          BY <3>4
        <4> QED BY <3>2, <4>1
      <3>6. h \in [1..Len(rest) -> 1..Len(er)]
        BY <3>4, <3>5
      <3>7. ASSUME NEW n \in 1..Len(h), NEW m \in 1..Len(h), h[n] = h[m] PROVE n = m
        <4>1. h[n] \in Nat /\ ~(h[n] < h[m]) /\ ~(h[m] < h[n])
          BY <3>5, <3>7
        <4> QED BY <3>4, <4>1
      <3>8. ASSUME NEW k \in 1..Len(er), ~er[k].logical PROVE \E n \in 1..Len(h) : h[n] = k
        BY <1>7, <3>4, <3>8
      <3>9. /\ h \in [1..Len(rest) -> 1..Len(er)]
            /\ rest = [n \in 1..Len(rest) |-> er[h[n]]] /\ Len(rest) \in Nat
            /\ \A n, m \in 1..Len(rest) : h[n] = h[m] => n = m
            /\ \A k \in 1..Len(er) : ~er[k].logical => \E n \in 1..Len(rest) : h[n] = k
        <4>1. Len(rest) = Len(h)
          BY <3>4
        <4> QED BY <3>4, <3>6, <3>7, <3>8, <4>1
      <3> QED BY <3>9
    <2>2. CASE ~(es[i].type = "extended" /\ ~es[i].logical)
      <3>1. rest = er
        BY <1>3, <2>2
      <3> HIDE DEF rest
      <3> DEFINE h == [n \in 1..Len(er) |-> n]
      <3>2. er = [n \in 1..Len(er) |-> er[n]] /\ Len(er) \in Nat
        BY <1>6
      <3>3. /\ h \in [1..Len(rest) -> 1..Len(er)]
            /\ rest = [n \in 1..Len(rest) |-> er[h[n]]] /\ Len(rest) \in Nat
            /\ \A n, m \in 1..Len(rest) : h[n] = h[m] => n = m
            /\ \A k \in 1..Len(er) : ~er[k].logical => \E n \in 1..Len(rest) : h[n] = k
        BY <3>1, <3>2
      <3> HIDE DEF h
      <3> QED BY <3>3
    <2> QED BY <2>1, <2>2
  <1> HIDE DEF rest
  <1>9. PICK h : /\ h \in [1..Len(rest) -> 1..Len(er)]
                 /\ rest = [n \in 1..Len(rest) |-> er[h[n]]] /\ Len(rest) \in Nat
                 /\ \A n, m \in 1..Len(rest) : h[n] = h[m] => n = m
                 /\ \A k \in 1..Len(er) : ~er[k].logical => \E n \in 1..Len(rest) : h[n] = k
    BY <1>8
  <1> DEFINE g == [n \in 1..Len(rest) |-> IF h[n] < i THEN h[n] ELSE h[n] + 1]
  <1>10. ASSUME NEW n \in 1..Len(rest)
         PROVE  /\ g[n] \in 1..Len(es) /\ rest[n] = es[g[n]] /\ rest[n] \in EntrySet /\ g[n] # i
                /\ h[n] \in 1..Len(er) /\ g[n] = IF h[n] < i THEN h[n] ELSE h[n] + 1
    <2> DEFINE k == h[n]
    <2>1. k \in 1..Len(er) /\ rest[n] = er[k] /\ g[n] = IF k < i THEN k ELSE k + 1
      BY <1>9
    <2> HIDE DEF k, g
    <2>2. k \in 1..(Len(es) - 1) /\ er[k] \in EntrySet
      BY <1>6, <2>1
    <2>3. er[k] = es[IF k < i THEN k ELSE k + 1]
      BY <1>6, <2>2
    <2>4. (IF k < i THEN k ELSE k + 1) \in 1..Len(es) /\ (IF k < i THEN k ELSE k + 1) # i
      BY <1>1, <1>2, <2>2
    <2> QED BY <2>1, <2>2, <2>3, <2>4 DEF k
  <1>11. g = [n \in 1..Len(rest) |-> g[n]]
    OBVIOUS
  <1> HIDE DEF g
  <1>12. g \in [1..Len(rest) -> 1..Len(es)]
    BY <1>10, <1>11
  <1>13. Len(new) = Len(rest)
    BY <1>9
  <1>14. ASSUME NEW n \in 1..Len(rest)
         PROVE  /\ new[n] \in EntrySet /\ new[n].type = es[g[n]].type /\ new[n].logical = es[g[n]].logical
                /\ new[n].start = es[g[n]].start /\ new[n].count = es[g[n]].count
    <2>1. new[n] = [rest[n] EXCEPT !.index = n - 1] /\ n - 1 \in Nat
      BY <1>9
    <2>2. rest[n] \in EntrySet /\ rest[n] = es[g[n]]
      BY <1>10
    <2> HIDE DEF new
    <2> QED BY <2>1, <2>2 DEF EntrySet
  <1>15. new \in Seq(EntrySet)
    <2>1. new = [n \in 1..Len(rest) |-> new[n]]
      OBVIOUS
    <2> HIDE DEF new
    <2> QED BY <1>9, <1>14, <2>1
  <1>16. ASSUME NEW n \in 1..Len(rest), NEW m \in 1..Len(rest), g[n] = g[m] PROVE n = m
    <2>a. h[n] \in 1..Len(er) /\ h[m] \in 1..Len(er)
      BY <1>9
    <2>b. Len(er) \in Nat
      BY <1>6
    <2>1. h[n] \in Nat /\ h[m] \in Nat /\ i \in Nat
      BY <1>2, <2>a, <2>b
    <2>2. h[n] = h[m]
      <3> DEFINE a == h[n] b == h[m]
      <3>1. /\ a \in Nat /\ b \in Nat /\ i \in Nat
            /\ (IF a < i THEN a ELSE a + 1) = (IF b < i THEN b ELSE b + 1)
        BY <1>10, <1>16, <2>1
      <3> HIDE DEF a, b
      <3>2. a = b
        BY <3>1
      <3> QED BY <3>2 DEF a, b
    <2> QED BY <1>9, <2>2
  <1>17. ASSUME NEW p \in PrimaryAt(t), p # i PROVE \E n \in 1..Len(rest) : g[n] = p
    <2>1. p \in 1..Len(es) /\ ~es[p].logical
      BY DEF PrimaryAt, es
    <2> DEFINE k == IF p < i THEN p ELSE p - 1
    <2>2. k \in 1..(Len(es) - 1) /\ p = IF k < i THEN k ELSE k + 1
      BY <1>1, <1>2, <1>17, <2>1
    <2> HIDE DEF k
    <2>3. k \in 1..Len(er) /\ ~er[k].logical
      BY <1>6, <2>1, <2>2
    <2>4. PICK n \in 1..Len(rest) : h[n] = k
      BY <1>9, <2>3
    <2> QED BY <1>10, <2>2, <2>4
  <1> HIDE DEF new, u
  <1>18. /\ MbrTable(u) /\ Unprotecting(u, d)
         /\ PrimaryExtents(u) \subseteq PrimaryExtents(t)
         /\ \A x \in PrimaryExtents(t) : x \in PrimaryExtents(u) \/ \E v \in {i} : x = ExtentOf(t.entries[v])
    <2>1. u = Table("MBR", u.entries, 0, DiskSectors - 1) /\ u.entries \in Seq(EntrySet) /\ Len(u.entries) = Len(rest)
      BY <1>5, <1>13, <1>15
    <2>2. g \in [1..Len(u.entries) -> 1..Len(t.entries)]
      BY <1>12, <2>1 DEF es
    <2>3. \A n, m \in 1..Len(u.entries) : g[n] = g[m] => n = m
      BY <1>16, <2>1
    <2>4. \A n \in 1..Len(u.entries) : SameButNumber(u.entries[n], t.entries[g[n]])
      BY <1>5, <1>14, <2>1 DEF es, SameButNumber
    <2>5. \A p \in PrimaryAt(t) : p \notin {i} => \E n \in 1..Len(u.entries) : g[n] = p
      BY <1>17, <2>1
    <2> DEFINE V == {i}
    <2> HIDE DEF V
    <2>6. \A p \in PrimaryAt(t) : p \notin V => \E n \in 1..Len(u.entries) : g[n] = p
      BY <2>5 DEF V
    <2>8. PartOf(u, t, g, V)
      BY <2>1, <2>2, <2>3, <2>4, <2>6 DEF PartOf
    <2>7. /\ MbrTable(u) /\ Unprotecting(u, d)
          /\ PrimaryExtents(u) \subseteq PrimaryExtents(t)
          /\ \A x \in PrimaryExtents(t) : x \in PrimaryExtents(u) \/ \E v \in V : x = ExtentOf(t.entries[v])
      BY <2>8, PartOfTable
    <2> QED BY <2>7 DEF V
  <1>19. Changed(PrimaryExtents(t), PrimaryExtents(u))
    <2>1. Few(PrimaryExtents(t) \ PrimaryExtents(u))
      <3>1. PrimaryExtents(t) \ PrimaryExtents(u) \subseteq {ExtentOf(t.entries[i])}
        BY <1>18
      <3> QED BY <3>1 DEF Few
    <2>2. Few(PrimaryExtents(u) \ PrimaryExtents(t))
      <3>1. PrimaryExtents(u) \ PrimaryExtents(t) \subseteq {0}
        BY <1>18
      <3> QED BY <3>1 DEF Few
    <2> QED BY <2>1, <2>2 DEF Changed
  <1> QED BY <1>18, <1>19 DEF u

\* What a new partition is asked to be.
ParamsOK(p, d) ==
  /\ p.start \in Nat \ {0} /\ p.count \in Nat /\ p.type \in PartitionTypes
  /\ p.active \in BOOLEAN /\ p.logical \in BOOLEAN /\ p.guid \in Nat
  /\ p.type = "protective" => d[1].k # "gpt"

\* Nothing came or went.
LEMMA Unchanged == ASSUME NEW X PROVE Changed(X, X)
  <1>1. X \ X \subseteq {0}
    OBVIOUS
  <1> QED BY <1>1 DEF Changed, Few

\* An MBR table with one more partition, if it is accepted.
LEMMA AddMbrIs ==
  ASSUME NEW d, NEW t, MbrTable(t), Unprotecting(t, d), NEW p, ParamsOK(p, d), AddMbr(t, p) # NoTable
  PROVE  LET u == AddMbr(t, p) IN
         MbrTable(u) /\ Unprotecting(u, d) /\ Changed(PrimaryExtents(t), PrimaryExtents(u))
  <1> DEFINE es == t.entries
             L == Len(es)
             e == Entry(L, p.type, p.active, p.logical, 0, p.start, p.count)
             new == Append(es, e)
             u == AddMbr(t, p)
  <1>a. ~p.logical => PrimaryCount(t) < MBR_MAX_PRIMARY_PARTITIONS
    BY Zenon DEF AddMbr
  <1>1. /\ p.count > 0
        /\ ~overlapsExisting(t, p.start, p.count, -1)
        /\ p.start + p.count <= DiskSectors
        /\ u = WithEntry(t, e)
    BY DEF AddMbr
  <1>2. es \in Seq(EntrySet) /\ L \in Nat /\ t = Table("MBR", es, 0, DiskSectors - 1)
    BY DEF MbrTable
  <1>3. /\ e \in EntrySet /\ e.type = p.type /\ e.logical = p.logical /\ e.start = p.start /\ e.count = p.count
        /\ e.start \in Nat /\ e.count \in Nat /\ e.count > 0
    <2>1. ASSUME NEW i \in Nat, NEW ty \in PartitionTypes, NEW a \in BOOLEAN, NEW l \in BOOLEAN,
                 NEW s \in Nat \ {0}, NEW c \in Nat
          PROVE  Entry(i, ty, a, l, 0, s, c) \in EntrySet
      BY DEF Entry, EntrySet
    <2>2. e \in EntrySet
      BY <1>2, <2>1 DEF ParamsOK
    <2>3. e.type = p.type /\ e.logical = p.logical /\ e.start = p.start /\ e.count = p.count
      BY Zenon DEF Entry
    <2>4. p.start \in Nat /\ p.count \in Nat /\ p.count > 0
      BY <1>1 DEF ParamsOK
    <2> HIDE DEF e
    <2>5. e.start \in Nat /\ e.count \in Nat /\ e.count > 0
      BY <2>3, <2>4
    <2> QED BY <2>2, <2>3, <2>5
  <1> HIDE DEF e, es, u
  <1>4. u = Table("MBR", new, 0, DiskSectors - 1) /\ u.entries = new
    <2> HIDE DEF new
    <2>1. u = [t EXCEPT !.entries = new]
      BY <1>1 DEF WithEntry, new, es
    <2> QED BY <1>2, <2>1 DEF Table
  <1>5. /\ new \in Seq(EntrySet) /\ Len(new) = L + 1 /\ new[L + 1] = e
        /\ \A k \in 1..L : new[k] = es[k]
    BY <1>2, <1>3, AppendProperties
  <1> HIDE DEF new, L
  <1>6. PrimaryAt(t) = {k \in 1..L : ~es[k].logical} /\ PrimaryAt(u) = {k \in 1..(L + 1) : ~new[k].logical}
    BY <1>4, <1>5 DEF PrimaryAt, es, L
  <1>7. \A k \in PrimaryAt(t) : k \in PrimaryAt(u) /\ new[k] = es[k] /\ k \in 1..L
    BY <1>2, <1>5, <1>6
  <1>8. \A k \in PrimaryAt(u) : k \in PrimaryAt(t) \/ (k = L + 1 /\ ~p.logical)
    <2> SUFFICES ASSUME NEW k \in PrimaryAt(u), k # L + 1 PROVE k \in PrimaryAt(t)
      BY <1>3, <1>5, <1>6
    <2>1. k \in 1..L
      BY <1>2, <1>6
    <2> QED BY <1>5, <1>6, <2>1
  <1>9. ASSUME NEW k \in PrimaryAt(t)
        PROVE  /\ es[k] \in EntrySet /\ es[k].count > 0 /\ es[k].start + es[k].count <= DiskSectors
               /\ es[k].start \in Nat /\ es[k].count \in Nat
               /\ ~Overlap(e, es[k]) /\ ~Overlap(es[k], e)
               /\ \A j \in PrimaryAt(t) \ {k} : ~Overlap(es[k], es[j])
    <2>1. es[k] \in EntrySet /\ k \in 1..L
      BY <1>2, <1>6 DEF L
    <2>2. es[k].start \in Nat /\ es[k].count \in Nat /\ es[k].index \in Nat
      BY <2>1 DEF EntrySet
    <2>3. es[k].count > 0 /\ es[k].start + es[k].count <= DiskSectors
      BY DEF MbrTable, es
    <2>4. ~OverlapsMbr(t, p.start, p.count, -1)
      BY <1>1, <1>2 DEF overlapsExisting, Table
    <2>5. ~(es[k].index # -1 /\ es[k].count # 0 /\ p.start < es[k].start + es[k].count /\ es[k].start < p.start + p.count)
      BY <2>1, <2>4 DEF OverlapsMbr, es, L
    <2>6. es[k].index # -1
      BY <2>2
    <2> QED BY <1>3, <2>1, <2>2, <2>3, <2>5, <2>6 DEF Overlap, MbrTable, es
  <1>10. IsFiniteSet(PrimaryAt(u)) /\ PrimaryCount(u) <= MBR_MAX_PRIMARY_PARTITIONS
    <2>1. IsFiniteSet(PrimaryAt(t)) /\ PrimaryCount(t) <= 4 /\ PrimaryCount(t) \in Nat
      BY FS_CardinalityType DEF MbrTable, PrimaryCount, MBR_MAX_PRIMARY_PARTITIONS
    <2>2. CASE p.logical
      <3>1. PrimaryAt(u) = PrimaryAt(t)
        BY <1>7, <1>8, <2>2
      <3> QED BY <2>1, <3>1 DEF PrimaryCount, MBR_MAX_PRIMARY_PARTITIONS
    <2>3. CASE ~p.logical
      <3>1. PrimaryAt(u) \in SUBSET (PrimaryAt(t) \cup {L + 1})
        BY <1>8
      <3>2. /\ IsFiniteSet(PrimaryAt(t) \cup {L + 1})
            /\ Cardinality(PrimaryAt(t) \cup {L + 1}) <= Cardinality(PrimaryAt(t)) + 1
        BY <2>1, FS_AddElement DEF PrimaryCount
      <3>3. IsFiniteSet(PrimaryAt(u)) /\ Cardinality(PrimaryAt(u)) <= Cardinality(PrimaryAt(t) \cup {L + 1})
        BY <3>1, <3>2, FS_Subset
      <3>a. PrimaryCount(t) < MBR_MAX_PRIMARY_PARTITIONS
        BY Zenon, <1>a, <2>3
      <3>6. PrimaryCount(t) < 4 /\ PrimaryCount(t) \in Nat
        BY <2>1, <3>a DEF MBR_MAX_PRIMARY_PARTITIONS
      <3>4. Cardinality(PrimaryAt(t)) < 4 /\ Cardinality(PrimaryAt(t)) \in Nat
        BY <3>6 DEF PrimaryCount
      <3>5. Cardinality(PrimaryAt(u)) \in Nat /\ Cardinality(PrimaryAt(t) \cup {L + 1}) \in Nat
        BY <3>2, <3>3, FS_CardinalityType
      <3> QED BY <3>2, <3>3, <3>4, <3>5 DEF PrimaryCount, MBR_MAX_PRIMARY_PARTITIONS
    <2> QED BY <2>2, <2>3, <1>3
  <1>11. MbrTable(u)
    <2>1. ASSUME NEW k \in PrimaryAt(u)
          PROVE  /\ new[k].count > 0 /\ new[k].start + new[k].count <= DiskSectors
                 /\ \A j \in PrimaryAt(u) \ {k} : ~Overlap(new[k], new[j])
      BY <1>1, <1>3, <1>5, <1>7, <1>8, <1>9
    <2> QED BY <1>4, <1>5, <1>10, <2>1 DEF MbrTable
  <1>12. Unprotecting(u, d)
    <2> SUFFICES ASSUME NEW k \in 1..(L + 1), new[k].type = "protective" PROVE d[1].k # "gpt"
      BY <1>4, <1>5 DEF Unprotecting
    <2>1. CASE k = L + 1
      BY <1>3, <1>5, <2>1 DEF ParamsOK
    <2>2. CASE k # L + 1
      <3>1. k \in 1..L
        BY <1>2, <2>2
      <3> QED BY <1>5, <3>1 DEF Unprotecting, es, L
    <2> QED BY <2>1, <2>2
  <1>13. Changed(PrimaryExtents(t), PrimaryExtents(u))
    <2>1. \A x \in PrimaryExtents(t) : x \in PrimaryExtents(u)
      BY <1>4, <1>7 DEF PrimaryExtents, es
    <2>2. \A x \in PrimaryExtents(u) : x \in PrimaryExtents(t) \/ x = ExtentOf(e)
      BY <1>4, <1>5, <1>7, <1>8 DEF PrimaryExtents, es
    <2>3. PrimaryExtents(t) \ PrimaryExtents(u) \subseteq {0} /\ PrimaryExtents(u) \ PrimaryExtents(t) \subseteq {ExtentOf(e)}
      BY <2>1, <2>2
    <2> QED BY <2>3 DEF Changed, Few
  <1> QED BY <1>11, <1>12, <1>13 DEF u

\* The active flag moves between the same partitions.
LEMMA ActiveIs ==
  ASSUME NEW d, NEW t, MbrTable(t), Unprotecting(t, d), NEW index, setActivePartition(t, index) # NoTable
  PROVE  LET u == setActivePartition(t, index) IN
         MbrTable(u) /\ Unprotecting(u, d) /\ PrimaryExtents(u) = PrimaryExtents(t)
  <1> DEFINE es == t.entries
             new == [i \in 1..Len(es) |-> Flagged(es[i], index)]
             u == setActivePartition(t, index)
             g == [i \in 1..Len(es) |-> i]
  <1>1. es \in Seq(EntrySet) /\ Len(es) \in Nat /\ t = Table("MBR", es, 0, DiskSectors - 1)
    BY DEF MbrTable
  <1>2. u = [t EXCEPT !.entries = new]
    <2>1. u = [t EXCEPT !.entries = [i \in 1..Len(@) |-> Flagged(@[i], index)]]
      BY DEF setActivePartition
    <2> QED BY <1>1, <2>1 DEF Table
  <1>3. Len(new) = Len(es)
    BY <1>1
  <1>4. ASSUME NEW i \in 1..Len(es)
        PROVE  new[i] \in EntrySet /\ SameButNumber(new[i], es[i])
    <2>1. es[i] \in EntrySet /\ new[i] = Flagged(es[i], index)
      BY <1>1
    <2> HIDE DEF new
    <2> QED BY <2>1 DEF EntrySet, Flagged, SameButNumber
  <1>5. new \in Seq(EntrySet)
    <2>1. new = [i \in 1..Len(es) |-> new[i]]
      OBVIOUS
    <2> HIDE DEF new, es
    <2> QED BY <1>1, <1>4, <2>1
  <1>6. g \in [1..Len(es) -> 1..Len(es)] /\ \A i \in 1..Len(es) : g[i] = i
    OBVIOUS
  <1> HIDE DEF new, es, u, g
  <1>7. u = Table("MBR", new, 0, DiskSectors - 1) /\ u.entries = new
    BY <1>1, <1>2 DEF Table
  <1>8. PartOf(u, t, g, {})
    <2>1. \A p \in PrimaryAt(t) : p \in 1..Len(es)
      BY DEF PrimaryAt, es
    <2> QED BY <1>1, <1>3, <1>4, <1>5, <1>6, <1>7, <2>1 DEF PartOf, es
  <1> QED BY <1>8, PartOfTable DEF u

\* An MBR table with a partition moved or resized, if it is accepted.
LEMMA ResizeMbrIs ==
  ASSUME NEW d, NEW t, MbrTable(t), Unprotecting(t, d), IndicesApart(t), NEW index,
         NEW start \in Nat \ {0}, NEW count \in Nat, resizePartition(t, index, start, count) # NoTable
  PROVE  LET u == resizePartition(t, index, start, count) IN
         MbrTable(u) /\ Unprotecting(u, d) /\ Changed(PrimaryExtents(t), PrimaryExtents(u))
  <1> DEFINE es == t.entries
             x == FindIndex(t, index)
             e == [es[x] EXCEPT !.start = start, !.count = count]
             new == [es EXCEPT ![x] = e]
             u == resizePartition(t, index, start, count)
  <1>1. es \in Seq(EntrySet) /\ Len(es) \in Nat /\ t = Table("MBR", es, 0, DiskSectors - 1)
    BY DEF MbrTable
  <1>2. HasIndex(t, index) /\ count > 0 /\ start + count <= DiskSectors /\ ~OverlapsMbr(t, start, count, index)
    BY <1>1 DEF resizePartition, ResizeMbr, overlapsExisting, Table
  <1>3. x \in 1..Len(es) /\ es[x].index = index
    BY <1>1, <1>2, FindIndexIs
  <1>4. u = [t EXCEPT !.entries = new]
    <2>1. u = [t EXCEPT !.entries[x] = [@ EXCEPT !.start = start, !.count = count]]
      BY DEF resizePartition
    <2> HIDE DEF x, u
    <2> QED BY <1>1, <2>1 DEF Table
  <1>5. /\ e \in EntrySet /\ e.type = es[x].type /\ e.logical = es[x].logical /\ e.start = start /\ e.count = count
    <2>1. es[x] \in EntrySet
      BY <1>1, <1>3
    <2> HIDE DEF x, es
    <2> QED BY <2>1 DEF EntrySet
  <1> HIDE DEF es, x, e, u
  <1>6. new \in Seq(EntrySet) /\ Len(new) = Len(es) /\ \A k \in 1..Len(es) : new[k] = IF k = x THEN e ELSE es[k]
    BY <1>1, <1>3, <1>5
  <1> HIDE DEF new
  <1>7. u = Table("MBR", new, 0, DiskSectors - 1) /\ u.entries = new
    BY <1>1, <1>4 DEF Table
  <1>8. /\ PrimaryAt(t) = {k \in 1..Len(es) : ~es[k].logical}
        /\ PrimaryAt(u) = {k \in 1..Len(es) : ~new[k].logical}
        /\ PrimaryAt(u) = PrimaryAt(t)
        /\ \A k \in PrimaryAt(t) : k \in 1..Len(es)
    BY <1>5, <1>6, <1>7 DEF PrimaryAt, es
  <1>9. ASSUME NEW k \in PrimaryAt(t)
        PROVE  /\ es[k].count > 0 /\ es[k].start + es[k].count <= DiskSectors
               /\ es[k].start \in Nat /\ es[k].count \in Nat
               /\ \A j \in PrimaryAt(t) \ {k} : ~Overlap(es[k], es[j])
    <2>1. es[k] \in EntrySet
      BY <1>1, <1>8
    <2> QED BY <2>1 DEF MbrTable, es, EntrySet
  <1>10. ASSUME NEW k \in PrimaryAt(t), k # x, x \in PrimaryAt(t)
         PROVE  ~Overlap(e, es[k]) /\ ~Overlap(es[k], e)
    <2>1. es[k].index # index
      BY <1>3, <1>10 DEF IndicesApart, es
    <2>2. ~(es[k].index # index /\ es[k].count # 0 /\ start < es[k].start + es[k].count /\ es[k].start < start + count)
      BY <1>2, <1>8 DEF OverlapsMbr, es
    <2> QED BY <1>5, <1>9, <2>1, <2>2 DEF Overlap
  <1>11. MbrTable(u)
    <2>1. ASSUME NEW k \in PrimaryAt(u)
          PROVE  /\ new[k].count > 0 /\ new[k].start + new[k].count <= DiskSectors
                 /\ \A j \in PrimaryAt(u) \ {k} : ~Overlap(new[k], new[j])
      <3>1. k \in PrimaryAt(t) /\ new[k] = IF k = x THEN e ELSE es[k]
        BY <1>6, <1>8
      <3>2. \A j \in PrimaryAt(u) : j \in PrimaryAt(t) /\ new[j] = IF j = x THEN e ELSE es[j]
        BY <1>6, <1>8
      <3> QED BY <1>2, <1>5, <1>9, <1>10, <3>1, <3>2
    <2>2. IsFiniteSet(PrimaryAt(u)) /\ PrimaryCount(u) <= MBR_MAX_PRIMARY_PARTITIONS
      BY <1>8 DEF MbrTable, PrimaryCount
    <2> QED BY <1>6, <1>7, <2>1, <2>2 DEF MbrTable
  <1>12. Unprotecting(u, d)
    BY <1>3, <1>5, <1>6, <1>7 DEF Unprotecting, es
  <1>13. Changed(PrimaryExtents(t), PrimaryExtents(u))
    <2>1. ASSUME NEW k \in PrimaryAt(t)
          PROVE  /\ ExtentOf(es[k]) \in PrimaryExtents(u) \/ k = x
                 /\ ExtentOf(new[k]) \in PrimaryExtents(t) \/ k = x
      BY <1>6, <1>7, <1>8 DEF PrimaryExtents, es
    <2>2. PrimaryExtents(t) \ PrimaryExtents(u) \subseteq {ExtentOf(es[x])}
      BY <2>1 DEF PrimaryExtents, es
    <2>3. PrimaryExtents(u) \ PrimaryExtents(t) \subseteq {ExtentOf(new[x])}
      BY <1>7, <1>8, <2>1 DEF PrimaryExtents
    <2> QED BY <2>2, <2>3 DEF Changed, Few
  <1> QED BY <1>11, <1>12, <1>13 DEF u

\* Every partition of a GPT table is a primary one.
LEMMA GptExtents ==
  ASSUME NEW lo, NEW hi, NEW t, GptTable(t, lo, hi)
  PROVE  PrimaryExtents(t) = {ExtentOf(t.entries[i]) : i \in 1..Len(t.entries)}
  <1>1. PrimaryAt(t) = 1..Len(t.entries)
    BY DEF PrimaryAt, GptTable, InGpt
  <1> QED BY <1>1 DEF PrimaryExtents

\* A table of a GPT, from its parts.
LEMMA GptTableFrom ==
  ASSUME NEW lo, NEW hi, NEW u, NEW es \in Seq(EntrySet), u = Table("GPT", es, lo, hi),
         \A k \in 1..Len(es) : InGpt(es[k], lo, hi),
         \A k, j \in 1..Len(es) : k # j => AwayFrom(es[k], es[j])
  PROVE  GptTable(u, lo, hi)
  <1>1. u.entries = es
    BY DEF Table
  <1> QED BY <1>1 DEF GptTable

\* What is left after deleting from a GPT table.
LEMMA DeleteGptIs ==
  ASSUME NEW lo, NEW hi, NEW t, GptTable(t, lo, hi), NEW index, HasIndex(t, index)
  PROVE  LET u == DeleteGpt(t, index) IN
         GptTable(u, lo, hi) /\ Changed(PrimaryExtents(t), PrimaryExtents(u))
  <1> DEFINE es == t.entries
             i == FindIndex(t, index)
             new == EraseAt(es, i)
             u == DeleteGpt(t, index)
             g(k) == IF k < i THEN k ELSE k + 1
  <1>1. /\ es \in Seq(EntrySet) /\ Len(es) \in Nat /\ t = Table("GPT", es, lo, hi)
        /\ \A k \in 1..Len(es) : InGpt(es[k], lo, hi)
        /\ \A k, j \in 1..Len(es) : k # j => AwayFrom(es[k], es[j])
    BY DEF GptTable
  <1>2. i \in 1..Len(es)
    BY <1>1, FindIndexIs
  <1>3. u = [t EXCEPT !.entries = new]
    BY DEF DeleteGpt
  <1> HIDE DEF es, i, u
  <1>4. /\ new \in Seq(EntrySet) /\ Len(new) = Len(es) - 1
        /\ \A k \in 1..(Len(es) - 1) : new[k] = es[g(k)]
    BY <1>1, <1>2, EraseAtIs
  <1> HIDE DEF new
  <1>5. u = Table("GPT", new, lo, hi) /\ u.entries = new
    BY <1>1, <1>3 DEF Table
  <1>6. ASSUME NEW k \in 1..Len(new) PROVE new[k] = es[g(k)] /\ g(k) \in 1..Len(es)
    BY <1>1, <1>2, <1>4
  <1>7. ASSUME NEW k \in 1..Len(new), NEW m \in 1..Len(new), k # m PROVE g(k) # g(m)
    <2>1. k \in Int /\ m \in Int /\ i \in Int
      BY <1>2, <1>4
    <2> QED BY <1>7, <2>1
  <1>8. ASSUME NEW p \in 1..Len(es), p # i PROVE \E k \in 1..Len(new) : g(k) = p
    <2> DEFINE k == IF p < i THEN p ELSE p - 1
    <2>1. k \in 1..Len(new) /\ g(k) = p
      BY <1>1, <1>2, <1>4, <1>8
    <2> QED BY <2>1
  <1> HIDE DEF g
  <1>9. GptTable(u, lo, hi)
    <2>1. \A k \in 1..Len(new) : InGpt(new[k], lo, hi)
      BY <1>1, <1>6
    <2>2. \A k, j \in 1..Len(new) : k # j => AwayFrom(new[k], new[j])
      BY <1>1, <1>6, <1>7
    <2> QED BY <1>4, <1>5, <2>1, <2>2, GptTableFrom
  <1>10. Changed(PrimaryExtents(t), PrimaryExtents(u))
    <2>1. PrimaryExtents(t) = {ExtentOf(es[p]) : p \in 1..Len(es)}
      BY GptExtents DEF es
    <2>2. PrimaryExtents(u) = {ExtentOf(new[k]) : k \in 1..Len(new)}
      BY <1>5, <1>9, GptExtents
    <2>3. PrimaryExtents(u) \ PrimaryExtents(t) \subseteq {0}
      BY <1>6, <2>1, <2>2
    <2>4. PrimaryExtents(t) \ PrimaryExtents(u) \subseteq {ExtentOf(es[i])}
      BY <1>6, <1>8, <2>1, <2>2
    <2> QED BY <2>3, <2>4 DEF Changed, Few
  <1> QED BY <1>9, <1>10 DEF u

\* A GPT table with one more partition, if it is accepted.
LEMMA AddGptIs ==
  ASSUME NEW d, NEW lo \in Nat, NEW hi \in Nat, NEW t, GptTable(t, lo, hi), NEW p, ParamsOK(p, d),
         AddGpt(t, p) # NoTable
  PROVE  LET u == AddGpt(t, p) IN
         GptTable(u, lo, hi) /\ Changed(PrimaryExtents(t), PrimaryExtents(u))
  <1> DEFINE es == t.entries
             L == Len(es)
             i == FirstFree(t)
             e == Entry(i, "basic", FALSE, FALSE, p.guid, p.start, p.count)
             new == Append(es, e)
             u == AddGpt(t, p)
  <1>1. /\ es \in Seq(EntrySet) /\ L \in Nat /\ t = Table("GPT", es, lo, hi)
        /\ \A k \in 1..L : InGpt(es[k], lo, hi)
        /\ \A k, j \in 1..L : k # j => AwayFrom(es[k], es[j])
    BY DEF GptTable
  <1>a. t.kind = "GPT" /\ t.first = lo /\ t.last = hi
    BY <1>1 DEF Table
  <1>2. /\ p.count > 0 /\ p.start >= lo /\ p.start + p.count - 1 <= hi
        /\ ~OverlapsGpt(t, p.start, p.start + p.count - 1, -1)
        /\ FreeSlots(t) # {}
        /\ u = WithEntry(t, e)
    <2> HIDE DEF i
    <2>1. /\ p.count > 0 /\ p.start >= t.first /\ p.start + p.count - 1 <= t.last
          /\ ~overlapsExisting(t, p.start, p.count, -1) /\ FreeSlots(t) # {} /\ u = WithEntry(t, e)
      BY DEF AddGpt, i
    <2> HIDE DEF u, e
    <2> QED BY <1>a, <2>1 DEF overlapsExisting
  <1>3. i \in 0..(GptSlots - 1) /\ ~HasIndex(t, i)
    <2>1. FreeSlots(t) \in SUBSET Nat
      BY FirstSectors DEF FreeSlots
    <2>2. \E n \in FreeSlots(t) : \A j \in FreeSlots(t) : n <= j
      BY <1>2, <2>1, Least
    <2>3. i \in FreeSlots(t)
      BY <2>2 DEF FirstFree
    <2> QED BY <2>3 DEF FreeSlots
  <1> HIDE DEF i
  <1>4. /\ e \in EntrySet /\ e.type = "basic" /\ e.logical = FALSE /\ e.index = i
        /\ e.start = p.start /\ e.count = p.count /\ e.start \in Nat /\ e.count \in Nat
    <2>1. p.start \in Nat \ {0} /\ p.count \in Nat /\ p.guid \in Nat /\ i \in Nat
      BY <1>3, FirstSectors DEF ParamsOK
    <2> QED BY <2>1 DEF Entry, EntrySet, PartitionTypes
  <1> HIDE DEF e, es, u
  <1>5. u = Table("GPT", new, lo, hi) /\ u.entries = new
    <2> HIDE DEF new
    <2>1. u = [t EXCEPT !.entries = new]
      BY <1>2 DEF WithEntry, new, es
    <2> QED BY <1>1, <2>1 DEF Table
  <1>6. /\ new \in Seq(EntrySet) /\ Len(new) = L + 1 /\ new[L + 1] = e
        /\ \A k \in 1..L : new[k] = es[k]
    BY <1>1, <1>4, AppendProperties
  <1> HIDE DEF new, L
  <1>b. InGpt(e, lo, hi)
    BY <1>2, <1>3, <1>4 DEF InGpt
  <1>7. ASSUME NEW k \in 1..L
        PROVE  AwayFrom(e, es[k]) /\ AwayFrom(es[k], e)
    <2>0. k \in 1..Len(t.entries)
      BY DEF L, es
    <2>1. /\ es[k].index \in Nat /\ es[k].start \in Nat /\ es[k].count \in Nat /\ es[k].count > 0
      BY <1>1 DEF InGpt, EntrySet
    <2>2. ~(es[k].index # -1 /\ p.start <= es[k].start + es[k].count - 1 /\ es[k].start <= p.start + p.count - 1)
      BY <1>2, <2>0 DEF OverlapsGpt, es
    <2>3. ~Overlap(e, es[k]) /\ ~Overlap(es[k], e)
      BY <1>2, <1>4, <2>1, <2>2 DEF Overlap
    <2>4. es[k].index # i
      BY <1>3, <2>0 DEF HasIndex, es
    <2> QED BY <1>4, <2>3, <2>4 DEF AwayFrom
  <1>8. \A k \in 1..(L + 1) : k = L + 1 \/ k \in 1..L
    BY <1>1 DEF L
  <1>9. GptTable(u, lo, hi)
    <2>1. \A k \in 1..(L + 1) : InGpt(new[k], lo, hi)
      BY <1>1, <1>6, <1>8, <1>b DEF L
    <2>2. \A k, j \in 1..(L + 1) : k # j => AwayFrom(new[k], new[j])
      BY <1>1, <1>6, <1>7, <1>8 DEF L
    <2>3. \A k \in 1..Len(new) : InGpt(new[k], lo, hi)
      BY <1>6, <2>1
    <2>4. \A k, j \in 1..Len(new) : k # j => AwayFrom(new[k], new[j])
      BY <1>6, <2>2
    <2> QED BY <1>5, <1>6, <2>3, <2>4, GptTableFrom
  <1>10. Changed(PrimaryExtents(t), PrimaryExtents(u))
    <2>1. PrimaryExtents(t) = {ExtentOf(es[k]) : k \in 1..L}
      BY GptExtents DEF es, L
    <2>2. PrimaryExtents(u) = {ExtentOf(new[k]) : k \in 1..(L + 1)}
      BY <1>5, <1>6, <1>9, GptExtents
    <2>3. \A k \in 1..L : k \in 1..(L + 1)
      BY <1>1 DEF L
    <2>4. PrimaryExtents(t) \ PrimaryExtents(u) \subseteq {0}
      BY <1>6, <2>1, <2>2, <2>3
    <2>5. PrimaryExtents(u) \ PrimaryExtents(t) \subseteq {ExtentOf(e)}
      BY <1>6, <1>8, <2>1, <2>2
    <2> QED BY <2>4, <2>5 DEF Changed, Few
  <1> QED BY <1>9, <1>10 DEF u

\* A GPT table with a partition moved or resized, if it is accepted.
LEMMA ResizeGptIs ==
  ASSUME NEW lo \in Nat, NEW hi \in Nat, NEW t, GptTable(t, lo, hi), NEW index,
         NEW start \in Nat \ {0}, NEW count \in Nat, resizePartition(t, index, start, count) # NoTable
  PROVE  LET u == resizePartition(t, index, start, count) IN
         GptTable(u, lo, hi) /\ Changed(PrimaryExtents(t), PrimaryExtents(u))
  <1> DEFINE es == t.entries
             x == FindIndex(t, index)
             e == [es[x] EXCEPT !.start = start, !.count = count]
             new == [es EXCEPT ![x] = e]
             u == resizePartition(t, index, start, count)
  <1>1. /\ es \in Seq(EntrySet) /\ Len(es) \in Nat /\ t = Table("GPT", es, lo, hi)
        /\ \A k \in 1..Len(es) : InGpt(es[k], lo, hi)
        /\ \A k, j \in 1..Len(es) : k # j => AwayFrom(es[k], es[j])
    BY DEF GptTable
  <1>a. t.kind = "GPT" /\ t.first = lo /\ t.last = hi
    BY <1>1 DEF Table
  <1>2. /\ HasIndex(t, index) /\ count > 0 /\ start >= lo /\ start + count - 1 <= hi
        /\ ~OverlapsGpt(t, start, start + count - 1, index)
    BY <1>a DEF resizePartition, ResizeGpt, overlapsExisting
  <1>3. x \in 1..Len(es) /\ es[x].index = index
    BY <1>1, <1>2, FindIndexIs
  <1>4. u = [t EXCEPT !.entries = new]
    <2>1. u = [t EXCEPT !.entries[x] = [@ EXCEPT !.start = start, !.count = count]]
      BY DEF resizePartition
    <2> HIDE DEF x, u
    <2> QED BY <1>1, <2>1 DEF Table
  <1>5. /\ e \in EntrySet /\ e.type = "basic" /\ e.logical = FALSE /\ e.index = index
        /\ e.index \in 0..(GptSlots - 1) /\ e.start = start /\ e.count = count
    <2> HIDE DEF x, es
    <2>1. /\ es[x] \in EntrySet /\ es[x].type = "basic" /\ es[x].logical = FALSE
          /\ es[x].index \in 0..(GptSlots - 1)
      BY <1>1, <1>3 DEF InGpt
    <2> QED BY <1>3, <2>1 DEF EntrySet
  <1> HIDE DEF es, x, e, u
  <1>6. new \in Seq(EntrySet) /\ Len(new) = Len(es) /\ \A k \in 1..Len(es) : new[k] = IF k = x THEN e ELSE es[k]
    BY <1>1, <1>3, <1>5
  <1> HIDE DEF new
  <1>7. u = Table("GPT", new, lo, hi) /\ u.entries = new
    BY <1>1, <1>4 DEF Table
  <1>8. InGpt(e, lo, hi)
    BY <1>2, <1>5 DEF InGpt
  <1>9. ASSUME NEW k \in 1..Len(es), k # x
        PROVE  AwayFrom(e, es[k]) /\ AwayFrom(es[k], e)
    <2>1. es[k].index # index
      BY <1>1, <1>3, <1>9 DEF AwayFrom
    <2>2. ~(es[k].index # index /\ start <= es[k].start + es[k].count - 1 /\ es[k].start <= start + count - 1)
      BY <1>2 DEF OverlapsGpt, es
    <2>3. es[k].start \in Nat /\ es[k].count \in Nat /\ es[k].count > 0
      BY <1>1 DEF InGpt, EntrySet
    <2>4. e.start = start /\ e.count = count /\ e.index = index
      BY <1>5
    <2>5. ~(start < es[k].start + es[k].count /\ es[k].start < start + count)
      BY <2>1, <2>2, <2>3
    <2> QED BY <2>1, <2>4, <2>5 DEF Overlap, AwayFrom
  <1>10. GptTable(u, lo, hi)
    <2>1. \A k \in 1..Len(new) : InGpt(new[k], lo, hi)
      BY <1>1, <1>6, <1>8
    <2>2. \A k, j \in 1..Len(new) : k # j => AwayFrom(new[k], new[j])
      BY <1>1, <1>6, <1>9
    <2> QED BY <1>6, <1>7, <2>1, <2>2, GptTableFrom
  <1>11. Changed(PrimaryExtents(t), PrimaryExtents(u))
    <2>1. PrimaryExtents(t) = {ExtentOf(es[k]) : k \in 1..Len(es)}
      BY GptExtents DEF es
    <2>2. PrimaryExtents(u) = {ExtentOf(new[k]) : k \in 1..Len(es)}
      BY <1>6, <1>7, <1>10, GptExtents
    <2>3. \A k \in 1..Len(es) : k = x \/ new[k] = es[k]
      BY <1>6
    <2>4. PrimaryExtents(t) \ PrimaryExtents(u) \subseteq {ExtentOf(es[x])}
      BY <2>1, <2>2, <2>3
    <2>5. PrimaryExtents(u) \ PrimaryExtents(t) \subseteq {ExtentOf(new[x])}
      BY <2>1, <2>2, <2>3
    <2> QED BY <2>4, <2>5 DEF Changed, Few
  <1> QED BY <1>10, <1>11 DEF u

-----------------------------------------------------------------------------
(* Changing a disk                                                         *)

\* The extents of the partitions that a disk's table lists.
DiskExtents(d) == IF MbrOK(d) THEN SlotExtents(d) ELSE IF GptOK(d) THEN EntryExtents(d) ELSE {}

\* w is still a disk of the kind that d is, with the same usable sectors.
Keeps(d, w) ==
  /\ Readable(w)
  /\ w[1].k = "gpt" => d[1].k = "gpt"
  /\ MbrOK(d) => MbrOK(w)
  /\ GptOK(d) => GptOK(w) /\ w[1].first = d[1].first /\ w[1].last = d[1].last
  /\ d[0] = DriverDescriptor => w[0] = DriverDescriptor

\* A table that can be written to the disk.
GoodFor(t, d) ==
  \/ MbrOK(d) /\ MbrTable(t) /\ Unprotecting(t, d)
  \/ GptOK(d) /\ GptTable(t, d[1].first, d[1].last)

\* A disk is of one kind.
LEMMA Kinds ==
  ASSUME NEW d
  PROVE  /\ MbrOK(d) => ~GptOK(d) /\ d[0] # DriverDescriptor
         /\ GptOK(d) => d[0] # DriverDescriptor
  <1>1. SlotsOK(d) => d[0] # DriverDescriptor
    BY DEF SlotsOK, DriverDescriptor
  <1>2. ASSUME MbrOK(d), GptOK(d) PROVE FALSE
    <2>1. PICK i \in UsedSlots(d) : d[0].slots[i].type = "protective"
      BY <1>2 DEF GptOK
    <2> QED BY <1>2, <2>1 DEF MbrOK, GptOK
  <1> QED BY <1>1, <1>2 DEF MbrOK, GptOK

\* Disks are kept as good as they are.
LEMMA KeepsOK == ASSUME NEW d, NEW w, DiskOK(d), Keeps(d, w) PROVE DiskOK(w) /\ Readable(w)
  BY DEF DiskOK, Keeps, Readable

\* By nothing, for one.
LEMMA KeepsSelf == ASSUME NEW d, DiskOK(d) PROVE Keeps(d, d) /\ Readable(d)
  BY DEF DiskOK, Keeps, Readable

\* By one change after another.
LEMMA KeepsTrans == ASSUME NEW d, NEW w, NEW v, Keeps(d, w), Keeps(w, v) PROVE Keeps(d, v)
  BY DEF Keeps

\* What can be written to a disk can be written to it after a change.
LEMMA KeepsGood == ASSUME NEW d, NEW w, NEW t, Keeps(d, w), GoodFor(t, d) PROVE GoodFor(t, w)
  BY DEF Keeps, GoodFor, Unprotecting

\* Writing a table changes the extents to its own, or not at all.
LEMMA TableWritten ==
  ASSUME NEW d, DiskOK(d), NEW t, GoodFor(t, d), NEW n \in 0..Len(serialize(t))
  PROVE  LET w == WriteAt(d, 0, serialize(t), n) IN
         Keeps(d, w) /\ (DiskExtents(w) = DiskExtents(d) \/ DiskExtents(w) = PrimaryExtents(t))
  <1> DEFINE w == WriteAt(d, 0, serialize(t), n)
  <1>1. Readable(d)
    BY KeepsSelf
  <1>2. CASE MbrOK(d)
    <2>1. MbrTable(t) /\ Unprotecting(t, d) /\ ~GptOK(d) /\ d[0] # DriverDescriptor
      BY <1>2, Kinds DEF GoodFor
    <2>2. /\ Readable(w) /\ MbrOK(w)
          /\ w[1].k = "gpt" => d[1].k = "gpt"
          /\ SlotExtents(w) = SlotExtents(d) \/ SlotExtents(w) = PrimaryExtents(t)
      BY <1>1, <1>2, <2>1, MbrWritten
    <2> HIDE DEF w
    <2>3. Keeps(d, w)
      BY <1>2, <2>1, <2>2 DEF Keeps
    <2>4. DiskExtents(w) = DiskExtents(d) \/ DiskExtents(w) = PrimaryExtents(t)
      BY <1>2, <2>2 DEF DiskExtents
    <2> QED BY <2>3, <2>4 DEF w
  <1>3. CASE GptOK(d)
    <2>1. GptTable(t, d[1].first, d[1].last) /\ ~MbrOK(d) /\ d[0] # DriverDescriptor
      BY <1>3, Kinds DEF GoodFor
    <2>2. /\ Readable(w) /\ GptOK(w) /\ w[1].first = d[1].first /\ w[1].last = d[1].last
          /\ EntryExtents(w) = EntryExtents(d) \/ EntryExtents(w) = PrimaryExtents(t)
      BY <1>1, <1>3, <2>1, GptWritten
    <2> HIDE DEF w
    <2>3. ~MbrOK(w) /\ d[1].k = "gpt"
      BY <1>3, <2>2, Kinds DEF GptOK
    <2>4. Keeps(d, w)
      BY <1>3, <2>1, <2>2, <2>3 DEF Keeps
    <2>5. DiskExtents(w) = DiskExtents(d) \/ DiskExtents(w) = PrimaryExtents(t)
      BY <1>3, <2>1, <2>2, <2>3 DEF DiskExtents
    <2> QED BY <2>4, <2>5 DEF w
  <1> QED BY <1>2, <1>3 DEF GoodFor

\* A write that leaves the table's sectors alone changes no extent.
LEMMA Elsewhere ==
  ASSUME NEW d, DiskOK(d), NEW w, Readable(w), w[0] = d[0], w[1].k = "gpt" => d[1].k = "gpt",
         GptOK(d) => w[1] = d[1] /\ w[2] = d[2]
  PROVE  Keeps(d, w) /\ DiskExtents(w) = DiskExtents(d)
  <1>1. UsedSlots(w) = UsedSlots(d) /\ (SlotsOK(w) <=> SlotsOK(d)) /\ SlotExtents(w) = SlotExtents(d)
    BY DEF UsedSlots, SlotsOK, SlotExtents
  <1>2. MbrOK(d) => MbrOK(w)
    BY <1>1 DEF MbrOK
  <1>3. GptOK(d) => GptOK(w) /\ EntryExtents(w) = EntryExtents(d)
    <2> SUFFICES ASSUME GptOK(d) PROVE GptOK(w) /\ EntryExtents(w) = EntryExtents(d)
      OBVIOUS
    <2>1. UsedEntries(w) = UsedEntries(d)
      BY DEF UsedEntries
    <2> QED BY <1>1, <2>1 DEF GptOK, EntryExtents
  <1>4. MbrOK(d) \/ GptOK(d) \/ d[0] = DriverDescriptor
    BY DEF DiskOK
  <1>5. DiskExtents(w) = DiskExtents(d)
    BY <1>1, <1>2, <1>3, <1>4, Kinds DEF DiskExtents
  <1> QED BY <1>2, <1>3, <1>5 DEF Keeps

\* A bounded set of naturals that is not empty has a greatest member.
LEMMA Greatest ==
  ASSUME NEW b \in Nat, NEW S \in SUBSET (0..b), S # {}
  PROVE  \E m \in S : \A n \in S : n <= m
  <1> DEFINE R == {b - n : n \in S}
  <1>1. R \in SUBSET Nat /\ R # {}
    <2>1. \A n \in S : b - n \in Nat
      OBVIOUS
    <2> QED BY <2>1
  <1>2. PICK r \in R : \A q \in R : r <= q
    <2> HIDE DEF R
    <2> QED BY <1>1, Least
  <1>3. PICK m \in S : r = b - m
    BY <1>2
  <1>4. ASSUME NEW n \in S PROVE n <= m
    <2>1. b - n \in R
      OBVIOUS
    <2>2. b - m <= b - n
      BY <1>2, <1>3, <2>1
    <2> QED BY <2>2
  <1> QED BY <1>4

\* The partitions of an Apple partition map are not at sector 0.
LEMMA ParseApmIs ==
  ASSUME NEW d, Readable(d), d[1].k = "apm"
  PROVE  /\ ParseApm(d).kind = "APM" /\ Len(ParseApm(d).entries) \in Nat
         /\ \A i \in 1..Len(ParseApm(d).entries) :
              ParseApm(d).entries[i].start \in Nat \ {0} /\ ParseApm(d).entries[i].count \in Nat
  <1> DEFINE claimed == IF d[1].map > ApmLimit THEN ApmLimit ELSE d[1].map
             run == {n \in 0..claimed : n < DiskSectors /\ \A i \in 1..n : d[i].k = "apm"}
             found == CHOOSE n \in run : \A o \in run : o <= n
             es == [i \in 1..found |-> Entry(i - 1, "basic", FALSE, FALSE, 0, d[i].start, d[i].count)]
  <1>1. ParseApm(d) = Table("APM", es, 0, DiskSectors - 1)
    BY DEF ParseApm
  <1>2. claimed \in Nat
    <2>1. d[1].map \in Nat
      BY FirstSectors DEF Readable, SectorOK
    <2> QED BY <2>1 DEF ApmLimit
  <1> HIDE DEF claimed
  <1>3. 0 \in run /\ run \in SUBSET (0..claimed)
    BY <1>2, FirstSectors
  <1>4. \E n \in run : \A o \in run : o <= n
    <2> HIDE DEF run
    <2> QED BY <1>2, <1>3, Greatest
  <1>5. found \in run
    <2> HIDE DEF run
    <2> QED BY <1>4
  <1>6. found \in Nat /\ found < DiskSectors /\ \A i \in 1..found : d[i].k = "apm"
    <2> HIDE DEF found
    <2> QED BY <1>2, <1>5
  <1> HIDE DEF found
  <1>7. ASSUME NEW i \in 1..found PROVE d[i].start \in Nat \ {0} /\ d[i].count \in Nat
    <2>1. i \in Lba
      BY <1>6, FirstSectors
    <2> QED BY <1>6, <2>1 DEF Readable, SectorOK
  <1>8. Len(es) = found /\ \A i \in 1..found : es[i].start = d[i].start /\ es[i].count = d[i].count
    BY <1>6 DEF Entry
  <1> HIDE DEF es
  <1> QED BY <1>1, <1>6, <1>7, <1>8 DEF Table

\* Where an entry can be.
Placed(e, d) ==
  /\ e.start \in Nat \ {0} /\ e.count \in Nat
  /\ GptOK(d) => e.start > 2

\* What is read from a disk.
LEMMA ParseIs ==
  ASSUME NEW d, DiskOK(d)
  PROVE  LET t == parse(d) IN
         /\ Serializable(t) <=> MbrOK(d) \/ GptOK(d)
         /\ Serializable(t) => GoodFor(t, d) /\ PrimaryExtents(t) = DiskExtents(d)
         /\ MbrOK(d) => t.kind = "MBR" /\ t.first = 0 /\ t.last = DiskSectors - 1 /\ IndicesApart(t)
         /\ GptOK(d) => t.kind = "GPT" /\ t.first = d[1].first /\ t.last = d[1].last
         /\ ~Serializable(t) => DiskExtents(d) = {} /\ d[0] = DriverDescriptor /\ (t = NoTable \/ t.kind = "APM")
         /\ Len(t.entries) \in Nat
         /\ Serializable(t) => t.entries \in Seq(EntrySet)
         /\ \A i \in 1..Len(t.entries) : Placed(t.entries[i], d)
  <1> DEFINE t == parse(d)
  <1>1. Readable(d) /\ \A s \in Lba : SectorOK(d[s])
    BY DEF DiskOK, Readable
  <1>2. CASE MbrOK(d)
    <2>1. /\ t = ParseMbr(d) /\ MbrTable(t) /\ PrimaryExtents(t) = SlotExtents(d)
          /\ IndicesApart(t) /\ Unprotecting(t, d)
      BY <1>1, <1>2, ParseMbrIs
    <2> HIDE DEF t
    <2>2. ~GptOK(d)
      BY <1>2, Kinds
    <2>3. t.kind = "MBR" /\ t.first = 0 /\ t.last = DiskSectors - 1 /\ t.entries \in Seq(EntrySet)
      BY <2>1 DEF MbrTable, Table
    <2>4. ASSUME NEW i \in 1..Len(t.entries) PROVE Placed(t.entries[i], d)
      <3>1. t.entries[i] \in EntrySet
        BY <2>3
      <3> QED BY <2>2, <3>1 DEF EntrySet, Placed
    <2>5. Serializable(t) /\ GoodFor(t, d) /\ PrimaryExtents(t) = DiskExtents(d)
      BY <1>2, <2>1, <2>3 DEF Serializable, GoodFor, DiskExtents
    <2>6. Len(t.entries) \in Nat
      BY <2>3
    <2> QED BY <1>2, <2>1, <2>2, <2>3, <2>4, <2>5, <2>6 DEF t
  <1>3. CASE GptOK(d)
    <2>1. /\ t = ParseGpt(d) /\ GptTable(t, d[1].first, d[1].last) /\ PrimaryExtents(t) = EntryExtents(d)
      BY <1>3, ParseGptIs
    <2> HIDE DEF t
    <2>2. ~MbrOK(d)
      BY <1>3, Kinds
    <2>3. t.kind = "GPT" /\ t.first = d[1].first /\ t.last = d[1].last /\ t.entries \in Seq(EntrySet)
      BY <2>1 DEF GptTable, Table
    <2>4. ASSUME NEW i \in 1..Len(t.entries) PROVE Placed(t.entries[i], d)
      <3>1. InGpt(t.entries[i], d[1].first, d[1].last)
        BY <2>1 DEF GptTable
      <3>2. t.entries[i].start \in Nat \ {0} /\ t.entries[i].count \in Nat
        BY <3>1 DEF InGpt, EntrySet
      <3>3. t.entries[i].start >= d[1].first /\ d[1].first \in Nat /\ d[1].first > 2
        BY <1>3, <3>1 DEF InGpt, GptOK
      <3> QED BY <3>2, <3>3 DEF Placed
    <2>5. Serializable(t) /\ GoodFor(t, d) /\ PrimaryExtents(t) = DiskExtents(d)
      BY <1>3, <2>1, <2>2, <2>3 DEF Serializable, GoodFor, DiskExtents
    <2>6. Len(t.entries) \in Nat
      BY <2>3
    <2> QED BY <1>3, <2>1, <2>2, <2>3, <2>4, <2>5, <2>6 DEF t
  <1>4. CASE ~MbrOK(d) /\ ~GptOK(d)
    <2>1. d[0] = DriverDescriptor /\ d[0].k = "ddm" /\ DiskExtents(d) = {}
      BY <1>4 DEF DiskOK, DriverDescriptor, DiskExtents
    <2>2. t = IF d[1].k = "apm" THEN ParseApm(d) ELSE NoTable
      BY <2>1 DEF parse
    <2> HIDE DEF t
    <2>3. /\ t = NoTable \/ t.kind = "APM"
          /\ Len(t.entries) \in Nat
          /\ \A i \in 1..Len(t.entries) : Placed(t.entries[i], d)
      <3>1. CASE d[1].k = "apm"
        BY <1>1, <1>4, <2>2, <3>1, ParseApmIs DEF Placed
      <3>2. CASE d[1].k # "apm"
        <4>1. t = NoTable /\ t.entries = <<>>
          BY <2>2, <3>2 DEF NoTable, Table
        <4> QED BY <4>1
      <3> QED BY <3>1, <3>2
    <2>4. ~Serializable(t)
      BY <2>3 DEF Serializable, NoTable, Table
    <2> QED BY <1>4, <2>1, <2>3, <2>4 DEF t
  <1> QED BY <1>2, <1>3, <1>4

\* u can be written in the place of t, and differs from it by one extent.
Replaces(u, t, d) == GoodFor(u, d) /\ Changed(PrimaryExtents(t), PrimaryExtents(u))

\* The tables that a change makes of the one that was read: adding,
LEMMA AddIs ==
  ASSUME NEW d, DiskOK(d), NEW p, ParamsOK(p, d), addPartition(parse(d), p) # NoTable
  PROVE  Serializable(parse(d)) /\ Replaces(addPartition(parse(d), p), parse(d), d)
  <1> DEFINE t == parse(d)
             u == addPartition(t, p)
  <1>1. t.kind \notin {"none", "APM"} /\ u = IF t.kind = "GPT" THEN AddGpt(t, p) ELSE AddMbr(t, p)
    BY DEF addPartition
  <1>2. Serializable(t) /\ GoodFor(t, d) /\ (MbrOK(d) => t.kind = "MBR") /\ (GptOK(d) => t.kind = "GPT")
    <2>1. t # NoTable
      BY <1>1 DEF NoTable, Table
    <2> QED BY <1>1, <2>1, ParseIs
  <1>3. CASE MbrOK(d)
    <2>1. MbrTable(t) /\ Unprotecting(t, d)
      BY <1>2, <1>3, Kinds DEF GoodFor
    <2>2. u = AddMbr(t, p) /\ AddMbr(t, p) # NoTable
      BY <1>1, <1>2, <1>3
    <2> HIDE DEF t, u
    <2>3. MbrTable(u) /\ Unprotecting(u, d) /\ Changed(PrimaryExtents(t), PrimaryExtents(u))
      BY <2>1, <2>2, AddMbrIs
    <2> QED BY <1>2, <1>3, <2>3 DEF Replaces, GoodFor, t, u
  <1>4. CASE GptOK(d)
    <2>1. GptTable(t, d[1].first, d[1].last) /\ d[1].first \in Nat /\ d[1].last \in Nat
      BY <1>2, <1>4, Kinds DEF GoodFor, GptOK
    <2>2. u = AddGpt(t, p) /\ AddGpt(t, p) # NoTable
      BY <1>1, <1>2, <1>4
    <2> HIDE DEF t, u
    <2>3. GptTable(u, d[1].first, d[1].last) /\ Changed(PrimaryExtents(t), PrimaryExtents(u))
      BY <2>1, <2>2, AddGptIs
    <2> QED BY <1>2, <1>4, <2>3 DEF Replaces, GoodFor, t, u
  <1> QED BY <1>2, <1>3, <1>4 DEF GoodFor

\* deleting,
LEMMA DeleteIs ==
  ASSUME NEW d, DiskOK(d), NEW index, deletePartition(parse(d), index) # NoTable
  PROVE  Serializable(parse(d)) /\ Replaces(deletePartition(parse(d), index), parse(d), d)
  <1> DEFINE t == parse(d)
             u == deletePartition(t, index)
  <1>1. t.kind # "APM" /\ HasIndex(t, index) /\ u = IF t.kind = "GPT" THEN DeleteGpt(t, index) ELSE DeleteMbr(t, index)
    BY DEF deletePartition
  <1>2. t # NoTable
    <2> SUFFICES ASSUME t = NoTable PROVE FALSE
      OBVIOUS
    <2>1. t.entries = <<>>
      BY DEF NoTable, Table
    <2> QED BY <1>1, <2>1 DEF HasIndex
  <1>3. Serializable(t) /\ GoodFor(t, d) /\ (MbrOK(d) => t.kind = "MBR") /\ (GptOK(d) => t.kind = "GPT")
    BY <1>1, <1>2, ParseIs
  <1>4. CASE MbrOK(d)
    <2>1. MbrTable(t) /\ Unprotecting(t, d)
      BY <1>3, <1>4, Kinds DEF GoodFor
    <2>2. u = DeleteMbr(t, index)
      BY <1>1, <1>3, <1>4
    <2> HIDE DEF t, u
    <2>3. MbrTable(u) /\ Unprotecting(u, d) /\ Changed(PrimaryExtents(t), PrimaryExtents(u))
      BY <1>1, <2>1, <2>2, DeleteMbrIs
    <2> QED BY <1>3, <1>4, <2>3 DEF Replaces, GoodFor, t, u
  <1>5. CASE GptOK(d)
    <2>1. GptTable(t, d[1].first, d[1].last)
      BY <1>3, <1>5, Kinds DEF GoodFor
    <2>2. u = DeleteGpt(t, index)
      BY <1>1, <1>3, <1>5
    <2> HIDE DEF t, u
    <2>3. GptTable(u, d[1].first, d[1].last) /\ Changed(PrimaryExtents(t), PrimaryExtents(u))
      BY <1>1, <2>1, <2>2, DeleteGptIs
    <2> QED BY <1>3, <1>5, <2>3 DEF Replaces, GoodFor, t, u
  <1> QED BY <1>3, <1>4, <1>5 DEF GoodFor

\* moving or resizing,
LEMMA ResizeIs ==
  ASSUME NEW d, DiskOK(d), NEW index, NEW start \in Nat \ {0}, NEW count \in Nat,
         resizePartition(parse(d), index, start, count) # NoTable
  PROVE  /\ Serializable(parse(d)) /\ HasIndex(parse(d), index)
         /\ Replaces(resizePartition(parse(d), index, start, count), parse(d), d)
  <1> DEFINE t == parse(d)
             u == resizePartition(t, index, start, count)
  <1>1. Serializable(t) /\ HasIndex(t, index)
    BY DEF resizePartition, Serializable
  <1>2. GoodFor(t, d) /\ (MbrOK(d) => IndicesApart(t))
    BY <1>1, ParseIs
  <1> HIDE DEF t
  <1>3. CASE MbrOK(d)
    <2>1. MbrTable(t) /\ Unprotecting(t, d) /\ IndicesApart(t)
      BY <1>2, <1>3, Kinds DEF GoodFor
    <2>3. MbrTable(u) /\ Unprotecting(u, d) /\ Changed(PrimaryExtents(t), PrimaryExtents(u))
      BY <2>1, ResizeMbrIs DEF t
    <2> HIDE DEF u
    <2> QED BY <1>1, <1>3, <2>3 DEF Replaces, GoodFor, t, u
  <1>4. CASE GptOK(d)
    <2>1. GptTable(t, d[1].first, d[1].last) /\ d[1].first \in Nat /\ d[1].last \in Nat
      BY <1>2, <1>4, Kinds DEF GoodFor, GptOK
    <2>3. GptTable(u, d[1].first, d[1].last) /\ Changed(PrimaryExtents(t), PrimaryExtents(u))
      BY <2>1, ResizeGptIs DEF t
    <2> HIDE DEF u
    <2> QED BY <1>1, <1>4, <2>3 DEF Replaces, GoodFor, t, u
  <1> QED BY <1>2, <1>3, <1>4 DEF GoodFor

\* and setting the active flag, which a GPT does not have.
LEMMA FlagsAre ==
  ASSUME NEW d, DiskOK(d), NEW index,
         NEW u, u = IF parse(d).kind = "MBR" THEN setActivePartition(parse(d), index) ELSE parse(d),
         u # NoTable, Serializable(u) \/ Serializable(parse(d))
  PROVE  Serializable(parse(d)) /\ Replaces(u, parse(d), d)
  <1> DEFINE t == parse(d)
  <1>1. Serializable(t)
    BY DEF Serializable
  <1>2. GoodFor(t, d) /\ (MbrOK(d) => t.kind = "MBR") /\ (GptOK(d) => t.kind = "GPT")
    BY <1>1, ParseIs
  <1>3. CASE t.kind = "MBR"
    <2>1. MbrOK(d)
      BY <1>2, <1>3 DEF GoodFor
    <2>2. MbrTable(t) /\ Unprotecting(t, d)
      BY <1>2, <2>1, Kinds DEF GoodFor
    <2>3. u = setActivePartition(t, index)
      BY <1>3
    <2> HIDE DEF t
    <2>4. MbrTable(u) /\ Unprotecting(u, d) /\ PrimaryExtents(u) = PrimaryExtents(t)
      BY <2>2, <2>3, ActiveIs
    <2>5. Changed(PrimaryExtents(t), PrimaryExtents(u))
      BY <2>4, Unchanged
    <2> QED BY <1>1, <2>1, <2>4, <2>5 DEF Replaces, GoodFor, t
  <1>4. CASE t.kind # "MBR"
    <2>1. u = t
      BY <1>4
    <2> HIDE DEF t
    <2> QED BY <1>1, <1>2, <2>1, Unchanged DEF Replaces, t
  <1> QED BY <1>3, <1>4

-----------------------------------------------------------------------------
(* The operations                                                          *)

\* What a step does to the disk.
StepOK(d, w) == Keeps(d, w) /\ Changed(DiskExtents(d), DiskExtents(w))

\* A change that moves no extent before one that does.
LEMMA StepAfter ==
  ASSUME NEW d, NEW w, NEW v, Keeps(d, w), DiskExtents(w) = DiskExtents(d), StepOK(w, v)
  PROVE  StepOK(d, v)
  BY KeepsTrans DEF StepOK

\* And after one.
LEMMA StepBefore ==
  ASSUME NEW d, NEW w, NEW v, StepOK(d, w), Keeps(w, v), DiskExtents(v) = DiskExtents(w)
  PROVE  StepOK(d, v)
  BY KeepsTrans DEF StepOK

\* Nothing happens.
LEMMA StepSelf == ASSUME NEW d, DiskOK(d) PROVE StepOK(d, d)
  BY KeepsSelf, Unchanged DEF StepOK

\* What was done before can be undone on a disk of the same kind.
LEMMA DoneKeeps ==
  ASSUME NEW d, DiskOK(d), NEW w, Keeps(d, w), NEW done, DoneOK(done, d)
  PROVE  DoneOK(done, w)
  <1>1. DiskOK(w)
    BY KeepsOK
  <1>2. Serializable(parse(d)) => Serializable(parse(w))
    BY <1>1, ParseIs DEF Keeps
  <1>3. w[1].k = "gpt" => d[1].k = "gpt"
    BY DEF Keeps
  <1> QED BY <1>2, <1>3 DEF DoneOK

\* An operation that failed is not undone.
LEMMA FailedOK == ASSUME NEW op, IsOp(op), NEW d PROVE DoneOK(Failed(op), d)
  <1>1. Failed(op).ok = FALSE /\ Failed(op).op = op /\ Failed(op).saved.type = "none"
    BY DEF Failed, Done, NoEntry, Entry
  <1> QED BY <1>1 DEF DoneOK, canUndo

\* The entry that is saved.
LEMMA SavedOK ==
  ASSUME NEW d, DiskOK(d), Serializable(parse(d)), NEW index, HasIndex(parse(d), index)
  PROVE  LET e == parse(d).entries[FindIndex(parse(d), index)] IN
         /\ e \in EntrySet
         /\ e.type = "protective" => d[1].k # "gpt"
  <1> DEFINE t == parse(d)
             i == FindIndex(t, index)
  <1>1. t.entries \in Seq(EntrySet) /\ Len(t.entries) \in Nat /\ GoodFor(t, d)
    BY ParseIs
  <1>2. i \in 1..Len(t.entries)
    BY <1>1, FindIndexIs
  <1> HIDE DEF t, i
  <1>3. t.entries[i] \in EntrySet
    BY <1>1, <1>2
  <1>4. t.entries[i].type = "protective" => d[1].k # "gpt"
    BY <1>1, <1>2 DEF GoodFor, Unprotecting, GptTable, InGpt
  <1> QED BY <1>3, <1>4 DEF t, i

\* Writing a table, all of it or not: the disk has the old extents or those of the
\* new table.
LEMMA WriteStep ==
  ASSUME NEW d, DiskOK(d), NEW t, GoodFor(t, d), Changed(DiskExtents(d), PrimaryExtents(t)),
         NEW n \in 0..Len(serialize(t))
  PROVE  StepOK(d, WriteAt(d, 0, serialize(t), n))
  <1> DEFINE w == WriteAt(d, 0, serialize(t), n)
  <1>1. Keeps(d, w) /\ (DiskExtents(w) = DiskExtents(d) \/ DiskExtents(w) = PrimaryExtents(t))
    BY TableWritten
  <1> HIDE DEF w
  <1>2. Changed(DiskExtents(d), DiskExtents(w))
    BY <1>1, Unchanged
  <1> QED BY <1>1, <1>2 DEF StepOK, w

\* A table that can be written has a length.
LEMMA SerializedLength == ASSUME NEW d, NEW t, GoodFor(t, d) PROVE Len(serialize(t)) \in Nat
  <1>1. CASE MbrTable(t)
    <2>1. serialize(t) = SerializeMbr(t)
      BY <1>1 DEF MbrTable, Table, serialize
    <2> QED BY <1>1, <2>1, EbrsWritten
  <1>2. CASE t.kind = "GPT"
    BY <1>2, GptSectors
  <1> QED BY <1>1, <1>2 DEF GoodFor, GptTable, Table

\* The outcomes of such a write, after something that moved no extent.
LEMMA WriteOutcomesOK ==
  ASSUME NEW d, DiskOK(d), NEW w, Keeps(d, w), DiskExtents(w) = DiskExtents(d), NEW t,
         Serializable(t) => GoodFor(t, d) /\ Changed(DiskExtents(d), PrimaryExtents(t)),
         NEW op, IsOp(op), NEW done, Serializable(t) => DoneOK(done, d),
         NEW o \in WriteOutcomes(w, t, op, done)
  PROVE  StepOK(d, o.disk) /\ DoneOK(o.done, o.disk)
  <1>1. DiskOK(w)
    BY KeepsOK
  <1>2. CASE ~Serializable(t)
    <2>1. o = Outcome(w, Failed(op))
      BY <1>2 DEF WriteOutcomes
    <2>2. o.disk = w /\ o.done = Failed(op)
      BY <2>1 DEF Outcome
    <2> QED BY <1>1, <2>2, FailedOK, StepSelf, StepAfter
  <1>3. CASE Serializable(t)
    <2>1. GoodFor(t, w) /\ Changed(DiskExtents(w), PrimaryExtents(t))
      BY <1>3, KeepsGood
    <2>2. Len(serialize(t)) \in Nat
      BY <2>1, SerializedLength
    <2>3. \A n \in 0..Len(serialize(t)) : StepOK(d, WriteAt(w, 0, serialize(t), n))
      BY <1>1, <2>1, WriteStep, StepAfter
    <2>4. CASE o = Outcome(Written(w, t), done)
      <3>1. o.disk = WriteAt(w, 0, serialize(t), Len(serialize(t))) /\ o.done = done
        BY <2>4 DEF Outcome, Written
      <3>2. Len(serialize(t)) \in 0..Len(serialize(t))
        BY <2>2
      <3>3. StepOK(d, o.disk)
        BY <2>3, <3>1, <3>2
      <3> QED BY <1>3, <3>1, <3>3, DoneKeeps DEF StepOK
    <2>5. CASE \E c \in CutShort(w, t) : o = Outcome(c, Failed(op))
      <3>1. PICK n \in 0..Len(serialize(t)) : o = Outcome(WriteAt(w, 0, serialize(t), n), Failed(op))
        BY <2>5 DEF CutShort
      <3>2. o.disk = WriteAt(w, 0, serialize(t), n) /\ o.done = Failed(op)
        BY <3>1 DEF Outcome
      <3> QED BY <2>3, <3>2, FailedOK
    <2> QED BY <1>3, <2>4, <2>5 DEF WriteOutcomes
  <1> QED BY <1>2, <1>3

\* Formatting, or beginning to, where a partition can be.
LEMMA FormatKeeps ==
  ASSUME NEW d, DiskOK(d), NEW op, Placed(op, d), op.fs \in {"ext", "ntfs"}, NEW owner, NEW n \in Nat
  PROVE  Keeps(d, Format(d, op, owner, n)) /\ DiskExtents(Format(d, op, owner, n)) = DiskExtents(d)
  <1> DEFINE w == Format(d, op, owner, n)
             new == Super(op.fs, <<>>, TRUE, FALSE)
  <1>1. op.start \in Nat /\ op.start > 0 /\ (GptOK(d) => op.start > 2)
    BY DEF Placed
  <1>2. w = [s \in Lba |-> w[s]]
    BY DEF Format
  <1>3. ASSUME NEW s \in Lba
        PROVE  /\ w[s] = new \/ w[s] = Data(owner) \/ w[s] = d[s]
               /\ s < op.start => w[s] = d[s]
    <2>1. w[s] = CASE s = op.start /\ n > 0 -> new
                   [] s > op.start /\ s < op.start + n -> Data(owner)
                   [] OTHER -> d[s]
      BY DEF Format
    <2> HIDE DEF w, new
    <2>2. s \in Nat
      BY FirstSectors
    <2> QED BY <1>1, <2>1, <2>2
  <1>4. /\ new.k = "super" /\ new = Super(new.fs, new.label, new.clean, new.errors) /\ new.fs = op.fs
        /\ Data(owner).k = "data"
    BY DEF Super, Data
  <1> HIDE DEF w, new
  <1>5. SectorOK(new) /\ SectorOK(Data(owner))
    BY <1>4 DEF SectorOK
  <1>6. Readable(w)
    BY <1>2, <1>3, <1>5, KeepsSelf DEF Readable
  <1>7. w[0] = d[0] /\ (w[1].k = "gpt" => d[1].k = "gpt") /\ (GptOK(d) => w[1] = d[1] /\ w[2] = d[2])
    <2>1. w[0] = d[0]
      BY <1>1, <1>3, FirstSectors
    <2>2. w[1].k = "gpt" => d[1].k = "gpt"
      BY <1>3, <1>4, FirstSectors
    <2>3. GptOK(d) => w[1] = d[1] /\ w[2] = d[2]
      BY <1>1, <1>3, FirstSectors
    <2> QED BY <2>1, <2>2, <2>3
  <1> QED BY <1>6, <1>7, Elsewhere DEF w

\* Wiping, or beginning to.
LEMMA WipedKeeps ==
  ASSUME NEW d, DiskOK(d), NEW e, Placed(e, d), NEW w \in Wiped(d, e)
  PROVE  Keeps(d, w) /\ DiskExtents(w) = DiskExtents(d)
  <1> DEFINE secs == [i \in 1..WipeSectors |-> Blank]
  <1>1. PICK n \in 0..2 : w = WriteAt(d, e.start, secs, n)
    BY DEF Wiped, WipeSectors, FourK
  <1>2. \A i \in 1..2 : secs[i] = Blank
    BY DEF WipeSectors, FourK
  <1>3. Blank.k = "blank" /\ SectorOK(Blank)
    BY DEF Blank, SectorOK
  <1> HIDE DEF secs
  <1>4. e.start \in Nat /\ e.start > 0 /\ (GptOK(d) => e.start > 2)
    BY DEF Placed
  <1>5. n \in Nat /\ \A i \in 1..n : i \in 1..2 /\ SectorOK(secs[i])
    BY <1>2, <1>3
  <1>6. /\ Readable(w)
        /\ \A s \in Lba : w[s] = IF s >= e.start /\ s < e.start + n THEN secs[s - e.start + 1] ELSE d[s]
    BY <1>1, <1>4, <1>5, KeepsSelf, WriteIs
  <1>7. ASSUME NEW s \in Lba
        PROVE  /\ w[s] = Blank \/ w[s] = d[s]
               /\ s < e.start => w[s] = d[s]
    <2>1. s \in Nat
      BY FirstSectors
    <2>2. CASE s >= e.start /\ s < e.start + n
      <3>1. s - e.start + 1 \in 1..2
        BY <1>1, <1>4, <2>1, <2>2
      <3>2. w[s] = Blank
        BY <1>2, <1>6, <2>2, <3>1
      <3> QED BY <1>4, <2>1, <2>2, <3>2
    <2>3. CASE ~(s >= e.start /\ s < e.start + n)
      BY <1>6, <2>3
    <2> QED BY <2>2, <2>3
  <1>8. w[0] = d[0]
    BY <1>4, <1>7, FirstSectors
  <1>9. w[1].k = "gpt" => d[1].k = "gpt"
    BY <1>3, <1>7, FirstSectors
  <1>10. GptOK(d) => w[1] = d[1] /\ w[2] = d[2]
    BY <1>4, <1>7, FirstSectors
  <1> QED BY <1>6, <1>8, <1>9, <1>10, Elsewhere

\* Writing another superblock in the place of one.
LEMMA SuperKeeps ==
  ASSUME NEW d, DiskOK(d), NEW lba, IsSuper(d, lba), NEW new,
         new.k = "super", SectorOK(new)
  PROVE  LET w == [d EXCEPT ![lba] = new] IN Keeps(d, w) /\ DiskExtents(w) = DiskExtents(d)
  <1> DEFINE w == [d EXCEPT ![lba] = new]
  <1>1. lba \in Lba /\ d[lba].k = "super"
    BY DEF IsSuper
  <1>2. d = [s \in Lba |-> d[s]] /\ Readable(d)
    BY KeepsSelf DEF DiskOK
  <1>3. w = [s \in Lba |-> w[s]] /\ \A s \in Lba : w[s] = IF s = lba THEN new ELSE d[s]
    BY <1>1, <1>2
  <1> HIDE DEF w
  <1>4. Readable(w)
    BY <1>2, <1>3 DEF Readable
  <1>5. lba # 0
    <2>1. SlotsOK(d) => d[0].k = "mbr"
      BY DEF SlotsOK
    <2>2. MbrOK(d) \/ GptOK(d) => d[0].k = "mbr"
      BY <2>1 DEF MbrOK, GptOK
    <2>3. d[0] = DriverDescriptor => d[0].k = "ddm"
      BY DEF DriverDescriptor
    <2>4. d[0].k \in {"mbr", "ddm"}
      BY <2>2, <2>3 DEF DiskOK
    <2> QED BY <1>1, <2>4
  <1>6. GptOK(d) => lba # 1 /\ lba # 2
    BY <1>1 DEF GptOK
  <1>7. w[0] = d[0] /\ (GptOK(d) => w[1] = d[1] /\ w[2] = d[2])
    BY <1>3, <1>5, <1>6, FirstSectors
  <1>8. w[1].k = "gpt" => d[1].k = "gpt"
    BY <1>3, FirstSectors
  <1> QED BY <1>4, <1>7, <1>8, Elsewhere DEF w

\* An outcome is a step of the disk, with something that can be undone there.
OutcomeOK(d, o) == StepOK(d, o.disk) /\ DoneOK(o.done, o.disk)

\* Nothing done and nothing to undo.
LEMMA FailureOK ==
  ASSUME NEW d, DiskOK(d), NEW op, IsOp(op), NEW w, StepOK(d, w)
  PROVE  OutcomeOK(d, Outcome(w, Failed(op)))
  BY FailedOK DEF OutcomeOK, Outcome

\* Creating a partition: its table and then its file system.
LEMMA CreateOK ==
  ASSUME NEW d, DiskOK(d), NEW op, IsOp(op), op.kind = "Create", op.fs = "ntfs", op.start \in Nat \ {0},
         op.count \in Nat, op.active \in BOOLEAN, op.logical \in BOOLEAN, NEW guid \in Nat,
         NEW o \in CreateOutcomes(d, op, guid)
  PROVE  OutcomeOK(d, o)
  <1> DEFINE p == Params(op, guid)
             t == addPartition(parse(d), p)
             w == Written(d, t)
  <1>1. CASE t = NoTable
    <2>1. o = Outcome(d, Failed(op))
      BY <1>1 DEF CreateOutcomes
    <2> QED BY <2>1, FailureOK, StepSelf
  <1>2. CASE t # NoTable
    <2>1. /\ p.start = op.start /\ p.count = op.count /\ p.type = "basic"
          /\ p.active = op.active /\ p.logical = op.logical /\ p.guid = guid
      BY DEF Params
    <2>2. ParamsOK(p, d)
      <3> HIDE DEF p
      <3>1. p.active \in BOOLEAN
        BY <2>1, Zenon
      <3>2. p.logical \in BOOLEAN
        BY <2>1, Zenon
      <3> QED BY <2>1, <3>1, <3>2 DEF ParamsOK, PartitionTypes
    <2>3. Serializable(parse(d)) /\ Replaces(t, parse(d), d)
      BY <1>2, <2>2, AddIs
    <2>4. Placed(op, d)
      <3>1. ASSUME GptOK(d) PROVE op.start > 2
        <4>1. parse(d).kind = "GPT" /\ parse(d).first = d[1].first
          BY <3>1, ParseIs
        <4>2. d[1].first \in Nat /\ d[1].first > 2
          BY <3>1 DEF GptOK
        <4>3. AddGpt(parse(d), p) # NoTable
          BY <1>2, <4>1 DEF addPartition
        <4>4. p.start >= parse(d).first
          BY <4>3 DEF AddGpt
        <4> QED BY <2>1, <4>1, <4>2, <4>4
      <3> QED BY <3>1 DEF Placed
    <2> HIDE DEF p, t
    <2>5. GoodFor(t, d) /\ Changed(DiskExtents(d), PrimaryExtents(t))
      BY <2>3, ParseIs DEF Replaces
    <2>6. Len(serialize(t)) \in Nat
      BY <2>5, SerializedLength
    <2>7. \A n \in 0..Len(serialize(t)) : StepOK(d, WriteAt(d, 0, serialize(t), n))
      BY <2>5, WriteStep
    <2>8. StepOK(d, w)
      BY <2>6, <2>7 DEF Written
    <2> HIDE DEF w
    <2>9. DiskOK(w) /\ Placed(op, w)
      <3>1. MbrOK(d) \/ GptOK(d)
        BY <2>5 DEF GoodFor
      <3>2. DiskOK(w) /\ Keeps(d, w)
        BY <2>8, KeepsOK DEF StepOK
      <3>3. GptOK(w) => GptOK(d)
        BY <3>1, <3>2, Kinds DEF Keeps
      <3> QED BY <2>4, <3>2, <3>3 DEF Placed
    <2>10. \A n \in Nat : StepOK(d, Format(w, op, guid, n))
      BY <2>8, <2>9, FormatKeeps, StepBefore
    <2>11. CASE o = Outcome(Format(w, op, guid, op.count), Done(op, TRUE, CreatedIndex(t, op), NoEntry))
      <3> DEFINE done == Done(op, TRUE, CreatedIndex(t, op), NoEntry)
      <3>1. o.disk = Format(w, op, guid, op.count) /\ o.done = done
        BY <2>11 DEF Outcome
      <3>2. done.op = op /\ done.saved.type = "none"
        BY DEF Done, NoEntry, Entry
      <3> HIDE DEF done
      <3>3. DoneOK(done, d)
        BY <2>3, <3>2 DEF DoneOK
      <3>4. StepOK(d, o.disk)
        BY <2>10, <3>1
      <3> QED BY <3>1, <3>3, <3>4, DoneKeeps DEF OutcomeOK, StepOK
    <2>12. CASE \E n \in 0..op.count : o = Outcome(Format(w, op, guid, n), Failed(op))
      <3>1. PICK n \in 0..op.count : o = Outcome(Format(w, op, guid, n), Failed(op))
        BY <2>12
      <3> QED BY <2>10, <3>1, FailureOK
    <2>13. CASE \E c \in CutShort(d, t) : o = Outcome(c, Failed(op))
      <3>1. PICK n \in 0..Len(serialize(t)) : o = Outcome(WriteAt(d, 0, serialize(t), n), Failed(op))
        BY <2>13 DEF CutShort
      <3> QED BY <2>7, <3>1, FailureOK
    <2> QED BY <1>2, <2>11, <2>12, <2>13 DEF CreateOutcomes, t, w, p
  <1> QED BY <1>1, <1>2

\* Deleting one: its first sectors and then its table.
LEMMA DeleteOK ==
  ASSUME NEW d, DiskOK(d), NEW op, IsOp(op), op.kind = "Delete", NEW o \in DeleteOutcomes(d, op)
  PROVE  OutcomeOK(d, o)
  <1> DEFINE t == parse(d)
             u == deletePartition(t, op.index)
             e == t.entries[FindIndex(t, op.index)]
             done == Done(op, TRUE, -1, e)
             wiped == IF WipeFits(e) THEN Wiped(d, e) ELSE {d}
  <1>1. CASE ~HasIndex(t, op.index)
    <2>1. o = Outcome(d, Failed(op))
      BY <1>1 DEF DeleteOutcomes
    <2> QED BY <2>1, FailureOK, StepSelf
  <1>2. CASE HasIndex(t, op.index)
    <2>1. PICK w \in wiped : o \in WriteOutcomes(w, u, op, done)
      BY <1>2 DEF DeleteOutcomes
    <2>2. Placed(e, d)
      <3>1. Len(t.entries) \in Nat /\ \A i \in 1..Len(t.entries) : Placed(t.entries[i], d)
        BY ParseIs
      <3>2. FindIndex(t, op.index) \in 1..Len(t.entries)
        BY <1>2, <3>1, FindIndexIs
      <3> QED BY <3>1, <3>2
    <2>3. Serializable(u) => GoodFor(u, d) /\ Changed(DiskExtents(d), PrimaryExtents(u)) /\ DoneOK(done, d)
      <3> SUFFICES ASSUME Serializable(u) PROVE GoodFor(u, d) /\ Changed(DiskExtents(d), PrimaryExtents(u)) /\ DoneOK(done, d)
        OBVIOUS
      <3>1. Serializable(t) /\ Replaces(u, t, d)
        <4>1. u # NoTable
          BY DEF Serializable, NoTable, Table
        <4> QED BY <4>1, DeleteIs
      <3>2. e \in EntrySet /\ (e.type = "protective" => d[1].k # "gpt")
        BY <1>2, <3>1, SavedOK
      <3>3. done.op = op /\ done.saved = e
        BY DEF Done
      <3> HIDE DEF e, done, u
      <3>4. DoneOK(done, d)
        BY <3>1, <3>2, <3>3 DEF DoneOK
      <3>5. GoodFor(u, d) /\ Changed(DiskExtents(d), PrimaryExtents(u))
        BY <3>1, ParseIs DEF Replaces
      <3> QED BY <3>4, <3>5
    <2> HIDE DEF t, u, e, done
    <2>4. Keeps(d, w) /\ DiskExtents(w) = DiskExtents(d)
      BY <2>1, <2>2, WipedKeeps, KeepsSelf
    <2>5. StepOK(d, o.disk) /\ DoneOK(o.done, o.disk)
      BY <2>1, <2>3, <2>4, WriteOutcomesOK
    <2> QED BY <2>5 DEF OutcomeOK
  <1> QED BY <1>1, <1>2

\* Moving or resizing one.
LEMMA ResizeOK ==
  ASSUME NEW d, DiskOK(d), NEW op, IsOp(op), op.kind = "Resize", op.start \in Nat \ {0}, op.count \in Nat,
         NEW o \in ResizeOutcomes(d, op)
  PROVE  OutcomeOK(d, o)
  <1> DEFINE t == parse(d)
             u == resizePartition(t, op.index, op.start, op.count)
             e == t.entries[FindIndex(t, op.index)]
             done == Done(op, TRUE, -1, e)
  <1>1. CASE u = NoTable
    <2>1. o = Outcome(d, Failed(op))
      BY <1>1 DEF ResizeOutcomes
    <2> QED BY <2>1, FailureOK, StepSelf
  <1>2. CASE u # NoTable
    <2>1. o \in WriteOutcomes(d, u, op, done)
      BY <1>2 DEF ResizeOutcomes
    <2>2. Serializable(t) /\ HasIndex(t, op.index) /\ Replaces(u, t, d)
      BY <1>2, ResizeIs
    <2>3. e \in EntrySet /\ (e.type = "protective" => d[1].k # "gpt")
      BY <2>2, SavedOK
    <2>4. done.op = op /\ done.saved = e
      BY DEF Done
    <2> HIDE DEF e, done, u
    <2>5. DoneOK(done, d)
      BY <2>2, <2>3, <2>4 DEF DoneOK
    <2>6. GoodFor(u, d) /\ Changed(DiskExtents(d), PrimaryExtents(u))
      BY <2>2, ParseIs DEF Replaces
    <2> HIDE DEF t
    <2>7. StepOK(d, o.disk) /\ DoneOK(o.done, o.disk)
      BY <2>1, <2>5, <2>6, KeepsSelf, WriteOutcomesOK
    <2> QED BY <2>7 DEF OutcomeOK
  <1> QED BY <1>1, <1>2

\* Setting or clearing the active flag.
LEMMA FlagsOK ==
  ASSUME NEW d, DiskOK(d), NEW op, IsOp(op), op.kind = "SetFlags", NEW o \in SetFlagsOutcomes(d, op)
  PROVE  OutcomeOK(d, o)
  <1> DEFINE t == parse(d)
             x == IF op.active THEN op.index ELSE -1
             u == IF t.kind = "MBR" THEN setActivePartition(t, x) ELSE t
             e == t.entries[FindIndex(t, op.index)]
             done == Done(op, TRUE, -1, e)
  <1>1. CASE ~HasIndex(t, op.index) \/ u = NoTable
    <2>1. o = Outcome(d, Failed(op))
      BY <1>1 DEF SetFlagsOutcomes
    <2> QED BY <2>1, FailureOK, StepSelf
  <1>2. CASE HasIndex(t, op.index) /\ u # NoTable
    <2>1. o \in WriteOutcomes(d, u, op, done)
      BY <1>2 DEF SetFlagsOutcomes
    <2>2. Serializable(u) => GoodFor(u, d) /\ Changed(DiskExtents(d), PrimaryExtents(u)) /\ DoneOK(done, d)
      <3> SUFFICES ASSUME Serializable(u) PROVE GoodFor(u, d) /\ Changed(DiskExtents(d), PrimaryExtents(u)) /\ DoneOK(done, d)
        OBVIOUS
      <3>1. Serializable(t) /\ Replaces(u, t, d)
        <4> HIDE DEF x
        <4> QED BY <1>2, FlagsAre
      <3>2. e \in EntrySet /\ (e.type = "protective" => d[1].k # "gpt")
        BY <1>2, <3>1, SavedOK
      <3>3. done.op = op /\ done.saved = e
        BY DEF Done
      <3> HIDE DEF e, done, u
      <3>4. DoneOK(done, d)
        BY <3>1, <3>2, <3>3 DEF DoneOK
      <3>5. GoodFor(u, d) /\ Changed(DiskExtents(d), PrimaryExtents(u))
        BY <3>1, ParseIs DEF Replaces
      <3> QED BY <3>4, <3>5
    <2> HIDE DEF t, u, e, done
    <2>3. StepOK(d, o.disk) /\ DoneOK(o.done, o.disk)
      BY <2>1, <2>2, KeepsSelf, WriteOutcomesOK
    <2> QED BY <2>3 DEF OutcomeOK
  <1> QED BY <1>1, <1>2

\* There is nothing to undo of a format or a check.
LEMMA FinishedOK ==
  ASSUME NEW d, NEW op, IsOp(op), NEW w, StepOK(d, w)
  PROVE  OutcomeOK(d, Outcome(w, Done(op, TRUE, -1, NoEntry)))
  <1> DEFINE done == Done(op, TRUE, -1, NoEntry)
  <1>1. done.op = op /\ done.created = -1 /\ done.saved = NoEntry /\ done.old = NoLabel
    BY DEF Done
  <1>2. NoEntry.type = "none"
    BY DEF NoEntry, Entry
  <1> HIDE DEF done
  <1>3. ~canUndo(done)
    BY <1>1 DEF canUndo
  <1>4. DoneOK(done, w)
    BY <1>1, <1>2, <1>3 DEF DoneOK
  <1>5. Outcome(w, done).disk = w /\ Outcome(w, done).done = done
    BY DEF Outcome
  <1> QED BY <1>4, <1>5 DEF OutcomeOK, done

\* Formatting a partition where it was shown.
LEMMA FormatOK ==
  ASSUME NEW d, DiskOK(d), NEW op, IsOp(op), op.kind = "Format", op.fs \in {"ext", "ntfs"}, Placed(op, d),
         NEW guid, NEW o \in FormatOutcomes(d, op, guid)
  PROVE  OutcomeOK(d, o)
  <1>1. op.count \in Nat
    BY DEF Placed
  <1>2. \A n \in Nat : StepOK(d, Format(d, op, guid, n))
    <2>1. ASSUME NEW n \in Nat PROVE StepOK(d, Format(d, op, guid, n))
      BY FormatKeeps, StepSelf, StepBefore
    <2> QED BY <2>1
  <1>3. CASE \E n \in 0..op.count : o = Outcome(Format(d, op, guid, n), Failed(op))
    <2>1. PICK n \in 0..op.count : o = Outcome(Format(d, op, guid, n), Failed(op))
      BY <1>3
    <2> QED BY <1>1, <1>2, <2>1, FailureOK
  <1>4. CASE o = Outcome(Format(d, op, guid, op.count), Done(op, TRUE, -1, NoEntry))
    BY <1>1, <1>2, <1>4, FinishedOK
  <1> QED BY <1>3, <1>4 DEF FormatOutcomes

\* A superblock with another label or in another state.
LEMMA SuperStep ==
  ASSUME NEW d, DiskOK(d), NEW lba, IsSuper(d, lba), NEW label, NEW clean, NEW errors,
         NEW w, w = [d EXCEPT ![lba] = Super(d[lba].fs, label, clean, errors)]
  PROVE  StepOK(d, w)
  <1> DEFINE new == Super(d[lba].fs, label, clean, errors)
  <1>1. lba \in Lba /\ d[lba].k = "super"
    BY DEF IsSuper
  <1>2. d[lba].fs \in {"ext", "ntfs"}
    BY <1>1 DEF DiskOK, SectorOK
  <1>3. new.k = "super" /\ new = Super(new.fs, new.label, new.clean, new.errors) /\ new.fs = d[lba].fs
    BY DEF Super
  <1> HIDE DEF new
  <1>4. SectorOK(new)
    BY <1>2, <1>3 DEF SectorOK
  <1>5. w = [d EXCEPT ![lba] = new]
    BY DEF new
  <1>6. Keeps(d, w) /\ DiskExtents(w) = DiskExtents(d)
    <2> HIDE DEF new
    <2>1. LET v == [d EXCEPT ![lba] = new] IN Keeps(d, v) /\ DiskExtents(v) = DiskExtents(d)
      BY <1>3, <1>4, SuperKeeps
    <2> QED BY <1>5, <2>1
  <1> QED BY <1>6, StepSelf, StepBefore

\* Changing one field of it.
LEMMA SuperFields ==
  ASSUME NEW d, DiskOK(d), NEW lba, IsSuper(d, lba), NEW x
  PROVE  /\ StepOK(d, [d EXCEPT ![lba].label = x])
         /\ StepOK(d, [d EXCEPT ![lba].clean = x])
         /\ d[lba].fs \in {"ext", "ntfs"}
  <1>1. lba \in Lba /\ d[lba].k = "super"
    BY DEF IsSuper
  <1> DEFINE fs == d[lba].fs
             label == d[lba].label
             clean == d[lba].clean
             errors == d[lba].errors
  <1>2. d[lba] = Super(fs, label, clean, errors) /\ fs \in {"ext", "ntfs"}
    BY <1>1 DEF DiskOK, SectorOK
  <1>a. d[lba].fs = fs
    OBVIOUS
  <1>3. d = [s \in Lba |-> d[s]]
    BY DEF DiskOK
  <1> HIDE DEF fs, label, clean, errors
  <1>4. [d[lba] EXCEPT !.label = x] = Super(fs, x, clean, errors)
    BY <1>2 DEF Super
  <1>5. [d[lba] EXCEPT !.clean = x] = Super(fs, label, x, errors)
    BY <1>2 DEF Super
  <1>6. [d EXCEPT ![lba].label = x] = [d EXCEPT ![lba] = Super(fs, x, clean, errors)]
    BY <1>1, <1>3, <1>4
  <1>7. [d EXCEPT ![lba].clean = x] = [d EXCEPT ![lba] = Super(fs, label, x, errors)]
    BY <1>1, <1>3, <1>5
  <1>8. StepOK(d, [d EXCEPT ![lba].label = x])
    BY <1>6, <1>a, SuperStep
  <1>9. StepOK(d, [d EXCEPT ![lba].clean = x])
    BY <1>7, <1>a, SuperStep
  <1> QED BY <1>2, <1>8, <1>9 DEF fs

\* Setting a label.
LEMMA LabelOK ==
  ASSUME NEW d, DiskOK(d), NEW op, IsOp(op), op.kind = "SetLabel", NEW o \in SetLabelOutcomes(d, op)
  PROVE  OutcomeOK(d, o)
  <1>1. CASE ~HasFs(d, op)
    <2>1. o = Outcome(d, Failed(op))
      BY <1>1 DEF SetLabelOutcomes
    <2> QED BY <2>1, FailureOK, StepSelf
  <1>2. CASE HasFs(d, op)
    <2> DEFINE w == [d EXCEPT ![op.start].label = StoredLabel(op)]
    <2>1. PICK old \in SavedLabels(d, op) : o = Outcome(w, [Done(op, TRUE, -1, NoEntry) EXCEPT !.old = old])
      BY <1>2 DEF SetLabelOutcomes
    <2> DEFINE done == [Done(op, TRUE, -1, NoEntry) EXCEPT !.old = old]
    <2>2. done.op = op /\ done.saved = NoEntry
      BY DEF Done
    <2>3. NoEntry.type = "none"
      BY DEF NoEntry, Entry
    <2>4. StepOK(d, w)
      BY <1>2, SuperFields DEF HasFs
    <2>5. o.disk = w /\ o.done = done
      BY <2>1 DEF Outcome
    <2> HIDE DEF w, done
    <2>6. DoneOK(done, w)
      BY <2>2, <2>3 DEF DoneOK
    <2> QED BY <2>4, <2>5, <2>6 DEF OutcomeOK
  <1> QED BY <1>1, <1>2

\* Checking a file system, and repairing it.
LEMMA CheckOK ==
  ASSUME NEW d, DiskOK(d), NEW op, IsOp(op), op.kind = "Check", NEW o \in CheckOutcomes(d, op)
  PROVE  OutcomeOK(d, o)
  <1>1. CASE ~HasFs(d, op)
    <2>1. o = Outcome(d, Failed(op))
      BY <1>1 DEF CheckOutcomes
    <2> QED BY <2>1, FailureOK, StepSelf
  <1>2. CASE HasFs(d, op)
    <2>1. IsSuper(d, op.start) /\ op.fs = d[op.start].fs
      BY <1>2 DEF HasFs
    <2>2. op.fs \in {"ext", "ntfs"}
      BY <2>1, SuperFields
    <2>3. CASE op.fs = "ntfs"
      <3>1. o \in ChkdskOutcomes(d, op)
        BY <1>2, <2>3 DEF CheckOutcomes
      <3>2. PICK c \in Chkdsked(d, op) : o = Outcome(c, Failed(op)) \/ o = Outcome(c, Done(op, TRUE, -1, NoEntry))
        BY <3>1 DEF ChkdskOutcomes
      <3> DEFINE w == [d EXCEPT ![op.start].clean = TRUE]
      <3>3. c = d \/ c = w
        BY <3>2 DEF Chkdsked
      <3>4. StepOK(d, w)
        BY <2>1, SuperFields
      <3>5. StepOK(d, c)
        BY <3>3, <3>4, StepSelf
      <3> QED BY <3>2, <3>5, FailureOK, FinishedOK
    <2>4. CASE op.fs = "ext"
      <3> DEFINE w == [d EXCEPT ![op.start] = Super(@.fs, @.label, TRUE, FALSE)]
      <3>1. o \in SuperblockOutcomes(d, op)
        BY <1>2, <2>4 DEF CheckOutcomes
      <3>2. PICK c \in {d} \cup (IF op.repair /\ ~d[op.start].clean THEN {w} ELSE {}) :
                   o = Outcome(c, Done(op, TRUE, -1, NoEntry))
        BY <3>1 DEF SuperblockOutcomes
      <3>3. c = d \/ c = w
        BY <3>2
      <3>4. StepOK(d, w)
        BY <2>1, SuperStep
      <3>5. StepOK(d, c)
        BY <3>3, <3>4, StepSelf
      <3> QED BY <3>2, <3>5, FinishedOK
    <2> QED BY <2>2, <2>3, <2>4
  <1> QED BY <1>1, <1>2

-----------------------------------------------------------------------------
(* The steps                                                               *)

\* A new partition's GUID is a number.
LEMMA FreshGuidIs == ASSUME OInv PROVE FreshGuid \in Nat
  BY MaxStepsAssumption DEF OInv, FreshGuid

\* All outcomes of the operations that can be asked for.
LEMMA CreatesOK ==
  ASSUME OInv, NEW op \in Creates
  PROVE  IsOp(op) /\ \A o \in Outcomes(disk, op, FreshGuid) : OutcomeOK(disk, o)
  <1>1. PICK s \in Starts, c \in Counts, l \in BOOLEAN, a \in BOOLEAN : op = CreateOp(s, c, l, a)
    BY DEF Creates
  <1>2. IsOp(op) /\ op.kind = "Create" /\ op.start = s /\ op.count = c /\ op.fs = "ntfs"
    BY <1>1 DEF CreateOp, Op, IsOp, Nothing, Done, OpKinds
  <1>3. op.logical = l
    BY <1>1 DEF CreateOp, Op
  <1>4. op.active = a
    BY <1>1 DEF CreateOp, Op
  <1>5. op.logical \in BOOLEAN
    BY <1>1, <1>3, Zenon
  <1>6. op.active \in BOOLEAN
    BY <1>1, <1>4, Zenon
  <1>7. op.start \in Nat \ {0} /\ op.count \in Nat
    BY <1>1, <1>2, ParametersAssumption
  <1>8. ASSUME NEW o \in Outcomes(disk, op, FreshGuid) PROVE OutcomeOK(disk, o)
    <2>1. o \in CreateOutcomes(disk, op, FreshGuid)
      BY <1>2, <1>8 DEF Outcomes
    <2> QED BY <1>2, <1>5, <1>6, <1>7, <2>1, CreateOK, FreshGuidIs DEF OInv
  <1> QED BY <1>2, <1>8

\* The same for deleting,
LEMMA DeletesOK ==
  ASSUME OInv, NEW op \in Deletes
  PROVE  IsOp(op) /\ \A o \in Outcomes(disk, op, FreshGuid) : OutcomeOK(disk, o)
  <1>1. PICK i \in 0..MaxIndex : op = DeleteOp(i)
    BY DEF Deletes
  <1>2. IsOp(op) /\ op.kind = "Delete"
    BY <1>1 DEF DeleteOp, Op, IsOp, Nothing, Done, OpKinds
  <1>3. ASSUME NEW o \in Outcomes(disk, op, FreshGuid) PROVE OutcomeOK(disk, o)
    <2>1. o \in DeleteOutcomes(disk, op)
      BY <1>2, <1>3 DEF Outcomes
    <2> QED BY <1>2, <2>1, DeleteOK DEF OInv
  <1> QED BY <1>2, <1>3

\* moving and resizing,
LEMMA ResizesOK ==
  ASSUME OInv, NEW op \in Resizes
  PROVE  IsOp(op) /\ \A o \in Outcomes(disk, op, FreshGuid) : OutcomeOK(disk, o)
  <1>1. PICK i \in 0..MaxIndex, s \in Starts, c \in Counts : op = ResizeOp(i, s, c)
    BY DEF Resizes
  <1>2. IsOp(op) /\ op.kind = "Resize" /\ op.start = s /\ op.count = c
    BY <1>1 DEF ResizeOp, Op, IsOp, Nothing, Done, OpKinds
  <1>3. op.start \in Nat \ {0} /\ op.count \in Nat
    BY <1>1, <1>2, ParametersAssumption
  <1>4. ASSUME NEW o \in Outcomes(disk, op, FreshGuid) PROVE OutcomeOK(disk, o)
    <2>1. o \in ResizeOutcomes(disk, op)
      BY <1>2, <1>4 DEF Outcomes
    <2> QED BY <1>2, <1>3, <2>1, ResizeOK DEF OInv
  <1> QED BY <1>2, <1>4

\* flags,
LEMMA FlagsOpsOK ==
  ASSUME OInv, NEW op \in Flags
  PROVE  IsOp(op) /\ \A o \in Outcomes(disk, op, FreshGuid) : OutcomeOK(disk, o)
  <1>1. PICK i \in 0..MaxIndex, a \in BOOLEAN : op = FlagsOp(i, a)
    BY DEF Flags
  <1>2. IsOp(op) /\ op.kind = "SetFlags"
    BY <1>1 DEF FlagsOp, Op, IsOp, Nothing, Done, OpKinds
  <1>3. ASSUME NEW o \in Outcomes(disk, op, FreshGuid) PROVE OutcomeOK(disk, o)
    <2>1. o \in SetFlagsOutcomes(disk, op)
      BY <1>2, <1>3 DEF Outcomes
    <2> QED BY <1>2, <2>1, FlagsOK DEF OInv
  <1> QED BY <1>2, <1>3

\* formats of what is there,
LEMMA FormatsOK ==
  ASSUME OInv, NEW op \in Formats
  PROVE  IsOp(op) /\ \A o \in Outcomes(disk, op, FreshGuid) : OutcomeOK(disk, o)
  <1>1. PICK e \in Entries : op = FormatOp(e)
    BY DEF Formats
  <1>2. Placed(e, disk)
    <2>1. PICK i \in 1..Len(table.entries) : e = table.entries[i]
      BY DEF Entries
    <2> QED BY <2>1, ParseIs DEF OInv
  <1> DEFINE base == Op("Format", e.index, e.start, e.count, FALSE, FALSE)
  <1>3. IsOp(base) /\ base.kind = "Format" /\ base.start = e.start /\ base.count = e.count
        /\ DOMAIN base = DOMAIN Nothing.op /\ base = [x \in DOMAIN base |-> base[x]]
    <2>1. IsOp(base) /\ base.kind = "Format" /\ base.start = e.start /\ base.count = e.count
      BY DEF Op, IsOp, Nothing, Done, OpKinds
    <2>2. base = [x \in DOMAIN base |-> base[x]]
      BY DEF Op
    <2> QED BY <2>1, <2>2 DEF IsOp
  <1>4. op = [base EXCEPT !.fs = "ext"] /\ "fs" \in DOMAIN base
    BY <1>1 DEF FormatOp, Op
  <1> HIDE DEF base
  <1>5. op.kind = "Format" /\ op.start = e.start /\ op.count = e.count /\ op.fs = "ext" /\ DOMAIN op = DOMAIN base
    BY <1>3, <1>4
  <1>6. IsOp(op)
    BY <1>3, <1>5 DEF IsOp, OpKinds
  <1>7. Placed(op, disk)
    BY <1>2, <1>5 DEF Placed
  <1>8. ASSUME NEW o \in Outcomes(disk, op, FreshGuid) PROVE OutcomeOK(disk, o)
    <2>1. o \in FormatOutcomes(disk, op, FreshGuid)
      BY <1>5, <1>8 DEF Outcomes
    <2> QED BY <1>5, <1>6, <1>7, <2>1, FormatOK DEF OInv
  <1> QED BY <1>6, <1>8

\* labels,
LEMMA LabelsOK ==
  ASSUME OInv, NEW op \in SetLabels
  PROVE  IsOp(op) /\ \A o \in Outcomes(disk, op, FreshGuid) : OutcomeOK(disk, o)
  <1>1. PICK e \in Mounted, l \in Labels : op = LabelOp(e, disk[e.start].fs, l)
    BY DEF SetLabels
  <1>2. IsOp(op) /\ op.kind = "SetLabel"
    BY <1>1 DEF LabelOp, Op, IsOp, Nothing, Done, OpKinds
  <1>3. ASSUME NEW o \in Outcomes(disk, op, FreshGuid) PROVE OutcomeOK(disk, o)
    <2>1. o \in SetLabelOutcomes(disk, op)
      BY <1>2, <1>3 DEF Outcomes
    <2> QED BY <1>2, <2>1, LabelOK DEF OInv
  <1> QED BY <1>2, <1>3

\* and checks.
LEMMA ChecksOK ==
  ASSUME OInv, NEW op \in Checks
  PROVE  IsOp(op) /\ \A o \in Outcomes(disk, op, FreshGuid) : OutcomeOK(disk, o)
  <1>1. PICK e \in Mounted, r \in BOOLEAN : op = CheckOp(e, disk[e.start].fs, r)
    BY DEF Checks
  <1>2. IsOp(op) /\ op.kind = "Check"
    BY <1>1 DEF CheckOp, Op, IsOp, Nothing, Done, OpKinds
  <1>3. ASSUME NEW o \in Outcomes(disk, op, FreshGuid) PROVE OutcomeOK(disk, o)
    <2>1. o \in CheckOutcomes(disk, op)
      BY <1>2, <1>3 DEF Outcomes
    <2> QED BY <1>2, <2>1, CheckOK DEF OInv
  <1> QED BY <1>2, <1>3

\* A step changes a disk the way its operation does.
DiskStep == StepOK(disk, disk') /\ DoneOK(last', disk')

\* An operation that is executed takes one of its outcomes, or fails early.
LEMMA ExecuteOK ==
  ASSUME OInv, NEW op, IsOp(op), execute(op),
         \A o \in Outcomes(disk, op, FreshGuid) : OutcomeOK(disk, o)
  PROVE  DiskStep /\ table' = parse(disk') /\ steps' \in 0..MaxSteps
  <1>1. PICK o \in Outcomes(disk, op, FreshGuid) \cup EarlyFailure(disk, op) : ToDisk(o.disk) /\ last' = o.done
    BY DEF execute
  <1>2. disk' = o.disk /\ table' = parse(disk')
    BY <1>1 DEF ToDisk
  <1>3. OutcomeOK(disk, o)
    <2>1. CASE o \in Outcomes(disk, op, FreshGuid)
      BY <2>1
    <2>2. CASE o \in EarlyFailure(disk, op)
      <3>1. o = Outcome(disk, Failed(op))
        BY <2>2 DEF EarlyFailure
      <3> QED BY <3>1, FailureOK, StepSelf DEF OInv
    <2> QED BY <1>1, <2>1, <2>2
  <1>4. DiskStep
    BY <1>1, <1>2, <1>3 DEF OutcomeOK, DiskStep
  <1>5. steps' \in 0..MaxSteps
    BY MaxStepsAssumption DEF execute, OInv
  <1> QED BY <1>2, <1>4, <1>5

\* What has been undone cannot be undone again.
LEMMA UndoneOK == ASSUME OInv, NEW w PROVE DoneOK(Undone, w)
  <1>1. IsOp(last.op)
    BY DEF OInv, DoneOK
  <1>2. IsOp([last.op EXCEPT !.kind = "undo"])
    <2> DEFINE op == [last.op EXCEPT !.kind = "undo"]
    <2>1. "kind" \in DOMAIN last.op /\ DOMAIN op = DOMAIN last.op
      BY <1>1 DEF IsOp, Nothing, Done, Op
    <2>2. op.kind = "undo"
      BY <2>1
    <2> HIDE DEF op
    <2> QED BY <1>1, <2>1, <2>2 DEF IsOp, OpKinds, op
  <1>3. Undone.ok = FALSE /\ Undone.op = [last.op EXCEPT !.kind = "undo"] /\ Undone.saved.type = "none"
    BY DEF Undone, Nothing, Done, NoEntry, Entry
  <1>4. ~canUndo(Undone)
    BY <1>3 DEF canUndo
  <1> QED BY <1>2, <1>3, <1>4 DEF DoneOK

\* The table that undo() makes.
LEMMA UndoTableOK ==
  ASSUME OInv, canUndo(last), last.op.kind # "SetLabel", UndoTable(table, last, FreshGuid) # NoTable
  PROVE  LET new == UndoTable(table, last, FreshGuid) IN
         GoodFor(new, disk) /\ Changed(DiskExtents(disk), PrimaryExtents(new))
  <1> DEFINE new == UndoTable(table, last, FreshGuid)
             saved == last.saved
  <1>1. /\ DiskOK(disk) /\ table = parse(disk) /\ Serializable(table)
        /\ last.op.kind \in {"Create", "Delete", "Resize", "SetFlags"}
        /\ last.op.kind \in {"Delete", "Resize", "SetFlags"} => saved \in EntrySet
        /\ saved.type = "protective" => disk[1].k # "gpt"
    BY DEF OInv, DoneOK
  <1>2. Replaces(new, table, disk)
    <2>1. CASE last.op.kind = "Create"
      <3>1. new = deletePartition(table, last.created)
        BY <2>1 DEF UndoTable, UndoCreate
      <3> HIDE DEF new
      <3> QED BY <1>1, <3>1, DeleteIs DEF new
    <2>2. CASE last.op.kind = "Delete"
      <3> DEFINE p == ParamsOf(saved, FreshGuid)
      <3>1. new = addPartition(table, p)
        BY <2>2 DEF UndoTable, UndoDelete
      <3>2. /\ p.start = saved.start /\ p.count = saved.count /\ p.type = saved.type
            /\ p.guid = FreshGuid
        BY DEF ParamsOf
      <3>3. p.active = saved.active
        BY Zenon DEF ParamsOf
      <3>4. p.logical = saved.logical
        BY Zenon DEF ParamsOf
      <3>5. saved \in EntrySet
        BY <1>1, <2>2
      <3> HIDE DEF new, p, saved
      <3>6. /\ saved.start \in Nat \ {0} /\ saved.count \in Nat /\ saved.type \in PartitionTypes
            /\ saved.active \in BOOLEAN /\ saved.logical \in BOOLEAN
        BY <3>5 DEF EntrySet
      <3>7. p.active \in BOOLEAN /\ p.logical \in BOOLEAN
        BY <3>3, <3>4, <3>6, Zenon
      <3>8. ParamsOK(p, disk)
        BY <1>1, <3>2, <3>6, <3>7, FreshGuidIs DEF ParamsOK
      <3> QED BY <1>1, <3>1, <3>8, AddIs DEF new
    <2>3. CASE last.op.kind = "Resize"
      <3>1. new = resizePartition(table, last.op.index, saved.start, saved.count)
        BY <2>3 DEF UndoTable, UndoResize
      <3>2. saved.start \in Nat \ {0} /\ saved.count \in Nat
        BY <1>1, <2>3 DEF EntrySet
      <3> HIDE DEF new
      <3> QED BY <1>1, <3>1, <3>2, ResizeIs DEF new
    <2>4. CASE last.op.kind = "SetFlags"
      <3> DEFINE x == IF saved.active THEN last.op.index ELSE -1
      <3>1. new = UndoSetFlags(table, last)
        BY <2>4 DEF UndoTable
      <3>2. new = IF table.kind = "MBR" THEN setActivePartition(table, x) ELSE table
        <4>1. HasIndex(table, last.op.index)
          BY <3>1 DEF UndoSetFlags
        <4> QED BY <3>1, <4>1 DEF UndoSetFlags
      <3> HIDE DEF new, x
      <3> QED BY <1>1, <3>2, FlagsAre DEF new
    <2> QED BY <1>1, <2>1, <2>2, <2>3, <2>4
  <1>3. PrimaryExtents(table) = DiskExtents(disk)
    BY <1>1, ParseIs
  <1> HIDE DEF new
  <1> QED BY <1>2, <1>3 DEF Replaces, new

\* Undoing it.
LEMMA UndoOK ==
  ASSUME OInv, undo
  PROVE  DiskStep /\ table' = parse(disk') /\ steps' \in 0..MaxSteps
  <1> DEFINE new == UndoTable(table, last, FreshGuid)
  <1>1. DiskOK(disk) /\ table = parse(disk) /\ DoneOK(last, disk)
    BY DEF OInv
  <1>2. canUndo(last) /\ last.op.kind # "SetLabel"
    BY DEF undo
  <1>3. steps' \in 0..MaxSteps
    BY MaxStepsAssumption DEF undo, OInv
  <1>4. CASE new = NoTable
    <2>1. disk' = disk /\ table' = table /\ last' = last
      BY <1>4 DEF undo
    <2>2. StepOK(disk, disk') /\ DoneOK(last', disk') /\ table' = parse(disk')
      BY <1>1, <2>1, StepSelf
    <2> QED BY <1>3, <2>2 DEF DiskStep
  <1>5. CASE new # NoTable
    <2>1. GoodFor(new, disk) /\ Changed(DiskExtents(disk), PrimaryExtents(new))
      BY <1>2, <1>5, UndoTableOK
    <2>2. \/ ToDisk(Written(disk, new)) /\ last' = Undone
          \/ (\E d \in CutShort(disk, new) : ToDisk(d)) /\ last' = last
      BY <1>5 DEF undo
    <2> HIDE DEF new
    <2>3. Len(serialize(new)) \in Nat
      BY <2>1, SerializedLength
    <2>4. \A n \in 0..Len(serialize(new)) : StepOK(disk, WriteAt(disk, 0, serialize(new), n))
      BY <1>1, <2>1, WriteStep
    <2>5. PICK n \in 0..Len(serialize(new)) :
             ToDisk(WriteAt(disk, 0, serialize(new), n)) /\ (last' = Undone \/ last' = last)
      BY <2>2, <2>3 DEF Written, CutShort
    <2>6. StepOK(disk, disk') /\ table' = parse(disk')
      BY <2>4, <2>5 DEF ToDisk
    <2>7. DoneOK(last', disk')
      BY <1>1, <2>5, <2>6, UndoneOK, DoneKeeps DEF StepOK
    <2> QED BY <1>3, <2>6, <2>7 DEF DiskStep
  <1> QED BY <1>4, <1>5

\* Undoing a label.
LEMMA UndoLabelOK ==
  ASSUME OInv, undoSetLabel
  PROVE  DiskStep /\ table' = parse(disk') /\ steps' \in 0..MaxSteps
  <1> DEFINE op == UndoLabelOp(last)
  <1>1. DiskOK(disk) /\ DoneOK(last, disk) /\ IsOp(last.op) /\ last.op.kind = "SetLabel"
    BY DEF OInv, DoneOK, undoSetLabel
  <1>2. PICK o \in SetLabelOutcomes(disk, op) \cup EarlyFailure(disk, last.op) :
           ToDisk(o.disk) /\ last' = IF o.done.ok THEN Undone ELSE last
    BY DEF undoSetLabel
  <1>3. IsOp(op) /\ op.kind = "SetLabel"
    BY <1>1 DEF UndoLabelOp, IsOp, Nothing, Done, Op
  <1>4. StepOK(disk, o.disk)
    <2>1. CASE o \in SetLabelOutcomes(disk, op)
      <3> HIDE DEF op
      <3> QED BY <1>1, <1>3, <2>1, LabelOK DEF OutcomeOK
    <2>2. CASE o \in EarlyFailure(disk, last.op)
      <3>1. o.disk = disk
        BY <2>2 DEF EarlyFailure, Outcome
      <3> QED BY <1>1, <3>1, StepSelf
    <2> QED BY <1>2, <2>1, <2>2
  <1>5. disk' = o.disk /\ table' = parse(disk') /\ (last' = Undone \/ last' = last)
    BY <1>2 DEF ToDisk
  <1>6. DoneOK(last', disk')
    BY <1>1, <1>4, <1>5, UndoneOK, DoneKeeps DEF StepOK
  <1>7. steps' \in 0..MaxSteps
    BY MaxStepsAssumption DEF undoSetLabel, OInv
  <1> QED BY <1>4, <1>5, <1>6, <1>7 DEF DiskStep

\* Every step, then.
LEMMA EveryStep ==
  ASSUME OInv, ONext
  PROVE  DiskStep /\ table' = parse(disk') /\ steps' \in 0..MaxSteps
  <1>1. CASE \E op \in Creates : execute(op)
    BY <1>1, CreatesOK, ExecuteOK
  <1>2. CASE \E op \in Deletes : execute(op)
    BY <1>2, DeletesOK, ExecuteOK
  <1>3. CASE \E op \in Resizes : execute(op)
    BY <1>3, ResizesOK, ExecuteOK
  <1>4. CASE \E op \in Flags : execute(op)
    BY <1>4, FlagsOpsOK, ExecuteOK
  <1>5. CASE \E op \in Formats : execute(op)
    BY <1>5, FormatsOK, ExecuteOK
  <1>6. CASE \E op \in SetLabels : execute(op)
    BY <1>6, LabelsOK, ExecuteOK
  <1>7. CASE \E op \in Checks : execute(op)
    BY <1>7, ChecksOK, ExecuteOK
  <1> QED BY <1>1, <1>2, <1>3, <1>4, <1>5, <1>6, <1>7, UndoOK, UndoLabelOK DEF ONext

-----------------------------------------------------------------------------
(* The theorems                                                            *)

\* The usable sectors of a disk.
DiskUsable(d) ==
  IF MbrOK(d) THEN [first |-> 0, last |-> DiskSectors - 1]
  ELSE IF GptOK(d) THEN [first |-> d[1].first, last |-> d[1].last]
  ELSE [first |-> 0, last |-> 0]

\* The map of a disk: of its table and of its sectors.
LEMMA MapIs ==
  ASSUME NEW d, DiskOK(d), NEW t, t = parse(d)
  PROVE  /\ (IF Serializable(t) THEN PrimaryExtents(t) ELSE {}) = DiskExtents(d)
         /\ (IF Serializable(t) THEN [first |-> t.first, last |-> t.last]
             ELSE [first |-> 0, last |-> 0]) = DiskUsable(d)
  <1>1. Serializable(t) <=> MbrOK(d) \/ GptOK(d)
    BY ParseIs
  <1>2. Serializable(t) => PrimaryExtents(t) = DiskExtents(d)
    BY ParseIs
  <1>3. ~Serializable(t) => DiskExtents(d) = {}
    BY ParseIs
  <1>4. MbrOK(d) => t.first = 0 /\ t.last = DiskSectors - 1
    BY ParseIs
  <1>5. GptOK(d) => t.first = d[1].first /\ t.last = d[1].last
    BY ParseIs
  <1> QED BY <1>1, <1>2, <1>3, <1>4, <1>5 DEF DiskUsable

\* The map is well formed.
LEMMA MapWellFormed ==
  ASSUME NEW d, DiskOK(d)
  PROVE  Map!WellFormed(DiskExtents(d), DiskUsable(d))
  <1> DEFINE t == parse(d)
             u == DiskUsable(d)
  <1>1. CASE ~Serializable(t)
    <2>1. DiskExtents(d) = {}
      BY <1>1, ParseIs
    <2> QED BY <2>1 DEF Map!WellFormed
  <1>2. CASE Serializable(t)
    <2>1. DiskExtents(d) = {ExtentOf(t.entries[i]) : i \in PrimaryAt(t)}
      BY <1>2, ParseIs DEF PrimaryExtents
    <2>2. GoodFor(t, d) /\ PrimaryAt(t) \subseteq 1..Len(t.entries) /\ Len(t.entries) \in Nat
      BY <1>2, ParseIs DEF PrimaryAt
    <2>3. CASE MbrTable(t) /\ MbrOK(d)
      <3>1. u.first = 0 /\ u.last = DiskSectors - 1
        BY <2>3 DEF DiskUsable
      <3> HIDE DEF t, u
      <3>2. ASSUME NEW i \in PrimaryAt(t)
            PROVE  /\ t.entries[i].start \in Nat /\ t.entries[i].count \in Nat \ {0}
                   /\ t.entries[i].start >= u.first
                   /\ t.entries[i].start + t.entries[i].count - 1 <= u.last
        <4>1. t.entries[i] \in EntrySet /\ t.entries[i].count > 0
              /\ t.entries[i].start + t.entries[i].count <= DiskSectors
          BY <2>2, <2>3 DEF MbrTable
        <4> QED BY <3>1, <4>1, FirstSectors DEF EntrySet
      <3>3. \A i, j \in PrimaryAt(t) : i # j => ~Overlap(t.entries[i], t.entries[j])
        BY <2>3 DEF MbrTable
      <3> QED BY <2>1, <3>2, <3>3 DEF Map!WellFormed, Map!Extent, Map!Fits, Map!Apart, ExtentOf, Overlap, u
    <2>4. CASE GptTable(t, d[1].first, d[1].last) /\ GptOK(d)
      <3>1. u.first = d[1].first /\ u.last = d[1].last /\ d[1].first \in Nat /\ d[1].last \in Nat
        BY <2>4, Kinds DEF DiskUsable, GptOK
      <3> HIDE DEF t, u
      <3>2. ASSUME NEW i \in PrimaryAt(t)
            PROVE  /\ t.entries[i].start \in Nat /\ t.entries[i].count \in Nat \ {0}
                   /\ t.entries[i].start >= u.first
                   /\ t.entries[i].start + t.entries[i].count - 1 <= u.last
        <4>1. InGpt(t.entries[i], d[1].first, d[1].last)
          BY <2>2, <2>4 DEF GptTable
        <4> QED BY <3>1, <4>1 DEF EntrySet, InGpt
      <3>3. \A i, j \in PrimaryAt(t) : i # j => ~Overlap(t.entries[i], t.entries[j])
        BY <2>2, <2>4 DEF GptTable, AwayFrom
      <3> QED BY <2>1, <3>2, <3>3 DEF Map!WellFormed, Map!Extent, Map!Fits, Map!Apart, ExtentOf, Overlap, u
    <2> QED BY <2>2, <2>3, <2>4 DEF GoodFor
  <1> QED BY <1>1, <1>2

\* Few is at most one.
LEMMA FewIs == ASSUME NEW S, Few(S) PROVE Cardinality(S) <= 1
  <1>1. PICK x : S \in SUBSET {x}
    BY DEF Few
  <1>2. S = {} \/ S = {x}
    BY <1>1
  <1>3. Cardinality({}) = 0
    BY FS_EmptySet
  <1>4. Cardinality({x}) = 1
    BY FS_Singleton
  <1>5. CASE S = {}
    BY <1>3, <1>5
  <1>6. CASE S = {x}
    BY <1>4, <1>6
  <1> QED BY <1>2, <1>5, <1>6

\* PartitionMap counts as everybody does.
LEMMA SameCardinality == \A S : Map!Cardinality(S) = Cardinality(S)
  BY DEF Map!Cardinality, Cardinality

\* What is usable stays so.
LEMMA UsableKept ==
  ASSUME NEW d, DiskOK(d), NEW w, Keeps(d, w)
  PROVE  DiskUsable(w) = DiskUsable(d)
  <1>1. MbrOK(d) \/ GptOK(d) \/ d[0] = DriverDescriptor
    BY DEF DiskOK
  <1> QED BY <1>1, Kinds DEF Keeps, DiskUsable

\* OInv holds at first.
LEMMA OInvAtFirst == ASSUME OInit PROVE OInv
  <1>1. DiskOK(disk) /\ table = parse(disk) /\ last = Nothing /\ steps = 0
    BY LayoutsAssumption DEF OInit
  <1>2. DoneOK(Nothing, disk)
    <2>1. IsOp(Nothing.op)
      BY DEF IsOp, Nothing, Done, Op, OpKinds
    <2>2. Nothing.ok = FALSE /\ Nothing.saved.type = "none"
      BY DEF Nothing, Done, NoEntry, Entry
    <2> QED BY <2>1, <2>2 DEF DoneOK, canUndo
  <1> QED BY <1>1, <1>2, MaxStepsAssumption DEF OInv

\* OInv holds of whatever the operations do: the disk always carries a sound table of the
\* kind it began with (or a driver descriptor), the table in memory is the one on the disk,
\* and what undo() saved can be put back there.
THEOREM OInvAlways == OSpec => []OInv
  <1>1. OInit => OInv
    BY OInvAtFirst
  <1>2. OInv /\ [ONext]_ovars => OInv'
    <2> SUFFICES ASSUME OInv, [ONext]_ovars PROVE OInv'
      OBVIOUS
    <2>1. CASE ONext
      <3>1. DiskStep /\ table' = parse(disk') /\ steps' \in 0..MaxSteps
        BY <2>1, EveryStep
      <3>2. DiskOK(disk')
        BY <3>1, KeepsOK DEF DiskStep, StepOK, OInv
      <3> QED BY <3>1, <3>2 DEF OInv, DiskStep
    <2>2. CASE UNCHANGED ovars
      BY <2>2 DEF OInv, ovars
    <2> QED BY <2>1, <2>2
  <1> QED BY <1>1, <1>2, PTL DEF OSpec

\* The operations implement PartitionMap (MapSpec): whatever is executed, undone or cut
\* short, one extent at most comes and one goes, and the extents stay apart and inside
\* the usable sectors, which stay what they were.
THEOREM OperationsKeepTheMap == OSpec => MapSpec
  <1>1. OInit => Map!Init
    <2> SUFFICES ASSUME OInit PROVE Map!Init
      OBVIOUS
    <2>1. DiskOK(disk) /\ table = parse(disk)
      BY LayoutsAssumption DEF OInit
    <2> QED BY <2>1, MapIs, MapWellFormed DEF Map!Init
  <1>2. OInv /\ OInv' /\ [ONext]_ovars =>
          [Map!Next]_<<IF Serializable(table) THEN PrimaryExtents(table) ELSE {},
                       IF Serializable(table) THEN [first |-> table.first, last |-> table.last]
                       ELSE [first |-> 0, last |-> 0]>>
    <2> SUFFICES ASSUME OInv, OInv', [ONext]_ovars
                 PROVE  [Map!Next]_<<IF Serializable(table) THEN PrimaryExtents(table) ELSE {},
                                     IF Serializable(table) THEN [first |-> table.first, last |-> table.last]
                                     ELSE [first |-> 0, last |-> 0]>>
      OBVIOUS
    <2>1. CASE ONext
      <3>1. StepOK(disk, disk')
        BY <2>1, EveryStep DEF DiskStep
      <3>2. /\ DiskOK(disk) /\ table = parse(disk)
            /\ DiskOK(disk') /\ table' = parse(disk')
        BY DEF OInv
      <3>3. DiskUsable(disk') = DiskUsable(disk)
        BY <3>1, <3>2, UsableKept DEF StepOK
      <3>4. Map!WellFormed(DiskExtents(disk'), DiskUsable(disk))
        BY <3>2, <3>3, MapWellFormed
      <3>5. Map!OneChange(DiskExtents(disk), DiskExtents(disk'))
        <4>1. Few(DiskExtents(disk) \ DiskExtents(disk')) /\ Few(DiskExtents(disk') \ DiskExtents(disk))
          BY <3>1 DEF StepOK, Changed
        <4>2. Cardinality(DiskExtents(disk) \ DiskExtents(disk')) <= 1
          BY <4>1, FewIs
        <4>3. Cardinality(DiskExtents(disk') \ DiskExtents(disk)) <= 1
          BY <4>1, FewIs
        <4> QED BY <4>2, <4>3, SameCardinality DEF Map!OneChange
      <3>6. /\ (IF Serializable(table) THEN PrimaryExtents(table) ELSE {}) = DiskExtents(disk)
            /\ (IF Serializable(table) THEN [first |-> table.first, last |-> table.last]
                ELSE [first |-> 0, last |-> 0]) = DiskUsable(disk)
        BY <3>2, MapIs
      <3>7. /\ (IF Serializable(table') THEN PrimaryExtents(table') ELSE {}) = DiskExtents(disk')
            /\ (IF Serializable(table') THEN [first |-> table'.first, last |-> table'.last]
                ELSE [first |-> 0, last |-> 0]) = DiskUsable(disk')
        BY <3>2, MapIs
      <3> QED BY <3>3, <3>4, <3>5, <3>6, <3>7 DEF Map!Next
    <2>2. CASE UNCHANGED ovars
      BY <2>2 DEF ovars
    <2> QED BY <2>1, <2>2
  <1> QED BY <1>1, <1>2, OInvAlways, PTL DEF OSpec, MapSpec, Map!Spec

-----------------------------------------------------------------------------
(* Slots of a GPT                                                          *)

\* The slot that an entry is in says what the entry says.
Holds(d, e) == d[2].slots[e.index + 1] = GptEntry(e.guid, e.start, e.start + e.count - 1)

\* The entries that are read are those of the used slots.
LEMMA GptSlotsRead ==
  ASSUME NEW d, DiskOK(d), GptOK(d)
  PROVE  /\ \A k \in 1..Len(parse(d).entries) : Holds(d, parse(d).entries[k])
         /\ \A i \in UsedEntries(d) : \E k \in 1..Len(parse(d).entries) : parse(d).entries[k].index = i - 1
  <1> DEFINE slots == d[2].slots
             entry(i) == Entry(i - 1, "basic", FALSE, FALSE, slots[i].guid, slots[i].start,
                               slots[i].end - slots[i].start + 1)
             s == [i \in 1..GptSlots |-> entry(i)]
             W == UsedEntries(d)
             t == parse(d)
             es == Kept(s, W)
  <1>1. t.entries = es
    <2>1. t = ParseGpt(d)
      BY ParseGptIs
    <2>2. ParseGpt(d) = Table("GPT", es, d[1].first, d[1].last)
      BY DEF ParseGpt, GptOK, UsedEntries
    <2> HIDE DEF t, es
    <2> QED BY <2>1, <2>2 DEF Table
  <1>2. Len(s) = GptSlots /\ GptSlots \in Nat /\ W \in SUBSET (1..Len(s))
    BY FirstSectors DEF UsedEntries
  <1>3. ASSUME NEW i \in W
        PROVE  i \in 1..GptSlots /\ s[i] = entry(i) /\ slots[i] \in [guid : Nat, start : Nat, end : Nat]
    <2>1. i \in 1..GptSlots
      BY DEF UsedEntries
    <2>2. slots[i] \in [guid : Nat, start : Nat, end : Nat]
      BY <2>1 DEF GptOK
    <2>3. s[i] = entry(i)
      BY <2>1
    <2> HIDE DEF s, entry, slots
    <2> QED BY <2>1, <2>2, <2>3
  <1> HIDE DEF s, W, t
  <1>4. PICK at : IsKept(Kept(s, W), s, W, at)
    BY <1>2, KeptIs
  <1>5. at \in Seq(W) /\ Len(es) = Len(at) /\ es = [n \in 1..Len(at) |-> s[at[n]]] /\ Len(at) \in Nat
        /\ \A i \in W : \E n \in 1..Len(at) : at[n] = i
    BY <1>4 DEF IsKept
  <1> HIDE DEF es, entry
  <1>6. ASSUME NEW n \in 1..Len(es)
        PROVE  n \in 1..Len(at) /\ at[n] \in W /\ es[n] = entry(at[n])
    BY <1>3, <1>5
  <1> HIDE DEF slots
  <1>7. ASSUME NEW i \in W
        PROVE  /\ entry(i).index = i - 1
               /\ slots[i] = GptEntry(entry(i).guid, entry(i).start, entry(i).start + entry(i).count - 1)
               /\ entry(i).index + 1 = i
    <2>1. /\ entry(i).index = i - 1 /\ entry(i).guid = slots[i].guid /\ entry(i).start = slots[i].start
          /\ entry(i).count = slots[i].end - slots[i].start + 1
      BY DEF entry, Entry
    <2>2. i \in Nat /\ slots[i].start \in Nat /\ slots[i].end \in Nat
      BY <1>2, <1>3
    <2>3. slots[i] = GptEntry(slots[i].guid, slots[i].start, slots[i].end)
      BY <1>3 DEF GptEntry
    <2>4. entry(i).start + entry(i).count - 1 = slots[i].end /\ entry(i).index + 1 = i
      BY <2>1, <2>2
    <2> QED BY <2>1, <2>3, <2>4
  <1>8. \A k \in 1..Len(es) : Holds(d, es[k])
    BY <1>6, <1>7 DEF Holds, slots
  <1>9. ASSUME NEW i \in W PROVE \E k \in 1..Len(es) : es[k].index = i - 1
    <2>1. PICK n \in 1..Len(at) : at[n] = i
      BY <1>5
    <2> QED BY <1>5, <1>6, <1>7, <2>1
  <1> QED BY <1>1, <1>8, <1>9 DEF t, W

\* And they are written there.
LEMMA GptSlotsWritten ==
  ASSUME NEW w, NEW lo \in Nat, NEW hi \in Nat, NEW u, GptTable(u, lo, hi), w[2] = serialize(u)[3]
  PROVE  /\ \A k \in 1..Len(u.entries) : Holds(w, u.entries[k])
         /\ \A i \in UsedEntries(w) : \E k \in 1..Len(u.entries) : u.entries[k].index = i - 1
  <1> DEFINE es == u.entries
             at(i) == FindIndex(u, i - 1)
             entry(e) == GptEntry(e.guid, e.start, e.start + e.count - 1)
             slots == [i \in 1..GptSlots |-> IF HasIndex(u, i - 1) THEN entry(es[at(i)]) ELSE UnusedEntry]
  <1>1. w[2].slots = slots
    <2>1. u.kind = "GPT"
      BY DEF GptTable, Table
    <2>2. w[2] = GptEntries(slots)
      <3> DEFINE secs == serialize(u)
      <3>1. secs[3] = GptEntries([i \in 1..GptSlots |->
                        IF HasIndex(u, i - 1)
                        THEN LET e == u.entries[FindIndex(u, i - 1)]
                             IN GptEntry(e.guid, e.start, e.start + e.count - 1)
                        ELSE UnusedEntry])
        BY <2>1, GptSectors
      <3>2. w[2] = secs[3]
        OBVIOUS
      <3> HIDE DEF secs
      <3> QED BY <3>1, <3>2
    <2> HIDE DEF slots
    <2> QED BY <2>2 DEF GptEntries
  <1>2. es \in Seq(EntrySet) /\ Len(es) \in Nat
    BY DEF GptTable
  <1>3. ASSUME NEW i \in 1..GptSlots, HasIndex(u, i - 1)
        PROVE  at(i) \in 1..Len(es) /\ es[at(i)].index = i - 1 /\ slots[i] = entry(es[at(i)])
    BY <1>2, <1>3, FindIndexIs
  <1>4. \A i \in 1..GptSlots : ~HasIndex(u, i - 1) => slots[i] = UnusedEntry
    OBVIOUS
  <1> HIDE DEF slots, at
  <1>5. ASSUME NEW k \in 1..Len(es) PROVE Holds(w, es[k])
    <2> DEFINE i == es[k].index + 1
    <2>1. InGpt(es[k], lo, hi)
      BY DEF GptTable
    <2>2. i \in 1..GptSlots /\ i - 1 = es[k].index
      BY <2>1, FirstSectors, SlotOfIndex DEF InGpt
    <2>3. HasIndex(u, i - 1)
      BY <2>2 DEF HasIndex
    <2>4. at(i) \in 1..Len(es) /\ es[at(i)].index = es[k].index /\ slots[i] = entry(es[at(i)])
      BY <1>3, <2>2, <2>3
    <2>5. at(i) = k
      BY <2>4 DEF GptTable, AwayFrom
    <2> HIDE DEF entry
    <2>6. slots[i] = entry(es[k])
      BY <2>4, <2>5
    <2> QED BY <1>1, <2>6 DEF Holds, entry
  <1>6. ASSUME NEW i \in UsedEntries(w) PROVE \E k \in 1..Len(es) : es[k].index = i - 1
    <2>1. i \in 1..GptSlots /\ slots[i] # UnusedEntry
      BY <1>1 DEF UsedEntries
    <2> QED BY <1>3, <1>4, <2>1
  <1> HIDE DEF es
  <1>7. \A k \in 1..Len(es) : Holds(w, es[k])
    BY <1>5
  <1>8. \A i \in UsedEntries(w) : \E k \in 1..Len(es) : es[k].index = i - 1
    BY <1>6
  <1> QED BY <1>7, <1>8 DEF es

\* What an operation does to a GPT table: entries it does not name stay as they are, and
\* an entry that is new or changed begins where it was asked to.
TableStep(t, u, op) ==
  /\ \A k \in 1..Len(t.entries) :
       t.entries[k].index # op.index => \E m \in 1..Len(u.entries) : u.entries[m] = t.entries[k]
  /\ \A m \in 1..Len(u.entries) :
       u.entries[m].start = op.start \/ \E k \in 1..Len(t.entries) : u.entries[m] = t.entries[k]

\* The same of the slots on the disk.
SlotStep(d, w, op) ==
  /\ \A i \in UsedEntries(d) : i - 1 # op.index => w[2].slots[i] = d[2].slots[i]
  /\ \A i \in UsedEntries(w) : w[2].slots[i] = d[2].slots[i] \/ w[2].slots[i].start = op.start

\* Nothing happens to the slots.
LEMMA SlotsSame == ASSUME NEW d, NEW w, w[2] = d[2], NEW op PROVE SlotStep(d, w, op)
  BY DEF SlotStep, UsedEntries

\* A table that is written does to the slots what was done to it.
LEMMA SlotStepFrom ==
  ASSUME NEW d, DiskOK(d), GptOK(d), NEW u, GptTable(u, d[1].first, d[1].last), NEW op,
         TableStep(parse(d), u, op), NEW w, w[2] = serialize(u)[3]
  PROVE  SlotStep(d, w, op)
  <1> DEFINE t == parse(d)
             te == t.entries
             ue == u.entries
  <1>1. d[1].first \in Nat /\ d[1].last \in Nat
    BY DEF GptOK
  <1>2. /\ \A k \in 1..Len(te) : Holds(d, te[k])
        /\ \A i \in UsedEntries(d) : \E k \in 1..Len(te) : te[k].index = i - 1
    BY GptSlotsRead
  <1>3. /\ \A k \in 1..Len(ue) : Holds(w, ue[k])
        /\ \A i \in UsedEntries(w) : \E k \in 1..Len(ue) : ue[k].index = i - 1
    <2> DEFINE lo == d[1].first
               hi == d[1].last
    <2>1. lo \in Nat /\ hi \in Nat /\ GptTable(u, lo, hi)
      BY <1>1
    <2> HIDE DEF lo, hi
    <2> QED BY <2>1, GptSlotsWritten
  <1> HIDE DEF t
  <1>4. ASSUME NEW i \in UsedEntries(d), i - 1 # op.index PROVE w[2].slots[i] = d[2].slots[i]
    <2>1. PICK k \in 1..Len(te) : te[k].index = i - 1
      BY <1>2
    <2>2. PICK m \in 1..Len(ue) : ue[m] = te[k]
      BY <1>4, <2>1 DEF TableStep, t
    <2>3. i \in Nat /\ (i - 1) + 1 = i
      BY FirstSectors DEF UsedEntries
    <2>4. Holds(d, te[k]) /\ Holds(w, te[k])
      BY <1>2, <1>3, <2>2
    <2> QED BY <2>1, <2>3, <2>4 DEF Holds
  <1>5. ASSUME NEW i \in UsedEntries(w) PROVE w[2].slots[i] = d[2].slots[i] \/ w[2].slots[i].start = op.start
    <2>1. PICK m \in 1..Len(ue) : ue[m].index = i - 1
      BY <1>3
    <2>2. i \in Nat /\ (i - 1) + 1 = i
      BY FirstSectors DEF UsedEntries
    <2>3. Holds(w, ue[m])
      BY <1>3
    <2>4. CASE ue[m].start = op.start
      <3>1. w[2].slots[i].start = ue[m].start
        BY <2>1, <2>2, <2>3 DEF Holds, GptEntry
      <3> QED BY <2>4, <3>1
    <2>5. CASE \E k \in 1..Len(te) : ue[m] = te[k]
      <3>1. Holds(d, ue[m])
        BY <1>2, <2>5
      <3> QED BY <2>1, <2>2, <2>3, <3>1 DEF Holds
    <2> QED BY <2>4, <2>5 DEF TableStep, t
  <1> QED BY <1>4, <1>5 DEF SlotStep

\* Adding does this to a table,
LEMMA AddStep ==
  ASSUME NEW lo, NEW hi, NEW t, GptTable(t, lo, hi), NEW p, AddGpt(t, p) # NoTable,
         NEW op, op.start = p.start
  PROVE  TableStep(t, AddGpt(t, p), op)
  <1> DEFINE e == Entry(FirstFree(t), "basic", FALSE, FALSE, p.guid, p.start, p.count)
             u == AddGpt(t, p)
  <1>1. t.entries \in Seq(EntrySet) /\ Len(t.entries) \in Nat /\ t = Table("GPT", t.entries, lo, hi)
    BY DEF GptTable
  <1>2. u = WithEntry(t, e)
    BY DEF AddGpt
  <1>3. e.start = op.start
    BY DEF Entry
  <1> HIDE DEF e, u
  <1>4. u.entries = Append(t.entries, e)
    BY <1>1, <1>2 DEF WithEntry, Table
  <1>5. /\ Len(u.entries) = Len(t.entries) + 1
        /\ \A k \in 1..Len(t.entries) : u.entries[k] = t.entries[k]
        /\ u.entries[Len(t.entries) + 1] = e
    BY <1>1, <1>4, AppendProperties
  <1>6. \A k \in 1..Len(t.entries) : k \in 1..Len(u.entries)
    BY <1>1, <1>5
  <1>7. \A m \in 1..Len(u.entries) : m = Len(t.entries) + 1 \/ m \in 1..Len(t.entries)
    BY <1>1, <1>5
  <1> QED BY <1>3, <1>5, <1>6, <1>7 DEF TableStep, u

\* deleting does,
LEMMA DeleteStep ==
  ASSUME NEW lo, NEW hi, NEW t, GptTable(t, lo, hi), NEW op, HasIndex(t, op.index)
  PROVE  TableStep(t, DeleteGpt(t, op.index), op)
  <1> DEFINE es == t.entries
             i == FindIndex(t, op.index)
             new == EraseAt(es, i)
             u == DeleteGpt(t, op.index)
  <1>1. es \in Seq(EntrySet) /\ Len(es) \in Nat /\ t = Table("GPT", es, lo, hi)
    BY DEF GptTable
  <1>2. i \in 1..Len(es) /\ es[i].index = op.index
    BY <1>1, FindIndexIs
  <1>3. u = [t EXCEPT !.entries = new]
    BY DEF DeleteGpt
  <1> HIDE DEF es, i, u
  <1>4. /\ Len(new) = Len(es) - 1
        /\ \A k \in 1..(Len(es) - 1) : new[k] = es[IF k < i THEN k ELSE k + 1]
    BY <1>1, <1>2, EraseAtIs
  <1> HIDE DEF new
  <1>5. u.entries = new
    BY <1>1, <1>3 DEF Table
  <1>6. ASSUME NEW m \in 1..Len(new) PROVE \E k \in 1..Len(es) : new[m] = es[k]
    <2> DEFINE k == IF m < i THEN m ELSE m + 1
    <2>1. k \in 1..Len(es) /\ new[m] = es[k]
      BY <1>1, <1>2, <1>4
    <2> QED BY <2>1
  <1>7. ASSUME NEW k \in 1..Len(es), es[k].index # op.index PROVE \E m \in 1..Len(new) : new[m] = es[k]
    <2> DEFINE m == IF k < i THEN k ELSE k - 1
    <2>1. k # i
      BY <1>2, <1>7
    <2>2. m \in 1..Len(new) /\ (IF m < i THEN m ELSE m + 1) = k
      BY <1>1, <1>2, <1>4, <2>1
    <2> HIDE DEF m
    <2>3. new[m] = es[k]
      BY <1>4, <2>2
    <2> QED BY <2>2, <2>3
  <1> QED BY <1>5, <1>6, <1>7 DEF TableStep, es, u

\* and so does moving or resizing.
LEMMA ResizeStep ==
  ASSUME NEW lo, NEW hi, NEW t, GptTable(t, lo, hi), NEW op,
         resizePartition(t, op.index, op.start, op.count) # NoTable
  PROVE  TableStep(t, resizePartition(t, op.index, op.start, op.count), op)
  <1> DEFINE es == t.entries
             x == FindIndex(t, op.index)
             e == [es[x] EXCEPT !.start = op.start, !.count = op.count]
             new == [es EXCEPT ![x] = e]
             u == resizePartition(t, op.index, op.start, op.count)
  <1>1. es \in Seq(EntrySet) /\ Len(es) \in Nat /\ t = Table("GPT", es, lo, hi)
    BY DEF GptTable
  <1>2. HasIndex(t, op.index)
    BY DEF resizePartition
  <1>3. x \in 1..Len(es) /\ es[x].index = op.index /\ es[x] \in EntrySet
    BY <1>1, <1>2, FindIndexIs
  <1>4. u = [t EXCEPT !.entries = new]
    <2>1. u = [t EXCEPT !.entries[x] = [@ EXCEPT !.start = op.start, !.count = op.count]]
      BY DEF resizePartition
    <2> HIDE DEF x, u
    <2> QED BY <1>1, <2>1 DEF Table
  <1>5. e.start = op.start
    <2> HIDE DEF es, x
    <2> QED BY <1>3 DEF EntrySet
  <1> HIDE DEF es, x, e, u
  <1>6. Len(new) = Len(es) /\ \A k \in 1..Len(es) : new[k] = IF k = x THEN e ELSE es[k]
    BY <1>1, <1>3
  <1> HIDE DEF new
  <1>7. u.entries = new
    BY <1>1, <1>4 DEF Table
  <1>8. \A k \in 1..Len(es) : es[k].index # op.index => new[k] = es[k]
    BY <1>3, <1>6
  <1>9. \A m \in 1..Len(new) : new[m].start = op.start \/ new[m] = es[m]
    BY <1>5, <1>6
  <1> QED BY <1>6, <1>7, <1>8, <1>9 DEF TableStep, es, u

\* Writing a table that was made so; behind it nothing changes.
LEMMA GptWriteStep ==
  ASSUME NEW d, DiskOK(d), GptOK(d), NEW u, GptTable(u, d[1].first, d[1].last), NEW op,
         TableStep(parse(d), u, op), NEW w, Readable(w), w[2] = d[2], NEW n \in 0..Len(serialize(u))
  PROVE  LET v == WriteAt(w, 0, serialize(u), n) IN
         SlotStep(d, v, op) /\ \A s \in Lba : s > 4 => v[s] = w[s]
  <1> DEFINE v == WriteAt(w, 0, serialize(u), n)
             secs == serialize(u)
  <1>1. Len(secs) = 5 /\ \A i \in 1..5 : SectorOK(secs[i])
    <2>1. u.kind = "GPT"
      BY DEF GptTable, Table
    <2> QED BY <2>1, GptSectors
  <1>2. n \in Nat /\ n <= 5
    BY <1>1
  <1> HIDE DEF secs
  <1>3. v = WriteAt(w, 0, secs, n) /\ \A i \in 1..n : SectorOK(secs[i])
    BY <1>1, <1>2 DEF secs
  <1> HIDE DEF v
  <1>4. \A s \in Lba : v[s] = IF s >= 0 /\ s < 0 + n THEN secs[s - 0 + 1] ELSE w[s]
    BY <1>2, <1>3, WriteIs
  <1>5. \A s \in Lba : s > 4 => v[s] = w[s]
    BY <1>2, <1>4, FirstSectors
  <1>6. v[2] = d[2] \/ v[2] = secs[3]
    BY <1>2, <1>4, FirstSectors
  <1>7. CASE v[2] = d[2]
    BY <1>5, <1>7, SlotsSame DEF v
  <1>8. CASE v[2] = secs[3]
    BY <1>5, <1>8, SlotStepFrom DEF v, secs
  <1> QED BY <1>6, <1>7, <1>8

\* What an operation does to a GPT disk: to the slots; and, of the sectors behind the
\* table, a new partition changes none of those of the others, a format none outside
\* its own, a label or a check none but the first.
InSlot(d, i, s) == d[2].slots[i].start <= s /\ s <= d[2].slots[i].end
GptEffect(d, w, op) ==
  /\ SlotStep(d, w, op)
  /\ op.kind = "Create" => \A i \in UsedEntries(d), s \in Lba : s > 4 /\ InSlot(d, i, s) => w[s] = d[s]
  /\ op.kind = "Format" => \A s \in Lba : s < op.start \/ s >= op.start + op.count => w[s] = d[s]
  /\ op.kind \in {"SetLabel", "Check"} => \A s \in Lba : s # op.start => w[s] = d[s]

\* None at all, for one.
LEMMA NoEffect == ASSUME NEW d, NEW op PROVE GptEffect(d, d, op)
  BY SlotsSame DEF GptEffect

\* Where a format writes.
LEMMA FormatIs ==
  ASSUME NEW d, NEW op, op.start \in Nat, NEW owner, NEW n \in Nat
  PROVE  \A s \in Lba : s < op.start \/ s >= op.start + n => Format(d, op, owner, n)[s] = d[s]
  <1> SUFFICES ASSUME NEW s \in Lba, s < op.start \/ s >= op.start + n
               PROVE  Format(d, op, owner, n)[s] = d[s]
    OBVIOUS
  <1>1. Format(d, op, owner, n)[s]
          = CASE s = op.start /\ n > 0 -> Super(op.fs, <<>>, TRUE, FALSE)
              [] s > op.start /\ s < op.start + n -> Data(owner)
              [] OTHER -> d[s]
    BY DEF Format
  <1>2. s \in Nat
    BY FirstSectors
  <1>3. ~(s = op.start /\ n > 0) /\ ~(s > op.start /\ s < op.start + n)
    BY <1>2
  <1> QED BY <1>1, <1>3

\* A new partition is away from those that are there.
LEMMA AddAway ==
  ASSUME NEW lo, NEW hi, NEW t, GptTable(t, lo, hi), NEW p, AddGpt(t, p) # NoTable
  PROVE  /\ p.start >= lo
         /\ \A k \in 1..Len(t.entries) :
              ~(p.start <= t.entries[k].start + t.entries[k].count - 1
                /\ t.entries[k].start <= p.start + p.count - 1)
  <1>1. t.kind = "GPT" /\ t.first = lo
    BY DEF GptTable, Table
  <1>2. p.start >= lo /\ ~OverlapsGpt(t, p.start, p.start + p.count - 1, -1)
    BY <1>1 DEF AddGpt, overlapsExisting
  <1>3. ASSUME NEW k \in 1..Len(t.entries) PROVE t.entries[k].index # -1
    BY FirstSectors DEF GptTable, InGpt
  <1> QED BY <1>2, <1>3 DEF OverlapsGpt

\* The table that is read from a GPT disk, and the tables that can be written there.
LEMMA GptParts ==
  ASSUME NEW d, DiskOK(d), GptOK(d)
  PROVE  /\ GptTable(parse(d), d[1].first, d[1].last) /\ parse(d).kind = "GPT"
         /\ d[1].first \in Nat /\ d[1].first > 2 /\ d[1].last \in Nat
         /\ \A u : GoodFor(u, d) => GptTable(u, d[1].first, d[1].last)
         /\ Readable(d)
  BY ParseIs, ParseGptIs, Kinds, KeepsSelf DEF GoodFor, GptOK

\* A new partition.
LEMMA CreateEffect ==
  ASSUME NEW d, DiskOK(d), GptOK(d), NEW op, op.kind = "Create", op.start \in Nat \ {0},
         op.count \in Nat, op.active \in BOOLEAN, op.logical \in BOOLEAN, NEW guid \in Nat,
         NEW o \in CreateOutcomes(d, op, guid)
  PROVE  GptEffect(d, o.disk, op)
  <1> DEFINE p == Params(op, guid)
             t == parse(d)
             u == addPartition(t, p)
             secs == serialize(u)
             v(n) == WriteAt(d, 0, secs, n)
  <1>1. CASE u = NoTable
    <2>1. o = Outcome(d, Failed(op))
      BY <1>1 DEF CreateOutcomes
    <2> QED BY <2>1, NoEffect DEF Outcome
  <1>2. CASE u # NoTable
    <2>1. /\ p.start = op.start /\ p.count = op.count /\ p.type = "basic"
          /\ p.active = op.active /\ p.logical = op.logical /\ p.guid = guid
      BY DEF Params
    <2>2. ParamsOK(p, d)
      <3> HIDE DEF p
      <3>1. p.active \in BOOLEAN
        BY <2>1, Zenon
      <3>2. p.logical \in BOOLEAN
        BY <2>1, Zenon
      <3> QED BY <2>1, <3>1, <3>2 DEF ParamsOK, PartitionTypes
    <2>3. GptTable(u, d[1].first, d[1].last)
      BY <1>2, <2>2, AddIs, GptParts DEF Replaces
    <2>4. /\ GptTable(t, d[1].first, d[1].last) /\ t.kind = "GPT"
          /\ d[1].first \in Nat /\ d[1].first > 2 /\ Readable(d)
      BY GptParts
    <2>5. u = AddGpt(t, p) /\ AddGpt(t, p) # NoTable
      BY <1>2, <2>4 DEF addPartition
    <2>6. /\ op.start > 2
          /\ \A k \in 1..Len(t.entries) :
               ~(op.start <= t.entries[k].start + t.entries[k].count - 1
                 /\ t.entries[k].start <= op.start + op.count - 1)
      <3> HIDE DEF p, t, u
      <3> QED BY <2>1, <2>4, <2>5, AddAway
    <2>7. TableStep(t, u, op)
      <3> HIDE DEF p, t
      <3>1. TableStep(t, AddGpt(t, p), op)
        BY <2>1, <2>4, <2>5, AddStep
      <3> QED BY <2>5, <3>1
    <2>8. Len(secs) \in Nat
      <3>1. u.kind = "GPT"
        BY <2>3 DEF GptTable, Table
      <3> HIDE DEF u
      <3> QED BY <3>1, GptSectors
    <2>9. ASSUME NEW n \in 0..Len(secs)
          PROVE  SlotStep(d, v(n), op) /\ \A s \in Lba : s > 4 => v(n)[s] = d[s]
      <3> HIDE DEF u
      <3> QED BY <2>3, <2>4, <2>7, GptWriteStep
    <2>10. \A i \in UsedEntries(d), s \in Lba : InSlot(d, i, s) => s < op.start \/ s >= op.start + op.count
      <3> SUFFICES ASSUME NEW i \in UsedEntries(d), NEW s \in Lba, InSlot(d, i, s)
                   PROVE  s < op.start \/ s >= op.start + op.count
        OBVIOUS
      <3>1. PICK k \in 1..Len(t.entries) : t.entries[k].index = i - 1
        BY GptSlotsRead
      <3> DEFINE e == t.entries[k]
      <3>2. Holds(d, e)
        BY GptSlotsRead
      <3>3. i \in Nat /\ (i - 1) + 1 = i
        BY FirstSectors DEF UsedEntries
      <3>4. InGpt(e, d[1].first, d[1].last)
        BY <2>4 DEF GptTable
      <3>5. ~(op.start <= e.start + e.count - 1 /\ e.start <= op.start + op.count - 1)
        BY <2>6
      <3>6. e.index = i - 1
        BY <3>1
      <3> HIDE DEF e
      <3>7. d[2].slots[i].start = e.start /\ d[2].slots[i].end = e.start + e.count - 1
        BY <3>2, <3>3, <3>6 DEF Holds, GptEntry
      <3>8. e.start \in Nat /\ e.count \in Nat /\ s \in Nat
        BY <3>4, FirstSectors DEF InGpt, EntrySet
      <3>9. e.start <= s /\ s <= e.start + e.count - 1
        BY <3>7 DEF InSlot
      <3>10. op.start \in Nat /\ op.count \in Nat
        OBVIOUS
      <3> QED BY <3>5, <3>8, <3>9, <3>10, OutsideOf
    <2> HIDE DEF p, t, u
    <2>11. ASSUME NEW n \in 0..op.count PROVE GptEffect(d, Format(Written(d, u), op, guid, n), op)
      <3> DEFINE w == Written(d, u)
                 f == Format(w, op, guid, n)
      <3>1. w = v(Len(secs))
        BY DEF Written
      <3>2. SlotStep(d, w, op) /\ \A s \in Lba : s > 4 => w[s] = d[s]
        BY <2>8, <2>9, <3>1
      <3> HIDE DEF w
      <3>3. \A s \in Lba : s < op.start \/ s >= op.start + n => f[s] = w[s]
        BY FormatIs
      <3> HIDE DEF f
      <3>4. f[2] = w[2]
        BY <2>6, <3>3, FirstSectors
      <3>5. SlotStep(d, f, op)
        BY <3>2, <3>4 DEF SlotStep, UsedEntries
      <3>6. ASSUME NEW i \in UsedEntries(d), NEW s \in Lba, s > 4, InSlot(d, i, s) PROVE f[s] = d[s]
        <4>1. s < op.start \/ s >= op.start + op.count
          BY <2>10, <3>6
        <4>2. s < op.start \/ s >= op.start + n
          BY <4>1, FirstSectors
        <4> QED BY <3>2, <3>3, <3>6, <4>2
      <3> QED BY <3>5, <3>6 DEF GptEffect, f, w
    <2>12. ASSUME NEW n \in 0..Len(secs) PROVE GptEffect(d, v(n), op)
      BY <2>9 DEF GptEffect
    <2> HIDE DEF v
    <2>13. \/ \E n \in 0..op.count : o.disk = Format(Written(d, u), op, guid, n)
           \/ \E n \in 0..Len(secs) : o.disk = v(n)
      <3>1. CASE o = Outcome(Format(Written(d, u), op, guid, op.count), Done(op, TRUE, CreatedIndex(u, op), NoEntry))
        <4>1. o.disk = Format(Written(d, u), op, guid, op.count) /\ op.count \in 0..op.count
          BY <3>1 DEF Outcome
        <4> QED BY <4>1
      <3>2. CASE \E n \in 0..op.count : o = Outcome(Format(Written(d, u), op, guid, n), Failed(op))
        BY <3>2 DEF Outcome
      <3>3. CASE \E c \in CutShort(d, u) : o = Outcome(c, Failed(op))
        <4>1. PICK n \in 0..Len(secs) : o = Outcome(v(n), Failed(op))
          BY <3>3 DEF CutShort, v
        <4>2. o.disk = v(n)
          BY <4>1 DEF Outcome
        <4> QED BY <4>2
      <3> QED BY <1>2, <3>1, <3>2, <3>3 DEF CreateOutcomes, u, t, p
    <2> QED BY <2>11, <2>12, <2>13
  <1> QED BY <1>1, <1>2

\* A table that is written, after something that left the slots alone.
LEMMA WriteEffect ==
  ASSUME NEW d, DiskOK(d), GptOK(d), NEW u, NEW op, op.kind \in ByIndex,
         Serializable(u) => GptTable(u, d[1].first, d[1].last) /\ TableStep(parse(d), u, op),
         NEW w, Readable(w), w[2] = d[2], NEW done,
         NEW o \in WriteOutcomes(w, u, op, done)
  PROVE  GptEffect(d, o.disk, op)
  <1>1. SlotStep(d, o.disk, op)
    <2>1. CASE ~Serializable(u)
      <3>1. o.disk = w
        BY <2>1 DEF WriteOutcomes, Outcome
      <3> QED BY <3>1, SlotsSame
    <2>2. CASE Serializable(u)
      <3> DEFINE v(n) == WriteAt(w, 0, serialize(u), n)
      <3>1. \A n \in 0..Len(serialize(u)) : SlotStep(d, v(n), op)
        BY <2>2, GptWriteStep
      <3>2. Len(serialize(u)) \in 0..Len(serialize(u))
        <4>1. u.kind = "GPT"
          BY <2>2 DEF GptTable, Table
        <4>2. Len(serialize(u)) = 5
          BY <4>1, GptSectors
        <4> QED BY <4>2
      <3>3. \E n \in 0..Len(serialize(u)) : o.disk = v(n)
        <4>1. CASE o = Outcome(Written(w, u), done)
          <5>1. o.disk = v(Len(serialize(u)))
            BY <4>1 DEF Outcome, Written
          <5> HIDE DEF v
          <5> QED BY <3>2, <5>1
        <4>2. CASE \E c \in CutShort(w, u) : o = Outcome(c, Failed(op))
          <5>1. PICK n \in 0..Len(serialize(u)) : o = Outcome(v(n), Failed(op))
            BY <4>2 DEF CutShort
          <5>2. o.disk = v(n)
            BY <5>1 DEF Outcome
          <5> QED BY <5>2
        <4> QED BY <2>2, <4>1, <4>2 DEF WriteOutcomes
      <3> HIDE DEF v
      <3> QED BY <3>1, <3>3
    <2> QED BY <2>1, <2>2
  <1> QED BY <1>1 DEF GptEffect, ByIndex

\* A wipe leaves the table alone.
LEMMA WipeIs ==
  ASSUME NEW d, DiskOK(d), GptOK(d), NEW e, Placed(e, d), NEW w \in Wiped(d, e)
  PROVE  w[2] = d[2]
  <1> DEFINE secs == [i \in 1..WipeSectors |-> Blank]
  <1>1. PICK n \in 0..2 : w = WriteAt(d, e.start, secs, n)
    BY DEF Wiped, WipeSectors, FourK
  <1>2. \A i \in 1..n : SectorOK(secs[i])
    BY DEF WipeSectors, FourK, Blank, SectorOK
  <1>3. e.start \in Nat /\ e.start > 2 /\ n \in Nat
    BY DEF Placed
  <1> HIDE DEF secs
  <1>4. \A s \in Lba : w[s] = IF s >= e.start /\ s < e.start + n THEN secs[s - e.start + 1] ELSE d[s]
    BY <1>1, <1>2, <1>3, KeepsSelf, WriteIs
  <1> QED BY <1>3, <1>4, FirstSectors

\* Deleting.
LEMMA DeleteEffect ==
  ASSUME NEW d, DiskOK(d), GptOK(d), NEW op, op.kind = "Delete", NEW o \in DeleteOutcomes(d, op)
  PROVE  GptEffect(d, o.disk, op)
  <1> DEFINE t == parse(d)
             u == deletePartition(t, op.index)
             e == t.entries[FindIndex(t, op.index)]
             done == Done(op, TRUE, -1, e)
             wiped == IF WipeFits(e) THEN Wiped(d, e) ELSE {d}
  <1>1. CASE ~HasIndex(t, op.index)
    <2>1. o = Outcome(d, Failed(op))
      BY <1>1 DEF DeleteOutcomes
    <2> QED BY <2>1, NoEffect DEF Outcome
  <1>2. CASE HasIndex(t, op.index)
    <2>1. PICK w \in wiped : o \in WriteOutcomes(w, u, op, done)
      BY <1>2 DEF DeleteOutcomes
    <2>2. Placed(e, d)
      <3>1. Len(t.entries) \in Nat /\ \A i \in 1..Len(t.entries) : Placed(t.entries[i], d)
        BY ParseIs
      <3>2. FindIndex(t, op.index) \in 1..Len(t.entries)
        BY <1>2, <3>1, FindIndexIs
      <3> QED BY <3>1, <3>2
    <2>3. GptTable(t, d[1].first, d[1].last) /\ t.kind = "GPT"
      BY GptParts
    <2>4. u = DeleteGpt(t, op.index)
      BY <1>2, <2>3 DEF deletePartition
    <2> HIDE DEF t, u, e, done
    <2>5. GptTable(u, d[1].first, d[1].last)
      BY <1>2, <2>3, <2>4, DeleteGptIs
    <2>6. TableStep(t, u, op)
      BY <1>2, <2>3, <2>4, DeleteStep
    <2>7. Readable(w) /\ w[2] = d[2]
      BY <2>1, <2>2, WipedKeeps, WipeIs, GptParts DEF Keeps
    <2>8. op.kind \in ByIndex
      BY DEF ByIndex
    <2> QED BY <2>1, <2>5, <2>6, <2>7, <2>8, WriteEffect DEF t
  <1> QED BY <1>1, <1>2

\* Moving and resizing.
LEMMA ResizeEffect ==
  ASSUME NEW d, DiskOK(d), GptOK(d), NEW op, op.kind = "Resize", op.start \in Nat \ {0}, op.count \in Nat,
         NEW o \in ResizeOutcomes(d, op)
  PROVE  GptEffect(d, o.disk, op)
  <1> DEFINE t == parse(d)
             u == resizePartition(t, op.index, op.start, op.count)
             e == t.entries[FindIndex(t, op.index)]
             done == Done(op, TRUE, -1, e)
  <1>1. CASE u = NoTable
    <2>1. o = Outcome(d, Failed(op))
      BY <1>1 DEF ResizeOutcomes
    <2> QED BY <2>1, NoEffect DEF Outcome
  <1>2. CASE u # NoTable
    <2>1. o \in WriteOutcomes(d, u, op, done)
      BY <1>2 DEF ResizeOutcomes
    <2>2. GptTable(t, d[1].first, d[1].last)
      BY GptParts
    <2>3. GptTable(u, d[1].first, d[1].last)
      BY <1>2, ResizeIs, GptParts DEF Replaces
    <2>4. TableStep(t, u, op)
      BY <1>2, <2>2, ResizeStep
    <2>5. op.kind \in ByIndex /\ Readable(d)
      BY GptParts DEF ByIndex
    <2> HIDE DEF t, u, done
    <2> QED BY <2>1, <2>3, <2>4, <2>5, WriteEffect DEF t
  <1> QED BY <1>1, <1>2

\* Flags: a GPT is written again as it is.
LEMMA FlagsEffect ==
  ASSUME NEW d, DiskOK(d), GptOK(d), NEW op, op.kind = "SetFlags", NEW o \in SetFlagsOutcomes(d, op)
  PROVE  GptEffect(d, o.disk, op)
  <1> DEFINE t == parse(d)
             done == Done(op, TRUE, -1, t.entries[FindIndex(t, op.index)])
  <1>1. GptTable(t, d[1].first, d[1].last) /\ t.kind = "GPT" /\ Readable(d)
    BY GptParts
  <1>2. o = Outcome(d, Failed(op)) \/ o \in WriteOutcomes(d, t, op, done)
    BY <1>1 DEF SetFlagsOutcomes
  <1>3. CASE o = Outcome(d, Failed(op))
    BY <1>3, NoEffect DEF Outcome
  <1>4. CASE o \in WriteOutcomes(d, t, op, done)
    <2>1. TableStep(t, t, op)
      BY DEF TableStep
    <2>2. op.kind \in ByIndex
      BY DEF ByIndex
    <2> HIDE DEF t, done
    <2> QED BY <1>1, <1>4, <2>1, <2>2, WriteEffect DEF t
  <1> QED BY <1>2, <1>3, <1>4

\* Formatting.
LEMMA FormatEffect ==
  ASSUME NEW d, DiskOK(d), GptOK(d), NEW op, op.kind = "Format", Placed(op, d), NEW guid,
         NEW o \in FormatOutcomes(d, op, guid)
  PROVE  GptEffect(d, o.disk, op)
  <1>1. op.start \in Nat /\ op.start > 2 /\ op.count \in Nat
    BY DEF Placed
  <1>2. PICK n \in 0..op.count : o.disk = Format(d, op, guid, n)
    <2>1. op.count \in 0..op.count
      BY <1>1
    <2>2. CASE \E n \in 0..op.count : o = Outcome(Format(d, op, guid, n), Failed(op))
      BY <2>2 DEF Outcome
    <2>3. CASE o = Outcome(Format(d, op, guid, op.count), Done(op, TRUE, -1, NoEntry))
      BY <2>1, <2>3 DEF Outcome
    <2> QED BY <2>2, <2>3 DEF FormatOutcomes
  <1> DEFINE w == o.disk
  <1>3. \A s \in Lba : s < op.start \/ s >= op.start + n => w[s] = d[s]
    BY <1>1, <1>2, FormatIs
  <1> HIDE DEF w
  <1>4. \A s \in Lba : s < op.start \/ s >= op.start + op.count => w[s] = d[s]
    BY <1>1, <1>3, FirstSectors
  <1>5. w[2] = d[2]
    BY <1>1, <1>3, FirstSectors
  <1> QED BY <1>4, <1>5, SlotsSame DEF GptEffect, w

\* One sector, where there is a superblock.
LEMMA SuperEffect ==
  ASSUME NEW d, DiskOK(d), GptOK(d), NEW op, op.kind \in {"SetLabel", "Check"}, IsSuper(d, op.start),
         NEW w, \A s \in Lba : s # op.start => w[s] = d[s]
  PROVE  GptEffect(d, w, op)
  <1>1. op.start # 2
    BY DEF IsSuper, GptOK
  <1>2. w[2] = d[2]
    BY <1>1, FirstSectors
  <1> QED BY <1>2, SlotsSame DEF GptEffect

\* A label,
LEMMA LabelEffect ==
  ASSUME NEW d, DiskOK(d), GptOK(d), NEW op, op.kind = "SetLabel", NEW o \in SetLabelOutcomes(d, op)
  PROVE  GptEffect(d, o.disk, op)
  <1>1. CASE ~HasFs(d, op)
    <2>1. o = Outcome(d, Failed(op))
      BY <1>1 DEF SetLabelOutcomes
    <2> QED BY <2>1, NoEffect DEF Outcome
  <1>2. CASE HasFs(d, op)
    <2> DEFINE w == [d EXCEPT ![op.start].label = StoredLabel(op)]
    <2>1. o.disk = w
      <3>1. PICK old \in SavedLabels(d, op) : o = Outcome(w, [Done(op, TRUE, -1, NoEntry) EXCEPT !.old = old])
        BY <1>2 DEF SetLabelOutcomes
      <3> HIDE DEF w
      <3> QED BY <3>1 DEF Outcome
    <2>2. d = [s \in Lba |-> d[s]]
      BY DEF DiskOK
    <2>3. \A s \in Lba : s # op.start => w[s] = d[s]
      BY <2>2
    <2> HIDE DEF w
    <2> QED BY <1>2, <2>1, <2>3, SuperEffect DEF HasFs
  <1> QED BY <1>1, <1>2

\* and a check.
LEMMA CheckEffect ==
  ASSUME NEW d, DiskOK(d), GptOK(d), NEW op, op.kind = "Check", NEW o \in CheckOutcomes(d, op)
  PROVE  GptEffect(d, o.disk, op)
  <1>1. CASE ~HasFs(d, op)
    <2>1. o = Outcome(d, Failed(op))
      BY <1>1 DEF CheckOutcomes
    <2> QED BY <2>1, NoEffect DEF Outcome
  <1>2. CASE HasFs(d, op)
    <2>1. IsSuper(d, op.start) /\ op.fs = d[op.start].fs
      BY <1>2 DEF HasFs
    <2>2. op.fs \in {"ext", "ntfs"}
      BY <2>1, SuperFields
    <2> DEFINE v == [d EXCEPT ![op.start].clean = TRUE]
               w == [d EXCEPT ![op.start] = Super(@.fs, @.label, TRUE, FALSE)]
    <2>3. d = [s \in Lba |-> d[s]]
      BY DEF DiskOK
    <2>4. o.disk \in {d, v, w}
      <3>1. CASE op.fs = "ntfs"
        <4>1. o \in ChkdskOutcomes(d, op)
          BY <1>2, <3>1 DEF CheckOutcomes
        <4>2. PICK c \in Chkdsked(d, op) : o = Outcome(c, Failed(op)) \/ o = Outcome(c, Done(op, TRUE, -1, NoEntry))
          BY <4>1 DEF ChkdskOutcomes
        <4>3. o.disk = c
          <5>1. o = Outcome(c, Failed(op)) => o.disk = c
            BY DEF Outcome
          <5>2. o = Outcome(c, Done(op, TRUE, -1, NoEntry)) => o.disk = c
            BY DEF Outcome
          <5> QED BY <4>2, <5>1, <5>2
        <4> QED BY <4>2, <4>3 DEF Chkdsked
      <3>2. CASE op.fs = "ext"
        <4>1. o \in SuperblockOutcomes(d, op)
          BY <1>2, <3>2 DEF CheckOutcomes
        <4>2. PICK c \in {d} \cup (IF op.repair /\ ~d[op.start].clean THEN {w} ELSE {}) :
                     o = Outcome(c, Done(op, TRUE, -1, NoEntry))
          BY <4>1 DEF SuperblockOutcomes
        <4>3. o.disk = c
          BY <4>2 DEF Outcome
        <4> HIDE DEF w
        <4> QED BY <4>2, <4>3
      <3> QED BY <2>2, <3>1, <3>2
    <2>5. \A s \in Lba : s # op.start => v[s] = d[s] /\ w[s] = d[s]
      BY <2>3
    <2> HIDE DEF v, w
    <2> QED BY <2>1, <2>4, <2>5, SuperEffect
  <1> QED BY <1>1, <1>2

-----------------------------------------------------------------------------
(* What is planned                                                         *)

\* The outcomes of an operation on a GPT disk: sound, and with the effect it may have.
PlannedOutcome(d, op, o) == OutcomeOK(d, o) /\ GptEffect(d, o.disk, op)
AllPlanned(op) == \A o \in Outcomes(disk, op, FreshGuid) : PlannedOutcome(disk, op, o)

\* A row that can be shown is in a slot of the table, behind the table's own sectors.
LEMMA RowIs ==
  ASSUME OInv, GptOK(disk), NEW r, RowOK(r)
  PROVE  r \in RowSet /\ Placed(r, disk) /\ r.slot + 1 \in 1..GptSlots /\ (r.slot + 1) - 1 = r.slot
  <1>1. r \in RowSet /\ r.slot \in Nat /\ r.start \in Nat /\ r.count \in Nat /\ r.slot < GptSlots
    BY DEF RowOK, RowSet
  <1>2. disk[1].first \in Nat /\ disk[1].first > 2 /\ disk[1].first <= r.start
    BY DEF GptOK, RowOK
  <1> QED BY <1>1, <1>2, FirstSectors DEF Placed

\* A new partition,
LEMMA PlannedCreateOK ==
  ASSUME OInv, GptOK(disk), NEW p, PlannedCreate(p)
  PROVE  IsOp(p.op) /\ AllPlanned(p.op) /\ p.op.kind = "Create" /\ p.op.index = -1
  <1> DEFINE op == p.op
  <1>1. op.start \in Nat \ {0} /\ op.count \in Nat
    BY ParametersAssumption DEF PlannedCreate
  <1>2. op = CreateOp(op.start, op.count, FALSE, FALSE)
    BY DEF PlannedCreate
  <1> HIDE DEF op
  <1>3. IsOp(op) /\ op.kind = "Create" /\ op.fs = "ntfs" /\ op.index = -1
    BY <1>2 DEF CreateOp, Op, IsOp, Nothing, Done, OpKinds
  <1>4. op.logical = FALSE /\ op.active = FALSE
    BY <1>2 DEF CreateOp, Op
  <1>5. op.logical \in BOOLEAN /\ op.active \in BOOLEAN
    BY <1>4, Zenon
  <1>6. ASSUME NEW o \in Outcomes(disk, op, FreshGuid) PROVE PlannedOutcome(disk, op, o)
    <2>1. o \in CreateOutcomes(disk, op, FreshGuid)
      BY <1>3, <1>6 DEF Outcomes
    <2>2. DiskOK(disk) /\ FreshGuid \in Nat
      BY FreshGuidIs DEF OInv
    <2>3. OutcomeOK(disk, o)
      BY <1>1, <1>3, <1>5, <2>1, <2>2, CreateOK
    <2>4. GptEffect(disk, o.disk, op)
      BY <1>1, <1>3, <1>5, <2>1, <2>2, CreateEffect
    <2> QED BY <2>3, <2>4 DEF PlannedOutcome
  <1> QED BY <1>3, <1>6 DEF AllPlanned, op

\* and a row's: one of these, for the row.
ForRow(op, r) ==
  /\ IsOp(op) /\ op.index = r.index /\ op.start \in {0, r.start}
  /\ \/ op.kind \in ByIndex
     \/ /\ op.kind \in {"Format", "SetLabel", "Check"}
        /\ op.start = r.start /\ op.count = r.count

\* Deleting it,
LEMMA RowDeleteOK ==
  ASSUME OInv, GptOK(disk), NEW r, RowOK(r), NEW op, op = DeleteOp(r.index)
  PROVE  ForRow(op, r) /\ AllPlanned(op)
  <1>1. IsOp(op) /\ op.kind = "Delete" /\ op.index = r.index /\ op.start = 0
    BY DEF DeleteOp, Op, IsOp, Nothing, Done, OpKinds
  <1>2. ASSUME NEW o \in Outcomes(disk, op, FreshGuid) PROVE PlannedOutcome(disk, op, o)
    <2>1. o \in DeleteOutcomes(disk, op)
      BY <1>1, <1>2 DEF Outcomes
    <2> QED BY <1>1, <2>1, DeleteOK, DeleteEffect DEF OInv, PlannedOutcome
  <1> QED BY <1>1, <1>2 DEF ForRow, AllPlanned, ByIndex

\* resizing it,
LEMMA RowResizeOK ==
  ASSUME OInv, GptOK(disk), NEW r, RowOK(r), NEW c \in Counts, NEW op, op = ResizeOp(r.index, r.start, c)
  PROVE  ForRow(op, r) /\ AllPlanned(op)
  <1>1. IsOp(op) /\ op.kind = "Resize" /\ op.index = r.index /\ op.start = r.start /\ op.count = c
    BY DEF ResizeOp, Op, IsOp, Nothing, Done, OpKinds
  <1>2. op.start \in Nat \ {0} /\ op.count \in Nat
    BY <1>1, RowIs, ParametersAssumption DEF RowSet
  <1>3. ASSUME NEW o \in Outcomes(disk, op, FreshGuid) PROVE PlannedOutcome(disk, op, o)
    <2>1. o \in ResizeOutcomes(disk, op)
      BY <1>1, <1>3 DEF Outcomes
    <2> QED BY <1>1, <1>2, <2>1, ResizeOK, ResizeEffect DEF OInv, PlannedOutcome
  <1> QED BY <1>1, <1>3 DEF ForRow, AllPlanned, ByIndex

\* setting its flag,
LEMMA RowFlagsOK ==
  ASSUME OInv, GptOK(disk), NEW r, RowOK(r), NEW a \in BOOLEAN, NEW op, op = FlagsOp(r.index, a)
  PROVE  ForRow(op, r) /\ AllPlanned(op)
  <1>1. IsOp(op) /\ op.kind = "SetFlags" /\ op.index = r.index /\ op.start = 0
    BY DEF FlagsOp, Op, IsOp, Nothing, Done, OpKinds
  <1>2. ASSUME NEW o \in Outcomes(disk, op, FreshGuid) PROVE PlannedOutcome(disk, op, o)
    <2>1. o \in SetFlagsOutcomes(disk, op)
      BY <1>1, <1>2 DEF Outcomes
    <2> QED BY <1>1, <2>1, FlagsOK, FlagsEffect DEF OInv, PlannedOutcome
  <1> QED BY <1>1, <1>2 DEF ForRow, AllPlanned, ByIndex

\* formatting it,
LEMMA RowFormatOK ==
  ASSUME OInv, GptOK(disk), NEW r, RowOK(r), NEW op, op = FormatOp(r)
  PROVE  ForRow(op, r) /\ AllPlanned(op)
  <1>1. /\ IsOp(op) /\ op.kind = "Format" /\ op.index = r.index /\ op.start = r.start
        /\ op.count = r.count /\ op.fs = "ext"
    BY DEF FormatOp, Op, IsOp, Nothing, Done, OpKinds
  <1>2. Placed(op, disk)
    BY <1>1, RowIs DEF Placed
  <1>3. ASSUME NEW o \in Outcomes(disk, op, FreshGuid) PROVE PlannedOutcome(disk, op, o)
    <2>1. o \in FormatOutcomes(disk, op, FreshGuid)
      BY <1>1, <1>3 DEF Outcomes
    <2> QED BY <1>1, <1>2, <2>1, FormatOK, FormatEffect DEF OInv, PlannedOutcome
  <1> QED BY <1>1, <1>3 DEF ForRow, AllPlanned

\* giving it a label,
LEMMA RowLabelOK ==
  ASSUME OInv, GptOK(disk), NEW r, RowOK(r), NEW l, NEW op, op = LabelOp(r, "ext", l)
  PROVE  ForRow(op, r) /\ AllPlanned(op)
  <1>1. /\ IsOp(op) /\ op.kind = "SetLabel" /\ op.index = r.index /\ op.start = r.start
        /\ op.count = r.count
    BY DEF LabelOp, Op, IsOp, Nothing, Done, OpKinds
  <1>2. ASSUME NEW o \in Outcomes(disk, op, FreshGuid) PROVE PlannedOutcome(disk, op, o)
    <2>1. o \in SetLabelOutcomes(disk, op)
      BY <1>1, <1>2 DEF Outcomes
    <2> QED BY <1>1, <2>1, LabelOK, LabelEffect DEF OInv, PlannedOutcome
  <1> QED BY <1>1, <1>2 DEF ForRow, AllPlanned

\* and checking it.
LEMMA RowCheckOK ==
  ASSUME OInv, GptOK(disk), NEW r, RowOK(r), NEW op, op = CheckOp(r, "ext", FALSE)
  PROVE  ForRow(op, r) /\ AllPlanned(op)
  <1>1. /\ IsOp(op) /\ op.kind = "Check" /\ op.index = r.index /\ op.start = r.start
        /\ op.count = r.count
    BY DEF CheckOp, Op, IsOp, Nothing, Done, OpKinds
  <1>2. ASSUME NEW o \in Outcomes(disk, op, FreshGuid) PROVE PlannedOutcome(disk, op, o)
    <2>1. o \in CheckOutcomes(disk, op)
      BY <1>1, <1>2 DEF Outcomes
    <2> QED BY <1>1, <2>1, CheckOK, CheckEffect DEF OInv, PlannedOutcome
  <1> QED BY <1>1, <1>2 DEF ForRow, AllPlanned

\* All that is planned for a row.
LEMMA PlannedRowOK ==
  ASSUME OInv, GptOK(disk), NEW p, PlannedRow(p)
  PROVE  RowOK(p.row) /\ ForRow(p.op, p.row) /\ AllPlanned(p.op)
  <1> DEFINE op == p.op
             r == p.row
  <1>1. RowOK(r)
    BY DEF PlannedRow
  <1>2. \/ op = DeleteOp(r.index)
        \/ \E c \in Counts : op = ResizeOp(r.index, r.start, c)
        \/ op = FormatOp(r)
        \/ \E l \in Labels : op = LabelOp(r, "ext", l)
        \/ op = CheckOp(r, "ext", FALSE)
        \/ \E a \in BOOLEAN : op = FlagsOp(r.index, a)
    BY DEF PlannedRow, Asked
  <1> HIDE DEF op, r
  <1>3. CASE op = DeleteOp(r.index)
    BY <1>1, <1>3, RowDeleteOK DEF op, r
  <1>4. CASE \E c \in Counts : op = ResizeOp(r.index, r.start, c)
    BY <1>1, <1>4, RowResizeOK DEF op, r
  <1>5. CASE op = FormatOp(r)
    BY <1>1, <1>5, RowFormatOK DEF op, r
  <1>6. CASE \E l \in Labels : op = LabelOp(r, "ext", l)
    BY <1>1, <1>6, RowLabelOK DEF op, r
  <1>7. CASE op = CheckOp(r, "ext", FALSE)
    BY <1>1, <1>7, RowCheckOK DEF op, r
  <1>8. CASE \E a \in BOOLEAN : op = FlagsOp(r.index, a)
    BY <1>1, <1>8, RowFlagsOK DEF op, r
  <1> QED BY <1>2, <1>3, <1>4, <1>5, <1>6, <1>7, <1>8

-----------------------------------------------------------------------------
(* Planning and applying                                                   *)

\* A sequence of whatever.
IsSeq(s) == \E S : s \in Seq(S)

\* One element more,
LEMMA AppendIs ==
  ASSUME NEW s, IsSeq(s), NEW e
  PROVE  /\ IsSeq(Append(s, e)) /\ Len(s) \in Nat /\ Len(Append(s, e)) = Len(s) + 1
         /\ \A i \in 1..Len(s) : Append(s, e)[i] = s[i]
         /\ Append(s, e)[Len(s) + 1] = e
  <1>1. PICK S : s \in Seq(S)
    BY DEF IsSeq
  <1> DEFINE T == S \cup {e}
  <1>2. s \in Seq(T) /\ e \in T
    BY <1>1
  <1> HIDE DEF T
  <1>3. Append(s, e) \in Seq(T)
    BY <1>2, AppendProperties
  <1>4. Len(s) \in Nat /\ Len(Append(s, e)) = Len(s) + 1
        /\ (\A i \in 1..Len(s) : Append(s, e)[i] = s[i]) /\ Append(s, e)[Len(s) + 1] = e
    BY <1>2, AppendProperties, LenProperties
  <1> QED BY <1>3, <1>4 DEF IsSeq

\* all but the first,
LEMMA TailIs ==
  ASSUME NEW s, IsSeq(s), s # <<>>
  PROVE  /\ IsSeq(Tail(s)) /\ Len(s) \in Nat /\ Len(Tail(s)) = Len(s) - 1 /\ Head(s) = s[1] /\ 1 \in 1..Len(s)
         /\ \A i \in 1..Len(Tail(s)) : i + 1 \in 1..Len(s) /\ Tail(s)[i] = s[i + 1]
  <1>1. PICK S : s \in Seq(S)
    BY DEF IsSeq
  <1>2. Len(s) \in Nat /\ Len(s) # 0
    BY <1>1, EmptySeq, LenProperties
  <1>3. Tail(s) \in Seq(S) /\ Len(Tail(s)) = Len(s) - 1 /\ Head(s) = s[1]
        /\ \A i \in 1..Len(Tail(s)) : Tail(s)[i] = s[i + 1]
    BY <1>1, <1>2, HeadTailProperties
  <1>4. 1 \in 1..Len(s) /\ \A i \in 1..Len(Tail(s)) : i + 1 \in 1..Len(s)
    BY <1>2, <1>3
  <1>5. IsSeq(Tail(s))
    BY <1>3 DEF IsSeq
  <1> QED BY <1>2, <1>3, <1>4, <1>5

\* all but the last.
LEMMA FrontIs ==
  ASSUME NEW s, IsSeq(s), s # <<>>
  PROVE  LET f == SubSeq(s, 1, Len(s) - 1) IN
         IsSeq(f) /\ \A i \in 1..Len(f) : i \in 1..Len(s) /\ f[i] = s[i]
  <1>1. PICK S : s \in Seq(S)
    BY DEF IsSeq
  <1>2. Len(s) \in Nat /\ Len(s) # 0
    BY <1>1, EmptySeq, LenProperties
  <1> DEFINE n == Len(s) - 1
             f == SubSeq(s, 1, n)
  <1>3. n \in Nat /\ 1..n \subseteq 1..Len(s)
    BY <1>2
  <1>4. f \in Seq(S) /\ Len(f) = n /\ \A i \in 1..n : f[i] = s[i]
    <2> HIDE DEF n
    <2> QED BY <1>1, <1>2, <1>3
  <1> QED BY <1>3, <1>4 DEF IsSeq

\* What the theorems about plans keep invariant.
PlanInv == OInv /\ PlansOK /\ IsSeq(pending) /\ IsSeq(ran)

\* Rounding up does so.
LEMMA RoundUp ==
  ASSUME NEW n \in Nat
  PROVE  alignSectorUp(n) \in Nat /\ alignSectorUp(n) >= n
  <1> DEFINE a == DEFAULT_ALIGNMENT
             q == (n + a - 1) \div a
             r == (n + a - 1) % a
  <1>1. a \in Nat \ {0}
    BY AlignmentAssumption
  <1> HIDE DEF a
  <1>2. q \in Nat /\ r \in 0..(a - 1) /\ n + a - 1 = a * q + r
    BY <1>1
  <1> HIDE DEF q, r
  <1>3. a * q = q * a /\ q * a \in Nat
    BY <1>1, <1>2
  <1> DEFINE x == q * a
  <1>4. x \in Nat /\ n + a - 1 = x + r
    BY <1>2, <1>3
  <1> HIDE DEF x
  <1>5. x >= n
    BY <1>1, <1>2, <1>4
  <1> QED BY <1>4, <1>5 DEF alignSectorUp, a, q, x

\* Where a new partition is put: behind all that are shown.
LEMMA NewStartIs ==
  ASSUME OInv, GptOK(disk), \A r \in snapshot : RowOK(r)
  PROVE  /\ NewStart \in Nat \ {0} /\ NewStart >= DEFAULT_ALIGNMENT
         /\ \A r \in snapshot : NewStart >= r.start + r.count
  <1> DEFINE ends == {e.start + e.count : e \in snapshot} \cup {DEFAULT_ALIGNMENT}
             b == DiskSectors + DEFAULT_ALIGNMENT
  <1>1. DEFAULT_ALIGNMENT \in Nat \ {0} /\ b \in Nat
    BY AlignmentAssumption, FirstSectors
  <1>2. ASSUME NEW e \in snapshot PROVE e.start + e.count \in 0..b
    <2>1. RowOK(e)
      OBVIOUS
    <2>2. e.start \in Nat /\ e.count \in Nat
      BY <2>1, RowIs DEF RowSet
    <2>3. e.start + e.count - 1 <= disk[1].last /\ disk[1].last \in Nat /\ disk[1].last < DiskSectors
      BY <2>1 DEF RowOK, GptOK
    <2>4. e.start + e.count <= DiskSectors
      BY <2>2, <2>3, FirstSectors
    <2> QED BY <1>1, <2>2, <2>4, AlignmentAssumption, FirstSectors
  <1>3. ends \in SUBSET (0..b) /\ ends # {} /\ DEFAULT_ALIGNMENT \in ends
    BY <1>1, <1>2, FirstSectors
  <1>4. \A r \in snapshot : r.start + r.count \in ends
    OBVIOUS
  <1>5. NewStart = alignSectorUp(CHOOSE m \in ends : \A n \in ends : n <= m)
    BY DEF NewStart
  <1> HIDE DEF ends, b
  <1> DEFINE m == CHOOSE m \in ends : \A n \in ends : n <= m
  <1>6. m \in ends /\ \A n \in ends : n <= m
    BY <1>1, <1>3, Greatest
  <1> HIDE DEF m
  <1>7. m \in Nat
    BY <1>3, <1>6
  <1>8. NewStart = alignSectorUp(m)
    BY <1>5 DEF m
  <1>9. NewStart \in Nat /\ NewStart >= m
    BY <1>7, <1>8, RoundUp
  <1>10. \A n \in ends : n \in Nat /\ NewStart >= n
    BY <1>3, <1>6, <1>7, <1>9
  <1>11. NewStart >= DEFAULT_ALIGNMENT
    BY <1>3, <1>10
  <1>12. NewStart \in Nat \ {0}
    BY <1>1, <1>9, <1>11
  <1>13. \A r \in snapshot : NewStart >= r.start + r.count
    BY <1>4, <1>10
  <1> QED BY <1>11, <1>12, <1>13

\* An operation that is carried out has its effect.
LEMMA Executed ==
  ASSUME OInv, GptOK(disk), NEW op, IsOp(op), AllPlanned(op), execute(op)
  PROVE  /\ OInv' /\ GptOK(disk') /\ disk'[1].first = disk[1].first /\ disk'[1].last = disk[1].last
         /\ GptEffect(disk, disk', op)
  <1>1. \A o \in Outcomes(disk, op, FreshGuid) : OutcomeOK(disk, o)
    BY DEF AllPlanned, PlannedOutcome
  <1>2. DiskStep /\ table' = parse(disk') /\ steps' \in 0..MaxSteps
    BY <1>1, ExecuteOK
  <1>3. Keeps(disk, disk') /\ DoneOK(last', disk')
    BY <1>2 DEF DiskStep, StepOK
  <1>4. DiskOK(disk) /\ DiskOK(disk')
    BY <1>3, KeepsOK DEF OInv
  <1>5. OInv'
    BY <1>2, <1>3, <1>4 DEF OInv
  <1>6. GptOK(disk') /\ disk'[1].first = disk[1].first /\ disk'[1].last = disk[1].last
    BY <1>3 DEF Keeps
  <1>7. PICK o \in Outcomes(disk, op, FreshGuid) \cup EarlyFailure(disk, op) : ToDisk(o.disk)
    BY DEF execute
  <1>8. disk' = o.disk
    BY <1>7 DEF ToDisk
  <1>9. CASE o \in Outcomes(disk, op, FreshGuid)
    <2>1. GptEffect(disk, o.disk, op)
      BY <1>9 DEF AllPlanned, PlannedOutcome
    <2> QED BY <1>5, <1>6, <1>8, <2>1
  <1>10. CASE o \in EarlyFailure(disk, op)
    <2>1. disk' = disk
      BY <1>8, <1>10 DEF EarlyFailure, Outcome
    <2> QED BY <1>5, <1>6, <2>1, NoEffect
  <1> QED BY <1>7, <1>9, <1>10

\* A row stays, as long as no operation that runs names it.
LEMMA RowStays ==
  ASSUME OInv, GptOK(disk), NEW r, RowOK(r), Stays(r), NEW rec, IsSeq(ran), ran' = Append(ran, rec),
         SlotStep(disk, disk', rec.op),
         disk'[1].first = disk[1].first, disk'[1].last = disk[1].last
  PROVE  RowOK(r)' /\ Stays(r)'
  <1>1. RowOK(r)'
    BY DEF RowOK
  <1>2. ASSUME ~Named(r.slot)'
        PROVE  disk'[2].slots[r.slot + 1].start = r.start /\ disk'[2].slots[r.slot + 1].guid = r.guid
    <2>1. /\ Len(ran) \in Nat /\ Len(ran') = Len(ran) + 1 /\ ran'[Len(ran) + 1] = rec
          /\ \A i \in 1..Len(ran) : ran'[i] = ran[i]
      BY AppendIs
    <2>2. \A i \in 1..Len(ran') : ran'[i].op.index # r.slot
      BY <1>2 DEF Named
    <2>3. ~Named(r.slot)
      <3>1. \A i \in 1..Len(ran) : i \in 1..Len(ran')
        BY <2>1
      <3> QED BY <2>1, <2>2, <3>1 DEF Named
    <2>4. rec.op.index # r.slot
      <3>1. Len(ran) + 1 \in 1..Len(ran')
        BY <2>1
      <3> QED BY <2>1, <2>2, <3>1
    <2> DEFINE i == r.slot + 1
    <2>5. i \in 1..GptSlots /\ i - 1 = r.slot
      BY RowIs
    <2>6. disk[2].slots[i].start = r.start /\ disk[2].slots[i].guid = r.guid
      BY <2>3 DEF Stays
    <2>7. r.start > 2
      BY RowIs DEF Placed
    <2>8. i \in UsedEntries(disk)
      BY <2>5, <2>6, <2>7 DEF UsedEntries, UnusedEntry, GptEntry
    <2>9. disk'[2].slots[i] = disk[2].slots[i]
      BY <2>4, <2>5, <2>8 DEF SlotStep
    <2> QED BY <2>6, <2>9
  <1> QED BY <1>1, <1>2 DEF Stays

\* An entry of the table can be shown.
LEMMA EntryIs ==
  ASSUME OInv, GptOK(disk), NEW e \in Entries
  PROVE  /\ e \in EntrySet /\ e.index < GptSlots
         /\ disk[1].first <= e.start /\ e.count > 0 /\ e.start + e.count - 1 <= disk[1].last
         /\ disk[2].slots[e.index + 1].start = e.start /\ disk[2].slots[e.index + 1].guid = e.guid
  <1>1. DiskOK(disk) /\ table = parse(disk)
    BY DEF OInv
  <1>2. PICK k \in 1..Len(table.entries) : e = table.entries[k]
    BY DEF Entries
  <1>3. InGpt(e, disk[1].first, disk[1].last) /\ Holds(disk, e)
    BY <1>1, <1>2, GptParts, GptSlotsRead DEF GptTable
  <1>4. /\ e \in EntrySet /\ e.index < GptSlots
        /\ disk[1].first <= e.start /\ e.count > 0 /\ e.start + e.count - 1 <= disk[1].last
    BY <1>3, FirstSectors DEF InGpt
  <1>5. disk[2].slots[e.index + 1].start = e.start /\ disk[2].slots[e.index + 1].guid = e.guid
    BY <1>3 DEF Holds, GptEntry
  <1> QED BY <1>4, <1>5

\* The rows are shown with some number.
LEMMA NumberIs == ASSUME OInv, NEW e PROVE Number(e) \in Nat
  <1> DEFINE n == Len(table.entries)
  <1>1. n \in Nat
    BY ParseIs DEF OInv
  <1>2. IsFiniteSet(1..n)
    BY <1>1, FS_Interval
  <1> DEFINE at == [i \in 1..n |-> table.entries[i]]
  <1>3. at \in Surjection(1..n, Entries)
    BY DEF Entries, Surjection
  <1>4. IsFiniteSet(Entries)
    <2> HIDE DEF n, at
    <2> QED BY <1>2, <1>3, FS_Surjection
  <1>5. {f \in Listed : f.start < e.start} \subseteq Entries
    BY DEF Listed
  <1>6. IsFiniteSet({f \in Listed : f.start < e.start})
    BY <1>4, <1>5, FS_Subset
  <1> QED BY <1>6, FS_CardinalityType DEF Number

\* A row that is shown is one of the table's entries, but for its number,
LEMMA RowIsEntry ==
  ASSUME NEW r \in ShownRows
  PROVE  \E e \in Entries : /\ r = ShownAs(e) /\ r.index = Number(e) /\ r.start = e.start
                           /\ r.count = e.count /\ r.slot = e.index /\ r.guid = e.guid
  BY DEF ShownRows, Listed, ShownAs

\* and fits the table as an entry does.
LEMMA ShownIs ==
  ASSUME OInv, GptOK(disk), NEW r \in ShownRows
  PROVE  RowOK(r) /\ Stays(r)
  <1>1. PICK e \in Entries : /\ r = ShownAs(e) /\ r.index = Number(e) /\ r.start = e.start
                             /\ r.count = e.count /\ r.slot = e.index /\ r.guid = e.guid
    BY RowIsEntry
  <1>2. /\ e \in EntrySet /\ e.index < GptSlots
        /\ disk[1].first <= e.start /\ e.count > 0 /\ e.start + e.count - 1 <= disk[1].last
        /\ disk[2].slots[e.index + 1].start = e.start /\ disk[2].slots[e.index + 1].guid = e.guid
    BY EntryIs
  <1>3. Number(e) \in Nat
    BY NumberIs
  <1>4. r \in RowSet
    BY <1>1, <1>2, <1>3 DEF ShownAs, RowSet, EntrySet
  <1> QED BY <1>1, <1>2, <1>4 DEF RowOK, Stays

\* What an index names is what is in its slot.
LEMMA HitIs ==
  ASSUME OInv, GptOK(disk), NEW r, RowOK(r), Stays(r), ~Named(r.slot), NEW op, op.index = r.index, Aligned(r),
         Hit(op) # NoEntry
  PROVE  SamePartition(Hit(op), r)
  <1> DEFINE e == Hit(op)
  <1>a. op.index = r.slot
    BY DEF Aligned
  <1>1. DiskOK(disk) /\ table = parse(disk) /\ Len(table.entries) \in Nat
    BY ParseIs DEF OInv
  <1>2. HasIndex(table, op.index) /\ e = table.entries[FindIndex(table, op.index)]
    BY DEF Hit
  <1>3. FindIndex(table, op.index) \in 1..Len(table.entries) /\ e.index = op.index
    BY <1>1, <1>2, FindIndexIs
  <1> HIDE DEF e
  <1>4. Holds(disk, e)
    BY <1>1, <1>2, <1>3, GptSlotsRead
  <1>5. disk[2].slots[r.slot + 1].start = e.start /\ disk[2].slots[r.slot + 1].guid = e.guid
    BY <1>a, <1>3, <1>4 DEF Holds, GptEntry
  <1>6. disk[2].slots[r.slot + 1].start = r.start /\ disk[2].slots[r.slot + 1].guid = r.guid
    BY DEF Stays
  <1> QED BY <1>5, <1>6 DEF SamePartition, e

\* Queueing one more.
LEMMA EnqueueKeeps ==
  ASSUME PlanInv, NEW op, NEW row, enqueue(op, row),
         LET p == [op |-> op, row |-> row] IN PlannedCreate(p) \/ PlannedRow(p)
  PROVE  PlanInv'
  <1> DEFINE p == [op |-> op, row |-> row]
  <1>1. pending' = Append(pending, p) /\ UNCHANGED <<ovars, snapshot, phase, ran>>
    BY DEF enqueue
  <1>2. UNCHANGED <<disk, table, last, prior, steps, snapshot, ran>>
    BY <1>1 DEF ovars
  <1>3. OInv' /\ IsSeq(ran)'
    BY <1>2 DEF PlanInv, OInv, IsSeq
  <1> HIDE DEF p
  <1>4. PlannedCreate(p) \/ PlannedRow(p)
    BY DEF p
  <1>5. /\ IsSeq(pending') /\ Len(pending) \in Nat /\ Len(pending') = Len(pending) + 1
        /\ \A k \in 1..Len(pending) : pending'[k] = pending[k]
        /\ pending'[Len(pending) + 1] = p
    BY <1>1, AppendIs DEF PlanInv
  <1>6. ASSUME NEW q PROVE (PlannedRow(q)' <=> PlannedRow(q)) /\ (PlannedCreate(q)' <=> PlannedCreate(q))
    BY <1>2 DEF PlannedRow, PlannedCreate, RowOK, Stays, Named
  <1>7. ASSUME NEW k \in 1..Len(pending')
        PROVE  PlannedCreate(pending'[k]) \/ PlannedRow(pending'[k])
    <2>1. k = Len(pending) + 1 \/ k \in 1..Len(pending)
      BY <1>5
    <2> QED BY <1>4, <1>5, <2>1 DEF PlanInv, PlansOK
  <1>8. ASSUME NEW k \in 1..Len(pending')
        PROVE  (PlannedCreate(pending[k]) \/ PlannedRow(pending[k]))'
    <2>1. PICK q : q = pending'[k]
      OBVIOUS
    <2>2. PlannedCreate(q)' \/ PlannedRow(q)'
      BY <1>6, <1>7, <2>1
    <2> QED BY <2>1, <2>2 DEF PlannedCreate, PlannedRow, RowOK, Stays, Named
  <1>9. \A r \in snapshot' : RowOK(r)' /\ Stays(r)'
    BY <1>2 DEF PlanInv, PlansOK, RowOK, Stays, Named
  <1>10. \A i \in 1..Len(ran') : RanOK(i)'
    BY <1>2 DEF PlanInv, PlansOK, RanOK, FirstOfIndex
  <1>11. GptOK(disk')
    BY <1>2 DEF PlanInv, PlansOK
  <1>12. PlansOK'
    BY <1>8, <1>9, <1>10, <1>11 DEF PlansOK
  <1> QED BY <1>3, <1>5, <1>12 DEF PlanInv, IsSeq

\* What can be queued.
LEMMA QueueKeeps ==
  ASSUME PlanInv,
         \/ onCreatePartition \/ onDeletePartition \/ onResizePartition \/ onFormatPartition
         \/ onSetLabel \/ onCheckFilesystem \/ onSetFlags
  PROVE  PlanInv'
  <1> DEFINE Plan(op, row) == [op |-> op, row |-> row]
  <1>1. ASSUME NEW op, NEW row PROVE Plan(op, row).op = op /\ Plan(op, row).row = row
    OBVIOUS
  <1>2. ASSUME NEW op, NEW row, enqueue(op, row), PlannedCreate(Plan(op, row)) \/ PlannedRow(Plan(op, row))
        PROVE  PlanInv'
    BY <1>2, EnqueueKeeps
  <1>3. \A r \in snapshot : RowOK(r) /\ Stays(r)
    BY DEF PlanInv, PlansOK
  <1> HIDE DEF Plan
  <1>11. ASSUME NEW r \in snapshot, NEW op, Asked(op, r) PROVE PlannedRow(Plan(op, r))
    <2>1. PICK p : p = Plan(op, r)
      OBVIOUS
    <2>2. p.op = op /\ p.row = r /\ RowOK(r) /\ Stays(r)
      BY <1>1, <1>3, <2>1
    <2>3. PlannedRow(p)
      BY <1>11, <2>2 DEF PlannedRow
    <2> QED BY <2>1, <2>3
  <1>4. CASE onCreatePartition
    <2>1. PICK c \in Counts : enqueue(CreateOp(NewStart, c, FALSE, FALSE), NoEntry)
      BY <1>4 DEF onCreatePartition
    <2> DEFINE op == CreateOp(NewStart, c, FALSE, FALSE)
    <2>2. NewStart \in Nat \ {0}
      BY <1>3, NewStartIs DEF PlanInv, PlansOK
    <2>3. op.start = NewStart /\ op.count = c
      BY DEF CreateOp, Op
    <2>4. op = CreateOp(op.start, op.count, FALSE, FALSE)
      BY <2>3
    <2> HIDE DEF op
    <2>5. PlannedCreate(Plan(op, NoEntry))
      BY <1>1, <2>2, <2>3, <2>4 DEF PlannedCreate
    <2> QED BY <1>2, <2>1, <2>5 DEF op
  <1>5. CASE onDeletePartition
    <2>1. PICK e \in snapshot : enqueue(DeleteOp(e.index), e)
      BY <1>5 DEF onDeletePartition
    <2> DEFINE op == DeleteOp(e.index)
    <2> HIDE DEF op
    <2>2. PlannedRow(Plan(op, e))
      BY <1>11 DEF Asked, op
    <2> QED BY <1>2, <2>1, <2>2 DEF op
  <1>6. CASE onResizePartition
    <2>1. PICK e \in snapshot, c \in Counts : enqueue(ResizeOp(e.index, e.start, c), e)
      BY <1>6 DEF onResizePartition
    <2> DEFINE op == ResizeOp(e.index, e.start, c)
    <2> HIDE DEF op
    <2>2. PlannedRow(Plan(op, e))
      BY <1>11 DEF Asked, op
    <2> QED BY <1>2, <2>1, <2>2 DEF op
  <1>7. CASE onFormatPartition
    <2>1. PICK e \in snapshot : enqueue(FormatOp(e), e)
      BY <1>7 DEF onFormatPartition
    <2> DEFINE op == FormatOp(e)
    <2> HIDE DEF op
    <2>2. PlannedRow(Plan(op, e))
      BY <1>11 DEF Asked, op
    <2> QED BY <1>2, <2>1, <2>2 DEF op
  <1>8. CASE onSetLabel
    <2>1. PICK e \in snapshot, l \in Labels : enqueue(LabelOp(e, "ext", l), e)
      BY <1>8 DEF onSetLabel
    <2> DEFINE op == LabelOp(e, "ext", l)
    <2> HIDE DEF op
    <2>2. PlannedRow(Plan(op, e))
      BY <1>11 DEF Asked, op
    <2> QED BY <1>2, <2>1, <2>2 DEF op
  <1>9. CASE onCheckFilesystem
    <2>1. PICK e \in snapshot : enqueue(CheckOp(e, "ext", FALSE), e)
      BY <1>9 DEF onCheckFilesystem
    <2> DEFINE op == CheckOp(e, "ext", FALSE)
    <2> HIDE DEF op
    <2>2. PlannedRow(Plan(op, e))
      BY <1>11 DEF Asked, op
    <2> QED BY <1>2, <2>1, <2>2 DEF op
  <1>10. CASE onSetFlags
    <2>1. PICK e \in snapshot, a \in BOOLEAN : enqueue(FlagsOp(e.index, a), e)
      BY <1>10 DEF onSetFlags
    <2> DEFINE op == FlagsOp(e.index, a)
    <2> HIDE DEF op
    <2>2. PlannedRow(Plan(op, e))
      BY <1>11 DEF Asked, op
    <2> QED BY <1>2, <2>1, <2>2 DEF op
  <1> QED BY <1>4, <1>5, <1>6, <1>7, <1>8, <1>9, <1>10

\* Nothing but the plans, and of these only fewer.
LEMMA FewerKeep ==
  ASSUME PlanInv, UNCHANGED <<disk, table, last, prior, steps, ran>>, IsSeq(pending'),
         \A k \in 1..Len(pending') : \E j \in 1..Len(pending) : pending'[k] = pending[j],
         \A r \in snapshot' : r \in snapshot \/ r \in ShownRows
  PROVE  PlanInv'
  <1>1. OInv' /\ IsSeq(ran)'
    BY DEF PlanInv, OInv, IsSeq
  <1>2. ASSUME NEW q PROVE (PlannedRow(q)' <=> PlannedRow(q)) /\ (PlannedCreate(q)' <=> PlannedCreate(q))
    BY DEF PlannedRow, PlannedCreate, RowOK, Stays, Named
  <1>3. ASSUME NEW k \in 1..Len(pending')
        PROVE  (PlannedCreate(pending[k]) \/ PlannedRow(pending[k]))'
    <2>1. PICK q : q = pending'[k]
      OBVIOUS
    <2>2. PlannedCreate(q) \/ PlannedRow(q)
      BY <2>1 DEF PlanInv, PlansOK
    <2>3. PlannedCreate(q)' \/ PlannedRow(q)'
      BY <1>2, <2>2
    <2> QED BY <2>1, <2>3 DEF PlannedCreate, PlannedRow, RowOK, Stays, Named
  <1>4. ASSUME NEW r \in snapshot' PROVE RowOK(r)' /\ Stays(r)'
    <2>1. RowOK(r) /\ Stays(r)
      BY ShownIs DEF PlanInv, PlansOK
    <2> QED BY <2>1 DEF RowOK, Stays, Named
  <1>5. \A i \in 1..Len(ran') : RanOK(i)'
    BY DEF PlanInv, PlansOK, RanOK, FirstOfIndex
  <1>6. GptOK(disk')
    BY DEF PlanInv, PlansOK
  <1>7. PlansOK'
    BY <1>3, <1>4, <1>5, <1>6 DEF PlansOK
  <1> QED BY <1>1, <1>7 DEF PlanInv, IsSeq

\* What is carried out is what was planned first.
LEMMA NextIs ==
  ASSUME PlanInv, applyNext
  PROVE  LET p == Head(pending)
             rec == [op |-> p.op, row |-> p.row, hit |-> Hit(p.op), ok |-> last'.ok] IN
         /\ \/ PlannedCreate(p) /\ p.op.index = -1 /\ p.op.kind = "Create"
            \/ PlannedRow(p) /\ RowOK(p.row) /\ Stays(p.row) /\ ForRow(p.op, p.row)
         /\ IsOp(p.op) /\ AllPlanned(p.op)
         /\ OInv' /\ GptOK(disk') /\ disk'[1].first = disk[1].first /\ disk'[1].last = disk[1].last
         /\ GptEffect(disk, disk', p.op)
         /\ ran' = Append(ran, rec) /\ rec.op = p.op /\ rec.row = p.row /\ rec.hit = Hit(p.op)
  <1> DEFINE p == Head(pending)
             rec == [op |-> p.op, row |-> p.row, hit |-> Hit(p.op), ok |-> last'.ok]
  <1>1. execute(p.op) /\ ran' = Append(ran, rec) /\ pending # <<>>
    BY DEF applyNext
  <1>2. rec.op = p.op /\ rec.row = p.row /\ rec.hit = Hit(p.op)
    OBVIOUS
  <1> HIDE DEF p, rec
  <1>3. PlannedCreate(p) \/ PlannedRow(p)
    <2>1. p = pending[1] /\ 1 \in 1..Len(pending)
      BY <1>1, TailIs DEF PlanInv, p
    <2> QED BY <2>1 DEF PlanInv, PlansOK
  <1>4. OInv /\ GptOK(disk)
    BY DEF PlanInv, PlansOK
  <1>5. /\ \/ PlannedCreate(p) /\ p.op.index = -1 /\ p.op.kind = "Create"
           \/ PlannedRow(p) /\ RowOK(p.row) /\ Stays(p.row) /\ ForRow(p.op, p.row)
        /\ IsOp(p.op) /\ AllPlanned(p.op)
    <2>1. CASE PlannedCreate(p)
      BY <1>4, <2>1, PlannedCreateOK
    <2>2. CASE PlannedRow(p)
      <3>1. RowOK(p.row) /\ ForRow(p.op, p.row) /\ AllPlanned(p.op)
        BY <1>4, <2>2, PlannedRowOK
      <3>2. Stays(p.row) /\ IsOp(p.op)
        BY <2>2, <3>1 DEF PlannedRow, ForRow
      <3> QED BY <2>2, <3>1, <3>2
    <2> QED BY <1>3, <2>1, <2>2
  <1>6. /\ OInv' /\ GptOK(disk') /\ disk'[1].first = disk[1].first /\ disk'[1].last = disk[1].last
        /\ GptEffect(disk, disk', p.op)
    BY <1>1, <1>4, <1>5, Executed
  <1> QED BY <1>1, <1>2, <1>5, <1>6 DEF p, rec

\* Carrying it out.
LEMMA ApplyKeeps ==
  ASSUME PlanInv, applyNext
  PROVE  PlanInv'
  <1> DEFINE p == Head(pending)
             rec == [op |-> p.op, row |-> p.row, hit |-> Hit(p.op), ok |-> last'.ok]
  <1>1. /\ \/ PlannedCreate(p) /\ p.op.index = -1 /\ p.op.kind = "Create"
           \/ PlannedRow(p) /\ RowOK(p.row) /\ Stays(p.row) /\ ForRow(p.op, p.row)
        /\ OInv' /\ GptOK(disk') /\ disk'[1].first = disk[1].first /\ disk'[1].last = disk[1].last
        /\ GptEffect(disk, disk', p.op)
        /\ ran' = Append(ran, rec) /\ rec.op = p.op /\ rec.row = p.row /\ rec.hit = Hit(p.op)
    BY NextIs
  <1>2. pending # <<>> /\ pending' = Tail(pending) /\ snapshot' = snapshot
    BY DEF applyNext
  <1> HIDE DEF p, rec
  <1>3. OInv /\ PlansOK /\ GptOK(disk) /\ IsSeq(pending) /\ IsSeq(ran)
    BY DEF PlanInv, PlansOK
  <1>4. SlotStep(disk, disk', rec.op)
    BY <1>1 DEF GptEffect
  <1>5. ASSUME NEW r, RowOK(r), Stays(r) PROVE RowOK(r)' /\ Stays(r)'
    BY <1>1, <1>3, <1>4, <1>5, RowStays
  <1>6. \A r \in snapshot' : RowOK(r)' /\ Stays(r)'
    BY <1>2, <1>3, <1>5 DEF PlansOK
  <1>7. IsSeq(pending') /\ \A k \in 1..Len(pending') : k + 1 \in 1..Len(pending) /\ pending'[k] = pending[k + 1]
    BY <1>2, <1>3, TailIs
  <1>8. ASSUME NEW k \in 1..Len(pending')
        PROVE  (PlannedCreate(pending[k]) \/ PlannedRow(pending[k]))'
    <2>1. PICK q : q = pending'[k]
      OBVIOUS
    <2>2. PlannedCreate(q) \/ PlannedRow(q)
      BY <1>3, <1>7, <2>1 DEF PlansOK
    <2>3. CASE PlannedCreate(q)
      BY <2>1, <2>3 DEF PlannedCreate
    <2>4. CASE PlannedRow(q)
      <3>1. RowOK(q.row)' /\ Stays(q.row)'
        BY <1>5, <2>4 DEF PlannedRow
      <3>2. PlannedRow(q)'
        BY <2>4, <3>1 DEF PlannedRow
      <3> QED BY <2>1, <3>2 DEF PlannedRow, RowOK, Stays, Named
    <2> QED BY <2>2, <2>3, <2>4
  <1>9. /\ IsSeq(ran') /\ Len(ran) \in Nat /\ Len(ran') = Len(ran) + 1 /\ ran'[Len(ran) + 1] = rec
        /\ \A i \in 1..Len(ran) : ran'[i] = ran[i]
    BY <1>1, <1>3, AppendIs
  <1>10. ASSUME NEW i \in 1..Len(ran') PROVE RanOK(i)'
    <2>1. CASE i \in 1..Len(ran)
      <3>1. RanOK(i)
        BY <1>3, <2>1 DEF PlansOK
      <3>2. ran'[i] = ran[i] /\ \A j \in 1..(i - 1) : ran'[j] = ran[j]
        BY <1>9, <2>1
      <3> QED BY <3>1, <3>2 DEF RanOK, FirstOfIndex
    <2>2. CASE i = Len(ran) + 1
      <3>1. ran'[i] = rec
        BY <1>9, <2>2
      <3> SUFFICES ASSUME rec.op.kind \in ByIndex
                   PROVE  rec.op.index >= 0 /\ (FirstOfIndex(i)' => ActsOnRow(rec))
        BY <3>1 DEF RanOK
      <3>2. PlannedRow(p) /\ RowOK(p.row) /\ Stays(p.row) /\ ForRow(p.op, p.row)
        BY <1>1 DEF ByIndex
      <3>3. rec.op.index = rec.row.index /\ rec.row.index >= 0
        BY <1>1, <3>2 DEF ForRow, RowOK, RowSet
      <3>4. ASSUME FirstOfIndex(i)', Aligned(rec.row), rec.hit # NoEntry PROVE SamePartition(rec.hit, rec.row)
        <4>1. \A j \in 1..(i - 1) : ran'[j].op.index # rec.op.index
          BY <3>1, <3>4 DEF FirstOfIndex
        <4>2. \A j \in 1..Len(ran) : ran[j].op.index # rec.op.index
          BY <1>9, <2>2, <4>1
        <4>3. ~Named(p.row.slot)
          BY <1>1, <3>3, <3>4, <4>2 DEF Named, Aligned
        <4> QED BY <1>1, <1>3, <3>2, <3>3, <3>4, <4>3, HitIs
      <3> QED BY <3>3, <3>4 DEF ActsOnRow
    <2> QED BY <1>9, <2>1, <2>2
  <1>11. PlansOK'
    BY <1>1, <1>6, <1>8, <1>10 DEF PlansOK
  <1> QED BY <1>1, <1>7, <1>9, <1>11 DEF PlanInv, IsSeq

\* Every step keeps it.
LEMMA PlanStep == ASSUME PlanInv, [PNext]_pvars PROVE PlanInv'
  <1>1. IsSeq(pending)
    BY DEF PlanInv
  <1>2. CASE \/ onCreatePartition \/ onDeletePartition \/ onResizePartition \/ onFormatPartition
             \/ onSetLabel \/ onCheckFilesystem \/ onSetFlags
    BY <1>2, QueueKeeps
  <1>3. CASE onUndoOperation
    <2>1. pending # <<>> /\ pending' = SubSeq(pending, 1, Len(pending) - 1)
          /\ UNCHANGED <<disk, table, last, prior, steps, snapshot, ran>>
      BY <1>3 DEF onUndoOperation, ovars
    <2>2. IsSeq(pending') /\ \A k \in 1..Len(pending') : k \in 1..Len(pending) /\ pending'[k] = pending[k]
      BY <1>1, <2>1, FrontIs
    <2> QED BY <2>1, <2>2, FewerKeep
  <1>4. CASE onApplyOperations
    <2>1. UNCHANGED <<disk, table, last, prior, steps, snapshot, pending, ran>>
      BY <1>4 DEF onApplyOperations, ovars
    <2> QED BY <1>1, <2>1, FewerKeep
  <1>5. CASE applyNext
    BY <1>5, ApplyKeeps
  <1>6. CASE allOperationsFinished
    <2>1. UNCHANGED <<disk, table, last, prior, steps, pending, ran>> /\ snapshot' \in {ShownRows, snapshot}
      BY <1>6 DEF allOperationsFinished, ovars
    <2> QED BY <1>1, <2>1, FewerKeep
  <1>7. CASE UNCHANGED pvars
    <2>1. UNCHANGED <<disk, table, last, prior, steps, snapshot, pending, ran>>
      BY <1>7 DEF pvars
    <2> QED BY <1>1, <2>1, FewerKeep
  <1> QED BY <1>2, <1>3, <1>4, <1>5, <1>6, <1>7 DEF PNext

\* At first nothing is planned and the rows are those of the table.
LEMMA PlanStart == ASSUME PInit, GptOK(disk) PROVE PlanInv
  <1>1. OInit /\ snapshot = ShownRows /\ pending = <<>> /\ ran = <<>>
    BY DEF PInit
  <1>2. OInv
    BY <1>1, OInvAtFirst
  <1>3. \A r \in snapshot : RowOK(r) /\ Stays(r)
    BY <1>1, <1>2, ShownIs
  <1>4. IsSeq(pending) /\ IsSeq(ran) /\ Len(pending) = 0 /\ Len(ran) = 0
    BY <1>1, EmptySeq DEF IsSeq
  <1>5. PlansOK
    BY <1>3, <1>4 DEF PlansOK
  <1> QED BY <1>2, <1>4, <1>5 DEF PlanInv

\* On GPT disks everything that is planned fits what is there (PlansOK): a partition
\* that was shown stays in its slot until an operation that names it is carried out.
THEOREM PlansOKAlways == ASSUME GptLayouts PROVE PSpec => [](OInv /\ PlansOK)
  <1>1. PInit => PlanInv
    BY PlanStart DEF PInit, OInit, GptLayouts
  <1>2. PlanInv /\ [PNext]_pvars => PlanInv'
    BY PlanStep
  <1>3. PlanInv => OInv /\ PlansOK
    BY DEF PlanInv
  <1> QED BY <1>1, <1>2, <1>3, PTL DEF PSpec

\* And so what is carried out is done to what was shown (ActsOnWhatWasShown): as long as
\* no two operations name the same row, an index that was taken from a row shown with the
\* number of its slot leads to the partition of that row, or to none.
THEOREM ActsOnWhatWasShownAlways == ASSUME GptLayouts PROVE PSpec => []ActsOnWhatWasShown
  <1>1. PlansOK => ActsOnWhatWasShown
    <2> SUFFICES ASSUME PlansOK, RowsDistinct, NEW i \in 1..Len(ran), ran[i].op.kind \in ByIndex
                 PROVE  ActsOnRow(ran[i])
      BY DEF ActsOnWhatWasShown, ActsOnRow
    <2>1. ran[i].op.index >= 0 /\ (FirstOfIndex(i) => ActsOnRow(ran[i]))
      BY DEF PlansOK, RanOK
    <2>2. FirstOfIndex(i)
      <3> SUFFICES ASSUME NEW j \in 1..(i - 1) PROVE ran[j].op.index # ran[i].op.index
        BY DEF FirstOfIndex
      <3>1. j \in 1..Len(ran) /\ i # j
        OBVIOUS
      <3> QED BY <2>1, <3>1 DEF RowsDistinct
    <2> QED BY <2>1, <2>2
  <1> QED BY <1>1, PlansOKAlways, PTL

-----------------------------------------------------------------------------
(* Where planned operations write                                          *)

\* An outcome is that of the operation.
LEMMA WriteDone ==
  ASSUME NEW w, NEW t, NEW op, NEW done, done.op = op, NEW o \in WriteOutcomes(w, t, op, done)
  PROVE  o.done.op = op
  <1>1. Failed(op).op = op
    BY DEF Failed, Done
  <1>2. ASSUME NEW c, o = Outcome(c, Failed(op)) PROVE o.done.op = op
    BY <1>1, <1>2 DEF Outcome
  <1>3. ASSUME NEW c, o = Outcome(c, done) PROVE o.done.op = op
    BY <1>3 DEF Outcome
  <1> QED BY <1>2, <1>3 DEF WriteOutcomes

\* So is every outcome of an operation.
LEMMA DoneIs ==
  ASSUME NEW d, NEW op, IsOp(op), op.kind \notin {"none", "undo"}, NEW guid,
         DiskOK(d), NEW o \in Outcomes(d, op, guid) \cup EarlyFailure(d, op)
  PROVE  o.done.op = op
  <1>1. Failed(op).op = op
    BY DEF Failed, Done
  <1>2. ASSUME NEW c, o = Outcome(c, Failed(op)) PROVE o.done.op = op
    BY <1>1, <1>2 DEF Outcome
  <1>3. ASSUME NEW ok, NEW i, NEW e PROVE Done(op, ok, i, e).op = op
    BY DEF Done
  <1>4. ASSUME NEW c, NEW i, NEW e, o = Outcome(c, Done(op, TRUE, i, e)) PROVE o.done.op = op
    BY <1>4 DEF Outcome, Done
  <1>5. CASE o \in EarlyFailure(d, op)
    BY <1>2, <1>5 DEF EarlyFailure
  <1>6. CASE op.kind = "Create" /\ o \in CreateOutcomes(d, op, guid)
    BY <1>2, <1>4, <1>6 DEF CreateOutcomes
  <1>7. CASE op.kind = "Delete" /\ o \in DeleteOutcomes(d, op)
    <2> DEFINE t == parse(d)
               u == deletePartition(t, op.index)
               done == Done(op, TRUE, -1, t.entries[FindIndex(t, op.index)])
    <2>1. o = Outcome(d, Failed(op)) \/ \E w : o \in WriteOutcomes(w, u, op, done)
      BY <1>7 DEF DeleteOutcomes
    <2>2. done.op = op
      BY <1>3
    <2> HIDE DEF u, done
    <2> QED BY <1>2, <2>1, <2>2, WriteDone
  <1>8. CASE op.kind = "Resize" /\ o \in ResizeOutcomes(d, op)
    <2>1. \/ o = Outcome(d, Failed(op))
          \/ \E u, e : o \in WriteOutcomes(d, u, op, Done(op, TRUE, -1, e))
      BY <1>8 DEF ResizeOutcomes
    <2> QED BY <1>2, <1>3, <2>1, WriteDone
  <1>9. CASE op.kind = "SetFlags" /\ o \in SetFlagsOutcomes(d, op)
    <2>1. \/ o = Outcome(d, Failed(op))
          \/ \E u, e : o \in WriteOutcomes(d, u, op, Done(op, TRUE, -1, e))
      BY <1>9 DEF SetFlagsOutcomes
    <2> QED BY <1>2, <1>3, <2>1, WriteDone
  <1>10. CASE op.kind = "Format" /\ o \in FormatOutcomes(d, op, guid)
    BY <1>2, <1>4, <1>10 DEF FormatOutcomes
  <1>11. CASE op.kind = "SetLabel" /\ o \in SetLabelOutcomes(d, op)
    <2>1. \/ o = Outcome(d, Failed(op))
          \/ \E w, old : o = Outcome(w, [Done(op, TRUE, -1, NoEntry) EXCEPT !.old = old])
      BY <1>11 DEF SetLabelOutcomes
    <2>2. ASSUME NEW w, NEW old, o = Outcome(w, [Done(op, TRUE, -1, NoEntry) EXCEPT !.old = old])
          PROVE  o.done.op = op
      BY <2>2 DEF Outcome, Done
    <2> QED BY <1>2, <2>1, <2>2
  <1>12. CASE op.kind = "Check" /\ o \in CheckOutcomes(d, op)
    <2>1. CASE ~HasFs(d, op)
      BY <1>2, <1>12, <2>1 DEF CheckOutcomes
    <2>2. CASE HasFs(d, op) /\ op.fs = "ntfs"
      <3>1. o \in ChkdskOutcomes(d, op)
        BY <1>12, <2>2 DEF CheckOutcomes
      <3> QED BY <1>2, <1>4, <3>1 DEF ChkdskOutcomes
    <2>3. CASE HasFs(d, op) /\ op.fs = "ext"
      <3>1. o \in SuperblockOutcomes(d, op)
        BY <1>12, <2>3 DEF CheckOutcomes
      <3> QED BY <1>4, <3>1 DEF SuperblockOutcomes
    <2>4. HasFs(d, op) => op.fs \in {"ext", "ntfs"}
      BY SuperFields DEF HasFs
    <2> QED BY <2>1, <2>2, <2>3, <2>4
  <1>13. /\ op.kind \in {"Create", "Delete", "Resize", "Format", "SetLabel", "SetFlags", "Check"}
    BY DEF IsOp, OpKinds
  <1> QED BY <1>5, <1>6, <1>7, <1>8, <1>9, <1>10, <1>11, <1>12, <1>13 DEF Outcomes

\* All that is and will be there is clear of the table.
ClearOK ==
  /\ SlotsClear(disk) /\ Clear(DEFAULT_ALIGNMENT, disk)
  /\ \A r \in snapshot : r.start >= TableSectors
  /\ \A k \in 1..Len(pending) :
       IF pending[k].op.kind = "Create" THEN Clear(pending[k].op.start, disk)
       ELSE pending[k].row.start >= TableSectors

\* Rounding up the unit itself.
LEMMA RoundUnit == alignSectorUp(DEFAULT_ALIGNMENT) = DEFAULT_ALIGNMENT
  <1> DEFINE a == DEFAULT_ALIGNMENT
             q == (a + a - 1) \div a
             r == (a + a - 1) % a
  <1>1. a \in Nat \ {0}
    BY AlignmentAssumption
  <1> HIDE DEF a
  <1>2. q \in Nat /\ r \in 0..(a - 1) /\ a + a - 1 = a * q + r
    BY <1>1
  <1> HIDE DEF q, r
  <1>3. q # 0
    BY <1>1, <1>2
  <1>4. q < 2
    <2>1. CASE q >= 2
      <3>1. a * q >= a * 2
        BY <1>1, <1>2, <2>1
      <3> QED BY <1>1, <1>2, <3>1
    <2> QED BY <1>2, <2>1
  <1>5. q = 1
    BY <1>2, <1>3, <1>4
  <1> QED BY <1>1, <1>5 DEF alignSectorUp, a, q

\* A new partition is put clear of the table.
LEMMA NewClear ==
  ASSUME OInv, GptOK(disk), \A r \in snapshot : RowOK(r), Clear(DEFAULT_ALIGNMENT, disk),
         \A r \in snapshot : r.start >= TableSectors
  PROVE  Clear(NewStart, disk)
  <1>1. CASE snapshot = {}
    <2> DEFINE ends == {e.start + e.count : e \in snapshot} \cup {DEFAULT_ALIGNMENT}
               m == CHOOSE m \in ends : \A n \in ends : n <= m
    <2>1. ends = {DEFAULT_ALIGNMENT}
      BY <1>1
    <2>2. DEFAULT_ALIGNMENT <= DEFAULT_ALIGNMENT
      BY AlignmentAssumption
    <2>3. NewStart = alignSectorUp(m)
      BY DEF NewStart
    <2> HIDE DEF ends
    <2>4. m = DEFAULT_ALIGNMENT
      BY <2>1, <2>2
    <2> QED BY <2>3, <2>4, RoundUnit
  <1>2. CASE snapshot # {}
    <2>1. PICK r \in snapshot : TRUE
      BY <1>2
    <2>2. NewStart \in Nat /\ NewStart >= r.start + r.count
      BY NewStartIs
    <2>3. r.start \in Nat /\ r.count \in Nat /\ r.start >= TableSectors
      BY <2>1, RowIs DEF RowSet
    <2> QED BY <2>2, <2>3 DEF Clear, TableSectors
  <1> QED BY <1>1, <1>2

\* An operation that is carried out clear of the table leaves all clear of it.
LEMMA StepClear ==
  ASSUME NEW d, GptOK(d), SlotsClear(d), NEW w, GptOK(w), w[1].first = d[1].first, NEW op,
         SlotStep(d, w, op), op.start \in Nat, Clear(op.start, d)
  PROVE  SlotsClear(w)
  <1> SUFFICES ASSUME NEW i \in UsedEntries(w) PROVE w[2].slots[i].start >= TableSectors
    BY DEF SlotsClear
  <1>1. i \in 1..GptSlots /\ w[2].slots[i] # UnusedEntry
    BY DEF UsedEntries
  <1>2. w[2].slots[i] = d[2].slots[i] \/ w[2].slots[i].start = op.start
    BY DEF SlotStep
  <1>3. CASE w[2].slots[i] = d[2].slots[i]
    BY <1>1, <1>3 DEF SlotsClear, UsedEntries
  <1>4. CASE w[2].slots[i].start = op.start
    <2>1. w[1].first <= w[2].slots[i].start /\ d[1].first \in Nat
      BY DEF GptOK
    <2> QED BY <1>4, <2>1 DEF Clear
  <1> QED BY <1>2, <1>3, <1>4

\* The entries of what is on a disk.
EntriesOf(d) == {parse(d).entries[k] : k \in 1..Len(parse(d).entries)}

\* The entries of a GPT and its slots; none of them begins inside another.
LEMMA EntrySlots ==
  ASSUME NEW d, DiskOK(d), GptOK(d), NEW E, E = EntriesOf(d)
  PROVE  /\ \A e \in E : /\ e.index + 1 \in UsedEntries(d) /\ e.start \in Nat /\ e.count \in Nat
                         /\ d[2].slots[e.index + 1].start = e.start
                         /\ d[2].slots[e.index + 1].end = e.start + e.count - 1
         /\ \A i \in UsedEntries(d) : \E e \in E : e.start = d[2].slots[i].start
         /\ \A q, r \in E : ~BeginsIn(q.start, r)
  <1> DEFINE t == parse(d)
  <1>1. GptTable(t, d[1].first, d[1].last) /\ d[1].first \in Nat /\ d[1].first > 2
    BY GptParts
  <1>a. E = {t.entries[k] : k \in 1..Len(t.entries)}
    BY DEF EntriesOf
  <1>2. /\ \A k \in 1..Len(t.entries) : Holds(d, t.entries[k])
        /\ \A i \in UsedEntries(d) : \E k \in 1..Len(t.entries) : t.entries[k].index = i - 1
    BY GptSlotsRead
  <1> HIDE DEF t
  <1>3. ASSUME NEW e \in E
        PROVE  /\ e.index + 1 \in UsedEntries(d) /\ e.start \in Nat /\ e.count \in Nat
               /\ d[2].slots[e.index + 1].start = e.start
               /\ d[2].slots[e.index + 1].end = e.start + e.count - 1
    <2>1. InGpt(e, d[1].first, d[1].last) /\ Holds(d, e)
      BY <1>1, <1>2, <1>a DEF GptTable
    <2>a. e \in EntrySet /\ e.index \in 0..(GptSlots - 1) /\ e.start >= d[1].first
      BY <2>1 DEF InGpt
    <2>b. e.start \in Nat /\ e.count \in Nat
      BY <2>a DEF EntrySet
    <2>c. e.index + 1 \in 1..GptSlots
      BY <2>a, FirstSectors, SlotOfIndex
    <2>2. e.start \in Nat /\ e.count \in Nat /\ e.start > 2 /\ e.index + 1 \in 1..GptSlots
      BY <1>1, <2>a, <2>b, <2>c
    <2>3. /\ d[2].slots[e.index + 1].start = e.start
          /\ d[2].slots[e.index + 1].end = e.start + e.count - 1
      BY <2>1 DEF Holds, GptEntry
    <2>4. e.index + 1 \in UsedEntries(d)
      BY <2>2, <2>3 DEF UsedEntries, UnusedEntry, GptEntry
    <2> QED BY <2>2, <2>3, <2>4
  <1>4. ASSUME NEW i \in UsedEntries(d) PROVE \E e \in E : e.start = d[2].slots[i].start
    <2>1. PICK k \in 1..Len(t.entries) : t.entries[k].index = i - 1
      BY <1>2
    <2>2. i \in Nat /\ (i - 1) + 1 = i
      BY FirstSectors DEF UsedEntries
    <2>3. PICK e \in E : e = t.entries[k]
      BY <1>a
    <2>4. e.index + 1 = i
      BY <2>1, <2>2, <2>3
    <2>5. d[2].slots[i].start = e.start
      BY <1>3, <2>4
    <2> QED BY <2>5
  <1>5. ASSUME NEW q \in E, NEW r \in E, BeginsIn(q.start, r) PROVE FALSE
    <2>1. PICK j \in 1..Len(t.entries), k \in 1..Len(t.entries) : q = t.entries[j] /\ r = t.entries[k]
      BY <1>a
    <2>2. InGpt(q, d[1].first, d[1].last) /\ (j # k => ~Overlap(q, r))
      BY <1>1, <2>1 DEF GptTable, AwayFrom
    <2>3. q.start \in Nat /\ q.count \in Nat /\ q.count > 0 /\ r.start \in Nat /\ r.count \in Nat
      BY <1>3, <2>2 DEF InGpt
    <2>4. r.start < q.start /\ q.start < r.start + r.count
      BY <1>5 DEF BeginsIn
    <2>5. j # k
      BY <2>1, <2>3, <2>4
    <2>6. ~(q.start < r.start + r.count /\ r.start < q.start + q.count)
      BY <2>2, <2>5 DEF Overlap
    <2> QED BY <2>3, <2>4, <2>6
  <1> QED BY <1>3, <1>4, <1>5

\* What the theorem about planned writes keeps invariant.
SafeInv == PlanInv /\ ClearOK /\ Foreseen

\* What is queued.
LEMMA QueuedIs ==
  ASSUME \/ onCreatePartition \/ onDeletePartition \/ onResizePartition \/ onFormatPartition
         \/ onSetLabel \/ onCheckFilesystem \/ onSetFlags
  PROVE  /\ UNCHANGED <<disk, table, last, snapshot, phase, ran>>
         /\ \E p : /\ pending' = Append(pending, p)
                   /\ \/ p.op.kind = "Create" /\ p.op.start = NewStart
                      \/ p.op.kind # "Create" /\ p.row \in snapshot
  <1> DEFINE Plan(op, row) == [op |-> op, row |-> row]
             Good(p) == \/ p.op.kind = "Create" /\ p.op.start = NewStart
                        \/ p.op.kind # "Create" /\ p.row \in snapshot
  <1>1. ASSUME NEW op, NEW row PROVE Plan(op, row).op = op /\ Plan(op, row).row = row
    OBVIOUS
  <1>2. ASSUME NEW op, NEW row, enqueue(op, row)
        PROVE  /\ UNCHANGED <<disk, table, last, snapshot, phase, ran>>
               /\ pending' = Append(pending, Plan(op, row))
    BY <1>2 DEF enqueue, ovars
  <1> HIDE DEF Plan
  <1>3. ASSUME NEW r \in snapshot, NEW op, op.kind # "Create" PROVE Good(Plan(op, r))
    BY <1>1, <1>3
  <1> SUFFICES \E op, row : enqueue(op, row) /\ Good(Plan(op, row))
    <2>1. ASSUME NEW op, NEW row, enqueue(op, row), Good(Plan(op, row))
          PROVE  /\ UNCHANGED <<disk, table, last, snapshot, phase, ran>>
                 /\ \E p : pending' = Append(pending, p) /\ Good(p)
      <3> HIDE DEF Good
      <3> QED BY <1>2, <2>1
    <2> QED BY <2>1
  <1>4. CASE onCreatePartition
    <2>1. PICK c \in Counts : enqueue(CreateOp(NewStart, c, FALSE, FALSE), NoEntry)
      BY <1>4 DEF onCreatePartition
    <2> DEFINE op == CreateOp(NewStart, c, FALSE, FALSE)
    <2>2. op.kind = "Create" /\ op.start = NewStart
      BY DEF CreateOp, Op
    <2> HIDE DEF op
    <2>3. Good(Plan(op, NoEntry))
      BY <1>1, <2>2
    <2> HIDE DEF Good
    <2> QED BY <2>1, <2>3 DEF op
  <1> HIDE DEF Good
  <1>5. CASE onDeletePartition
    <2>1. PICK e \in snapshot : enqueue(DeleteOp(e.index), e)
      BY <1>5 DEF onDeletePartition
    <2>2. DeleteOp(e.index).kind # "Create"
      BY DEF DeleteOp, Op
    <2> QED BY <1>3, <2>1, <2>2
  <1>6. CASE onResizePartition
    <2>1. PICK e \in snapshot, c \in Counts : enqueue(ResizeOp(e.index, e.start, c), e)
      BY <1>6 DEF onResizePartition
    <2>2. ResizeOp(e.index, e.start, c).kind # "Create"
      BY DEF ResizeOp, Op
    <2> QED BY <1>3, <2>1, <2>2
  <1>7. CASE onFormatPartition
    <2>1. PICK e \in snapshot : enqueue(FormatOp(e), e)
      BY <1>7 DEF onFormatPartition
    <2>2. FormatOp(e).kind # "Create"
      BY DEF FormatOp, Op
    <2> QED BY <1>3, <2>1, <2>2
  <1>8. CASE onSetLabel
    <2>1. PICK e \in snapshot, l \in Labels : enqueue(LabelOp(e, "ext", l), e)
      BY <1>8 DEF onSetLabel
    <2>2. LabelOp(e, "ext", l).kind # "Create"
      BY DEF LabelOp, Op
    <2> QED BY <1>3, <2>1, <2>2
  <1>9. CASE onCheckFilesystem
    <2>1. PICK e \in snapshot : enqueue(CheckOp(e, "ext", FALSE), e)
      BY <1>9 DEF onCheckFilesystem
    <2> DEFINE op == CheckOp(e, "ext", FALSE)
    <2>2. op.kind # "Create"
      BY DEF CheckOp, Op
    <2> HIDE DEF op
    <2> QED BY <1>3, <2>1, <2>2 DEF op
  <1>10. CASE onSetFlags
    <2>1. PICK e \in snapshot, a \in BOOLEAN : enqueue(FlagsOp(e.index, a), e)
      BY <1>10 DEF onSetFlags
    <2>2. FlagsOp(e.index, a).kind # "Create"
      BY DEF FlagsOp, Op
    <2> QED BY <1>3, <2>1, <2>2
  <1> QED BY <1>4, <1>5, <1>6, <1>7, <1>8, <1>9, <1>10

\* Queueing one more.
LEMMA QueueSafe ==
  ASSUME SafeInv,
         \/ onCreatePartition \/ onDeletePartition \/ onResizePartition \/ onFormatPartition
         \/ onSetLabel \/ onCheckFilesystem \/ onSetFlags
  PROVE  ClearOK' /\ Foreseen'
  <1>1. UNCHANGED <<disk, table, last, snapshot, phase, ran>>
    BY QueuedIs
  <1>2. PICK p : /\ pending' = Append(pending, p)
                 /\ \/ p.op.kind = "Create" /\ p.op.start = NewStart
                    \/ p.op.kind # "Create" /\ p.row \in snapshot
    BY QueuedIs
  <1>3. OInv /\ GptOK(disk) /\ (\A r \in snapshot : RowOK(r)) /\ IsSeq(pending)
    BY DEF SafeInv, PlanInv, PlansOK
  <1>4. ClearOK /\ Foreseen
    BY DEF SafeInv
  <1>5. /\ Len(pending) \in Nat /\ Len(pending') = Len(pending) + 1
        /\ \A k \in 1..Len(pending) : pending'[k] = pending[k]
        /\ pending'[Len(pending) + 1] = p
    BY <1>2, <1>3, AppendIs
  <1>6. \A k \in 1..Len(pending') : pending'[k] = p \/ \E j \in 1..Len(pending) : pending'[k] = pending[j]
    BY <1>5
  <1>7. Clear(NewStart, disk)
    BY <1>3, <1>4, NewClear DEF ClearOK
  <1>8. \A r \in snapshot : ~BeginsIn(NewStart, r)
    <2> SUFFICES ASSUME NEW r \in snapshot PROVE ~BeginsIn(NewStart, r)
      OBVIOUS
    <2>1. NewStart \in Nat /\ NewStart >= r.start + r.count /\ r.start \in Nat /\ r.count \in Nat
      BY <1>3, NewStartIs, RowIs DEF RowSet
    <2> QED BY <2>1 DEF BeginsIn
  <1>9. ClearOK'
    <2>1. IF p.op.kind = "Create" THEN Clear(p.op.start, disk) ELSE p.row.start >= TableSectors
      BY <1>2, <1>4, <1>7 DEF ClearOK
    <2>2. \A k \in 1..Len(pending') :
            IF pending'[k].op.kind = "Create" THEN Clear(pending'[k].op.start, disk)
            ELSE pending'[k].row.start >= TableSectors
      BY <1>4, <1>6, <2>1 DEF ClearOK
    <2> QED BY <1>1, <1>4, <2>2 DEF ClearOK
  <1>10. Foreseen'
    <2>1. ForeseenBy(p)
      BY <1>2, <1>8 DEF ForeseenBy
    <2>2. Unfailed => \A k \in 1..Len(pending') : ForeseenBy(pending'[k])
      BY <1>4, <1>6, <2>1 DEF Foreseen
    <2>3. Unfailed' <=> Unfailed
      BY <1>1 DEF Unfailed
    <2>4. ASSUME Unfailed' PROVE \A k \in 1..Len(pending') : ForeseenBy(pending[k])'
      BY <1>1, <2>2, <2>3, <2>4 DEF ForeseenBy
    <2>5. Entries' = Entries
      BY <1>1 DEF Entries
    <2> QED BY <1>1, <1>4, <2>3, <2>4, <2>5 DEF Foreseen
  <1> QED BY <1>9, <1>10

\* Nothing but the phase and the plans, and of these only fewer.
LEMMA FewerSafe ==
  ASSUME SafeInv, UNCHANGED <<disk, table, last, snapshot, ran>>,
         \A k \in 1..Len(pending') : \E j \in 1..Len(pending) : pending'[k] = pending[j],
         phase' # "failed" \/ phase' = phase
  PROVE  ClearOK' /\ Foreseen'
  <1>1. ClearOK /\ Foreseen
    BY DEF SafeInv
  <1>2. ClearOK'
    <2>1. \A k \in 1..Len(pending') :
            IF pending'[k].op.kind = "Create" THEN Clear(pending'[k].op.start, disk)
            ELSE pending'[k].row.start >= TableSectors
      BY <1>1 DEF ClearOK
    <2> QED BY <1>1, <2>1 DEF ClearOK
  <1>3. Foreseen'
    <2>1. Unfailed => \A k \in 1..Len(pending') : ForeseenBy(pending'[k])
      BY <1>1 DEF Foreseen
    <2>2. Unfailed' <=> Unfailed
      BY DEF Unfailed
    <2>3. ASSUME Unfailed' PROVE \A k \in 1..Len(pending') : ForeseenBy(pending[k])'
      BY <2>1, <2>2, <2>3 DEF ForeseenBy
    <2>4. Entries' = Entries
      BY DEF Entries
    <2> QED BY <1>1, <2>2, <2>3, <2>4 DEF Foreseen
  <1> QED BY <1>2, <1>3

\* The end of a run: the rows are those of the table again.
LEMMA FinishSafe ==
  ASSUME SafeInv, allOperationsFinished
  PROVE  ClearOK' /\ Foreseen'
  <1>1. /\ phase = "failed" \/ (phase = "running" /\ pending = <<>>)
        /\ phase' = "idle" /\ snapshot' \in {ShownRows, snapshot}
        /\ UNCHANGED <<disk, table, last, pending, ran>>
    BY DEF allOperationsFinished, ovars
  <1>2. ClearOK /\ Foreseen /\ OInv /\ GptOK(disk)
    BY DEF SafeInv, PlanInv, PlansOK
  <1>3. /\ \A e \in Entries : /\ e.index + 1 \in UsedEntries(disk)
                              /\ disk[2].slots[e.index + 1].start = e.start
        /\ \A q, r \in Entries : ~BeginsIn(q.start, r)
    <2>1. DiskOK(disk) /\ table = parse(disk)
      BY <1>2 DEF OInv
    <2>2. Entries = EntriesOf(disk)
      BY <2>1 DEF Entries, EntriesOf
    <2> QED BY <1>2, <2>1, <2>2, EntrySlots
  <1>4. \A e \in ShownRows : e.start >= TableSectors
    BY <1>2, <1>3, RowIsEntry DEF ClearOK, SlotsClear
  <1>a. \A q \in ShownRows \cup Entries, r \in ShownRows : ~BeginsIn(q.start, r)
    BY <1>3, RowIsEntry DEF BeginsIn
  <1>5. ClearOK'
    <2>1. \A r \in snapshot' : r.start >= TableSectors
      BY <1>1, <1>2, <1>4 DEF ClearOK
    <2> QED BY <1>1, <1>2, <2>1 DEF ClearOK
  <1>6. \A r, q \in snapshot' : ~BeginsIn(q.start, r)
    BY <1>1, <1>2, <1>a DEF Foreseen
  <1>7. Entries' = Entries /\ (Unfailed' <=> Unfailed)
    BY <1>1 DEF Entries, Unfailed
  <1>8. ASSUME Unfailed
        PROVE  /\ \A r \in snapshot', e \in Entries : ~BeginsIn(e.start, r)
               /\ pending' = <<>>
    <2>1. phase # "failed" /\ \A r \in snapshot, e \in Entries : ~BeginsIn(e.start, r)
      BY <1>2, <1>8 DEF Foreseen
    <2> QED BY <1>1, <1>a, <2>1
  <1>9. Foreseen'
    <2>1. Len(<<>>) = 0
      BY EmptySeq
    <2> QED BY <1>1, <1>6, <1>7, <1>8, <2>1 DEF Foreseen
  <1> QED BY <1>5, <1>9

\* Where what is carried out begins: nowhere inside a row, as long as nothing has failed.
LEMMA BeginsWhere ==
  ASSUME SafeInv, applyNext
  PROVE  LET op == Head(pending).op IN
         /\ op.start \in Nat /\ Clear(op.start, disk)
         /\ op.start = 0 \/ (Unfailed => \A r \in snapshot : ~BeginsIn(op.start, r))
  <1> DEFINE p == Head(pending)
             op == p.op
  <1>1. /\ \/ PlannedCreate(p) /\ op.kind = "Create"
           \/ PlannedRow(p) /\ RowOK(p.row) /\ ForRow(op, p.row)
    BY NextIs DEF SafeInv
  <1>2. p = pending[1] /\ 1 \in 1..Len(pending)
    BY TailIs DEF applyNext, SafeInv, PlanInv
  <1> HIDE DEF p
  <1>3. ClearOK /\ Foreseen /\ OInv /\ GptOK(disk)
    BY DEF SafeInv, PlanInv, PlansOK
  <1>4. /\ IF op.kind = "Create" THEN Clear(op.start, disk) ELSE p.row.start >= TableSectors
        /\ Unfailed => ForeseenBy(p)
    BY <1>2, <1>3 DEF ClearOK, Foreseen
  <1>5. ASSUME op.kind = "Create"
        PROVE  op.start \in Nat /\ Clear(op.start, disk)
               /\ (op.start = 0 \/ (Unfailed => \A r \in snapshot : ~BeginsIn(op.start, r)))
    <2>1. op.start \in Nat
      BY <1>1, <1>5 DEF PlannedCreate, ForRow, ByIndex
    <2> QED BY <1>4, <1>5, <2>1 DEF ForeseenBy
  <1>6. ASSUME op.kind # "Create"
        PROVE  op.start \in Nat /\ Clear(op.start, disk)
               /\ (op.start = 0 \/ (Unfailed => \A r \in snapshot : ~BeginsIn(op.start, r)))
    <2>1. RowOK(p.row) /\ op.start \in {0, p.row.start}
      BY <1>1, <1>6 DEF ForRow
    <2>2. p.row.start \in Nat /\ p.row.start >= TableSectors
      BY <1>3, <1>4, <1>6, <2>1, RowIs DEF RowSet
    <2>3. CASE op.start = 0
      <3>1. 0 < disk[1].first
        BY <1>3 DEF GptOK
      <3> QED BY <2>3, <3>1 DEF Clear
    <2>4. CASE op.start = p.row.start
      <3>1. Unfailed => p.row \in snapshot
        BY <1>4, <1>6 DEF ForeseenBy
      <3>2. \A r, q \in snapshot : ~BeginsIn(q.start, r)
        BY <1>3 DEF Foreseen
      <3> QED BY <2>2, <2>4, <3>1, <3>2 DEF Clear
    <2> QED BY <2>1, <2>3, <2>4
  <1> QED BY <1>5, <1>6 DEF p

\* Carrying it out.
LEMMA ApplySafe ==
  ASSUME SafeInv, applyNext
  PROVE  ClearOK' /\ Foreseen'
  <1> DEFINE p == Head(pending)
             op == p.op
             rec == [op |-> p.op, row |-> p.row, hit |-> Hit(p.op), ok |-> last'.ok]
  <1>1. /\ OInv' /\ GptOK(disk') /\ disk'[1].first = disk[1].first
        /\ GptEffect(disk, disk', op) /\ ran' = Append(ran, rec)
    BY NextIs DEF SafeInv
  <1>2. /\ op.start \in Nat /\ Clear(op.start, disk)
        /\ op.start = 0 \/ (Unfailed => \A r \in snapshot : ~BeginsIn(op.start, r))
    BY BeginsWhere
  <1>3. rec.ok = last'.ok
    OBVIOUS
  <1>4. /\ pending # <<>> /\ pending' = Tail(pending) /\ snapshot' = snapshot
        /\ phase' = IF last'.ok THEN "running" ELSE "failed"
    BY DEF applyNext
  <1> HIDE DEF op, rec
  <1>5. ClearOK /\ Foreseen /\ OInv /\ GptOK(disk) /\ IsSeq(pending) /\ IsSeq(ran)
    BY DEF SafeInv, PlanInv, PlansOK
  <1>6. SlotStep(disk, disk', op)
    BY <1>1 DEF GptEffect
  <1>7. \A k \in 1..Len(pending') : k + 1 \in 1..Len(pending) /\ pending'[k] = pending[k + 1]
    BY <1>4, <1>5, TailIs
  <1>8. ClearOK'
    <2>1. SlotsClear(disk')
      BY <1>1, <1>2, <1>5, <1>6, StepClear DEF ClearOK
    <2>2. \A x : Clear(x, disk') <=> Clear(x, disk)
      BY <1>1 DEF Clear
    <2>3. \A k \in 1..Len(pending') :
            IF pending'[k].op.kind = "Create" THEN Clear(pending'[k].op.start, disk')
            ELSE pending'[k].row.start >= TableSectors
      BY <1>5, <1>7, <2>2 DEF ClearOK
    <2>4. Clear(DEFAULT_ALIGNMENT, disk') /\ \A r \in snapshot' : r.start >= TableSectors
      BY <1>4, <1>5, <2>2 DEF ClearOK
    <2> QED BY <2>1, <2>3, <2>4 DEF ClearOK
  <1>9. ASSUME Unfailed' PROVE Unfailed /\ last'.ok
    <2>1. /\ Len(ran) \in Nat /\ Len(ran') = Len(ran) + 1 /\ ran'[Len(ran) + 1] = rec
          /\ \A i \in 1..Len(ran) : ran'[i] = ran[i]
      BY <1>1, <1>5, AppendIs
    <2>2. \A i \in 1..Len(ran') : ran'[i].ok
      BY <1>9 DEF Unfailed
    <2>3. \A i \in 1..Len(ran) : i \in 1..Len(ran')
      BY <2>1
    <2>4. Len(ran) + 1 \in 1..Len(ran')
      BY <2>1
    <2>5. Unfailed
      BY <2>1, <2>2, <2>3 DEF Unfailed
    <2>6. last'.ok
      BY <1>3, <2>1, <2>2, <2>4
    <2> QED BY <2>5, <2>6
  <1>10. ASSUME Unfailed', NEW r \in snapshot, NEW e \in Entries' PROVE ~BeginsIn(e.start, r)
    <2>1. /\ e.index + 1 \in UsedEntries(disk') /\ e.start = disk'[2].slots[e.index + 1].start
          /\ e.start \in Nat
      <3>1. DiskOK(disk') /\ table' = parse(disk')
        BY <1>1 DEF OInv
      <3>2. Entries' = EntriesOf(disk')
        BY <3>1 DEF Entries, EntriesOf
      <3>3. \A f \in Entries' : /\ f.index + 1 \in UsedEntries(disk') /\ f.start \in Nat
                                /\ disk'[2].slots[f.index + 1].start = f.start
        BY <1>1, <3>1, <3>2, EntrySlots
      <3> QED BY <3>3
    <2> DEFINE i == e.index + 1
    <2>2. disk'[2].slots[i] = disk[2].slots[i] \/ e.start = op.start
      BY <1>6, <2>1 DEF SlotStep
    <2>3. CASE disk'[2].slots[i] = disk[2].slots[i]
      <3>1. i \in UsedEntries(disk)
        BY <2>1, <2>3 DEF UsedEntries
      <3>2. PICK f \in Entries : f.start = disk[2].slots[i].start
        <4>1. DiskOK(disk) /\ table = parse(disk)
          BY <1>5 DEF OInv
        <4>2. Entries = EntriesOf(disk)
          BY <4>1 DEF Entries, EntriesOf
        <4>3. \A j \in UsedEntries(disk) : \E f \in Entries : f.start = disk[2].slots[j].start
          BY <1>5, <4>1, <4>2, EntrySlots
        <4> QED BY <3>1, <4>3
      <3>3. f.start = e.start
        BY <2>1, <2>3, <3>2
      <3> QED BY <1>5, <1>9, <1>10, <3>2, <3>3 DEF Foreseen
    <2>4. CASE e.start = op.start
      <3>1. op.start # 0
        <4>1. disk'[1].first <= e.start /\ disk'[1].first \in Nat /\ disk'[1].first > 2
          BY <1>1, <2>1 DEF GptOK
        <4> QED BY <2>4, <4>1
      <3> QED BY <1>2, <1>9, <1>10, <2>4, <3>1
    <2> QED BY <2>2, <2>3, <2>4
  <1>11. ASSUME Unfailed' PROVE \A k \in 1..Len(pending') : ForeseenBy(pending[k])'
    <2>1. \A k \in 1..Len(pending) : ForeseenBy(pending[k])
      BY <1>5, <1>9, <1>11 DEF Foreseen
    <2> QED BY <1>4, <1>7, <2>1 DEF ForeseenBy
  <1>12. ASSUME Unfailed' PROVE phase' # "failed"
    BY <1>4, <1>9, <1>12
  <1>13. \A r, q \in snapshot' : ~BeginsIn(q.start, r)
    BY <1>4, <1>5 DEF Foreseen
  <1>14. Foreseen'
    <2>1. \A r \in snapshot', e \in Entries' : Unfailed' => ~BeginsIn(e.start, r)
      BY <1>4, <1>10
    <2> QED BY <1>11, <1>12, <1>13, <2>1 DEF Foreseen
  <1> QED BY <1>8, <1>14

\* At first the rows are those of the table, and clear of it.
LEMMA SafeStart ==
  ASSUME PInit, GptOK(disk), SlotsClear(disk), Clear(DEFAULT_ALIGNMENT, disk)
  PROVE  SafeInv
  <1>1. snapshot = ShownRows /\ pending = <<>> /\ phase = "idle"
    BY DEF PInit
  <1>2. PlanInv
    BY PlanStart
  <1>3. DiskOK(disk) /\ table = parse(disk)
    BY <1>2 DEF PlanInv, OInv
  <1>4. Entries = EntriesOf(disk)
    BY <1>3 DEF Entries, EntriesOf
  <1>5. /\ \A e \in Entries : /\ e.index + 1 \in UsedEntries(disk)
                              /\ disk[2].slots[e.index + 1].start = e.start
        /\ \A q, r \in Entries : ~BeginsIn(q.start, r)
    BY <1>3, <1>4, EntrySlots
  <1>6. \A r \in snapshot : r.start >= TableSectors
    BY <1>1, <1>5, RowIsEntry DEF SlotsClear
  <1>a. \A q \in ShownRows \cup Entries, r \in ShownRows : ~BeginsIn(q.start, r)
    BY <1>5, RowIsEntry DEF BeginsIn
  <1>7. Len(pending) = 0
    BY <1>1, EmptySeq
  <1>8. ClearOK
    BY <1>6, <1>7 DEF ClearOK
  <1>9. Foreseen
    BY <1>1, <1>a, <1>7 DEF Foreseen
  <1> QED BY <1>2, <1>8, <1>9 DEF SafeInv

\* Every step keeps it.
LEMMA SafeStep == ASSUME SafeInv, [PNext]_pvars PROVE SafeInv'
  <1>1. IsSeq(pending)
    BY DEF SafeInv, PlanInv
  <1>2. SUFFICES ClearOK' /\ Foreseen'
    BY PlanStep DEF SafeInv
  <1>3. CASE \/ onCreatePartition \/ onDeletePartition \/ onResizePartition \/ onFormatPartition
             \/ onSetLabel \/ onCheckFilesystem \/ onSetFlags
    BY <1>3, QueueSafe
  <1>4. CASE onUndoOperation
    <2>1. /\ pending # <<>> /\ pending' = SubSeq(pending, 1, Len(pending) - 1)
          /\ UNCHANGED <<disk, table, last, snapshot, phase, ran>>
      BY <1>4 DEF onUndoOperation, ovars
    <2>2. \A k \in 1..Len(pending') : k \in 1..Len(pending) /\ pending'[k] = pending[k]
      BY <1>1, <2>1, FrontIs
    <2> QED BY <2>1, <2>2, FewerSafe
  <1>5. CASE onApplyOperations
    <2>1. phase' = "running" /\ UNCHANGED <<disk, table, last, snapshot, pending, ran>>
      BY <1>5 DEF onApplyOperations, ovars
    <2> QED BY <2>1, FewerSafe
  <1>6. CASE applyNext
    BY <1>6, ApplySafe
  <1>7. CASE allOperationsFinished
    BY <1>7, FinishSafe
  <1>8. CASE UNCHANGED pvars
    <2>1. UNCHANGED <<disk, table, last, snapshot, pending, phase, ran>>
      BY <1>8 DEF pvars
    <2> QED BY <2>1, FewerSafe
  <1> QED BY <1>3, <1>4, <1>5, <1>6, <1>7, <1>8 DEF PNext

\* Only carrying out changes what was done last, and that is then the operation.
LEMMA LastIs ==
  ASSUME PlanInv, [PNext]_pvars, last' # last
  PROVE  applyNext /\ last'.op = Head(pending).op
  <1>1. applyNext
    <2>1. ASSUME NEW op, NEW row, enqueue(op, row) PROVE last' = last
      BY <2>1 DEF enqueue, ovars
    <2>2. ~(\/ onCreatePartition \/ onDeletePartition \/ onResizePartition \/ onFormatPartition
            \/ onSetLabel \/ onCheckFilesystem \/ onSetFlags)
      BY <2>1 DEF onCreatePartition, onDeletePartition, onResizePartition, onFormatPartition,
                  onSetLabel, onCheckFilesystem, onSetFlags
    <2>3. ~(onUndoOperation \/ onApplyOperations \/ allOperationsFinished \/ UNCHANGED pvars)
      BY DEF onUndoOperation, onApplyOperations, allOperationsFinished, ovars, pvars
    <2> QED BY <2>2, <2>3 DEF PNext
  <1> DEFINE p == Head(pending)
             op == p.op
  <1>2. execute(op)
    BY <1>1 DEF applyNext
  <1>3. /\ \/ PlannedCreate(p) /\ op.kind = "Create"
           \/ PlannedRow(p) /\ RowOK(p.row) /\ ForRow(op, p.row)
        /\ IsOp(op)
    BY <1>1, NextIs
  <1> HIDE DEF p, op
  <1>4. op.kind \notin {"none", "undo"}
    BY <1>3 DEF ForRow, ByIndex
  <1>5. DiskOK(disk)
    BY DEF PlanInv, OInv
  <1>6. PICK o \in Outcomes(disk, op, FreshGuid) \cup EarlyFailure(disk, op) : last' = o.done
    BY <1>2 DEF execute
  <1>7. last'.op = op
    BY <1>3, <1>4, <1>5, <1>6, DoneIs
  <1> QED BY <1>1, <1>7 DEF op, p

\* What is carried out by a step that PlannedWritesSafe speaks of leaves the partition alone.
LEMMA WritesSafe ==
  ASSUME SafeInv, applyNext, NEW op, op = Head(pending).op, NEW e \in Entries,
         \/ op.kind = "Create"
         \/ /\ op.kind \in {"Format", "SetLabel", "Check"}
            /\ op.kind = "Format" => Unfailed
            /\ op.start \notin SectorsOf(e),
         NEW s \in SectorsOf(e)
  PROVE  disk'[s] = disk[s]
  <1> DEFINE p == Head(pending)
  <1>1. /\ \/ PlannedCreate(p) /\ op.kind = "Create"
           \/ PlannedRow(p) /\ RowOK(p.row) /\ ForRow(op, p.row)
        /\ GptEffect(disk, disk', op)
    BY NextIs DEF SafeInv
  <1>2. p = pending[1] /\ 1 \in 1..Len(pending)
    BY TailIs DEF applyNext, SafeInv, PlanInv
  <1>a. op = p.op
    OBVIOUS
  <1> HIDE DEF p
  <1>3. ClearOK /\ Foreseen /\ OInv /\ GptOK(disk)
    BY DEF SafeInv, PlanInv, PlansOK
  <1>4. s \in Lba /\ s \in Nat /\ s >= e.start /\ s < e.start + e.count
    BY FirstSectors DEF SectorsOf
  <1>5. /\ e.index + 1 \in UsedEntries(disk) /\ e.start \in Nat /\ e.count \in Nat
        /\ disk[2].slots[e.index + 1].start = e.start
        /\ disk[2].slots[e.index + 1].end = e.start + e.count - 1
    <2>1. DiskOK(disk) /\ table = parse(disk)
      BY <1>3 DEF OInv
    <2>2. Entries = EntriesOf(disk)
      BY <2>1 DEF Entries, EntriesOf
    <2>3. \A f \in Entries :
             /\ f.index + 1 \in UsedEntries(disk) /\ f.start \in Nat /\ f.count \in Nat
             /\ disk[2].slots[f.index + 1].start = f.start
             /\ disk[2].slots[f.index + 1].end = f.start + f.count - 1
      BY <1>3, <2>1, <2>2, EntrySlots
    <2> QED BY <2>3
  <1>6. CASE op.kind = "Create"
    <2>1. e.start >= 5
      BY <1>3, <1>5 DEF ClearOK, SlotsClear, TableSectors
    <2>2. s > 4 /\ InSlot(disk, e.index + 1, s)
      BY <1>4, <1>5, <2>1 DEF InSlot
    <2> QED BY <1>1, <1>4, <1>5, <1>6, <2>2 DEF GptEffect
  <1>7. CASE op.kind \in {"SetLabel", "Check"} /\ op.start \notin SectorsOf(e)
    BY <1>1, <1>4, <1>7 DEF GptEffect
  <1>8. CASE op.kind = "Format" /\ Unfailed /\ op.start \notin SectorsOf(e)
    <2>1. RowOK(p.row) /\ op.start = p.row.start /\ op.count = p.row.count
      BY <1>1, <1>8 DEF ForRow, ByIndex
    <2>2. p.row \in snapshot
      BY <1>2, <1>3, <1>8, <1>a DEF Foreseen, ForeseenBy
    <2>3. ~(op.start < e.start /\ e.start < op.start + op.count)
      BY <1>3, <1>8, <2>1, <2>2 DEF Foreseen, BeginsIn
    <2>4. op.start \in Nat /\ op.count \in Nat /\ op.start \in Lba
      <3>1. p.row.start \in Nat /\ p.row.count \in Nat
        BY <1>3, <2>1, RowIs DEF RowSet
      <3>2. /\ p.row.count > 0 /\ p.row.start + p.row.count - 1 <= disk[1].last
            /\ disk[1].last \in Nat /\ disk[1].last < DiskSectors
        BY <1>3, <2>1 DEF RowOK, GptOK
      <3>3. p.row.start \in Lba
        BY <3>1, <3>2, FirstSectors
      <3> QED BY <2>1, <3>1, <3>3
    <2>5. op.start < e.start \/ op.start >= e.start + e.count
      BY <1>5, <1>8, <2>4 DEF SectorsOf
    <2>6. s < op.start \/ s >= op.start + op.count
      BY <1>4, <1>5, <2>3, <2>4, <2>5
    <2> QED BY <1>1, <1>4, <1>8, <2>6 DEF GptEffect
  <1> QED BY <1>6, <1>7, <1>8

\* Planned writes stay where they belong (PlannedWritesSafe): a new partition overwrites
\* none that is there; a label or a check touches only the partition its first sector lies
\* in, and a format only the extent of a row, which nothing begins inside of as long as
\* nothing has failed.
THEOREM PlannedWritesSafeAlways == ASSUME ClearLayouts PROVE PSpec => PlannedWritesSafe
  <1>1. PInit => SafeInv
    BY SafeStart DEF PInit, OInit, ClearLayouts, GptLayouts
  <1>2. SafeInv /\ [PNext]_pvars => SafeInv'
    BY SafeStep
  <1> DEFINE Safe == \A e \in Entries :
                       /\ last' # last
                       /\ \/ last'.op.kind = "Create"
                          \/ /\ last'.op.kind \in {"Format", "SetLabel", "Check"}
                             /\ last'.op.kind = "Format" => Unfailed
                             /\ last'.op.start \notin SectorsOf(e)
                       => \A s \in SectorsOf(e) : disk'[s] = disk[s]
  <1>3. SafeInv /\ [PNext]_pvars => [Safe]_pvars
    <2> SUFFICES ASSUME SafeInv, [PNext]_pvars, NEW e \in Entries, last' # last,
                        \/ last'.op.kind = "Create"
                        \/ /\ last'.op.kind \in {"Format", "SetLabel", "Check"}
                           /\ last'.op.kind = "Format" => Unfailed
                           /\ last'.op.start \notin SectorsOf(e),
                        NEW s \in SectorsOf(e)
                 PROVE  disk'[s] = disk[s]
      OBVIOUS
    <2>1. applyNext /\ last'.op = Head(pending).op
      BY LastIs DEF SafeInv
    <2> QED BY <2>1, WritesSafe
  <1>4. PSpec => [][Safe]_pvars
    BY <1>1, <1>2, <1>3, PTL DEF PSpec
  <1> QED BY <1>4 DEF PlannedWritesSafe

=============================================================================
