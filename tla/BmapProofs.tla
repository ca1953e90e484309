----------------------------- MODULE BmapProofs -----------------------------
(***************************************************************************)
(* Theorems about the pure part of mode 2 (mode/flash/bmap/): whatever     *)
(* file the operator sends, a bmap that parse accepts is sound, and the    *)
(* cursor loop of unmapped finds exactly the bytes of the head that no     *)
(* range writes. Both are about ranges of any number and any size. What    *)
(* the recursion of the cursor computes is shown by the least range at     *)
(* which it could be wrong (LeastNatural); that the recursion has a        *)
(* solution is shown by giving one (LastEnd).                              *)
(***************************************************************************)
EXTENDS ScpMode, InductionFacts

(***************************************************************************)
(* What the checked multiplications of parse rely on, and the number of    *)
(* blocks: the last block begins inside the image.                         *)
(***************************************************************************)
LEMMA Products ==
  /\ \A a, b, c \in Nat : a <= b => a * c <= b * c
  /\ \A a, c \in Nat : a * c \in Nat /\ (a + 1) * c = a * c + c
  /\ \A n, d \in Nat : d # 0 => ((n + d - 1) \div d) * d < n + d
<1>1. ASSUME NEW a \in Nat, NEW b \in Nat, NEW c \in Nat, a <= b PROVE a * c <= b * c
  BY <1>1
<1>2. ASSUME NEW a \in Nat, NEW c \in Nat PROVE a * c \in Nat /\ (a + 1) * c = a * c + c
  OBVIOUS
<1>3. ASSUME NEW n \in Nat, NEW d \in Nat, d # 0 PROVE ((n + d - 1) \div d) * d < n + d
  BY <1>3
<1> QED
  BY <1>1, <1>2, <1>3

(***************************************************************************)
(* A plan the init works with: ranges in order, without overlap, none      *)
(* empty, inside an image that fits the disk.                              *)
(***************************************************************************)
Ranges == [offset : Nat, len : Nat \ {0}]

SoundPlan(p) ==
  /\ p.ranges \in Seq(Ranges) /\ p.ranges # <<>> /\ p.size \in Nat
  /\ Sound(p)

(***************************************************************************)
(* A range of an accepted bmap begins before it ends, and it ends inside   *)
(* the image, the last block cut off (Bmap::parse).                        *)
(***************************************************************************)
LEMMA ParseType ==
  ASSUME NEW raw \in RawBmaps, ParseOk(raw), NEW i \in 1 .. Len(raw.spans)
  PROVE  LET first == raw.spans[i][1]  last == raw.spans[i][2]
         IN  /\ first \in Nat /\ last \in Nat /\ first * raw.bs \in Nat
             /\ SpanEnd(raw, i) \in Nat /\ first * raw.bs < SpanEnd(raw, i)
             /\ SpanEnd(raw, i) <= raw.size
<1> DEFINE first == raw.spans[i][1]
           last == raw.spans[i][2]
<1>1. raw.size \in Nat /\ raw.bs \in Nat /\ raw.bs # 0 /\ raw.blocks \in Nat
  <2>1. raw.bs # 0
    BY DEF ParseOk
  <2> QED
    BY <2>1, BmapsAssumption, DiskAssumption
<1>2. first \in Nat /\ last \in Nat
  <2>1. MaxU \in Nat /\ raw.spans \in Seq((0 .. MaxU) \X (0 .. MaxU))
    BY BmapsAssumption, DiskAssumption
  <2>2. raw.spans[i] \in (0 .. MaxU) \X (0 .. MaxU)
    BY <2>1
  <2> QED
    BY <2>1, <2>2
<1>3. i \in DOMAIN raw.spans
  BY BmapsAssumption
<1>4. first <= last /\ last < raw.blocks
  BY <1>3 DEF ParseOk, SpanOk
<1> HIDE DEF first, last
<1> DEFINE a == first * raw.bs
           b == (last + 1) * raw.bs
           c == raw.blocks * raw.bs
<1>5. a \in Nat /\ b \in Nat /\ c \in Nat
  BY <1>1, <1>2, Products
<1>6. a + raw.bs <= b
  <2>1. (first + 1) * raw.bs = a + raw.bs
    BY <1>1, <1>2, Products
  <2>2. first + 1 <= last + 1 /\ first + 1 \in Nat /\ last + 1 \in Nat
    BY <1>2, <1>4
  <2>3. (first + 1) * raw.bs <= (last + 1) * raw.bs
    BY <1>1, <2>2, Products
  <2> QED
    BY <2>1, <2>3
<1>7. a + raw.bs <= c
  <2>1. (first + 1) * raw.bs = a + raw.bs
    BY <1>1, <1>2, Products
  <2>2. first + 1 <= raw.blocks
    BY <1>1, <1>2, <1>4
  <2>3. (first + 1) * raw.bs <= c
    BY <1>1, <1>2, <2>2, Products
  <2> QED
    BY <2>1, <2>3
<1>8. c < raw.size + raw.bs
  <2>1. raw.blocks = (raw.size + raw.bs - 1) \div raw.bs
    BY DEF ParseOk
  <2> QED
    BY <1>1, <2>1, Products
<1> HIDE DEF a, b, c
<1>9. a < b /\ a < raw.size
  BY <1>1, <1>5, <1>6, <1>7, <1>8
<1>10. SpanEnd(raw, i) = IF b < raw.size THEN b ELSE raw.size
  BY DEF SpanEnd, b, last
<1>11. a \in Nat /\ SpanEnd(raw, i) \in Nat /\ a < SpanEnd(raw, i) /\ SpanEnd(raw, i) <= raw.size
  BY <1>1, <1>5, <1>9, <1>10
<1> QED
  BY <1>2, <1>11 DEF a, first, last

(***************************************************************************)
(* Whatever file the operator sent: a bmap that parse accepts and whose    *)
(* image fits the disk has ranges in order, without overlap and inside the *)
(* image (Bmap::parse and the size check of read_bmap).                    *)
(***************************************************************************)
THEOREM ParseSound ==
  ASSUME NEW raw \in RawBmaps, ParseOk(raw), raw.size <= DiskLen
  PROVE  SoundPlan(parse(raw))
<1> DEFINE p == parse(raw)
           n == Len(raw.spans)
           At(i) == raw.spans[i][1] * raw.bs
<1>1. n \in Nat /\ DOMAIN raw.spans = 1 .. n /\ raw.size \in Nat
  BY BmapsAssumption, DiskAssumption
<1>2. n # 0
  <2>1. raw.spans # <<>>
    BY DEF ParseOk
  <2>2. raw.spans \in Seq((0 .. MaxU) \X (0 .. MaxU))
    BY BmapsAssumption
  <2> QED
    BY <2>1, <2>2
<1>3. \A i \in 1 .. n : /\ At(i) \in Nat /\ SpanEnd(raw, i) \in Nat
                        /\ At(i) < SpanEnd(raw, i) /\ SpanEnd(raw, i) <= raw.size
  BY ParseType
<1>4. \A i \in 1 .. n : i > 1 => At(i) >= SpanEnd(raw, i - 1)
  BY <1>1 DEF ParseOk, SpanOk
<1>5. p.size = raw.size
      /\ p.ranges = [i \in 1 .. n |-> [offset |-> At(i), len |-> SpanEnd(raw, i) - At(i)]]
  BY <1>1 DEF parse
<1> HIDE DEF At, p, n
<1>6. \A i \in 1 .. n : p.ranges[i] = [offset |-> At(i), len |-> SpanEnd(raw, i) - At(i)]
  BY <1>5
<1>7. \A i \in 1 .. n : p.ranges[i].offset = At(i) /\ p.ranges[i].len = SpanEnd(raw, i) - At(i)
  <2> SUFFICES ASSUME NEW i \in 1 .. n
               PROVE  p.ranges[i].offset = At(i) /\ p.ranges[i].len = SpanEnd(raw, i) - At(i)
    OBVIOUS
  <2>1. p.ranges[i] = [offset |-> At(i), len |-> SpanEnd(raw, i) - At(i)]
    BY <1>6
  <2> QED
    BY <2>1
<1>8. \A i \in 1 .. n : p.ranges[i] \in Ranges
  <2> SUFFICES ASSUME NEW i \in 1 .. n PROVE p.ranges[i] \in Ranges
    OBVIOUS
  <2>1. p.ranges[i] = [offset |-> At(i), len |-> SpanEnd(raw, i) - At(i)]
    BY <1>6
  <2>2. At(i) \in Nat /\ SpanEnd(raw, i) - At(i) \in Nat \ {0}
    BY <1>3
  <2> HIDE DEF At
  <2> QED
    BY <2>1, <2>2 DEF Ranges
<1>9. p.ranges \in Seq(Ranges) /\ Len(p.ranges) = n /\ DOMAIN p.ranges = 1 .. n
  BY <1>1, <1>5, <1>8
<1>10. InOrder(p)
  <2>1. ASSUME NEW i \in 1 .. n, i # 1
        PROVE  p.ranges[i].offset >= p.ranges[i - 1].offset + p.ranges[i - 1].len
    <3>1. i - 1 \in 1 .. n /\ i > 1
      BY <1>1, <2>1
    <3> QED
      BY <1>3, <1>4, <1>7, <3>1
  <2> QED
    BY <1>9, <2>1 DEF InOrder
<1>11. Sound(p)
  <2>1. \A i \in 1 .. n : p.ranges[i].len > 0 /\ p.ranges[i].offset + p.ranges[i].len <= p.size
    BY <1>3, <1>5, <1>7
  <2> QED
    BY <1>5, <1>9, <1>10, <2>1 DEF Sound
<1> QED
  BY <1>1, <1>2, <1>5, <1>9, <1>11 DEF SoundPlan, p

(***************************************************************************)
(* What a sound plan says of one range and of its neighbour.               *)
(***************************************************************************)
LEMMA RangeFacts ==
  ASSUME NEW p, SoundPlan(p)
  PROVE  /\ Len(p.ranges) \in Nat \ {0} /\ DOMAIN p.ranges = 1 .. Len(p.ranges)
         /\ \A k \in 1 .. Len(p.ranges) :
              /\ p.ranges[k].offset \in Nat /\ p.ranges[k].len \in Nat
              /\ RangeEnd(p.ranges[k]) \in Nat
              /\ p.ranges[k].offset < RangeEnd(p.ranges[k])
              /\ RangeEnd(p.ranges[k]) <= DiskLen
         /\ \A k \in 2 .. Len(p.ranges) : RangeEnd(p.ranges[k - 1]) <= p.ranges[k].offset
<1> DEFINE n == Len(p.ranges)
<1>1. p.ranges \in Seq(Ranges) /\ p.ranges # <<>> /\ p.size \in Nat /\ p.size <= DiskLen
  BY DEF SoundPlan, Sound
<1>2. n \in Nat \ {0} /\ DOMAIN p.ranges = 1 .. n
  BY <1>1
<1>3. ASSUME NEW k \in 1 .. n
      PROVE  /\ p.ranges[k].offset \in Nat /\ p.ranges[k].len \in Nat
             /\ RangeEnd(p.ranges[k]) \in Nat
             /\ p.ranges[k].offset < RangeEnd(p.ranges[k])
             /\ RangeEnd(p.ranges[k]) <= DiskLen
  <2>1. p.ranges[k] \in Ranges
    BY <1>1
  <2>2. p.ranges[k].offset \in Nat /\ p.ranges[k].len \in Nat \ {0}
    BY <2>1 DEF Ranges
  <2>3. p.ranges[k].offset + p.ranges[k].len <= p.size
    BY <1>2 DEF SoundPlan, Sound
  <2> QED
    BY <1>1, <2>2, <2>3, DiskAssumption DEF RangeEnd
<1>4. ASSUME NEW k \in 2 .. n PROVE RangeEnd(p.ranges[k - 1]) <= p.ranges[k].offset
  <2>1. k \in DOMAIN p.ranges \ {1} /\ k \in 1 .. n /\ k - 1 \in 1 .. n
    BY <1>2
  <2>2. p.ranges[k].offset >= p.ranges[k - 1].offset + p.ranges[k - 1].len
    BY <2>1 DEF SoundPlan, Sound, InOrder
  <2>3. p.ranges[k].offset \in Nat /\ RangeEnd(p.ranges[k - 1]) \in Nat
    BY <1>3, <2>1
  <2> QED
    BY <2>2, <2>3 DEF RangeEnd
<1> QED
  BY <1>2, <1>3, <1>4

(***************************************************************************)
(* A range ends before every later one begins, not only before the next.   *)
(***************************************************************************)
LEMMA RangesOrdered ==
  ASSUME NEW p, SoundPlan(p), NEW j \in 1 .. Len(p.ranges), NEW i \in 1 .. j - 1
  PROVE  RangeEnd(p.ranges[i]) <= p.ranges[j].offset
<1> DEFINE n == Len(p.ranges)
           Later(k) == RangeEnd(p.ranges[i]) <= p.ranges[k].offset
           T == {k \in Nat : k > i /\ k <= n /\ ~Later(k)}
<1>1. n \in Nat /\ i \in 1 .. n /\ i < j
  BY RangeFacts
<1> SUFFICES ASSUME T # {} PROVE FALSE
  BY <1>1
<1>2. PICK k \in T : \A m \in T : k <= m
  <2>1. T \subseteq Nat
    OBVIOUS
  <2> HIDE DEF T
  <2> QED
    BY <2>1, LeastNatural
<1>3. k \in 2 .. n /\ k \in 1 .. n /\ k - 1 \in 1 .. n /\ k - 1 >= i
  BY <1>1, <1>2
<1>4. RangeEnd(p.ranges[k - 1]) <= p.ranges[k].offset
  BY <1>3, RangeFacts
<1>5. CASE k - 1 = i
  BY <1>2, <1>4, <1>5
<1>6. CASE k - 1 # i
  <2>1. Later(k - 1)
    BY <1>1, <1>2, <1>3, <1>6
  <2>2. /\ p.ranges[k - 1].offset \in Nat /\ p.ranges[k].offset \in Nat
        /\ RangeEnd(p.ranges[k - 1]) \in Nat /\ RangeEnd(p.ranges[i]) \in Nat
        /\ p.ranges[k - 1].offset < RangeEnd(p.ranges[k - 1])
    BY <1>1, <1>3, RangeFacts
  <2>3. Later(k)
    BY <1>4, <2>1, <2>2
  <2> QED
    BY <1>2, <2>3
<1> QED
  BY <1>3, <1>5, <1>6

\* The ranges the loop comes to are the first v ones.
VisitedTo(p, len, v) ==
  /\ v \in 0 .. Len(p.ranges)
  /\ \A k \in 1 .. Len(p.ranges) : Visited(p, len, k) <=> k <= v
  /\ v < Len(p.ranges) => p.ranges[v + 1].offset >= len

(***************************************************************************)
(* The loop of unmapped comes to the first ranges and to no later one; the *)
(* first it does not come to begins behind the area.                       *)
(***************************************************************************)
LEMMA VisitedFirst ==
  ASSUME NEW p, SoundPlan(p), NEW len \in Nat
  PROVE  \E v : VisitedTo(p, len, v)
<1> DEFINE n == Len(p.ranges)
           T == {k \in Nat : k > 0 /\ (k > n \/ ~Visited(p, len, k))}
<1>1. n \in Nat
  BY RangeFacts
<1>2. n + 1 \in T
  BY <1>1
<1>3. PICK m \in T : \A k \in T : m <= k
  <2>1. T \subseteq Nat /\ T # {}
    BY <1>2
  <2> HIDE DEF T
  <2> QED
    BY <2>1, LeastNatural
<1>4. m \in 1 .. n + 1
  BY <1>1, <1>2, <1>3
<1>5. \A k \in 1 .. n : k < m => Visited(p, len, k)
  BY <1>1, <1>3, <1>4
<1>6. \A k \in 1 .. n : k >= m => ~Visited(p, len, k)
  <2> SUFFICES ASSUME NEW k \in 1 .. n, k >= m, Visited(p, len, k) PROVE FALSE
    OBVIOUS
  <2>1. m <= n /\ ~Visited(p, len, m)
    BY <1>1, <1>3, <1>4
  <2> QED
    BY <1>1, <1>4, <2>1 DEF Visited
<1>7. m <= n => p.ranges[m].offset >= len
  <2> SUFFICES ASSUME m <= n PROVE p.ranges[m].offset >= len
    OBVIOUS
  <2>1. PICK i \in 1 .. m : ~(p.ranges[i].offset < len)
    BY <1>1, <1>3, <1>4 DEF Visited
  <2>2. i = m
    <3> SUFFICES ASSUME i # m PROVE FALSE
      OBVIOUS
    <3>1. i \in 1 .. n /\ i < m
      BY <1>1, <1>4
    <3>2. Visited(p, len, i)
      BY <1>5, <3>1
    <3> QED
      BY <2>1, <3>1, <3>2 DEF Visited
  <2>3. m \in 1 .. n
    BY <1>1, <1>4
  <2>4. p.ranges[m].offset \in Nat
    BY <2>3, RangeFacts
  <2> QED
    BY <2>1, <2>2, <2>4
<1> DEFINE v == m - 1
<1>8. v \in 0 .. n /\ m = v + 1
  BY <1>1, <1>4
<1> HIDE DEF v, T
<1>9. \A k \in 1 .. n : Visited(p, len, k) <=> k <= v
  BY <1>1, <1>5, <1>6, <1>8
<1>10. v < n => p.ranges[v + 1].offset >= len
  BY <1>1, <1>7, <1>8
<1> QED
  BY <1>8, <1>9, <1>10 DEF VisitedTo

\* The end of the last of the first k ranges the loop has come to.
LastEnd(p, v, k) ==
  IF k = 0 \/ v = 0 THEN 0 ELSE RangeEnd(p.ranges[IF k <= v THEN k ELSE v])

\* What the recursion of the cursor says of a function.
IsCursor(p, len, c) ==
  c = [k \in 0 .. Len(p.ranges) |->
         IF k = 0 THEN 0
         ELSE IF Visited(p, len, k) THEN MaxOf(c[k - 1], RangeEnd(p.ranges[k]))
         ELSE c[k - 1]]

(***************************************************************************)
(* The end of the last range satisfies the recursion of the cursor.        *)
(***************************************************************************)
LEMMA LastEndStep ==
  ASSUME NEW p, SoundPlan(p), NEW len \in Nat, NEW v, VisitedTo(p, len, v),
         NEW k \in 1 .. Len(p.ranges)
  PROVE  LastEnd(p, v, k) = IF Visited(p, len, k)
                            THEN MaxOf(LastEnd(p, v, k - 1), RangeEnd(p.ranges[k]))
                            ELSE LastEnd(p, v, k - 1)
<1> DEFINE n == Len(p.ranges)
<1>1. n \in Nat /\ v \in 0 .. n /\ (Visited(p, len, k) <=> k <= v)
  BY RangeFacts DEF VisitedTo
<1>2. CASE k > v
  <2>1. LastEnd(p, v, k) = LastEnd(p, v, k - 1)
    BY <1>1, <1>2 DEF LastEnd
  <2> QED
    BY <1>1, <1>2, <2>1
<1>3. CASE k <= v /\ k = 1
  <2>1. LastEnd(p, v, k - 1) = 0 /\ LastEnd(p, v, k) = RangeEnd(p.ranges[k])
    BY <1>1, <1>3 DEF LastEnd
  <2>2. RangeEnd(p.ranges[k]) \in Nat
    BY RangeFacts
  <2>3. MaxOf(0, RangeEnd(p.ranges[k])) = RangeEnd(p.ranges[k])
    BY <2>2 DEF MaxOf
  <2> QED
    BY <1>1, <1>3, <2>1, <2>3
<1>4. CASE k <= v /\ k # 1
  <2>1. k \in 2 .. n /\ k - 1 \in 1 .. n
    BY <1>1, <1>4
  <2>2. LastEnd(p, v, k - 1) = RangeEnd(p.ranges[k - 1])
    BY <1>1, <1>4 DEF LastEnd
  <2>3. LastEnd(p, v, k) = RangeEnd(p.ranges[k])
    BY <1>1, <1>4 DEF LastEnd
  <2>4. /\ RangeEnd(p.ranges[k - 1]) \in Nat /\ RangeEnd(p.ranges[k]) \in Nat
        /\ RangeEnd(p.ranges[k - 1]) < RangeEnd(p.ranges[k])
    <3>1. /\ RangeEnd(p.ranges[k - 1]) \in Nat /\ RangeEnd(p.ranges[k]) \in Nat
          /\ p.ranges[k].offset \in Nat /\ p.ranges[k].offset < RangeEnd(p.ranges[k])
      BY <2>1, RangeFacts
    <3>2. RangeEnd(p.ranges[k - 1]) <= p.ranges[k].offset
      BY <2>1, RangeFacts
    <3> QED
      BY <3>1, <3>2
  <2>5. MaxOf(RangeEnd(p.ranges[k - 1]), RangeEnd(p.ranges[k])) = RangeEnd(p.ranges[k])
    BY <2>4 DEF MaxOf
  <2> QED
    BY <1>1, <1>4, <2>2, <2>3, <2>5
<1> QED
  BY <1>1, <1>2, <1>3, <1>4

(***************************************************************************)
(* The cursor of unmapped is the end of the last range it came to: the     *)
(* recursion has a solution, and no other one.                             *)
(***************************************************************************)
LEMMA CursorIsLastEnd ==
  ASSUME NEW p, SoundPlan(p), NEW len \in Nat, NEW v, VisitedTo(p, len, v),
         NEW k \in 0 .. Len(p.ranges)
  PROVE  Cursor(p, len)[k] = LastEnd(p, v, k)
<1> DEFINE n == Len(p.ranges)
           w == [m \in 0 .. n |-> LastEnd(p, v, m)]
           c == Cursor(p, len)
<1>1. n \in Nat
  BY RangeFacts
<1>2. IsCursor(p, len, w)
  <2> DEFINE Body(m) == IF m = 0 THEN 0
                        ELSE IF Visited(p, len, m) THEN MaxOf(w[m - 1], RangeEnd(p.ranges[m]))
                        ELSE w[m - 1]
  <2>1. ASSUME NEW m \in 0 .. n PROVE LastEnd(p, v, m) = Body(m)
    <3>1. CASE m = 0
      BY <3>1 DEF LastEnd
    <3>2. CASE m # 0
      <4>1. m \in 1 .. n /\ m - 1 \in 0 .. n
        BY <1>1, <3>2
      <4>2. w[m - 1] = LastEnd(p, v, m - 1)
        BY <4>1
      <4> HIDE DEF w
      <4> QED
        BY <3>2, <4>1, <4>2, LastEndStep
    <3> QED
      BY <3>1, <3>2
  <2> HIDE DEF Body
  <2>2. w = [m \in 0 .. n |-> Body(m)]
    BY <2>1
  <2> QED
    BY <2>2, Zenon DEF IsCursor, Body
<1>3. IsCursor(p, len, c)
  <2>1. c = CHOOSE x : IsCursor(p, len, x)
    BY DEF Cursor, IsCursor
  <2> HIDE DEF c, w
  <2> QED
    BY <1>2, <2>1
<1> HIDE DEF c
<1>4. /\ c[0] = 0
      /\ \A m \in 1 .. n : c[m] = IF Visited(p, len, m)
                                  THEN MaxOf(c[m - 1], RangeEnd(p.ranges[m])) ELSE c[m - 1]
  BY <1>1, <1>3 DEF IsCursor
<1> DEFINE T == {m \in Nat : m <= n /\ c[m] # LastEnd(p, v, m)}
<1> SUFFICES ASSUME T # {} PROVE FALSE
  BY <1>1 DEF c
<1>5. PICK m \in T : \A x \in T : m <= x
  <2>1. T \subseteq Nat
    OBVIOUS
  <2> HIDE DEF T
  <2> QED
    BY <2>1, LeastNatural
<1>6. m # 0
  BY <1>4, <1>5 DEF LastEnd
<1>7. m \in 1 .. n /\ m - 1 \in Nat /\ m - 1 <= n /\ m - 1 < m
  BY <1>1, <1>5, <1>6
<1>8. c[m - 1] = LastEnd(p, v, m - 1)
  BY <1>5, <1>7
<1>9. c[m] = LastEnd(p, v, m)
  BY <1>4, <1>7, <1>8, LastEndStep
<1> QED
  BY <1>5, <1>9

(***************************************************************************)
(* Bmap::unmapped is right: the pieces its cursor loop yields are exactly  *)
(* the bytes of the area that no range writes, so that the zeroing of the  *)
(* head neither leaves a byte of the old image nor destroys one of the     *)
(* new.                                                                    *)
(***************************************************************************)
THEOREM UnmappedIsRest ==
  ASSUME NEW p, SoundPlan(p), NEW len \in Nat
  PROVE  unmapped(p, len) = (0 .. len - 1) \ Mapped(p)
<1> DEFINE n == Len(p.ranges)
           off(k) == p.ranges[k].offset
           end(k) == RangeEnd(p.ranges[k])
<1>1. PICK v : VisitedTo(p, len, v)
  BY VisitedFirst
<1> DEFINE last(k) == LastEnd(p, v, k)
<1>2. n \in Nat \ {0} /\ v \in 0 .. n /\ DOMAIN p.ranges = 1 .. n
  BY <1>1, RangeFacts DEF VisitedTo
<1>3. \A k \in 1 .. n : off(k) \in Nat /\ end(k) \in Nat /\ off(k) < end(k)
  BY RangeFacts
<1>4. \A j \in 1 .. n : \A i \in 1 .. j - 1 : end(i) <= off(j)
  BY RangesOrdered
<1>5. \A k \in 1 .. v : off(k) < len
  <2> SUFFICES ASSUME NEW k \in 1 .. v PROVE off(k) < len
    OBVIOUS
  <2>1. k \in 1 .. n /\ Visited(p, len, k)
    BY <1>1, <1>2 DEF VisitedTo
  <2> QED
    BY <2>1 DEF Visited
<1>6. v < n => off(v + 1) >= len
  BY <1>1 DEF VisitedTo
<1>7. \A x \in Int : x \in Mapped(p) <=> \E i \in 1 .. n : off(i) <= x /\ x < end(i)
  <2> SUFFICES ASSUME NEW x \in Int
               PROVE  x \in Mapped(p) <=> \E i \in 1 .. n : off(i) <= x /\ x < end(i)
    OBVIOUS
  <2>1. x \in Mapped(p) <=> \E i \in 1 .. n : x \in SpanOf(p.ranges[i])
    BY <1>2 DEF Mapped
  <2>2. ASSUME NEW i \in 1 .. n
        PROVE  x \in SpanOf(p.ranges[i]) <=> off(i) <= x /\ x < end(i)
    <3>1. p.ranges[i].offset \in Nat /\ p.ranges[i].len \in Nat
      BY RangeFacts
    <3> QED
      BY <3>1 DEF SpanOf, RangeEnd
  <2> HIDE DEF off, end, n
  <2> QED
    BY <2>1, <2>2
<1>8. \A x : x \in Gaps(p, len) <=> \E k \in 1 .. v : x \in last(k - 1) .. off(k) - 1
  <2>1. {i \in DOMAIN p.ranges : Visited(p, len, i)} = 1 .. v
    BY <1>1, <1>2 DEF VisitedTo
  <2>2. \A k \in 1 .. v : Cursor(p, len)[k - 1] = last(k - 1)
    <3> SUFFICES ASSUME NEW k \in 1 .. v PROVE Cursor(p, len)[k - 1] = last(k - 1)
      OBVIOUS
    <3>1. k - 1 \in 0 .. n
      BY <1>2
    <3> QED
      BY <1>1, <3>1, CursorIsLastEnd
  <2>3. Gaps(p, len) = UNION {Cursor(p, len)[k - 1] .. off(k) - 1 : k \in 1 .. v}
    BY <2>1 DEF Gaps
  <2> HIDE DEF last, off
  <2>4. Gaps(p, len) = UNION {last(k - 1) .. off(k) - 1 : k \in 1 .. v}
    BY <2>2, <2>3
  <2> QED
    BY <2>4
<1>9. unmapped(p, len) = Gaps(p, len) \cup (last(n) .. len - 1)
  <2>1. n \in 0 .. n
    BY <1>2
  <2>2. Cursor(p, len)[n] = last(n)
    BY <1>1, <2>1, CursorIsLastEnd
  <2> QED
    BY <2>2 DEF unmapped
<1>10. /\ last(n) = IF v = 0 THEN 0 ELSE end(v)
       /\ \A k \in 1 .. v : last(k - 1) = IF k = 1 THEN 0 ELSE end(k - 1)
  BY <1>2 DEF LastEnd
<1> HIDE DEF off, end, n, last
<1>11. ASSUME NEW x \in Int, x \in unmapped(p, len)
       PROVE  x \in (0 .. len - 1) \ Mapped(p)
  <2>1. CASE x \in last(n) .. len - 1
    <3>1. 0 <= x /\ x < len /\ (v > 0 => end(v) <= x)
      BY <1>2, <1>3, <1>10, <2>1
    <3>2. \A i \in 1 .. n : ~(off(i) <= x /\ x < end(i))
      <4> SUFFICES ASSUME NEW i \in 1 .. n, off(i) <= x, x < end(i) PROVE FALSE
        OBVIOUS
      <4>1. CASE i < v
        <5>1. i \in 1 .. v - 1 /\ v \in 1 .. n
          BY <1>2, <4>1
        <5> QED
          BY <1>3, <1>4, <3>1, <5>1
      <4>2. CASE i = v
        BY <1>3, <3>1, <4>2
      <4>3. CASE i = v + 1
        BY <1>2, <1>3, <1>6, <3>1, <4>3
      <4>4. CASE i > v + 1
        <5>1. v + 1 \in 1 .. i - 1 /\ v + 1 \in 1 .. n /\ v < n
          BY <1>2, <4>4
        <5> QED
          BY <1>3, <1>4, <1>6, <3>1, <5>1
      <4> QED
        BY <1>2, <4>1, <4>2, <4>3, <4>4
    <3> QED
      BY <1>7, <3>1, <3>2
  <2>2. CASE x \in Gaps(p, len)
    <3>1. PICK k \in 1 .. v : x \in last(k - 1) .. off(k) - 1
      BY <1>8, <2>2
    <3>2. k \in 1 .. n /\ (k # 1 => k - 1 \in 1 .. n)
      BY <1>2
    <3>3. 0 <= x /\ x < off(k) /\ off(k) < len /\ (k # 1 => end(k - 1) <= x)
      BY <1>3, <1>5, <1>10, <3>1, <3>2
    <3>4. \A i \in 1 .. n : ~(off(i) <= x /\ x < end(i))
      <4> SUFFICES ASSUME NEW i \in 1 .. n, off(i) <= x, x < end(i) PROVE FALSE
        OBVIOUS
      <4>1. CASE i = k
        BY <1>3, <3>3, <4>1
      <4>2. CASE i > k
        <5>1. k \in 1 .. i - 1
          BY <1>2, <4>2
        <5> QED
          BY <1>3, <1>4, <3>2, <3>3, <5>1
      <4>3. CASE i = k - 1
        BY <1>3, <3>3, <4>3
      <4>4. CASE i < k - 1
        <5>1. i \in 1 .. (k - 1) - 1 /\ k - 1 \in 1 .. n /\ k # 1
          BY <1>2, <4>4
        <5> QED
          BY <1>3, <1>4, <3>3, <5>1
      <4> QED
        BY <1>2, <4>1, <4>2, <4>3, <4>4
    <3>5. x < len
      BY <1>3, <3>2, <3>3
    <3> QED
      BY <1>7, <3>3, <3>4, <3>5
  <2> QED
    BY <1>9, <1>11, <2>1, <2>2
<1>12. ASSUME NEW x \in (0 .. len - 1) \ Mapped(p), x \notin last(n) .. len - 1
       PROVE  x \in Gaps(p, len)
  <2> DEFINE T == {k \in Nat : k >= 1 /\ k <= v /\ x < end(k)}
  <2>1. v # 0 /\ x < end(v)
    BY <1>2, <1>3, <1>10, <1>12
  <2>2. PICK k \in T : \A m \in T : k <= m
    <3>1. T \subseteq Nat /\ v \in T
      BY <1>2, <2>1
    <3> HIDE DEF T
    <3> QED
      BY <3>1, LeastNatural
  <2>3. k \in 1 .. v /\ k \in 1 .. n /\ x < end(k)
    BY <1>2, <2>2
  <2>4. last(k - 1) <= x
    <3>1. CASE k = 1
      BY <1>10, <2>3, <3>1
    <3>2. CASE k # 1
      <4>1. k - 1 \in 1 .. n /\ k - 1 \in Nat /\ k - 1 >= 1 /\ k - 1 <= v /\ k - 1 < k
        BY <1>2, <2>3, <3>2
      <4>2. k - 1 \notin T
        BY <2>2, <4>1
      <4>3. end(k - 1) <= x
        BY <1>3, <4>1, <4>2
      <4> QED
        BY <1>10, <2>3, <3>2, <4>3
    <3> QED
      BY <3>1, <3>2
  <2>5. x < off(k)
    BY <1>3, <1>7, <2>3
  <2>6. last(k - 1) \in Int /\ off(k) \in Int
    <3>1. k = 1 \/ k - 1 \in 1 .. n
      BY <1>2, <2>3
    <3> QED
      BY <1>3, <1>10, <2>3, <3>1
  <2> QED
    BY <1>8, <2>3, <2>4, <2>5, <2>6
<1>13. unmapped(p, len) \subseteq Int
  <2>1. \A k \in 1 .. v : off(k) \in Int /\ last(k - 1) \in Int
    <3> SUFFICES ASSUME NEW k \in 1 .. v PROVE off(k) \in Int /\ last(k - 1) \in Int
      OBVIOUS
    <3>1. k \in 1 .. n /\ (k = 1 \/ k - 1 \in 1 .. n)
      BY <1>2
    <3> QED
      BY <1>3, <1>10, <3>1
  <2>2. last(n) \in Int
    BY <1>2, <1>3, <1>10
  <2> QED
    BY <1>8, <1>9, <2>1, <2>2
<1> QED
  BY <1>9, <1>11, <1>12, <1>13

(***************************************************************************)
(* A sound plan writes bytes of the disk, at least one, and zeroes the     *)
(* rest of the head.                                                       *)
(***************************************************************************)
LEMMA MappedInDisk ==
  ASSUME NEW p, SoundPlan(p)
  PROVE  /\ Mapped(p) \subseteq Bytes /\ Mapped(p) # {}
         /\ unmapped(p, HeadLen) = HeadBytes \ Mapped(p)
<1> DEFINE n == Len(p.ranges)
<1>1. n \in Nat \ {0} /\ DOMAIN p.ranges = 1 .. n
  BY RangeFacts
<1>2. Mapped(p) \subseteq Bytes
  <2> SUFFICES ASSUME NEW i \in 1 .. n, NEW x \in SpanOf(p.ranges[i]) PROVE x \in Bytes
    BY <1>1 DEF Mapped
  <2>1. /\ p.ranges[i].offset \in Nat /\ p.ranges[i].len \in Nat
        /\ p.ranges[i].offset + p.ranges[i].len <= DiskLen
    BY RangeFacts DEF RangeEnd
  <2>2. x \in Int /\ x >= 0 /\ x <= p.ranges[i].offset + p.ranges[i].len - 1
    BY <2>1 DEF SpanOf
  <2> QED
    BY <2>1, <2>2, DiskAssumption DEF Bytes
<1>3. Mapped(p) # {}
  <2>1. 1 \in DOMAIN p.ranges /\ 1 \in 1 .. n
    BY <1>1
  <2>2. /\ p.ranges[1].offset \in Nat /\ p.ranges[1].len \in Nat
        /\ p.ranges[1].offset < p.ranges[1].offset + p.ranges[1].len
    BY <2>1, RangeFacts DEF RangeEnd
  <2>3. p.ranges[1].offset \in SpanOf(p.ranges[1])
    BY <2>2 DEF SpanOf
  <2> QED
    BY <2>1, <2>3 DEF Mapped
<1>4. unmapped(p, HeadLen) = HeadBytes \ Mapped(p)
  BY UnmappedIsRest, DiskAssumption DEF HeadBytes
<1> QED
  BY <1>2, <1>3, <1>4
=============================================================================
