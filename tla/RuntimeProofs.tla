----------------------------- MODULE RuntimeProofs -----------------------------
(***************************************************************************)
(* Proofs about what a program has to run on: the pages its sections lie   *)
(* in (Pages), for every number of pages and all sizes, on both systems,   *)
(* and the functions of its library (Library), for every memory, text,     *)
(* base, format and buffer.                                                *)
(***************************************************************************)
EXTENDS Pages, Library, FiniteSetTheorems, SequenceTheorems, WellFoundedInduction, TLAPS

-------------------------------------------------------------------------------
(* Division by the size of a page. *)
LEMMA Division ==
  ASSUME NEW w \in Nat \ {0}, NEW n \in Int
  PROVE  n \div w \in Int /\ n % w \in 0 .. w - 1 /\ n = w * (n \div w) + (n % w)
<1>1. n \div w \in Int /\ n % w \in 0 .. w - 1
  OBVIOUS
<1>2. n = w * (n \div w) + (n % w)
  OBVIOUS
<1>3. QED
  BY <1>1, <1>2

LEMMA DivisionIs ==
  ASSUME NEW w \in Nat \ {0}, NEW q \in Int, NEW r \in 0 .. w - 1
  PROVE  (w * q + r) \div w = q /\ (w * q + r) % w = r
OBVIOUS

LEMMA MonotoneProduct ==
  ASSUME NEW w \in Nat \ {0}, NEW l \in Int, NEW b \in Int
  PROVE  /\ w * l \in Int /\ w * b \in Int
         /\ l < b => w * l + w <= w * b
         /\ l <= b => w * l <= w * b
OBVIOUS

(* Rounding a size up does not change how many pages it needs, if it leaves *)
(* anything to map at all.                                                  *)
LEMMA SizeAskedMeans ==
  ASSUME NEW size \in Sizes
  PROVE  /\ SizeAsked(size) \in Nat
         /\ SizeAsked(size) > 0 =>
              size > 0 /\ (SizeAsked(size) - 1) \div PageSize = (size - 1) \div PageSize
<1> DEFINE w == PageSize
           q == size \div w
           m == size % w
           W == WordLimit
           v == WordLimit \div w
<1>1. /\ w \in Nat \ {0} /\ W \in Nat /\ W % w = 0 /\ size \in Nat /\ size < W
      /\ Sizes \subseteq 0 .. W - 1
  BY NumbersAssumption
<1>2. q \in Int /\ m \in 0 .. w - 1 /\ size = w * q + m
  BY <1>1, Division
<1>3. v \in Int /\ W = w * v
  BY <1>1, Division
<1>4. CASE SizeAsked(size) = size
  BY <1>1, <1>4
<1>5. CASE SizeAsked(size) = AlignedSize(size)
  <2>1. CASE m = 0
    <3>1. AlignedSize(size) = size
      BY <2>1 DEF AlignedSize
    <3>2. QED
      BY <1>1, <1>5, <3>1
  <2>2. CASE m # 0
    <3> DEFINE step == ((w - size) % W) % w
    <3>1. AlignedSize(size) = (size + step) % W
      BY <2>2 DEF AlignedSize
    <3>2. step = w - m
      <4> DEFINE j == (w - size) \div W
                 x == (w - size) % W
      <4>1. j \in Int /\ x \in Int /\ w - size = W * j + x
        BY <1>1, Division
      <4>2. v * j \in Int /\ W * j = w * (v * j)
        BY <1>1, <1>3, <4>1
      <4> DEFINE k == 0 - q - v * j
      <4>3. w * q \in Int /\ w * (v * j) \in Int /\ w * k = 0 - w * q - w * (v * j)
        BY <1>1, <1>2, <4>2
      <4>4. k \in Int /\ x = w * k + (w - m)
        <5>1. k \in Int
          BY <1>2, <4>2
        <5> HIDE DEF x, j, k, q, m, v
        <5>2. QED
          BY <1>1, <1>2, <4>1, <4>2, <4>3, <5>1
      <4>5. w - m \in 0 .. w - 1
        BY <1>1, <1>2, <2>2
      <4>6. (w * k + (w - m)) % w = w - m
        BY <1>1, <4>4, <4>5, DivisionIs
      <4> HIDE DEF k
      <4>7. QED
        BY <4>4, <4>6
    <3>3. size + step = w * q + w
      BY <1>1, <1>2, <3>2
    <3>4. w * q + w <= W /\ w * q + w \in Nat /\ w * q + w > 0
      <4>1. q < v
        <5>1. v <= q => w * v <= w * q
          BY <1>1, <1>2, <1>3, MonotoneProduct
        <5>2. w * q \in Int
          BY <1>1, <1>2, MonotoneProduct
        <5> HIDE DEF q, v, m
        <5>3. QED
          BY <1>1, <1>2, <1>3, <5>1, <5>2
      <4>2. w * q \in Int /\ w * q + w <= w * v
        BY <1>1, <1>2, <1>3, <4>1, MonotoneProduct
      <4> HIDE DEF q, v, m
      <4>3. QED
        BY <1>1, <1>2, <1>3, <4>2
    <3>5. AlignedSize(size) \in Nat /\ (AlignedSize(size) > 0 => AlignedSize(size) = w * q + w)
      <4> DEFINE y == w * q + w
      <4>1. y \in Nat /\ y <= W /\ AlignedSize(size) = y % W
        BY <3>1, <3>3, <3>4
      <4> HIDE DEF y
      <4>2. y < W => y % W = y
        BY <1>1, <4>1
      <4>3. y = W => y % W = 0
        BY <1>1
      <4>4. QED
        BY <1>1, <4>1, <4>2, <4>3 DEF y
    <3>6. (w * q + w - 1) \div w = q /\ (size - 1) \div w = q /\ size > 0
      <4>1. w - 1 \in 0 .. w - 1 /\ m - 1 \in 0 .. w - 1
        BY <1>1, <1>2, <2>2
      <4>2. (w * q + (w - 1)) \div w = q /\ (w * q + (m - 1)) \div w = q
        <5>1. PICK l \in 0 .. w - 1, b \in 0 .. w - 1 : l = w - 1 /\ b = m - 1
          BY <4>1
        <5>2. w \in Nat \ {0} /\ q \in Int /\ l \in 0 .. w - 1 /\ b \in 0 .. w - 1
          BY <1>1, <1>2, <5>1
        <5> HIDE DEF w, q, m
        <5>3. (w * q + l) \div w = q /\ (w * q + b) \div w = q
          BY <5>2, DivisionIs
        <5>4. QED
          BY <5>1, <5>3
      <4>3. w * q \in Int
        BY <1>1, <1>2, MonotoneProduct
      <4>4. w * q + w - 1 = w * q + (w - 1) /\ size - 1 = w * q + (m - 1)
        <5> HIDE DEF q, m
        <5>1. QED
          BY <1>1, <1>2, <4>3
      <4>5. size # 0
        BY <1>1, <2>2
      <4>6. QED
        BY <1>1, <4>2, <4>4, <4>5
    <3>7. AlignedSize(size) > 0 => AlignedSize(size) - 1 = w * q + w - 1
      <4> DEFINE y == w * q
      <4>1. y \in Int
        BY <1>1, <1>2, MonotoneProduct
      <4> HIDE DEF y
      <4>2. y + w - 1 = (y + w) - 1
        BY <1>1, <4>1
      <4>3. AlignedSize(size) > 0 => AlignedSize(size) = y + w
        BY <3>5 DEF y
      <4>4. AlignedSize(size) > 0 => AlignedSize(size) - 1 = y + w - 1
        BY <4>2, <4>3
      <4>5. QED
        BY <4>4 DEF y
    <3>8. /\ AlignedSize(size) \in Nat
          /\ AlignedSize(size) > 0 =>
               size > 0 /\ (AlignedSize(size) - 1) \div w = (size - 1) \div w
      BY <3>5, <3>6, <3>7, Zenon
    <3>9. QED
      BY <1>5, <3>8
  <2>3. QED
    BY <2>1, <2>2
<1>6. QED
  BY <1>4, <1>5 DEF SizeAsked

(* The pages of a range that starts with a page follow one another. *)
LEMMA PagesOfRange ==
  ASSUME NEW p \in Nat, NEW size \in Nat, size > 0
  PROVE  LET last == (size - 1) \div PageSize
         IN  /\ last \in Nat /\ size <= (last + 1) * PageSize
             /\ PagesOf(PageSize * p, size) = Page \intersect (p .. p + last)
<1> DEFINE w == PageSize
           d == (size - 1) \div w
           r == (size - 1) % w
<1>1. w \in Nat \ {0} /\ Page \subseteq Nat
  BY NumbersAssumption, PageAssumption
<1>2. d \in Int /\ r \in 0 .. w - 1 /\ size - 1 = w * d + r
  BY <1>1, Division
<1>3. /\ w * d \in Int /\ w * p \in Int /\ w * (p + d) = w * p + w * d
      /\ (d + 1) * w = w * d + w
  BY <1>1, <1>2
<1>4. d \in Nat
  <2>1. d <= -1 => w * d <= 0 - w
    BY <1>1, <1>2
  <2> DEFINE y == w * d
  <2>2. y \in Int
    BY <1>3
  <2> HIDE DEF y, d, r
  <2>3. QED
    BY <1>1, <1>2, <2>1, <2>2 DEF y
<1>5. size <= (d + 1) * w
  <2> DEFINE y == w * d
  <2> HIDE DEF y, d, r
  <2>1. QED
    BY <1>1, <1>2, <1>3 DEF y
<1>6. ASSUME NEW q \in Page
      PROVE  /\ w * q < w * p + size <=> q <= p + d
             /\ w * (q + 1) > w * p <=> p <= q
  <2>1. q \in Int /\ p + d \in Int /\ q + 1 \in Int
    BY <1>1, <1>2
  <2>2. w * q \in Int /\ w * (q + 1) \in Int /\ w * (q + 1) = w * q + w
    BY <1>1, <2>1
  <2>3. /\ q <= p + d => w * q <= w * (p + d)
        /\ p + d < q => w * (p + d) + w <= w * q
        /\ p <= q => w * p <= w * q
        /\ q < p => w * q + w <= w * p
    BY <1>1, <2>1, MonotoneProduct
  <2> DEFINE l == w * q
             b == w * p
             c == w * d
  <2>4. /\ l \in Int /\ b \in Int /\ c \in Int /\ size = c + r + 1
        /\ q <= p + d => l <= b + c
        /\ p + d < q => b + c + w <= l
        /\ p <= q => b <= l
        /\ q < p => l + w <= b
    <3>1. size = w * d + r + 1
      <4> DEFINE y == w * d
      <4> HIDE DEF y, d, r
      <4>1. QED
        BY <1>2, <1>3 DEF y
    <3>2. QED
      BY <1>3, <2>2, <2>3, <3>1
  <2> HIDE DEF l, b, c, d, r
  <2>5. /\ l < b + size <=> q <= p + d
        /\ l + w > b <=> p <= q
    BY <1>1, <1>2, <2>1, <2>4
  <2>6. QED
    BY <2>2, <2>5 DEF l, b
<1>7. PagesOf(w * p, size) = Page \intersect (p .. p + d)
  <2> HIDE DEF d
  <2>1. ASSUME NEW q \in Page
        PROVE  q \in PagesOf(w * p, size) <=> q \in p .. p + d
    BY <1>1, <1>2, <1>6 DEF PagesOf
  <2>2. PagesOf(w * p, size) \subseteq Page
    BY DEF PagesOf
  <2>3. QED
    BY <2>1, <2>2
<1>8. QED
  BY <1>4, <1>5, <1>7

(* What flags allow is what they ask for, and never the state of a page     *)
(* that is not mapped.                                                      *)
LEMMA AllowedMeans ==
  ASSUME NEW flags \in Flags
  PROVE  /\ Allowed(flags) \in Protection
         /\ "write" \in Allowed(flags) => "MEM_WRITE" \in flags
         /\ "exec" \in Allowed(flags) => "MEM_EXEC" \in flags
<1>1. CASE system = "linux"
  <2>1. system # "windows"
    BY <1>1
  <2>2. Allowed(flags) = {"read"} \union
          (IF "MEM_EXEC" \in flags THEN {"exec"}
           ELSE IF "MEM_WRITE" \in flags THEN {"write"} ELSE {})
    BY <1>1, <2>1, Zenon DEF Allowed
  <2>3. QED
    BY <2>2 DEF Protection
<1>2. CASE system = "windows" /\ flags = {"MEM_EXEC"}
  <2>1. system # "linux"
    BY <1>2
  <2>2. Allowed(flags) = {"exec"}
    BY <1>2, <2>1, Zenon DEF Allowed
  <2>3. QED
    BY <1>2, <2>2 DEF Protection
<1>3. CASE system # "linux" /\ ~ (system = "windows" /\ flags = {"MEM_EXEC"})
  <2>1. Allowed(flags) = {"read"} \union
         (IF "MEM_EXEC" \in flags THEN {"exec"} ELSE {}) \union
         (IF "MEM_WRITE" \in flags THEN {"write"} ELSE {})
    BY <1>3, Zenon DEF Allowed
  <2>2. QED
    BY <2>1 DEF Protection
<1>4. QED
  BY <1>1, <1>2, <1>3

LEMMA MappedIsNotFree == Free \notin Protection
<1>1. "free" \in Free /\ \A allowed \in Protection : "free" \notin allowed
  BY DEF Free, Protection
<1>2. QED
  BY <1>1

(* The elements of a sequence without its m-th one. *)
LEMMA Removed ==
  ASSUME NEW T, NEW seq \in Seq(T), NEW m \in 1 .. Len(seq)
  PROVE  /\ RemoveAt(seq, m) \in Seq(T)
         /\ Len(RemoveAt(seq, m)) = Len(seq) - 1
         /\ \A j \in 1 .. Len(seq) - 1 : RemoveAt(seq, m)[j] = IF j < m THEN seq[j] ELSE seq[j + 1]
<1> DEFINE head == SubSeq(seq, 1, m - 1)
           tail == SubSeq(seq, m + 1, Len(seq))
<1>1. /\ Len(seq) \in Nat /\ m \in Nat /\ m >= 1 /\ m <= Len(seq)
      /\ \A j \in 1 .. Len(seq) : seq[j] \in T
  OBVIOUS
<1>2. /\ head \in Seq(T) /\ Len(head) = m - 1 /\ \A j \in 1 .. m - 1 : head[j] = seq[j]
  <2>1. /\ 1 \in Int /\ m - 1 \in Int /\ \A j \in 1 .. m - 1 : seq[j] \in T
    BY <1>1
  <2>2. /\ head \in Seq(T) /\ Len(head) = IF 1 <= m - 1 THEN (m - 1) - 1 + 1 ELSE 0
        /\ \A j \in 1 .. (m - 1) - 1 + 1 : head[j] = seq[1 + j - 1]
    BY <2>1, SubSeqProperties
  <2> HIDE DEF head
  <2>3. QED
    BY <1>1, <2>2
<1>3. /\ tail \in Seq(T) /\ Len(tail) = Len(seq) - m
      /\ \A j \in 1 .. Len(seq) - m : tail[j] = seq[m + j]
  <2>1. /\ m + 1 \in Int /\ Len(seq) \in Int /\ \A j \in m + 1 .. Len(seq) : seq[j] \in T
    BY <1>1
  <2>2. /\ tail \in Seq(T) /\ Len(tail) = IF m + 1 <= Len(seq) THEN Len(seq) - (m + 1) + 1 ELSE 0
        /\ \A j \in 1 .. Len(seq) - (m + 1) + 1 : tail[j] = seq[(m + 1) + j - 1]
    BY <2>1, SubSeqProperties
  <2> HIDE DEF tail
  <2>3. QED
    BY <1>1, <2>2
<1> HIDE DEF head, tail
<1>4. /\ head \o tail \in Seq(T) /\ Len(head \o tail) = Len(head) + Len(tail)
      /\ \A j \in 1 .. Len(head) + Len(tail) :
           (head \o tail)[j] = IF j <= Len(head) THEN head[j] ELSE tail[j - Len(head)]
  BY <1>2, <1>3, ConcatProperties
<1>5. Len(head \o tail) = Len(seq) - 1
  BY <1>1, <1>2, <1>3, <1>4
<1>6. \A j \in 1 .. Len(seq) - 1 : (head \o tail)[j] = IF j < m THEN seq[j] ELSE seq[j + 1]
  <2>1. SUFFICES ASSUME NEW j \in 1 .. Len(seq) - 1
                 PROVE  (head \o tail)[j] = IF j < m THEN seq[j] ELSE seq[j + 1]
    OBVIOUS
  <2>2. CASE j < m
    BY <1>1, <1>2, <1>3, <1>4, <2>2
  <2>3. CASE ~ (j < m)
    <3>1. /\ (head \o tail)[j] = tail[j - (m - 1)] /\ j - (m - 1) \in 1 .. Len(seq) - m
          /\ m + (j - (m - 1)) = j + 1
      BY <1>1, <1>2, <1>3, <1>4, <2>3
    <3>2. QED
      BY <1>3, <2>3, <3>1
  <2>4. QED
    BY <2>2, <2>3
<1>7. QED
  BY <1>4, <1>5, <1>6 DEF RemoveAt, head, tail

-------------------------------------------------------------------------------
(* A mapped segment starts with a page, and all pages it needs exist.       *)
IsLocated(segment) ==
  \E p \in Page :
    /\ segment.address = PageSize * p
    /\ SizeAsked(segment.size) > 0
    /\ p .. p + (segment.size - 1) \div PageSize \subseteq Page

SegmentsAreLocated == \A e \in DOMAIN segments : IsMapped(segments[e]) => IsLocated(segments[e])

IsProtected(segment) ==
  \A p \in Bytes(segment) :
    pages[p] = IF segment.granted THEN Allowed(segment.flags) ELSE {"read", "write"}

(* The system sets no flags before it is asked.                             *)
SegmentsAreAsked ==
  \A e \in DOMAIN segments : segments[e].granted => segments[e].set

SegmentsAreProtected ==
  \A e \in DOMAIN segments : IsMapped(segments[e]) => IsProtected(segments[e])

IInv ==
  /\ TypeOK
  /\ SegmentsAreLocated
  /\ SegmentsAreAsked
  /\ SegmentsAreProtected
  /\ SegmentsApart
  /\ NoPageIsLost

LEMMA SegmentTyped ==
  ASSUME TypeOK, NEW e \in DOMAIN segments
  PROVE  /\ segments[e] \in Segment /\ segments[e].size \in Sizes /\ segments[e].flags \in Flags
         /\ segments[e].size \in Nat
<1>1. segments[e] \in Segment
  BY DEF TypeOK
<1>2. segments[e].size \in Sizes /\ segments[e].flags \in Flags
  BY <1>1 DEF Segment
<1>3. Sizes \subseteq Nat
  BY NumbersAssumption
<1>4. QED
  BY <1>1, <1>2, <1>3

(* The pages of a located segment are the same before and after rounding,   *)
(* and enough.                                                              *)
LEMMA LocatedSegment ==
  ASSUME NEW segment \in Segment, IsLocated(segment)
  PROVE  /\ PagesOf(segment.address, SizeAsked(segment.size)) = Bytes(segment)
         /\ Cardinality(Bytes(segment)) * PageSize >= segment.size
         /\ Bytes(segment) \subseteq Page
<1>1. PICK p \in Page :
        /\ segment.address = PageSize * p
        /\ SizeAsked(segment.size) > 0
        /\ p .. p + (segment.size - 1) \div PageSize \subseteq Page
  BY DEF IsLocated
<1> DEFINE size == segment.size
           asked == SizeAsked(size)
           d == (size - 1) \div PageSize
<1>2. /\ size \in Sizes /\ size \in Nat /\ p \in Nat
  <2>1. size \in Sizes
    BY DEF Segment
  <2>2. Sizes \subseteq Nat /\ Page \subseteq Nat
    BY NumbersAssumption, PageAssumption
  <2>3. QED
    BY <2>1, <2>2
<1>3. asked \in Nat /\ size > 0 /\ (asked - 1) \div PageSize = d
  BY <1>1, <1>2, SizeAskedMeans
<1> HIDE DEF size, asked
<1>4. /\ d \in Nat /\ size <= (d + 1) * PageSize
      /\ PagesOf(PageSize * p, size) = Page \intersect (p .. p + d)
  BY <1>2, <1>3, PagesOfRange
<1>5. PagesOf(PageSize * p, asked) = Page \intersect (p .. p + d)
  BY <1>1, <1>2, <1>3, PagesOfRange DEF asked, size
<1> HIDE DEF d
<1>6. Bytes(segment) = p .. p + d
  BY <1>1, <1>4 DEF Bytes, size, d
<1>7. Cardinality(p .. p + d) = d + 1
  BY <1>2, <1>4, FS_Interval
<1>8. PagesOf(segment.address, asked) = Bytes(segment) /\ Bytes(segment) \subseteq Page
  BY <1>1, <1>5, <1>6 DEF d, size
<1>9. Cardinality(Bytes(segment)) * PageSize >= size
  <2>1. (d + 1) * PageSize \in Int
    BY <1>4, NumbersAssumption
  <2>2. (d + 1) * PageSize >= size
    <3> DEFINE y == (d + 1) * PageSize
    <3> HIDE DEF y
    <3>1. QED
      BY <1>2, <1>4, <2>1 DEF y
  <2>3. QED
    BY <1>6, <1>7, <2>2
<1>10. QED
  BY <1>8, <1>9 DEF asked, size

LEMMA InitIInv == Init => IInv
BY NumbersAssumption
   DEF Init, IInv, TypeOK, SegmentsAreLocated, SegmentsAreAsked, SegmentsAreProtected,
       SegmentsApart, NoPageIsLost

-------------------------------------------------------------------------------
(* A new segment gets pages that nobody has.                                *)
LEMMA MapKeepsIInv ==
  ASSUME IInv, NEW size \in Sizes, mem__map(size)
  PROVE  IInv'
<1> DEFINE asked == SizeAsked(size)
<1>1. PICK address \in {NULL} \union {PageSize * p : p \in Room(asked)} :
        /\ segments' = Append(segments,
             [address |-> address, size |-> size, flags |-> {}, set |-> FALSE,
              granted |-> FALSE])
        /\ pages' = [p \in Page |->
             IF address # NULL /\ p \in PagesOf(address, asked)
             THEN {"read", "write"} ELSE pages[p]]
  BY DEF mem__map
<1> DEFINE new == [address |-> address, size |-> size, flags |-> {}, set |-> FALSE,
              granted |-> FALSE]
           n == Len(segments)
<1>2. /\ TypeOK /\ system' = system /\ n \in Nat /\ DOMAIN segments = 1 .. n
      /\ n < MaxSegments
  BY DEF IInv, TypeOK, mem__map
<1>3. address # NULL => IsLocated(new)
  <2>1. SUFFICES ASSUME NEW p \in Room(asked), address = PageSize * p
                 PROVE  IsLocated(new)
    BY <1>1
  <2>2. /\ p \in Page /\ asked > 0 /\ asked \in Nat
        /\ (asked - 1) \div PageSize = (size - 1) \div PageSize
        /\ \A q \in p .. p + (asked - 1) \div PageSize : q \in Page
    <3>1. p \in Page /\ asked > 0
          /\ \A q \in p .. p + (asked - 1) \div PageSize : q \in Page
      BY DEF Room
    <3>2. QED
      BY <3>1, SizeAskedMeans
  <2>3. p .. p + (size - 1) \div PageSize \subseteq Page
    BY <2>2
  <2>4. QED
    BY <2>1, <2>2, <2>3 DEF IsLocated
<1>4. new \in Segment
  <2>1. address \in {NULL} \union {PageSize * p : p \in Page}
    BY <1>1 DEF Room
  <2>2. QED
    BY <2>1 DEF Segment, Flags
<1>5. address # NULL => \A q \in Bytes(new) : pages[q] = Free
  <2>1. SUFFICES ASSUME NEW p \in Room(asked), address = PageSize * p
                 PROVE  \A q \in Bytes(new) : pages[q] = Free
    BY <1>1
  <2>2. /\ p \in Nat /\ asked > 0 /\ asked \in Nat
        /\ \A q \in p .. p + (asked - 1) \div PageSize : pages[q] = Free
    BY SizeAskedMeans, PageAssumption DEF Room
  <2>3. p # 0
    BY PageAssumption DEF Room
  <2>4. address # NULL
    BY <2>1, <2>2, <2>3, NumbersAssumption DEF NULL
  <2>5. Bytes(new) = PagesOf(PageSize * p, asked)
    BY <1>3, <1>4, <2>1, <2>4, LocatedSegment
  <2> HIDE DEF asked, new
  <2>6. PagesOf(PageSize * p, asked) \subseteq p .. p + (asked - 1) \div PageSize
    BY <2>2, PagesOfRange
  <2>7. QED
    BY <2>2, <2>5, <2>6
<1>6. /\ segments' \in Seq(Segment) /\ Len(segments') = n + 1 /\ DOMAIN segments' = 1 .. n + 1
      /\ \A e \in 1 .. n : segments'[e] = segments[e]
      /\ segments'[n + 1] = new
  <2>1. segments \in Seq(Segment) /\ segments' = Append(segments, new)
    BY <1>1, <1>2 DEF TypeOK
  <2> HIDE DEF new
  <2>2. QED
    BY <1>4, <2>1
<1>7. /\ \A q \in Page : pages'[q] = IF address # NULL /\ q \in Bytes(new)
                                     THEN {"read", "write"} ELSE pages[q]
      /\ pages' \in [Page -> Protection \union {Free}]
  <2>1. address # NULL => PagesOf(address, asked) = Bytes(new)
    BY <1>3, <1>4, LocatedSegment
  <2>2. {"read", "write"} \in Protection
    BY DEF Protection
  <2>3. QED
    BY <1>1, <1>2, <2>1, <2>2 DEF TypeOK
<1>8. /\ new.address = address /\ new.set = FALSE /\ new.granted = FALSE
      /\ IsMapped(new) <=> address # NULL
  BY DEF IsMapped
<1> HIDE DEF new, asked, n
<1>9. \A e \in 1 .. n : IsMapped(segments[e]) =>
        /\ Bytes(segments[e]) \subseteq Page
        /\ address # NULL => Bytes(segments[e]) \intersect Bytes(new) = {}
  <2>1. SUFFICES ASSUME NEW e \in 1 .. n, IsMapped(segments[e])
                 PROVE  /\ Bytes(segments[e]) \subseteq Page
                        /\ address # NULL => Bytes(segments[e]) \intersect Bytes(new) = {}
    OBVIOUS
  <2>2. Bytes(segments[e]) \subseteq Page
    BY <1>2, <2>1, SegmentTyped, LocatedSegment DEF IInv, SegmentsAreLocated
  <2>3. \A q \in Bytes(segments[e]) : pages[q] # Free
    <3>1. /\ Allowed(segments[e].flags) \in Protection /\ {"read", "write"} \in Protection
      BY <1>2, <2>1, SegmentTyped, AllowedMeans DEF Protection
    <3>2. QED
      BY <1>2, <2>1, <3>1, MappedIsNotFree DEF IInv, SegmentsAreProtected, IsProtected
  <2>4. QED
    BY <1>5, <2>2, <2>3
<1>10. TypeOK'
  <2>1. n + 1 <= MaxSegments
    BY <1>2, NumbersAssumption
  <2>2. QED
    BY <1>2, <1>6, <1>7, <2>1 DEF TypeOK
<1>11. SegmentsAreLocated'
  <2>1. \A segment : IsLocated(segment)' <=> IsLocated(segment)
    BY <1>2 DEF IsLocated, SizeAsked
  <2>2. QED
    BY <1>2, <1>3, <1>6, <1>8, <2>1 DEF IInv, SegmentsAreLocated, IsMapped
<1>12. SegmentsAreProtected'
  <2>0. \A flags : Allowed(flags)' = Allowed(flags)
    BY <1>2 DEF Allowed
  <2>1. SUFFICES ASSUME NEW e \in 1 .. n + 1, IsMapped(segments'[e])
                 PROVE  \A q \in Bytes(segments'[e]) :
                          pages'[q] = IF segments'[e].granted THEN Allowed(segments'[e].flags)
                                      ELSE {"read", "write"}
    BY <1>6, <2>0 DEF SegmentsAreProtected, IsProtected, IsMapped, Bytes
  <2>2. CASE e = n + 1
    <3>1. Bytes(new) \subseteq Page
      BY DEF Bytes, PagesOf
    <3>2. QED
      BY <1>6, <1>7, <1>8, <2>1, <2>2, <3>1
  <2>3. CASE e \in 1 .. n
    <3>1. segments'[e] = segments[e] /\ IsMapped(segments[e])
      BY <1>6, <2>1, <2>3
    <3>2. \A q \in Bytes(segments[e]) : pages'[q] = pages[q]
      BY <1>7, <1>9, <2>3, <3>1
    <3>3. QED
      BY <1>2, <2>3, <3>1, <3>2 DEF IInv, SegmentsAreProtected, IsProtected
  <2>4. QED
    BY <1>2, <2>2, <2>3
<1>13. SegmentsApart'
  <2>1. SUFFICES ASSUME NEW e \in 1 .. n + 1, NEW t \in 1 .. n + 1, e # t,
                        IsMapped(segments'[e]), IsMapped(segments'[t])
                 PROVE  Bytes(segments'[e]) \intersect Bytes(segments'[t]) = {}
    BY <1>6 DEF SegmentsApart, IsMapped, Bytes
  <2>2. QED
    BY <1>2, <1>6, <1>8, <1>9, <2>1 DEF IInv, SegmentsApart
<1>14. NoPageIsLost'
  <2>1. SUFFICES ASSUME system = "linux", NEW p \in Page, pages'[p] # Free
                 PROVE  \E e \in 1 .. n + 1 :
                          IsMapped(segments'[e]) /\ p \in Bytes(segments'[e])
    BY <1>2, <1>6 DEF NoPageIsLost, IsMapped, Bytes
  <2>2. CASE address # NULL /\ p \in Bytes(new)
    <3>1. n + 1 \in 1 .. n + 1
      BY <1>2
    <3>2. QED
      BY <1>6, <1>8, <2>2, <3>1
  <2>3. CASE ~ (address # NULL /\ p \in Bytes(new))
    <3>1. PICK e \in 1 .. n : IsMapped(segments[e]) /\ p \in Bytes(segments[e])
      BY <1>2, <1>7, <2>1, <2>3 DEF IInv, NoPageIsLost
    <3>2. QED
      BY <1>2, <1>6, <3>1
  <2>4. QED
    BY <2>2, <2>3
<1>15. SegmentsAreAsked'
  BY <1>2, <1>6, <1>8 DEF IInv, SegmentsAreAsked
<1>16. QED
  BY <1>10, <1>11, <1>12, <1>13, <1>14, <1>15 DEF IInv

-------------------------------------------------------------------------------
(* What setting flags leaves alone. *)
LEMMA FlagsSet ==
  ASSUME IInv, NEW e \in DOMAIN segments, NEW flags \in Flags, NEW granted \in BOOLEAN,
         system' = system,
         segments' = [segments EXCEPT ![e].flags = flags, ![e].set = TRUE,
                                      ![e].granted = granted]
  PROVE  /\ system' = system /\ DOMAIN segments' = DOMAIN segments
         /\ segments' \in Seq(Segment) /\ Len(segments') = Len(segments)
         /\ segments'[e].flags = flags /\ segments'[e].set = TRUE
         /\ segments'[e].granted = granted
         /\ \A t \in DOMAIN segments :
              /\ t # e => segments'[t] = segments[t]
              /\ segments'[t].address = segments[t].address
              /\ segments'[t].size = segments[t].size
              /\ IsMapped(segments'[t]) <=> IsMapped(segments[t])
              /\ Bytes(segments'[t]) = Bytes(segments[t])
<1> DEFINE new == [segments[e] EXCEPT !.flags = flags, !.set = TRUE, !.granted = granted]
<1>1. /\ segments' = [segments EXCEPT ![e] = new] /\ system' = system
  OBVIOUS
<1>2. segments \in Seq(Segment) /\ segments[e] \in Segment
  BY DEF IInv, TypeOK
<1>3. /\ new \in Segment /\ new.flags = flags /\ new.set = TRUE /\ new.granted = granted
      /\ new.address = segments[e].address /\ new.size = segments[e].size
  BY <1>2 DEF Segment
<1> HIDE DEF new
<1>4. /\ segments' \in Seq(Segment) /\ Len(segments') = Len(segments)
      /\ DOMAIN segments' = DOMAIN segments /\ segments'[e] = new
      /\ \A t \in DOMAIN segments : t # e => segments'[t] = segments[t]
  BY <1>1, <1>2, <1>3
<1>5. \A t \in DOMAIN segments :
        /\ segments'[t].address = segments[t].address
        /\ segments'[t].size = segments[t].size
  BY <1>3, <1>4
<1>6. QED
  BY <1>1, <1>3, <1>4, <1>5 DEF IsMapped, Bytes

(* Flags are set for the pages of the segment, all of which are mapped, and *)
(* for no others; or for none.                                              *)
LEMMA MapflagKeepsIInv ==
  ASSUME IInv, NEW e \in DOMAIN segments, NEW flags \in Flags, mem__mapflag(e, flags)
  PROVE  IInv'
<1> DEFINE range == PagesOf(segments[e].address, SizeAsked(segments[e].size))
<1>0. PICK granted \in BOOLEAN :
        /\ granted => segments[e].address # NULL /\ \A p \in range : pages[p] # Free
        /\ segments' = [segments EXCEPT ![e].flags = flags, ![e].set = TRUE,
                                        ![e].granted = granted]
        /\ pages' = [p \in Page |-> IF granted /\ p \in range THEN Allowed(flags) ELSE pages[p]]
        /\ system' = system
  BY DEF mem__mapflag
<1>a. /\ system' = system /\ DOMAIN segments' = DOMAIN segments
      /\ segments' \in Seq(Segment) /\ Len(segments') = Len(segments)
      /\ segments'[e].flags = flags /\ segments'[e].set = TRUE
      /\ segments'[e].granted = granted
      /\ \A t \in DOMAIN segments :
           /\ t # e => segments'[t] = segments[t]
           /\ segments'[t].address = segments[t].address
           /\ segments'[t].size = segments[t].size
           /\ IsMapped(segments'[t]) <=> IsMapped(segments[t])
           /\ Bytes(segments'[t]) = Bytes(segments[t])
  BY <1>0, FlagsSet
<1> USE <1>a
<1> HIDE DEF range
<1>1. TypeOK /\ segments[e] \in Segment
  BY DEF IInv, TypeOK
<1>2. \A t \in DOMAIN segments : IsMapped(segments[t]) =>
        /\ Bytes(segments[t]) \subseteq Page
        /\ PagesOf(segments[t].address, SizeAsked(segments[t].size)) = Bytes(segments[t])
        /\ \A p \in Bytes(segments[t]) : pages[p] \in Protection
  <2>1. SUFFICES ASSUME NEW t \in DOMAIN segments, IsMapped(segments[t])
                 PROVE  /\ Bytes(segments[t]) \subseteq Page
                        /\ PagesOf(segments[t].address, SizeAsked(segments[t].size)) =
                             Bytes(segments[t])
                        /\ \A p \in Bytes(segments[t]) : pages[p] \in Protection
    OBVIOUS
  <2>2. segments[t] \in Segment /\ IsLocated(segments[t])
    BY <1>1, <2>1, SegmentTyped DEF IInv, SegmentsAreLocated
  <2>3. Allowed(segments[t].flags) \in Protection /\ {"read", "write"} \in Protection
    BY <1>1, SegmentTyped, AllowedMeans DEF Protection
  <2>4. QED
    BY <2>1, <2>2, <2>3, LocatedSegment DEF IInv, SegmentsAreProtected, IsProtected
<1>3. /\ pages' \in [Page -> Protection \union {Free}]
      /\ \A p \in Page : pages'[p] =
           IF granted /\ p \in Bytes(segments[e]) THEN Allowed(flags) ELSE pages[p]
      /\ granted => IsMapped(segments[e])
  <2>1. Allowed(flags) \in Protection
    BY AllowedMeans
  <2>2. granted => IsMapped(segments[e])
    BY <1>0 DEF IsMapped
  <2>3. granted => range = Bytes(segments[e])
    BY <1>2, <2>2 DEF range
  <2>4. pages' = [p \in Page |-> IF granted /\ p \in Bytes(segments[e])
                                THEN Allowed(flags) ELSE pages[p]]
    BY <1>0, <2>3
  <2>5. QED
    BY <1>1, <2>1, <2>2, <2>4 DEF TypeOK
<1>4. TypeOK'
  BY <1>1, <1>3 DEF TypeOK
<1>5. SegmentsAreLocated'
  BY DEF IInv, SegmentsAreLocated, IsLocated, SizeAsked, IsMapped
<1>6. SegmentsAreProtected'
  <2>0. \A f : Allowed(f)' = Allowed(f)
    BY DEF Allowed
  <2>1. SUFFICES ASSUME NEW t \in DOMAIN segments, IsMapped(segments[t]),
                        NEW p \in Bytes(segments[t])
                 PROVE  pages'[p] = IF segments'[t].granted THEN Allowed(segments'[t].flags)
                                    ELSE {"read", "write"}
    BY <2>0 DEF SegmentsAreProtected, IsProtected, IsMapped, Bytes
  <2>2. CASE t = e
    <3>1. segments'[t].granted = granted /\ segments'[t].flags = flags
      BY <2>2
    <3>2. p \in Page
      BY <1>2, <2>1
    <3>3. CASE granted
      BY <1>3, <2>1, <2>2, <3>1, <3>2, <3>3
    <3>4. CASE ~ granted
      <4>1. ~ segments[e].set
        BY DEF mem__mapflag
      <4>2. ~ segments[e].granted
        BY <4>1 DEF IInv, SegmentsAreAsked
      <4>3. pages'[p] = pages[p]
        BY <1>3, <3>2, <3>4
      <4>4. QED
        BY <2>1, <2>2, <3>1, <3>4, <4>2, <4>3 DEF IInv, SegmentsAreProtected, IsProtected
    <3>5. QED
      BY <3>3, <3>4
  <2>3. CASE t # e
    <3>1. ~ (granted /\ p \in Bytes(segments[e]))
      BY <1>3, <2>1, <2>3 DEF IInv, SegmentsApart
    <3>2. pages'[p] = pages[p]
      BY <1>2, <1>3, <2>1, <3>1
    <3>3. segments'[t] = segments[t]
      BY <2>3
    <3>4. QED
      BY <2>1, <3>2, <3>3 DEF IInv, SegmentsAreProtected, IsProtected
  <2>4. QED
    BY <2>2, <2>3
<1>7. SegmentsApart'
  BY DEF IInv, SegmentsApart, IsMapped, Bytes
<1>8. NoPageIsLost'
  <2>1. SUFFICES ASSUME system = "linux", NEW p \in Page, pages'[p] # Free
                 PROVE  \E t \in DOMAIN segments :
                          IsMapped(segments[t]) /\ p \in Bytes(segments[t])
    BY DEF NoPageIsLost, IsMapped, Bytes
  <2>2. QED
    BY <1>3, <2>1 DEF IInv, NoPageIsLost
<1>9. SegmentsAreAsked'
  BY DEF IInv, SegmentsAreAsked
<1>10. QED
  BY <1>4, <1>5, <1>6, <1>7, <1>8, <1>9 DEF IInv

-------------------------------------------------------------------------------
(* Unmapping takes the pages of one segment, to the last, and no others,    *)
(* where it takes any.                                                      *)
LEMMA UnmapKeepsIInv ==
  ASSUME IInv, NEW e \in DOMAIN segments, mem__unmap(e)
  PROVE  IInv'
<1> DEFINE n == Len(segments)
           old(h) == IF h < e THEN h ELSE h + 1
           taken == IsMapped(segments[e]) /\ system # "windows"
<1>1. /\ TypeOK /\ system' = system /\ n \in Nat /\ DOMAIN segments = 1 .. n
      /\ n <= MaxSegments /\ segments \in Seq(Segment)
  BY DEF IInv, TypeOK, mem__unmap
<1>2. /\ segments' \in Seq(Segment) /\ Len(segments') = n - 1
      /\ \A h \in 1 .. n - 1 : segments'[h] = segments[old(h)]
  BY <1>1, Removed DEF mem__unmap
<1>3. DOMAIN segments' = 1 .. n - 1
  BY <1>1, <1>2
<1>4. /\ \A h \in 1 .. n - 1 : old(h) \in 1 .. n /\ old(h) # e
      /\ \A h, j \in 1 .. n - 1 : h # j => old(h) # old(j)
      /\ \A t \in 1 .. n : t # e => \E h \in 1 .. n - 1 : old(h) = t
  <2>1. \A t \in 1 .. n : t # e => \E h \in 1 .. n - 1 : old(h) = t
    <3>1. SUFFICES ASSUME NEW t \in 1 .. n, t # e
                   PROVE  \E h \in 1 .. n - 1 : old(h) = t
      OBVIOUS
    <3>2. CASE t < e
      BY <1>1, <3>1, <3>2
    <3>3. CASE t > e
      <4>1. t - 1 \in 1 .. n - 1 /\ ~ (t - 1 < e) /\ (t - 1) + 1 = t
        BY <1>1, <3>1, <3>3
      <4>2. QED
        BY <4>1
    <3>4. QED
      BY <1>1, <3>1, <3>2, <3>3
  <2>2. QED
    BY <1>1, <2>1
<1>5. /\ pages' \in [Page -> Protection \union {Free}]
      /\ \A p \in Page : pages'[p] =
           IF taken /\ p \in Bytes(segments[e]) THEN Free ELSE pages[p]
  BY <1>1 DEF mem__unmap, Released, IsMapped, Bytes, TypeOK
<1> HIDE DEF n, old, taken
<1>6. \A t \in 1 .. n : t # e /\ IsMapped(segments[t]) =>
        \A p \in Bytes(segments[t]) : p \in Page /\ pages'[p] = pages[p]
  <2>1. SUFFICES ASSUME NEW t \in 1 .. n, t # e, IsMapped(segments[t]),
                        NEW p \in Bytes(segments[t])
                 PROVE  p \in Page /\ pages'[p] = pages[p]
    OBVIOUS
  <2>2. p \in Page
    BY DEF Bytes, PagesOf
  <2>3. taken => p \notin Bytes(segments[e])
    BY <1>1, <2>1 DEF IInv, SegmentsApart, taken
  <2>4. QED
    BY <1>5, <2>2, <2>3
<1>7. TypeOK'
  <2>1. n - 1 <= MaxSegments
    BY <1>1, NumbersAssumption
  <2>2. QED
    BY <1>1, <1>2, <1>5, <2>1 DEF TypeOK
<1>8. SegmentsAreLocated'
  <2>1. \A segment : IsLocated(segment)' <=> IsLocated(segment)
    BY <1>1 DEF IsLocated, SizeAsked
  <2>2. QED
    BY <1>1, <1>2, <1>3, <1>4, <2>1 DEF IInv, SegmentsAreLocated, IsMapped
<1>9. SegmentsAreProtected'
  <2>0. \A flags : Allowed(flags)' = Allowed(flags)
    BY <1>1 DEF Allowed
  <2>1. SUFFICES ASSUME NEW h \in 1 .. n - 1, IsMapped(segments'[h]),
                        NEW p \in Bytes(segments'[h])
                 PROVE  pages'[p] = IF segments'[h].granted THEN Allowed(segments'[h].flags)
                                    ELSE {"read", "write"}
    BY <1>3, <2>0 DEF SegmentsAreProtected, IsProtected, IsMapped, Bytes
  <2>2. segments'[h] = segments[old(h)] /\ old(h) \in DOMAIN segments /\ old(h) # e
    BY <1>1, <1>2, <1>4
  <2>3. pages'[p] = pages[p]
    BY <1>1, <1>6, <2>1, <2>2
  <2>4. QED
    BY <2>1, <2>2, <2>3 DEF IInv, SegmentsAreProtected, IsProtected
<1>10. SegmentsApart'
  <2>1. SUFFICES ASSUME NEW h \in 1 .. n - 1, NEW j \in 1 .. n - 1, h # j,
                        IsMapped(segments'[h]), IsMapped(segments'[j])
                 PROVE  Bytes(segments'[h]) \intersect Bytes(segments'[j]) = {}
    BY <1>3 DEF SegmentsApart, IsMapped, Bytes
  <2>2. /\ segments'[h] = segments[old(h)] /\ old(h) \in DOMAIN segments
        /\ segments'[j] = segments[old(j)] /\ old(j) \in DOMAIN segments
        /\ old(h) # old(j)
    BY <1>1, <1>2, <1>4, <2>1
  <2>3. QED
    BY <2>1, <2>2 DEF IInv, SegmentsApart
<1>11. NoPageIsLost'
  <2>1. SUFFICES ASSUME system = "linux", NEW p \in Page, pages'[p] # Free
                 PROVE  \E h \in 1 .. n - 1 :
                          IsMapped(segments'[h]) /\ p \in Bytes(segments'[h])
    BY <1>1, <1>3 DEF NoPageIsLost, IsMapped, Bytes
  <2>2. PICK t \in 1 .. n : IsMapped(segments[t]) /\ p \in Bytes(segments[t])
    BY <1>1, <1>5, <2>1 DEF IInv, NoPageIsLost
  <2>3. t # e
    BY <1>5, <2>1, <2>2 DEF taken
  <2>4. PICK h \in 1 .. n - 1 : old(h) = t
    BY <1>4, <2>2, <2>3
  <2>5. QED
    BY <1>2, <2>2, <2>4
<1>12. SegmentsAreAsked'
  BY <1>1, <1>2, <1>3, <1>4 DEF IInv, SegmentsAreAsked
<1>13. QED
  BY <1>7, <1>8, <1>9, <1>10, <1>11, <1>12 DEF IInv

-------------------------------------------------------------------------------
(* The inductive invariant: where the pages of a segment are, before and    *)
(* after rounding, and that they are its own.                               *)
THEOREM Invariance == Spec => []IInv
<1>1. IInv /\ [Next]_vars => IInv'
  <2> SUFFICES ASSUME IInv, [Next]_vars
               PROVE  IInv'
    OBVIOUS
  <2>1. CASE Next
    BY <2>1, MapKeepsIInv, MapflagKeepsIInv, UnmapKeepsIInv DEF Next
  <2>2. CASE UNCHANGED vars
    <3>1. system' = system /\ pages' = pages /\ segments' = segments
      BY <2>2 DEF vars
    <3>2. \A flags : Allowed(flags)' = Allowed(flags)
      BY <3>1 DEF Allowed
    <3>3. SegmentsAreProtected'
      BY <3>1, <3>2 DEF IInv, SegmentsAreProtected, IsProtected, IsMapped, Bytes
    <3>4. /\ TypeOK' /\ SegmentsAreLocated' /\ SegmentsAreAsked'
          /\ SegmentsApart' /\ NoPageIsLost'
      BY <3>1 DEF IInv, TypeOK, SegmentsAreAsked, SegmentsAreLocated, IsLocated, SizeAsked, SegmentsApart,
         NoPageIsLost, IsMapped, Bytes
    <3>5. QED
      BY <3>3, <3>4 DEF IInv
  <2>3. QED
    BY <2>1, <2>2
<1>2. QED
  BY <1>1, InitIInv, PTL DEF Spec

(* Every byte of every mapped segment has a page of the segment's own, with *)
(* the protection asked for and nothing more once the system grants it, and *)
(* as it was mapped while the system refuses; whatever sizes are rounded    *)
(* and however mappings are refused, and on Linux no page is left mapped    *)
(* for nobody (platform.c:145-205).                                         *)
THEOREM PagesAccounted == Spec => []PagesAreAccountedFor
<1>1. IInv => PagesAreAccountedFor
  <2> SUFFICES ASSUME IInv
               PROVE  PagesAreAccountedFor
    OBVIOUS
  <2>1. TypeOK
    BY DEF IInv
  <2>2. ASSUME NEW e \in DOMAIN segments, IsMapped(segments[e])
        PROVE  /\ Cardinality(Bytes(segments[e])) * PageSize >= segments[e].size
               /\ IsProtected(segments[e])
               /\ segments[e].flags \in Flags
    BY <2>1, <2>2, SegmentTyped, LocatedSegment
       DEF IInv, SegmentsAreLocated, SegmentsAreProtected
  <2>3. SegmentsAreWhole
    BY <2>2 DEF SegmentsAreWhole, IsProtected
  <2>4. NothingUnasked
    <3>1. SUFFICES ASSUME NEW e \in DOMAIN segments, IsMapped(segments[e]),
                          NEW p \in Bytes(segments[e])
                   PROVE  /\ "exec" \in pages[p] =>
                               segments[e].set /\ "MEM_EXEC" \in segments[e].flags
                          /\ segments[e].granted /\ "write" \in pages[p] =>
                               "MEM_WRITE" \in segments[e].flags
      BY DEF NothingUnasked
    <3>2. segments[e].granted => segments[e].set
      BY <3>1 DEF IInv, SegmentsAreAsked
    <3>3. "exec" \notin {"read", "write"}
      OBVIOUS
    <3>4. QED
      BY <2>2, <3>1, <3>2, <3>3, AllowedMeans DEF IsProtected
  <2>5. QED
    BY <2>1, <2>3, <2>4 DEF IInv, PagesAreAccountedFor
<1>2. QED
  BY <1>1, Invariance, PTL

-------------------------------------------------------------------------------
(* What the calls of string.h are given.                                    *)
Given ==
  /\ call.name \in {"strlen", "strchr", "strcpy", "strcmp", "strncmp", "memcpy", "memset"}
  /\ call.a \in S!Address
  /\ call.name \in {"strcpy", "strcmp", "strncmp", "memcpy"} => call.b \in S!Address
  /\ call.name \in {"strncmp", "memcpy", "memset"} => call.n \in 0 .. Size
  /\ call.name \in {"memcpy", "memset"} => call.a + call.n <= Size
  /\ call.name = "memcpy" => call.b + call.n <= Size
  /\ call.name = "memset" => call.c \in Byte

(* Every call has what its function takes.                                  *)
LEMMA CallsAreGiven ==
  ASSUME call \in S!Calls
  PROVE  Given
<1>1. CASE call \in [name : {"strlen"}, a : S!Address]
  BY <1>1 DEF Given
<1>2. CASE call \in [name : {"strchr"}, a : S!Address, c : Byte]
  BY <1>2 DEF Given
<1>3. CASE call \in [name : {"strcpy", "strcmp"}, a : S!Address, b : S!Address]
  BY <1>3 DEF Given
<1>4. CASE call \in [name : {"strncmp"}, a : S!Address, b : S!Address, n : 0 .. Size]
  BY <1>4 DEF Given
<1>5. CASE call \in {copy \in [name : {"memcpy"}, a : S!Address, b : S!Address, n : 0 .. Size] :
                      copy.a + copy.n <= Size /\ copy.b + copy.n <= Size}
  BY <1>5 DEF Given
<1>6. CASE call \in {set \in [name : {"memset"}, a : S!Address, c : Byte, n : 0 .. Size] :
                      set.a + set.n <= Size}
  BY <1>6 DEF Given
<1>7. QED
  BY <1>1, <1>2, <1>3, <1>4, <1>5, <1>6 DEF S!Calls

(* The length of a string is the distance of its first zero.                *)
LEMMA LengthIsFirstZero ==
  ASSUME Size \in Nat, NEW p \in S!Address, NEW n \in Nat, p + n \in S!Address, before[p + n] = 0,
         \A k \in 0 .. n - 1 : before[p + k] # 0
  PROVE  S!IsString(p) /\ S!Length(p) = n
<1> DEFINE IsEnd(q) == p <= q /\ before[q] = 0 /\ \A r \in p .. q - 1 : before[r] # 0
<1> USE DEF S!Address
<1>1. \A r \in p .. p + n - 1 : before[r] # 0
  <2> TAKE r \in p .. p + n - 1
  <2>1. r - p \in 0 .. n - 1 /\ p + (r - p) = r
    OBVIOUS
  <2>2. QED
    BY <2>1
<1>2. p + n \in S!Address /\ IsEnd(p + n)
  BY <1>1
<1>3. ASSUME NEW q \in S!Address, IsEnd(q)
      PROVE  q = p + n
  <2>1. ~ q < p + n
    BY <1>1, <1>3
  <2>2. ~ p + n < q
    BY <1>3
  <2>3. QED
    BY <2>1, <2>2
<1>4. (CHOOSE q \in S!Address : IsEnd(q)) = p + n
  <2> DEFINE first == CHOOSE q \in S!Address : IsEnd(q)
  <2>1. first \in S!Address /\ IsEnd(first)
    BY <1>2
  <2> HIDE DEF first
  <2>2. first = p + n
    BY <2>1, <1>3
  <2>3. QED
    BY <2>2 DEF first
<1>5. S!Length(p) = p + n - p
  BY <1>4 DEF S!Length
<1>6. QED
  BY <1>2, <1>5 DEF S!IsString

-------------------------------------------------------------------------------
(* What is behind a call of string.h when its counter is i: what was        *)
(* compared is equal and no end, ...                                        *)
Compared ==
  call.name \in {"strcmp", "strncmp"} =>
    /\ memory = before
    /\ \A k \in 0 .. i - 1 :
         /\ call.a + k \in S!Address /\ call.b + k \in S!Address
         /\ before[call.a + k] = before[call.b + k] /\ before[call.a + k] # 0
    /\ call.name = "strncmp" => i <= call.n

(* ... what was searched is neither the byte nor an end, ...                *)
Searched ==
  call.name \in {"strlen", "strchr"} =>
    /\ memory = before
    /\ \A k \in 0 .. i - 1 :
         /\ call.a + k \in S!Address /\ before[call.a + k] # 0
         /\ call.name = "strchr" => before[call.a + k] # call.c

(* ... and what was written is no end, the byte, or what the source held    *)
(* before, unless the target began in front of that.                        *)
Copying ==
  call.name \in {"strcpy", "memcpy", "memset"} =>
    /\ \A p \in S!Address : p \notin call.a .. call.a + i - 1 => memory[p] = before[p]
    /\ \A k \in 0 .. i - 1 :
         /\ call.a + k \in S!Address
         /\ call.name = "strcpy" => memory[call.a + k] # 0
         /\ call.name = "memset" => memory[call.a + k] = call.c
         /\ call.name \in {"strcpy", "memcpy"} /\ (call.a <= call.b \/ call.a > call.b + k) =>
              call.b + k \in S!Address /\ memory[call.a + k] = before[call.b + k]
    /\ call.name \in {"memcpy", "memset"} => i <= call.n

StringsTyped == S!TypeOK /\ before \in [S!Address -> Byte] /\ call \in S!Calls

StringsInv ==
  /\ StringsTyped /\ Compared /\ Searched /\ Copying
  /\ S!ComparesInOrder /\ S!FindsInString /\ S!CopiesWhatWas

(* The invariant holds when a function of string.h is called.               *)
LEMMA StringsStart ==
  ASSUME MemoryAssumption, S!Init
  PROVE  StringsInv
<1> USE DEF S!SizeAssumption, S!ByteAssumption
<1>1. StringsTyped
  BY DEF MemoryAssumption, S!Init, StringsTyped, S!TypeOK, S!Address
<1>2. Compared /\ Searched /\ Copying
  <2>1. Given /\ i = 0 /\ memory = before
    BY CallsAreGiven DEF S!Init
  <2>2. QED
    BY <2>1 DEF Compared, Searched, Copying, Given, S!Address, MemoryAssumption
<1>3. S!ComparesInOrder /\ S!FindsInString /\ S!CopiesWhatWas
  BY DEF S!Init, S!ComparesInOrder, S!FindsInString, S!CopiesWhatWas, S!Returned
<1>4. QED
  BY <1>1, <1>2, <1>3 DEF StringsInv

(* What the functions are given, from the invariant.                        *)
LEMMA GivenFacts ==
  ASSUME StringsInv
  PROVE  Given
BY CallsAreGiven DEF StringsInv, StringsTyped

(* A call of another function says nothing of these.                        *)
LEMMA OnlyCompares ==
  call.name \in {"strcmp", "strncmp"} => Searched /\ Copying /\ S!FindsInString /\ S!CopiesWhatWas
BY DEF Searched, Copying, S!FindsInString, S!CopiesWhatWas, S!Returned

LEMMA OnlySearches ==
  call.name \in {"strlen", "strchr"} => Compared /\ Copying /\ S!ComparesInOrder /\ S!CopiesWhatWas
BY DEF Compared, Copying, S!ComparesInOrder, S!CopiesWhatWas, S!Returned

LEMMA OnlyCopies ==
  call.name \in {"strcpy", "memcpy", "memset"} =>
    Compared /\ Searched /\ S!ComparesInOrder /\ S!FindsInString
BY DEF Compared, Searched, S!ComparesInOrder, S!FindsInString, S!Returned

(* Nothing is claimed of a result before the call returns.                  *)
LEMMA NotReturned ==
  pc # "returned" => S!ComparesInOrder /\ S!FindsInString /\ S!CopiesWhatWas
BY DEF S!ComparesInOrder, S!FindsInString, S!CopiesWhatWas, S!Returned

(* Strings that are equal up to i differ there, or not within n bytes.      *)
LEMMA LessAtDifference ==
  ASSUME Size \in Nat, NEW p \in S!Address, NEW q \in S!Address, NEW m \in Nat, NEW n \in Nat,
         before \in [S!Address -> Byte], Byte \subseteq Nat, m < n,
         p + m \in S!Address, q + m \in S!Address,
         \A k \in 0 .. m - 1 : before[p + k] = before[q + k] /\ before[p + k] # 0,
         before[p + m] = 0 \/ before[p + m] # before[q + m]
  PROVE  S!Less(p, q, n) <=> before[p + m] < before[q + m]
<1>1. before[p + m] \in Nat /\ before[q + m] \in Nat
  OBVIOUS
<1>2. ASSUME before[p + m] < before[q + m]
      PROVE  S!Less(p, q, n)
  <2>1. m \in 0 .. n - 1
    OBVIOUS
  <2>2. QED
    BY <1>2, <2>1 DEF S!Less
<1>3. ASSUME S!Less(p, q, n)
      PROVE  before[p + m] < before[q + m]
  <2>1. PICK k \in 0 .. n - 1 :
          /\ p + k \in S!Address /\ q + k \in S!Address /\ before[p + k] < before[q + k]
          /\ \A j \in 0 .. k - 1 : before[p + j] = before[q + j] /\ before[p + j] # 0
    BY <1>3 DEF S!Less
  <2>2. before[p + k] \in Nat /\ before[q + k] \in Nat
    BY <2>1
  <2>3. ~ k < m
    BY <2>1, <2>2
  <2>4. ~ m < k
    BY <2>1
  <2>5. k = m
    BY <2>3, <2>4
  <2>6. QED
    BY <2>1, <2>5
<1>4. QED
  BY <1>2, <1>3

(* Strings that are equal in their first n bytes are not in order there.    *)
LEMMA NotLessIfEqual ==
  ASSUME Size \in Nat, NEW p \in S!Address, NEW q \in S!Address, NEW n \in Nat,
         before \in [S!Address -> Byte], Byte \subseteq Nat,
         \A k \in 0 .. n - 1 : before[p + k] = before[q + k]
  PROVE  ~ S!Less(p, q, n)
<1> SUFFICES ASSUME S!Less(p, q, n) PROVE FALSE
  OBVIOUS
<1>1. PICK k \in 0 .. n - 1 : p + k \in S!Address /\ before[p + k] < before[q + k]
  BY DEF S!Less
<1>2. before[p + k] = before[q + k] /\ before[p + k] \in Nat
  BY <1>1
<1>3. QED
  BY <1>1, <1>2

(* strcmp and strncmp keep what was compared, and answer as they should.    *)
LEMMA CompareStep ==
  ASSUME MemoryAssumption, StringsInv, S!strcmp \/ S!strncmp
  PROVE  StringsInv'
<1> USE DEF MemoryAssumption, S!SizeAssumption, S!ByteAssumption
<1>1. /\ Given /\ call.name \in {"strcmp", "strncmp"} /\ pc = "loop" /\ call' = call
      /\ before' = before
      /\ memory' = memory
  BY GivenFacts DEF S!strcmp, S!strncmp, S!Is, S!Continue, S!Return
<1>2. /\ S!TypeOK /\ before \in [S!Address -> Byte] /\ call \in S!Calls /\ memory = before
      /\ \A k \in 0 .. i - 1 :
           /\ call.a + k \in S!Address /\ call.b + k \in S!Address
           /\ before[call.a + k] = before[call.b + k] /\ before[call.a + k] # 0
      /\ call.name = "strncmp" => i <= call.n
  BY <1>1 DEF StringsInv, StringsTyped, Compared
<1>3. /\ call.a \in S!Address /\ call.b \in S!Address
      /\ call.name = "strncmp" => call.n \in 0 .. Size
      /\ i \in 0 .. Size /\ Size \in Nat
  BY <1>1, <1>2 DEF Given, S!TypeOK
<1>4. call'.name \in {"strcmp", "strncmp"}
  BY <1>1
<1>5. (Searched /\ Copying /\ S!FindsInString /\ S!CopiesWhatWas)'
  <2>1. (call.name \in {"strcmp", "strncmp"} =>
           Searched /\ Copying /\ S!FindsInString /\ S!CopiesWhatWas)'
    BY OnlyCompares, PTL
  <2>2. QED
    BY <1>4, <2>1
<1>6. CASE S!Inside(call.a) /\ S!Inside(call.b) /\ S!Same /\ S!Continue
           /\ (call.name = "strncmp" => i # call.n)
  <2>1. i' = i + 1 /\ pc' = pc /\ result' = result
    BY <1>6 DEF S!Continue
  <2>2. call.a + i \in S!Address /\ call.b + i \in S!Address
        /\ before[call.a + i] = before[call.b + i] /\ before[call.a + i] # 0
    BY <1>2, <1>6 DEF S!Inside, S!Same, S!At
  <2>3. StringsTyped'
    <3>1. i + 1 \in 0 .. Size
      BY <1>3, <2>2 DEF S!Address
    <3>2. QED
      BY <1>1, <1>2, <2>1, <3>1 DEF StringsTyped, S!TypeOK, S!Address
  <2>4. \A k \in 0 .. i' - 1 : k \in 0 .. i - 1 \/ k = i
    BY <2>1, <1>3
  <2>5. call.name = "strncmp" => i' <= call.n
    BY <1>2, <1>3, <1>6, <2>1
  <2>6. Compared'
    BY <1>1, <1>2, <2>2, <2>4, <2>5 DEF Compared, S!Address
  <2>7. S!ComparesInOrder'
    <3>1. pc' # "returned"
      BY <1>1, <2>1
    <3>2. (pc # "returned" => S!ComparesInOrder /\ S!FindsInString /\ S!CopiesWhatWas)'
      BY NotReturned, PTL
    <3>3. QED
      BY <3>1, <3>2
  <2>8. QED
    BY <1>5, <2>3, <2>6, <2>7 DEF StringsInv
<1> DEFINE n == IF call.name = "strcmp" THEN Size ELSE call.n
<1>7. n \in Nat /\ i <= n
  BY <1>1, <1>2, <1>3
<1>8. ASSUME NEW value \in {x - y : x, y \in Byte}, S!Return(value),
             value < 0 <=> S!Less(call.a, call.b, n), value > 0 <=> S!Less(call.b, call.a, n)
      PROVE  StringsInv'
  <2>1. i' = i /\ result' = value /\ pc' = "returned"
    BY <1>8 DEF S!Return
  <2>2. StringsTyped'
    BY <1>1, <1>2, <2>1 DEF StringsTyped, S!TypeOK, S!Address, S!NULL
  <2>3. Compared'
    BY <1>1, <1>2, <2>1 DEF Compared, S!Address
  <2>4. S!ComparesInOrder'
    <3>1. S!Less(call.a, call.b, n)' <=> S!Less(call.a, call.b, n)
      BY <1>1 DEF S!Less, S!Address
    <3>2. S!Less(call.b, call.a, n)' <=> S!Less(call.b, call.a, n)
      BY <1>1 DEF S!Less, S!Address
    <3> HIDE <1>8
    <3>3. /\ result' < 0 <=> S!Less(call.a, call.b, n)'
          /\ result' > 0 <=> S!Less(call.b, call.a, n)'
      BY <1>8, <2>1, <3>1, <3>2
    <3>4. QED
      BY <3>3 DEF S!ComparesInOrder
  <2>5. QED
    BY <1>5, <2>2, <2>3, <2>4 DEF StringsInv
<1>9. CASE call.name = "strncmp" /\ S!Bounded /\ S!Return(0)
  <2>1. i = call.n /\ n = call.n
    BY <1>9 DEF S!Bounded
  <2>2. \A k \in 0 .. n - 1 : before[call.a + k] = before[call.b + k]
    BY <1>2, <2>1
  <2> HIDE DEF n
  <2>3. ~ S!Less(call.a, call.b, n) /\ ~ S!Less(call.b, call.a, n)
    BY <1>2, <1>3, <1>7, <2>2, NotLessIfEqual
  <2>4. 0 \in {x - y : x, y \in Byte}
    <3>1. 0 \in Byte /\ 0 = 0 - 0
      OBVIOUS
    <3>2. QED
      BY <3>1
  <2>5. QED
    BY <1>8, <1>9, <2>3, <2>4
<1>10. CASE S!Inside(call.a) /\ S!Inside(call.b) /\ ~ S!Same /\ S!Return(S!Difference)
            /\ (call.name = "strncmp" => i # call.n)
  <2>1. call.a + i \in S!Address /\ call.b + i \in S!Address
        /\ (before[call.a + i] = 0 \/ before[call.a + i] # before[call.b + i])
        /\ S!Difference = before[call.a + i] - before[call.b + i]
    BY <1>2, <1>10 DEF S!Inside, S!Same, S!At, S!Difference
  <2>2. i < n
    <3>1. i < Size
      BY <1>3, <2>1 DEF S!Address
    <3>2. QED
      BY <1>1, <1>2, <1>3, <1>10, <3>1
  <2> HIDE DEF n
  <2>3. before[call.a + i] \in Byte /\ before[call.b + i] \in Byte
    BY <1>2, <2>1
  <2>4. i \in Nat /\ before[call.a + i] \in Nat /\ before[call.b + i] \in Nat
    <3>1. i \in Nat
      BY <1>3
    <3>2. QED
      BY <2>3, <3>1, Zenon
  <2>5. S!Less(call.a, call.b, n) <=> before[call.a + i] < before[call.b + i]
    BY <1>2, <1>3, <1>7, <2>1, <2>2, <2>4, LessAtDifference
  <2>6. S!Less(call.b, call.a, n) <=> before[call.b + i] < before[call.a + i]
    <3>1. before[call.b + i] = 0 \/ before[call.b + i] # before[call.a + i]
      BY <2>1
    <3>2. \A k \in 0 .. i - 1 : before[call.b + k] = before[call.a + k] /\ before[call.b + k] # 0
      BY <1>2
    <3>3. QED
      BY <1>2, <1>3, <1>7, <2>1, <2>2, <2>4, <3>1, <3>2, LessAtDifference
  <2>7. S!Difference \in {x - y : x, y \in Byte}
    <3> DEFINE x == before[call.a + i]
               y == before[call.b + i]
    <3>1. x \in Byte /\ y \in Byte /\ S!Difference = x - y
      BY <2>1, <2>3
    <3> HIDE DEF x, y
    <3>2. QED
      BY <3>1
  <2>8. S!Difference < 0 <=> before[call.a + i] < before[call.b + i]
    BY <2>1, <2>4
  <2>9. S!Difference > 0 <=> before[call.b + i] < before[call.a + i]
    BY <2>1, <2>4
  <2>10. QED
    BY <1>8, <1>10, <2>5, <2>6, <2>7, <2>8, <2>9
<1>11. QED
  BY <1>1, <1>6, <1>9, <1>10 DEF S!strcmp, S!strncmp, S!Is, S!Bounded

(* The places strchr may find: one if the byte is in front of the end.      *)
Places(p, c) ==
  {q \in S!Address : p <= q /\ before[q] = c /\ \A r \in p .. q - 1 : before[r] \notin {0, c}}

LEMMA PlaceIsFirst ==
  ASSUME Size \in Nat, NEW p \in S!Address, NEW c, NEW n \in Nat, p + n \in S!Address,
         \A k \in 0 .. n - 1 : before[p + k] # 0 /\ before[p + k] # c
  PROVE  /\ before[p + n] = c => p + n \in Places(p, c)
         /\ before[p + n] = 0 /\ before[p + n] # c => Places(p, c) = {}
<1> USE DEF S!Address
<1>1. \A r \in p .. p + n - 1 : before[r] \notin {0, c}
  <2> TAKE r \in p .. p + n - 1
  <2>1. r - p \in 0 .. n - 1 /\ p + (r - p) = r
    OBVIOUS
  <2>2. QED
    BY <2>1
<1>2. ASSUME before[p + n] = c
      PROVE  p + n \in Places(p, c)
  BY <1>1, <1>2 DEF Places
<1>3. ASSUME before[p + n] = 0, before[p + n] # c, NEW q \in Places(p, c)
      PROVE  FALSE
  <2>1. q \in S!Address /\ p <= q /\ before[q] = c /\ \A r \in p .. q - 1 : before[r] \notin {0, c}
    BY DEF Places
  <2>2. ~ q < p + n
    BY <1>1, <2>1
  <2>3. ~ p + n < q
    BY <1>3, <2>1
  <2>4. q = p + n
    BY <2>1, <2>2, <2>3
  <2>5. QED
    BY <1>3, <2>1, <2>4
<1>4. QED
  BY <1>2, <1>3

(* strlen and strchr stop at what they look for, and at the end.            *)
LEMMA SearchStep ==
  ASSUME MemoryAssumption, StringsInv, S!strlen \/ S!strchr
  PROVE  StringsInv'
<1> USE DEF MemoryAssumption, S!SizeAssumption, S!ByteAssumption
<1>1. Given /\ call.name \in {"strlen", "strchr"} /\ pc = "loop" /\ call' = call /\ before' = before
      /\ memory' = memory /\ call.a + i \in S!Address
  BY GivenFacts DEF S!strlen, S!strchr, S!Is, S!Continue, S!Return, S!Inside
<1>2. /\ S!TypeOK /\ before \in [S!Address -> Byte] /\ call \in S!Calls /\ memory = before
      /\ \A k \in 0 .. i - 1 :
           /\ call.a + k \in S!Address /\ before[call.a + k] # 0
           /\ call.name = "strchr" => before[call.a + k] # call.c
  BY <1>1 DEF StringsInv, StringsTyped, Searched
<1>3. call.a \in S!Address /\ i \in Nat /\ i \in 0 .. Size /\ Size \in Nat
  BY <1>1, <1>2 DEF Given, S!TypeOK
<1>4. (Compared /\ Copying /\ S!ComparesInOrder /\ S!CopiesWhatWas)'
  <2>1. (call.name \in {"strlen", "strchr"} =>
           Compared /\ Copying /\ S!ComparesInOrder /\ S!CopiesWhatWas)'
    BY OnlySearches, PTL
  <2>2. call'.name \in {"strlen", "strchr"}
    BY <1>1
  <2>3. QED
    BY <2>1, <2>2
<1>5. CASE /\ before[call.a + i] # 0 /\ S!Continue
           /\ call.name = "strchr" => before[call.a + i] # call.c
  <2>1. i' = i + 1 /\ pc' = pc /\ result' = result
    BY <1>5 DEF S!Continue
  <2>2. StringsTyped'
    <3>1. i + 1 \in 0 .. Size
      BY <1>1, <1>3 DEF S!Address
    <3>2. QED
      BY <1>1, <1>2, <2>1, <3>1 DEF StringsTyped, S!TypeOK, S!Address
  <2>3. \A k \in 0 .. i' - 1 : k \in 0 .. i - 1 \/ k = i
    BY <2>1, <1>3
  <2>4. Searched'
    BY <1>1, <1>2, <1>5, <2>3 DEF Searched, S!Address
  <2>5. S!FindsInString'
    <3>1. pc' # "returned"
      BY <1>1, <2>1
    <3>2. (pc # "returned" => S!ComparesInOrder /\ S!FindsInString /\ S!CopiesWhatWas)'
      BY NotReturned, PTL
    <3>3. QED
      BY <3>1, <3>2
  <2>6. QED
    BY <1>4, <2>2, <2>4, <2>5 DEF StringsInv
<1>6. ASSUME NEW value \in {S!NULL} \union S!Address \union {x - y : x, y \in Byte},
             S!Return(value),
             call.name = "strlen" => S!IsString(call.a) /\ value = S!Length(call.a),
             call.name = "strchr" =>
               IF Places(call.a, call.c) = {} THEN value = S!NULL
               ELSE value \in Places(call.a, call.c)
      PROVE  StringsInv'
  <2>1. i' = i /\ result' = value /\ pc' = "returned"
    BY <1>6 DEF S!Return
  <2>2. StringsTyped'
    BY <1>1, <1>2, <2>1 DEF StringsTyped, S!TypeOK, S!Address, S!NULL
  <2>3. Searched'
    BY <1>1, <1>2, <2>1 DEF Searched, S!Address
  <2>4. S!FindsInString'
    <3>1. call.name = "strlen" => S!IsString(call.a)' /\ result' = S!Length(call.a)'
      BY <1>1, <1>6, <2>1 DEF S!IsString, S!Length, S!Address
    <3>2. call.name = "strchr" =>
            IF Places(call.a, call.c)' = {} THEN result' = S!NULL
            ELSE result' \in Places(call.a, call.c)'
      BY <1>1, <1>6, <2>1 DEF Places, S!Address
    <3>3. QED
      BY <1>1, <3>1, <3>2 DEF S!FindsInString, S!Returned, Places, S!Address, S!NULL
  <2>5. QED
    BY <1>4, <2>2, <2>3, <2>4 DEF StringsInv
<1>7. CASE call.name = "strlen" /\ before[call.a + i] = 0 /\ S!Return(i)
  <2>1. S!IsString(call.a) /\ S!Length(call.a) = i
    BY <1>1, <1>2, <1>3, <1>7, LengthIsFirstZero
  <2>2. i \in S!Address
    BY <1>1, <1>3 DEF S!Address
  <2>3. QED
    BY <1>6, <1>7, <2>1, <2>2
<1>8. CASE call.name = "strchr" /\ before[call.a + i] = call.c /\ S!Return(call.a + i)
  <2>1. call.a + i \in Places(call.a, call.c)
    BY <1>1, <1>2, <1>3, <1>8, PlaceIsFirst
  <2>2. QED
    BY <1>1, <1>6, <1>8, <2>1
<1>9. CASE call.name = "strchr" /\ before[call.a + i] # call.c /\ before[call.a + i] = 0
           /\ S!Return(S!NULL)
  <2>1. Places(call.a, call.c) = {}
    BY <1>1, <1>2, <1>3, <1>9, PlaceIsFirst
  <2>2. QED
    BY <1>6, <1>9, <2>1
<1>10. QED
  BY <1>1, <1>2, <1>5, <1>7, <1>8, <1>9 DEF S!strlen, S!strchr, S!Is, S!Found, S!At

(* strcpy, memcpy and memset keep what was copied, and return behind the    *)
(* last byte. A target that begins inside the source is filled with bytes   *)
(* that are no ends, so that strcpy does not return there.                  *)
LEMMA CopyStep ==
  ASSUME MemoryAssumption, StringsInv, S!strcpy \/ S!memcpy \/ S!memset
  PROVE  StringsInv'
<1> USE DEF MemoryAssumption, S!SizeAssumption, S!ByteAssumption
<1> DEFINE names == {"strcpy", "memcpy", "memset"}
           InFront(k) == call.a <= call.b \/ call.a > call.b + k
<1>1. Given /\ call.name \in names /\ pc = "loop" /\ call' = call /\ before' = before
  BY GivenFacts DEF S!strcpy, S!memcpy, S!memset, S!Is, S!Continue, S!Return
<1>2. /\ S!TypeOK /\ before \in [S!Address -> Byte] /\ call \in S!Calls
      /\ memory \in [S!Address -> Byte]
      /\ \A p \in S!Address : p \notin call.a .. call.a + i - 1 => memory[p] = before[p]
      /\ \A k \in 0 .. i - 1 :
           /\ call.a + k \in S!Address
           /\ call.name = "strcpy" => memory[call.a + k] # 0
           /\ call.name = "memset" => memory[call.a + k] = call.c
           /\ call.name \in {"strcpy", "memcpy"} /\ InFront(k) =>
                call.b + k \in S!Address /\ memory[call.a + k] = before[call.b + k]
      /\ call.name \in {"memcpy", "memset"} => i <= call.n
  BY <1>1 DEF StringsInv, StringsTyped, Copying, S!TypeOK
<1>3. /\ call.a \in S!Address /\ i \in Nat /\ i \in 0 .. Size /\ Size \in Nat
      /\ call.name \in {"strcpy", "memcpy"} => call.b \in S!Address
      /\ call.name \in {"memcpy", "memset"} => call.n \in 0 .. Size /\ call.a + call.n <= Size
      /\ call.name = "memcpy" => call.b + call.n <= Size
      /\ call.name = "memset" => call.c \in Byte
  BY <1>1, <1>2 DEF Given, S!TypeOK
<1>4. (Compared /\ Searched /\ S!ComparesInOrder /\ S!FindsInString)'
  <2>1. (call.name \in {"strcpy", "memcpy", "memset"} =>
           Compared /\ Searched /\ S!ComparesInOrder /\ S!FindsInString)'
    BY OnlyCopies, PTL
  <2>2. call'.name \in names
    BY <1>1
  <2>3. QED
    BY <2>1, <2>2
(* What is read of the source was not written.                              *)
<1>5. ASSUME call.name \in {"strcpy", "memcpy"}, call.b + i \in S!Address, InFront(i)
      PROVE  memory[call.b + i] = before[call.b + i]
  <2>1. call.b + i \notin call.a .. call.a + i - 1
    BY <1>3, <1>5 DEF S!Address
  <2>2. QED
    BY <1>2, <1>5, <2>1
<1>6. ASSUME NEW value \in Byte, memory' = [memory EXCEPT ![call.a + i] = value], S!Continue,
             call.a + i \in S!Address,
             call.name = "strcpy" => value # 0,
             call.name = "memset" => value = call.c,
             call.name \in {"strcpy", "memcpy"} =>
               call.b + i \in S!Address /\ value = memory[call.b + i],
             call.name \in {"memcpy", "memset"} => i < call.n
      PROVE  StringsInv'
  <2>1. i' = i + 1 /\ pc' = pc /\ result' = result
    BY <1>6 DEF S!Continue
  <2>2. StringsTyped'
    <3>1. i + 1 \in 0 .. Size
      BY <1>3, <1>6 DEF S!Address
    <3>2. memory' \in [S!Address -> Byte]
      BY <1>2, <1>6
    <3>3. QED
      BY <1>1, <1>2, <2>1, <3>1, <3>2 DEF StringsTyped, S!TypeOK, S!Address
  <2>3. memory'[call.a + i] = value
    BY <1>2, <1>6
  <2>4. \A p \in S!Address : p # call.a + i => memory'[p] = memory[p]
    BY <1>2, <1>6
  <2>5. \A p \in S!Address : p \notin call.a .. call.a + i => memory'[p] = before[p]
    <3> TAKE p \in S!Address
    <3>1. p \notin call.a .. call.a + i => p # call.a + i /\ p \notin call.a .. call.a + i - 1
      BY <1>3 DEF S!Address
    <3>2. QED
      BY <1>2, <2>4, <3>1
  <2>6. ASSUME NEW k \in 0 .. i
        PROVE  /\ call.a + k \in S!Address
               /\ call.name = "strcpy" => memory'[call.a + k] # 0
               /\ call.name = "memset" => memory'[call.a + k] = call.c
               /\ call.name \in {"strcpy", "memcpy"} /\ InFront(k) =>
                    call.b + k \in S!Address /\ memory'[call.a + k] = before[call.b + k]
    <3>1. CASE k = i
      <4>1. call.name \in {"strcpy", "memcpy"} /\ InFront(i) => value = before[call.b + i]
        BY <1>5, <1>6
      <4> HIDE DEF InFront
      <4>2. QED
        BY <1>6, <2>3, <3>1, <4>1
    <3>2. CASE k # i
      <4>1. k \in 0 .. i - 1
        BY <1>3, <3>2
      <4>2. call.a + k \in S!Address /\ call.a + k # call.a + i
        BY <1>2, <1>3, <3>2, <4>1 DEF S!Address
      <4>3. memory'[call.a + k] = memory[call.a + k]
        BY <2>4, <4>2
      <4> HIDE DEF InFront
      <4>4. QED
        BY <1>2, <4>1, <4>2, <4>3
    <3>3. QED
      BY <3>1, <3>2
  <2>7. i' - 1 = i
    BY <1>3, <2>1
  <2>8. call.name \in {"memcpy", "memset"} => i' <= call.n
    BY <1>3, <1>6, <2>1
  <2>9. call.a + i' - 1 = call.a + i
    BY <1>3, <2>1 DEF S!Address
  <2>10. Copying'
    BY <1>1, <2>5, <2>6, <2>7, <2>8, <2>9 DEF Copying, S!Address
  <2>11. S!CopiesWhatWas'
    <3>1. pc' # "returned"
      BY <1>1, <2>1
    <3>2. (pc # "returned" => S!ComparesInOrder /\ S!FindsInString /\ S!CopiesWhatWas)'
      BY NotReturned, PTL
    <3>3. QED
      BY <3>1, <3>2
  <2>12. QED
    BY <1>4, <2>2, <2>10, <2>11 DEF StringsInv
<1>7. ASSUME S!Return(call.a), i = S!Written
      PROVE  StringsInv'
  <2>1. i' = i /\ result' = call.a /\ pc' = "returned" /\ memory' = memory
    BY <1>7 DEF S!Return
  <2>2. StringsTyped'
    BY <1>1, <1>2, <1>3, <2>1 DEF StringsTyped, S!TypeOK, S!Address, S!NULL
  <2>3. Copying'
    BY <1>1, <1>2, <2>1 DEF Copying, S!Address
  <2>4. S!Written' = i
    BY <1>1, <1>7 DEF S!Written, S!Length, S!Address
  <2>5. ASSUME call.name \in {"memcpy", "strcpy"}, call.a \notin call.b + 1 .. call.b + i,
               NEW k \in 0 .. i - 1
        PROVE  memory[call.a + k] = before[call.b + k]
    <3>1. InFront(k)
      BY <1>3, <2>5 DEF S!Address
    <3> HIDE DEF InFront
    <3>2. QED
      BY <1>2, <2>5, <3>1
  <2>6. call.name = "memset" => i = call.n
    BY <1>7 DEF S!Written
  <2>7. call.name \in {"memcpy", "strcpy"} /\ call.a \notin call.b + 1 .. call.b + i =>
          \A k \in 0 .. i - 1 : memory[call.a + k] = before[call.b + k]
    BY <2>5
  <2>8. call.name = "memset" => \A k \in 0 .. call.n - 1 : memory[call.a + k] = call.c
    BY <1>2, <2>6
  <2>9. \A p \in S!Address \ (call.a .. call.a + i - 1) : memory[p] = before[p]
    BY <1>2
  <2>10. S!CopiesWhatWas'
    BY <1>1, <2>1, <2>4, <2>7, <2>8, <2>9 DEF S!CopiesWhatWas, S!Returned, S!Address
  <2>11. QED
    BY <1>4, <2>2, <2>3, <2>10 DEF StringsInv
<1>8. ASSUME S!strcpy
      PROVE  StringsInv'
  <2>1. call.name = "strcpy" /\ call.b + i \in S!Address
    BY <1>8 DEF S!strcpy, S!Is, S!Inside
  <2>2. CASE memory[call.b + i] # 0
    <3>1. call.a + i \in S!Address /\ memory' = [memory EXCEPT ![call.a + i] = memory[call.b + i]]
          /\ S!Continue
      BY <1>8, <2>2 DEF S!strcpy, S!Inside, S!At
    <3>2. memory[call.b + i] \in Byte
      BY <1>2, <2>1
    <3>3. QED
      BY <1>6, <2>1, <2>2, <3>1, <3>2
  <2>3. CASE memory[call.b + i] = 0
    <3>1. S!Return(call.a)
      BY <1>8, <2>3 DEF S!strcpy, S!At
    <3>2. InFront(i)
      <4> SUFFICES ASSUME ~ InFront(i) PROVE FALSE
        OBVIOUS
      <4>1. call.b + i - call.a \in 0 .. i - 1 /\ call.a + (call.b + i - call.a) = call.b + i
        BY <1>3, <2>1 DEF S!Address
      <4> HIDE DEF InFront
      <4>2. QED
        BY <1>2, <2>1, <2>3, <4>1
    <3>3. before[call.b + i] = 0
      BY <1>5, <2>1, <2>3, <3>2
    <3>4. \A k \in 0 .. i - 1 : before[call.b + k] # 0
      <4> TAKE k \in 0 .. i - 1
      <4>1. InFront(k)
        BY <1>3, <2>1, <3>2 DEF S!Address
      <4> HIDE DEF InFront
      <4>2. QED
        BY <1>2, <2>1, <4>1
    <3>5. S!Length(call.b) = i
      BY <1>3, <2>1, <3>3, <3>4, LengthIsFirstZero
    <3>6. QED
      BY <1>7, <2>1, <3>1, <3>5 DEF S!Written
  <2>4. QED
    BY <2>2, <2>3
<1>9. ASSUME S!memcpy
      PROVE  StringsInv'
  <2>1. call.name = "memcpy"
    BY <1>9 DEF S!memcpy, S!Is
  <2>2. CASE i = call.n
    BY <1>3, <1>7, <1>9, <2>1, <2>2 DEF S!memcpy, S!Written
  <2>3. CASE i # call.n
    <3>1. i < call.n /\ memory' = [memory EXCEPT ![call.a + i] = memory[call.b + i]] /\ S!Continue
      BY <1>9, <2>3 DEF S!memcpy, S!Copied, S!At
    <3>2. call.a + i \in S!Address /\ call.b + i \in S!Address
      BY <1>3, <2>1, <3>1 DEF S!Address
    <3>3. memory[call.b + i] \in Byte
      BY <1>2, <3>2
    <3>4. QED
      BY <1>6, <2>1, <3>1, <3>2, <3>3
  <2>4. QED
    BY <2>2, <2>3
<1>10. ASSUME S!memset
       PROVE  StringsInv'
  <2>1. call.name = "memset"
    BY <1>10 DEF S!memset, S!Is
  <2>2. CASE i = call.n
    BY <1>3, <1>7, <1>10, <2>1, <2>2 DEF S!memset, S!Written
  <2>3. CASE i # call.n
    <3>1. i < call.n /\ memory' = [memory EXCEPT ![call.a + i] = call.c] /\ S!Continue
      BY <1>10, <2>3 DEF S!memset
    <3>2. call.a + i \in S!Address
      BY <1>3, <2>1, <3>1 DEF S!Address
    <3>3. QED
      BY <1>3, <1>6, <2>1, <3>1, <3>2
  <2>4. QED
    BY <2>2, <2>3
<1>11. QED
  BY <1>8, <1>9, <1>10

(* Every step of a function of string.h keeps what is claimed of it.        *)
LEMMA StringsStep ==
  ASSUME MemoryAssumption, StringsInv, S!Next
  PROVE  StringsInv'
<1>1. CASE S!strlen \/ S!strchr
  BY <1>1, SearchStep
<1>2. CASE S!strcmp \/ S!strncmp
  BY <1>2, CompareStep
<1>3. CASE S!strcpy \/ S!memcpy \/ S!memset
  BY <1>3, CopyStep
<1>4. QED
  BY <1>1, <1>2, <1>3 DEF S!Next

-------------------------------------------------------------------------------
(* Every non-empty set of naturals has a least element. *)
LEMMA LeastNatural ==
  ASSUME NEW T, T \subseteq Nat, T # {}
  PROVE  \E x \in T : \A y \in T : x <= y
<1> DEFINE R == {p \in Nat \X Nat : p[1] < p[2]}
<1>1. IsWellFoundedOn(R, Nat)
  BY NatLessThanWellFounded DEF OpToRel
<1>2. ASSUME NEW x \in Nat, NEW y \in Nat, x < y
      PROVE  <<x, y>> \in R
  BY <1>2
<1> HIDE DEF R
<1>3. PICK x \in T : \A y \in T : ~ (<<y, x>> \in R)
  BY <1>1, WFMin
<1>4. ASSUME NEW y \in T
      PROVE  x <= y
  <2>1. x \in Nat /\ y \in Nat
    OBVIOUS
  <2>2. <<y, x>> \notin R
    BY <1>3
  <2>3. QED
    BY <2>1, <2>2, <1>2
<1>5. QED
  BY <1>4

(* A set that has 0 and with each number the next has all of them.          *)
LEMMA Induction ==
  ASSUME NEW T, 0 \in T, \A n \in Nat : n \in T => n + 1 \in T
  PROVE  Nat \subseteq T
<1> SUFFICES ASSUME Nat \ T # {} PROVE FALSE
  OBVIOUS
<1>1. PICK x \in Nat \ T : \A y \in Nat \ T : x <= y
  BY LeastNatural
<1>2. x - 1 \in Nat /\ x - 1 \notin Nat \ T
  BY <1>1
<1>3. QED
  BY <1>1, <1>2

(* What the recursion along a sequence of n elements asks of a function.    *)
Recurs(f, n, first, next) ==
  f[0] = first /\ \A k \in 1 .. n : f[k] = next[<< f[k - 1], k >>]

LEMMA RecursionExists ==
  ASSUME NEW V, NEW n \in Nat, NEW first \in V, NEW next \in [V \X (1 .. n) -> V]
  PROVE  \E f \in [0 .. n -> V] : Recurs(f, n, first, next)
<1> DEFINE Upto(m) == \E f \in [0 .. n -> V] : f[0] = first
                        /\ \A k \in 1 .. n : k <= m => f[k] = next[<< f[k - 1], k >>]
           T == {m \in Nat : Upto(m)}
<1>1. 0 \in T
  <2> DEFINE f == [k \in 0 .. n |-> first]
  <2>1. f \in [0 .. n -> V] /\ f[0] = first
    OBVIOUS
  <2>2. \A k \in 1 .. n : k <= 0 => f[k] = next[<< f[k - 1], k >>]
    OBVIOUS
  <2> HIDE DEF f
  <2>3. QED
    BY <2>1, <2>2
<1>2. ASSUME NEW m \in Nat, m \in T
      PROVE  m + 1 \in T
  <2>1. PICK f \in [0 .. n -> V] :
          f[0] = first /\ \A k \in 1 .. n : k <= m => f[k] = next[<< f[k - 1], k >>]
    BY <1>2
  <2>2. CASE m + 1 \notin 1 .. n
    <3>1. \A k \in 1 .. n : k <= m + 1 => f[k] = next[<< f[k - 1], k >>]
      BY <2>1, <2>2
    <3>2. QED
      BY <2>1, <3>1
  <2>3. CASE m + 1 \in 1 .. n
    <3> DEFINE g == [f EXCEPT ![m + 1] = next[<< f[m], m + 1 >>]]
    <3>1. m \in 0 .. n /\ << f[m], m + 1 >> \in V \X (1 .. n)
      BY <2>1, <2>3
    <3>2. g \in [0 .. n -> V]
      BY <2>1, <3>1
    <3>3. \A k \in 0 .. n : g[k] = IF k = m + 1 THEN next[<< f[m], m + 1 >>] ELSE f[k]
      BY <2>1
    <3> HIDE DEF g
    <3>4. ASSUME NEW k \in 1 .. n, k <= m + 1
          PROVE  g[k] = next[<< g[k - 1], k >>]
      <4>1. k - 1 \in 0 .. n /\ k \in 0 .. n /\ g[k - 1] = f[k - 1]
        BY <3>3, <3>4
      <4>2. CASE k = m + 1
        BY <3>3, <4>1, <4>2
      <4>3. CASE k <= m
        BY <2>1, <3>3, <4>1, <4>3
      <4>4. QED
        BY <3>4, <4>2, <4>3
    <3>5. g[0] = first
      BY <2>1, <3>3
    <3>6. QED
      BY <3>2, <3>4, <3>5
  <2>4. QED
    BY <2>2, <2>3
<1>3. n \in T
  <2> HIDE DEF T
  <2>1. QED
    BY <1>1, <1>2, Induction
<1>4. QED
  BY <1>3 DEF Recurs

-------------------------------------------------------------------------------
(* The character at a position of a text, as a digit.                       *)
DigitAt(txt, p) == N!Digit(IF p < Len(txt) THEN txt[p + 1] ELSE "NUL")

(* What the digits of a text from a place on are worth.                     *)
Worths(txt, from, radix) ==
  CHOOSE worth : worth =
    [n \in 0 .. Len(txt) - from |->
       IF n = 0 THEN 0 ELSE worth[n - 1] * radix + DigitAt(txt, from + n - 1)]

(* It is what strtoul should count.                                         *)
LEMMA WorthIs ==
  N!Worth = Worths(text, digits, base)
BY DEF N!Worth, Worths, DigitAt, N!Char

(* A character has a value, 0 if it is no digit.                            *)
LEMMA DigitsAreNumbers ==
  ASSUME NumberAssumption, NEW c
  PROVE  N!Digit(c) \in Nat /\ (c \in DOMAIN ValueOf => N!Digit(c) = ValueOf[c])
BY DEF NumberAssumption, N!TextAssumption, N!Digit

(* The worth of a digit more.                                               *)
LEMMA WorthRecurs ==
  ASSUME NumberAssumption, NEW txt \in Seq(STRING), NEW from \in 0 .. Len(txt), NEW radix \in Nat
  PROVE  /\ Worths(txt, from, radix)[0] = 0
         /\ \A n \in 1 .. Len(txt) - from :
              /\ Worths(txt, from, radix)[n - 1] \in Nat /\ Worths(txt, from, radix)[n] \in Nat
              /\ Worths(txt, from, radix)[n] =
                   Worths(txt, from, radix)[n - 1] * radix + DigitAt(txt, from + n - 1)
<1> DEFINE m == Len(txt) - from
           next == [vn \in Nat \X (1 .. m) |-> vn[1] * radix + DigitAt(txt, from + vn[2] - 1)]
           Is(worth) == worth =
             [n \in 0 .. Len(txt) - from |->
                IF n = 0 THEN 0 ELSE worth[n - 1] * radix + DigitAt(txt, from + n - 1)]
<1>1. m \in Nat
  OBVIOUS
<1>2. \A p : DigitAt(txt, p) \in Nat
  BY DigitsAreNumbers DEF DigitAt
<1>3. next \in [Nat \X (1 .. m) -> Nat]
  <2>1. ASSUME NEW vn \in Nat \X (1 .. m)
        PROVE  vn[1] * radix + DigitAt(txt, from + vn[2] - 1) \in Nat
    <3>1. PICK x \in Nat : x = vn[1]
      OBVIOUS
    <3>2. PICK y \in Nat : y = DigitAt(txt, from + vn[2] - 1)
      BY <1>2
    <3>3. x * radix + y \in Nat
      OBVIOUS
    <3>4. QED
      BY <3>1, <3>2, <3>3
  <2>2. QED
    BY <2>1
<1>4. PICK f \in [0 .. m -> Nat] : Recurs(f, m, 0, next)
  <2> HIDE DEF next, m
  <2>1. 0 \in Nat
    OBVIOUS
  <2>2. QED
    BY <1>1, <1>3, <2>1, RecursionExists
<1>5. \A n \in 1 .. m : f[n - 1] \in Nat /\ f[n] = f[n - 1] * radix + DigitAt(txt, from + n - 1)
  <2> TAKE n \in 1 .. m
  <2>1. n - 1 \in 0 .. m /\ f[n - 1] \in Nat
    BY <1>1
  <2>2. << f[n - 1], n >> \in Nat \X (1 .. m)
    BY <2>1
  <2>3. f[n] = next[<< f[n - 1], n >>]
    BY <1>4 DEF Recurs
  <2>4. QED
    BY <2>1, <2>2, <2>3
<1>6. f[0] = 0
  BY <1>4 DEF Recurs
<1>7. Is(f)
  <2>1. f = [n \in 0 .. m |-> f[n]]
    OBVIOUS
  <2>2. ASSUME NEW n \in 0 .. m
        PROVE  f[n] = IF n = 0 THEN 0 ELSE f[n - 1] * radix + DigitAt(txt, from + n - 1)
    <3>1. n # 0 => n \in 1 .. m
      OBVIOUS
    <3>2. QED
      BY <1>5, <1>6, <3>1
  <2>3. QED
    BY <2>1, <2>2
<1> DEFINE w == Worths(txt, from, radix)
<1>8. w = CHOOSE worth : Is(worth)
  BY DEF Worths
<1>9. Is(w)
  <2> HIDE DEF w
  <2>1. QED
    BY <1>7, <1>8
<1> HIDE DEF w, next
<1>10. \A n \in 0 .. m : w[n] = IF n = 0 THEN 0 ELSE w[n - 1] * radix + DigitAt(txt, from + n - 1)
  BY <1>9
<1>11. \A n \in 0 .. m : w[n] \in Nat
  <2> DEFINE T == {n \in Nat : n <= m => w[n] \in Nat}
  <2>1. 0 \in T
    BY <1>1, <1>10
  <2>2. ASSUME NEW n \in Nat, n \in T
        PROVE  n + 1 \in T
    <3>1. CASE n + 1 <= m
      <4>1. n + 1 \in 0 .. m /\ w[n] \in Nat /\ (n + 1) - 1 = n
        BY <1>1, <2>2, <3>1
      <4>2. w[n + 1] = w[n] * radix + DigitAt(txt, from + (n + 1) - 1)
        BY <1>10, <4>1
      <4>3. PICK y \in Nat : y = DigitAt(txt, from + (n + 1) - 1)
        BY <1>2
      <4>4. PICK x \in Nat : x = w[n]
        BY <4>1
      <4>5. x * radix + y \in Nat
        OBVIOUS
      <4>6. w[n + 1] \in Nat
        BY <4>2, <4>3, <4>4, <4>5
      <4>7. QED
        BY <4>6
    <3>2. CASE ~ n + 1 <= m
      BY <3>2
    <3>3. QED
      BY <3>1, <3>2
  <2>3. Nat \subseteq T
    <3> HIDE DEF T
    <3>1. QED
      BY <2>1, <2>2, Induction
  <2>4. QED
    BY <2>3
<1>12. \A n \in 1 .. m : n - 1 \in 0 .. m /\ n \in 0 .. m /\ n # 0
  BY <1>1
<1>13. w[0] = 0
  BY <1>1, <1>10
<1>14. QED
  BY <1>10, <1>11, <1>12, <1>13 DEF w

(* With the cutoff it is known before it is counted whether a number fits.  *)
LEMMA Cutoff ==
  ASSUME NEW most \in Nat, NEW radix \in Nat \ {0}, NEW n \in Nat, NEW v \in 0 .. radix - 1
  PROVE  n > most \div radix \/ (n = most \div radix /\ v > most % radix) <=> n * radix + v > most
<1> DEFINE q == most \div radix
           r == most % radix
<1>1. q \in Int /\ r \in 0 .. radix - 1 /\ most = radix * q + r
  BY Division
<1> HIDE DEF q, r
<1>2. CASE n > q
  <2>1. radix * q + radix <= radix * n
    BY <1>1, <1>2, MonotoneProduct
  <2>2. QED
    BY <1>1, <1>2, <2>1 DEF q, r
<1>3. CASE n = q
  BY <1>1, <1>3 DEF q, r
<1>4. CASE n < q
  <2>1. radix * n + radix <= radix * q
    BY <1>1, <1>4, MonotoneProduct
  <2>2. QED
    BY <1>1, <1>4, <2>1 DEF q, r
<1>5. QED
  BY <1>1, <1>2, <1>3, <1>4

-------------------------------------------------------------------------------
(* In front of the digits is no "x" but that of a prefix; behind it are     *)
(* digits of the base, what they are worth is the number, or larger than    *)
(* the largest, and whether there are any is known.                         *)
NoX(n) == \A p \in 0 .. n - 1 : N!Char(p) # "x"

BeforeDigits ==
  number_pc \in {"blanks", "base"} => base \in Bases /\ number = 0 /\ any = 0 /\ NoX(s)

BehindPrefix ==
  /\ digits \in 0 .. s /\ base \in Nat \ {0, 1}
  /\ base = 16 \/ NoX(digits)
  /\ \A p \in digits .. s - 1 : N!IsDigitOf(p)
  /\ any # 0 <=> s > digits

Counted ==
  LET worth == Worths(text, digits, base)[s - digits]
  IN  IF any = -1 THEN number = N!ULONG_MAX /\ worth > N!ULONG_MAX
      ELSE number = worth /\ worth <= N!ULONG_MAX

NumberInv ==
  /\ N!TypeOK /\ number_pc \in {"blanks", "base", "digits", "returned"}
  /\ BeforeDigits
  /\ number_pc \in {"digits", "returned"} => BehindPrefix /\ Counted
  /\ number_pc = "returned" => endptr = N!End /\ answer = N!Answer /\ ~ N!IsDigitOf(s)

(* The invariant holds when strtoul is called.                              *)
LEMMA NumberStart ==
  ASSUME NumberAssumption, N!Init
  PROVE  NumberInv
<1>1. /\ text \in Texts /\ base \in Bases /\ s = 0 /\ number = 0 /\ any = 0
      /\ endptr = 0 /\ answer = 0 /\ number_pc = "blanks"
  BY DEF N!Init
<1>2. Len(text) \in Nat /\ N!ULONG_MAX \in Nat
  BY <1>1 DEF NumberAssumption, N!TextAssumption, N!LimitAssumption, N!ULONG_MAX
<1>3. N!TypeOK
  BY <1>1, <1>2 DEF N!TypeOK
<1>4. QED
  BY <1>1, <1>3 DEF NumberInv, BeforeDigits, NoX

(* A character that is there is in front of the end.                        *)
LEMMA CharIsInText ==
  ASSUME NEW p \in Nat, Len(text) \in Nat, N!Char(p) # "NUL"
  PROVE  p + 1 <= Len(text)
BY DEF N!Char

(* The types of what strtoul counts with.                                   *)
LEMMA NumberFacts ==
  ASSUME NumberAssumption, NumberInv
  PROVE  /\ text \in Texts /\ text \in Seq(STRING) /\ Len(text) \in Nat /\ s \in 0 .. Len(text)
         /\ N!ULONG_MAX \in Nat /\ N!ULONG_MAX # 0 /\ Limit \in Nat \ {0, 1}
         /\ Limit = N!ULONG_MAX + 1
         /\ Bases \subseteq Nat \ {1} /\ "NUL" \notin DOMAIN ValueOf
         /\ \A c \in DOMAIN ValueOf : ValueOf[c] \in Nat
<1>1. text \in Texts /\ s \in 0 .. Len(text)
  BY DEF NumberInv, N!TypeOK
<1>2. text \in Seq(STRING) /\ Limit \in Nat /\ Limit > 1 /\ Bases \subseteq Nat \ {1}
      /\ "NUL" \notin DOMAIN ValueOf /\ \A c \in DOMAIN ValueOf : ValueOf[c] \in Nat
  BY <1>1 DEF NumberAssumption, N!TextAssumption, N!LimitAssumption
<1>3. Len(text) \in Nat
  BY <1>2
<1>4. QED
  BY <1>1, <1>2, <1>3 DEF N!ULONG_MAX

(* Blanks and a sign are no "x" and leave the number at 0.                  *)
LEMMA PassStep ==
  ASSUME NumberAssumption, NumberInv, N!PassBlank \/ N!PassSign
  PROVE  NumberInv'
<1>1. number_pc = "blanks" /\ base \in Bases /\ number = 0 /\ any = 0 /\ NoX(s)
  BY DEF N!PassBlank, N!PassSign, NumberInv, BeforeDigits
<1>2. /\ text' = text /\ base' = base /\ number' = number /\ any' = any /\ endptr' = endptr
      /\ answer' = answer /\ digits' = digits /\ number_pc' \in {"blanks", "base"}
  BY <1>1 DEF N!PassBlank, N!PassSign
<1>3. s' = s \/ (s' = s + 1 /\ N!Char(s) \notin {"NUL", "x"})
  BY DEF N!PassBlank, N!PassSign
<1>4. s' \in 0 .. Len(text) /\ NoX(s')
  <2>1. CASE s' = s
    BY <1>1, <2>1, NumberFacts
  <2>2. CASE s' = s + 1 /\ N!Char(s) \notin {"NUL", "x"}
    <3>1. s \in Nat /\ s + 1 <= Len(text) /\ Len(text) \in Nat
      BY <2>2, NumberFacts, CharIsInText
    <3>2. \A p \in 0 .. s' - 1 : p \in 0 .. s - 1 \/ p = s
      BY <2>2, <3>1
    <3>3. NoX(s')
      BY <1>1, <2>2, <3>2 DEF NoX
    <3>4. QED
      BY <2>2, <3>1, <3>3
  <2>3. QED
    BY <1>3, <2>1, <2>2
<1>5. N!TypeOK'
  BY <1>2, <1>4 DEF NumberInv, N!TypeOK, N!ULONG_MAX
<1>6. NoX(s)'
  BY <1>2, <1>4 DEF NoX, N!Char
<1>7. QED
  BY <1>1, <1>2, <1>5, <1>6 DEF NumberInv, BeforeDigits

(* A prefix is passed over only for the base it is the prefix of; behind it *)
(* no digit is counted yet.                                                 *)
LEMMA DetectStep ==
  ASSUME NumberAssumption, NumberInv, N!DetectBase
  PROVE  NumberInv'
<1>1. number_pc = "base" /\ base \in Bases /\ number = 0 /\ any = 0 /\ NoX(s)
  BY DEF N!DetectBase, NumberInv, BeforeDigits
<1>2. /\ text' = text /\ base' = N!BaseFound /\ number' = number /\ any' = any
      /\ endptr' = endptr /\ answer' = answer /\ s' = s + N!Prefix /\ digits' = s'
      /\ number_pc' = "digits"
  BY DEF N!DetectBase
<1>3. /\ text \in Seq(STRING) /\ Len(text) \in Nat /\ s \in 0 .. Len(text) /\ s \in Nat
      /\ Bases \subseteq Nat \ {1}
  BY NumberFacts
<1>4. base' \in Nat \ {0, 1} /\ base' \in Bases \union {8, 10, 16}
  BY <1>1, <1>2, <1>3 DEF N!BaseFound
<1>5. s' \in s .. Len(text) /\ (base' = 16 \/ NoX(s'))
  <2>1. CASE N!Prefix = 2
    <3>1. N!HexPrefix /\ base \in {0, 16}
      BY <2>1 DEF N!Prefix
    <3>2. N!Char(s + 1) # "NUL" /\ s + 1 \in Nat
      BY <1>3, <3>1 DEF N!HexPrefix
    <3>3. s + 1 + 1 <= Len(text)
      BY <1>3, <3>2, CharIsInText
    <3>4. base' = 16
      BY <1>2, <3>1 DEF N!BaseFound
    <3>5. QED
      BY <1>2, <1>3, <2>1, <3>3, <3>4
  <2>2. CASE N!Prefix = 1
    <3>1. N!Char(s) = "0"
      BY <2>2 DEF N!Prefix
    <3>2. s + 1 <= Len(text)
      BY <1>3, <3>1, CharIsInText
    <3>3. \A p \in 0 .. s' - 1 : p \in 0 .. s - 1 \/ p = s
      BY <1>2, <1>3, <2>2
    <3>4. NoX(s')
      BY <1>1, <3>1, <3>3 DEF NoX
    <3>5. QED
      BY <1>2, <1>3, <2>2, <3>2, <3>4
  <2>3. CASE N!Prefix = 0
    <3>1. s' = s
      BY <1>2, <1>3, <2>3
    <3>2. QED
      BY <1>1, <1>3, <3>1
  <2>4. QED
    BY <2>1, <2>2, <2>3 DEF N!Prefix
<1>10. s' \in 0 .. Len(text) /\ s' \in Nat /\ s' - s' = 0
  <2>1. s' \in s .. Len(text)
    BY <1>5
  <2>2. PICK x, y \in Nat : x = s /\ y = Len(text)
    BY <1>3
  <2>3. PICK z \in x .. y : z = s'
    BY <2>1, <2>2
  <2>4. z \in 0 .. y /\ z \in Nat /\ z - z = 0
    BY <2>2
  <2>5. QED
    BY <2>2, <2>3, <2>4
<1>6. N!TypeOK'
  BY <1>2, <1>3, <1>4, <1>5, <1>10 DEF NumberInv, N!TypeOK, N!ULONG_MAX
<1>7. BehindPrefix'
  <2>1. (base = 16 \/ NoX(digits))'
    BY <1>2, <1>5 DEF NoX, N!Char
  <2>2. s' \in Nat /\ \A z \in Nat : z - 1 < z
    BY <1>10
  <2>3. QED
    BY <1>1, <1>2, <1>4, <2>1, <2>2 DEF BehindPrefix
<1>8. Counted'
  <2>1. s' \in 0 .. Len(text) /\ base' \in Nat /\ s' - s' = 0
    BY <1>4, <1>10
  <2>2. Worths(text, s', base')[0] = 0
    BY <1>3, <2>1, WorthRecurs
  <2>3. N!ULONG_MAX' = N!ULONG_MAX /\ N!ULONG_MAX \in Nat
    BY NumberFacts DEF N!ULONG_MAX
  <2>4. Worths(text, digits, base)'[s' - digits'] = 0
    BY <1>2, <2>1, <2>2
  <2>5. number' = 0 /\ any' = 0
    BY <1>1, <1>2
  <2>6. QED
    BY <2>3, <2>4, <2>5 DEF Counted
<1>9. QED
  BY <1>2, <1>6, <1>7, <1>8 DEF NumberInv, BeforeDigits

(* A digit more is counted, unless the number becomes too large with it,    *)
(* which it then stays.                                                     *)
LEMMA DigitStep ==
  ASSUME NumberAssumption, NumberInv, N!TakeDigit
  PROVE  NumberInv'
<1> DEFINE v == ValueOf[N!Char(s)]
           most == N!ULONG_MAX
           W == Worths(text, digits, base)
<1>1. number_pc = "digits" /\ N!IsDigitOf(s) /\ BehindPrefix /\ Counted
  BY DEF N!TakeDigit, N!IsDigit, NumberInv
<1>2. /\ text' = text /\ base' = base /\ endptr' = endptr /\ answer' = answer /\ digits' = digits
      /\ s' = s + 1 /\ number_pc' = "digits"
      /\ IF N!TooLarge THEN number' = most /\ any' = -1
         ELSE number' = (number * base + v) % Limit /\ any' = 1
  BY <1>1 DEF N!TakeDigit
<1>3. /\ text \in Seq(STRING) /\ Len(text) \in Nat /\ s \in 0 .. Len(text) /\ s \in Nat
      /\ most \in Nat /\ most # 0 /\ Limit = most + 1
      /\ "NUL" \notin DOMAIN ValueOf /\ \A c \in DOMAIN ValueOf : ValueOf[c] \in Nat
  BY NumberFacts
<1>4. base \in Nat \ {0, 1} /\ digits \in 0 .. s
  BY <1>1 DEF BehindPrefix
<1>5. v \in 0 .. base - 1 /\ v = DigitAt(text, s) /\ s + 1 <= Len(text)
  <2>1. N!Char(s) \in DOMAIN ValueOf /\ v < base
    BY <1>1 DEF N!IsDigitOf
  <2>2. v \in Nat /\ N!Char(s) # "NUL"
    BY <1>3, <2>1
  <2>3. DigitAt(text, s) = v
    BY <2>1 DEF DigitAt, N!Char, N!Digit
  <2>4. s + 1 <= Len(text)
    BY <1>3, <2>2, CharIsInText
  <2> HIDE DEF v
  <2>5. QED
    BY <1>4, <2>1, <2>2, <2>3, <2>4
<1> HIDE DEF v, most
<1>6. /\ W[s - digits] \in Nat /\ W[s' - digits] \in Nat
      /\ W[s' - digits] = W[s - digits] * base + v
  <2>1. (s + 1) - digits \in 1 .. Len(text) - digits /\ ((s + 1) - digits) - 1 = s - digits
        /\ digits + ((s + 1) - digits) - 1 = s /\ digits \in 0 .. Len(text)
    BY <1>3, <1>4, <1>5
  <2> HIDE DEF W
  <2>2. /\ W[((s + 1) - digits) - 1] \in Nat /\ W[(s + 1) - digits] \in Nat
        /\ W[(s + 1) - digits] =
             W[((s + 1) - digits) - 1] * base + DigitAt(text, digits + ((s + 1) - digits) - 1)
    <3>1. base \in Nat
      BY <1>4
    <3>2. QED
      BY <1>3, <2>1, <3>1, WorthRecurs DEF W
  <2>3. QED
    BY <1>2, <1>5, <2>1, <2>2
<1>7. IF any = -1 THEN number = most /\ W[s - digits] > most
      ELSE number = W[s - digits] /\ W[s - digits] <= most
  BY <1>1 DEF Counted, most
<1> HIDE DEF W
<1>8. PICK x, y, b \in Nat : x = W[s - digits] /\ y = W[s' - digits] /\ b = base
  BY <1>4, <1>6
<1>9. y = x * b + v /\ v \in 0 .. b - 1 /\ b > 1 /\ v \in Nat
  BY <1>4, <1>5, <1>6, <1>8
<1>10. N!TooLarge <=> y > most
  <2>1. N!TooLarge <=> number > most \div b \/ (number = most \div b /\ v > most % b)
    BY <1>8 DEF N!TooLarge, N!cutoff, N!cutlim, v, most
  <2>2. CASE any = -1
    <3>1. number = most /\ x > most
      BY <1>7, <1>8, <2>2
    <3>2. x + x <= x * b /\ most + most <= most * b
      <4>1. b * x >= 2 * x /\ b * most >= 2 * most
        BY <1>3, <1>9, MonotoneProduct
      <4>2. QED
        BY <1>3, <1>9, <4>1
    <3>3. y > most
      BY <1>3, <1>9, <3>1, <3>2
    <3>4. number * b + v > most
      BY <1>3, <1>9, <3>1, <3>2
    <3>5. QED
      BY <1>3, <1>9, <2>1, <3>1, <3>3, <3>4, Cutoff
  <2>3. CASE any # -1
    <3>1. number = x
      BY <1>7, <1>8, <2>3
    <3>2. x > most \div b \/ (x = most \div b /\ v > most % b) <=> x * b + v > most
      BY <1>3, <1>9, Cutoff
    <3>3. QED
      BY <1>9, <2>1, <3>1, <3>2
  <2>4. QED
    BY <2>2, <2>3
<1>11. IF y > most THEN number' = most /\ any' = -1 ELSE number' = y /\ any' = 1
  <2>1. CASE y > most
    BY <1>2, <1>10, <2>1
  <2>2. CASE ~ y > most
    <3>1. any # -1
      <4> SUFFICES ASSUME any = -1 PROVE FALSE
        OBVIOUS
      <4>1. x > most /\ x <= x * b
        <5>1. x > most
          BY <1>7, <1>8
        <5>2. 1 * x <= b * x
          BY <1>9, MonotoneProduct
        <5>3. QED
          BY <1>9, <5>1, <5>2
      <4>2. QED
        BY <1>3, <1>9, <2>2, <4>1
    <3>2. number = x
      BY <1>7, <1>8, <3>1
    <3>3. number' = (x * b + v) % Limit /\ any' = 1
      BY <1>2, <1>8, <1>10, <2>2, <3>2
    <3>4. y \in 0 .. Limit - 1
      BY <1>3, <2>2
    <3>5. y % Limit = y
      BY <1>3, <3>4
    <3>6. QED
      BY <1>9, <2>2, <3>3, <3>5
  <2>3. QED
    BY <2>1, <2>2
<1>12. number' \in 0 .. most /\ any' \in {-1, 1}
  BY <1>3, <1>11
<1>13. s' \in 0 .. Len(text)
  BY <1>2, <1>3, <1>5
<1>14. N!TypeOK'
  BY <1>2, <1>12, <1>13 DEF NumberInv, N!TypeOK, N!ULONG_MAX, most
<1>15. BehindPrefix'
  <2>1. digits' \in 0 .. s' /\ s' > digits'
    BY <1>2, <1>3, <1>4
  <2>2. \A p \in digits .. s' - 1 : p \in digits .. s - 1 \/ p = s
    BY <1>2, <1>3, <1>4
  <2>3. \A p \in digits .. s' - 1 : N!IsDigitOf(p)
    BY <1>1, <2>2 DEF BehindPrefix
  <2>4. \A p \in digits' .. s' - 1 : N!IsDigitOf(p)'
    BY <1>2, <2>3 DEF N!IsDigitOf, N!Char
  <2>5. (base = 16 \/ NoX(digits))'
    BY <1>1, <1>2 DEF BehindPrefix, NoX, N!Char
  <2>6. base' \in Nat \ {0, 1} /\ any' # 0
    BY <1>2, <1>4, <1>12
  <2>7. QED
    BY <2>1, <2>4, <2>5, <2>6 DEF BehindPrefix
<1>16. Counted'
  <2>1. N!ULONG_MAX' = most
    BY DEF N!ULONG_MAX, most
  <2>2. Worths(text, digits, base)' = W
    BY <1>2 DEF W
  <2>3. IF any' = -1 THEN number' = most /\ W[s' - digits] > most
        ELSE number' = W[s' - digits] /\ W[s' - digits] <= most
    BY <1>3, <1>8, <1>11
  <2>4. QED
    BY <1>2, <2>1, <2>2, <2>3 DEF Counted
<1>17. QED
  BY <1>2, <1>14, <1>15, <1>16 DEF NumberInv, BeforeDigits

(* What is returned is in the range of what can be.                         *)
LEMMA ReturnStep ==
  ASSUME NumberAssumption, NumberInv, N!Return
  PROVE  NumberInv'
<1>1. /\ number_pc = "digits" /\ ~ N!IsDigitOf(s) /\ BehindPrefix /\ Counted
      /\ endptr' = N!End /\ answer' = N!Answer /\ number_pc' = "returned"
      /\ text' = text /\ base' = base /\ s' = s /\ number' = number /\ any' = any
      /\ digits' = digits /\ negative' = negative
  BY DEF N!Return, N!IsDigit, NumberInv
<1>2. /\ Len(text) \in Nat /\ s \in 0 .. Len(text) /\ Limit \in Nat \ {0, 1}
      /\ N!ULONG_MAX \in Nat /\ Limit = N!ULONG_MAX + 1 /\ number \in 0 .. N!ULONG_MAX
  BY NumberFacts DEF NumberInv, N!TypeOK
<1>3. N!End \in 0 .. Len(text)
  BY <1>2 DEF N!End
<1>4. N!Answer \in 0 .. N!ULONG_MAX
  <2>1. (0 - number) % Limit \in 0 .. Limit - 1
    BY <1>2
  <2>2. QED
    BY <1>2, <2>1 DEF N!Answer
<1>5. N!TypeOK'
  BY <1>1, <1>3, <1>4 DEF NumberInv, N!TypeOK, N!ULONG_MAX
<1>6. BehindPrefix'
  BY <1>1 DEF BehindPrefix, NoX, N!Char, N!IsDigitOf
<1>7. Counted'
  BY <1>1 DEF Counted, N!ULONG_MAX
<1>8. (endptr = N!End /\ answer = N!Answer /\ ~ N!IsDigitOf(s))'
  BY <1>1 DEF N!End, N!Answer, N!IsDigitOf, N!Char
<1>9. QED
  BY <1>1, <1>5, <1>6, <1>7, <1>8 DEF NumberInv, BeforeDigits

(* What the invariant says of a number that was returned.                   *)
LEMMA NumberIsRight ==
  ASSUME NumberAssumption, NumberInv
  PROVE  NumbersAnswer
<1>1. /\ Len(text) \in Nat /\ s \in 0 .. Len(text) /\ N!ULONG_MAX \in Nat /\ text \in Seq(STRING)
      /\ Limit \in Nat \ {0, 1} /\ "NUL" \notin DOMAIN ValueOf
  BY NumberFacts
<1>2. CASE number_pc # "returned"
  BY <1>2 DEF NumberInv, NumbersAnswer, N!SaturatesAtTheLimit, N!EndIsBehindDigits,
              N!PrefixOnlyWhereAllowed
<1>3. CASE number_pc = "returned"
  <2>1. BehindPrefix /\ Counted /\ endptr = N!End /\ answer = N!Answer /\ ~ N!IsDigitOf(s)
    BY <1>3 DEF NumberInv
  <2>2. /\ digits \in 0 .. s /\ base \in Nat \ {0, 1} /\ (base = 16 \/ NoX(digits))
        /\ \A p \in digits .. s - 1 : N!IsDigitOf(p)
        /\ any # 0 <=> s > digits
    BY <2>1 DEF BehindPrefix
  <2>3. N!SaturatesAtTheLimit
    <3>1. N!Value = Worths(text, digits, base)[s - digits]
      BY WorthIs DEF N!Value
    <3>2. IF any = -1 THEN number = N!ULONG_MAX /\ N!Value > N!ULONG_MAX
          ELSE number = N!Value /\ N!Value <= N!ULONG_MAX
      BY <2>1, <3>1 DEF Counted
    <3>3. N!Value \in Nat
      <4>1. digits \in 0 .. Len(text) /\ base \in Nat /\ s - digits \in 0 .. Len(text) - digits
        BY <1>1, <2>2
      <4>2. s - digits = 0 \/ s - digits \in 1 .. Len(text) - digits
        BY <4>1
      <4> DEFINE n == s - digits
      <4> HIDE DEF n
      <4>3. Worths(text, digits, base)[n] \in Nat
        BY <1>1, <4>1, <4>2, WorthRecurs DEF n
      <4>4. QED
        BY <3>1, <4>3 DEF n
    <3>4. N!Value > N!ULONG_MAX => number = N!ULONG_MAX
      BY <1>1, <3>2, <3>3
    <3>5. N!Value <= N!ULONG_MAX => number = N!Value
      BY <1>1, <3>2, <3>3
    <3>6. answer = IF negative THEN (0 - number) % Limit ELSE number
      BY <2>1 DEF N!Answer
    <3>7. QED
      BY <3>4, <3>5, <3>6 DEF N!SaturatesAtTheLimit
  <2>4. N!EndIsBehindDigits
    <3>1. CASE N!IsDigitOf(digits)
      <4>1. digits # s
        BY <2>1, <3>1
      <4>2. s > digits
        BY <1>1, <2>2, <4>1
      <4>3. endptr = s
        BY <2>1, <2>2, <4>2 DEF N!End
      <4>4. QED
        BY <2>1, <2>2, <3>1, <4>2, <4>3 DEF N!EndIsBehindDigits
    <3>2. CASE ~ N!IsDigitOf(digits)
      <4>1. digits = s
        BY <1>1, <2>2, <3>2
      <4>2. any = 0
        BY <1>1, <2>2, <4>1
      <4>3. Worths(text, digits, base)[s - digits] = 0
        <5>1. s - digits = 0 /\ digits \in 0 .. Len(text) /\ base \in Nat
          BY <1>1, <2>2, <4>1
        <5>2. Worths(text, digits, base)[0] = 0
          BY <1>1, <5>1, WorthRecurs
        <5>3. QED
          BY <5>1, <5>2
      <4>4. number = 0
        BY <2>1, <4>2, <4>3 DEF Counted
      <4>5. endptr = 0 /\ answer = 0
        BY <1>1, <2>1, <4>2, <4>4 DEF N!End, N!Answer
      <4>6. QED
        BY <3>2, <4>5 DEF N!EndIsBehindDigits
    <3>3. QED
      BY <3>1, <3>2
  <2>5. N!PrefixOnlyWhereAllowed
    <3> SUFFICES ASSUME NEW p \in 0 .. endptr - 1, N!Char(p) = "x", ~ N!IsDigitOf(p)
                 PROVE  base = 16
      BY DEF N!PrefixOnlyWhereAllowed
    <3>1. endptr = s
      BY <1>1, <2>1 DEF N!End
    <3>2. ~ p \in digits .. s - 1
      BY <2>2
    <3>3. p \in 0 .. digits - 1
      BY <1>1, <2>2, <3>1, <3>2
    <3>4. QED
      BY <2>2, <3>3 DEF NoX
  <2>6. QED
    BY <2>3, <2>4, <2>5 DEF NumberInv, NumbersAnswer
<1>4. QED
  BY <1>2, <1>3

(* Every step of strtoul keeps what is claimed of it.                       *)
LEMMA NumberStep ==
  ASSUME NumberAssumption, NumberInv, N!Next
  PROVE  NumberInv'
BY PassStep, DetectStep, DigitStep, ReturnStep DEF N!Next

-------------------------------------------------------------------------------
(* The buffer is as the text up to a position leaves it.                    *)
Kept(p, n) == IF p < n /\ p + 1 < case.size THEN case.printed[p + 1] ELSE P!Unwritten

Filled(n) == [p \in 0 .. BufferRoom - 1 |-> Kept(p, n)]

AtPlace(n) == case.places[n].fmt = fmt /\ case.places[n].a = a /\ case.places[n].pos = pos

PrintInv ==
  /\ case \in Cases /\ print_pc \in {"format", "returned"}
  /\ print_pc = "format" => length = 0 /\ str = Filled(pos)
  /\ \E n \in 1 .. Len(case.places) :
       AtPlace(n) /\ (print_pc = "returned" => n = Len(case.places))
  /\ print_pc = "returned" =>
       /\ length = pos
       /\ str = [p \in 0 .. BufferRoom - 1 |->
                   IF case.size > 0 /\ p = P!Terminator THEN "NUL" ELSE Kept(p, pos)]

(* The types of a call of vsnprintf.                                        *)
LEMMA CaseFacts ==
  ASSUME PrintAssumption, case \in Cases
  PROVE  /\ case.fmt \in Seq(STRING) /\ Len(case.fmt) \in Nat
         /\ \A p \in 1 .. Len(case.fmt) : case.fmt[p] # "NUL"
         /\ case.args \in Seq(P!Argument) /\ Len(case.args) \in Nat
         /\ case.printed \in Seq(STRING) /\ Len(case.printed) \in Nat
         /\ case.size \in Nat /\ BufferRoom \in Nat /\ case.size < BufferRoom
         /\ P!PlacesInOrder(case) /\ Len(case.places) \in Nat \ {0}
         /\ \A n \in 1 .. Len(case.places) : case.places[n] \in P!Place
         /\ \A n \in 1 .. Len(case.places) - 1 : P!Asks(P!Piece(case, n))
<1>1. /\ case.fmt \in Seq(STRING \ {"NUL"}) /\ case.args \in Seq(P!Argument)
      /\ case.printed \in Seq(STRING) /\ P!PlacesInOrder(case)
      /\ \A n \in 1 .. Len(case.places) - 1 : P!Asks(P!Piece(case, n))
  BY DEF PrintAssumption, P!CasesAssumption
<1>2. case.size \in Nat /\ BufferRoom \in Nat /\ case.size < BufferRoom
  BY DEF PrintAssumption, P!RoomAssumption
<1>3. case.fmt \in Seq(STRING) /\ Len(case.fmt) \in Nat
      /\ \A p \in 1 .. Len(case.fmt) : case.fmt[p] # "NUL"
  BY <1>1
<1>4. Len(case.args) \in Nat /\ Len(case.printed) \in Nat
  BY <1>1
<1>5. case.places \in Seq(P!Place) /\ case.places # << >>
  BY <1>1 DEF P!PlacesInOrder
<1>6. Len(case.places) \in Nat \ {0} /\ \A n \in 1 .. Len(case.places) : case.places[n] \in P!Place
  BY <1>5
<1>7. QED
  BY <1>1, <1>2, <1>3, <1>4, <1>6

(* The place behind another, and where the last one is.                     *)
LEMMA PlaceFacts ==
  ASSUME PrintAssumption, case \in Cases
  PROVE  /\ case.places[1].fmt = 1 /\ case.places[1].a = 1 /\ case.places[1].pos = 0
         /\ case.places[Len(case.places)].fmt = Len(case.fmt) + 1
         /\ case.places[Len(case.places)].a = Len(case.args) + 1
         /\ case.places[Len(case.places)].pos = Len(case.printed)
         /\ \A n \in 1 .. Len(case.places) :
              /\ case.places[n].fmt \in 1 .. Len(case.fmt) + 1
              /\ case.places[n].a \in 1 .. Len(case.args) + 1
              /\ case.places[n].pos \in 0 .. Len(case.printed)
         /\ \A n \in 1 .. Len(case.places) - 1 :
              /\ case.places[n].fmt < case.places[n + 1].fmt
              /\ case.places[n].a <= case.places[n + 1].a
              /\ case.places[n].pos <= case.places[n + 1].pos
<1>1. /\ P!PlacesInOrder(case) /\ Len(case.places) \in Nat \ {0}
      /\ \A n \in 1 .. Len(case.places) : case.places[n] \in P!Place
      /\ Len(case.fmt) \in Nat /\ Len(case.args) \in Nat /\ Len(case.printed) \in Nat
  BY CaseFacts
<1>2. /\ case.places[1].fmt = 1 /\ case.places[1].a = 1 /\ case.places[1].pos = 0
      /\ case.places[Len(case.places)].fmt = Len(case.fmt) + 1
      /\ case.places[Len(case.places)].a = Len(case.args) + 1
      /\ case.places[Len(case.places)].pos = Len(case.printed)
  BY <1>1 DEF P!PlacesInOrder
<1>3. \A n \in 1 .. Len(case.places) - 1 :
        /\ case.places[n].fmt < case.places[n + 1].fmt
        /\ case.places[n + 1].fmt <= Len(case.fmt) + 1
        /\ case.places[n].a <= case.places[n + 1].a
        /\ case.places[n + 1].a <= Len(case.args) + 1
        /\ case.places[n].pos <= case.places[n + 1].pos
        /\ case.places[n + 1].pos <= Len(case.printed)
  BY <1>1 DEF P!PlacesInOrder
<1>4. ASSUME NEW n \in 1 .. Len(case.places)
      PROVE  /\ case.places[n].fmt \in 1 .. Len(case.fmt) + 1
             /\ case.places[n].a \in 1 .. Len(case.args) + 1
             /\ case.places[n].pos \in 0 .. Len(case.printed)
  <2>1. /\ case.places[n].fmt \in Nat \ {0} /\ case.places[n].a \in Nat \ {0}
        /\ case.places[n].pos \in Nat
    BY <1>1 DEF P!Place
  <2>2. n = Len(case.places) \/ n \in 1 .. Len(case.places) - 1
    BY <1>1
  <2>3. CASE n = Len(case.places)
    BY <1>1, <1>2, <2>1, <2>3
  <2>4. CASE n \in 1 .. Len(case.places) - 1
    <3>1. n + 1 \in 1 .. Len(case.places)
      BY <1>1, <2>4
    <3>2. /\ case.places[n + 1].fmt \in Nat /\ case.places[n + 1].a \in Nat
          /\ case.places[n + 1].pos \in Nat
      BY <1>1, <3>1 DEF P!Place
    <3>3. /\ case.places[n].fmt < case.places[n + 1].fmt
          /\ case.places[n + 1].fmt <= Len(case.fmt) + 1
          /\ case.places[n].a <= case.places[n + 1].a /\ case.places[n + 1].a <= Len(case.args) + 1
          /\ case.places[n].pos <= case.places[n + 1].pos
          /\ case.places[n + 1].pos <= Len(case.printed)
      BY <1>3, <2>4
    <3>4. PICK x, y, z \in Nat : /\ x = case.places[n].fmt /\ y = case.places[n].a
                                 /\ z = case.places[n].pos
      BY <2>1
    <3>5. PICK u, v, w \in Nat : /\ u = case.places[n + 1].fmt /\ v = case.places[n + 1].a
                                 /\ w = case.places[n + 1].pos
      BY <3>2
    <3>6. PICK l, m, o \in Nat : l = Len(case.fmt) /\ m = Len(case.args) /\ o = Len(case.printed)
      BY <1>1
    <3>7. x <= u /\ u <= l + 1 /\ y <= v /\ v <= m + 1 /\ z <= w /\ w <= o /\ x # 0 /\ y # 0
      <4>1. x < u /\ u <= l + 1 /\ x # 0
        BY <2>1, <3>3, <3>4, <3>5, <3>6, Zenon
      <4>2. y <= v /\ v <= m + 1 /\ y # 0
        BY <2>1, <3>3, <3>4, <3>5, <3>6, Zenon
      <4>3. z <= w /\ w <= o
        BY <3>3, <3>4, <3>5, <3>6, Zenon
      <4>4. QED
        BY <4>1, <4>2, <4>3
    <3>8. x \in 1 .. l + 1 /\ y \in 1 .. m + 1 /\ z \in 0 .. o
      BY <3>7
    <3>9. QED
      BY <3>4, <3>6, <3>8
  <2>5. QED
    BY <2>2, <2>3, <2>4
<1>5. QED
  BY <1>2, <1>3, <1>4

(* A part of a sequence, element by element.                                *)
LEMMA PartIs ==
  ASSUME NEW T, NEW seq \in Seq(T), NEW m \in 1 .. Len(seq) + 1, NEW n \in 0 .. Len(seq), m <= n + 1
  PROVE  /\ SubSeq(seq, m, n) \in Seq(T) /\ Len(SubSeq(seq, m, n)) = n - m + 1
         /\ \A k \in 1 .. n - m + 1 : SubSeq(seq, m, n)[k] = seq[m + k - 1]
OBVIOUS

(* What a piece has, in terms of the whole.                                 *)
LEMMA PieceFacts ==
  ASSUME PrintAssumption, case \in Cases, NEW n \in 1 .. Len(case.places) - 1
  PROVE  LET piece == P!Piece(case, n)
             here  == case.places[n]
             next  == case.places[n + 1]
         IN  /\ Len(piece.fmt) = next.fmt - here.fmt
             /\ \A k \in 1 .. next.fmt - here.fmt : piece.fmt[k] = case.fmt[here.fmt + k - 1]
             /\ Len(piece.args) = next.a - here.a
             /\ \A k \in 1 .. next.a - here.a : piece.args[k] = case.args[here.a + k - 1]
             /\ piece.printed = SubSeq(case.printed, here.pos + 1, next.pos)
             /\ piece.fmt \in Seq(STRING)
             /\ piece.last <=> n + 1 = Len(case.places)
             /\ P!Asks(piece)
<1> DEFINE piece == P!Piece(case, n)
           here  == case.places[n]
           next  == case.places[n + 1]
<1>1. /\ case.fmt \in Seq(STRING) /\ Len(case.fmt) \in Nat
      /\ case.args \in Seq(P!Argument) /\ Len(case.args) \in Nat
      /\ Len(case.places) \in Nat \ {0} /\ P!Asks(piece)
  BY CaseFacts
<1>2. n \in 1 .. Len(case.places) /\ n + 1 \in 1 .. Len(case.places)
  BY <1>1
<1>3. /\ here.fmt \in 1 .. Len(case.fmt) + 1 /\ here.a \in 1 .. Len(case.args) + 1
      /\ next.fmt \in 1 .. Len(case.fmt) + 1 /\ next.a \in 1 .. Len(case.args) + 1
      /\ here.fmt < next.fmt /\ here.a <= next.a
  BY <1>2, PlaceFacts
<1>4. /\ piece.fmt = SubSeq(case.fmt, here.fmt, next.fmt - 1)
      /\ piece.args = SubSeq(case.args, here.a, next.a - 1)
      /\ piece.printed = SubSeq(case.printed, here.pos + 1, next.pos)
      /\ piece.last <=> n + 1 = Len(case.places)
  BY DEF P!Piece
<1> HIDE DEF piece, here, next
<1>5. PICK x, y, u, v \in Nat : x = here.fmt /\ y = here.a /\ u = next.fmt /\ v = next.a
  BY <1>1, <1>3
<1>6. /\ x \in 1 .. Len(case.fmt) + 1 /\ u - 1 \in 0 .. Len(case.fmt) /\ x <= (u - 1) + 1
      /\ y \in 1 .. Len(case.args) + 1 /\ v - 1 \in 0 .. Len(case.args) /\ y <= (v - 1) + 1
  <2>1. PICK l, m \in Nat : l = Len(case.fmt) /\ m = Len(case.args)
    BY <1>1
  <2>2. /\ x \in 1 .. l + 1 /\ y \in 1 .. m + 1 /\ u \in 1 .. l + 1 /\ v \in 1 .. m + 1
        /\ x < u /\ y <= v
    BY <1>3, <1>5, <2>1
  <2>3. /\ x \in 1 .. l + 1 /\ u - 1 \in 0 .. l /\ x <= (u - 1) + 1
        /\ y \in 1 .. m + 1 /\ v - 1 \in 0 .. m /\ y <= (v - 1) + 1
    BY <2>2
  <2>4. QED
    BY <2>1, <2>3
<1>7. /\ SubSeq(case.fmt, x, u - 1) \in Seq(STRING)
      /\ Len(SubSeq(case.fmt, x, u - 1)) = (u - 1) - x + 1
      /\ \A k \in 1 .. (u - 1) - x + 1 : SubSeq(case.fmt, x, u - 1)[k] = case.fmt[x + k - 1]
  BY <1>1, <1>6, PartIs
<1>8. /\ Len(SubSeq(case.args, y, v - 1)) = (v - 1) - y + 1
      /\ \A k \in 1 .. (v - 1) - y + 1 : SubSeq(case.args, y, v - 1)[k] = case.args[y + k - 1]
  BY <1>1, <1>6, PartIs
<1>9. (u - 1) - x + 1 = u - x /\ (v - 1) - y + 1 = v - y
  OBVIOUS
<1>10. /\ Len(piece.fmt) = next.fmt - here.fmt
       /\ \A k \in 1 .. next.fmt - here.fmt : piece.fmt[k] = case.fmt[here.fmt + k - 1]
       /\ piece.fmt \in Seq(STRING)
  BY <1>4, <1>5, <1>7, <1>9
<1>11. /\ Len(piece.args) = next.a - here.a
       /\ \A k \in 1 .. next.a - here.a : piece.args[k] = case.args[here.a + k - 1]
  BY <1>4, <1>5, <1>8, <1>9
<1>12. QED
  BY <1>1, <1>4, <1>10, <1>11 DEF piece, here, next

(* To put the text of a piece fills the buffer up to the next place.        *)
LEMMA PutStep ==
  ASSUME PrintAssumption, PrintInv, print_pc = "format", NEW n \in 1 .. Len(case.places) - 1,
         AtPlace(n), P!Put(P!Piece(case, n).printed),
         fmt' = case.places[n + 1].fmt, a' = case.places[n + 1].a,
         case' = case, length' = length, print_pc' = print_pc
  PROVE  PrintInv'
<1> DEFINE txt == P!Piece(case, n).printed
           here == case.places[n].pos
           next == case.places[n + 1].pos
<1>1. case \in Cases /\ str = Filled(pos) /\ length = 0
  BY DEF PrintInv
<1>2. /\ case.printed \in Seq(STRING) /\ Len(case.printed) \in Nat /\ BufferRoom \in Nat
      /\ Len(case.places) \in Nat \ {0} /\ case.size \in Nat
  BY <1>1, CaseFacts
<1>3. n \in 1 .. Len(case.places) /\ n + 1 \in 1 .. Len(case.places)
  BY <1>2
<1>4. /\ here \in 0 .. Len(case.printed) /\ next \in 0 .. Len(case.printed) /\ here <= next
      /\ here = pos
  BY <1>1, <1>3, PlaceFacts DEF AtPlace
<1>5. txt = SubSeq(case.printed, pos + 1, next)
  BY <1>1, <1>4, PieceFacts
<1> HIDE DEF txt, here, next
<1>6. Len(txt) = next - pos /\ \A k \in 1 .. next - pos : txt[k] = case.printed[pos + k]
  <2>1. /\ pos + 1 \in 1 .. Len(case.printed) + 1 /\ next \in 0 .. Len(case.printed)
        /\ pos + 1 <= next + 1
    BY <1>2, <1>4
  <2>2. /\ Len(SubSeq(case.printed, pos + 1, next)) = next - (pos + 1) + 1
        /\ \A k \in 1 .. next - (pos + 1) + 1 :
             SubSeq(case.printed, pos + 1, next)[k] = case.printed[(pos + 1) + k - 1]
    BY <1>2, <2>1, PartIs
  <2>3. next - (pos + 1) + 1 = next - pos
    BY <1>2, <1>4
  <2>4. ASSUME NEW k \in 1 .. next - pos
        PROVE  txt[k] = case.printed[pos + k]
    <3>1. (pos + 1) + k - 1 = pos + k
      BY <1>2, <1>4
    <3>2. txt[k] = case.printed[(pos + 1) + k - 1]
      BY <1>5, <2>2, <2>3
    <3>3. QED
      BY <3>1, <3>2
  <2>5. QED
    BY <1>5, <2>2, <2>3, <2>4
<1>7. pos' = next
  <2>1. pos' = pos + Len(txt)
    BY DEF P!Put, P!CountAll, txt
  <2>2. QED
    BY <1>2, <1>4, <1>6, <2>1
<1>8. str' = Filled(next)
  <2>1. DOMAIN str = 0 .. BufferRoom - 1
    BY <1>1 DEF Filled
  <2>2. str' = [p \in 0 .. BufferRoom - 1 |->
          IF p \in pos .. pos + Len(txt) - 1 /\ p + 1 < case.size THEN txt[p - pos + 1] ELSE str[p]]
    BY <2>1 DEF P!Put, txt
  <2>3. ASSUME NEW p \in 0 .. BufferRoom - 1
        PROVE  (IF p \in pos .. pos + Len(txt) - 1 /\ p + 1 < case.size
                THEN txt[p - pos + 1] ELSE str[p]) = Kept(p, next)
    <3>1. str[p] = Kept(p, pos)
      BY <1>1 DEF Filled
    <3>2. CASE p \in pos .. pos + Len(txt) - 1
      <4>1. p - pos + 1 \in 1 .. next - pos /\ pos + (p - pos + 1) = p + 1 /\ p < next /\ ~ p < pos
        BY <1>2, <1>4, <1>6, <3>2
      <4>2. txt[p - pos + 1] = case.printed[p + 1]
        BY <1>6, <4>1
      <4>3. QED
        BY <3>1, <3>2, <4>1, <4>2 DEF Kept
    <3>3. CASE p \notin pos .. pos + Len(txt) - 1
      <4>1. p < pos <=> p < next
        BY <1>2, <1>4, <1>6, <3>3
      <4>2. QED
        BY <3>1, <3>3, <4>1 DEF Kept
    <3>4. QED
      BY <3>2, <3>3
  <2>4. QED
    BY <2>2, <2>3 DEF Filled
<1>9. Filled(pos)' = Filled(next)
  BY <1>7 DEF Filled, Kept, P!Unwritten
<1>10. AtPlace(n + 1)'
  BY <1>7 DEF AtPlace, next
<1>11. \E m \in 1 .. Len(case'.places) : AtPlace(m)'
  BY <1>3, <1>10
<1>12. print_pc' = "format" /\ case' \in Cases /\ length' = 0 /\ str' = Filled(pos)'
  BY <1>1, <1>8, <1>9
<1>13. QED
  BY <1>11, <1>12 DEF PrintInv

(* Short sequences, written out.                                            *)
LEMMA ShortSequences ==
  ASSUME NEW T, NEW seq \in Seq(T)
  PROVE  /\ Len(seq) = 1 => seq = << seq[1] >>
         /\ Len(seq) = 2 => seq = << seq[1], seq[2] >>
OBVIOUS

(* What is read at a place, and where the next one is.                      *)
LEMMA ReadAtPlace ==
  ASSUME PrintAssumption, PrintInv, print_pc = "format", fmt <= Len(case.fmt)
  PROVE  \E n \in 1 .. Len(case.places) - 1 :
           LET piece == P!Piece(case, n)  next == case.places[n + 1] IN
           /\ AtPlace(n) /\ fmt \in 1 .. Len(case.fmt) /\ a \in Nat \ {0}
           /\ Len(piece.fmt) = next.fmt - fmt /\ next.fmt \in fmt + 1 .. Len(case.fmt) + 1
           /\ piece.fmt[1] = case.fmt[fmt]
           /\ Len(piece.fmt) = 2 => fmt < Len(case.fmt) /\ piece.fmt[2] = case.fmt[fmt + 1]
           /\ Len(piece.args) = next.a - a /\ next.a \in a .. Len(case.args) + 1
           /\ Len(piece.args) = 1 => piece.args[1] = case.args[a]
           /\ piece.fmt \in Seq(STRING)
           /\ piece.last => next.fmt = Len(case.fmt) + 1
           /\ P!Asks(piece)
<1>1. case \in Cases
  BY DEF PrintInv
<1>2. PICK n \in 1 .. Len(case.places) : AtPlace(n)
  BY DEF PrintInv
<1> DEFINE piece == P!Piece(case, n)
           here  == case.places[n]
           next  == case.places[n + 1]
<1>3. /\ Len(case.places) \in Nat \ {0} /\ Len(case.fmt) \in Nat /\ Len(case.args) \in Nat
      /\ case.places[Len(case.places)].fmt = Len(case.fmt) + 1
      /\ here.fmt \in 1 .. Len(case.fmt) + 1 /\ here.a \in 1 .. Len(case.args) + 1
      /\ here.fmt = fmt /\ here.a = a
  BY <1>1, <1>2, CaseFacts, PlaceFacts DEF AtPlace
<1>4. n # Len(case.places)
  BY <1>3
<1>5. n \in 1 .. Len(case.places) - 1 /\ n + 1 \in 1 .. Len(case.places)
  BY <1>3, <1>4
<1>6. /\ next.fmt \in 1 .. Len(case.fmt) + 1 /\ next.a \in 1 .. Len(case.args) + 1
      /\ here.fmt < next.fmt /\ here.a <= next.a
  BY <1>1, <1>5, PlaceFacts
<1>7. /\ Len(piece.fmt) = next.fmt - here.fmt
      /\ \A k \in 1 .. next.fmt - here.fmt : piece.fmt[k] = case.fmt[here.fmt + k - 1]
      /\ Len(piece.args) = next.a - here.a
      /\ \A k \in 1 .. next.a - here.a : piece.args[k] = case.args[here.a + k - 1]
      /\ piece.fmt \in Seq(STRING)
      /\ piece.last <=> n + 1 = Len(case.places)
      /\ P!Asks(piece)
  BY <1>1, <1>5, PieceFacts
<1> HIDE DEF piece, here, next
<1>8. fmt \in 1 .. Len(case.fmt) /\ a \in Nat \ {0}
  BY <1>3
<1>9. next.fmt \in fmt + 1 .. Len(case.fmt) + 1 /\ next.a \in a .. Len(case.args) + 1
  BY <1>3, <1>6
<1>10. PICK x, y, u, v, l \in Nat :
         x = fmt /\ y = a /\ u = next.fmt /\ v = next.a /\ l = Len(case.fmt)
  BY <1>3, <1>6, <1>8
<1>11. x < u /\ u <= l + 1 /\ here.fmt = x /\ here.a = y
  BY <1>3, <1>6, <1>10
<1>12. piece.fmt[1] = case.fmt[fmt]
  <2>1. 1 \in 1 .. u - x /\ x + 1 - 1 = x
    BY <1>11
  <2>2. piece.fmt[1] = case.fmt[x + 1 - 1]
    BY <1>7, <1>10, <1>11, <2>1
  <2>3. QED
    BY <1>10, <2>1, <2>2
<1>13. Len(piece.fmt) = 2 => fmt < Len(case.fmt) /\ piece.fmt[2] = case.fmt[fmt + 1]
  <2> SUFFICES ASSUME u - x = 2 PROVE x < l /\ piece.fmt[2] = case.fmt[x + 1]
    BY <1>7, <1>10, <1>11
  <2>1. 2 \in 1 .. u - x /\ x + 2 - 1 = x + 1 /\ x < l
    BY <1>11
  <2>2. piece.fmt[2] = case.fmt[x + 2 - 1]
    BY <1>7, <1>10, <1>11, <2>1
  <2>3. QED
    BY <2>1, <2>2
<1>14. Len(piece.args) = 1 => piece.args[1] = case.args[a]
  <2> SUFFICES ASSUME v - y = 1 PROVE piece.args[1] = case.args[y]
    BY <1>7, <1>10, <1>11
  <2>1. 1 \in 1 .. v - y /\ y + 1 - 1 = y
    OBVIOUS
  <2>2. piece.args[1] = case.args[y + 1 - 1]
    BY <1>7, <1>10, <1>11, <2>1
  <2>3. QED
    BY <2>1, <2>2
<1>15. piece.last => next.fmt = Len(case.fmt) + 1
  BY <1>3, <1>7 DEF next
<1>16. /\ AtPlace(n) /\ fmt \in 1 .. Len(case.fmt) /\ a \in Nat \ {0}
       /\ Len(piece.fmt) = next.fmt - fmt /\ next.fmt \in fmt + 1 .. Len(case.fmt) + 1
       /\ piece.fmt[1] = case.fmt[fmt]
       /\ Len(piece.fmt) = 2 => fmt < Len(case.fmt) /\ piece.fmt[2] = case.fmt[fmt + 1]
       /\ Len(piece.args) = next.a - a /\ next.a \in a .. Len(case.args) + 1
       /\ Len(piece.args) = 1 => piece.args[1] = case.args[a]
       /\ piece.fmt \in Seq(STRING)
       /\ piece.last => next.fmt = Len(case.fmt) + 1
       /\ P!Asks(piece)
  BY <1>2, <1>3, <1>7, <1>8, <1>9, <1>12, <1>13, <1>14, <1>15
<1>17. QED
  BY <1>5, <1>16 DEF piece, next

(* The reader takes the piece at its place, with its arguments, and prints  *)
(* what the piece asks for.                                                 *)
LEMMA ReadStep ==
  ASSUME PrintAssumption, PrintInv, P!Literal \/ P!Percent \/ P!Directive \/ P!Unknown
  PROVE  PrintInv'
<1>1. print_pc = "format" /\ fmt <= Len(case.fmt) /\ case \in Cases
  BY DEF PrintInv, P!Literal, P!Percent, P!Directive, P!Unknown, P!Reading
<1>2. PICK n \in 1 .. Len(case.places) - 1 :
        LET piece == P!Piece(case, n)  next == case.places[n + 1] IN
        /\ AtPlace(n) /\ fmt \in 1 .. Len(case.fmt) /\ a \in Nat \ {0}
        /\ Len(piece.fmt) = next.fmt - fmt /\ next.fmt \in fmt + 1 .. Len(case.fmt) + 1
        /\ piece.fmt[1] = case.fmt[fmt]
        /\ Len(piece.fmt) = 2 => fmt < Len(case.fmt) /\ piece.fmt[2] = case.fmt[fmt + 1]
        /\ Len(piece.args) = next.a - a /\ next.a \in a .. Len(case.args) + 1
        /\ Len(piece.args) = 1 => piece.args[1] = case.args[a]
        /\ piece.fmt \in Seq(STRING)
        /\ piece.last => next.fmt = Len(case.fmt) + 1
        /\ P!Asks(piece)
  BY <1>1, ReadAtPlace
<1> DEFINE piece == P!Piece(case, n)
           next  == case.places[n + 1]
<1>3. /\ AtPlace(n) /\ fmt \in 1 .. Len(case.fmt) /\ a \in Nat \ {0}
      /\ Len(piece.fmt) = next.fmt - fmt /\ next.fmt \in fmt + 1 .. Len(case.fmt) + 1
      /\ piece.fmt[1] = case.fmt[fmt]
      /\ Len(piece.fmt) = 2 => fmt < Len(case.fmt) /\ piece.fmt[2] = case.fmt[fmt + 1]
      /\ Len(piece.args) = next.a - a /\ next.a \in a .. Len(case.args) + 1
      /\ Len(piece.args) = 1 => piece.args[1] = case.args[a]
      /\ piece.fmt \in Seq(STRING)
      /\ piece.last => next.fmt = Len(case.fmt) + 1
      /\ P!Asks(piece)
  BY <1>2
<1>4. Len(case.fmt) \in Nat /\ Len(case.args) \in Nat
      /\ \A p \in 1 .. Len(case.fmt) : case.fmt[p] # "NUL"
  BY <1>1, CaseFacts
<1>5. ASSUME P!Put(piece.printed), fmt' = next.fmt, a' = next.a,
             case' = case, length' = length, print_pc' = print_pc
      PROVE  PrintInv'
  BY <1>1, <1>3, <1>5, PutStep
<1> HIDE DEF piece, next
<1>3a. fmt \in 1 .. Len(case.fmt) /\ Len(piece.fmt) = next.fmt - fmt
       /\ next.fmt \in fmt + 1 .. Len(case.fmt) + 1
  BY <1>3
<1>3b. a \in Nat \ {0} /\ Len(piece.args) = next.a - a /\ next.a \in a .. Len(case.args) + 1
  BY <1>3
<1>6. ASSUME piece.args = << >>
      PROVE  next.a = a
  BY <1>3, <1>4, <1>6
<1>7. ASSUME NEW m \in {1, 2}, Len(piece.fmt) = m
      PROVE  next.fmt = fmt + m
  <2>1. PICK x, u \in Nat : x = fmt /\ u = next.fmt
    <3>1. PICK l, x \in Nat : l = Len(case.fmt) /\ x = fmt
      BY <1>4, <1>3a
    <3>2. PICK u \in x + 1 .. l + 1 : u = next.fmt
      BY <1>3a, <3>1
    <3>3. u \in Nat /\ x \in Nat
      BY <3>2
    <3>4. QED
      BY <3>1, <3>2, <3>3, Zenon
  <2>2. u - x = m /\ m \in Nat
    BY <1>7, <1>3a, <2>1
  <2>3. u = x + m
    BY <2>2
  <2>4. QED
    BY <2>1, <2>3
<1>8. Len(piece.fmt) = 2 => P!Specifier = piece.fmt[2] /\ P!Specifier # "NUL"
  <2>1. fmt < Len(case.fmt) => fmt + 1 \in 1 .. Len(case.fmt)
    BY <1>3, <1>4
  <2>2. QED
    BY <1>3, <1>4, <2>1 DEF P!Specifier
<1>9. ASSUME NEW directive \in P!Supported, piece.fmt = << "%", directive >>,
             Len(piece.args) = 1, piece.args[1].kind = P!KindOf(directive),
             piece.printed = P!Text(directive, piece.args[1])
      PROVE  PrintInv'
  <2>1. Len(piece.fmt) = 2 /\ piece.fmt[1] = "%" /\ piece.fmt[2] = directive
    BY <1>9
  <2>2. P!Specifier = directive /\ case.fmt[fmt] = "%" /\ next.fmt = fmt + 2
    BY <1>3, <1>7, <1>8, <2>1
  <2>3. next.a = a + 1 /\ a <= Len(case.args) /\ piece.args[1] = case.args[a]
    <3>1. PICK y, m \in Nat : y = a /\ m = Len(case.args)
      BY <1>4, <1>3b
    <3>2. PICK v \in y .. m + 1 : v = next.a
      BY <1>3b, <3>1
    <3>3. Len(piece.args) = 1
      BY <1>9
    <3>4. v - y = 1
      BY <1>3b, <3>1, <3>2, <3>3, Zenon
    <3>5. v - y = 1 /\ v <= m + 1
      BY <3>2, <3>4
    <3>6. v = y + 1 /\ y <= m
      BY <3>5
    <3>7. QED
      BY <1>3, <1>9, <3>1, <3>6, <3>2
  <2>4. "%" \notin P!Supported
    BY DEF P!Supported
  <2>5. P!Directive
    BY <1>9, <2>2, <2>4 DEF P!Literal, P!Percent, P!Unknown
  <2>6. case.args[a].kind = P!KindOf(P!Specifier)
    BY <1>9, <2>2, <2>3
  <2>7. /\ P!Put(P!Text(P!Specifier, case.args[a])) /\ fmt' = fmt + 2 /\ print_pc' = print_pc
        /\ a' = a + 1 /\ case' = case /\ length' = length
    BY <2>3, <2>5, <2>6 DEF P!Directive
  <2>8. P!Put(piece.printed)
    BY <1>9, <2>2, <2>3, <2>7
  <2>9. QED
    BY <1>5, <2>2, <2>3, <2>7, <2>8
<1>10. ASSUME piece.fmt = << "%", "%" >>, piece.args = << >>, piece.printed = << "%" >>
       PROVE  PrintInv'
  <2>1. Len(piece.fmt) = 2 /\ piece.fmt[1] = "%" /\ piece.fmt[2] = "%"
    BY <1>10
  <2>2. P!Specifier = "%" /\ case.fmt[fmt] = "%" /\ next.fmt = fmt + 2 /\ next.a = a
    BY <1>3, <1>6, <1>7, <1>8, <1>10, <2>1
  <2>3. "%" \notin P!Supported
    BY DEF P!Supported
  <2>4. P!Percent
    BY <2>2, <2>3 DEF P!Literal, P!Directive, P!Unknown
  <2>5. QED
    BY <1>5, <1>10, <2>2, <2>4 DEF P!Percent
<1>11. ASSUME piece.printed = piece.fmt, piece.args = << >>, Len(piece.fmt) = 1, piece.fmt[1] # "%"
       PROVE  PrintInv'
  <2>1. piece.fmt = << case.fmt[fmt] >> /\ next.fmt = fmt + 1 /\ next.a = a
    BY <1>3, <1>6, <1>7, <1>11, ShortSequences
  <2>2. P!Literal
    BY <1>3, <1>11 DEF P!Percent, P!Directive, P!Unknown
  <2>3. QED
    BY <1>5, <1>11, <2>1, <2>2 DEF P!Literal
<1>12. ASSUME piece.printed = piece.fmt, piece.args = << >>, Len(piece.fmt) = 2, piece.fmt[1] = "%",
              piece.fmt[2] \notin P!Supported \union {"%"}
       PROVE  PrintInv'
  <2>1. P!Specifier = piece.fmt[2] /\ P!Specifier # "NUL" /\ next.fmt = fmt + 2 /\ next.a = a
    BY <1>6, <1>7, <1>8, <1>12
  <2>2. piece.fmt = << "%", P!Specifier >>
    BY <1>3, <1>12, <2>1, ShortSequences
  <2>3. P!Unknown
    BY <1>3, <1>12, <2>1 DEF P!Literal, P!Percent, P!Directive
  <2>4. QED
    BY <1>5, <1>12, <2>1, <2>2, <2>3 DEF P!Unknown, P!BehindUnknown, P!ArgumentKept
<1>13. ASSUME piece.printed = piece.fmt, piece.args = << >>, piece.fmt = << "%" >>, piece.last
       PROVE  PrintInv'
  <2>1. Len(piece.fmt) = 1 /\ piece.fmt[1] = "%"
    BY <1>13
  <2>2. next.fmt = fmt + 1 /\ next.a = a /\ next.fmt = Len(case.fmt) + 1
    BY <1>3, <1>6, <1>7, <1>13, <2>1
  <2>3. P!Specifier = "NUL"
    BY <1>3, <1>4, <2>2 DEF P!Specifier
  <2>4. P!Unknown
    BY <1>3, <2>1, <2>3 DEF P!Literal, P!Percent, P!Directive, P!Supported
  <2>5. QED
    BY <1>5, <1>13, <2>2, <2>3, <2>4 DEF P!Unknown, P!BehindUnknown, P!ArgumentKept
<1>14. QED
  BY <1>3, <1>9, <1>10, <1>11, <1>12, <1>13 DEF P!Asks

(* At the end of the format the last place is reached; then comes the zero. *)
LEMMA FinishStep ==
  ASSUME PrintAssumption, PrintInv, P!Finish
  PROVE  PrintInv'
<1>1. print_pc = "format" /\ fmt > Len(case.fmt) /\ case \in Cases /\ str = Filled(pos)
  BY DEF P!Finish, PrintInv
<1>2. PICK n \in 1 .. Len(case.places) : AtPlace(n)
  BY DEF PrintInv
<1>3. /\ Len(case.places) \in Nat \ {0} /\ Len(case.fmt) \in Nat /\ Len(case.printed) \in Nat
      /\ BufferRoom \in Nat /\ case.size \in Nat /\ case.size < BufferRoom
  BY <1>1, CaseFacts
<1>4. n = Len(case.places)
  <2> SUFFICES ASSUME n # Len(case.places) PROVE FALSE
    OBVIOUS
  <2>1. n \in 1 .. Len(case.places) - 1 /\ n + 1 \in 1 .. Len(case.places)
    BY <1>3
  <2>2. /\ case.places[n].fmt \in 1 .. Len(case.fmt) + 1
        /\ case.places[n + 1].fmt \in 1 .. Len(case.fmt) + 1
        /\ case.places[n].fmt < case.places[n + 1].fmt
    BY <1>1, <2>1, PlaceFacts
  <2>3. PICK x, y, l \in Nat : /\ x = case.places[n].fmt /\ y = case.places[n + 1].fmt
                               /\ l = Len(case.fmt)
    BY <1>3, <2>2
  <2>4. x < y /\ y <= l + 1 /\ x > l
    BY <1>1, <1>2, <2>2, <2>3 DEF AtPlace
  <2>5. QED
    BY <2>4
<1>5. /\ case' = case /\ fmt' = fmt /\ a' = a /\ pos' = pos /\ length' = pos
      /\ print_pc' = "returned"
  BY DEF P!Finish
<1>6. AtPlace(n)'
  BY <1>2, <1>5 DEF AtPlace
<1>7. pos \in Nat
  BY <1>1, <1>2, <1>3, PlaceFacts DEF AtPlace
<1>8. str' = [p \in 0 .. BufferRoom - 1 |->
                IF case.size > 0 /\ p = P!Terminator THEN "NUL" ELSE Kept(p, pos)]
  <2>1. CASE case.size > 0
    <3>1. str' = [str EXCEPT ![P!Terminator] = "NUL"]
      BY <2>1 DEF P!Finish
    <3>2. str = [p \in 0 .. BufferRoom - 1 |-> Kept(p, pos)]
      BY <1>1 DEF Filled
    <3>3. P!Terminator \in 0 .. BufferRoom - 1
      BY <1>3, <1>7, <2>1 DEF P!Terminator
    <3>4. QED
      BY <2>1, <3>1, <3>2, <3>3
  <2>2. CASE ~ case.size > 0
    <3>1. str' = str
      BY <2>2 DEF P!Finish
    <3>2. QED
      BY <1>1, <2>2, <3>1 DEF Filled
  <2>3. QED
    BY <2>1, <2>2
<1>9. str' = [p \in 0 .. BufferRoom - 1 |->
                IF case'.size > 0 /\ p = P!Terminator' THEN "NUL" ELSE Kept(p, pos)']
  BY <1>5, <1>8 DEF P!Terminator, Kept, P!Unwritten
<1>10. QED
  BY <1>1, <1>4, <1>5, <1>6, <1>9 DEF PrintInv

(* The invariant holds when vsnprintf is called.                            *)
LEMMA PrintStart ==
  ASSUME PrintAssumption, P!Init
  PROVE  PrintInv
<1>1. /\ case \in Cases /\ fmt = 1 /\ a = 1 /\ pos = 0 /\ length = 0 /\ print_pc = "format"
      /\ str = [p \in 0 .. BufferRoom - 1 |-> P!Unwritten]
  BY DEF P!Init
<1>2. Len(case.places) \in Nat \ {0} /\ AtPlace(1)
  BY <1>1, CaseFacts, PlaceFacts DEF AtPlace
<1>3. str = Filled(pos)
  <2>1. \A p \in 0 .. BufferRoom - 1 : Kept(p, 0) = P!Unwritten
    BY DEF Kept
  <2>2. QED
    BY <1>1, <2>1 DEF Filled
<1>4. 1 \in 1 .. Len(case.places)
  BY <1>2
<1>5. QED
  BY <1>1, <1>2, <1>3, <1>4 DEF PrintInv

(* Every step of vsnprintf keeps what is claimed of it.                     *)
LEMMA PrintStep ==
  ASSUME PrintAssumption, PrintInv, P!Next
  PROVE  PrintInv'
BY ReadStep, FinishStep DEF P!Next

(* What the invariant says of what was printed.                             *)
LEMMA PrintIsRight ==
  ASSUME PrintAssumption, PrintInv
  PROVE  PrintsAnswer
<1>1. case \in Cases /\ print_pc \in {"format", "returned"}
  BY DEF PrintInv
<1>2. PICK n \in 1 .. Len(case.places) :
        AtPlace(n) /\ (print_pc = "returned" => n = Len(case.places))
  BY DEF PrintInv
<1>3. /\ case.size \in Nat /\ BufferRoom \in Nat /\ case.size < BufferRoom
      /\ Len(case.printed) \in Nat /\ Len(case.args) \in Nat /\ Len(case.fmt) \in Nat
  BY <1>1, CaseFacts
<1>4. /\ fmt \in 1 .. Len(case.fmt) + 1 /\ a \in 1 .. Len(case.args) + 1
      /\ pos \in 0 .. Len(case.printed)
  BY <1>1, <1>2, PlaceFacts DEF AtPlace
<1>5. print_pc = "returned" => a = Len(case.args) + 1 /\ pos = Len(case.printed) /\ length = pos
  BY <1>1, <1>2, PlaceFacts DEF AtPlace, PrintInv
<1> DEFINE ended == print_pc = "returned" /\ case.size > 0
<1>6. /\ DOMAIN str = 0 .. BufferRoom - 1
      /\ \A p \in 0 .. BufferRoom - 1 :
           str[p] = IF ended /\ p = P!Terminator THEN "NUL" ELSE Kept(p, pos)
  <2>1. CASE print_pc = "format"
    BY <2>1 DEF PrintInv, Filled
  <2>2. CASE print_pc = "returned"
    BY <2>2 DEF PrintInv
  <2>3. QED
    BY <1>1, <2>1, <2>2
<1>7. case.size > 0 =>
        /\ P!Terminator \in Nat /\ P!Terminator < case.size /\ P!Terminator <= pos
        /\ P!Terminator = pos \/ P!Terminator = case.size - 1
  <2>1. PICK x, y \in Nat : x = pos /\ y = case.size
    BY <1>3, <1>4
  <2>2. P!Terminator = IF x < y THEN x ELSE y - 1
    BY <2>1, Zenon DEF P!Terminator
  <2>3. QED
    BY <2>1, <2>2
<1>8. P!TypeOK
  <2>1. length \in Nat
    BY <1>1, <1>4, <1>5 DEF PrintInv
  <2>2. QED
    BY <1>1, <1>3, <1>4, <1>6, <2>1 DEF P!TypeOK
<1>9. P!StaysInTheBuffer
  <2>1. ASSUME NEW p \in 0 .. BufferRoom - 1, p >= case.size
        PROVE  str[p] = P!Unwritten
    <3>1. ~ (ended /\ p = P!Terminator)
      BY <1>3, <1>7, <2>1
    <3>2. ~ p + 1 < case.size
      BY <1>3, <2>1
    <3>3. QED
      BY <1>6, <3>1, <3>2 DEF Kept
  <2>2. ASSUME ended
        PROVE  \E p \in 0 .. case.size - 1 :
                 str[p] = "NUL" /\ \A q \in DOMAIN str : q > p => str[q] = P!Unwritten
    <3>1. P!Terminator \in 0 .. case.size - 1 /\ P!Terminator \in 0 .. BufferRoom - 1
      BY <1>3, <1>7, <2>2
    <3>2. str[P!Terminator] = "NUL"
      BY <1>6, <2>2, <3>1
    <3>3. ASSUME NEW q \in 0 .. BufferRoom - 1, q > P!Terminator
          PROVE  str[q] = P!Unwritten
      <4>1. q # P!Terminator /\ ~ (q < pos /\ q + 1 < case.size)
        BY <1>3, <1>4, <1>7, <2>2, <3>3
      <4>2. QED
        BY <1>6, <4>1 DEF Kept
    <3>4. QED
      BY <1>6, <3>1, <3>2, <3>3
  <2>3. QED
    BY <1>6, <2>1, <2>2 DEF P!StaysInTheBuffer
<1>10. P!PrintsWhatFits
  <2> DEFINE fits == IF Len(case.printed) < case.size THEN Len(case.printed) ELSE case.size - 1
  <2> SUFFICES ASSUME ended
               PROVE  (\A p \in 0 .. fits - 1 : str[p] = case.printed[p + 1]) /\ str[fits] = "NUL"
    BY DEF P!PrintsWhatFits
  <2>1. fits = P!Terminator
    BY <1>5 DEF P!Terminator
  <2>2. fits \in 0 .. BufferRoom - 1 /\ fits < case.size /\ fits <= pos
    BY <1>3, <1>7, <2>1
  <2> HIDE DEF fits
  <2>3. str[fits] = "NUL"
    BY <1>6, <2>1, <2>2
  <2>4. ASSUME NEW p \in 0 .. fits - 1
        PROVE  str[p] = case.printed[p + 1]
    <3>1. p \in 0 .. BufferRoom - 1 /\ p # P!Terminator /\ p < pos /\ p + 1 < case.size
      BY <1>3, <1>4, <2>1, <2>2
    <3>2. QED
      BY <1>6, <3>1 DEF Kept
  <2>5. QED
    BY <2>3, <2>4
<1>11. P!ReturnsTheWholeLength
  BY <1>5 DEF P!ReturnsTheWholeLength
<1>12. P!ArgumentsInStep
  BY <1>1, <1>5 DEF P!ArgumentsInStep
<1>13. QED
  BY <1>8, <1>9, <1>10, <1>11, <1>12 DEF PrintsAnswer

-------------------------------------------------------------------------------
(* The invariant of each of the functions that may be called.               *)
LibraryInv ==
  /\ called \in {"string.h", "strtoul", "vsnprintf"}
  /\ called = "string.h" => StringsInv
  /\ called = "strtoul" => NumberInv
  /\ called = "vsnprintf" => PrintInv

(* The invariants say nothing of what is not called (three lemmas).         *)
LEMMA StringsStay ==
  ASSUME StringsInv, UNCHANGED string_vars
  PROVE  StringsInv'
<1>1. /\ memory' = memory /\ before' = before /\ call' = call /\ i' = i
      /\ result' = result /\ pc' = pc
  BY DEF string_vars
<1>2. StringsTyped'
  BY <1>1 DEF StringsInv, StringsTyped, S!TypeOK, S!Address, S!NULL, S!Calls
<1>3. Compared' /\ Searched' /\ Copying'
  BY <1>1 DEF StringsInv, Compared, Searched, Copying, S!Address
<1>4. S!ComparesInOrder'
  BY <1>1 DEF StringsInv, S!ComparesInOrder, S!Returned, S!Less, S!Address
<1>5. S!FindsInString'
  BY <1>1 DEF StringsInv, S!FindsInString, S!Returned, S!IsString, S!Length, S!Address, S!NULL
<1>6. S!CopiesWhatWas'
  BY <1>1 DEF StringsInv, S!CopiesWhatWas, S!Returned, S!Written, S!Length, S!Address
<1>7. QED
  BY <1>2, <1>3, <1>4, <1>5, <1>6 DEF StringsInv

LEMMA NumberStays ==
  ASSUME NumberInv, UNCHANGED number_vars
  PROVE  NumberInv'
<1>1. /\ text' = text /\ base' = base /\ s' = s /\ negative' = negative /\ number' = number
      /\ any' = any /\ endptr' = endptr /\ answer' = answer /\ digits' = digits
      /\ number_pc' = number_pc
  BY DEF number_vars
<1>2. N!TypeOK'
  BY <1>1 DEF NumberInv, N!TypeOK, N!ULONG_MAX
<1>3. BeforeDigits'
  BY <1>1 DEF NumberInv, BeforeDigits, NoX, N!Char
<1>4. (number_pc \in {"digits", "returned"} => BehindPrefix /\ Counted)'
  BY <1>1 DEF NumberInv, BehindPrefix, Counted, NoX, N!Char, N!IsDigitOf, N!ULONG_MAX
<1>5. (number_pc = "returned" => endptr = N!End /\ answer = N!Answer /\ ~ N!IsDigitOf(s))'
  BY <1>1 DEF NumberInv, N!End, N!Answer, N!IsDigitOf, N!Char
<1>6. QED
  BY <1>1, <1>2, <1>3, <1>4, <1>5 DEF NumberInv

LEMMA PrintStays ==
  ASSUME PrintInv, UNCHANGED print_vars
  PROVE  PrintInv'
<1>1. /\ case' = case /\ fmt' = fmt /\ a' = a /\ str' = str /\ pos' = pos
      /\ length' = length /\ print_pc' = print_pc
  BY DEF print_vars
<1>2. Filled(pos)' = Filled(pos) /\ \A n : AtPlace(n)' <=> AtPlace(n)
  BY <1>1 DEF Filled, Kept, P!Unwritten, AtPlace
<1>3. [p \in 0 .. BufferRoom - 1 |->
         IF case.size > 0 /\ p = P!Terminator THEN "NUL" ELSE Kept(p, pos)]'
      = [p \in 0 .. BufferRoom - 1 |->
           IF case.size > 0 /\ p = P!Terminator THEN "NUL" ELSE Kept(p, pos)]
  BY <1>1 DEF P!Terminator, Kept, P!Unwritten
<1>4. QED
  BY <1>1, <1>2, <1>3 DEF PrintInv

(* Of the functions of the library comparisons are in order and copies hold *)
(* what the source held, numbers are what their digits make or, without a   *)
(* "-", the largest there is, and what is printed is the text as far as it  *)
(* fits (libc.c:25-342), for every size of the memory and of the numbers,   *)
(* every base, and every text, format and buffer.                           *)
THEOREM LibraryAnswers == LibrarySpec => []CallsAnswer
<1>1. LibraryInit => LibraryInv
  BY StringsStart, NumberStart, PrintStart, MemoryAssumption, NumberAssumption, PrintAssumption
     DEF LibraryInit, LibraryInv
<1>2. LibraryInv /\ [LibraryNext]_library_vars => LibraryInv'
  <2> SUFFICES ASSUME LibraryInv, [LibraryNext]_library_vars PROVE LibraryInv'
    OBVIOUS
  <2>1. CASE CallString
    BY <2>1, StringsStep, MemoryAssumption DEF CallString, LibraryInv
  <2>2. CASE CallStrtoul
    BY <2>2, NumberStep, NumberAssumption DEF CallStrtoul, LibraryInv
  <2>3. CASE CallPrintf
    BY <2>3, PrintStep, PrintAssumption DEF CallPrintf, LibraryInv
  <2>4. CASE UNCHANGED library_vars
    BY <2>4, StringsStay, NumberStays, PrintStays DEF library_vars, LibraryInv
  <2>5. QED
    BY <2>1, <2>2, <2>3, <2>4 DEF LibraryNext
<1>3. LibraryInv => CallsAnswer
  <2>1. StringsInv => StringsAnswer
    BY DEF StringsInv, StringsTyped, StringsAnswer
  <2>2. QED
    BY <2>1, NumberIsRight, PrintIsRight, NumberAssumption, PrintAssumption
       DEF LibraryInv, CallsAnswer
<1>4. QED
  BY <1>1, <1>2, <1>3, PTL DEF LibrarySpec
===============================================================================
