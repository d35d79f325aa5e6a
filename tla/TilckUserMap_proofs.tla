------------------------ MODULE TilckUserMap_proofs ------------------------
(***************************************************************************)
(* Theorems about TilckUserMap: whatever is mapped and unmapped, the tree  *)
(* of the heap of addresses says exactly which pages the mappings use.     *)
(***************************************************************************)
EXTENDS TilckUserMap, NaturalsInduction, WellFoundedInduction, TLAPS

LEMMA Smallest ==
  ASSUME NEW S \in SUBSET Nat, S # {}
  PROVE  \E m \in S : \A j \in S : m <= j
<1>1. PICK m \in S : \A j \in S : ~(<<j, m>> \in OpToRel(<, Nat))
  BY NatLessThanWellFounded, WFMin
<1>2. \A j \in S : ~(j < m)
  BY <1>1, Zenon DEF OpToRel
<1>3. \A j \in S : m <= j
  BY <1>2
<1>. QED  BY <1>3

-----------------------------------------------------------------------------
(* Multiples                                                               *)

Times(s, x) == \E k \in Int : x = k * s

LEMMA Rest ==
  ASSUME NEW x \in Int, NEW s \in Nat \ {0}
  PROVE  x % s \in 0 .. s - 1 /\ x = (x \div s) * s + (x % s) /\ x \div s \in Int
OBVIOUS

LEMMA TimesRest ==
  ASSUME NEW x \in Int, NEW s \in Nat \ {0}
  PROVE  Times(s, x - (x % s))
<1>1. x - (x % s) = (x \div s) * s /\ x \div s \in Int
  BY Rest
<1>. QED  BY <1>1 DEF Times

LEMMA Quotient ==
  ASSUME NEW x \in Int, NEW s \in Nat \ {0}
  PROVE  \E q \in Int : x = q * s + (x % s)
<1>1. x \div s \in Int /\ x = (x \div s) * s + (x % s)
  BY Rest
<1>. QED  BY <1>1, Zenon

LEMMA ZeroOnly ==
  ASSUME NEW k \in Int, NEW q \in Int, NEW r \in Int, NEW s \in Nat,
         k * s = q * s + r, 0 <= r, r < s
  PROVE  r = 0
<1>1. r = (k - q) * s
  OBVIOUS
<1>2. ASSUME NEW j \in Int, r = j * s PROVE r = 0
  <2>1. CASE j >= 1
    <3>1. j * s >= s
      BY <2>1
    <3>. QED  BY <3>1, <1>2
  <2>2. CASE j <= -1
    <3>1. j * s <= -s
      BY <2>2
    <3>. QED  BY <3>1, <1>2
  <2>. QED  BY <2>1, <2>2, <1>2
<1>. QED  BY <1>1, <1>2, k - q \in Int

LEMMA TimesZero ==
  ASSUME NEW x \in Int, NEW s \in Nat \ {0}, Times(s, x)
  PROVE  x % s = 0
<1>1. PICK k \in Int : x = k * s
  BY DEF Times
<1>2. PICK q \in Int : x = q * s + (x % s)
  BY Quotient
<1>3. x % s \in Int /\ 0 <= x % s /\ x % s < s
  BY Rest
<1>4. k * s = q * s + (x % s)
  BY <1>1, <1>2, Zenon
<1>. QED  BY ONLY k \in Int, q \in Int, s \in Nat, <1>3, <1>4, ZeroOnly

LEMMA ZeroTimes ==
  ASSUME NEW x \in Int, NEW s \in Nat \ {0}, x % s = 0
  PROVE  Times(s, x)
BY TimesRest, x - 0 = x

LEMMA TimesSum ==
  ASSUME NEW x \in Int, NEW y \in Int, NEW s \in Nat, Times(s, x), Times(s, y)
  PROVE  Times(s, x + y) /\ Times(s, x - y)
<1>1. PICK k \in Int : x = k * s
  BY DEF Times
<1>2. PICK j \in Int : y = j * s
  BY DEF Times
<1>3. x + y = (k + j) * s /\ x - y = (k - j) * s
  BY <1>1, <1>2
<1>4. k + j \in Int /\ k - j \in Int
  OBVIOUS
<1>. QED  BY <1>3, <1>4 DEF Times

LEMMA TimesTimes ==
  ASSUME NEW x \in Int, NEW t \in Int, NEW s \in Int, Times(s, t), Times(t, x)
  PROVE  Times(s, x)
<1>1. PICK k \in Int : t = k * s
  BY DEF Times
<1>2. PICK j \in Int : x = j * t
  BY DEF Times
<1>3. x = (j * k) * s
  BY <1>1, <1>2
<1>4. j * k \in Int
  OBVIOUS
<1>. QED  BY <1>3, <1>4 DEF Times

LEMMA TimesApart ==
  ASSUME NEW x \in Int, NEW s \in Nat, Times(s, x), 0 < x
  PROVE  s <= x
<1>1. PICK k \in Int : x = k * s
  BY DEF Times
<1>2. k >= 1
  <2>1. SUFFICES ASSUME k <= 0 PROVE FALSE
    OBVIOUS
  <2>2. k * s <= 0
    BY <2>1
  <2>. QED  BY <2>2, <1>1
<1>3. k * s >= s
  BY <1>2
<1>. QED  BY <1>1, <1>3

LEMMA TimesSelf ==
  ASSUME NEW s \in Int
  PROVE  Times(s, s) /\ Times(s, 0) /\ Times(s, 2 * s)
<1>1. s = 1 * s /\ 0 = 0 * s
  OBVIOUS
<1>. QED  BY <1>1 DEF Times

-----------------------------------------------------------------------------
(* Sizes are powers of two                                                 *)

LEMMA SizeNat ==
  ASSUME NEW s \in Size
  PROVE  s \in Nat \ {0} /\ s \in Int /\ 1 <= s /\ s <= MaxSize /\ PowerOfTwo(s)
BY UserMapAssumption DEF Size

LEMMA OneSize == 1 \in Size /\ MaxSize \in Size /\ MinSize \in Size
<1>1. MaxSize \in Nat /\ MaxSize >= 1
  BY UserMapAssumption, SizeNat
<1>2. PowerOfTwo(1)
  BY DEF PowerOfTwo
<1>. QED  BY <1>1, <1>2, UserMapAssumption DEF Size

LEMMA Halves ==
  ASSUME NEW s \in Size, s # 1
  PROVE  \E h \in Size : s = 2 * h /\ h < s
<1>. DEFINE h == s \div 2
<1>1. s \in Nat \ {0} /\ s \in Int /\ s <= MaxSize /\ PowerOfTwo(s) /\ MaxSize \in Nat
  BY SizeNat, UserMapAssumption
<1>2. s % s = 0
  BY <1>1, TimesSelf, TimesZero
<1>3. s % 2 = 0
  BY <1>1, <1>2 DEF PowerOfTwo
<1>4. h \in Nat /\ s = 2 * h /\ h >= 1 /\ h < s
  BY <1>1, <1>3
<1>5. PowerOfTwo(h)
  <2>. SUFFICES ASSUME NEW d \in 1 .. h, h % d = 0 PROVE d = 1 \/ d % 2 = 0
    BY DEF PowerOfTwo
  <2>. HIDE DEF h
  <2>1. Times(d, h) /\ d \in Nat \ {0} /\ h \in Int
    BY <1>4, ZeroTimes
  <2>2. Times(d, h + h)
    BY <2>1, TimesSum
  <2>3. s % d = 0
    BY <2>1, <2>2, <1>4, TimesZero
  <2>. QED  BY <2>3, <1>1, <1>4 DEF PowerOfTwo
<1>6. h \in Size
  BY <1>1, <1>4, <1>5 DEF Size
<1>. QED  BY <1>4, <1>6

LEMMA Doubles ==
  ASSUME NEW s \in Size, NEW t \in Size, s < t
  PROVE  Times(2 * s, t)
<1>. DEFINE Bad == {n \in Size : \E u \in Size : n < u /\ ~Times(2 * n, u)}
<1>1. SUFFICES ASSUME Bad # {} PROVE FALSE
  OBVIOUS
<1>2. Bad \in SUBSET Nat
  BY SizeNat
<1>3. PICK n \in Bad : \A j \in Bad : n <= j
  BY <1>1, <1>2, Smallest
<1>4. n \in Size
  BY <1>3
<1>5. PICK u \in Size : n < u /\ ~Times(2 * n, u)
  BY <1>3
<1>6. \A j \in Size : j < n => ~(j \in Bad)
  BY <1>3, <1>4, SizeNat
<1>7. u # 1
  BY <1>4, <1>5, SizeNat
<1>8. PICK v \in Size : u = 2 * v
  BY <1>7, Halves
<1>9. CASE n = 1
  <2>1. Times(2, u)
    BY <1>8, SizeNat DEF Times
  <2>. QED  BY <2>1, <1>5, <1>9
<1>10. CASE n # 1
  <2>1. PICK h \in Size : n = 2 * h /\ h < n
    BY <1>4, <1>10, Halves
  <2>2. h < v /\ h \in Int /\ v \in Int
    BY <2>1, <1>8, <1>5, SizeNat
  <2>3. Times(2 * h, v)
    BY <2>1, <2>2, <1>6
  <2>4. PICK k \in Int : v = k * (2 * h)
    BY <2>3 DEF Times
  <2>5. u = k * (2 * n)
    BY <2>1, <2>2, <2>4, <1>8
  <2>. QED  BY <2>5, <1>5 DEF Times
<1>. QED  BY <1>9, <1>10

LEMMA Divides ==
  ASSUME NEW s \in Size, NEW t \in Size, s <= t
  PROVE  Times(s, t)
<1>1. s \in Int /\ t \in Int
  BY SizeNat
<1>2. CASE s = t
  BY <1>1, <1>2, TimesSelf
<1>3. CASE s < t
  <2>1. Times(2 * s, t) /\ Times(s, 2 * s)
    BY <1>1, <1>3, Doubles, TimesSelf
  <2>. QED  BY <2>1, <1>1, TimesTimes, 2 * s \in Int
<1>. QED  BY <1>1, <1>2, <1>3

LEMMA Twice ==
  ASSUME NEW s \in Size, NEW t \in Size, s < t
  PROVE  2 * s \in Size /\ 2 * s <= t
<1>. DEFINE Big == {u \in Size : s < u}
<1>1. Big \in SUBSET Nat /\ Big # {}
  BY SizeNat
<1>2. PICK u \in Big : \A j \in Big : u <= j
  BY <1>1, Smallest
<1>3. u \in Size /\ s < u /\ s \in Nat /\ u \in Nat /\ t \in Nat /\ s >= 1
  BY <1>2, SizeNat
<1>4. PICK h \in Size : u = 2 * h /\ h < u
  BY <1>3, Halves
<1>5. ~(s < h)
  BY <1>2, <1>3, <1>4, SizeNat
<1>6. Times(2 * s, u) /\ Times(2 * s, t)
  BY <1>3, Doubles
<1>7. 2 * s <= u /\ 2 * s <= t
  BY <1>6, <1>3, TimesApart, 2 * s \in Nat
<1>8. h = s
  BY <1>3, <1>4, <1>5, <1>7, SizeNat
<1>. QED  BY <1>3, <1>4, <1>7, <1>8

-----------------------------------------------------------------------------
(* Blocks                                                                  *)

\* A block begins at a multiple of its size.
Aligned(b) ==
  /\ b = [at |-> b.at, size |-> b.size]
  /\ b.at \in Nat /\ b.at \in Page /\ b.size \in Size
  /\ Times(b.size, b.at) /\ b.at + b.size <= MaxSize

LEMMA AroundIs ==
  ASSUME NEW p \in Page, NEW s \in Size
  PROVE  /\ Around(p, s) \in Block /\ Aligned(Around(p, s))
         /\ Around(p, s).size = s
         /\ Around(p, s).at <= p /\ p < Around(p, s).at + s
<1>. DEFINE a == p - (p % s)
<1>1. MaxSize \in Nat /\ s \in Nat \ {0} /\ p \in Int /\ 0 <= p /\ p < MaxSize
  BY SizeNat, UserMapAssumption DEF Page
<1>2. p % s \in 0 .. s - 1 /\ Times(s, a)
  BY <1>1, Rest, TimesRest
<1>3. a \in Int /\ a <= p /\ p < a + s
  BY <1>1, <1>2
<1>4. Around(p, s) = [at |-> a, size |-> s] /\ Around(p, s) \in Block
  BY DEF Around, Block
<1>. HIDE DEF a
<1>5. a >= 0
  <2>1. SUFFICES ASSUME a < 0 PROVE FALSE
    BY <1>3
  <2>2. Times(s, 0 - a)
    BY <1>1, <1>2, <1>3, TimesSum, TimesSelf
  <2>3. s <= 0 - a
    BY <1>1, <1>3, <2>1, <2>2, TimesApart
  <2>. QED  BY <1>1, <1>3, <2>1, <2>3
<1>6. a + s <= MaxSize
  <2>1. Times(s, MaxSize) /\ MaxSize \in Size
    BY <1>1, Divides, OneSize, SizeNat
  <2>2. Times(s, MaxSize - a) /\ 0 < MaxSize - a
    BY <1>1, <1>2, <1>3, <2>1, TimesSum
  <2>3. s <= MaxSize - a
    BY <1>1, <1>3, <2>2, TimesApart
  <2>. QED  BY <1>1, <1>3, <2>3
<1>7. a \in Page
  BY <1>1, <1>3, <1>5 DEF Page
<1>. QED  BY <1>1, <1>2, <1>3, <1>4, <1>5, <1>6, <1>7 DEF Aligned

LEMMA BlockIs ==
  ASSUME NEW b \in Block
  PROVE  /\ Aligned(b)
         /\ b.at \in Nat /\ b.at \in Page /\ b.size \in Size /\ b.size \in Nat \ {0}
         /\ b.at + b.size <= MaxSize
<1>1. PICK p \in Page, s \in Size : b = Around(p, s)
  BY DEF Block
<1>2. Aligned(b)
  BY <1>1, AroundIs
<1>. QED  BY <1>2, SizeNat DEF Aligned

LEMMA AroundOnly ==
  ASSUME NEW p \in Page, NEW s \in Size, NEW a \in Int, Times(s, a), a <= p, p < a + s
  PROVE  Around(p, s) = [at |-> a, size |-> s]
<1>. DEFINE b == Around(p, s)
<1>1. b = [at |-> b.at, size |-> s] /\ b.at \in Int /\ Times(s, b.at) /\ b.at <= p /\ p < b.at + s
  BY AroundIs DEF Aligned
<1>2. s \in Nat /\ p \in Int
  BY SizeNat DEF Page
<1>. HIDE DEF b
<1>3. Times(s, a - b.at) /\ Times(s, b.at - a)
  BY <1>1, <1>2, TimesSum
<1>4. ~(0 < a - b.at) /\ ~(0 < b.at - a)
  <2>1. 0 < a - b.at => s <= a - b.at
    BY <1>1, <1>2, <1>3, TimesApart
  <2>2. 0 < b.at - a => s <= b.at - a
    BY <1>1, <1>2, <1>3, TimesApart
  <2>. QED  BY <1>1, <1>2, <2>1, <2>2
<1>5. b.at = a
  BY <1>1, <1>4
<1>. QED  BY <1>1, <1>5 DEF b

LEMMA BlockMade ==
  ASSUME NEW s \in Size, NEW a \in Nat, Times(s, a), a < MaxSize
  PROVE  [at |-> a, size |-> s] \in Block
<1>1. a \in Page /\ a < a + s /\ a \in Int
  BY SizeNat, UserMapAssumption DEF Page
<1>2. Around(a, s) = [at |-> a, size |-> s]
  BY <1>1, AroundOnly
<1>. QED  BY <1>1, <1>2, AroundIs

LEMMA PagesIs ==
  ASSUME NEW b \in Block
  PROVE  /\ \A p : p \in Pages(b) <=> p \in Int /\ b.at <= p /\ p < b.at + b.size
         /\ Pages(b) \subseteq Page
         /\ b.at \in Pages(b)
         /\ \A p \in Page : p \in Int
<1>1. b.at \in Nat /\ b.size \in Nat \ {0} /\ b.at + b.size <= MaxSize /\ MaxSize \in Nat
  BY BlockIs, UserMapAssumption
<1>. QED  BY <1>1 DEF Pages, Span, Page

\* Two blocks that have a page in common are one inside the other.
LEMMA Nested ==
  ASSUME NEW b \in Block, NEW c \in Block, b.size <= c.size,
         NEW p \in Pages(b), p \in Pages(c)
  PROVE  Inside(b, c)
<1>1. /\ b.at \in Nat /\ b.size \in Nat \ {0} /\ b.size \in Size
      /\ c.at \in Nat /\ c.size \in Nat \ {0} /\ c.size \in Size
      /\ Times(b.size, b.at) /\ Times(c.size, c.at)
  BY BlockIs DEF Aligned
<1>2. p \in Int /\ b.at <= p /\ p < b.at + b.size /\ c.at <= p /\ p < c.at + c.size
  BY PagesIs
<1>3. Times(b.size, c.size)
  BY <1>1, Divides
<1>4. Times(b.size, c.at)
  BY <1>1, <1>3, TimesTimes
<1>5. Times(b.size, c.at - b.at) /\ Times(b.size, (c.at + c.size) - b.at)
  <2>1. b.size \in Nat /\ b.at \in Int /\ c.at \in Int /\ c.size \in Int /\ c.at + c.size \in Int
    BY <1>1
  <2>2. Times(b.size, c.at - b.at)
    BY <1>1, <1>4, <2>1, TimesSum
  <2>3. Times(b.size, c.at + c.size)
    BY <1>3, <1>4, <2>1, TimesSum
  <2>. QED  BY <1>1, <2>1, <2>2, <2>3, TimesSum
<1>6. c.at <= b.at
  <2>1. 0 < c.at - b.at => b.size <= c.at - b.at
    BY <1>1, <1>5, TimesApart
  <2>. QED  BY <1>1, <1>2, <2>1
<1>7. b.size <= (c.at + c.size) - b.at
  BY <1>1, <1>2, <1>5, TimesApart
<1>. QED  BY <1>1, <1>6, <1>7 DEF Inside

LEMMA InsidePages ==
  ASSUME NEW b \in Block, NEW c \in Block
  PROVE  /\ Inside(b, c) <=> Pages(b) \subseteq Pages(c)
         /\ Inside(b, c) => b.size <= c.size
         /\ Inside(b, c) /\ b.size = c.size => b = c
<1>1. /\ b.at \in Nat /\ b.size \in Nat \ {0} /\ c.at \in Nat /\ c.size \in Nat \ {0}
      /\ b = [at |-> b.at, size |-> b.size] /\ c = [at |-> c.at, size |-> c.size]
  BY BlockIs DEF Aligned
<1>2. Inside(b, c) => Pages(b) \subseteq Pages(c)
  BY <1>1, PagesIs DEF Inside
<1>3. Pages(b) \subseteq Pages(c) => Inside(b, c)
  <2>1. b.at \in Pages(b) /\ b.at + b.size - 1 \in Pages(b)
    BY <1>1, PagesIs
  <2>. QED  BY <1>1, <2>1, PagesIs DEF Inside
<1>4. Inside(b, c) => b.size <= c.size
  BY <1>1 DEF Inside
<1>5. Inside(b, c) /\ b.size = c.size => b.at = c.at
  BY <1>1 DEF Inside
<1>. QED  BY <1>1, <1>2, <1>3, <1>4, <1>5

LEMMA Laminar ==
  ASSUME NEW b \in Block, NEW c \in Block, NEW p \in Pages(b), p \in Pages(c)
  PROVE  Pages(b) \subseteq Pages(c) \/ Pages(c) \subseteq Pages(b)
<1>1. b.size \in Nat /\ c.size \in Nat
  BY BlockIs
<1>. QED  BY <1>1, Nested, InsidePages

LEMMA SamePages ==
  ASSUME NEW b \in Block, NEW c \in Block, Pages(b) = Pages(c)
  PROVE  b = c
<1>1. b.size \in Nat /\ c.size \in Nat
  BY BlockIs
<1>. QED  BY <1>1, InsidePages

\* The ancestors of a block are the bigger ones around it.
LEMMA AboveIs ==
  ASSUME NEW b \in Block
  PROVE  /\ Above(b) \subseteq Block
         /\ \A c \in Block : c \in Above(b) <=> Pages(b) \subseteq Pages(c) /\ c # b
         /\ \A c \in Above(b) : b.size < c.size /\ Pages(b) \subseteq Pages(c)
<1>1. b.at \in Page /\ b.at \in Pages(b) /\ b.size \in Nat
  BY BlockIs, PagesIs
<1>2. Above(b) \subseteq Block
  BY <1>1, AroundIs DEF Above
<1>3. ASSUME NEW c \in Above(b) PROVE b.size < c.size /\ Pages(b) \subseteq Pages(c)
  <2>1. PICK s \in Size : s > b.size /\ c = Around(b.at, s)
    BY DEF Above
  <2>2. c \in Block /\ c.size = s /\ b.at \in Pages(c) /\ s \in Nat
    BY <1>1, <2>1, AroundIs, PagesIs, SizeNat
  <2>. QED  BY <1>1, <2>1, <2>2, Nested, InsidePages
<1>4. ASSUME NEW c \in Block, Pages(b) \subseteq Pages(c), c # b PROVE c \in Above(b)
  <2>1. Inside(b, c) /\ c.size # b.size /\ c.size \in Size /\ c.size > b.size
    BY <1>1, <1>4, InsidePages, BlockIs
  <2>2. b.at \in Pages(c) /\ c.at \in Int /\ Times(c.size, c.at) /\ c = [at |-> c.at, size |-> c.size]
    BY <1>1, <1>4, BlockIs DEF Aligned
  <2>3. Around(b.at, c.size) = c
    BY <1>1, <2>1, <2>2, AroundOnly, PagesIs
  <2>. QED  BY <2>1, <2>3 DEF Above
<1>. QED  BY <1>1, <1>2, <1>3, <1>4

-----------------------------------------------------------------------------
(* Siblings                                                                *)

\* A block and its sibling are the halves of the block above them.
LEMMA SiblingIs ==
  ASSUME NEW d \in Block, NEW t \in Size, d.size < t
  PROVE  /\ Sibling(d) \in Block /\ Sibling(d).size = d.size
         /\ 2 * d.size \in Size /\ Around(d.at, 2 * d.size) \in Block
         /\ Pages(Around(d.at, 2 * d.size)) = Pages(d) \cup Pages(Sibling(d))
         /\ Pages(d) \cap Pages(Sibling(d)) = {}
<1>. DEFINE a == d.at
<1>. DEFINE s == d.size
<1>1. /\ a \in Nat /\ a \in Page /\ s \in Size /\ s \in Nat \ {0} /\ s >= 1
      /\ Times(s, a) /\ a + s <= MaxSize /\ d = [at |-> a, size |-> s]
  BY BlockIs, SizeNat DEF Aligned
<1>2. 2 * s \in Size /\ 2 * s \in Nat \ {0} /\ 2 * s <= MaxSize /\ MaxSize \in Nat
  <2>1. 2 * s \in Size
    BY <1>1, Twice
  <2>. QED  BY <2>1, SizeNat, UserMapAssumption
<1>3. Times(2 * s, MaxSize) /\ Times(s, 2 * s)
  BY <1>1, <1>2, Divides, OneSize, TimesSelf
<1>. HIDE DEF a, s
<1>4. \A x \in Page, y \in Nat : Times(s, y) /\ y <= x /\ x < y + s => Around(x, s) = [at |-> y, size |-> s]
  BY <1>1, AroundOnly
<1>5. \A y \in Nat : Times(2 * s, y) /\ y <= a /\ a < y + 2 * s =>
        Around(a, 2 * s) = [at |-> y, size |-> 2 * s]
  BY <1>1, <1>2, AroundOnly
<1>6. CASE a % (2 * s) = 0
  <2>1. Times(2 * s, a)
    BY <1>1, <1>2, <1>6, ZeroTimes
  <2>2. a + 2 * s <= MaxSize
    <3>1. Times(2 * s, MaxSize - a) /\ 0 < MaxSize - a
      BY <1>1, <1>2, <1>3, <2>1, TimesSum
    <3>2. 2 * s <= MaxSize - a
      BY <1>1, <1>2, <3>1, TimesApart
    <3>. QED  BY <1>1, <1>2, <3>2
  <2>3. Times(s, a + s)
    BY <1>1, TimesSum, TimesSelf
  <2>4. a + s \in Page /\ a + s \in Nat
    BY <1>1, <1>2, <2>2 DEF Page
  <2>5. Around(a + s, s) = [at |-> a + s, size |-> s]
    BY <1>1, <1>4, <2>3, <2>4
  <2>6. Sibling(d) = [at |-> a + s, size |-> s]
    BY <1>6, <2>5 DEF Sibling, a, s
  <2>7. Around(a, 2 * s) = [at |-> a, size |-> 2 * s]
    BY <1>1, <1>5, <2>1
  <2>8. Sibling(d) \in Block /\ Around(a, 2 * s) \in Block
    BY <1>1, <1>2, <2>4, <2>5, <2>6, AroundIs
  <2>9. /\ Pages(Around(a, 2 * s)) = Pages(d) \cup Pages(Sibling(d))
        /\ Pages(d) \cap Pages(Sibling(d)) = {}
    BY <1>1, <2>6, <2>7 DEF Pages, Span
  <2>. QED  BY <1>2, <2>6, <2>8, <2>9 DEF a, s
<1>7. CASE a % (2 * s) # 0
  <2>1. PICK k \in Int : a = k * s
    BY <1>1 DEF Times
  <2>2. PICK j \in Int : k = 2 * j \/ k = 2 * j + 1
    <3>1. k \div 2 \in Int /\ (k = 2 * (k \div 2) \/ k = 2 * (k \div 2) + 1)
      BY <2>1
    <3>. QED  BY <3>1, Zenon
  <2>3. k # 2 * j
    <3>1. SUFFICES ASSUME k = 2 * j PROVE FALSE
      OBVIOUS
    <3>2. a = j * (2 * s)
      BY <1>1, <2>1, <3>1
    <3>3. Times(2 * s, a)
      BY <3>2 DEF Times
    <3>. QED  BY <1>1, <1>2, <1>7, <3>3, TimesZero
  <2>4. a - s = j * (2 * s)
    BY <1>1, <2>1, <2>2, <2>3
  <2>5. Times(2 * s, a - s)
    BY <2>4 DEF Times
  <2>6. s <= a
    <3>1. a # 0
      BY <1>2, <1>7, TimesSelf, TimesZero
    <3>. QED  BY <1>1, <3>1, TimesApart
  <2>7. a - s \in Nat /\ a - s \in Page /\ Times(s, a - s)
    BY <1>1, <1>2, <2>6, TimesSum, TimesSelf DEF Page
  <2>8. Around(a - s, s) = [at |-> a - s, size |-> s]
    BY <1>1, <1>4, <2>7
  <2>9. Sibling(d) = [at |-> a - s, size |-> s]
    BY <1>7, <2>8 DEF Sibling, a, s
  <2>10. Around(a, 2 * s) = [at |-> a - s, size |-> 2 * s]
    BY <1>1, <1>5, <2>5, <2>7
  <2>11. Sibling(d) \in Block /\ Around(a, 2 * s) \in Block
    BY <1>1, <1>2, <2>7, <2>8, <2>9, AroundIs
  <2>12. /\ Pages(Around(a, 2 * s)) = Pages(d) \cup Pages(Sibling(d))
         /\ Pages(d) \cap Pages(Sibling(d)) = {}
    BY <1>1, <2>7, <2>9, <2>10 DEF Pages, Span
  <2>. QED  BY <1>2, <2>9, <2>11, <2>12 DEF a, s
<1>. QED  BY <1>6, <1>7

\* The pages of an ancestor of b are those of b and of the siblings on the way.
LEMMA AlongPath ==
  ASSUME NEW b \in Block, NEW c \in Above(b)
  PROVE  /\ Path(b, c) \subseteq Block
         /\ \A d \in Path(b, c) :
              /\ Sibling(d) \in Block /\ Pages(Sibling(d)) \subseteq Pages(c)
              /\ Pages(Sibling(d)) \cap Pages(b) = {} /\ Pages(b) \subseteq Pages(d)
              /\ Pages(d) \subseteq Pages(c)
         /\ \A p \in Pages(c) \ Pages(b) : \E d \in Path(b, c) : p \in Pages(Sibling(d))
<1>1. /\ c \in Block /\ b.size < c.size /\ Pages(b) \subseteq Pages(c)
      /\ c.size \in Size /\ c.size \in Nat /\ b.size \in Size /\ b.size \in Nat
      /\ b.at \in Pages(b) /\ b.at \in Page
  BY AboveIs, BlockIs, PagesIs
<1>2. ASSUME NEW d \in Path(b, c)
      PROVE  d \in Block /\ Pages(b) \subseteq Pages(d) /\ d.size < c.size
  BY <1>1, AboveIs DEF Path
<1>3. ASSUME NEW d \in Path(b, c)
      PROVE  /\ Sibling(d) \in Block /\ Pages(Sibling(d)) \subseteq Pages(c)
             /\ Pages(Sibling(d)) \cap Pages(b) = {} /\ Pages(d) \subseteq Pages(c)
  <2>. DEFINE e == Around(d.at, 2 * d.size)
  <2>1. d \in Block /\ Pages(b) \subseteq Pages(d) /\ d.size < c.size /\ d.size \in Size
    BY <1>2, BlockIs
  <2>2. /\ Sibling(d) \in Block /\ e \in Block /\ 2 * d.size \in Size
        /\ Pages(e) = Pages(d) \cup Pages(Sibling(d))
        /\ Pages(d) \cap Pages(Sibling(d)) = {}
    BY <1>1, <2>1, SiblingIs
  <2>3. e.size = 2 * d.size /\ 2 * d.size <= c.size
    BY <1>1, <2>1, AroundIs, BlockIs, Twice
  <2>. HIDE DEF e
  <2>4. b.at \in Pages(e) /\ b.at \in Pages(c)
    BY <1>1, <2>1, <2>2
  <2>5. Pages(e) \subseteq Pages(c)
    BY <1>1, <2>2, <2>3, <2>4, Nested, InsidePages
  <2>. QED  BY <2>1, <2>2, <2>5
<1>4. ASSUME NEW p \in Pages(c) \ Pages(b)
      PROVE  \E d \in Path(b, c) : p \in Pages(Sibling(d))
  <2>. DEFINE S == {s \in Size : s <= c.size /\ p \in Pages(Around(b.at, s))}
  <2>1. Around(b.at, c.size) = c /\ Around(b.at, b.size) = b
    BY <1>1, AroundOnly, BlockIs, PagesIs DEF Aligned
  <2>2. c.size \in S /\ S \in SUBSET Nat
    BY <1>1, <2>1, SizeNat
  <2>3. PICK t \in S : \A j \in S : t <= j
    BY <2>2, Smallest
  <2>4. /\ t \in Size /\ t <= c.size /\ p \in Pages(Around(b.at, t)) /\ t \in Nat \ {0}
        /\ \A j \in Size : j < t => ~(j <= c.size /\ p \in Pages(Around(b.at, j)))
    <3>1. t \in Size /\ t <= c.size /\ p \in Pages(Around(b.at, t)) /\ t \in Nat \ {0}
      BY <2>3, SizeNat
    <3>2. ASSUME NEW j \in Size, j < t, j <= c.size, p \in Pages(Around(b.at, j)) PROVE FALSE
      BY <2>3, <3>1, <3>2, SizeNat
    <3>. QED  BY <3>1, <3>2
  <2>. HIDE DEF S
  <2>5. b.size < t
    <3>1. SUFFICES ASSUME t <= b.size PROVE FALSE
      BY <1>1, <2>4
    <3>2. Around(b.at, t) \in Block /\ Around(b.at, t).size = t /\ b.at \in Pages(Around(b.at, t))
      BY <1>1, <2>4, AroundIs, PagesIs
    <3>3. Pages(Around(b.at, t)) \subseteq Pages(b)
      BY <1>1, <3>1, <3>2, Nested, InsidePages
    <3>. QED  BY <2>4, <3>3
  <2>6. PICK h \in Size : t = 2 * h /\ h < t
    BY <1>1, <2>4, <2>5, Halves, SizeNat
  <2>7. h \in Nat /\ b.size <= h /\ h < c.size
    <3>1. h \in Nat /\ 2 * b.size <= t
      BY <1>1, <2>4, <2>5, Twice, SizeNat
    <3>. QED  BY <1>1, <2>4, <2>6, <3>1
  <2>. DEFINE d == Around(b.at, h)
  <2>8. /\ d \in Block /\ d.size = h /\ Aligned(d) /\ b.at \in Pages(d)
        /\ d.at \in Page /\ d.at \in Nat
    BY <1>1, AroundIs, PagesIs, BlockIs
  <2>9. p \notin Pages(d)
    BY <1>1, <2>4, <2>6, <2>7
  <2>10. d \in Path(b, c)
    <3>1. CASE h = b.size
      BY <1>1, <2>1, <3>1 DEF Path
    <3>2. CASE h # b.size
      BY <1>1, <2>7, <2>8, <3>2 DEF Path, Above
    <3>. QED  BY <3>1, <3>2
  <2>. HIDE DEF d
  <2>11. /\ Pages(Around(d.at, 2 * h)) = Pages(d) \cup Pages(Sibling(d))
         /\ Around(d.at, 2 * h) \in Block /\ Around(d.at, 2 * h).size = t
    BY <1>1, <2>4, <2>6, <2>8, SiblingIs, AroundIs
  <2>12. Around(d.at, 2 * h) = Around(b.at, t)
    <3>1. Around(b.at, t) \in Block /\ Around(b.at, t).size = t /\ b.at \in Pages(Around(b.at, t))
      BY <1>1, <2>4, AroundIs, PagesIs
    <3>2. b.at \in Pages(Around(d.at, 2 * h))
      BY <2>8, <2>11
    <3>. QED  BY <2>4, <2>11, <3>1, <3>2, Nested, InsidePages
  <2>13. p \in Pages(Sibling(d))
    BY <2>4, <2>9, <2>11, <2>12
  <2>. QED  BY <2>10, <2>13
<1>. QED  BY <1>2, <1>3, <1>4

\* A block beside b below one of its ancestors lies in a sibling on the way.
LEMMA BesidePath ==
  ASSUME NEW b \in Block, NEW c \in Above(b), NEW e \in Block,
         Pages(e) \subseteq Pages(c), Pages(e) \cap Pages(b) = {}
  PROVE  \E d \in Path(b, c) : Sibling(d) \in Block /\ Pages(e) \subseteq Pages(Sibling(d))
<1>1. e.at \in Pages(e) /\ Pages(b) # {} /\ c \in Block /\ c.size \in Size
  BY PagesIs, AboveIs, BlockIs
<1>2. e.at \in Pages(c) \ Pages(b)
  BY <1>1
<1>3. PICK d \in Path(b, c) : e.at \in Pages(Sibling(d))
  BY <1>2, AlongPath
<1>4. /\ d \in Block /\ d.size < c.size /\ Sibling(d) \in Block
      /\ Pages(b) \subseteq Pages(d)
  BY <1>3, AlongPath DEF Path
<1>5. /\ Sibling(d).size = d.size /\ 2 * d.size \in Size
      /\ Around(d.at, 2 * d.size) \in Block
      /\ Pages(Around(d.at, 2 * d.size)) = Pages(d) \cup Pages(Sibling(d))
  BY <1>1, <1>4, SiblingIs
<1>. DEFINE u == Around(d.at, 2 * d.size)
<1>6. u.size = 2 * d.size
  BY <1>4, <1>5, AroundIs, BlockIs
<1>7. ASSUME ~(Pages(e) \subseteq Pages(Sibling(d))) PROVE FALSE
  <2>1. Pages(Sibling(d)) \subseteq Pages(e)
    BY <1>1, <1>3, <1>4, <1>7, Laminar
  <2>2. d.size < e.size
    <3>1. d.size <= e.size /\ (d.size = e.size => Sibling(d) = e)
      BY <1>4, <1>5, <2>1, InsidePages
    <3>2. d.size \in Nat /\ e.size \in Nat
      BY <1>4, BlockIs
    <3>. QED  BY <1>7, <3>1, <3>2
  <2>3. 2 * d.size <= e.size
    BY <1>4, <2>2, Twice, BlockIs
  <2>. HIDE DEF u
  <2>4. e.at \in Pages(u) /\ u \in Block /\ u.size <= e.size /\ Pages(d) \subseteq Pages(u)
    BY <1>3, <1>5, <1>6, <2>3 DEF u
  <2>5. Pages(u) \subseteq Pages(e)
    BY <1>1, <2>4, Nested, InsidePages
  <2>. QED  BY <1>1, <1>4, <2>4, <2>5
<1>. QED  BY <1>4, <1>7

-----------------------------------------------------------------------------
(* The tree of a heap in which the pages of U are mapped, those of T taken  *)
(* and those of L lost                                                     *)

Area == [size: Size, full: SUBSET Block, split: SUBSET Block, allocated: SUBSET Page,
         pages: [Page -> Content \cup {Nothing}]]

Tree(a) == Under(Root(a))

\* What is below a full node is full, what is above a split one split.
Closed(a) ==
  /\ a.full \subseteq Tree(a) /\ a.split \subseteq Tree(a)
  /\ \A c \in a.full : Under(c) \subseteq a.full
  /\ \A c \in a.split : Above(c) \cap Tree(a) \subseteq a.split

Fulls(a, U, T, L) ==
  /\ a \in Area /\ Closed(a)
  /\ U \subseteq T /\ T \cap L = {} /\ T \cup L \subseteq Pages(Root(a))
  /\ \A c \in Tree(a) : Pages(c) \subseteq U => c \in a.full
  /\ \A c \in a.full : Pages(c) \subseteq T \cup L /\ (c.size > 1 => Pages(c) \cap T # {})
  /\ \A p \in T \cup L : Leaf(p) \in a.full
  /\ \A p \in L : p \notin a.allocated /\ a.pages[p] = Nothing
  /\ \A c \in Tree(a) : c.size > 1 /\ Pages(c) \cap T # {} => c \in a.split

\* Nothing else is split.
Shows(a, U, T, L) ==
  /\ Fulls(a, U, T, L)
  /\ \A c \in a.split : c.size > 1 /\ Pages(c) \cap (T \cup L) # {}

LEMMA UnderIs ==
  ASSUME NEW b \in Block
  PROVE  \A c : c \in Under(b) <=> c \in Block /\ Pages(c) \subseteq Pages(b)
BY InsidePages DEF Under

LEMMA RootIs ==
  ASSUME NEW a, a.size \in Size
  PROVE  Root(a) \in Block /\ Root(a).size = a.size /\ Pages(Root(a)) = Span(0, a.size)
<1>1. a.size \in Nat \ {0} /\ MaxSize \in Nat \ {0} /\ 0 \in Nat /\ Times(a.size, 0)
  BY SizeNat, OneSize, TimesSelf
<1>2. Root(a) \in Block
  BY <1>1, BlockMade DEF Root
<1>. QED  BY <1>2 DEF Root, Pages

LEMMA TreeIs ==
  ASSUME NEW a, a.size \in Size
  PROVE  /\ \A c : c \in Tree(a) <=> c \in Block /\ Pages(c) \subseteq Pages(Root(a))
         /\ \A c \in Tree(a), d \in Block : Pages(d) \subseteq Pages(c) => d \in Tree(a)
         /\ Root(a) \in Tree(a)
BY RootIs, UnderIs DEF Tree

LEMMA LeafIs ==
  /\ \A p \in Page : Leaf(p) \in Block /\ Pages(Leaf(p)) = {p}
  /\ \A b \in Block : b.size = 1 => Pages(b) = {b.at} /\ b = Leaf(b.at)
  /\ \A b \in Block : b.size # 1 => b.size > 1
<1>1. ASSUME NEW p \in Page PROVE Leaf(p) \in Block /\ Pages(Leaf(p)) = {p}
  <2>1. p \in Nat /\ p < MaxSize /\ 1 \in Size /\ p = p * 1
    BY OneSize, UserMapAssumption DEF Page
  <2>2. Leaf(p) \in Block
    BY <2>1, BlockMade DEF Leaf, Times
  <2>. QED  BY <2>1, <2>2 DEF Leaf, Pages, Span
<1>2. ASSUME NEW b \in Block, b.size = 1 PROVE Pages(b) = {b.at} /\ b = Leaf(b.at)
  <2>1. b = [at |-> b.at, size |-> b.size] /\ b.at \in Nat
    BY BlockIs DEF Aligned
  <2>. QED  BY <1>2, <2>1 DEF Leaf, Pages, Span
<1>3. ASSUME NEW b \in Block, b.size # 1 PROVE b.size > 1
  BY <1>3, BlockIs
<1>. QED  BY <1>1, <1>2, <1>3

\* A block is empty or it has a page.
LEMMA HasPage ==
  ASSUME NEW b \in Block
  PROVE  b.at \in Pages(b) /\ Pages(b) # {} /\ Pages(b) \subseteq Page
BY PagesIs



-----------------------------------------------------------------------------
(* kfree                                                                   *)

Cut(a, b, allow_split)  == IF allow_split /\ b \in a.split THEN Under(b) ELSE {}
Own(a, b, allow_split) ==
  [a EXCEPT !.full = @ \ (Cut(a, b, allow_split) \cup {b}), !.split = @ \ Cut(a, b, allow_split)]
Gone(a, b, actual) == IF actual THEN Pages(b) \cap a.allocated ELSE {}

\* What a free does to the memory of a range.
Without(a, R, actual) ==
  [allocated |-> IF actual THEN a.allocated \ R ELSE a.allocated,
   pages     |-> [p \in Page |-> IF actual /\ p \in R \cap a.allocated THEN Nothing ELSE a.pages[p]]]
Frames(a) == [allocated |-> a.allocated, pages |-> a.pages]

LEMMA FreeFields ==
  ASSUME NEW a \in Area, NEW b \in Block, NEW allow_split \in BOOLEAN, NEW actual
  PROVE  LET x   == FreeBlock(a, b, allow_split, actual)
             own == Own(a, b, allow_split)
         IN  /\ x \in Area /\ x.size = a.size
             /\ own.size = a.size
             /\ own.full = a.full \ (Cut(a, b, allow_split) \cup {b})
             /\ own.split = a.split \ Cut(a, b, allow_split)
             /\ x.full = own.full \ (Above(b) \cup Leaves(Gone(a, b, actual)))
             /\ x.split = own.split \ Joined(own, b)
             /\ Frames(x) = Without(a, Pages(b), actual)
<1>. DEFINE own == Own(a, b, allow_split)
<1>. DEFINE cut == Cut(a, b, allow_split)
<1>. DEFINE gone == Gone(a, b, actual)
<1>0. /\ a.size \in Size /\ a.full \subseteq Block /\ a.split \subseteq Block /\ a.allocated \subseteq Page
      /\ a.pages \in [Page -> Content \cup {Nothing}]
  BY DEF Area
<1>1. /\ own.size = a.size /\ own.full = a.full \ (cut \cup {b}) /\ own.split = a.split \ cut
      /\ own.allocated = a.allocated /\ own.pages = a.pages
  BY DEF Own, Area
<1>2. own \in Area
  BY <1>0, <1>1 DEF Own, Area
<1>. DEFINE x == [own EXCEPT
                    !.full = @ \ (Above(b) \cup Leaves(gone)),
                    !.split = @ \ Joined(own, b),
                    !.allocated = @ \ gone,
                    !.pages = [p \in Page |-> IF p \in gone THEN Nothing ELSE @[p]]]
<1>3. FreeBlock(a, b, allow_split, actual) = x
  BY DEF FreeBlock, Own, Cut, Gone
<1>5. /\ x.size = own.size /\ x.full = own.full \ (Above(b) \cup Leaves(gone))
      /\ x.split = own.split \ Joined(own, b)
      /\ x.allocated = own.allocated \ gone
      /\ x.pages = [p \in Page |-> IF p \in gone THEN Nothing ELSE own.pages[p]]
      /\ x \in Area
  <2>. DEFINE F == Above(b) \cup Leaves(gone)
  <2>. DEFINE J == Joined(own, b)
  <2>. HIDE DEF own, gone, F, J
  <2>1. /\ x.size = own.size /\ x.full = own.full \ F /\ x.split = own.split \ J
        /\ x.allocated = own.allocated \ gone
        /\ x.pages = [p \in Page |-> IF p \in gone THEN Nothing ELSE own.pages[p]]
    BY <1>2 DEF Area, F, J
  <2>2. /\ own.size \in Size /\ own.full \subseteq Block /\ own.split \subseteq Block
        /\ own.allocated \subseteq Page /\ own.pages \in [Page -> Content \cup {Nothing}]
    BY <1>2 DEF Area
  <2>3. x.pages \in [Page -> Content \cup {Nothing}]
    BY <2>1, <2>2
  <2>4. x \in Area
    BY <1>2, <2>1, <2>2, <2>3 DEF Area
  <2>. QED  BY <2>1, <2>4 DEF F, J
<1>. HIDE DEF own, x
<1>6. Frames(x) = Without(a, Pages(b), actual)
  BY <1>0, <1>1, <1>5 DEF Frames, Without, Gone
<1>. QED  BY <1>1, <1>3, <1>5, <1>6 DEF own


LEMMA FullsIs ==
  ASSUME NEW a, NEW U, NEW T, NEW L, Fulls(a, U, T, L)
  PROVE  /\ a \in Area /\ a.size \in Size /\ Root(a) \in Block
         /\ a.full \subseteq Tree(a) /\ a.split \subseteq Tree(a)
         /\ \A c \in Tree(a) : c \in Block /\ Pages(c) \subseteq Pages(Root(a))
         /\ U \subseteq T /\ T \cap L = {} /\ T \cup L \subseteq Page
BY TreeIs, RootIs, HasPage DEF Fulls, Closed, Area

\* A block that has a taken page is full or split.
LEMMA BusyIs ==
  ASSUME NEW a, NEW U, NEW T, NEW L, Fulls(a, U, T, L), NEW c \in Tree(a),
         Pages(c) \cap T # {}
  PROVE  c \in Busy(a)
<1>1. c \in Block
  BY FullsIs
<1>2. CASE c.size = 1
  <2>1. Pages(c) = {c.at} /\ c = Leaf(c.at)
    BY <1>1, <1>2, LeafIs
  <2>. QED  BY <2>1 DEF Fulls, Busy
<1>3. CASE c.size # 1
  <2>1. c.size > 1
    BY <1>1, <1>3, LeafIs
  <2>. QED  BY <2>1 DEF Fulls, Busy
<1>. QED  BY <1>2, <1>3

\* Conversely.
LEMMA BusyOnly ==
  ASSUME NEW a, NEW U, NEW T, NEW L, Shows(a, U, T, L), NEW c \in Busy(a)
  PROVE  Pages(c) \cap (T \cup L) # {}
<1>1. Fulls(a, U, T, L)
  BY DEF Shows
<1>2. c \in Block
  BY <1>1, FullsIs DEF Busy
<1>3. CASE c \in a.full
  BY <1>1, <1>2, <1>3, HasPage DEF Fulls
<1>4. CASE c \in a.split
  BY <1>4 DEF Shows
<1>. QED  BY <1>3, <1>4 DEF Busy

\* The ancestors of b that set_free_uplevels joins: those in which nothing of T
\* is left, at least if nothing of W is.
Joins(own, b, T, W) ==
  /\ own \in Area /\ b \in Tree(own) /\ own.split \subseteq Tree(own)
  /\ own.split \cap Under(b) = {} /\ W \cap Pages(b) = {}
  /\ \A c \in own.split : Above(c) \cap Tree(own) \subseteq own.split
  /\ Above(b) \cap Tree(own) \subseteq own.split
  /\ \A c \in Tree(own) : Pages(c) \cap Pages(b) = {} /\ Pages(c) \cap T # {} => c \in Busy(own)
  /\ \A c \in Busy(own) : Pages(c) \cap Pages(b) = {} => Pages(c) \cap W # {}
  /\ \A c \in Tree(own) : c.size > 1 /\ Pages(c) \cap (T \ Pages(b)) # {} => c \in own.split
  /\ \A c \in own.split : c.size > 1 /\ (Pages(c) \cap W # {} \/ c \in Above(b))

LEMMA JoinsIs ==
  ASSUME NEW own, NEW b, NEW T, NEW W, Joins(own, b, T, W)
  PROVE  /\ own.size \in Size /\ b \in Block /\ Root(own) \in Block
         /\ \A c \in Tree(own) : c \in Block /\ Pages(c) \subseteq Pages(Root(own))
         /\ \A c \in Tree(own), d \in Block : Pages(d) \subseteq Pages(c) => d \in Tree(own)
BY TreeIs, RootIs DEF Joins, Area

LEMMA JoinedIs ==
  ASSUME NEW own, NEW b, NEW T, NEW W, Joins(own, b, T, W), NEW c \in Tree(own), c \in Above(b)
  PROVE  /\ c \in Joined(own, b) => Pages(c) \cap T \subseteq Pages(b)
         /\ Pages(c) \cap W = {} => c \in Joined(own, b)
<1>1. own.size \in Size /\ b \in Block /\ c \in Block /\ Root(own) \in Block
  BY JoinsIs
<1>2. ASSUME NEW d \in Path(b, c)
      PROVE  /\ Sibling(d) \in Tree(own) /\ Pages(Sibling(d)) \subseteq Pages(c)
             /\ Pages(Sibling(d)) \cap Pages(b) = {}
  BY <1>1, <1>2, AlongPath, JoinsIs
<1>3. ASSUME c \in Joined(own, b), NEW p \in Pages(c) \cap T, p \notin Pages(b) PROVE FALSE
  <2>1. PICK d \in Path(b, c) : p \in Pages(Sibling(d))
    BY <1>1, <1>3, AlongPath
  <2>2. Sibling(d) \in Busy(own)
    BY <1>2, <1>3, <2>1 DEF Joins
  <2>. QED  BY <1>3, <2>2 DEF Joined
<1>4. ASSUME Pages(c) \cap W = {} PROVE c \in Joined(own, b)
  <2>1. ASSUME NEW d \in Path(b, c) PROVE Sibling(d) \notin Busy(own)
    <3>1. Pages(Sibling(d)) \cap W = {}
      BY <1>2, <1>4
    <3>. QED  BY <1>2, <3>1 DEF Joins
  <2>2. ASSUME NEW d \in (Path(b, c) \cup {c}) \ {b} PROVE d \in Busy(own)
    <3>1. d \in Block /\ Pages(d) \subseteq Pages(c) /\ Pages(b) \subseteq Pages(d)
      BY <1>1, AlongPath, AboveIs
    <3>2. d \in Tree(own) /\ d \in Above(b)
      BY <1>1, <3>1, JoinsIs, AboveIs
    <3>. QED  BY <3>2 DEF Joins, Busy
  <2>3. c \in UpTo(b, Root(own))
    <3>1. Inside(c, Root(own))
      BY <1>1, JoinsIs, InsidePages
    <3>. QED  BY <1>1, <3>1, InsidePages DEF UpTo
  <2>. QED  BY <2>1, <2>2, <2>3 DEF Joined
<1>. QED  BY <1>3, <1>4

LEMMA JoinedClosed ==
  ASSUME NEW own, NEW b, NEW T, NEW W, Joins(own, b, T, W),
         NEW c \in own.split, c \notin Joined(own, b), NEW e \in Above(c), e \in Tree(own)
  PROVE  e \notin Joined(own, b)
<1>1. /\ own.size \in Size /\ b \in Block /\ c \in Block /\ e \in Block
      /\ c \in Tree(own) /\ Pages(c) \subseteq Pages(e) /\ c.size < e.size
  <2>1. c \in Tree(own)
    BY DEF Joins
  <2>2. c \in Block
    BY <2>1, JoinsIs
  <2>. QED  BY <2>1, <2>2, JoinsIs, AboveIs
<1>2. SUFFICES ASSUME e \in Joined(own, b) PROVE FALSE
  OBVIOUS
<1>3. /\ e \in Above(b) /\ e.size <= Root(own).size
      /\ \A d \in Path(b, e) : Sibling(d) \notin Busy(own)
      /\ \A d \in (Path(b, e) \cup {e}) \ {b} : d \in Busy(own)
  BY <1>2 DEF Joined, UpTo
<1>4. c \notin Under(b)
  BY DEF Joins
<1>5. CASE Pages(c) \cap Pages(b) = {}
  <2>1. PICK d \in Path(b, e) : Sibling(d) \in Block /\ Pages(c) \subseteq Pages(Sibling(d))
    BY <1>1, <1>3, <1>5, BesidePath
  <2>2. Sibling(d) \in Tree(own)
    BY <1>1, <1>3, <2>1, AlongPath, JoinsIs
  <2>3. Sibling(d) \in own.split
    BY <1>1, <2>1, <2>2, AboveIs DEF Joins
  <2>. QED  BY <1>3, <2>3 DEF Busy
<1>6. CASE Pages(c) \cap Pages(b) # {}
  <2>1. Pages(b) \subseteq Pages(c) /\ c # b
    BY <1>1, <1>4, <1>6, Laminar, UnderIs
  <2>2. c \in Above(b)
    BY <1>1, <2>1, AboveIs
  <2>3. c.size \in Nat /\ e.size \in Nat /\ Root(own).size \in Nat
    BY <1>1, JoinsIs, BlockIs
  <2>4. Path(b, c) \cup {c} \subseteq Path(b, e)
    <3>1. ASSUME NEW d \in Path(b, c) PROVE d \in Path(b, e)
      <4>1. d \in Block
        BY <1>1, <2>2, AlongPath
      <4>2. d.size \in Nat
        BY <4>1, BlockIs
      <4>. QED  BY <1>1, <2>3, <4>2 DEF Path
    <3>2. c \in Path(b, e)
      BY <1>1, <2>2 DEF Path
    <3>. QED  BY <3>1, <3>2
  <2>5. c \in UpTo(b, Root(own))
    BY <1>1, <1>3, <2>2, <2>3 DEF UpTo
  <2>6. c \in Joined(own, b)
    BY <1>3, <2>4, <2>5 DEF Joined
  <2>. QED  BY <2>6
<1>. QED  BY <1>5, <1>6

\* What stays split.
LEMMA JoinedSplit ==
  ASSUME NEW own, NEW b, NEW T, NEW W, Joins(own, b, T, W)
  PROVE  LET s == own.split \ Joined(own, b)
         IN  /\ s \subseteq Tree(own)
             /\ \A c \in s : Above(c) \cap Tree(own) \subseteq s
             /\ \A c \in Tree(own) : c.size > 1 /\ Pages(c) \cap (T \ Pages(b)) # {} => c \in s
             /\ \A c \in s : c.size > 1 /\ Pages(c) \cap W # {}
<1>. DEFINE s == own.split \ Joined(own, b)
<1>1. s \subseteq Tree(own) /\ Joined(own, b) \subseteq Above(b)
  BY DEF Joins, Joined, UpTo
<1>2. ASSUME NEW c \in s, NEW e \in Above(c), e \in Tree(own) PROVE e \in s
  BY <1>2, JoinedClosed DEF Joins
<1>3. ASSUME NEW c \in Tree(own), c.size > 1, Pages(c) \cap (T \ Pages(b)) # {} PROVE c \in s
  <2>1. c \in own.split
    BY <1>3 DEF Joins
  <2>2. c \notin Joined(own, b)
    BY <1>1, <1>3, JoinedIs
  <2>. QED  BY <2>1, <2>2
<1>4. ASSUME NEW c \in s PROVE c.size > 1 /\ Pages(c) \cap W # {}
  <2>1. c.size > 1 /\ (Pages(c) \cap W # {} \/ c \in Above(b)) /\ c \in Tree(own)
    BY <1>4 DEF Joins
  <2>2. c \in Above(b) /\ Pages(c) \cap W = {} => c \in Joined(own, b)
    BY <2>1, JoinedIs
  <2>. QED  BY <1>4, <2>1, <2>2
<1>. QED  BY <1>1, <1>2, <1>3, <1>4

LEMMA FreeFull ==
  ASSUME NEW a, NEW U, NEW T, NEW L, Shows(a, U, T, L), NEW b \in Tree(a), Pages(b) \subseteq U,
         NEW actual, NEW c
  PROVE  c \in FreeBlock(a, b, TRUE, actual).full <=> c \in a.full /\ Pages(c) \cap Pages(b) = {}
<1>. DEFINE cut == Cut(a, b, TRUE)
<1>1. Fulls(a, U, T, L)
  BY DEF Shows
<1>2. a \in Area /\ b \in Block /\ a.full \subseteq Tree(a) /\ \A e \in Tree(a) : e \in Block
  BY <1>1, FullsIs
<1>3. c \in FreeBlock(a, b, TRUE, actual).full <=>
        /\ c \in a.full /\ c \notin cut /\ c # b /\ c \notin Above(b)
        /\ c \notin Leaves(Gone(a, b, actual))
  <2>1. PICK v \in BOOLEAN : v = TRUE
    OBVIOUS
  <2>2. FreeBlock(a, b, v, actual).full
          = (a.full \ (Cut(a, b, v) \cup {b})) \ (Above(b) \cup Leaves(Gone(a, b, actual)))
    BY <1>2, FreeFields
  <2>. QED  BY <2>1, <2>2
<1>4. cut \subseteq Under(b) /\ Gone(a, b, actual) \subseteq Pages(b)
  BY DEF Cut, Gone
<1>5. ASSUME c \in a.full, Pages(c) \cap Pages(b) = {}
      PROVE  c \notin cut /\ c # b /\ c \notin Above(b) /\ c \notin Leaves(Gone(a, b, actual))
  <2>1. Pages(c) # {} /\ Pages(b) # {} /\ c \in Block
    BY <1>2, <1>5, HasPage
  <2>2. c \notin Under(b) /\ c # b /\ c \notin Above(b)
    BY <1>2, <1>5, <2>1, UnderIs, AboveIs
  <2>3. ASSUME NEW p \in Gone(a, b, actual), c = Leaf(p) PROVE FALSE
    <3>1. p \in Page /\ p \in Pages(b)
      BY <1>2, <1>4, HasPage
    <3>. QED  BY <1>5, <2>3, <3>1, LeafIs
  <2>. HIDE DEF cut
  <2>. QED  BY <1>4, <2>2, <2>3 DEF Leaves
<1>6. ASSUME c \in a.full, c \notin cut, c # b, c \notin Above(b), NEW p \in Pages(c), p \in Pages(b)
      PROVE  FALSE
  <2>0. c \in Block
    BY <1>2, <1>6
  <2>1. Pages(c) \subseteq Pages(b)
    BY <1>2, <1>6, <2>0, Laminar, AboveIs
  <2>2. b \notin a.split
    BY <1>2, <1>6, <2>0, <2>1, UnderIs DEF Cut
  <2>3. ~(b.size > 1)
    BY <1>1, <1>6, <2>2 DEF Fulls
  <2>4. Pages(b) = {b.at}
    BY <1>2, <2>3, LeafIs
  <2>5. Pages(c) = Pages(b)
    BY <1>6, <2>1, <2>4
  <2>. QED  BY <1>2, <1>6, <2>0, <2>5, SamePages
<1>. QED  BY <1>3, <1>5, <1>6

LEMMA FreeJoins ==
  ASSUME NEW a, NEW U, NEW T, NEW L, Shows(a, U, T, L), NEW b \in Tree(a), Pages(b) \subseteq U
  PROVE  Joins(Own(a, b, TRUE), b, T, (T \ Pages(b)) \cup L)
<1>. DEFINE W == (T \ Pages(b)) \cup L
<1>1. /\ Fulls(a, U, T, L)
      /\ \A c \in a.split : c.size > 1 /\ Pages(c) \cap (T \cup L) # {}
  BY DEF Shows
<1>2. /\ a \in Area /\ a.size \in Size /\ b \in Block /\ a.split \subseteq Tree(a)
      /\ \A e \in Tree(a) : e \in Block
      /\ U \subseteq T /\ T \cap L = {} /\ Pages(b) # {}
  BY <1>1, FullsIs, HasPage
<1>3. PICK own : own = Own(a, b, TRUE)
  OBVIOUS
<1>4. own.size = a.size /\ Tree(own) = Tree(a)
  <2>1. PICK v \in BOOLEAN : v = TRUE
    OBVIOUS
  <2>2. Own(a, b, v).size = a.size
    BY <1>2, FreeFields
  <2>. QED  BY <1>3, <2>1, <2>2 DEF Tree, Root
<1>5. own.full = a.full \ (Cut(a, b, TRUE) \cup {b}) /\ own.split = a.split \ Cut(a, b, TRUE) /\ own \in Area
  BY <1>2, <1>3 DEF Own, Area
<1>6. b.size > 1 => b \in a.split
  BY <1>1, <1>2 DEF Fulls
<1>7. ASSUME NEW c \in a.split, Pages(c) \subseteq Pages(b) PROVE c \in Cut(a, b, TRUE)
  <2>1. c \in Block /\ c.size > 1
    BY <1>1, <1>2
  <2>2. b.size > 1
    <3>1. c.size <= b.size
      BY <1>2, <1>7, <2>1, InsidePages
    <3>. QED  BY <1>2, <2>1, <3>1, BlockIs
  <2>. QED  BY <1>2, <1>6, <1>7, <2>1, <2>2, UnderIs DEF Cut
<1>8. Cut(a, b, TRUE) \subseteq Under(b) /\ \A c \in Under(b) : Pages(c) \subseteq Pages(b) /\ c \in Block
  BY <1>2, UnderIs DEF Cut
<1>9. own.split \cap Under(b) = {}
  BY <1>5, <1>7, <1>8
<1>10. ASSUME NEW c \in own.split, NEW e \in Above(c), e \in Tree(own) PROVE e \in own.split
  <2>1. c \in a.split /\ c \in Block /\ e \in Block /\ Pages(c) \subseteq Pages(e)
    BY <1>2, <1>5, <1>10, AboveIs
  <2>2. e \in a.split
    BY <1>1, <1>4, <1>10, <2>1 DEF Fulls, Closed
  <2>3. e \notin Cut(a, b, TRUE)
    BY <1>5, <1>7, <1>8, <2>1
  <2>. QED  BY <1>5, <2>2, <2>3
<1>11. ASSUME NEW e \in Above(b), e \in Tree(own) PROVE e \in own.split
  <2>1. Pages(b) \subseteq Pages(e) /\ e # b /\ b.size < e.size /\ e \in Block
    BY <1>2, AboveIs
  <2>2. e.size > 1 /\ Pages(e) \cap T # {}
    BY <1>2, <2>1, BlockIs
  <2>3. e \in a.split
    BY <1>1, <1>4, <1>11, <2>2 DEF Fulls
  <2>4. e \notin Under(b)
    <3>1. SUFFICES ASSUME e \in Under(b) PROVE FALSE
      OBVIOUS
    <3>2. Pages(e) = Pages(b)
      BY <1>8, <2>1, <3>1
    <3>. QED  BY <1>2, <2>1, <3>2, SamePages
  <2>. QED  BY <1>5, <1>8, <2>3, <2>4
<1>12. ASSUME NEW c \in Tree(own), Pages(c) \cap Pages(b) = {}, Pages(c) \cap T # {}
       PROVE  c \in Busy(own)
  <2>1. c \in Busy(a) /\ c \in Block
    BY <1>1, <1>2, <1>4, <1>12, BusyIs
  <2>2. c \notin Under(b) /\ c # b
    BY <1>2, <1>8, <1>12, <2>1, HasPage
  <2>. QED  BY <1>5, <1>8, <2>1, <2>2 DEF Busy
<1>13. ASSUME NEW c \in Busy(own), Pages(c) \cap Pages(b) = {} PROVE Pages(c) \cap W # {}
  <2>1. c \in Busy(a)
    BY <1>5 DEF Busy
  <2>2. Pages(c) \cap (T \cup L) # {}
    BY <2>1, BusyOnly
  <2>. QED  BY <1>13, <2>2
<1>14. ASSUME NEW c \in Tree(own), c.size > 1, Pages(c) \cap (T \ Pages(b)) # {} PROVE c \in own.split
  <2>1. c \in a.split
    BY <1>1, <1>4, <1>14 DEF Fulls
  <2>2. c \notin Under(b)
    BY <1>8, <1>14
  <2>. QED  BY <1>5, <1>8, <2>1, <2>2
<1>15. ASSUME NEW c \in own.split PROVE c.size > 1 /\ (Pages(c) \cap W # {} \/ c \in Above(b))
  <2>1. c \in a.split /\ c \in Block /\ c \notin Under(b)
    BY <1>2, <1>5, <1>9
  <2>2. c.size > 1 /\ Pages(c) \cap (T \cup L) # {}
    BY <1>1, <2>1
  <2>3. ASSUME Pages(c) \cap Pages(b) # {} PROVE c \in Above(b)
    <3>1. Pages(b) \subseteq Pages(c) /\ c # b
      BY <1>2, <2>1, <2>3, Laminar, UnderIs
    <3>. QED  BY <1>2, <2>1, <3>1, AboveIs
  <2>. QED  BY <2>2, <2>3
<1>16. W \cap Pages(b) = {}
  BY <1>2
<1>17. own.split \subseteq Tree(own)
  BY <1>2, <1>4, <1>5
<1>. HIDE DEF W
<1>18. Joins(own, b, T, W)
  BY <1>4, <1>5, <1>9, <1>10, <1>11, <1>12, <1>13, <1>14, <1>15, <1>16, <1>17 DEF Joins
<1>. QED  BY <1>3, <1>18 DEF W

\* A free leaves the tree as if the pages of the block had never been taken.
FreesIts(x, a, U, T, L, b, actual) ==
  /\ Shows(x, U \ Pages(b), T \ Pages(b), L) /\ x.size = a.size
  /\ Frames(x) = Without(a, Pages(b), actual)

LEMMA FreeShows ==
  ASSUME NEW a, NEW U, NEW T, NEW L, Shows(a, U, T, L), NEW b \in Tree(a), Pages(b) \subseteq U,
         NEW actual
  PROVE  FreesIts(FreeBlock(a, b, TRUE, actual), a, U, T, L, b, actual)
<1>. DEFINE W == (T \ Pages(b)) \cup L
<1>1. PICK x : x = FreeBlock(a, b, TRUE, actual)
  OBVIOUS
<1>2. PICK own : own = Own(a, b, TRUE)
  OBVIOUS
<1>3. /\ Fulls(a, U, T, L) /\ a \in Area /\ b \in Block /\ a.full \subseteq Tree(a)
      /\ U \subseteq T /\ T \cap L = {} /\ T \cup L \subseteq Page
  BY FullsIs DEF Shows
<1>4. /\ x \in Area /\ x.size = a.size /\ own.size = a.size
      /\ x.split = own.split \ Joined(own, b)
      /\ Frames(x) = Without(a, Pages(b), actual)
  <2>1. PICK v \in BOOLEAN : v = TRUE
    OBVIOUS
  <2>2. /\ FreeBlock(a, b, v, actual) \in Area /\ FreeBlock(a, b, v, actual).size = a.size
        /\ Own(a, b, v).size = a.size
        /\ FreeBlock(a, b, v, actual).split = Own(a, b, v).split \ Joined(Own(a, b, v), b)
        /\ Frames(FreeBlock(a, b, v, actual)) = Without(a, Pages(b), actual)
    BY <1>3, FreeFields
  <2>. QED  BY <1>1, <1>2, <2>1, <2>2
<1>5. Tree(x) = Tree(a) /\ Tree(own) = Tree(a) /\ Root(x) = Root(a)
  BY <1>4 DEF Tree, Root
<1>6. \A c : c \in x.full <=> c \in a.full /\ Pages(c) \cap Pages(b) = {}
  BY <1>1, FreeFull
<1>7. Joins(own, b, T, W)
  BY <1>2, FreeJoins
<1>8. /\ x.split \subseteq Tree(x)
      /\ \A c \in x.split : Above(c) \cap Tree(x) \subseteq x.split
      /\ \A c \in Tree(x) : c.size > 1 /\ Pages(c) \cap (T \ Pages(b)) # {} => c \in x.split
      /\ \A c \in x.split : c.size > 1 /\ Pages(c) \cap W # {}
  BY <1>4, <1>5, <1>7, JoinedSplit
<1>9. Closed(x)
  <2>1. ASSUME NEW c \in x.full, NEW e \in Under(c) PROVE e \in x.full
    <3>1. c \in a.full /\ c \in Block /\ Pages(c) \cap Pages(b) = {}
      BY <1>3, <1>6, FullsIs
    <3>2. e \in a.full /\ Pages(e) \subseteq Pages(c)
      BY <1>3, <2>1, <3>1, UnderIs DEF Fulls, Closed
    <3>. QED  BY <1>6, <3>1, <3>2
  <2>2. x.full \subseteq Tree(x)
    BY <1>3, <1>5, <1>6
  <2>. QED  BY <1>8, <2>1, <2>2 DEF Closed
<1>10. \A p \in Page : x.pages[p] = IF actual /\ p \in Pages(b) \cap a.allocated THEN Nothing ELSE a.pages[p]
  BY <1>4 DEF Frames, Without
<1>11. x.allocated \subseteq a.allocated
  BY <1>4 DEF Frames, Without
<1>12. Fulls(x, U \ Pages(b), T \ Pages(b), L)
  <2>1. \A c \in Tree(x) : Pages(c) \subseteq U \ Pages(b) => c \in x.full
    BY <1>3, <1>5, <1>6 DEF Fulls
  <2>2. ASSUME NEW c \in x.full
        PROVE  /\ Pages(c) \subseteq (T \ Pages(b)) \cup L
               /\ c.size > 1 => Pages(c) \cap (T \ Pages(b)) # {}
    BY <1>3, <1>6 DEF Fulls
  <2>3. ASSUME NEW p \in (T \ Pages(b)) \cup L PROVE Leaf(p) \in x.full
    <3>1. Leaf(p) \in a.full /\ Pages(Leaf(p)) = {p} /\ p \notin Pages(b)
      BY <1>3, <2>3, LeafIs DEF Fulls
    <3>. QED  BY <1>6, <3>1
  <2>4. ASSUME NEW p \in L PROVE p \notin x.allocated /\ x.pages[p] = Nothing
    BY <1>3, <1>10, <1>11 DEF Fulls
  <2>5. (T \ Pages(b)) \cup L \subseteq Pages(Root(x))
    BY <1>3, <1>5 DEF Fulls
  <2>. QED  BY <1>3, <1>4, <1>8, <1>9, <2>1, <2>2, <2>3, <2>4, <2>5 DEF Fulls
<1>13. Shows(x, U \ Pages(b), T \ Pages(b), L)
  BY <1>8, <1>12 DEF Shows
<1>14. FreesIts(x, a, U, T, L, b, actual)
  BY <1>4, <1>13 DEF FreesIts
<1>. QED  BY <1>1, <1>14


-----------------------------------------------------------------------------
(* kmalloc                                                                 *)

\* The state in which a block under top is searched: a search for top itself
\* may have split everything above it before.
Ready(a, U, T, L, top) ==
  /\ Fulls(a, U, T, L)
  /\ Above(top) \cap Tree(a) \subseteq a.split
  /\ \A c \in a.split : c.size > 1 /\ (Pages(c) \cap (T \cup L) # {} \/ c \in Above(top))

LEMMA FirstIs ==
  ASSUME NEW S \in SUBSET Block, S # {}
  PROVE  First(S) \in S /\ \A c \in S : First(S).at <= c.at
<1>1. {b.at : b \in S} \in SUBSET Nat /\ {b.at : b \in S} # {}
  BY BlockIs
<1>2. PICK m \in {b.at : b \in S} : \A j \in {b.at : b \in S} : m <= j
  BY <1>1, Smallest
<1>3. PICK b \in S : b.at = m
  BY <1>2
<1>4. \A c \in S : b.at <= c.at
  BY <1>2, <1>3
<1>. QED  BY <1>4 DEF First

LEMMA ReadyFacts ==
  ASSUME NEW a, NEW U, NEW T, NEW L, NEW top \in Tree(a), Ready(a, U, T, L, top)
  PROVE  /\ Fulls(a, U, T, L)
         /\ a \in Area /\ a.size \in Size /\ top \in Block /\ Root(a) \in Block
         /\ \A c \in Under(top) : c \in Block /\ c \in Tree(a) /\ Pages(c) \subseteq Pages(top)
         /\ \A c \in Tree(a) : c \in Block
         /\ \A c \in Tree(a), d \in Block : Pages(d) \subseteq Pages(c) => d \in Tree(a)
         /\ a.full \subseteq Tree(a) /\ a.split \subseteq Tree(a)
         /\ U \subseteq T /\ T \cap L = {} /\ T \cup L \subseteq Page
<1>1. Fulls(a, U, T, L)
  BY DEF Ready
<1>2. /\ a \in Area /\ a.size \in Size /\ Root(a) \in Block
      /\ a.full \subseteq Tree(a) /\ a.split \subseteq Tree(a)
      /\ U \subseteq T /\ T \cap L = {} /\ T \cup L \subseteq Page
  BY <1>1, FullsIs
<1>3. /\ \A c : c \in Tree(a) <=> c \in Block /\ Pages(c) \subseteq Pages(Root(a))
      /\ \A c \in Tree(a), d \in Block : Pages(d) \subseteq Pages(c) => d \in Tree(a)
  BY <1>2, TreeIs
<1>4. \A c \in Under(top) : c \in Block /\ c \in Tree(a) /\ Pages(c) \subseteq Pages(top)
  BY <1>3, UnderIs
<1>. QED  BY <1>1, <1>2, <1>3, <1>4

\* What leads to a node under top is above it or under it too.
LEMMA AroundTop ==
  ASSUME NEW top \in Block, NEW c \in Under(top), NEW e \in Block, Pages(c) \subseteq Pages(e)
  PROVE  e \in Under(top) \/ e \in Above(top)
<1>1. c \in Block /\ Pages(c) \subseteq Pages(top) /\ Pages(c) # {}
  BY UnderIs, HasPage
<1>2. Pages(e) \subseteq Pages(top) \/ Pages(top) \subseteq Pages(e)
  BY <1>1, Laminar
<1>. QED  BY <1>2, UnderIs, AboveIs

\* The search enters the nodes that are not full.
LEMMA ReachIs ==
  ASSUME NEW a, NEW U, NEW T, NEW L, NEW top \in Tree(a), Ready(a, U, T, L, top), NEW b
  PROVE  b \in Reach(a, top) <=> b \in Under(top) /\ b \notin a.full
<1>1. b \in Reach(a, top) => b \in Under(top) /\ b \notin a.full
  BY DEF Reach
<1>2. ASSUME b \in Under(top), b \notin a.full PROVE b \in Reach(a, top)
  <2>1. b \in Block
    BY <1>2, ReadyFacts
  <2>2. ASSUME NEW c \in UpTo(b, top), c \in a.full PROVE FALSE
    <3>1. c \in Block /\ Pages(b) \subseteq Pages(c)
      BY <2>1, <2>2, AboveIs DEF UpTo
    <3>2. b \in Under(c)
      BY <2>1, <3>1, UnderIs
    <3>. QED  BY <1>2, <2>2, <3>2 DEF Ready, Fulls, Closed
  <2>. QED  BY <1>2, <2>2 DEF Reach
<1>. QED  BY <1>1, <1>2

\* It can come to no block of which a page is taken, and to all others, except
\* lost pages.
LEMMA CandidatesAre ==
  ASSUME NEW a, NEW U, NEW T, NEW L, NEW top \in Tree(a), Ready(a, U, T, L, top), NEW s, NEW b
  PROVE  /\ b \in Candidates(a, s, top) <=>
              b \in Under(top) /\ b.size = s /\ b \notin a.full /\ b \notin a.split
         /\ b \in Candidates(a, s, top) => Pages(b) \cap T = {}
<1>1. b \in Candidates(a, s, top) <=>
              b \in Under(top) /\ b.size = s /\ b \notin a.full /\ b \notin a.split
  BY ReachIs DEF Candidates
<1>2. ASSUME b \in Candidates(a, s, top), Pages(b) \cap T # {} PROVE FALSE
  <2>1. b \in Tree(a) /\ b \notin Busy(a)
    BY <1>1, <1>2, ReadyFacts DEF Busy
  <2>. QED  BY <1>2, <2>1, ReadyFacts, BusyIs
<1>. QED  BY <1>1, <1>2

LEMMA CandidateIs ==
  ASSUME NEW a, NEW U, NEW T, NEW L, NEW top \in Tree(a), Ready(a, U, T, L, top),
         NEW b \in Under(top), Pages(b) \cap T = {}, b.size > 1 \/ Pages(b) \cap L = {}
  PROVE  /\ b \notin a.full
         /\ b \notin a.split => b \in Candidates(a, b.size, top)
         /\ Pages(b) \cap L = {} => b \in Candidates(a, b.size, top)
<1>1. b \in Block /\ b \in Tree(a) /\ Pages(b) # {} /\ top \in Block /\ Pages(b) \subseteq Pages(top)
  BY ReadyFacts, HasPage
<1>2. b \notin a.full
  <2>1. SUFFICES ASSUME b \in a.full PROVE FALSE
    OBVIOUS
  <2>2. Pages(b) \subseteq T \cup L /\ (b.size > 1 => Pages(b) \cap T # {})
    BY <2>1 DEF Ready, Fulls
  <2>. QED  BY <1>1, <2>2
<1>3. ASSUME Pages(b) \cap L = {} PROVE b \notin a.split
  <2>1. SUFFICES ASSUME b \in a.split PROVE FALSE
    OBVIOUS
  <2>2. b \in Above(top)
    BY <1>3, <2>1 DEF Ready
  <2>3. Pages(top) \subseteq Pages(b) /\ b # top
    BY <1>1, <2>2, AboveIs
  <2>4. Pages(top) = Pages(b)
    BY <1>1, <2>3
  <2>. QED  BY <1>1, <2>3, <2>4, SamePages
<1>. QED  BY <1>2, <1>3, CandidatesAre

\* A bigger node that the search enters is split, or begins with a candidate,
\* or there is a lost page in it and the search is for a page.
LEMMA Entered ==
  ASSUME NEW a, NEW U, NEW T, NEW L, NEW top \in Tree(a), Ready(a, U, T, L, top), NEW s \in Size,
         NEW b \in Reach(a, top), b.size > s, b \notin a.split
  PROVE  \/ \E c \in Candidates(a, s, top) : c.at = b.at /\ b \in Above(c)
         \/ s = 1 /\ Pages(b) \cap L # {}
<1>1. b \in Under(top) /\ b \in Block /\ b \in Tree(a) /\ b.at \in Page /\ b.at \in Pages(b)
      /\ Pages(b) \subseteq Pages(top) /\ b.size \in Size /\ b.size \in Nat /\ top \in Block
  BY ReachIs, ReadyFacts, BlockIs, HasPage
<1>2. s \in Nat \ {0} /\ b.size > 1
  BY <1>1, SizeNat
<1>3. Pages(b) \cap T = {}
  BY <1>1, <1>2 DEF Ready, Fulls
<1>. DEFINE c == [at |-> b.at, size |-> s]
<1>4. Times(s, b.at)
  <2>1. Times(s, b.size) /\ Times(b.size, b.at) /\ b.at \in Int
    BY <1>1, <1>2, Divides, BlockIs DEF Aligned
  <2>. QED  BY <1>1, <1>2, <2>1, TimesTimes
<1>5. c \in Block
  BY <1>1, <1>4, BlockMade, BlockIs, UserMapAssumption DEF Page
<1>6. Pages(c) \subseteq Pages(b) /\ c # b /\ c.size = s /\ c.at = b.at
  BY <1>1, <1>2, BlockIs DEF Pages, Span
<1>. HIDE DEF c
<1>7. b \in Above(c) /\ c \in Under(top) /\ Pages(c) \cap T = {}
  BY <1>1, <1>3, <1>5, <1>6, AboveIs, UnderIs
<1>8. c \notin a.split
  BY <1>1, <1>7 DEF Ready, Fulls, Closed
<1>9. ASSUME s > 1 \/ Pages(b) \cap L = {} PROVE c \in Candidates(a, s, top)
  <2>1. c.size > 1 \/ Pages(c) \cap L = {}
    BY <1>6, <1>9
  <2>. QED  BY <1>6, <1>7, <1>8, <2>1, CandidateIs
<1>10. s = 1 \/ s > 1
  BY <1>2
<1>. QED  BY <1>6, <1>7, <1>9, <1>10

LEMMA SearchedFields ==
  ASSUME NEW a \in Area, NEW s, NEW top \in Block
  PROVE  LET w == Searched(a, s, top)
         IN  /\ w \in Area /\ w.size = a.size /\ w.full = a.full /\ Frames(w) = Frames(a)
             /\ w.allocated = a.allocated /\ w.pages = a.pages
             /\ w.split = a.split \cup
                  {b \in Reach(a, top) : b.size > s /\
                     (Candidates(a, s, top) = {} \/ b.at <= First(Candidates(a, s, top)).at)}
<1>. DEFINE S == {b \in Reach(a, top) : b.size > s /\
                     (Candidates(a, s, top) = {} \/ b.at <= First(Candidates(a, s, top)).at)}
<1>1. S \subseteq Block
  BY UnderIs DEF Reach
<1>. DEFINE w == [a EXCEPT !.split = @ \cup S]
<1>2. Searched(a, s, top) = w
  BY DEF Searched
<1>3. /\ w.size = a.size /\ w.full = a.full /\ w.split = a.split \cup S
      /\ w.allocated = a.allocated /\ w.pages = a.pages
  BY DEF Area
<1>4. w \in Area
  BY <1>1 DEF Area
<1>. HIDE DEF S
<1>. QED  BY <1>2, <1>3, <1>4 DEF Frames, S

\* The nodes that a search splits: those above the block it finds, and those in
\* which it finds pages lost.
Split1(w, a, L, s, top, Over) ==
  /\ w \in Area /\ w.size = a.size /\ w.full = a.full
  /\ w.allocated = a.allocated /\ w.pages = a.pages
  /\ a.split \subseteq w.split /\ w.split \subseteq Tree(a)
  /\ Over \cap Under(top) \subseteq w.split
  /\ \A c \in w.split : c \notin a.split =>
       c \in Under(top) /\ c.size > s /\ (c \in Over \/ (s = 1 /\ Pages(c) \cap L # {}))
  /\ \A c \in w.split : Above(c) \cap Tree(a) \subseteq w.split

\* What is above the block that is found, if one is.
Over(hit) == IF hit = {} THEN {} ELSE Above(First(hit))

LEMMA SearchedIs ==
  ASSUME NEW a, NEW U, NEW T, NEW L, NEW top \in Tree(a), Ready(a, U, T, L, top), NEW s \in Size,
         NEW hit, hit = Candidates(a, s, top)
  PROVE  Split1(Searched(a, s, top), a, L, s, top, Over(hit))
<1>1. /\ a \in Area /\ top \in Block /\ s \in Nat \ {0} /\ a.split \subseteq Tree(a)
      /\ Fulls(a, U, T, L)
  BY ReadyFacts, SizeNat
<1>h. hit \in SUBSET Block /\ \A c \in hit : c \in Under(top) /\ c.size = s /\ c \notin a.full /\ c \in Block
  BY CandidatesAre, ReadyFacts
<1>0. PICK w : w = Searched(a, s, top)
  OBVIOUS
<1>2. /\ w \in Area /\ w.size = a.size /\ w.full = a.full
      /\ w.allocated = a.allocated /\ w.pages = a.pages
      /\ w.split = a.split \cup {b \in Reach(a, top) : b.size > s /\ (hit = {} \/ b.at <= First(hit).at)}
  BY <1>0, <1>1, SearchedFields
<1>f. hit # {} => First(hit) \in hit /\ \A c \in hit : First(hit).at <= c.at
  BY <1>h, FirstIs
<1>3. w.split \subseteq Tree(a)
  BY <1>1, <1>2, ReachIs, ReadyFacts
<1>4. ASSUME NEW c \in w.split, c \notin a.split
      PROVE  c \in Under(top) /\ c.size > s /\ (c \in Over(hit) \/ (s = 1 /\ Pages(c) \cap L # {}))
  <2>1. c \in Reach(a, top) /\ c.size > s /\ (hit = {} \/ c.at <= First(hit).at)
    BY <1>2, <1>4
  <2>2. c \in Under(top) /\ c \in Block /\ c.at \in Nat
    BY <2>1, ReachIs, ReadyFacts, BlockIs
  <2>3. ASSUME NEW d \in hit, d.at = c.at, c \in Above(d) PROVE c \in Over(hit)
    <3>1. First(hit) \in hit /\ First(hit).at <= d.at
      BY <1>f, <2>3
    <3>2. First(hit).at \in Nat /\ d.at \in Nat /\ First(hit).size = s /\ d.size = s
      BY <1>h, <2>3, <3>1, BlockIs
    <3>3. First(hit).at = d.at
      BY <2>1, <2>3, <3>1, <3>2
    <3>4. First(hit) = [at |-> First(hit).at, size |-> First(hit).size] /\ d = [at |-> d.at, size |-> d.size]
      BY <1>h, <2>3, <3>1, BlockIs DEF Aligned
    <3>5. First(hit) = d
      BY <3>2, <3>3, <3>4
    <3>. QED  BY <2>3, <3>5 DEF Over
  <2>4. \/ \E d \in hit : d.at = c.at /\ c \in Above(d)
        \/ s = 1 /\ Pages(c) \cap L # {}
    BY <1>4, <2>1, Entered
  <2>. QED  BY <2>1, <2>2, <2>3, <2>4
<1>5. ASSUME NEW c \in w.split, NEW e \in Above(c), e \in Tree(a) PROVE e \in w.split
  <2>1. CASE c \in a.split
    BY <1>1, <1>2, <1>5, <2>1 DEF Fulls, Closed
  <2>2. CASE c \notin a.split
    <3>1. /\ c \in Reach(a, top) /\ c.size > s /\ (hit = {} \/ c.at <= First(hit).at)
      BY <1>2, <1>5, <2>2
    <3>2. c \in Under(top) /\ c \notin a.full /\ c \in Block
      BY <3>1, ReachIs, ReadyFacts
    <3>3. e \in Block /\ Pages(c) \subseteq Pages(e) /\ c.size < e.size
      BY <1>5, <3>2, AboveIs
    <3>4. e.at <= c.at /\ e.at \in Nat /\ c.at \in Nat /\ e.size \in Nat /\ c.size \in Nat
      BY <3>2, <3>3, InsidePages, BlockIs DEF Inside
    <3>5. e \in Under(top) \/ e \in Above(top)
      BY <1>1, <3>2, <3>3, AroundTop
    <3>6. CASE e \in Above(top)
      BY <1>2, <1>5, <3>6 DEF Ready
    <3>7. CASE e \in Under(top)
      <4>1. e \notin a.full
        BY <1>1, <3>2, <3>3, UnderIs DEF Fulls, Closed
      <4>2. e \in Reach(a, top)
        BY <3>7, <4>1, ReachIs
      <4>3. hit = {} \/ e.at <= First(hit).at
        <5>1. hit # {} => First(hit).at \in Nat
          BY <1>f, <1>h, BlockIs
        <5>. QED  BY <3>1, <3>4, <5>1
      <4>4. e.size > s
        BY <1>1, <3>1, <3>3, <3>4
      <4>. QED  BY <1>2, <4>2, <4>3, <4>4
    <3>. QED  BY <3>5, <3>6, <3>7
  <2>. QED  BY <2>1, <2>2
<1>6. ASSUME NEW c \in Over(hit), c \in Under(top) PROVE c \in w.split
  <2>1. hit # {} /\ c \in Above(First(hit)) /\ First(hit) \in hit
    BY <1>6, <1>f DEF Over
  <2>2. First(hit) \in Block /\ First(hit).size = s /\ First(hit) \notin a.full
    BY <1>h, <2>1
  <2>3. c \in Block /\ Pages(First(hit)) \subseteq Pages(c) /\ First(hit).size < c.size
    BY <2>1, <2>2, AboveIs
  <2>4. c.at <= First(hit).at /\ c.size > s
    BY <1>1, <2>2, <2>3, InsidePages, BlockIs DEF Inside
  <2>5. c \notin a.full
    BY <1>1, <2>2, <2>3, UnderIs DEF Fulls, Closed
  <2>6. c \in Reach(a, top)
    BY <1>6, <2>5, ReachIs
  <2>. QED  BY <1>2, <2>4, <2>6
<1>7. a.split \subseteq w.split
  BY <1>2
<1>8. Split1(w, a, L, s, top, Over(hit))
  BY <1>2, <1>3, <1>4, <1>5, <1>6, <1>7 DEF Split1
<1>. QED  BY <1>0, <1>8


\* What taking the pages of R does to the memory there.
Zero == [of |-> Anonymous, at |-> 0]
With(a, R, actual) ==
  [allocated |-> IF actual THEN a.allocated \cup R ELSE a.allocated,
   pages     |-> [p \in Page |-> IF actual /\ p \in R \ a.allocated THEN Zero ELSE a.pages[p]]]

Filled(w, b, actual) == w.full \cup {b} \cup (IF actual THEN Leaves(Pages(b)) ELSE {})
FilledUp(w, b, top, actual) ==
  {c \in UpTo(b, top) : \A d \in Path(b, c) : Sibling(d) \in Filled(w, b, actual)}
New(w, b, actual, fails) ==
  IF actual THEN (Pages(b) \ w.allocated) \ Unlucky(w, b, fails) ELSE {}

Zeroed(w, S) == [p \in Page |-> IF p \in S THEN Zero ELSE w.pages[p]]

LEMMA TakeFields ==
  ASSUME NEW w \in Area, NEW b \in Block, NEW top \in Block, NEW actual, NEW fails
  PROVE  LET t   == Take(w, b, top, actual, fails)
             new == New(w, b, actual, fails)
         IN  /\ t \in Area /\ t.size = w.size /\ t.split = w.split
             /\ t.full = Filled(w, b, actual) \cup FilledUp(w, b, top, actual)
             /\ t.allocated = w.allocated \cup new
             /\ t.pages = Zeroed(w, new)
<1>. DEFINE F == Filled(w, b, actual) \cup FilledUp(w, b, top, actual)
<1>. DEFINE new == New(w, b, actual, fails)
<1>. DEFINE t == [w EXCEPT !.full = F, !.allocated = @ \cup new,
                    !.pages = [p \in Page |-> IF p \in new THEN Zero ELSE @[p]]]
<1>1. Take(w, b, top, actual, fails) = t
  BY DEF Take, Filled, FilledUp, New, Zero
<1>2. F \subseteq Block /\ new \subseteq Page
  <2>1. w.full \subseteq Block /\ Pages(b) \subseteq Page
    BY HasPage DEF Area
  <2>2. Leaves(Pages(b)) \subseteq Block
    BY <2>1, LeafIs DEF Leaves
  <2>3. FilledUp(w, b, top, actual) \subseteq Block
    BY AboveIs DEF FilledUp, UpTo
  <2>. QED  BY <2>1, <2>2, <2>3 DEF Filled, New
<1>. HIDE DEF F, new
<1>3. /\ t.size = w.size /\ t.full = F /\ t.split = w.split /\ t.allocated = w.allocated \cup new
      /\ t.pages = [p \in Page |-> IF p \in new THEN Zero ELSE w.pages[p]]
  BY DEF Area
<1>4. /\ w.size \in Size /\ w.split \subseteq Block
      /\ w.allocated \subseteq Page /\ w.pages \in [Page -> Content \cup {Nothing}]
  BY DEF Area
<1>5. t.pages \in [Page -> Content \cup {Nothing}]
  <2>1. Zero \in Content
    BY DEF Zero, Content
  <2>. QED  BY <1>3, <1>4, <2>1
<1>6. t \in Area
  BY <1>2, <1>3, <1>4, <1>5 DEF Area
<1>. QED  BY <1>1, <1>3, <1>6 DEF F, new, Zeroed

LEMMA SplitFields ==
  ASSUME NEW t \in Area, NEW b \in Block
  PROVE  LET x == Split(t, b)
         IN  /\ x \in Area /\ x.size = t.size /\ Frames(x) = Frames(t)
             /\ x.full = t.full \cup Under(b)
             /\ x.split = (t.split \cup Under(b)) \ Leaves(Pages(b))
<1>. DEFINE x == [t EXCEPT !.full = @ \cup Under(b), !.split = (@ \cup Under(b)) \ Leaves(Pages(b))]
<1>1. Split(t, b) = x
  BY DEF Split
<1>2. Under(b) \subseteq Block
  BY DEF Under
<1>3. /\ x.size = t.size /\ x.full = t.full \cup Under(b)
      /\ x.split = (t.split \cup Under(b)) \ Leaves(Pages(b))
      /\ x.allocated = t.allocated /\ x.pages = t.pages
  BY DEF Area
<1>4. x \in Area
  BY <1>2 DEF Area
<1>. QED  BY <1>1, <1>3, <1>4 DEF Frames

LEMMA LeavesUnder ==
  ASSUME NEW b \in Block
  PROVE  /\ Leaves(Pages(b)) \subseteq Under(b)
         /\ \A c \in Under(b) : c.size = 1 <=> c \in Leaves(Pages(b))
<1>1. Pages(b) \subseteq Page
  BY HasPage
<1>2. Leaves(Pages(b)) \subseteq Under(b)
  BY <1>1, LeafIs, UnderIs DEF Leaves
<1>3. ASSUME NEW c \in Under(b), c.size = 1 PROVE c \in Leaves(Pages(b))
  <2>1. c \in Block /\ Pages(c) \subseteq Pages(b)
    BY UnderIs
  <2>2. Pages(c) = {c.at} /\ c = Leaf(c.at)
    BY <1>3, <2>1, LeafIs
  <2>. QED  BY <2>1, <2>2 DEF Leaves
<1>4. ASSUME NEW c \in Leaves(Pages(b)) PROVE c.size = 1
  BY DEF Leaves, Leaf
<1>. QED  BY <1>2, <1>3, <1>4

\* The block that is taken, and that it does not fill what is above top.
Chosen(a, U, T, top, b) ==
  /\ b \in Under(top) /\ Pages(b) \cap T = {} /\ b \notin a.full
  /\ top = Root(a) \/ ~(Pages(top) \subseteq U \cup Pages(b))

LEMMA ChosenFacts ==
  ASSUME NEW a, NEW U, NEW T, NEW L, NEW top \in Tree(a), Ready(a, U, T, L, top), NEW b,
         Chosen(a, U, T, top, b)
  PROVE  /\ b \in Block /\ b \in Tree(a) /\ top \in Block /\ Pages(b) \subseteq Pages(top)
         /\ Pages(b) # {}
         /\ \A c \in Tree(a) : Pages(b) \subseteq Pages(c) => c \in Under(top) \/ c \in Above(top)
         /\ \A c \in Under(b) : c \in Block /\ c \in Tree(a) /\ Pages(c) \subseteq Pages(b)
         /\ \A c \in a.full : c \in Block /\ (Pages(c) \cap Pages(b) # {} => c.size = 1 /\ c \in Under(b))
<1>1. b \in Block /\ b \in Tree(a) /\ top \in Block /\ Pages(b) \subseteq Pages(top) /\ b \in Under(top)
  BY ReadyFacts DEF Chosen
<1>2. Pages(b) # {}
  BY <1>1, HasPage
<1>3. ASSUME NEW c \in Tree(a), Pages(b) \subseteq Pages(c) PROVE c \in Under(top) \/ c \in Above(top)
  BY <1>1, <1>3, AroundTop, ReadyFacts
<1>4. \A c \in Under(b) : c \in Block /\ c \in Tree(a) /\ Pages(c) \subseteq Pages(b)
  BY <1>1, UnderIs, ReadyFacts
<1>5. ASSUME NEW c \in a.full
      PROVE  c \in Block /\ (Pages(c) \cap Pages(b) # {} => c.size = 1 /\ c \in Under(b))
  <2>1. c \in Block
    BY <1>5, ReadyFacts
  <2>2. ASSUME Pages(c) \cap Pages(b) # {} PROVE c.size = 1 /\ c \in Under(b)
    <3>1. ~(Pages(b) \subseteq Pages(c))
      BY <1>1, <1>5, <2>1, UnderIs DEF Chosen, Ready, Fulls, Closed
    <3>2. Pages(c) \subseteq Pages(b)
      BY <1>1, <2>1, <2>2, <3>1, Laminar
    <3>3. ~(c.size > 1)
      BY <1>5, <3>2 DEF Chosen, Ready, Fulls
    <3>. QED  BY <1>1, <2>1, <3>2, <3>3, LeafIs, UnderIs
  <2>. QED  BY <2>1, <2>2
<1>. QED  BY <1>1, <1>2, <1>3, <1>4, <1>5

\* An ancestor is full after that if its pages are now all mapped, and only if
\* nothing in it is free.
LEMMA FilledUpIs ==
  ASSUME NEW a, NEW U, NEW T, NEW L, NEW top \in Tree(a), Ready(a, U, T, L, top), NEW b,
         Chosen(a, U, T, top, b), NEW w, w.full = a.full, NEW actual, NEW c
  PROVE  /\ c \in FilledUp(w, b, top, actual) =>
              /\ c \in Tree(a) /\ c \in Above(b)
              /\ \A e \in Under(c) :
                   e \in a.full \/ e \in Under(b) \/ e \in FilledUp(w, b, top, actual)
              /\ Pages(c) \subseteq T \cup L \cup Pages(b)
         /\ c \in Tree(a) /\ c \in Above(b) /\ Pages(c) \subseteq U \cup Pages(b)
              => c \in FilledUp(w, b, top, actual)
<1>1. /\ b \in Block /\ b \in Tree(a) /\ top \in Block /\ Pages(b) \subseteq Pages(top)
      /\ Pages(b) # {} /\ a.size \in Size /\ \A e \in Tree(a) : e \in Block
  BY ChosenFacts, ReadyFacts
<1>2. ASSUME NEW e \in Tree(a), e \in Above(b), NEW d \in Path(b, e)
      PROVE  /\ Sibling(d) \in Filled(w, b, actual) <=> Sibling(d) \in a.full
             /\ Sibling(d) \in Tree(a) /\ Pages(Sibling(d)) \subseteq Pages(e)
             /\ Pages(Sibling(d)) \cap Pages(b) = {} /\ Sibling(d) \in Block
  <2>1. Sibling(d) \in Block /\ Pages(Sibling(d)) \subseteq Pages(e) /\ Pages(Sibling(d)) \cap Pages(b) = {}
    BY <1>1, <1>2, AlongPath
  <2>2. Sibling(d) \in Tree(a)
    BY <1>1, <1>2, <2>1, ReadyFacts
  <2>3. Sibling(d) \notin Under(b) /\ Sibling(d) # b
    BY <1>1, <2>1, UnderIs, HasPage
  <2>4. Sibling(d) \in Filled(w, b, actual) <=> Sibling(d) \in a.full
    BY <1>1, <2>3, LeavesUnder DEF Filled
  <2>. QED  BY <2>1, <2>2, <2>4
<1>3. ASSUME c \in FilledUp(w, b, top, actual)
      PROVE  /\ c \in Tree(a) /\ c \in Above(b)
             /\ \A e \in Under(c) :
                  e \in a.full \/ e \in Under(b) \/ e \in FilledUp(w, b, top, actual)
             /\ Pages(c) \subseteq T \cup L \cup Pages(b)
  <2>1. c \in Above(b) /\ c.size <= top.size
    BY <1>3 DEF FilledUp, UpTo
  <2>2. c \in Block /\ Pages(b) \subseteq Pages(c)
    BY <1>1, <2>1, AboveIs
  <2>3. Pages(c) \subseteq Pages(top)
    BY <1>1, <2>1, <2>2, Nested, InsidePages
  <2>4. c \in Tree(a)
    BY <2>2, <2>3, ReadyFacts
  <2>5. \A d \in Path(b, c) : Sibling(d) \in a.full
    BY <1>2, <1>3, <2>1, <2>4 DEF FilledUp
  <2>6. Pages(c) \subseteq T \cup L \cup Pages(b)
    <3>1. ASSUME NEW p \in Pages(c) \ Pages(b) PROVE p \in T \cup L
      <4>1. PICK d \in Path(b, c) : p \in Pages(Sibling(d))
        BY <1>1, <2>1, <3>1, AlongPath
      <4>. QED  BY <2>5, <4>1 DEF Ready, Fulls
    <3>. QED  BY <3>1
  <2>7. ASSUME NEW e \in Under(c)
        PROVE  e \in a.full \/ e \in Under(b) \/ e \in FilledUp(w, b, top, actual)
    <3>1. e \in Block /\ Pages(e) \subseteq Pages(c)
      BY <2>2, UnderIs
    <3>2. CASE Pages(e) \cap Pages(b) = {}
      <4>1. PICK d \in Path(b, c) : Sibling(d) \in Block /\ Pages(e) \subseteq Pages(Sibling(d))
        BY <1>1, <2>1, <3>1, <3>2, BesidePath
      <4>2. Sibling(d) \in a.full /\ e \in Under(Sibling(d))
        BY <2>5, <3>1, <4>1, UnderIs
      <4>. QED  BY <4>2 DEF Ready, Fulls, Closed
    <3>3. CASE Pages(e) \subseteq Pages(b)
      BY <1>1, <3>1, <3>3, UnderIs
    <3>4. CASE Pages(e) \cap Pages(b) # {} /\ ~(Pages(e) \subseteq Pages(b))
      <4>1. Pages(b) \subseteq Pages(e) /\ e # b
        BY <1>1, <3>1, <3>4, Laminar
      <4>2. e \in Above(b) /\ e.size <= c.size /\ e.size \in Nat /\ c.size \in Nat /\ top.size \in Nat
        BY <1>1, <2>2, <3>1, <4>1, AboveIs, InsidePages, BlockIs
      <4>3. e.size <= top.size
        BY <2>1, <4>2
      <4>4. \A d \in Path(b, e) : d \in Path(b, c)
        <5>1. ASSUME NEW d \in Path(b, e) PROVE d \in Path(b, c)
          <6>1. d \in Block /\ d.size < e.size /\ d \in Above(b) \cup {b}
            BY <1>1, <4>2, AlongPath DEF Path
          <6>2. d.size \in Nat
            BY <6>1, BlockIs
          <6>. QED  BY <4>2, <6>1, <6>2 DEF Path
        <5>. QED  BY <5>1
      <4>5. \A d \in Path(b, e) : Sibling(d) \in Filled(w, b, actual)
        BY <1>3, <4>4 DEF FilledUp
      <4>. QED  BY <4>2, <4>3, <4>5 DEF FilledUp, UpTo
    <3>. QED  BY <3>2, <3>3, <3>4
  <2>. QED  BY <2>1, <2>4, <2>6, <2>7
<1>4. ASSUME c \in Tree(a), c \in Above(b), Pages(c) \subseteq U \cup Pages(b)
      PROVE  c \in FilledUp(w, b, top, actual)
  <2>1. c \in Block /\ Pages(b) \subseteq Pages(c)
    BY <1>1, <1>4, AboveIs
  <2>2. ASSUME NEW d \in Path(b, c) PROVE Sibling(d) \in a.full
    <3>1. Sibling(d) \in Tree(a) /\ Pages(Sibling(d)) \subseteq U
      BY <1>2, <1>4
    <3>. QED  BY <3>1 DEF Ready, Fulls
  <2>3. Pages(c) \subseteq Pages(top)
    <3>1. CASE top = Root(a)
      BY <1>1, <1>4, <3>1, TreeIs
    <3>2. CASE ~(Pages(top) \subseteq U \cup Pages(b))
      BY <1>1, <1>4, <2>1, <3>2, Laminar
    <3>. QED  BY <3>1, <3>2 DEF Chosen
  <2>4. c.size <= top.size
    BY <1>1, <2>1, <2>3, InsidePages
  <2>. QED  BY <1>2, <1>4, <2>2, <2>4 DEF FilledUp, UpTo
<1>. QED  BY <1>3, <1>4

\* Taking a block and splitting it into pages leaves the tree as if its pages
\* had always been mapped.
LEMMA TakeShows ==
  ASSUME NEW a, NEW U, NEW T, NEW L, NEW top \in Tree(a), Ready(a, U, T, L, top), NEW b,
         Chosen(a, U, T, top, b),
         NEW w, NEW s, s \in Nat, s >= 1, Split1(w, a, L, s, top, Above(b)),
         NEW actual, NEW fails
  PROVE  LET x == Split(Take(w, b, top, actual, fails), b)
         IN  Shows(x, U \cup Pages(b), T \cup Pages(b), L \ Pages(b)) /\ x.size = a.size
<1>. DEFINE V == U \cup Pages(b)
<1>. DEFINE W == T \cup Pages(b)
<1>. DEFINE K == L \ Pages(b)
<1>t. PICK t : t = Take(w, b, top, actual, fails)
  OBVIOUS
<1>x. PICK x : x = Split(t, b)
  OBVIOUS
<1>1. /\ b \in Block /\ b \in Tree(a) /\ top \in Block /\ Pages(b) \subseteq Pages(top)
      /\ Pages(b) # {} /\ Pages(b) \subseteq Page
      /\ \A c \in Under(top) : c \in Block /\ c \in Tree(a) /\ Pages(c) \subseteq Pages(top)
      /\ \A c \in Tree(a) : c \in Block
      /\ \A c \in Under(b) : c \in Block /\ c \in Tree(a) /\ Pages(c) \subseteq Pages(b)
      /\ U \subseteq T /\ T \cap L = {} /\ T \cup L \subseteq Page /\ Fulls(a, U, T, L)
      /\ a.full \subseteq Tree(a) /\ a.split \subseteq Tree(a) /\ a \in Area
  BY ChosenFacts, ReadyFacts, HasPage
<1>w. w \in Area /\ w.size = a.size /\ w.full = a.full /\ w.allocated = a.allocated /\ w.pages = a.pages
  BY DEF Split1
<1>a. /\ t \in Area /\ t.size = w.size /\ t.split = w.split
      /\ t.full = Filled(w, b, actual) \cup FilledUp(w, b, top, actual)
      /\ t.allocated = w.allocated \cup New(w, b, actual, fails)
      /\ t.pages = Zeroed(w, New(w, b, actual, fails))
  BY <1>1, <1>t, <1>w, TakeFields
<1>b. /\ x \in Area /\ x.size = t.size /\ Frames(x) = Frames(t)
      /\ x.full = t.full \cup Under(b)
      /\ x.split = (t.split \cup Under(b)) \ Leaves(Pages(b))
  BY <1>1, <1>a, <1>x, SplitFields
<1>2. x \in Area /\ x.size = a.size
  BY <1>a, <1>b, <1>w
<1>3. x.full = a.full \cup FilledUp(w, b, top, actual) \cup Under(b)
  <2>1. b \in Under(b) /\ Leaves(Pages(b)) \subseteq Under(b)
    BY <1>1, UnderIs, LeavesUnder
  <2>. QED  BY <1>a, <1>b, <1>w, <2>1 DEF Filled
<1>4. x.split = (w.split \cup Under(b)) \ Leaves(Pages(b))
  BY <1>a, <1>b
<1>5. Tree(x) = Tree(a) /\ Root(x) = Root(a)
  BY <1>2 DEF Tree, Root
<1>6. /\ \A c \in FilledUp(w, b, top, actual) :
           /\ c \in Tree(a) /\ c \in Above(b) /\ Pages(c) \subseteq T \cup L \cup Pages(b)
           /\ \A e \in Under(c) : e \in x.full
      /\ \A c \in Tree(a) : c \in Above(b) /\ Pages(c) \subseteq V => c \in x.full
  BY <1>3, <1>w, FilledUpIs
<1>7. /\ x.full \subseteq Tree(x)
      /\ \A c \in x.full : Under(c) \subseteq x.full
  <2>1. ASSUME NEW c \in x.full PROVE c \in Tree(a) /\ Under(c) \subseteq x.full
    <3>1. CASE c \in a.full
      BY <1>1, <1>3, <3>1 DEF Fulls, Closed
    <3>2. CASE c \in Under(b)
      <4>1. \A e \in Under(c) : e \in Under(b)
        BY <1>1, <3>2, UnderIs
      <4>. QED  BY <1>1, <1>3, <3>2, <4>1
    <3>3. CASE c \in FilledUp(w, b, top, actual)
      BY <1>6, <3>3
    <3>. QED  BY <1>3, <3>1, <3>2, <3>3
  <2>. QED  BY <1>5, <2>1
<1>8. ASSUME NEW c \in Tree(x), Pages(c) \subseteq V PROVE c \in x.full
  <2>1. c \in Block /\ c \in Tree(a)
    BY <1>1, <1>5
  <2>2. CASE Pages(c) \cap Pages(b) = {}
    <3>1. c \in a.full
      BY <1>1, <1>8, <2>1, <2>2 DEF Fulls
    <3>. QED  BY <1>3, <3>1
  <2>3. CASE Pages(c) \cap Pages(b) # {}
    <3>1. c \in Under(b) \/ c \in Above(b)
      BY <1>1, <2>1, <2>3, Laminar, UnderIs, AboveIs
    <3>. QED  BY <1>3, <1>6, <1>8, <2>1, <3>1
  <2>. QED  BY <2>2, <2>3
<1>9. ASSUME NEW c \in x.full
      PROVE  Pages(c) \subseteq W \cup K /\ (c.size > 1 => Pages(c) \cap W # {})
  <2>1. CASE c \in a.full
    BY <1>1, <2>1 DEF Fulls
  <2>2. CASE c \in Under(b)
    <3>1. Pages(c) \subseteq Pages(b) /\ Pages(c) # {}
      BY <1>1, <2>2, HasPage
    <3>. QED  BY <3>1
  <2>3. CASE c \in FilledUp(w, b, top, actual)
    <3>1. Pages(b) \subseteq Pages(c) /\ Pages(c) \subseteq T \cup L \cup Pages(b)
      BY <1>1, <1>6, <2>3, AboveIs
    <3>. QED  BY <1>1, <3>1
  <2>. QED  BY <1>3, <2>1, <2>2, <2>3
<1>10. ASSUME NEW p \in W \cup K PROVE Leaf(p) \in x.full
  <2>1. CASE p \in Pages(b)
    <3>1. Leaf(p) \in Leaves(Pages(b))
      BY <2>1 DEF Leaves
    <3>. QED  BY <1>1, <1>3, <3>1, LeavesUnder
  <2>2. CASE p \notin Pages(b)
    BY <1>1, <1>3, <1>10, <2>2 DEF Fulls
  <2>. QED  BY <2>1, <2>2
<1>11. ASSUME NEW p \in K PROVE p \notin x.allocated /\ x.pages[p] = Nothing
  <2>1. x.allocated = t.allocated /\ x.pages = t.pages
    BY <1>b DEF Frames
  <2>2. New(w, b, actual, fails) \subseteq Pages(b)
    BY DEF New
  <2>3. p \in L /\ p \notin New(w, b, actual, fails) /\ p \in Page
    BY <1>1, <2>2
  <2>4. x.pages[p] = a.pages[p] /\ (p \in x.allocated <=> p \in a.allocated)
    BY <1>a, <1>w, <2>1, <2>3 DEF Zeroed
  <2>. QED  BY <1>1, <2>3, <2>4 DEF Fulls
<1>12. ASSUME NEW c \in Tree(x), c.size > 1, Pages(c) \cap W # {} PROVE c \in x.split
  <2>1. c \notin Leaves(Pages(b))
    BY <1>12 DEF Leaves, Leaf
  <2>2. c \in Block /\ c \in Tree(a)
    BY <1>1, <1>5
  <2>3. CASE Pages(c) \cap T # {}
    <3>1. c \in a.split
      BY <1>1, <1>12, <2>2, <2>3 DEF Fulls
    <3>. QED  BY <1>4, <2>1, <3>1 DEF Split1
  <2>4. CASE Pages(c) \cap Pages(b) # {}
    <3>1. c \in Under(b) \/ c \in Above(b)
      BY <1>1, <2>2, <2>4, Laminar, UnderIs, AboveIs
    <3>2. CASE c \in Under(b)
      BY <1>4, <2>1, <3>2
    <3>3. CASE c \in Above(b)
      <4>1. c \in Under(top) \/ c \in Above(top)
        BY <1>1, <2>2, <3>3, AboveIs, ChosenFacts
      <4>2. c \in w.split
        BY <2>2, <3>3, <4>1 DEF Ready, Split1
      <4>. QED  BY <1>4, <2>1, <4>2
    <3>. QED  BY <3>1, <3>2, <3>3
  <2>. QED  BY <1>12, <2>3, <2>4
<1>13. ASSUME NEW c \in x.split PROVE c \in Tree(x) /\ c.size > 1 /\ Pages(c) \cap (W \cup K) # {}
  <2>1. CASE c \in a.split
    <3>1. c.size > 1 /\ (Pages(c) \cap (T \cup L) # {} \/ c \in Above(top))
      BY <2>1 DEF Ready
    <3>2. c \in Above(top) => Pages(b) \subseteq Pages(c)
      BY <1>1, AboveIs
    <3>. QED  BY <1>1, <1>5, <2>1, <3>1, <3>2
  <2>2. CASE c \in w.split /\ c \notin a.split
    <3>1. c \in Under(top) /\ c.size > s /\ (c \in Above(b) \/ Pages(c) \cap L # {})
      BY <2>2 DEF Split1
    <3>2. c \in Block /\ c \in Tree(a) /\ c.size \in Nat
      BY <1>1, <3>1, BlockIs
    <3>3. c \in Above(b) => Pages(b) \subseteq Pages(c)
      BY <1>1, AboveIs
    <3>4. c.size > 1
      BY <3>1, <3>2
    <3>. QED  BY <1>1, <1>5, <3>1, <3>2, <3>3, <3>4
  <2>3. CASE c \in Under(b)
    <3>1. c \in Block /\ c \in Tree(a) /\ Pages(c) \subseteq Pages(b) /\ Pages(c) # {}
      BY <1>1, <2>3, HasPage
    <3>2. c.size # 1
      BY <1>1, <1>4, <1>13, <2>3, LeavesUnder
    <3>. QED  BY <1>5, <3>1, <3>2, LeafIs
  <2>. QED  BY <1>4, <1>13, <2>1, <2>2, <2>3
<1>14. ASSUME NEW c \in x.split, NEW e \in Above(c), e \in Tree(x) PROVE e \in x.split
  <2>1. c \in Tree(x) /\ c.size > 1 /\ c \in Block /\ e \in Block
    BY <1>1, <1>5, <1>13, <1>14
  <2>2. Pages(c) \subseteq Pages(e) /\ c.size < e.size /\ c.size \in Nat /\ e.size \in Nat
    BY <1>14, <2>1, AboveIs, BlockIs
  <2>3. e \notin Leaves(Pages(b)) /\ e.size > 1
    BY <2>1, <2>2 DEF Leaves, Leaf
  <2>4. CASE c \in w.split
    <3>1. e \in w.split
      BY <1>5, <1>14, <2>4 DEF Split1
    <3>. QED  BY <1>4, <2>3, <3>1
  <2>5. CASE c \in Under(b)
    <3>1. Pages(c) \subseteq Pages(b) /\ Pages(c) # {}
      BY <1>1, <2>1, <2>5, HasPage
    <3>2. Pages(e) \cap W # {}
      BY <2>2, <3>1
    <3>. QED  BY <1>12, <1>14, <2>3, <3>2
  <2>. QED  BY <1>4, <1>14, <2>4, <2>5
<1>15. V \subseteq W /\ W \cap K = {} /\ W \cup K \subseteq Pages(Root(x))
  <2>1. Pages(b) \subseteq Pages(Root(a))
    BY <1>1, FullsIs
  <2>. QED  BY <1>1, <1>5, <2>1 DEF Fulls
<1>. HIDE DEF V, W, K
<1>16. Closed(x)
  BY <1>7, <1>13, <1>14 DEF Closed
<1>17. Fulls(x, V, W, K)
  BY <1>2, <1>8, <1>9, <1>10, <1>11, <1>12, <1>15, <1>16 DEF Fulls
<1>18. Shows(x, V, W, K)
  BY <1>13, <1>17 DEF Shows
<1>. QED  BY <1>2, <1>18, <1>t, <1>x DEF V, W, K

NotFoundIs(r, a, U, T, L) ==
  /\ r.ok = FALSE /\ r.area.size = a.size /\ Frames(r.area) = Frames(a) /\ Shows(r.area, U, T, L)
  /\ r.stray = {} /\ r = NoBlock(r.area)

\* An unsuccessful search splits nodes only on its way to lost pages.
LEMMA NotFound ==
  ASSUME NEW a, NEW U, NEW T, NEW L, NEW top \in Tree(a), Ready(a, U, T, L, top),
         Shows(a, U, T, L), NEW s \in Size,
         NEW actual, NEW fails, Candidates(a, s, top) = {}
  PROVE  /\ NotFoundIs(AllocBlock(a, s, top, actual, fails), a, U, T, L)
         /\ NotFoundIs(NoBlock(Searched(a, s, top)), a, U, T, L)
<1>1. PICK hit : hit = Candidates(a, s, top)
  OBVIOUS
<1>2. PICK w : w = Searched(a, s, top)
  OBVIOUS
<1>3. AllocBlock(a, s, top, actual, fails) = NoBlock(w)
  BY <1>2 DEF AllocBlock
<1>4. Split1(w, a, L, s, top, Over(hit)) /\ Over(hit) = {}
  BY <1>1, <1>2, SearchedIs DEF Over
<1>5. /\ w \in Area /\ w.size = a.size /\ w.full = a.full
      /\ w.allocated = a.allocated /\ w.pages = a.pages
      /\ a.split \subseteq w.split /\ w.split \subseteq Tree(a)
      /\ \A c \in w.split : c \notin a.split =>
           c \in Under(top) /\ c.size > s /\ Pages(c) \cap L # {}
      /\ \A c \in w.split : Above(c) \cap Tree(a) \subseteq w.split
  BY <1>4 DEF Split1
<1>6. Tree(w) = Tree(a) /\ Root(w) = Root(a)
  BY <1>5 DEF Tree, Root
<1>7. Closed(w)
  BY <1>5, <1>6 DEF Closed, Shows, Fulls
<1>8. Fulls(w, U, T, L)
  BY <1>5, <1>6, <1>7 DEF Shows, Fulls
<1>9. ASSUME NEW c \in w.split PROVE c.size > 1 /\ Pages(c) \cap (T \cup L) # {}
  <2>1. CASE c \in a.split
    BY <2>1 DEF Shows
  <2>2. CASE c \notin a.split
    <3>1. c \in Under(top) /\ c.size > s /\ Pages(c) \cap L # {}
      BY <1>5, <1>9, <2>2
    <3>2. c.size \in Nat /\ s \in Nat \ {0}
      BY <3>1, ReadyFacts, BlockIs, SizeNat
    <3>. QED  BY <3>1, <3>2
  <2>. QED  BY <2>1, <2>2
<1>10. Shows(w, U, T, L) /\ Frames(w) = Frames(a)
  BY <1>5, <1>8, <1>9 DEF Shows, Frames
<1>11. NotFoundIs(NoBlock(w), a, U, T, L)
  BY <1>5, <1>10 DEF NoBlock, NotFoundIs
<1>. QED  BY <1>2, <1>3, <1>11

NoMemory(a, b, actual, fails) == actual /\ Unlucky(a, b, fails) # {}

\* What is known of the area and the block when the block has been taken.
Takes(a, U, T, L, top, s, actual, fails, b, w, t) ==
  /\ NoMemory(a, b, actual, fails) =>
       AllocBlock(a, s, top, actual, fails) = NoBlock(FreeBlock(t, b, FALSE, TRUE))
  /\ ~NoMemory(a, b, actual, fails) =>
       AllocBlock(a, s, top, actual, fails) = Got(Split(t, b), b.at)
  /\ b \in Block /\ b \in Tree(a) /\ b.size = s /\ b \notin a.split /\ Chosen(a, U, T, top, b)
  /\ w = Searched(a, s, top) /\ Split1(w, a, L, s, top, Above(b))
  /\ t \in Area /\ t.size = a.size
  /\ t.full = Filled(w, b, actual) \cup FilledUp(w, b, top, actual)
  /\ t.split = w.split
  /\ t.allocated = a.allocated \cup New(w, b, actual, fails)
  /\ t.pages = Zeroed(w, New(w, b, actual, fails))
  /\ Shows(Split(t, b), U \cup Pages(b), T \cup Pages(b), L \ Pages(b))

\* The search for a block of size s under top comes to b.
Comes(a, U, T, L, top, s, b) ==
  /\ top \in Tree(a) /\ Ready(a, U, T, L, top) /\ s \in Size
  /\ Candidates(a, s, top) # {} /\ b = First(Candidates(a, s, top))
  /\ top = Root(a) \/ ~(Pages(top) \subseteq U \cup Pages(b))

LEMMA ComesIs ==
  ASSUME NEW a, NEW U, NEW T, NEW L, NEW top, NEW s, NEW b, Comes(a, U, T, L, top, s, b)
  PROVE  /\ b \in Block /\ b \in Tree(a) /\ b.size = s /\ Pages(b) \cap T = {} /\ b \in Under(top)
         /\ b \notin a.full /\ b \notin a.split /\ Chosen(a, U, T, top, b)
         /\ b \in Candidates(a, s, top) /\ \A c \in Candidates(a, s, top) : b.at <= c.at
         /\ \A c \in Candidates(a, s, top) : c \in Block /\ c \in Under(top)
<1>0. top \in Tree(a) /\ Ready(a, U, T, L, top) /\ s \in Size /\ Candidates(a, s, top) # {}
  BY DEF Comes
<1>1. /\ \A c \in Candidates(a, s, top) : c \in Block /\ c \in Under(top)
      /\ Candidates(a, s, top) \in SUBSET Block
  BY <1>0, CandidatesAre, ReadyFacts
<1>2. b \in Candidates(a, s, top) /\ \A c \in Candidates(a, s, top) : b.at <= c.at
  BY <1>0, <1>1, FirstIs DEF Comes
<1>3. /\ b \in Under(top) /\ b.size = s /\ b \notin a.full /\ b \notin a.split /\ Pages(b) \cap T = {}
  BY <1>0, <1>2, CandidatesAre
<1>4. b \in Block /\ b \in Tree(a)
  BY <1>0, <1>3, ReadyFacts
<1>5. Chosen(a, U, T, top, b)
  BY <1>3 DEF Chosen, Comes
<1>. QED  BY <1>1, <1>2, <1>3, <1>4, <1>5

LEMMA FoundFields ==
  ASSUME NEW a, NEW U, NEW T, NEW L, NEW top, NEW s, NEW b, Comes(a, U, T, L, top, s, b),
         NEW actual, NEW fails
  PROVE  \E w, t : Takes(a, U, T, L, top, s, actual, fails, b, w, t)
<1>0. /\ top \in Tree(a) /\ Ready(a, U, T, L, top) /\ s \in Size
      /\ Candidates(a, s, top) # {} /\ b = First(Candidates(a, s, top))
      /\ s \in Nat /\ s >= 1
  BY SizeNat DEF Comes
<1>. DEFINE w == Searched(a, s, top)
<1>. DEFINE t == Take(w, b, top, actual, fails)
<1>1. /\ NoMemory(a, b, actual, fails) =>
           AllocBlock(a, s, top, actual, fails) = NoBlock(FreeBlock(t, b, FALSE, TRUE))
      /\ ~NoMemory(a, b, actual, fails) =>
           AllocBlock(a, s, top, actual, fails) = Got(Split(t, b), b.at)
  BY <1>0 DEF AllocBlock, NoMemory
<1>2. a \in Area /\ top \in Block /\ a.size \in Size
  BY <1>0, ReadyFacts
<1>5. /\ b \in Block /\ b \in Tree(a) /\ b.size = s /\ b \notin a.split
      /\ Chosen(a, U, T, top, b)
  BY ComesIs
<1>7. Split1(w, a, L, s, top, Above(b))
  <2>1. PICK hit : hit = Candidates(a, s, top)
    OBVIOUS
  <2>2. Split1(w, a, L, s, top, Over(hit)) /\ Over(hit) = Above(b)
    BY <1>0, <2>1, SearchedIs DEF Over
  <2>. QED  BY <2>2
<1>6. w = Searched(a, s, top)
  OBVIOUS
<1>. HIDE DEF w
<1>8. w \in Area /\ w.size = a.size /\ w.allocated = a.allocated
  BY <1>7 DEF Split1
<1>9. /\ t \in Area /\ t.size = w.size /\ t.split = w.split
      /\ t.full = Filled(w, b, actual) \cup FilledUp(w, b, top, actual)
      /\ t.allocated = w.allocated \cup New(w, b, actual, fails)
      /\ t.pages = Zeroed(w, New(w, b, actual, fails))
  BY <1>2, <1>5, <1>8, TakeFields
<1>10. Shows(Split(t, b), U \cup Pages(b), T \cup Pages(b), L \ Pages(b))
  BY <1>0, <1>5, <1>7, TakeShows
<1>. HIDE DEF t
<1>11. Takes(a, U, T, L, top, s, actual, fails, b, w, t)
  BY <1>1, <1>5, <1>6, <1>7, <1>8, <1>9, <1>10 DEF Takes
<1>. QED  BY <1>11

FoundIs(r, a, U, T, L, b, actual) ==
  /\ r.ok = TRUE /\ r.at = b.at /\ r.area.size = a.size
  /\ Shows(r.area, U \cup Pages(b), T \cup Pages(b), L \ Pages(b))
  /\ Frames(r.area) = With(a, Pages(b), actual)

\* internal_kmalloc takes the first block of its size that it can come to.
LEMMA Found ==
  ASSUME NEW a, NEW U, NEW T, NEW L, NEW top, NEW s, NEW b, Comes(a, U, T, L, top, s, b),
         NEW actual, NEW fails, ~NoMemory(a, b, actual, fails)
  PROVE  LET r == AllocBlock(a, s, top, actual, fails)
         IN  FoundIs(r, a, U, T, L, b, actual) /\ r = Got(r.area, b.at)
<1>0. PICK w, t : Takes(a, U, T, L, top, s, actual, fails, b, w, t)
  BY FoundFields
<1>. DEFINE new == New(w, b, actual, fails)
<1>1. /\ AllocBlock(a, s, top, actual, fails) = Got(Split(t, b), b.at)
      /\ b \in Block /\ w.allocated = a.allocated /\ w.pages = a.pages
      /\ t \in Area /\ t.size = a.size
      /\ t.allocated = a.allocated \cup new
      /\ t.pages = Zeroed(w, new)
      /\ Shows(Split(t, b), U \cup Pages(b), T \cup Pages(b), L \ Pages(b))
  BY <1>0 DEF Takes, Split1
<1>2. Split(t, b).size = a.size /\ Frames(Split(t, b)) = Frames(t)
  BY <1>1, SplitFields
<1>3. Unlucky(w, b, fails) = Unlucky(a, b, fails)
  BY <1>1 DEF Unlucky
<1>4. new = IF actual THEN Pages(b) \ a.allocated ELSE {}
  BY <1>1, <1>3 DEF New, NoMemory
<1>. HIDE DEF new
<1>5. t.allocated = With(a, Pages(b), actual).allocated
  BY <1>1, <1>4 DEF With
<1>6. t.pages = With(a, Pages(b), actual).pages
  BY <1>1, <1>4 DEF With, Zeroed
<1>7. Frames(t) = With(a, Pages(b), actual)
  BY <1>5, <1>6 DEF Frames, With
<1>. QED  BY <1>1, <1>2, <1>7 DEF FoundIs, Got

\* What is known of the memory after an allocation has failed.
SameFrame(x, a, p) == (p \in x.allocated <=> p \in a.allocated) /\ x.pages[p] = a.pages[p]
NoFrame(x, p)      == p \notin x.allocated /\ x.pages[p] = Nothing
Idle(x, p) ==
  \/ p \in x.allocated /\ x.pages[p] = Zero
  \/ NoFrame(x, p)
Calm(x, a, T)      == \A p \in Page : SameFrame(x, a, p) \/ (p \notin T /\ Idle(x, p))

\* What has not been taken is as new.
AllIdle(a, T) == \A p \in Page \ T : Idle(a, p)

\* A failure leaves the heap as it was, but for pages lost.
Back(x, a, U, T, L, fails) ==
  \E K \in SUBSET (L \cup fails) : Shows(x, U, T, K) /\ x.size = a.size /\ Calm(x, a, T)
Failed(r, a, U, T, L, fails) == r.ok = FALSE /\ r.stray = {} /\ Back(r.area, a, U, T, L, fails)

\* The state in which actual_allocate_node gives the block back.
LEMMA UndoneJoins ==
  ASSUME NEW a, NEW U, NEW T, NEW L, NEW top, NEW s, NEW b, Comes(a, U, T, L, top, s, b),
         NEW actual, NEW fails, NEW w, NEW t, Takes(a, U, T, L, top, s, actual, fails, b, w, t)
  PROVE  Joins(Own(t, b, FALSE), b, T, T \cup (L \ Pages(b)))
<1>. DEFINE W == T \cup (L \ Pages(b))
<1>0. top \in Tree(a) /\ Ready(a, U, T, L, top) /\ s \in Size /\ s \in Nat /\ s >= 1
  BY SizeNat DEF Comes
<1>1. /\ Fulls(a, U, T, L) /\ a \in Area /\ top \in Block
      /\ \A c \in Under(top) : c \in Block /\ c \in Tree(a)
      /\ \A c \in Tree(a) : c \in Block
      /\ a.full \subseteq Tree(a) /\ a.split \subseteq Tree(a)
      /\ U \subseteq T /\ T \cap L = {} /\ T \cup L \subseteq Page
  BY <1>0, ReadyFacts
<1>2. /\ b \in Block /\ b \in Tree(a) /\ b.size = s /\ Pages(b) \cap T = {} /\ b \in Under(top)
      /\ b \notin a.full /\ b \notin a.split /\ Pages(b) # {}
  BY ComesIs, HasPage
<1>3. /\ t \in Area /\ t.size = a.size /\ t.split = w.split
      /\ t.full = Filled(w, b, actual) \cup FilledUp(w, b, top, actual)
      /\ w.full = a.full /\ Split1(w, a, L, s, top, Above(b)) /\ Chosen(a, U, T, top, b)
  BY DEF Takes, Split1
<1>4. PICK own : own = Own(t, b, FALSE)
  OBVIOUS
<1>5. own.full = t.full \ {b} /\ own.split = t.split /\ own.size = t.size /\ own \in Area
  BY <1>3, <1>4 DEF Own, Cut, Area
<1>6. Tree(own) = Tree(a)
  BY <1>3, <1>5 DEF Tree, Root
<1>7. own.split \subseteq Tree(own)
  BY <1>3, <1>5, <1>6 DEF Split1
<1>8. ASSUME NEW c \in own.split, c \in Under(b) PROVE FALSE
  <2>1. c \in Block /\ Pages(c) \subseteq Pages(b) /\ c.size <= b.size /\ c.size \in Nat /\ b.size \in Nat
    BY <1>2, <1>8, UnderIs, InsidePages, BlockIs
  <2>2. CASE c \in a.split
    <3>1. c # b
      BY <1>2, <2>2
    <3>2. b \in Above(c)
      BY <1>2, <2>1, <3>1, AboveIs
    <3>. QED  BY <1>1, <1>2, <2>2, <3>2 DEF Fulls, Closed
  <2>3. CASE c \notin a.split
    <3>1. c.size > s
      BY <1>3, <1>5, <1>8, <2>3 DEF Split1
    <3>. QED  BY <1>2, <2>1, <3>1
  <2>. QED  BY <2>2, <2>3
<1>9. \A c \in own.split : Above(c) \cap Tree(own) \subseteq own.split
  BY <1>3, <1>5, <1>6 DEF Split1
<1>10. ASSUME NEW e \in Above(b), e \in Tree(own) PROVE e \in own.split
  <2>1. e \in Block /\ Pages(b) \subseteq Pages(e)
    BY <1>2, <1>10, AboveIs
  <2>2. e \in Under(top) \/ e \in Above(top)
    BY <1>1, <1>2, <2>1, AroundTop
  <2>. QED  BY <1>0, <1>3, <1>5, <1>6, <1>10, <2>2 DEF Split1, Ready
<1>11. ASSUME NEW c \in Tree(own), Pages(c) \cap Pages(b) = {}, Pages(c) \cap T # {}
       PROVE  c \in Busy(own)
  <2>1. c \in Busy(a) /\ c # b
    BY <1>1, <1>2, <1>6, <1>11, BusyIs
  <2>. QED  BY <1>3, <1>5, <2>1 DEF Busy, Split1, Filled
<1>12. ASSUME NEW c \in Busy(own), Pages(c) \cap Pages(b) = {} PROVE Pages(c) \cap W # {}
  <2>1. CASE c \in own.full
    <3>1. c \in a.full
      <4>1. c \notin Above(b) /\ c # b /\ c \notin Leaves(Pages(b))
        <5>1. c \notin Above(b) /\ c # b
          BY <1>2, <1>12, AboveIs
        <5>2. ASSUME c \in Leaves(Pages(b)) PROVE FALSE
          <6>1. c \in Block /\ Pages(c) \subseteq Pages(b)
            BY <1>2, <5>2, LeavesUnder, UnderIs
          <6>. QED  BY <1>12, <6>1, HasPage
        <5>. QED  BY <5>1, <5>2
      <4>. QED  BY <1>3, <1>5, <2>1, <4>1 DEF Filled, FilledUp, UpTo
    <3>2. Pages(c) \subseteq T \cup L /\ Pages(c) # {}
      BY <1>1, <3>1, HasPage DEF Fulls
    <3>. QED  BY <1>12, <3>2
  <2>2. CASE c \in own.split
    <3>1. CASE c \in a.split
      <4>1. Pages(c) \cap (T \cup L) # {} \/ c \in Above(top)
        BY <1>0, <3>1 DEF Ready
      <4>2. c \notin Above(top)
        <5>1. Pages(b) \subseteq Pages(top)
          BY <1>1, <1>2, UnderIs
        <5>. QED  BY <1>1, <1>2, <1>12, <5>1, AboveIs
      <4>. QED  BY <1>12, <4>1, <4>2
    <3>2. CASE c \notin a.split
      <4>1. c \in Above(b) \/ Pages(c) \cap L # {}
        BY <1>3, <1>5, <2>2, <3>2 DEF Split1
      <4>2. c \notin Above(b)
        BY <1>2, <1>12, AboveIs
      <4>. QED  BY <1>12, <4>1, <4>2
    <3>. QED  BY <3>1, <3>2
  <2>. QED  BY <1>12, <2>1, <2>2 DEF Busy
<1>13. ASSUME NEW c \in Tree(own), c.size > 1, Pages(c) \cap (T \ Pages(b)) # {} PROVE c \in own.split
  <2>1. c \in a.split
    BY <1>1, <1>6, <1>13 DEF Fulls
  <2>. QED  BY <1>3, <1>5, <2>1 DEF Split1
<1>14. ASSUME NEW c \in own.split PROVE c.size > 1 /\ (Pages(c) \cap W # {} \/ c \in Above(b))
  <2>1. c \in Tree(a) /\ c \in Block /\ c \notin Under(b) /\ c.size \in Nat
    BY <1>1, <1>6, <1>7, <1>8, <1>14, BlockIs
  <2>2. Pages(c) \cap Pages(b) # {} => c \in Above(b)
    <3>1. SUFFICES ASSUME Pages(c) \cap Pages(b) # {} PROVE c \in Above(b)
      OBVIOUS
    <3>2. Pages(b) \subseteq Pages(c) /\ c # b
      BY <1>2, <2>1, <3>1, Laminar, UnderIs
    <3>. QED  BY <1>2, <2>1, <3>2, AboveIs
  <2>3. CASE c \in a.split
    <3>1. c.size > 1 /\ (Pages(c) \cap (T \cup L) # {} \/ c \in Above(top))
      BY <1>0, <2>3 DEF Ready
    <3>2. c \in Above(top) => Pages(c) \cap Pages(b) # {}
      <4>1. Pages(b) \subseteq Pages(top)
        BY <1>1, <1>2, UnderIs
      <4>. QED  BY <1>1, <1>2, <4>1, AboveIs
    <3>. QED  BY <2>2, <3>1, <3>2
  <2>4. CASE c \notin a.split
    <3>1. c.size > s /\ (c \in Above(b) \/ Pages(c) \cap L # {})
      BY <1>3, <1>5, <1>14, <2>4 DEF Split1
    <3>2. c.size > 1
      BY <1>0, <2>1, <3>1
    <3>. QED  BY <2>2, <3>1, <3>2
  <2>. QED  BY <2>3, <2>4
<1>15. W \cap Pages(b) = {}
  BY <1>2
<1>16. own.split \cap Under(b) = {}
  BY <1>8
<1>17. Above(b) \cap Tree(own) \subseteq own.split
  BY <1>10
<1>. HIDE DEF W
<1>18. Joins(own, b, T, W)
  BY <1>2, <1>5, <1>6, <1>7, <1>9, <1>11, <1>12, <1>13, <1>14, <1>15, <1>16, <1>17 DEF Joins
<1>. QED  BY <1>4, <1>18 DEF W

\* What stays full: what was, but for the block itself, and in a block of
\* several pages those for which there was no memory.
LEMMA UndoneFull ==
  ASSUME NEW a, NEW U, NEW T, NEW L, NEW top, NEW s, NEW b, Comes(a, U, T, L, top, s, b),
         NEW actual, NEW fails, NoMemory(a, b, actual, fails),
         NEW w, NEW t, Takes(a, U, T, L, top, s, actual, fails, b, w, t),
         NEW c
  PROVE  c \in FreeBlock(t, b, FALSE, TRUE).full <=>
           (c \in a.full /\ Pages(c) \cap Pages(b) = {})
             \/ (b.size > 1 /\ c \in Leaves(Unlucky(a, b, fails)))
<1>. DEFINE N == Unlucky(a, b, fails)
<1>1. /\ b \in Block /\ Pages(b) # {} /\ Pages(b) \subseteq Page
      /\ \A d \in a.full : d \in Block /\ (Pages(d) \cap Pages(b) # {} => d.size = 1 /\ d \in Under(b))
  BY ComesIs, ChosenFacts, HasPage DEF Comes
<1>2. /\ t \in Area
      /\ t.full = a.full \cup {b} \cup Leaves(Pages(b)) \cup FilledUp(w, b, top, actual)
      /\ t.allocated = a.allocated \cup ((Pages(b) \ a.allocated) \ N)
  <2>1. /\ t \in Area
        /\ t.full = Filled(w, b, actual) \cup FilledUp(w, b, top, actual)
        /\ t.allocated = a.allocated \cup New(w, b, actual, fails)
        /\ w.full = a.full /\ w.allocated = a.allocated
    BY DEF Takes, Split1
  <2>. QED  BY <2>1 DEF Filled, New, Unlucky, NoMemory
<1>3. N \subseteq Pages(b) /\ N \cap a.allocated = {}
  BY DEF Unlucky
<1>4. Pages(b) \cap t.allocated = Pages(b) \ N
  BY <1>2, <1>3
<1>5. c \in FreeBlock(t, b, FALSE, TRUE).full <=>
        c \in t.full /\ c # b /\ c \notin Above(b) /\ c \notin Leaves(Pages(b) \ N)
  <2>1. PICK v \in BOOLEAN : v = FALSE
    OBVIOUS
  <2>2. PICK y : y = TRUE
    OBVIOUS
  <2>3. FreeBlock(t, b, v, y).full
          = (t.full \ (Cut(t, b, v) \cup {b})) \ (Above(b) \cup Leaves(Gone(t, b, y)))
    <3>1. t \in Area /\ b \in Block
      BY <1>1, <1>2
    <3>. QED  BY <3>1, FreeFields
  <2>4. Cut(t, b, v) = {} /\ Gone(t, b, y) = Pages(b) \ N
    BY <1>4, <2>1, <2>2 DEF Cut, Gone
  <2>. QED  BY <2>1, <2>2, <2>3, <2>4
<1>6. FilledUp(w, b, top, actual) \subseteq Above(b)
  BY DEF FilledUp, UpTo
<1>7. ASSUME c \in t.full, c # b, c \notin Above(b), c \notin Leaves(Pages(b) \ N)
      PROVE  (c \in a.full /\ Pages(c) \cap Pages(b) = {}) \/ (b.size > 1 /\ c \in Leaves(N))
  <2>1. c \in a.full \/ c \in Leaves(Pages(b))
    BY <1>2, <1>6, <1>7
  <2>2. CASE c \in a.full /\ Pages(c) \cap Pages(b) = {}
    BY <2>2
  <2>3. CASE c \in Leaves(Pages(b))
    <3>1. PICK p \in Pages(b) : c = Leaf(p)
      BY <2>3 DEF Leaves
    <3>2. p \in N
      BY <1>7, <3>1 DEF Leaves
    <3>3. b.size > 1
      <4>1. SUFFICES ASSUME b.size = 1 PROVE FALSE
        BY <1>1, LeafIs
      <4>2. Pages(b) = {b.at} /\ b = Leaf(b.at)
        BY <1>1, <4>1, LeafIs
      <4>. QED  BY <1>7, <3>1, <4>2
    <3>. QED  BY <3>1, <3>2, <3>3 DEF Leaves
  <2>4. c \in a.full /\ Pages(c) \cap Pages(b) # {} => c \in Leaves(Pages(b))
    BY <1>1, LeavesUnder
  <2>. QED  BY <2>1, <2>2, <2>3, <2>4
<1>8. ASSUME c \in a.full, Pages(c) \cap Pages(b) = {}
      PROVE  c \in t.full /\ c # b /\ c \notin Above(b) /\ c \notin Leaves(Pages(b) \ N)
  <2>1. c \in Block /\ c # b /\ c \notin Above(b) /\ c \notin Under(b)
    BY <1>1, <1>8, AboveIs, UnderIs, HasPage
  <2>2. Leaves(Pages(b) \ N) \subseteq Leaves(Pages(b))
    BY DEF Leaves
  <2>. QED  BY <1>1, <1>2, <1>8, <2>1, <2>2, LeavesUnder
<1>9. ASSUME b.size > 1, c \in Leaves(N)
      PROVE  c \in t.full /\ c # b /\ c \notin Above(b) /\ c \notin Leaves(Pages(b) \ N)
  <2>1. PICK p \in N : c = Leaf(p)
    BY <1>9 DEF Leaves
  <2>2. c.size = 1 /\ c.at = p
    BY <2>1 DEF Leaf
  <2>3. c \notin Above(b)
    <3>1. SUFFICES ASSUME c \in Above(b) PROVE FALSE
      OBVIOUS
    <3>2. b.size < c.size /\ b.size \in Nat
      BY <1>1, <3>1, AboveIs, BlockIs
    <3>. QED  BY <1>9, <2>2, <3>2
  <2>4. c \notin Leaves(Pages(b) \ N)
    BY <2>1, <2>2 DEF Leaves, Leaf
  <2>5. c \in Leaves(Pages(b)) /\ c # b
    BY <1>3, <1>9, <2>1, <2>2 DEF Leaves
  <2>. QED  BY <1>2, <2>3, <2>4, <2>5
<1>. HIDE DEF N
<1>10. QED  BY <1>5, <1>7, <1>8, <1>9 DEF N

\* If there is no memory for all of its pages, everything is as it was but for
\* them.
LEMMA Undone ==
  ASSUME NEW a, NEW U, NEW T, NEW L, NEW top, NEW s, NEW b, Comes(a, U, T, L, top, s, b),
         NEW actual, NEW fails, NoMemory(a, b, actual, fails), AllIdle(a, T)
  PROVE  LET r == AllocBlock(a, s, top, actual, fails)
         IN  Failed(r, a, U, T, L, fails) /\ r = NoBlock(r.area)
<1>0. PICK w, t : Takes(a, U, T, L, top, s, actual, fails, b, w, t)
  BY FoundFields
<1>c. top \in Tree(a) /\ Ready(a, U, T, L, top)
  BY DEF Comes
<1>z. PICK z : z = FreeBlock(t, b, FALSE, TRUE)
  OBVIOUS
<1>n. PICK N : N = Unlucky(a, b, fails)
  OBVIOUS
<1>. DEFINE K == (L \ Pages(b)) \cup (IF b.size > 1 THEN N ELSE {})
<1>1. /\ AllocBlock(a, s, top, actual, fails) = NoBlock(z)
      /\ t \in Area /\ t.size = a.size
      /\ t.allocated = a.allocated \cup ((Pages(b) \ a.allocated) \ N)
      /\ t.pages = Zeroed(a, (Pages(b) \ a.allocated) \ N)
  <2>1. w.allocated = a.allocated /\ w.pages = a.pages
    BY <1>0 DEF Takes, Split1
  <2>2. New(w, b, actual, fails) = (Pages(b) \ a.allocated) \ N
    BY <1>n, <2>1 DEF New, Unlucky, NoMemory
  <2>. QED  BY <1>0, <1>z, <2>1, <2>2 DEF Takes, Zeroed
<1>2. /\ Fulls(a, U, T, L) /\ a \in Area
      /\ \A c \in Tree(a) : c \in Block
      /\ a.full \subseteq Tree(a)
      /\ U \subseteq T /\ T \cap L = {} /\ T \cup L \subseteq Page
  BY <1>c, ReadyFacts
<1>3. /\ b \in Block /\ b \in Tree(a) /\ Pages(b) \cap T = {} /\ b \notin a.full /\ Pages(b) # {}
      /\ Pages(b) \subseteq Page /\ b.size \in Nat \ {0}
  BY ComesIs, HasPage, BlockIs
<1>4. N \subseteq Pages(b) /\ N \subseteq fails /\ N \cap a.allocated = {}
  BY <1>n DEF Unlucky
<1>5. \A c : c \in z.full <=>
        (c \in a.full /\ Pages(c) \cap Pages(b) = {}) \/ (b.size > 1 /\ c \in Leaves(N))
  <2>1. TAKE c
  <2>2. c \in FreeBlock(t, b, FALSE, TRUE).full <=>
          (c \in a.full /\ Pages(c) \cap Pages(b) = {})
            \/ (b.size > 1 /\ c \in Leaves(Unlucky(a, b, fails)))
    BY <1>0, UndoneFull
  <2>. QED  BY <1>n, <1>z, <2>2
<1>6. PICK own : own = Own(t, b, FALSE)
  OBVIOUS
<1>7. z \in Area /\ z.size = a.size /\ own.size = a.size /\ z.split = own.split \ Joined(own, b)
      /\ Frames(z) = Without(t, Pages(b), TRUE)
  <2>1. PICK v \in BOOLEAN, y \in BOOLEAN : v = FALSE /\ y = TRUE
    OBVIOUS
  <2>2. /\ FreeBlock(t, b, v, y) \in Area /\ FreeBlock(t, b, v, y).size = t.size
        /\ Own(t, b, v).size = t.size
        /\ FreeBlock(t, b, v, y).split = Own(t, b, v).split \ Joined(Own(t, b, v), b)
        /\ Frames(FreeBlock(t, b, v, y)) = Without(t, Pages(b), y)
    BY <1>1, <1>3, FreeFields
  <2>. QED  BY <1>1, <1>6, <1>z, <2>1, <2>2
<1>8. Tree(z) = Tree(a) /\ Tree(own) = Tree(a) /\ Root(z) = Root(a)
  BY <1>7 DEF Tree, Root
<1>9. Joins(own, b, T, T \cup (L \ Pages(b)))
  BY <1>0, <1>6, UndoneJoins
<1>10. /\ z.split \subseteq Tree(z)
       /\ \A c \in z.split : Above(c) \cap Tree(z) \subseteq z.split
       /\ \A c \in Tree(z) : c.size > 1 /\ Pages(c) \cap (T \ Pages(b)) # {} => c \in z.split
       /\ \A c \in z.split : c.size > 1 /\ Pages(c) \cap (T \cup (L \ Pages(b))) # {}
  <2>1. PICK W : W = T \cup (L \ Pages(b))
    OBVIOUS
  <2>2. Joins(own, b, T, W)
    BY <1>9, <2>1
  <2>3. /\ own.split \ Joined(own, b) \subseteq Tree(own)
        /\ \A c \in own.split \ Joined(own, b) : Above(c) \cap Tree(own) \subseteq own.split \ Joined(own, b)
        /\ \A c \in Tree(own) : c.size > 1 /\ Pages(c) \cap (T \ Pages(b)) # {}
                                  => c \in own.split \ Joined(own, b)
        /\ \A c \in own.split \ Joined(own, b) : c.size > 1 /\ Pages(c) \cap W # {}
    BY <2>2, JoinedSplit
  <2>. QED  BY <1>7, <1>8, <2>1, <2>3
<1>11. Closed(z)
  <2>1. ASSUME NEW c \in z.full, NEW e \in Under(c) PROVE e \in z.full
    <3>1. CASE c \in a.full /\ Pages(c) \cap Pages(b) = {}
      <4>1. e \in a.full /\ Pages(e) \subseteq Pages(c)
        BY <1>2, <2>1, <3>1, UnderIs DEF Fulls, Closed
      <4>. QED  BY <1>5, <3>1, <4>1
    <3>2. CASE b.size > 1 /\ c \in Leaves(N)
      <4>1. PICK p \in N : c = Leaf(p)
        BY <3>2 DEF Leaves
      <4>2. p \in Page /\ c \in Block /\ Pages(c) = {p}
        BY <1>3, <1>4, <4>1, LeafIs
      <4>3. e \in Block /\ Pages(e) \subseteq {p} /\ Pages(e) # {}
        BY <2>1, <4>2, UnderIs, HasPage
      <4>4. Pages(e) = Pages(c)
        BY <4>2, <4>3
      <4>5. e = c
        BY <4>2, <4>3, <4>4, SamePages
      <4>. QED  BY <2>1, <4>5
    <3>. QED  BY <1>5, <2>1, <3>1, <3>2
  <2>2. ASSUME NEW c \in z.full PROVE c \in Tree(z)
    <3>1. CASE c \in a.full
      BY <1>2, <1>8, <3>1
    <3>2. CASE c \in Leaves(N)
      <4>1. c \in Under(b)
        BY <1>3, <1>4, <3>2, LeavesUnder DEF Leaves
      <4>2. c \in Block /\ Pages(c) \subseteq Pages(b)
        BY <1>3, <4>1, UnderIs
      <4>. QED  BY <1>3, <1>8, <4>2, <1>c, ReadyFacts
    <3>. QED  BY <1>5, <2>2, <3>1, <3>2
  <2>. QED  BY <1>10, <2>1, <2>2 DEF Closed
<1>12. T \cap K = {} /\ K \subseteq L \cup fails /\ K \subseteq L \cup Pages(b) /\ T \subseteq Page
       /\ L \ Pages(b) \subseteq K
  BY <1>2, <1>3, <1>4
<1>13. \A c \in Tree(z) : Pages(c) \subseteq U => c \in z.full
  BY <1>2, <1>3, <1>5, <1>8 DEF Fulls
<1>14. ASSUME NEW c \in z.full
       PROVE  Pages(c) \subseteq T \cup K /\ (c.size > 1 => Pages(c) \cap T # {})
  <2>1. CASE c \in a.full /\ Pages(c) \cap Pages(b) = {}
    BY <1>2, <2>1 DEF Fulls
  <2>2. CASE b.size > 1 /\ c \in Leaves(N)
    <3>1. PICK p \in N : c = Leaf(p)
      BY <2>2 DEF Leaves
    <3>2. p \in Page /\ Pages(c) = {p} /\ c.size = 1
      BY <1>3, <1>4, <3>1, LeafIs DEF Leaf
    <3>. QED  BY <2>2, <3>2
  <2>. QED  BY <1>5, <1>14, <2>1, <2>2
<1>15. ASSUME NEW p \in T \cup K PROVE Leaf(p) \in z.full
  <2>1. CASE p \in Pages(b)
    <3>1. p \in N /\ b.size > 1
      BY <1>3, <1>15, <2>1
    <3>. QED  BY <1>5, <3>1 DEF Leaves
  <2>2. CASE p \notin Pages(b)
    <3>1. p \in T \cup L /\ p \in Page
      BY <1>2, <1>12, <1>15, <2>2
    <3>2. Leaf(p) \in a.full /\ Pages(Leaf(p)) = {p}
      BY <1>2, <3>1, LeafIs DEF Fulls
    <3>. QED  BY <1>5, <2>2, <3>2
  <2>. QED  BY <2>1, <2>2
<1>16. /\ z.allocated = t.allocated \ Pages(b)
       /\ \A p \in Page : z.pages[p] = IF p \in Pages(b) \cap t.allocated THEN Nothing ELSE t.pages[p]
       /\ \A p \in Page : t.pages[p] = IF p \in (Pages(b) \ a.allocated) \ N THEN Zero ELSE a.pages[p]
  BY <1>1, <1>7 DEF Frames, Without, Zeroed
<1>17. ASSUME NEW p \in Page, p \notin Pages(b) PROVE SameFrame(z, a, p)
  BY <1>1, <1>16, <1>17 DEF SameFrame
<1>18. ASSUME NEW p \in Pages(b) PROVE NoFrame(z, p)
  <2>1. p \in Page /\ Idle(a, p)
    BY <1>3 DEF AllIdle
  <2>2. CASE p \in t.allocated
    BY <1>16, <2>1, <2>2 DEF NoFrame
  <2>3. CASE p \notin t.allocated
    <3>1. p \notin a.allocated /\ p \in N
      BY <1>1, <2>3
    <3>2. z.pages[p] = a.pages[p] /\ a.pages[p] = Nothing
      BY <1>16, <2>1, <2>3, <3>1 DEF Idle, NoFrame
    <3>. QED  BY <1>16, <2>3, <3>2 DEF NoFrame
  <2>. QED  BY <2>2, <2>3
<1>19. ASSUME NEW p \in K PROVE p \notin z.allocated /\ z.pages[p] = Nothing
  <2>1. CASE p \in Pages(b)
    BY <1>18, <2>1 DEF NoFrame
  <2>2. CASE p \notin Pages(b)
    <3>1. p \in L /\ p \in Page
      BY <1>2, <1>12, <2>2
    <3>2. SameFrame(z, a, p)
      BY <1>17, <2>2, <3>1
    <3>. QED  BY <1>2, <3>1, <3>2 DEF SameFrame, Fulls
  <2>. QED  BY <2>1, <2>2
<1>20. \A c \in Tree(z) : c.size > 1 /\ Pages(c) \cap T # {} => c \in z.split
  <2>1. T \ Pages(b) = T
    BY <1>3
  <2>. QED  BY <1>10, <2>1
<1>21. \A c \in z.split : c.size > 1 /\ Pages(c) \cap (T \cup K) # {}
  BY <1>10, <1>12
<1>22. T \cup K \subseteq Pages(Root(z))
  <2>1. Pages(b) \subseteq Pages(Root(a))
    BY <1>2, <1>3, FullsIs
  <2>. QED  BY <1>2, <1>8, <1>12, <2>1 DEF Fulls
<1>. HIDE DEF K
<1>23. Fulls(z, U, T, K)
  BY <1>2, <1>7, <1>11, <1>12, <1>13, <1>14, <1>15, <1>19, <1>20, <1>22 DEF Fulls
<1>24. Shows(z, U, T, K)
  BY <1>21, <1>23 DEF Shows
<1>25. Calm(z, a, T)
  BY <1>3, <1>17, <1>18 DEF Calm, Idle
<1>26. Back(z, a, U, T, L, fails)
  BY <1>7, <1>12, <1>24, <1>25 DEF Back
<1>. QED  BY <1>1, <1>26 DEF Failed, NoBlock

-----------------------------------------------------------------------------
(* Freeing one block after the other                                       *)

LEMMA Steps ==
  ASSUME NEW n \in Nat, NEW S, 0 \in S, \A i \in 1 .. n : i - 1 \in S => i \in S
  PROVE  \A i \in 0 .. n : i \in S
<1>. DEFINE Bad == {i \in 0 .. n : i \notin S}
<1>1. SUFFICES ASSUME Bad # {} PROVE FALSE
  OBVIOUS
<1>2. Bad \in SUBSET Nat
  OBVIOUS
<1>3. PICK m \in Bad : \A j \in Bad : m <= j
  BY <1>1, <1>2, Smallest
<1>4. m \in 1 .. n /\ m - 1 \in 0 .. n /\ m - 1 \notin Bad
  BY <1>3
<1>. QED  BY <1>3, <1>4

FreeStep(a, blocks, actual, p) ==
  IF Begins(blocks, p) THEN FreeBlock(a, At(blocks, p), TRUE, actual) ELSE a
IsFreed(f, a, blocks, actual, order, n) ==
  f = [i \in 0 .. n |->
         IF i = 0 THEN a
         ELSE IF Begins(blocks, order[i])
         THEN FreeBlock(f[i - 1], At(blocks, order[i]), TRUE, actual)
         ELSE f[i - 1]]

LEMMA FreedExists ==
  ASSUME NEW a, NEW blocks, NEW actual, NEW order
  PROVE  \A n \in Nat : \E f : IsFreed(f, a, blocks, actual, order, n)
<1>. DEFINE S == {n \in Nat : \E f : IsFreed(f, a, blocks, actual, order, n)}
<1>1. 0 \in S
  <2>1. IsFreed([i \in 0 .. 0 |-> a], a, blocks, actual, order, 0)
    BY DEF IsFreed
  <2>. QED  BY <2>1
<1>2. ASSUME NEW n \in Nat, n # 0, n - 1 \in S PROVE n \in S
  <2>1. PICK f : IsFreed(f, a, blocks, actual, order, n - 1)
    BY <1>2
  <2>. DEFINE g == [i \in 0 .. n |-> IF i = n THEN FreeStep(f[n - 1], blocks, actual, order[n]) ELSE f[i]]
  <2>2. g = [i \in 0 .. n |-> g[i]]
    OBVIOUS
  <2>3. ASSUME NEW i \in 0 .. n
        PROVE  g[i] = IF i = 0 THEN a
                      ELSE IF Begins(blocks, order[i])
                      THEN FreeBlock(g[i - 1], At(blocks, order[i]), TRUE, actual)
                      ELSE g[i - 1]
    <3>1. CASE i = n
      <4>1. i # 0 /\ g[i - 1] = f[i - 1] /\ g[i] = FreeStep(f[i - 1], blocks, actual, order[i])
        BY <1>2, <3>1
      <4>. HIDE DEF g
      <4>. QED  BY <4>1 DEF FreeStep
    <3>2. CASE i # n
      <4>1. i \in 0 .. n - 1 /\ (i # 0 => g[i - 1] = f[i - 1]) /\ g[i] = f[i]
        BY <3>2
      <4>2. f[i] = IF i = 0 THEN a
                   ELSE IF Begins(blocks, order[i])
                   THEN FreeBlock(f[i - 1], At(blocks, order[i]), TRUE, actual)
                   ELSE f[i - 1]
        BY <2>1, <4>1 DEF IsFreed
      <4>. QED  BY <4>1, <4>2
    <3>. QED  BY <3>1, <3>2
  <2>4. IsFreed(g, a, blocks, actual, order, n)
    BY <2>2, <2>3 DEF IsFreed
  <2>. QED  BY <2>4
<1>3. ASSUME NEW n \in Nat PROVE n \in S
  <2>1. \A i \in 1 .. n : i - 1 \in S => i \in S
    BY <1>2
  <2>2. \A i \in 0 .. n : i \in S
    BY <1>1, <2>1, Steps
  <2>. QED  BY <2>2
<1>. QED  BY <1>3

LEMMA FreedRun ==
  ASSUME NEW a, NEW blocks, NEW actual, NEW order
  PROVE  \E f : /\ f[0] = a /\ FreeBlocks(a, blocks, actual, order) = f[MaxSize]
                /\ \A i \in 1 .. MaxSize : f[i] = FreeStep(f[i - 1], blocks, actual, order[i])
<1>. DEFINE f == CHOOSE f : IsFreed(f, a, blocks, actual, order, MaxSize)
<1>1. IsFreed(f, a, blocks, actual, order, MaxSize) /\ MaxSize \in Nat
  BY FreedExists, UserMapAssumption
<1>2. FreeBlocks(a, blocks, actual, order) = f[MaxSize]
  BY DEF FreeBlocks, IsFreed
<1>. HIDE DEF f
<1>3. f[0] = a
  BY <1>1 DEF IsFreed
<1>4. ASSUME NEW i \in 1 .. MaxSize PROVE f[i] = FreeStep(f[i - 1], blocks, actual, order[i])
  <2>1. i \in 0 .. MaxSize /\ i # 0
    BY <1>1
  <2>. QED  BY <1>1, <2>1 DEF IsFreed, FreeStep
<1>. QED  BY <1>2, <1>3, <1>4
\* Both orders come to every page.
Order == {Up, Down}
LEMMA OrderIs ==
  ASSUME NEW order \in Order
  PROVE  /\ \A i \in 1 .. MaxSize : order[i] \in Page
         /\ \A p \in Page : \E i \in 1 .. MaxSize : order[i] = p
<1>1. MaxSize \in Nat
  BY UserMapAssumption
<1>2. ASSUME order = Up
      PROVE  /\ \A i \in 1 .. MaxSize : order[i] \in Page
             /\ \A p \in Page : \E i \in 1 .. MaxSize : order[i] = p
  <2>1. ASSUME NEW p \in Page PROVE p + 1 \in 1 .. MaxSize /\ order[p + 1] = p
    BY <1>1, <1>2 DEF Up, Page
  <2>. QED  BY <1>1, <1>2, <2>1 DEF Up, Page
<1>3. ASSUME order = Down
      PROVE  /\ \A i \in 1 .. MaxSize : order[i] \in Page
             /\ \A p \in Page : \E i \in 1 .. MaxSize : order[i] = p
  <2>1. ASSUME NEW p \in Page PROVE MaxSize - p \in 1 .. MaxSize /\ order[MaxSize - p] = p
    BY <1>1, <1>3 DEF Down, Page
  <2>. QED  BY <1>1, <1>3, <2>1 DEF Down, Page
<1>. QED  BY <1>2, <1>3 DEF Order

\* What a set of blocks or mappings needs for At to find each of them.
Starts(S) == \A b, c \in S : b.at = c.at => b = c
LEMMA AtIs ==
  ASSUME NEW S, Starts(S), NEW p, Begins(S, p)
  PROVE  At(S, p) \in S /\ At(S, p).at = p /\ \A b \in S : b.at = p => b = At(S, p)
BY DEF Starts, Begins, At

Union(S) == UNION {Pages(b) : b \in S}

\* The blocks that begin at the pages of the first i steps.
Behind(S, order, i) == {b \in S : \E j \in 1 .. i : order[j] = b.at}

LEMMA BehindNext ==
  ASSUME NEW S, Starts(S), NEW order, NEW i \in Nat, i # 0
  PROVE  /\ Begins(S, order[i]) =>
              Behind(S, order, i) = Behind(S, order, i - 1) \cup {At(S, order[i])}
         /\ ~Begins(S, order[i]) => Behind(S, order, i) = Behind(S, order, i - 1)
<1>1. \A j : j \in 1 .. i <=> j \in 1 .. i - 1 \/ j = i
  OBVIOUS
<1>2. \A b \in S : b \in Behind(S, order, i) <=> b \in Behind(S, order, i - 1) \/ b.at = order[i]
  BY <1>1 DEF Behind
<1>3. Behind(S, order, i) \subseteq S /\ Behind(S, order, i - 1) \subseteq S
  BY DEF Behind
<1>4. ASSUME Begins(S, order[i])
      PROVE  Behind(S, order, i) = Behind(S, order, i - 1) \cup {At(S, order[i])}
  <2>1. At(S, order[i]) \in S /\ \A b \in S : b.at = order[i] <=> b = At(S, order[i])
    BY <1>4, AtIs
  <2>. QED  BY <1>2, <1>3, <2>1
<1>5. ASSUME ~Begins(S, order[i]) PROVE Behind(S, order, i) = Behind(S, order, i - 1)
  BY <1>2, <1>3, <1>5 DEF Begins
<1>. QED  BY <1>4, <1>5

LEMMA BehindAll ==
  ASSUME NEW S, NEW order \in Order, \A b \in S : b.at \in Page
  PROVE  Behind(S, order, 0) = {} /\ Behind(S, order, MaxSize) = S
BY OrderIs DEF Behind

\* After blocks have been freed, in whatever order, the tree is as if their
\* pages had never been mapped.
FreedTo(x, a, U, T, L, R, actual) ==
  Shows(x, U \ R, T \ R, L) /\ x.size = a.size /\ Frames(x) = Without(a, R, actual)

LEMMA FreedMore ==
  ASSUME NEW a, NEW U, NEW T, NEW L, NEW x, NEW R, NEW actual, FreedTo(x, a, U, T, L, R, actual),
         NEW b \in Tree(a), Pages(b) \subseteq U \ R
  PROVE  FreedTo(FreeBlock(x, b, TRUE, actual), a, U, T, L, R \cup Pages(b), actual)
<1>1. PICK y : y = FreeBlock(x, b, TRUE, actual)
  OBVIOUS
<1>2. b \in Tree(x) /\ x.size = a.size /\ Frames(x) = Without(a, R, actual)
  BY DEF Tree, Root, FreedTo
<1>3. Shows(y, (U \ R) \ Pages(b), (T \ R) \ Pages(b), L) /\ y.size = x.size
      /\ Frames(y) = Without(x, Pages(b), actual)
  <2>1. PICK V, S : V = U \ R /\ S = T \ R
    OBVIOUS
  <2>2. Shows(x, V, S, L) /\ Pages(b) \subseteq V
    BY <2>1 DEF FreedTo
  <2>3. /\ Shows(FreeBlock(x, b, TRUE, actual), V \ Pages(b), S \ Pages(b), L)
        /\ FreeBlock(x, b, TRUE, actual).size = x.size
        /\ Frames(FreeBlock(x, b, TRUE, actual)) = Without(x, Pages(b), actual)
    <3>1. b \in Tree(x) /\ Shows(x, V, S, L) /\ Pages(b) \subseteq V
      BY <1>2, <2>2
    <3>2. FreesIts(FreeBlock(x, b, TRUE, actual), x, V, S, L, b, actual)
      BY <3>1, FreeShows
    <3>. QED  BY <3>2 DEF FreesIts
  <2>. QED  BY <1>1, <2>1, <2>3
<1>4. (U \ R) \ Pages(b) = U \ (R \cup Pages(b)) /\ (T \ R) \ Pages(b) = T \ (R \cup Pages(b))
  OBVIOUS
<1>5. /\ x.allocated = (IF actual THEN a.allocated \ R ELSE a.allocated)
      /\ x.pages = [p \in Page |-> IF actual /\ p \in R \cap a.allocated THEN Nothing ELSE a.pages[p]]
  BY <1>2 DEF Frames, Without
<1>6. Without(x, Pages(b), actual) = Without(a, R \cup Pages(b), actual)
  <2>1. Without(x, Pages(b), actual).allocated = Without(a, R \cup Pages(b), actual).allocated
    BY <1>5 DEF Without
  <2>2. Without(x, Pages(b), actual).pages = Without(a, R \cup Pages(b), actual).pages
    BY <1>5 DEF Without
  <2>. QED  BY <2>1, <2>2 DEF Without
<1>. QED  BY <1>1, <1>2, <1>3, <1>4, <1>6 DEF FreedTo

Apart(S) == \A b, c \in S : b # c => Pages(b) \cap Pages(c) = {}

LEMMA FreedShows ==
  ASSUME NEW a, NEW U, NEW T, NEW L, Shows(a, U, T, L), NEW blocks, blocks \subseteq Tree(a),
         Starts(blocks), Apart(blocks), Union(blocks) \subseteq U,
         NEW actual, NEW order \in Order
  PROVE  FreedTo(FreeBlocks(a, blocks, actual, order), a, U, T, L, Union(blocks), actual)
<1>1. PICK f : /\ f[0] = a /\ FreeBlocks(a, blocks, actual, order) = f[MaxSize]
               /\ \A i \in 1 .. MaxSize : f[i] = FreeStep(f[i - 1], blocks, actual, order[i])
  BY FreedRun
<1>2. a \in Area /\ a.size \in Size /\ MaxSize \in Nat
  BY UserMapAssumption DEF Shows, Fulls, Area
<1>3. \A b \in blocks : b.at \in Page
  BY <1>2, TreeIs, BlockIs
<1>. DEFINE B(i) == Behind(blocks, order, i)
<1>. DEFINE S == {i \in 0 .. MaxSize : FreedTo(f[i], a, U, T, L, Union(B(i)), actual)}
<1>4. 0 \in S
  <2>1. B(0) = {}
    BY <1>3, BehindAll
  <2>2. Union(B(0)) = {} /\ U \ {} = U /\ T \ {} = T
    BY <2>1 DEF Union
  <2>3. a.pages \in [Page -> Content \cup {Nothing}]
    BY <1>2 DEF Area
  <2>4. Frames(a) = Without(a, {}, actual)
    BY <2>3 DEF Frames, Without
  <2>5. FreedTo(a, a, U, T, L, {}, actual)
    BY <2>2, <2>4 DEF FreedTo
  <2>. QED  BY <1>1, <1>2, <2>2, <2>5
<1>5. ASSUME NEW i \in 1 .. MaxSize, i - 1 \in S PROVE i \in S
  <2>1. /\ f[i] = FreeStep(f[i - 1], blocks, actual, order[i])
        /\ FreedTo(f[i - 1], a, U, T, L, Union(B(i - 1)), actual)
    BY <1>1, <1>5
  <2>0. i \in Nat /\ i # 0 /\ i \in 0 .. MaxSize
    BY <1>2
  <2>2. CASE Begins(blocks, order[i])
    <3>1. PICK b \in blocks : b = At(blocks, order[i])
      BY <2>2, AtIs
    <3>2. B(i) = B(i - 1) \cup {b}
      BY <2>0, <2>2, <3>1, BehindNext
    <3>3. Union(B(i)) = Union(B(i - 1)) \cup Pages(b)
      BY <3>2 DEF Union
    <3>4. f[i] = FreeBlock(f[i - 1], b, TRUE, actual)
      BY <2>1, <2>2, <3>1 DEF FreeStep
    <3>5. Pages(b) \subseteq U \ Union(B(i - 1))
      <4>1. \A c \in B(i - 1) : c \in blocks /\ c # b
        <5>1. ASSUME b \in B(i - 1) PROVE FALSE
          <6>1. PICK j \in 1 .. i - 1 : order[j] = b.at
            BY <5>1 DEF Behind
          <6>2. order[i] = b.at
            BY <2>2, <3>1, AtIs
          <6>3. order[j] # order[i]
            BY <1>2, <6>1 DEF Order, Up, Down
          <6>. QED  BY <6>1, <6>2, <6>3
        <5>. QED  BY <5>1 DEF Behind
      <4>2. \A c \in B(i - 1) : Pages(b) \cap Pages(c) = {}
        BY <4>1 DEF Apart
      <4>3. Pages(b) \subseteq U
        BY DEF Union
      <4>. HIDE DEF B
      <4>. QED  BY <4>2, <4>3 DEF Union
    <3>6. FreedTo(FreeBlock(f[i - 1], b, TRUE, actual), a, U, T, L, Union(B(i - 1)) \cup Pages(b), actual)
      <4>1. PICK x, R : x = f[i - 1] /\ R = Union(B(i - 1))
        OBVIOUS
      <4>2. FreedTo(x, a, U, T, L, R, actual) /\ b \in Tree(a) /\ Pages(b) \subseteq U \ R
        BY <2>1, <3>5, <4>1
      <4>3. FreedTo(FreeBlock(x, b, TRUE, actual), a, U, T, L, R \cup Pages(b), actual)
        BY <4>2, FreedMore
      <4>. QED  BY <4>1, <4>3
    <3>7. FreedTo(f[i], a, U, T, L, Union(B(i)), actual)
      BY <3>3, <3>4, <3>6
    <3>. QED  BY <2>0, <3>7
  <2>3. CASE ~Begins(blocks, order[i])
    <3>1. B(i) = B(i - 1) /\ f[i] = f[i - 1]
      BY <2>0, <2>1, <2>3, BehindNext DEF FreeStep
    <3>. QED  BY <2>0, <2>1, <3>1
  <2>. QED  BY <2>2, <2>3
<1>6. MaxSize \in S
  <2>. HIDE DEF S
  <2>. QED  BY <1>2, <1>4, <1>5, Steps
<1>7. B(MaxSize) = blocks
  BY <1>3, BehindAll
<1>. QED  BY <1>1, <1>6, <1>7

-----------------------------------------------------------------------------
(* Pieces                                                                  *)

Fit(at, len) == {b \in Block : Pages(b) \subseteq Span(at, len)}

\* Each page of the range is in one of its biggest blocks.
LEMMA PiecesCover ==
  ASSUME NEW at \in Nat, NEW len \in Nat, at + len <= MaxSize, NEW p \in Span(at, len)
  PROVE  \E b \in Pieces(at, len) : p \in Pages(b)
<1>1. MaxSize \in Nat /\ p \in Page
  BY UserMapAssumption DEF Span, Page
<1>. DEFINE R == {MaxSize - b.size : b \in {c \in Fit(at, len) : p \in Pages(c)}}
<1>2. \A b \in Block : b.size \in Nat /\ MaxSize - b.size \in Nat
  BY <1>1, BlockIs
<1>3. R \in SUBSET Nat
  BY <1>2 DEF Fit
<1>4. R # {}
  <2>1. Leaf(p) \in Fit(at, len) /\ p \in Pages(Leaf(p))
    BY <1>1, LeafIs DEF Fit
  <2>. QED  BY <2>1
<1>5. PICK m \in R : \A j \in R : m <= j
  BY <1>3, <1>4, Smallest
<1>6. PICK b \in Fit(at, len) : p \in Pages(b) /\ m = MaxSize - b.size
  BY <1>5
<1>7. ASSUME NEW c \in Fit(at, len), Inside(b, c) PROVE c = b
  <2>1. b \in Block /\ c \in Block
    BY DEF Fit
  <2>2. p \in Pages(c) /\ b.size <= c.size
    BY <1>6, <1>7, <2>1, InsidePages
  <2>3. MaxSize - b.size <= MaxSize - c.size
    BY <1>5, <1>6, <2>2
  <2>4. b.size = c.size
    BY <1>1, <1>2, <2>1, <2>2, <2>3
  <2>. QED  BY <1>7, <2>1, <2>4, InsidePages
<1>. QED  BY <1>6, <1>7 DEF Pieces, Fit

LEMMA PiecesIs ==
  ASSUME NEW at \in Nat, NEW len \in Nat, at + len <= MaxSize
  PROVE  /\ \A b \in Pieces(at, len) : b \in Block /\ Pages(b) \subseteq Span(at, len)
         /\ Union(Pieces(at, len)) = Span(at, len)
         /\ \A b, c \in Pieces(at, len) : b # c => Pages(b) \cap Pages(c) = {}
         /\ Starts(Pieces(at, len))
<1>1. \A b \in Pieces(at, len) : b \in Block /\ Pages(b) \subseteq Span(at, len)
  BY DEF Pieces
<1>2. Union(Pieces(at, len)) = Span(at, len)
  <2>1. \A p \in Span(at, len) : p \in Union(Pieces(at, len))
    BY PiecesCover DEF Union
  <2>2. \A p \in Union(Pieces(at, len)) : p \in Span(at, len)
    BY <1>1 DEF Union
  <2>. QED  BY <2>1, <2>2
<1>3. ASSUME NEW b \in Pieces(at, len), NEW c \in Pieces(at, len), NEW p \in Pages(b), p \in Pages(c)
      PROVE  b = c
  <2>1. Inside(b, c) \/ Inside(c, b)
    BY <1>1, <1>3, Laminar, InsidePages
  <2>. QED  BY <2>1 DEF Pieces
<1>4. Starts(Pieces(at, len))
  <2>1. \A b \in Pieces(at, len) : b.at \in Pages(b)
    BY <1>1, HasPage
  <2>. QED  BY <1>3, <2>1 DEF Starts
<1>. QED  BY <1>1, <1>2, <1>3, <1>4

\* kfree of a range of mapped pages, whatever it cuts through.
LEMMA RangeFreed ==
  ASSUME NEW a, NEW U, NEW T, NEW L, Shows(a, U, T, L), NEW at \in Nat, NEW len \in Nat,
         at + len <= a.size, Span(at, len) \subseteq U, NEW actual, NEW order \in Order
  PROVE  FreedTo(FreeBlocks(a, Pieces(at, len), actual, order), a, U, T, L, Span(at, len), actual)
<1>1. a.size \in Size /\ a.size \in Nat /\ MaxSize \in Nat /\ a.size <= MaxSize
  BY SizeNat, UserMapAssumption DEF Shows, Fulls, Area
<1>2. at + len <= MaxSize
  BY <1>1
<1>3. Pieces(at, len) \subseteq Tree(a)
  <2>1. Span(at, len) \subseteq Pages(Root(a))
    BY <1>1, RootIs DEF Span
  <2>. QED  BY <1>1, <1>2, <2>1, PiecesIs, TreeIs
<1>4. /\ Starts(Pieces(at, len)) /\ Union(Pieces(at, len)) = Span(at, len)
      /\ Apart(Pieces(at, len))
  BY <1>2, PiecesIs DEF Apart
<1>. QED  BY <1>3, <1>4, FreedShows

LEMMA FreeRangeIs ==
  ASSUME NEW a, NEW U, NEW T, NEW L, Shows(a, U, T, L), NEW at \in Nat, NEW len \in Nat,
         at + len <= a.size, Span(at, len) \subseteq U, NEW actual
  PROVE  FreedTo(FreeRange(a, at, len, actual), a, U, T, L, Span(at, len), actual)
BY RangeFreed DEF FreeRange, Order

-----------------------------------------------------------------------------
(* Allocating one block after the other                                    *)

RoundedOf(len) == CHOOSE s \in Size : s >= len /\ s < 2 * len

LEMMA RoundedIs ==
  ASSUME NEW len \in 1 .. MaxSize
  PROVE  RoundedOf(len) \in Size /\ RoundedOf(len) >= len /\ RoundedOf(len) < 2 * len
<1>. DEFINE R == {s \in Size : s >= len}
<1>1. len \in Nat /\ len >= 1 /\ len <= MaxSize /\ MaxSize \in Nat /\ MaxSize \in Size
  BY UserMapAssumption
<1>2. R \in SUBSET Nat /\ R # {}
  BY <1>1, SizeNat
<1>3. PICK s \in R : \A j \in R : s <= j
  BY <1>2, Smallest
<1>4. s \in Nat /\ s >= len /\ s \in Size
  BY <1>2, <1>3
<1>5. CASE s = 1
  BY <1>1, <1>4, <1>5 DEF RoundedOf
<1>6. CASE s # 1
  <2>1. PICK h \in Size : s = 2 * h /\ h < s
    BY <1>1, <1>4, <1>6, Halves
  <2>2. h \in Nat /\ h \notin R
    BY <1>3, <1>4, <2>1, SizeNat
  <2>3. s < 2 * len
    BY <1>1, <2>1, <2>2
  <2>. QED  BY <1>4, <2>3 DEF RoundedOf
<1>. QED  BY <1>5, <1>6

IsDone(f, w, pieces, big, actual, fails, n) ==
  f = [i \in 0 .. n |->
         IF i = 0 THEN Got(w, big.at)
         ELSE IF Begins(pieces, Up[i])
         THEN AllocPiece(f[i - 1], At(pieces, Up[i]), big, actual, fails)
         ELSE f[i - 1]]
DoneStep(r, pieces, big, actual, fails, p) ==
  IF Begins(pieces, p) THEN AllocPiece(r, At(pieces, p), big, actual, fails) ELSE r

LEMMA DoneExists ==
  ASSUME NEW w, NEW pieces, NEW big, NEW actual, NEW fails
  PROVE  \A n \in Nat : \E f : IsDone(f, w, pieces, big, actual, fails, n)
<1>. DEFINE S == {n \in Nat : \E f : IsDone(f, w, pieces, big, actual, fails, n)}
<1>. DEFINE first == Got(w, big.at)
<1>1. 0 \in S
  <2>1. IsDone([i \in 0 .. 0 |-> first], w, pieces, big, actual, fails, 0)
    BY DEF IsDone
  <2>. QED  BY <2>1
<1>2. ASSUME NEW n \in Nat, n # 0, n - 1 \in S PROVE n \in S
  <2>1. PICK f : IsDone(f, w, pieces, big, actual, fails, n - 1)
    BY <1>2
  <2>. DEFINE g == [i \in 0 .. n |-> IF i = n THEN DoneStep(f[n - 1], pieces, big, actual, fails, Up[n])
                                     ELSE f[i]]
  <2>2. g = [i \in 0 .. n |-> g[i]]
    OBVIOUS
  <2>3. ASSUME NEW i \in 0 .. n
        PROVE  g[i] = IF i = 0 THEN first
                      ELSE IF Begins(pieces, Up[i])
                      THEN AllocPiece(g[i - 1], At(pieces, Up[i]), big, actual, fails)
                      ELSE g[i - 1]
    <3>1. CASE i = n
      <4>1. i # 0 /\ g[i - 1] = f[i - 1] /\ g[i] = DoneStep(f[i - 1], pieces, big, actual, fails, Up[i])
        BY <1>2, <3>1
      <4>. HIDE DEF g
      <4>. QED  BY <4>1 DEF DoneStep
    <3>2. CASE i # n
      <4>1. i \in 0 .. n - 1 /\ (i # 0 => g[i - 1] = f[i - 1]) /\ g[i] = f[i]
        BY <3>2
      <4>2. f[i] = IF i = 0 THEN first
                   ELSE IF Begins(pieces, Up[i])
                   THEN AllocPiece(f[i - 1], At(pieces, Up[i]), big, actual, fails)
                   ELSE f[i - 1]
        BY <2>1, <4>1 DEF IsDone
      <4>. QED  BY <4>1, <4>2
    <3>. QED  BY <3>1, <3>2
  <2>4. IsDone(g, w, pieces, big, actual, fails, n)
    BY <2>2, <2>3 DEF IsDone
  <2>. QED  BY <2>4
<1>3. ASSUME NEW n \in Nat PROVE n \in S
  <2>1. \A i \in 1 .. n : i - 1 \in S => i \in S
    BY <1>2
  <2>2. \A i \in 0 .. n : i \in S
    BY <1>1, <2>1, Steps
  <2>. QED  BY <2>2
<1>. QED  BY <1>3

\* The answer of a multi-step allocation: its last step.
DoneRun(f, w, pieces, big, actual, fails) ==
  /\ f[0] = Got(w, big.at)
  /\ \A i \in 1 .. MaxSize : f[i] = DoneStep(f[i - 1], pieces, big, actual, fails, Up[i])

LEMMA AllocIs ==
  ASSUME NEW a, NEW len, NEW actual, NEW fails
  PROVE  LET s   == RoundedOf(len)
             hit == Candidates(a, s, Root(a))
             w   == Searched(a, s, Root(a))
             r   == Alloc(a, len, actual, fails)
         IN  /\ len > a.size => r = NoBlock(a)
             /\ ~(len > a.size) /\ s = len => r = AllocBlock(a, len, Root(a), actual, fails)
             /\ ~(len > a.size) /\ s # len /\ hit = {} => r = NoBlock(w)
             /\ ~(len > a.size) /\ s # len /\ hit # {} =>
                  \E f : DoneRun(f, w, Pieces(First(hit).at, len), First(hit), actual, fails)
                         /\ r = f[MaxSize]
<1>. DEFINE s == RoundedOf(len)
<1>. DEFINE hit == Candidates(a, s, Root(a))
<1>. DEFINE w == Searched(a, s, Root(a))
<1>. DEFINE r == Alloc(a, len, actual, fails)
<1>. DEFINE pieces == Pieces(First(hit).at, len)
<1>. DEFINE f == CHOOSE f : IsDone(f, w, pieces, First(hit), actual, fails, MaxSize)
<1>1. IsDone(f, w, pieces, First(hit), actual, fails, MaxSize) /\ MaxSize \in Nat
  BY DoneExists, UserMapAssumption
<1>2. r = IF len > a.size THEN NoBlock(a)
          ELSE IF s = len THEN AllocBlock(a, len, Root(a), actual, fails)
          ELSE IF hit = {} THEN NoBlock(w)
          ELSE f[MaxSize]
  BY DEF Alloc, IsDone, RoundedOf
<1>. HIDE DEF f, r, s, hit, w, pieces
<1>3. DoneRun(f, w, pieces, First(hit), actual, fails)
  <2>1. f[0] = Got(w, First(hit).at)
    BY <1>1 DEF IsDone
  <2>2. ASSUME NEW i \in 1 .. MaxSize
        PROVE  f[i] = DoneStep(f[i - 1], pieces, First(hit), actual, fails, Up[i])
    <3>1. i \in 0 .. MaxSize /\ i # 0
      BY <1>1
    <3>. QED  BY <1>1, <3>1 DEF IsDone, DoneStep
  <2>. QED  BY <2>1, <2>2 DEF DoneRun
<1>. QED  BY <1>2, <1>3 DEF f, r, s, hit, w, pieces
\* Before a piece come exactly the pages of the range before it.
Before(S, p) == {b \in S : b.at < p}

LEMMA BeforeIs ==
  ASSUME NEW at \in Nat, NEW len \in Nat, at + len <= MaxSize, NEW b \in Pieces(at, len)
  PROVE  /\ Union(Before(Pieces(at, len), b.at)) = Span(at, b.at - at)
         /\ b.at - at \in Nat
<1>1. /\ \A c \in Pieces(at, len) : c \in Block /\ Pages(c) \subseteq Span(at, len)
      /\ Union(Pieces(at, len)) = Span(at, len)
      /\ \A c, d \in Pieces(at, len) : c # d => Pages(c) \cap Pages(d) = {}
  BY PiecesIs
<1>2. /\ b.at \in Nat /\ b.at \in Pages(b) /\ b.at \in Span(at, len)
      /\ b.at >= at /\ b.at < at + len
  BY <1>1, HasPage, BlockIs DEF Span
<1>3. ASSUME NEW p \in Union(Before(Pieces(at, len), b.at)) PROVE p \in Span(at, b.at - at)
  <2>1. PICK c \in Pieces(at, len) : c.at < b.at /\ p \in Pages(c)
    BY DEF Union, Before
  <2>2. c.at \in Nat /\ p \in Int /\ c.at <= p /\ p < c.at + c.size /\ c.size \in Nat /\ p \in Span(at, len)
    BY <1>1, <2>1, PagesIs, BlockIs
  <2>3. b # c
    BY <1>2, <2>1, <2>2
  <2>4. b.at \notin Pages(c)
    BY <1>1, <1>2, <2>3
  <2>5. ~(b.at < c.at + c.size)
    BY <1>1, <1>2, <2>1, <2>2, <2>4, PagesIs
  <2>. QED  BY <1>2, <2>2, <2>5 DEF Span
<1>4. ASSUME NEW p \in Span(at, b.at - at) PROVE p \in Union(Before(Pieces(at, len), b.at))
  <2>1. p \in Int /\ p < b.at /\ p \in Span(at, len)
    BY <1>2 DEF Span
  <2>2. PICK c \in Pieces(at, len) : p \in Pages(c)
    BY <1>1, <2>1 DEF Union
  <2>3. c.at <= p /\ c.at \in Nat
    BY <1>1, <2>2, PagesIs, BlockIs
  <2>. QED  BY <1>2, <2>1, <2>2, <2>3 DEF Union, Before
<1>5. Union(Before(Pieces(at, len), b.at)) = Span(at, b.at - at)
  <2>. DEFINE A == Union(Before(Pieces(at, len), b.at))
  <2>. DEFINE B == Span(at, b.at - at)
  <2>1. \A p \in A : p \in B
    BY <1>3
  <2>2. \A p \in B : p \in A
    BY <1>4
  <2>. HIDE DEF A, B
  <2>3. A = B
    BY <2>1, <2>2
  <2>. QED  BY <2>3 DEF A, B
<1>. QED  BY <1>2, <1>5

LEMMA BehindUp ==
  ASSUME NEW S, \A b \in S : b.at \in Page, NEW i \in 0 .. MaxSize
  PROVE  Behind(S, Up, i) = Before(S, i)
<1>1. MaxSize \in Nat
  BY UserMapAssumption
<1>2. ASSUME NEW b \in S, b.at < i PROVE \E j \in 1 .. i : Up[j] = b.at
  <2>1. b.at + 1 \in 1 .. i /\ Up[b.at + 1] = b.at
    BY <1>1, <1>2 DEF Up, Page
  <2>. QED  BY <2>1
<1>3. ASSUME NEW b \in S, NEW j \in 1 .. i, Up[j] = b.at PROVE b.at < i
  BY <1>1, <1>3 DEF Up
<1>. QED  BY <1>2, <1>3 DEF Behind, Before

\* What happens to the memory.
LEMMA FramesCalm ==
  ASSUME NEW x, NEW a, Frames(x) = Frames(a), NEW T
  PROVE  Calm(x, a, T)
<1>1. x.allocated = a.allocated /\ x.pages = a.pages
  BY DEF Frames
<1>. QED  BY <1>1 DEF Calm, SameFrame

LEMMA WithMore ==
  ASSUME NEW x, NEW a, NEW R, NEW P, NEW actual, NEW y,
         Frames(x) = With(a, R, actual), Frames(y) = With(x, P, actual)
  PROVE  Frames(y) = With(a, R \cup P, actual)
<1>1. /\ x.allocated = IF actual THEN a.allocated \cup R ELSE a.allocated
      /\ x.pages = [p \in Page |-> IF actual /\ p \in R \ a.allocated THEN Zero ELSE a.pages[p]]
  BY DEF Frames, With
<1>2. With(x, P, actual).allocated = With(a, R \cup P, actual).allocated
  BY <1>1 DEF With
<1>3. With(x, P, actual).pages = With(a, R \cup P, actual).pages
  BY <1>1 DEF With
<1>. QED  BY <1>2, <1>3 DEF With

LEMMA WithNone ==
  ASSUME NEW a \in Area, NEW w, Frames(w) = Frames(a), NEW actual
  PROVE  Frames(w) = With(a, {}, actual)
<1>1. a.pages \in [Page -> Content \cup {Nothing}]
  BY DEF Area
<1>2. With(a, {}, actual).allocated = a.allocated /\ With(a, {}, actual).pages = a.pages
  BY <1>1 DEF With
<1>. QED  BY <1>2 DEF Frames, With

LEMMA WithIdle ==
  ASSUME NEW a, NEW x, NEW R, NEW actual, Frames(x) = With(a, R, actual), NEW T, AllIdle(a, T)
  PROVE  AllIdle(x, T \cup R)
<1>1. /\ x.allocated = IF actual THEN a.allocated \cup R ELSE a.allocated
      /\ x.pages = [p \in Page |-> IF actual /\ p \in R \ a.allocated THEN Zero ELSE a.pages[p]]
  BY DEF Frames, With
<1>2. ASSUME NEW p \in Page, p \notin T, p \notin R PROVE Idle(x, p)
  <2>1. Idle(a, p)
    BY <1>2 DEF AllIdle
  <2>2. x.pages[p] = a.pages[p] /\ (p \in x.allocated <=> p \in a.allocated)
    BY <1>1, <1>2
  <2>. QED  BY <2>1, <2>2 DEF Idle, NoFrame
<1>. QED  BY <1>2 DEF AllIdle

\* Taking pages and giving them back, after a failure.
LEMMA WithWithout ==
  ASSUME NEW a, NEW y, NEW x, NEW z, NEW R, NEW actual, NEW T, R \cap T = {},
         Frames(y) = With(a, R, actual), Calm(x, y, T \cup R), Frames(z) = Without(x, R, actual)
  PROVE  Calm(z, a, T)
<1>1. /\ y.allocated = IF actual THEN a.allocated \cup R ELSE a.allocated
      /\ y.pages = [p \in Page |-> IF actual /\ p \in R \ a.allocated THEN Zero ELSE a.pages[p]]
  BY DEF Frames, With
<1>2. /\ z.allocated = IF actual THEN x.allocated \ R ELSE x.allocated
      /\ z.pages = [p \in Page |-> IF actual /\ p \in R \cap x.allocated THEN Nothing ELSE x.pages[p]]
  BY DEF Frames, Without
<1>3. ASSUME NEW p \in Page PROVE SameFrame(z, a, p) \/ (p \notin T /\ Idle(z, p))
  <2>0. SameFrame(x, y, p) \/ (p \notin T \cup R /\ Idle(x, p))
    BY DEF Calm
  <2>1. CASE actual /\ p \in R
    <3>1. p \in y.allocated /\ SameFrame(x, y, p)
      BY <1>1, <2>0, <2>1
    <3>2. p \in x.allocated
      BY <3>1 DEF SameFrame
    <3>. QED  BY <1>2, <2>1, <3>2 DEF NoFrame, Idle
  <2>2. CASE ~actual \/ p \notin R
    <3>1. y.pages[p] = a.pages[p] /\ (p \in y.allocated <=> p \in a.allocated)
      BY <1>1, <2>2
    <3>2. z.pages[p] = x.pages[p] /\ (p \in z.allocated <=> p \in x.allocated)
      BY <1>2, <2>2
    <3>3. CASE SameFrame(x, y, p)
      BY <3>1, <3>2, <3>3 DEF SameFrame
    <3>4. CASE p \notin T \cup R /\ Idle(x, p)
      BY <3>2, <3>4 DEF Idle, NoFrame
    <3>. QED  BY <2>0, <3>3, <3>4
  <2>. QED  BY <2>1, <2>2
<1>. QED  BY <1>3 DEF Calm

LEMMA ReadyGrown ==
  ASSUME NEW x, NEW U, NEW T, NEW L, NEW big \in Tree(x), Shows(x, U, T, L), Pages(big) \cap T # {}
  PROVE  Ready(x, U, T, L, big)
<1>1. Fulls(x, U, T, L) /\ big \in Block
  BY FullsIs DEF Shows
<1>2. ASSUME NEW c \in Above(big), c \in Tree(x) PROVE c \in x.split
  <2>1. Pages(big) \subseteq Pages(c) /\ big.size < c.size /\ c \in Block
    BY <1>1, <1>2, AboveIs
  <2>2. big.size \in Nat \ {0} /\ c.size \in Nat
    BY <1>1, <2>1, BlockIs
  <2>3. c.size > 1
    BY <2>1, <2>2
  <2>. QED  BY <1>1, <1>2, <2>1, <2>3 DEF Fulls
<1>. QED  BY <1>1, <1>2 DEF Ready, Shows

\* The blocks that the search can come to lie behind what has been taken.
LEMMA Beyond ==
  ASSUME NEW x, NEW U, NEW T, NEW L, NEW big \in Tree(x), Ready(x, U, T, L, big), NEW s,
         NEW n \in Int, Span(big.at, n) \subseteq T, NEW f \in Candidates(x, s, big)
  PROVE  f \in Block /\ f.size = s /\ f.at \in Nat /\ big.at \in Nat /\ big.at + n <= f.at
<1>1. /\ f \in Under(big) /\ f.size = s /\ Pages(f) \cap T = {} /\ f \in Block
      /\ big \in Block /\ Pages(f) \subseteq Pages(big)
  BY CandidatesAre, ReadyFacts
<1>2. f.at \in Nat /\ big.at \in Nat /\ f.at \in Pages(f)
  BY <1>1, BlockIs, HasPage
<1>3. big.at <= f.at
  BY <1>1, <1>2, PagesIs
<1>4. f.at \notin Span(big.at, n)
  BY <1>1, <1>2
<1>5. big.at + n <= f.at
  BY <1>2, <1>3, <1>4 DEF Span
<1>. QED  BY <1>1, <1>2, <1>5

\* The search for the next piece comes to that piece, if it can come to it.
LEMMA FirstPiece ==
  ASSUME NEW x, NEW U, NEW T, NEW L, NEW big \in Tree(x), Ready(x, U, T, L, big),
         NEW b, b \in Candidates(x, b.size, big), Span(big.at, b.at - big.at) \subseteq T
  PROVE  b = First(Candidates(x, b.size, big))
<1>. DEFINE hit == Candidates(x, b.size, big)
<1>1. hit \in SUBSET Block /\ big \in Block
  BY CandidatesAre, ReadyFacts
<1>2. PICK f : f = First(hit)
  OBVIOUS
<1>3. f \in hit /\ \A c \in hit : f.at <= c.at
  BY <1>1, <1>2, FirstIs
<1>4. b.at \in Nat /\ big.at \in Nat /\ b \in Block /\ f \in Block /\ f.at \in Nat
  BY <1>1, <1>3, BlockIs
<1>5. PICK n \in Int : n = b.at - big.at
  BY <1>4
<1>6. f.size = b.size /\ big.at + n <= f.at
  <2>1. PICK s : s = b.size
    OBVIOUS
  <2>2. f \in Candidates(x, s, big) /\ Span(big.at, n) \subseteq T
    BY <1>3, <1>5, <2>1
  <2>. QED  BY <2>1, <2>2, Beyond
<1>7. f.at = b.at
  BY <1>3, <1>4, <1>5, <1>6
<1>8. f = [at |-> f.at, size |-> f.size] /\ b = [at |-> b.at, size |-> b.size]
  BY <1>4, BlockIs DEF Aligned
<1>9. f = b
  BY <1>6, <1>7, <1>8
<1>. QED  BY <1>2, <1>9

\* Only the nodes around a block of several pages are split for it.
LEMMA FoundSplits ==
  ASSUME NEW a, NEW U, NEW T, NEW L, NEW top, NEW s, NEW b, Comes(a, U, T, L, top, s, b), s # 1,
         NEW actual, NEW fails, ~NoMemory(a, b, actual, fails),
         NEW c \in AllocBlock(a, s, top, actual, fails).area.split
  PROVE  c \in a.split \/ Pages(c) \cap Pages(b) # {}
<1>0. PICK w, t : Takes(a, U, T, L, top, s, actual, fails, b, w, t)
  BY FoundFields
<1>1. /\ AllocBlock(a, s, top, actual, fails) = Got(Split(t, b), b.at)
      /\ b \in Block /\ t \in Area /\ t.split = w.split /\ Split1(w, a, L, s, top, Above(b))
  BY <1>0 DEF Takes
<1>2. c \in w.split \/ c \in Under(b)
  <2>1. PICK x : x = Split(t, b)
    OBVIOUS
  <2>2. x.split = (t.split \cup Under(b)) \ Leaves(Pages(b))
    BY <1>1, <2>1, SplitFields
  <2>3. c \in x.split
    BY <1>1, <2>1 DEF Got
  <2>. QED  BY <1>1, <2>2, <2>3
<1>3. c \in Under(b) => Pages(c) \cap Pages(b) # {}
  BY <1>1, UnderIs, HasPage
<1>4. ASSUME c \in w.split, c \notin a.split PROVE Pages(c) \cap Pages(b) # {}
  <2>1. c \in Above(b)
    BY <1>1, <1>4 DEF Split1
  <2>. QED  BY <1>1, <2>1, AboveIs, HasPage
<1>. QED  BY <1>2, <1>3, <1>4

\* A search for one page splits every bigger node on its way.
LEMMA FoundWay ==
  ASSUME NEW a, NEW U, NEW T, NEW L, NEW top, NEW b, Comes(a, U, T, L, top, 1, b),
         NEW actual, NEW fails, ~NoMemory(a, b, actual, fails)
  PROVE  LET x == AllocBlock(a, 1, top, actual, fails).area
         IN  /\ \A c \in a.split : c.size > 1 => c \in x.split
             /\ \A c \in Under(top) : c \notin a.full /\ c.size > 1 /\ c.at <= b.at => c \in x.split
<1>z. PICK s : s = 1
  OBVIOUS
<1>c. Comes(a, U, T, L, top, s, b)
  BY <1>z
<1>0. PICK w, t : Takes(a, U, T, L, top, s, actual, fails, b, w, t)
  BY <1>c, FoundFields
<1>1. /\ AllocBlock(a, s, top, actual, fails) = Got(Split(t, b), b.at)
      /\ b \in Block /\ t \in Area /\ t.split = w.split /\ Split1(w, a, L, s, top, Above(b))
  BY <1>0 DEF Takes
<1>2. PICK x : x = Split(t, b)
  OBVIOUS
<1>3. \A c \in w.split : c.size > 1 => c \in x.split
  <2>1. x.split = (t.split \cup Under(b)) \ Leaves(Pages(b))
    BY <1>1, <1>2, SplitFields
  <2>2. \A c \in Leaves(Pages(b)) : ~(c.size > 1)
    BY DEF Leaves, Leaf
  <2>. QED  BY <1>1, <2>1, <2>2
<1>4. ASSUME NEW c \in Under(top), c \notin a.full, c.size > 1, c.at <= b.at PROVE c \in w.split
  <2>1. /\ top \in Tree(a) /\ Ready(a, U, T, L, top) /\ s \in Size
        /\ b = First(Candidates(a, s, top)) /\ a \in Area /\ top \in Block
    BY <1>c, ReadyFacts DEF Comes
  <2>2. c \in Reach(a, top)
    BY <1>4, <2>1, ReachIs
  <2>3. w.split = a.split \cup
          {e \in Reach(a, top) : e.size > s /\
             (Candidates(a, s, top) = {} \/ e.at <= First(Candidates(a, s, top)).at)}
    BY <1>0, <2>1, SearchedFields DEF Takes
  <2>. QED  BY <1>4, <1>z, <2>1, <2>2, <2>3
<1>5. AllocBlock(a, 1, top, actual, fails).area = x
  BY <1>1, <1>2, <1>z DEF Got
<1>6. a.split \subseteq w.split
  BY <1>1 DEF Split1
<1>. QED  BY <1>3, <1>4, <1>5, <1>6

\* What an allocation of len pages in several steps starts from: a block that is
\* free, or has lost pages in it.
Piecewise(a, U, T, L, big, len) ==
  /\ Shows(a, U, T, L) /\ AllIdle(a, T) /\ big \in Tree(a) /\ Pages(big) \cap T = {}
  /\ len \in Nat /\ 1 < len /\ len < big.size

LEMMA PiecewiseIs ==
  ASSUME NEW a, NEW U, NEW T, NEW L, NEW big, NEW len, Piecewise(a, U, T, L, big, len)
  PROVE  /\ a \in Area /\ a.size \in Size /\ a.size \in Nat /\ a.size <= MaxSize
         /\ MaxSize \in Nat /\ big \in Block /\ big.at \in Nat /\ big.size \in Nat /\ len \in Nat
         /\ big.at + len <= MaxSize /\ big.at + len < a.size
         /\ Span(big.at, len) \subseteq Pages(big) /\ Span(big.at, len) \cap T = {}
         /\ big.at + len \in Pages(big) /\ big.at + len \notin Span(big.at, len)
         /\ U \subseteq T /\ T \cap L = {} /\ T \cup L \subseteq Page
<1>1. /\ a \in Area /\ a.size \in Size /\ a.size \in Nat /\ a.size <= MaxSize /\ big \in Block
      /\ big.at \in Nat /\ big.size \in Nat \ {0} /\ Pages(big) \subseteq Pages(Root(a))
      /\ Pages(Root(a)) = Span(0, a.size) /\ MaxSize \in Nat
      /\ U \subseteq T /\ T \cap L = {} /\ T \cup L \subseteq Page
  BY FullsIs, RootIs, SizeNat, BlockIs, UserMapAssumption DEF Shows, Piecewise
<1>2. len \in Nat /\ len < big.size /\ Pages(big) \cap T = {}
  BY DEF Piecewise
<1>3. big.at + big.size <= a.size
  <2>1. big.at + big.size - 1 \in Pages(big)
    BY <1>1, PagesIs
  <2>. QED  BY <1>1, <2>1 DEF Span
<1>4. /\ Span(big.at, len) \subseteq Pages(big)
      /\ big.at + len \in Pages(big) /\ big.at + len \notin Span(big.at, len)
  BY <1>1, <1>2, PagesIs DEF Span
<1>. QED  BY <1>1, <1>2, <1>3, <1>4

LEMMA PieceFacts ==
  ASSUME NEW a, NEW U, NEW T, NEW L, NEW big, NEW len, Piecewise(a, U, T, L, big, len),
         NEW b \in Pieces(big.at, len), NEW R, R = Span(big.at, b.at - big.at)
  PROVE  /\ b \in Block /\ b.at \in Nat /\ b.size \in Nat \ {0} /\ b.size \in Size
         /\ b.at - big.at \in Nat
         /\ b \in Under(big) /\ Pages(b) \subseteq Span(big.at, len)
         /\ R \subseteq Span(big.at, len) /\ Pages(b) \cap R = {}
         /\ Pages(b) \cap T = {} /\ R \cap T = {}
         /\ b.at < big.at + len /\ (b.at # big.at => R # {})
<1>1. /\ big \in Block /\ big.at \in Nat /\ len \in Nat /\ big.at + len <= MaxSize
      /\ Span(big.at, len) \subseteq Pages(big) /\ Span(big.at, len) \cap T = {}
  BY PiecewiseIs
<1>2. /\ b \in Block /\ Pages(b) \subseteq Span(big.at, len) /\ b.at - big.at \in Nat
      /\ b.at \in Nat /\ b.at \in Pages(b) /\ b.size \in Nat \ {0} /\ b.size \in Size
  BY <1>1, PiecesIs, BeforeIs, HasPage, BlockIs
<1>3. b \in Under(big)
  BY <1>1, <1>2, UnderIs
<1>4. b.at < big.at + len /\ R \subseteq Span(big.at, len) /\ (b.at # big.at => R # {})
  <2>1. b.at < big.at + len
    BY <1>1, <1>2 DEF Span
  <2>2. b.at # big.at => big.at \in R
    BY <1>1, <1>2 DEF Span
  <2>. QED  BY <1>1, <1>2, <2>1, <2>2 DEF Span
<1>5. Pages(b) \cap R = {}
  BY <1>1, <1>2, PagesIs DEF Span
<1>. QED  BY <1>1, <1>2, <1>3, <1>4, <1>5

\* A piece of one page is the last.
LEMMA LastPage ==
  ASSUME NEW a, NEW U, NEW T, NEW L, NEW big, NEW len, Piecewise(a, U, T, L, big, len),
         NEW b \in Pieces(big.at, len), b.size = 1
  PROVE  b.at = big.at + len - 1 /\ b.at # big.at
<1>1. /\ big \in Block /\ big.at \in Nat /\ big.size \in Nat /\ len \in Nat
      /\ Span(big.at, len) \subseteq Pages(big) /\ 1 < len /\ len < big.size /\ big.size \in Size
  <2>1. /\ big \in Block /\ big.at \in Nat /\ big.size \in Nat /\ len \in Nat
        /\ Span(big.at, len) \subseteq Pages(big)
    BY PiecewiseIs
  <2>2. 1 < len /\ len < big.size
    BY DEF Piecewise
  <2>. QED  BY <2>1, <2>2, BlockIs
<1>2. /\ b \in Block /\ b.at \in Nat /\ b \in Under(big) /\ Pages(b) \subseteq Span(big.at, len)
      /\ b.at - big.at \in Nat /\ b.at < big.at + len /\ Pages(b) = {b.at}
  BY PieceFacts, LeafIs
<1>3. 2 \in Size
  <2>1. 2 * b.size \in Size
    BY <1>1, <1>2, SiblingIs
  <2>. QED  BY <2>1
<1>4. PICK d \in Block : d.size = 2 /\ d.at <= b.at /\ b.at < d.at + 2
  BY <1>2, <1>3, AroundIs, BlockIs
<1>5. d.at \in Nat /\ Pages(d) = {d.at, d.at + 1} /\ b.at \in Pages(d)
  BY <1>2, <1>4, BlockIs DEF Pages, Span
<1>6. Inside(d, big)
  <2>1. b.at \in Pages(big) /\ 2 <= big.size
    BY <1>1, <1>2
  <2>. QED  BY <1>1, <1>4, <1>5, <2>1, Nested
<1>7. big.at <= d.at
  BY <1>6 DEF Inside
<1>8. ~(Pages(d) \subseteq Span(big.at, len))
  <2>1. SUFFICES ASSUME Pages(d) \subseteq Span(big.at, len) PROVE FALSE
    OBVIOUS
  <2>2. Inside(b, d)
    BY <1>2, <1>5, InsidePages
  <2>3. d = b
    BY <2>1, <2>2 DEF Pieces
  <2>. QED  BY <1>4, <2>3
<1>9. d.at + 1 >= big.at + len
  BY <1>1, <1>2, <1>4, <1>5, <1>7, <1>8 DEF Span
<1>. QED  BY <1>1, <1>2, <1>4, <1>5, <1>9

\* The answer while the pages of R have been taken.
Taking(r, a, U, T, L, R, big, actual) ==
  /\ r.ok = TRUE /\ r.at = big.at /\ r.stray = {}
  /\ Ready(r.area, U \cup R, T \cup R, L \ R, big)
  /\ R # {} => Shows(r.area, U \cup R, T \cup R, L \ R)
  /\ r.area.size = a.size /\ Frames(r.area) = With(a, R, actual)
  /\ \A c \in r.area.split : c \in Under(big) => Pages(c) \cap R # {}

\* The answer to a call for len pages: those of B are bare, those of G stray.
Answers(r, a, U, T, L, len, actual, B, G) ==
  /\ r.ok = TRUE /\ r.at \in Nat /\ len \in Nat \ {0} /\ r.at + len <= a.size
  /\ Span(r.at, len) \cap T = {} /\ r.stray = G /\ r.area.size = a.size
  /\ B \subseteq L \cap {r.at + len - 1} /\ (B # {} => G # {})
  /\ G \subseteq Page \ (T \cup Span(r.at, len))
  /\ Shows(r.area, U \cup Span(r.at, len), T \cup Span(r.at, len) \cup G, L \ (Span(r.at, len) \cup G))
  /\ Frames(r.area) = With(a, (Span(r.at, len) \ B) \cup G, actual)
Gets(r, a, U, T, L, len, actual) == \E B, G : Answers(r, a, U, T, L, len, actual, B, G)

\* What is known of the next piece.
NextPiece(r, y, a, U, T, L, big, len, b, R, V, W, K, actual) ==
  /\ Piecewise(a, U, T, L, big, len) /\ b \in Pieces(big.at, len)
  /\ R = Span(big.at, b.at - big.at) /\ V = U \cup R /\ W = T \cup R /\ K = L \ R
  /\ y = r.area /\ Taking(r, a, U, T, L, R, big, actual)

LEMMA NextPieceIs ==
  ASSUME NEW r, NEW y, NEW a, NEW U, NEW T, NEW L, NEW big, NEW len, NEW b, NEW R, NEW V, NEW W,
         NEW K, NEW actual, NextPiece(r, y, a, U, T, L, big, len, b, R, V, W, K, actual)
  PROVE  /\ Ready(y, V, W, K, big) /\ (R # {} => Shows(y, V, W, K))
         /\ y.size = a.size /\ Frames(y) = With(a, R, actual)
         /\ \A c \in y.split : c \in Under(big) => Pages(c) \cap R # {}
         /\ Tree(y) = Tree(a) /\ big \in Tree(y) /\ AllIdle(y, W)
         /\ ~(Pages(big) \subseteq V \cup Pages(b))
<1>0. V = U \cup R /\ W = T \cup R /\ K = L \ R
  BY DEF NextPiece
<1>1. /\ Ready(y, V, W, K, big) /\ (R # {} => Shows(y, V, W, K))
      /\ y.size = a.size /\ Frames(y) = With(a, R, actual)
      /\ \A c \in y.split : c \in Under(big) => Pages(c) \cap R # {}
  BY <1>0 DEF NextPiece, Taking
<1>2. /\ Piecewise(a, U, T, L, big, len) /\ b \in Pieces(big.at, len)
      /\ R = Span(big.at, b.at - big.at)
  BY DEF NextPiece
<1>3. Tree(y) = Tree(a) /\ big \in Tree(y)
  BY <1>1, <1>2 DEF Tree, Root, Piecewise
<1>4. AllIdle(y, W)
  BY <1>0, <1>1, <1>2, WithIdle DEF Piecewise
<1>5. ~(Pages(big) \subseteq V \cup Pages(b))
  <2>1. big.at + len \in Pages(big) /\ big.at + len \notin Span(big.at, len) /\ U \subseteq T
    BY <1>2, PiecewiseIs
  <2>2. Pages(b) \subseteq Span(big.at, len) /\ R \subseteq Span(big.at, len)
    BY <1>2, PieceFacts
  <2>3. Pages(big) \cap T = {}
    BY <1>2 DEF Piecewise
  <2>. QED  BY <1>0, <2>1, <2>2, <2>3
<1>. QED  BY <1>1, <1>3, <1>4, <1>5

\* The search comes to the next piece, unless that is a lost page.
LEMMA PieceComes ==
  ASSUME NEW r, NEW y, NEW a, NEW U, NEW T, NEW L, NEW big, NEW len, NEW b, NEW R, NEW V, NEW W,
         NEW K, NEW actual, NextPiece(r, y, a, U, T, L, big, len, b, R, V, W, K, actual),
         b.size > 1 \/ b.at \notin L
  PROVE  Comes(y, V, W, K, big, b.size, b)
<1>1. /\ Piecewise(a, U, T, L, big, len) /\ b \in Pieces(big.at, len)
      /\ R = Span(big.at, b.at - big.at) /\ V = U \cup R /\ W = T \cup R /\ K = L \ R
  BY DEF NextPiece
<1>2. b \in Block /\ b.size \in Size /\ b \in Under(big) /\ Pages(b) \cap (T \cup R) = {}
  BY <1>1, PieceFacts
<1>3. Ready(y, V, W, K, big) /\ big \in Tree(y) /\ ~(Pages(big) \subseteq V \cup Pages(b))
  BY NextPieceIs
<1>4. \A c \in y.split : c \in Under(big) => Pages(c) \cap R # {}
  BY NextPieceIs
<1>5. b \notin y.split
  BY <1>1, <1>2, <1>4
<1>6. b.size > 1 \/ Pages(b) \cap K = {}
  <2>1. ASSUME ~(b.size > 1) PROVE Pages(b) = {b.at}
    BY <1>2, <2>1, LeafIs
  <2>. QED  BY <1>1, <2>1
<1>7. b \in Candidates(y, b.size, big)
  BY <1>1, <1>2, <1>3, <1>5, <1>6, CandidateIs
<1>8. b = First(Candidates(y, b.size, big))
  BY <1>1, <1>3, <1>7, FirstPiece
<1>. QED  BY <1>2, <1>3, <1>7, <1>8 DEF Comes

\* AllocPiece passes on the answer for the sub-block.
PieceStep(r, b, big, actual, fails, q, x) ==
  /\ r.ok = TRUE /\ r.stray = {}
  /\ q = AllocBlock(r.area, b.size, big, actual, fails) /\ x = AllocPiece(r, b, big, actual, fails)

IsGot(q) == q = Got(q.area, q.at)
Passes(x, q, b, big) ==
  x.ok = TRUE /\ x.area = q.area /\ x.at = big.at /\ x.stray = Span(q.at, b.size) \ Pages(b)

LEMMA PieceGot ==
  ASSUME NEW r, NEW b, NEW big, NEW actual, NEW fails, NEW q, NEW x,
         PieceStep(r, b, big, actual, fails, q, x), IsGot(q)
  PROVE  Passes(x, q, b, big)
<1>1. Got(q.area, q.at).ok = TRUE /\ q.ok = TRUE
  BY DEF Got, IsGot
<1>2. x = [q EXCEPT !.at = big.at, !.stray = r.stray \cup (Span(q.at, b.size) \ Pages(b))]
  BY <1>1 DEF AllocPiece, PieceStep
<1>3. x = [Got(q.area, q.at) EXCEPT !.at = big.at, !.stray = r.stray \cup (Span(q.at, b.size) \ Pages(b))]
  BY <1>2 DEF IsGot
<1>. QED  BY <1>3 DEF Got, PieceStep, Passes

LEMMA PieceNot ==
  ASSUME NEW r, NEW b, NEW big, NEW actual, NEW fails, NEW q, NEW x,
         PieceStep(r, b, big, actual, fails, q, x), q = NoBlock(q.area)
  PROVE  x = NoBlock(FreeBlocks(q.area, Pieces(big.at, b.at - big.at), actual, Down))
<1>1. q.ok = FALSE
  BY DEF NoBlock
<1>. QED  BY <1>1 DEF AllocPiece, PieceStep

\* The sub-block is where it should be.
PieceIs(x, a, U, T, L, R, big, b, actual) ==
  /\ x.ok = TRUE /\ x.at = big.at /\ x.stray = {} /\ x.area.size = a.size
  /\ Shows(x.area, U \cup R, T \cup R, L \ R) /\ Frames(x.area) = With(a, R, actual)
  /\ b.size > 1 => \A c \in x.area.split : c \in Under(big) => Pages(c) \cap R # {}

LEMMA PieceFound ==
  ASSUME NEW r, NEW y, NEW a, NEW U, NEW T, NEW L, NEW big, NEW len, NEW b, NEW R, NEW V, NEW W,
         NEW K, NEW actual, NextPiece(r, y, a, U, T, L, big, len, b, R, V, W, K, actual),
         b.size > 1 \/ b.at \notin L, NEW fails, ~NoMemory(y, b, actual, fails)
  PROVE  PieceIs(AllocPiece(r, b, big, actual, fails), a, U, T, L, R \cup Pages(b), big, b, actual)
<1>. DEFINE S == R \cup Pages(b)
<1>1. PICK s : s = b.size
  OBVIOUS
<1>2. Comes(y, V, W, K, big, s, b)
  BY <1>1, PieceComes
<1>3. PICK q : q = AllocBlock(y, s, big, actual, fails)
  OBVIOUS
<1>4. FoundIs(q, y, V, W, K, b, actual) /\ q = Got(q.area, b.at)
  BY <1>2, <1>3, Found
<1>5. PICK v : v = q.area
  OBVIOUS
<1>6. PICK x : x = AllocPiece(r, b, big, actual, fails)
  OBVIOUS
<1>7. y = r.area /\ r.ok = TRUE /\ r.stray = {}
  BY DEF NextPiece, Taking
<1>8. x.area = v /\ x.ok = TRUE /\ x.at = big.at /\ x.stray = {}
  <2>1. q.at = b.at
    BY <1>4 DEF FoundIs
  <2>2. PieceStep(r, b, big, actual, fails, q, x) /\ IsGot(q)
    BY <1>1, <1>3, <1>4, <1>6, <1>7, <2>1 DEF PieceStep, IsGot
  <2>3. x.ok = TRUE /\ x.area = q.area /\ x.at = big.at /\ x.stray = Span(q.at, b.size) \ Pages(b)
    <3>1. Passes(x, q, b, big)
      BY <2>2, PieceGot
    <3>. QED  BY <3>1 DEF Passes
  <2>. QED  BY <1>5, <2>1, <2>3 DEF Pages
<1>9. V = U \cup R /\ W = T \cup R /\ K = L \ R
  BY DEF NextPiece
<1>10. V \cup Pages(b) = U \cup S /\ W \cup Pages(b) = T \cup S /\ K \ Pages(b) = L \ S
  BY <1>9
<1>11. /\ Shows(v, V \cup Pages(b), W \cup Pages(b), K \ Pages(b)) /\ v.size = y.size
       /\ Frames(v) = With(y, Pages(b), actual)
  BY <1>4, <1>5 DEF FoundIs
<1>12. y.size = a.size /\ Frames(y) = With(a, R, actual)
  BY NextPieceIs
<1>13. Frames(v) = With(a, S, actual)
  BY <1>11, <1>12, WithMore
<1>14. ASSUME b.size > 1, NEW c \in v.split, c \in Under(big) PROVE Pages(c) \cap S # {}
  <2>1. s # 1
    BY <1>1, <1>14
  <2>2. c \in y.split \/ Pages(c) \cap Pages(b) # {}
    BY <1>2, <1>3, <1>5, <1>14, <2>1, FoundSplits
  <2>3. \A d \in y.split : d \in Under(big) => Pages(d) \cap R # {}
    BY NextPieceIs
  <2>. QED  BY <1>14, <2>2, <2>3
<1>. HIDE DEF S
<1>15. PieceIs(x, a, U, T, L, S, big, b, actual)
  BY <1>8, <1>10, <1>11, <1>12, <1>13, <1>14 DEF PieceIs
<1>. QED  BY <1>6, <1>15 DEF S

\* A failure gives back the pieces before.
LEMMA PieceFailed ==
  ASSUME NEW r, NEW y, NEW a, NEW U, NEW T, NEW L, NEW big, NEW len, NEW b, NEW R, NEW V, NEW W,
         NEW K, NEW actual, NextPiece(r, y, a, U, T, L, big, len, b, R, V, W, K, actual),
         NEW fails, NEW q, q = AllocBlock(y, b.size, big, actual, fails),
         Failed(q, y, V, W, K, fails), q = NoBlock(q.area)
  PROVE  Failed(AllocPiece(r, b, big, actual, fails), a, U, T, L, fails)
<1>1. PICK v : v = q.area
  OBVIOUS
<1>2. PICK x : x = AllocPiece(r, b, big, actual, fails)
  OBVIOUS
<1>3. PICK n : n = b.at - big.at
  OBVIOUS
<1>4. x = NoBlock(FreeBlocks(v, Pieces(big.at, n), actual, Down))
  <2>1. y = r.area /\ r.ok = TRUE /\ r.stray = {}
    BY DEF NextPiece, Taking
  <2>2. PieceStep(r, b, big, actual, fails, q, x)
    BY <1>2, <2>1 DEF PieceStep
  <2>3. x = NoBlock(FreeBlocks(q.area, Pieces(big.at, b.at - big.at), actual, Down))
    BY <2>2, PieceNot
  <2>. QED  BY <1>1, <1>3, <2>3
<1>5. PICK z : z = FreeBlocks(v, Pieces(big.at, n), actual, Down)
  OBVIOUS
<1>6. x.ok = FALSE /\ x.stray = {} /\ x.area = z
  BY <1>4, <1>5 DEF NoBlock
<1>7. PICK J \in SUBSET (K \cup fails) : Shows(v, V, W, J) /\ v.size = y.size /\ Calm(v, y, W)
  BY <1>1 DEF Failed, Back
<1>8. /\ Piecewise(a, U, T, L, big, len) /\ b \in Pieces(big.at, len)
      /\ R = Span(big.at, n) /\ V = U \cup R /\ W = T \cup R /\ K = L \ R
  BY <1>3 DEF NextPiece
<1>9. /\ big.at \in Nat /\ len \in Nat /\ big.at + len < a.size /\ a.size \in Nat
      /\ U \subseteq T
  BY <1>8, PiecewiseIs
<1>10. n \in Nat /\ b.at \in Nat /\ b.at < big.at + len /\ R \cap T = {}
  BY <1>3, <1>8, PieceFacts
<1>11. y.size = a.size /\ Frames(y) = With(a, R, actual)
  BY NextPieceIs
<1>12. big.at + n <= v.size
  BY <1>3, <1>7, <1>9, <1>10, <1>11
<1>13. FreedTo(z, v, V, W, J, R, actual)
  <2>1. Span(big.at, n) \subseteq V /\ Down \in Order
    BY <1>8 DEF Order
  <2>2. FreedTo(FreeBlocks(v, Pieces(big.at, n), actual, Down), v, V, W, J, Span(big.at, n), actual)
    BY <1>7, <1>9, <1>10, <1>12, <2>1, RangeFreed
  <2>. QED  BY <1>5, <1>8, <2>2
<1>14. V \ R = U /\ W \ R = T
  BY <1>8, <1>9, <1>10
<1>15. Shows(z, U, T, J) /\ z.size = a.size /\ Frames(z) = Without(v, R, actual)
  BY <1>7, <1>11, <1>13, <1>14 DEF FreedTo
<1>16. Calm(z, a, T)
  BY <1>7, <1>8, <1>10, <1>11, <1>15, WithWithout
<1>17. J \in SUBSET (L \cup fails)
  BY <1>8
<1>18. Back(z, a, U, T, L, fails)
  BY <1>15, <1>16, <1>17 DEF Back
<1>. QED  BY <1>2, <1>6, <1>18 DEF Failed

\* The next piece is a page that is lost.
LostPiece(r, y, a, U, T, L, big, len, b, R, V, W, K, actual) ==
  NextPiece(r, y, a, U, T, L, big, len, b, R, V, W, K, actual) /\ b.size = 1 /\ b.at \in L

LEMMA LostPieceIs ==
  ASSUME NEW r, NEW y, NEW a, NEW U, NEW T, NEW L, NEW big, NEW len, NEW b, NEW R, NEW V, NEW W,
         NEW K, NEW actual, LostPiece(r, y, a, U, T, L, big, len, b, R, V, W, K, actual)
  PROVE  /\ Pages(b) = {b.at} /\ b = Leaf(b.at) /\ b \in Block /\ b.at \in Page /\ b.at \in Pages(big)
         /\ b.at \in K /\ b.at \notin W /\ R # {} /\ R \subseteq W /\ V \subseteq W
         /\ Span(big.at, b.at - big.at) \subseteq W
         /\ R \cup {b.at} = Span(big.at, len) /\ b.at = big.at + len - 1
         /\ Shows(y, V, W, K) /\ big \in Block /\ b \notin Candidates(y, 1, big)
<1>1. /\ Piecewise(a, U, T, L, big, len) /\ b \in Pieces(big.at, len) /\ b.size = 1 /\ b.at \in L
      /\ R = Span(big.at, b.at - big.at) /\ V = U \cup R /\ W = T \cup R /\ K = L \ R
      /\ NextPiece(r, y, a, U, T, L, big, len, b, R, V, W, K, actual)
  BY DEF LostPiece, NextPiece
<1>2. /\ b \in Block /\ b.at \in Nat /\ Pages(b) \subseteq Span(big.at, len) /\ Pages(b) \cap R = {}
      /\ (b.at # big.at => R # {})
  BY <1>1, PieceFacts
<1>3. b.at = big.at + len - 1 /\ b.at # big.at
  BY <1>1, LastPage
<1>4. /\ big \in Block /\ big.at \in Nat /\ len \in Nat /\ Span(big.at, len) \subseteq Pages(big)
      /\ U \subseteq T /\ T \cap L = {}
  BY <1>1, PiecewiseIs
<1>5. Pages(b) = {b.at} /\ b = Leaf(b.at) /\ b.at \in Page
  BY <1>1, <1>2, LeafIs, BlockIs
<1>6. R \cup {b.at} = Span(big.at, len)
  BY <1>1, <1>2, <1>3, <1>4 DEF Span
<1>7. Shows(y, V, W, K)
  BY <1>1, <1>2, <1>3, NextPieceIs
<1>8. b.at \in K /\ b.at \notin W /\ b.at \in Pages(big)
  BY <1>1, <1>2, <1>4, <1>5
<1>9. b \notin Candidates(y, 1, big)
  <2>1. b \in y.full
    BY <1>5, <1>7, <1>8 DEF Shows, Fulls
  <2>. QED  BY <2>1 DEF Candidates, Reach
<1>. QED  BY <1>1, <1>2, <1>3, <1>4, <1>5, <1>6, <1>7, <1>8, <1>9

\* The page that is taken instead.
LEMMA OtherPage ==
  ASSUME NEW r, NEW y, NEW a, NEW U, NEW T, NEW L, NEW big, NEW len, NEW b, NEW R, NEW V, NEW W,
         NEW K, NEW actual, LostPiece(r, y, a, U, T, L, big, len, b, R, V, W, K, actual),
         NEW q, Comes(y, V, W, K, big, 1, q)
  PROVE  /\ Pages(q) = {q.at} /\ q \in Candidates(y, 1, big) /\ q \in Block /\ q.at \in Nat
         /\ q.at \in Page /\ q.at \notin W /\ q.at # b.at
<1>1. Pages(q) = {q.at} /\ q \in Candidates(y, 1, big) /\ q \in Block /\ q.at \in Nat /\ q = Leaf(q.at)
  <2>1. q \in Block /\ q.size = 1 /\ q \in Candidates(y, 1, big)
    BY ComesIs
  <2>. QED  BY <2>1, LeafIs, BlockIs
<1>2. q.at \in Page /\ q.at \notin W
  <2>1. Pages(q) \cap W = {}
    BY ComesIs
  <2>. QED  BY <1>1, <2>1, BlockIs
<1>3. b \notin Candidates(y, 1, big) /\ b = Leaf(b.at)
  BY LostPieceIs
<1>4. q.at # b.at
  BY <1>1, <1>3
<1>. QED  BY <1>1, <1>2, <1>4

\* Instead of it another page is taken, but the mapping will have the lost one.
LEMMA Adopted ==
  ASSUME NEW r, NEW y, NEW a, NEW U, NEW T, NEW L, NEW big, NEW len, NEW b, NEW R, NEW V, NEW W,
         NEW K, NEW actual, LostPiece(r, y, a, U, T, L, big, len, b, R, V, W, K, actual),
         NEW q, Comes(y, V, W, K, big, 1, q), NEW fails, ~NoMemory(y, q, actual, fails),
         NEW v, v = AllocBlock(y, 1, big, actual, fails).area
  PROVE  Shows(v, V \cup {b.at}, W \cup {b.at, q.at}, K \ {b.at, q.at})
<1>0. PICK p : p = b.at
  OBVIOUS
<1>1. /\ Pages(b) = {p} /\ b = Leaf(p) /\ b \in Block /\ p \in Pages(big)
      /\ p \in K /\ p \notin W /\ R # {} /\ R \subseteq W /\ V \subseteq W
      /\ R \cup {p} = Span(big.at, len) /\ p = big.at + len - 1
      /\ Shows(y, V, W, K) /\ big \in Block
  BY <1>0, LostPieceIs
<1>2. /\ Piecewise(a, U, T, L, big, len) /\ b \in Pieces(big.at, len)
      /\ V = U \cup R /\ U \subseteq T
      /\ NextPiece(r, y, a, U, T, L, big, len, b, R, V, W, K, actual)
  BY PiecewiseIs DEF LostPiece, NextPiece
<1>3. big.at + len \in Pages(big) /\ big.at + len \notin Span(big.at, len) /\ Pages(big) \cap T = {}
  <2>1. big.at + len \in Pages(big) /\ big.at + len \notin Span(big.at, len)
    BY <1>2, PiecewiseIs
  <2>. QED  BY <1>2, <2>1 DEF Piecewise
<1>4. /\ Pages(q) = {q.at} /\ q \in Candidates(y, 1, big) /\ q \in Block /\ q.at \in Nat
  BY OtherPage
<1>5. q.at # p
  BY <1>0, OtherPage
<1>. DEFINE Q == {q.at}
<1>6. Shows(v, V \cup Q, W \cup Q, K \ Q) /\ v.size = y.size
  <2>1. PICK s : s = 1
    OBVIOUS
  <2>2. Comes(y, V, W, K, big, s, q)
    BY <2>1
  <2>3. PICK x : x = AllocBlock(y, s, big, actual, fails)
    OBVIOUS
  <2>4. FoundIs(x, y, V, W, K, q, actual)
    BY <2>2, <2>3, Found
  <2>5. x.area = v
    BY <2>1, <2>3
  <2>. QED  BY <1>4, <2>4, <2>5 DEF FoundIs
<1>7. /\ Fulls(v, V \cup Q, W \cup Q, K \ Q) /\ v \in Area
      /\ \A c \in v.split : c.size > 1 /\ Pages(c) \cap ((W \cup Q) \cup (K \ Q)) # {}
      /\ \A c \in Tree(v) : c \in Block
  BY <1>6, FullsIs DEF Shows
<1>. DEFINE V1 == V \cup {p}
<1>. DEFINE W1 == W \cup {p, q.at}
<1>. DEFINE K1 == K \ {p, q.at}
<1>8. (W \cup Q) \cup (K \ Q) = W1 \cup K1 /\ V1 \subseteq W1 /\ W1 \cap K1 = {} /\ K1 \subseteq K \ Q
      /\ W \cup Q \subseteq W1
  <2>1. W \cap K = {}
    BY <1>1, FullsIs DEF Shows
  <2>. QED  BY <1>1, <1>5, <2>1
<1>9. ASSUME NEW c \in Tree(v), Pages(c) \subseteq V1 PROVE c \in v.full
  <2>1. CASE p \notin Pages(c)
    BY <1>7, <1>9, <2>1 DEF Fulls
  <2>2. CASE p \in Pages(c)
    <3>1. Pages(c) \subseteq Pages(big)
      <4>1. ~(Pages(big) \subseteq Pages(c))
        <5>1. big.at + len \notin V1
          BY <1>1, <1>2, <1>3
        <5>. QED  BY <1>3, <1>9, <5>1
      <4>. QED  BY <1>1, <1>7, <2>2, <4>1, Laminar
    <3>2. Pages(c) \subseteq Span(big.at, len)
      BY <1>1, <1>2, <1>3, <1>9, <3>1
    <3>3. Inside(b, c)
      BY <1>1, <1>7, <2>2, InsidePages
    <3>4. c = b
      BY <1>2, <1>7, <3>2, <3>3 DEF Pieces
    <3>5. p \in K \ Q
      BY <1>1, <1>5
    <3>. QED  BY <1>1, <1>7, <3>4, <3>5 DEF Fulls
  <2>. QED  BY <2>1, <2>2
<1>10. ASSUME NEW c \in Tree(v), c.size > 1, Pages(c) \cap W1 # {} PROVE c \in v.split
  <2>1. CASE Pages(c) \cap (W \cup Q) # {}
    BY <1>7, <1>10, <2>1 DEF Fulls
  <2>2. CASE Pages(c) \cap (W \cup Q) = {}
    <3>1. p \in Pages(c) /\ c \in Block
      BY <1>7, <1>10, <2>2
    <3>2. Pages(c) \subseteq Pages(big)
      <4>1. R \subseteq Pages(big)
        BY <1>2, PiecewiseIs, <1>1
      <4>2. ~(Pages(big) \subseteq Pages(c))
        BY <1>1, <2>2, <4>1
      <4>. QED  BY <1>1, <3>1, <4>2, Laminar
    <3>3. c \in Under(big)
      BY <1>1, <3>1, <3>2, UnderIs
    <3>4. c \notin y.full
      BY <1>1, <1>10, <2>2 DEF Shows, Fulls
    <3>5. c.at <= q.at
      <4>1. big \in Tree(y) /\ Ready(y, V, W, K, big)
        BY <1>2, NextPieceIs
      <4>2. Span(big.at, b.at - big.at) \subseteq W /\ b.at \in Page /\ big.at \in Nat
        BY <1>1, LostPieceIs, BlockIs
      <4>3. PICK n \in Int : n = b.at - big.at
        BY <4>2 DEF Page
      <4>4. PICK s : s = 1
        OBVIOUS
      <4>5. q \in Candidates(y, s, big) /\ Span(big.at, n) \subseteq W
        BY <1>4, <4>2, <4>3, <4>4
      <4>6. big.at + n <= q.at
        BY <4>1, <4>5, Beyond
      <4>7. c.at <= p /\ c.at \in Nat
        BY <3>1, PagesIs, BlockIs
      <4>8. p = big.at + n /\ p \in Nat
        BY <1>0, <4>2, <4>3 DEF Page
      <4>. QED  BY <1>4, <4>2, <4>6, <4>7, <4>8
    <3>6. \A e \in Under(big) : e \notin y.full /\ e.size > 1 /\ e.at <= q.at => e \in v.split
      BY FoundWay
    <3>. QED  BY <1>10, <3>3, <3>4, <3>5, <3>6
  <2>. QED  BY <2>1, <2>2
<1>11. ASSUME NEW c \in v.full
       PROVE  Pages(c) \subseteq W1 \cup K1 /\ (c.size > 1 => Pages(c) \cap W1 # {})
  <2>1. Pages(c) \subseteq (W \cup Q) \cup (K \ Q) /\ (c.size > 1 => Pages(c) \cap (W \cup Q) # {})
    BY <1>7 DEF Fulls
  <2>. QED  BY <1>8, <2>1
<1>12. \A g \in W1 \cup K1 : Leaf(g) \in v.full
  BY <1>7, <1>8 DEF Fulls
<1>13. \A g \in K1 : g \notin v.allocated /\ v.pages[g] = Nothing
  BY <1>7, <1>8 DEF Fulls
<1>14. W1 \cup K1 \subseteq Pages(Root(v)) /\ Closed(v)
  BY <1>7, <1>8 DEF Fulls
<1>15. \A c \in v.split : c.size > 1 /\ Pages(c) \cap (W1 \cup K1) # {}
  BY <1>7, <1>8
<1>. HIDE DEF V1, W1, K1
<1>16. Fulls(v, V1, W1, K1)
  BY <1>7, <1>8, <1>9, <1>10, <1>11, <1>12, <1>13, <1>14 DEF Fulls
<1>17. Shows(v, V1, W1, K1)
  BY <1>15, <1>16 DEF Shows
<1>. QED  BY <1>0, <1>17 DEF V1, W1, K1

\* The allocation goes on behind a piece of several pages.
LEMMA PieceGoesOn ==
  ASSUME NEW r, NEW y, NEW a, NEW U, NEW T, NEW L, NEW big, NEW len, NEW b, NEW R, NEW V, NEW W,
         NEW K, NEW actual, NextPiece(r, y, a, U, T, L, big, len, b, R, V, W, K, actual),
         b.size > 1, NEW S, S = R \cup Pages(b), NEW x, PieceIs(x, a, U, T, L, S, big, b, actual)
  PROVE  Taking(x, a, U, T, L, S, big, actual)
<1>1. Piecewise(a, U, T, L, big, len) /\ b \in Pieces(big.at, len) /\ R = Span(big.at, b.at - big.at)
  BY DEF NextPiece
<1>2. b \in Block /\ b \in Under(big) /\ Pages(b) # {} /\ big \in Block
  BY <1>1, PieceFacts, PiecewiseIs, HasPage
<1>3. Pages(b) \subseteq Pages(big)
  BY <1>2, UnderIs
<1>4. PICK v : v = x.area
  OBVIOUS
<1>5. PICK U1, T1, L1 : U1 = U \cup S /\ T1 = T \cup S /\ L1 = L \ S
  OBVIOUS
<1>6. Shows(v, U1, T1, L1) /\ v.size = a.size
  BY <1>4, <1>5 DEF PieceIs
<1>7. big \in Tree(v)
  BY <1>1, <1>6 DEF Piecewise, Tree, Root
<1>8. Pages(big) \cap T1 # {}
  BY <1>2, <1>3, <1>5
<1>9. Ready(v, U1, T1, L1, big)
  BY <1>6, <1>7, <1>8, ReadyGrown
<1>. QED  BY <1>4, <1>5, <1>9 DEF PieceIs, Taking

\* A last piece of one page.
LEMMA PieceEnds ==
  ASSUME NEW r, NEW y, NEW a, NEW U, NEW T, NEW L, NEW big, NEW len, NEW b, NEW R, NEW V, NEW W,
         NEW K, NEW actual, NextPiece(r, y, a, U, T, L, big, len, b, R, V, W, K, actual),
         b.size = 1, NEW S, S = R \cup Pages(b), NEW x, PieceIs(x, a, U, T, L, S, big, b, actual)
  PROVE  Gets(x, a, U, T, L, len, actual)
<1>1. Piecewise(a, U, T, L, big, len) /\ b \in Pieces(big.at, len) /\ R = Span(big.at, b.at - big.at)
  BY DEF NextPiece
<1>2. /\ big.at \in Nat /\ len \in Nat \ {0} /\ big.at + len < a.size /\ a.size \in Nat
      /\ Span(big.at, len) \cap T = {}
  <2>1. /\ big.at \in Nat /\ len \in Nat /\ big.at + len < a.size /\ a.size \in Nat
        /\ Span(big.at, len) \cap T = {}
    BY <1>1, PiecewiseIs
  <2>2. 1 < len
    BY <1>1 DEF Piecewise
  <2>. QED  BY <2>1, <2>2
<1>3. b.at = big.at + len - 1 /\ Pages(b) = {b.at}
  <2>1. b \in Block
    BY <1>1, PieceFacts
  <2>. QED  BY <1>1, <2>1, LastPage, LeafIs
<1>4. S = Span(big.at, len)
  BY <1>1, <1>2, <1>3 DEF Span
<1>5. PICK N : N = {}
  OBVIOUS
<1>6. x.ok = TRUE /\ x.at = big.at /\ x.stray = N /\ x.area.size = a.size
  BY <1>5 DEF PieceIs
<1>7. /\ U \cup S = U \cup Span(x.at, len) /\ T \cup S = T \cup Span(x.at, len) \cup N
      /\ L \ S = L \ (Span(x.at, len) \cup N) /\ S = (Span(x.at, len) \ N) \cup N
  BY <1>4, <1>5, <1>6
<1>8. Shows(x.area, U \cup Span(x.at, len), T \cup Span(x.at, len) \cup N, L \ (Span(x.at, len) \cup N))
  BY <1>7 DEF PieceIs
<1>9. Frames(x.area) = With(a, (Span(x.at, len) \ N) \cup N, actual)
  BY <1>7 DEF PieceIs
<1>10. Answers(x, a, U, T, L, len, actual, N, N)
  BY <1>2, <1>5, <1>6, <1>8, <1>9 DEF Answers
<1>. QED  BY <1>10 DEF Gets

\* ... that is lost.
LEMMA LostEnds ==
  ASSUME NEW r, NEW y, NEW a, NEW U, NEW T, NEW L, NEW big, NEW len, NEW b, NEW R, NEW V, NEW W,
         NEW K, NEW actual, LostPiece(r, y, a, U, T, L, big, len, b, R, V, W, K, actual),
         NEW q, Comes(y, V, W, K, big, 1, q), NEW fails, ~NoMemory(y, q, actual, fails)
  PROVE  Gets(AllocPiece(r, b, big, actual, fails), a, U, T, L, len, actual)
<1>1. PICK p, g : p = b.at /\ g = q.at
  OBVIOUS
<1>2. /\ Pages(b) = {p} /\ b \in Block /\ p \notin W /\ R \subseteq W
      /\ R \cup {p} = Span(big.at, len) /\ p = big.at + len - 1
  BY <1>1, LostPieceIs
<1>3. Pages(q) = {g} /\ q \in Block /\ g \in Page /\ g \notin W /\ g # p
  BY <1>1, OtherPage
<1>4. /\ Piecewise(a, U, T, L, big, len) /\ V = U \cup R /\ W = T \cup R /\ K = L \ R
      /\ p \in L /\ y = r.area /\ r.ok = TRUE /\ r.stray = {} /\ b.size = 1
      /\ NextPiece(r, y, a, U, T, L, big, len, b, R, V, W, K, actual)
  BY <1>1 DEF LostPiece, NextPiece, Taking
<1>5. /\ big.at \in Nat /\ len \in Nat \ {0} /\ big.at + len < a.size /\ a.size \in Nat
      /\ Span(big.at, len) \cap T = {}
  <2>1. /\ big.at \in Nat /\ len \in Nat /\ big.at + len < a.size /\ a.size \in Nat
        /\ Span(big.at, len) \cap T = {}
    BY <1>4, PiecewiseIs
  <2>2. 1 < len
    BY <1>4 DEF Piecewise
  <2>. QED  BY <2>1, <2>2
<1>6. PICK s : s = 1
  OBVIOUS
<1>7. PICK z : z = AllocBlock(y, s, big, actual, fails)
  OBVIOUS
<1>8. FoundIs(z, y, V, W, K, q, actual) /\ z = Got(z.area, q.at)
  <2>1. Comes(y, V, W, K, big, s, q)
    BY <1>6
  <2>. QED  BY <1>7, <2>1, Found
<1>9. PICK x : x = AllocPiece(r, b, big, actual, fails)
  OBVIOUS
<1>10. PICK v : v = z.area
  OBVIOUS
<1>11. x.ok = TRUE /\ x.area = v /\ x.at = big.at /\ x.stray = {g}
  <2>1. z.at = q.at
    BY <1>8 DEF FoundIs
  <2>2. IsGot(z)
    BY <1>8, <2>1 DEF IsGot
  <2>3. PieceStep(r, b, big, actual, fails, z, x)
    BY <1>4, <1>6, <1>7, <1>9 DEF PieceStep
  <2>4. Passes(x, z, b, big)
    BY <2>2, <2>3, PieceGot
  <2>5. Span(z.at, b.size) = Pages(q)
    <3>1. q.size = 1
      BY ComesIs
    <3>. QED  BY <1>4, <2>1, <3>1 DEF Pages
  <2>6. x.stray = {g} \ {p}
    BY <1>2, <1>3, <2>4, <2>5 DEF Passes
  <2>. QED  BY <1>3, <1>10, <2>4, <2>6 DEF Passes
<1>12. Shows(v, V \cup {b.at}, W \cup {b.at, q.at}, K \ {b.at, q.at})
  <2>1. v = AllocBlock(y, 1, big, actual, fails).area
    BY <1>6, <1>7, <1>10
  <2>. QED  BY <2>1, Adopted
<1>13. v.size = y.size /\ Frames(v) = With(y, Pages(q), actual)
  BY <1>8, <1>10 DEF FoundIs
<1>14. y.size = a.size /\ Frames(y) = With(a, R, actual)
  BY <1>4, NextPieceIs
<1>15. Frames(v) = With(a, R \cup {g}, actual)
  BY <1>3, <1>13, <1>14, WithMore
<1>. DEFINE P == Span(big.at, len)
<1>16. /\ V \cup {p} = U \cup P /\ W \cup {p, g} = T \cup P \cup {g}
       /\ K \ {p, g} = L \ (P \cup {g}) /\ R \cup {g} = (P \ {p}) \cup {g}
  BY <1>2, <1>4
<1>17. Shows(v, U \cup P, T \cup P \cup {g}, L \ (P \cup {g}))
  BY <1>1, <1>12, <1>16
<1>18. {g} \subseteq Page \ (T \cup P) /\ {p} \subseteq L \cap {big.at + len - 1}
  BY <1>2, <1>3, <1>4
<1>. HIDE DEF P
<1>19. PICK B, G : B = {p} /\ G = {g}
  OBVIOUS
<1>20. Answers(x, a, U, T, L, len, actual, B, G)
  <2>1. x.ok = TRUE /\ x.at \in Nat /\ len \in Nat \ {0} /\ x.at + len <= a.size
    BY <1>5, <1>11
  <2>2. Span(x.at, len) \cap T = {} /\ x.stray = G /\ x.area.size = a.size
    BY <1>5, <1>11, <1>13, <1>14, <1>19
  <2>3. B \subseteq L \cap {x.at + len - 1} /\ (B # {} => G # {})
    BY <1>11, <1>18, <1>19
  <2>4. G \subseteq Page \ (T \cup Span(x.at, len))
    BY <1>11, <1>18, <1>19 DEF P
  <2>5. Shows(x.area, U \cup Span(x.at, len), T \cup Span(x.at, len) \cup G, L \ (Span(x.at, len) \cup G))
    BY <1>11, <1>17, <1>19 DEF P
  <2>6. Frames(x.area) = With(a, (Span(x.at, len) \ B) \cup G, actual)
    BY <1>11, <1>15, <1>16, <1>19 DEF P
  <2>. QED  BY <2>1, <2>2, <2>3, <2>4, <2>5, <2>6 DEF Answers
<1>. QED  BY <1>9, <1>20 DEF Gets

\* No page of its size is found for it.
LEMMA NotThere ==
  ASSUME NEW r, NEW y, NEW a, NEW U, NEW T, NEW L, NEW big, NEW len, NEW b, NEW R, NEW V, NEW W,
         NEW K, NEW actual, LostPiece(r, y, a, U, T, L, big, len, b, R, V, W, K, actual),
         Candidates(y, 1, big) = {}, NEW fails
  PROVE  Failed(AllocPiece(r, b, big, actual, fails), a, U, T, L, fails)
<1>1. NextPiece(r, y, a, U, T, L, big, len, b, R, V, W, K, actual) /\ b.size = 1
  BY DEF LostPiece
<1>2. big \in Tree(y) /\ Ready(y, V, W, K, big) /\ Shows(y, V, W, K)
  BY <1>1, NextPieceIs, LostPieceIs
<1>3. PICK s : s = b.size
  OBVIOUS
<1>4. s \in Size /\ Candidates(y, s, big) = {}
  BY <1>1, <1>3, OneSize
<1>5. PICK q : q = AllocBlock(y, s, big, actual, fails)
  OBVIOUS
<1>6. NotFoundIs(q, y, V, W, K)
  BY <1>2, <1>4, <1>5, NotFound
<1>7. /\ q.ok = FALSE /\ q.stray = {} /\ q.area.size = y.size /\ q = NoBlock(q.area)
      /\ Frames(q.area) = Frames(y) /\ Shows(q.area, V, W, K)
  BY <1>6 DEF NotFoundIs
<1>8. Calm(q.area, y, W)
  BY <1>7, FramesCalm
<1>9. Failed(q, y, V, W, K, fails)
  BY <1>7, <1>8 DEF Failed, Back
<1>. QED  BY <1>1, <1>3, <1>5, <1>7, <1>9, PieceFailed

\* There is no memory for the block that is found for it.
LEMMA PieceUndone ==
  ASSUME NEW r, NEW y, NEW a, NEW U, NEW T, NEW L, NEW big, NEW len, NEW b, NEW R, NEW V, NEW W,
         NEW K, NEW actual, NextPiece(r, y, a, U, T, L, big, len, b, R, V, W, K, actual),
         NEW q, Comes(y, V, W, K, big, b.size, q), NEW fails, NoMemory(y, q, actual, fails)
  PROVE  Failed(AllocPiece(r, b, big, actual, fails), a, U, T, L, fails)
<1>1. PICK s : s = b.size
  OBVIOUS
<1>2. AllIdle(y, W) /\ Comes(y, V, W, K, big, s, q)
  BY <1>1, NextPieceIs
<1>3. PICK z : z = AllocBlock(y, s, big, actual, fails)
  OBVIOUS
<1>4. Failed(z, y, V, W, K, fails) /\ z = NoBlock(z.area)
  BY <1>2, <1>3, Undone
<1>. QED  BY <1>1, <1>3, <1>4, PieceFailed

\* What comes of the next piece.
LEMMA PieceTaken ==
  ASSUME NEW r, NEW y, NEW a, NEW U, NEW T, NEW L, NEW big, NEW len, NEW b, NEW R, NEW V, NEW W,
         NEW K, NEW actual, NextPiece(r, y, a, U, T, L, big, len, b, R, V, W, K, actual),
         NEW S, S = R \cup Pages(b), NEW fails, NEW x, x = AllocPiece(r, b, big, actual, fails)
  PROVE  \/ b.size > 1 /\ Taking(x, a, U, T, L, S, big, actual)
         \/ b.size = 1 /\ Gets(x, a, U, T, L, len, actual)
         \/ Failed(x, a, U, T, L, fails)
<1>1. b.size > 1 \/ b.size = 1
  <2>1. b.size \in Nat \ {0}
    <3>1. Piecewise(a, U, T, L, big, len) /\ b \in Pieces(big.at, len) /\ R = Span(big.at, b.at - big.at)
      BY DEF NextPiece
    <3>. QED  BY <3>1, PieceFacts
  <2>. QED  BY <2>1
<1>2. CASE b.size > 1 \/ b.at \notin L
  <2>1. Comes(y, V, W, K, big, b.size, b)
    BY <1>2, PieceComes
  <2>2. CASE NoMemory(y, b, actual, fails)
    BY <2>1, <2>2, PieceUndone
  <2>3. CASE ~NoMemory(y, b, actual, fails)
    <3>1. PieceIs(x, a, U, T, L, S, big, b, actual)
      BY <1>2, <2>3, PieceFound
    <3>2. b.size > 1 => Taking(x, a, U, T, L, S, big, actual)
      BY <3>1, PieceGoesOn
    <3>3. b.size = 1 => Gets(x, a, U, T, L, len, actual)
      BY <3>1, PieceEnds
    <3>. QED  BY <1>1, <3>2, <3>3
  <2>. QED  BY <2>2, <2>3
<1>3. CASE b.size = 1 /\ b.at \in L
  <2>1. LostPiece(r, y, a, U, T, L, big, len, b, R, V, W, K, actual)
    BY <1>3 DEF LostPiece
  <2>2. CASE Candidates(y, 1, big) = {}
    BY <2>1, <2>2, NotThere
  <2>3. CASE Candidates(y, 1, big) # {}
    <3>1. PICK q : q = First(Candidates(y, 1, big))
      OBVIOUS
    <3>2. Comes(y, V, W, K, big, 1, q)
      <4>1. big \in Tree(y) /\ Ready(y, V, W, K, big) /\ 1 \in Size
        BY NextPieceIs, OneSize
      <4>2. q \in Candidates(y, 1, big)
        <5>1. Candidates(y, 1, big) \in SUBSET Block
          BY <4>1, CandidatesAre, ReadyFacts
        <5>. QED  BY <2>3, <3>1, <5>1, FirstIs
      <4>3. b \notin Candidates(y, 1, big) /\ b = Leaf(b.at) /\ b.at \in Pages(big) /\ b.at \notin W
            /\ V \subseteq W
        BY <2>1, LostPieceIs
      <4>4. q \in Block /\ q.size = 1
        BY <4>1, <4>2, CandidatesAre, ReadyFacts
      <4>5. b.at \notin Pages(q)
        <5>1. Pages(q) = {q.at} /\ q = Leaf(q.at)
          BY <4>4, LeafIs
        <5>. QED  BY <4>2, <4>3, <5>1
      <4>6. ~(Pages(big) \subseteq V \cup Pages(q))
        BY <4>3, <4>5
      <4>. QED  BY <2>3, <3>1, <4>1, <4>6 DEF Comes
    <3>3. CASE NoMemory(y, q, actual, fails)
      <4>1. Comes(y, V, W, K, big, b.size, q)
        BY <1>3, <3>2
      <4>. QED  BY <3>3, <4>1, PieceUndone
    <3>4. CASE ~NoMemory(y, q, actual, fails)
      BY <1>3, <2>1, <3>2, <3>4, LostEnds
    <3>. QED  BY <3>3, <3>4
  <2>. QED  BY <2>2, <2>3
<1>. QED  BY <1>1, <1>2, <1>3
-----------------------------------------------------------------------------
(* What kmalloc answers                                                    *)

LEMMA RootReady ==
  ASSUME NEW a, NEW U, NEW T, NEW L, Shows(a, U, T, L)
  PROVE  Root(a) \in Tree(a) /\ Ready(a, U, T, L, Root(a))
<1>1. Fulls(a, U, T, L) /\ a.size \in Size /\ Root(a) \in Block /\ Root(a) \in Tree(a)
  BY FullsIs, TreeIs, RootIs DEF Shows
<1>2. ASSUME NEW c \in Above(Root(a)), c \in Tree(a) PROVE FALSE
  <2>1. c \in Block /\ Pages(c) \subseteq Pages(Root(a)) /\ Pages(Root(a)) \subseteq Pages(c) /\ c # Root(a)
    BY <1>1, <1>2, AboveIs, TreeIs
  <2>2. Pages(c) = Pages(Root(a))
    BY <2>1
  <2>. QED  BY <1>1, <2>1, <2>2, SamePages
<1>. QED  BY <1>1, <1>2 DEF Ready, Shows

\* A single block.
LEMMA BlockTaken ==
  ASSUME NEW a, NEW U, NEW T, NEW L, Shows(a, U, T, L), AllIdle(a, T), NEW s \in Size,
         NEW actual, NEW fails
  PROVE  LET r == AllocBlock(a, s, Root(a), actual, fails)
         IN  Gets(r, a, U, T, L, s, actual) \/ Failed(r, a, U, T, L, fails)
<1>1. /\ a.size \in Size /\ Root(a) \in Tree(a) /\ Ready(a, U, T, L, Root(a)) /\ s \in Nat \ {0}
      /\ a.size \in Nat /\ a.size <= MaxSize /\ Pages(Root(a)) = Span(0, a.size)
  BY RootReady, FullsIs, SizeNat, RootIs DEF Shows
<1>. DEFINE hit == Candidates(a, s, Root(a))
<1>2. PICK r : r = AllocBlock(a, s, Root(a), actual, fails)
  OBVIOUS
<1>0. PICK top : top = Root(a)
  OBVIOUS
<1>3. CASE hit = {}
  <2>1. NotFoundIs(r, a, U, T, L)
    BY <1>1, <1>2, <1>3, NotFound
  <2>2. /\ r.ok = FALSE /\ r.stray = {} /\ r.area.size = a.size
        /\ Frames(r.area) = Frames(a) /\ Shows(r.area, U, T, L)
    BY <2>1 DEF NotFoundIs
  <2>3. Calm(r.area, a, T)
    BY <2>2, FramesCalm
  <2>. QED  BY <1>2, <2>2, <2>3 DEF Failed, Back
<1>4. CASE hit # {}
  <2>1. PICK b : b = First(hit)
    OBVIOUS
  <2>2. Comes(a, U, T, L, top, s, b)
    BY <1>0, <1>1, <1>4, <2>1 DEF Comes
  <2>5. b \in Block /\ b \in Under(Root(a)) /\ b.size = s /\ Pages(b) \cap T = {}
    BY <1>0, <2>2, ComesIs
  <2>6. b.at \in Nat /\ Pages(b) = Span(b.at, s) /\ b.at + s <= a.size
    <3>1. Inside(b, Root(a))
      BY <2>5 DEF Under
    <3>. QED  BY <1>1, <2>5, <3>1, BlockIs DEF Inside, Root, Pages
  <2>7. CASE NoMemory(a, b, actual, fails)
    <3>1. PICK z : z = AllocBlock(a, s, top, actual, fails)
      OBVIOUS
    <3>2. Failed(z, a, U, T, L, fails)
      BY <2>2, <2>7, <3>1, Undone
    <3>. QED  BY <1>0, <1>2, <3>1, <3>2
  <2>8. CASE ~NoMemory(a, b, actual, fails)
    <3>1. FoundIs(r, a, U, T, L, b, actual) /\ r = Got(r.area, b.at)
      <4>1. PICK z : z = AllocBlock(a, s, top, actual, fails)
        OBVIOUS
      <4>2. FoundIs(z, a, U, T, L, b, actual) /\ z = Got(z.area, b.at)
        BY <2>2, <2>8, <4>1, Found
      <4>. QED  BY <1>0, <1>2, <4>1, <4>2
    <3>2. PICK N : N = {}
      OBVIOUS
    <3>3. r.stray = N
      BY <3>1, <3>2 DEF Got
    <3>4. r.ok = TRUE /\ r.at = b.at /\ r.area.size = a.size
      BY <3>1 DEF FoundIs
    <3>5. PICK P : P = Span(r.at, s)
      OBVIOUS
    <3>6. Shows(r.area, U \cup P, T \cup P, L \ P) /\ Frames(r.area) = With(a, P, actual)
      BY <2>6, <3>1, <3>4, <3>5 DEF FoundIs
    <3>7. T \cup P = T \cup P \cup N /\ L \ P = L \ (P \cup N) /\ P = (P \ N) \cup N
      BY <3>2
    <3>8. Shows(r.area, U \cup P, T \cup P \cup N, L \ (P \cup N))
      BY <3>6, <3>7
    <3>9. Frames(r.area) = With(a, (P \ N) \cup N, actual)
      BY <3>6, <3>7
    <3>10. P \cap T = {} /\ r.at \in Nat /\ r.at + s <= a.size
      BY <2>5, <2>6, <3>4, <3>5
    <3>11. Answers(r, a, U, T, L, s, actual, N, N)
      BY <1>1, <3>2, <3>3, <3>4, <3>5, <3>8, <3>9, <3>10 DEF Answers
    <3>. QED  BY <1>2, <3>11 DEF Gets
  <2>. QED  BY <2>7, <2>8
<1>. QED  BY <1>3, <1>4

\* The bigger block that a multi-step allocation takes its pieces from.
LEMMA BigIs ==
  ASSUME NEW a, NEW U, NEW T, NEW L, Shows(a, U, T, L), NEW s \in Size, s # 1,
         Candidates(a, s, Root(a)) # {}, NEW big, big = First(Candidates(a, s, Root(a))),
         NEW w, w = Searched(a, s, Root(a))
  PROVE  /\ big \in Tree(a) /\ big \in Block /\ big.size = s /\ Pages(big) \cap T = {}
         /\ Ready(w, U, T, L, big) /\ w.size = a.size /\ Frames(w) = Frames(a)
         /\ \A c \in w.split : c \notin Under(big)
<1>1. /\ a \in Area /\ a.size \in Size /\ Root(a) \in Tree(a) /\ Ready(a, U, T, L, Root(a))
      /\ Root(a) \in Block /\ Fulls(a, U, T, L)
  BY RootReady, FullsIs DEF Shows
<1>2. PICK hit : hit = Candidates(a, s, Root(a))
  OBVIOUS
<1>3. hit \in SUBSET Block
  BY <1>1, <1>2, CandidatesAre, ReadyFacts
<1>4. big \in hit
  BY <1>2, <1>3, FirstIs
<1>5. big \in Block /\ big \in Tree(a) /\ big.size = s /\ Pages(big) \cap T = {} /\ big \notin a.split
  BY <1>1, <1>2, <1>3, <1>4, CandidatesAre DEF Tree
<1>6. Split1(w, a, L, s, Root(a), Over(hit)) /\ Over(hit) = Above(big)
  BY <1>1, <1>2, <1>4, SearchedIs DEF Over
<1>7. /\ w \in Area /\ w.size = a.size /\ w.full = a.full
      /\ w.allocated = a.allocated /\ w.pages = a.pages
      /\ a.split \subseteq w.split /\ w.split \subseteq Tree(a)
      /\ Above(big) \cap Tree(a) \subseteq w.split
      /\ \A c \in w.split : c \notin a.split => c \in Tree(a) /\ c.size > s /\ c \in Above(big)
      /\ \A c \in w.split : Above(c) \cap Tree(a) \subseteq w.split
  BY <1>6 DEF Split1, Tree
<1>8. Tree(w) = Tree(a) /\ Root(w) = Root(a)
  BY <1>7 DEF Tree, Root
<1>9. Closed(w)
  BY <1>1, <1>7, <1>8 DEF Closed, Fulls
<1>10. Fulls(w, U, T, L)
  BY <1>1, <1>7, <1>8, <1>9 DEF Fulls
<1>11. \A c \in w.split : c.size > 1 /\ (Pages(c) \cap (T \cup L) # {} \/ c \in Above(big))
  <2>1. s \in Nat \ {0}
    BY SizeNat
  <2>2. ASSUME NEW c \in w.split PROVE c.size > 1
    <3>1. c \in Tree(a) /\ c.size \in Nat
      BY <1>1, <1>7, FullsIs, BlockIs
    <3>. QED  BY <1>7, <2>1, <2>2, <3>1 DEF Shows
  <2>3. ASSUME NEW c \in w.split PROVE Pages(c) \cap (T \cup L) # {} \/ c \in Above(big)
    BY <1>7, <2>3 DEF Shows
  <2>. QED  BY <2>2, <2>3
<1>12. Ready(w, U, T, L, big)
  BY <1>7, <1>8, <1>10, <1>11 DEF Ready
<1>13. ASSUME NEW c \in w.split, c \in Under(big) PROVE FALSE
  <2>1. c \in Block /\ Pages(c) \subseteq Pages(big) /\ c.size <= big.size /\ c.size \in Nat /\ big.size \in Nat
    BY <1>5, <1>13, UnderIs, InsidePages, BlockIs
  <2>2. c \in a.split
    BY <1>5, <1>7, <1>13, <2>1
  <2>3. big \in Above(c) \/ big = c
    BY <1>5, <2>1, AboveIs
  <2>. QED  BY <1>1, <1>5, <2>2, <2>3 DEF Fulls, Closed
<1>14. Frames(w) = Frames(a)
  BY <1>7 DEF Frames
<1>. QED  BY <1>5, <1>7, <1>12, <1>13, <1>14

\* The answer between two pieces, or when a failure or the last page has ended
\* the allocation.
Going(r, a, U, T, L, len, R, big, actual, fails) ==
  \/ Taking(r, a, U, T, L, R, big, actual)
  \/ Failed(r, a, U, T, L, fails)
  \/ Gets(r, a, U, T, L, len, actual) /\ R = Span(big.at, len)

LEMMA PieceNext ==
  ASSUME NEW a, NEW U, NEW T, NEW L, NEW big, NEW len, Piecewise(a, U, T, L, big, len),
         NEW b, b \in Pieces(big.at, len), NEW R, R = Span(big.at, b.at - big.at), NEW actual,
         NEW fails, NEW r, Going(r, a, U, T, L, len, R, big, actual, fails),
         NEW x, x = AllocPiece(r, b, big, actual, fails), NEW S, S = R \cup Pages(b)
  PROVE  Going(x, a, U, T, L, len, S, big, actual, fails)
<1>1. CASE Taking(r, a, U, T, L, R, big, actual)
  <2>1. PICK y, V, W, K : y = r.area /\ V = U \cup R /\ W = T \cup R /\ K = L \ R
    OBVIOUS
  <2>2. NextPiece(r, y, a, U, T, L, big, len, b, R, V, W, K, actual)
    BY <1>1, <2>1 DEF NextPiece
  <2>3. \/ b.size > 1 /\ Taking(x, a, U, T, L, S, big, actual)
        \/ b.size = 1 /\ Gets(x, a, U, T, L, len, actual)
        \/ Failed(x, a, U, T, L, fails)
    BY <2>2, PieceTaken
  <2>4. ASSUME b.size = 1 PROVE S = Span(big.at, len)
    <3>1. b.at = big.at + len - 1 /\ Pages(b) = {b.at} /\ big.at \in Nat /\ len \in Nat /\ 1 < len
      <4>1. b \in Block
        BY PieceFacts
      <4>2. b.at = big.at + len - 1
        BY <2>4, LastPage
      <4>3. Pages(b) = {b.at}
        BY <2>4, <4>1, LeafIs
      <4>4. big.at \in Nat /\ len \in Nat
        BY PiecewiseIs
      <4>. QED  BY <4>2, <4>3, <4>4 DEF Piecewise
    <3>. QED  BY <3>1 DEF Span
  <2>. QED  BY <2>3, <2>4 DEF Going
<1>2. CASE Failed(r, a, U, T, L, fails)
  <2>1. r.ok = FALSE
    BY <1>2 DEF Failed
  <2>2. x = r
    BY <2>1 DEF AllocPiece
  <2>. QED  BY <1>2, <2>2 DEF Going
<1>3. CASE R = Span(big.at, len)
  <2>1. Pages(b) \subseteq Span(big.at, len) /\ Pages(b) \cap R = {} /\ b \in Block
    BY PieceFacts
  <2>. QED  BY <1>3, <2>1, HasPage
<1>. QED  BY <1>1, <1>2, <1>3 DEF Going

LEMMA GoingEnds ==
  ASSUME NEW a, NEW U, NEW T, NEW L, NEW big, NEW len, Piecewise(a, U, T, L, big, len),
         NEW actual, NEW fails, NEW r, NEW R, R = Span(big.at, len),
         Going(r, a, U, T, L, len, R, big, actual, fails)
  PROVE  Gets(r, a, U, T, L, len, actual) \/ Failed(r, a, U, T, L, fails)
<1>1. SUFFICES ASSUME Taking(r, a, U, T, L, R, big, actual) PROVE Gets(r, a, U, T, L, len, actual)
  BY DEF Going
<1>2. /\ big.at \in Nat /\ len \in Nat \ {0} /\ big.at + len <= a.size /\ R \cap T = {} /\ R # {}
  <2>1. /\ big.at \in Nat /\ len \in Nat /\ big.at + len < a.size /\ a.size \in Nat
        /\ Span(big.at, len) \cap T = {}
    BY PiecewiseIs
  <2>2. 1 < len
    BY DEF Piecewise
  <2>3. big.at \in Span(big.at, len)
    BY <2>1, <2>2 DEF Span
  <2>. QED  BY <2>1, <2>2, <2>3
<1>3. PICK N : N = {}
  OBVIOUS
<1>4. /\ r.ok = TRUE /\ r.at = big.at /\ r.stray = N /\ r.area.size = a.size
      /\ Shows(r.area, U \cup R, T \cup R, L \ R) /\ Frames(r.area) = With(a, R, actual)
  BY <1>1, <1>2, <1>3 DEF Taking
<1>5. T \cup R = T \cup R \cup N /\ L \ R = L \ (R \cup N) /\ R = (R \ N) \cup N
  BY <1>3
<1>6. Shows(r.area, U \cup R, T \cup R \cup N, L \ (R \cup N))
  BY <1>4, <1>5
<1>7. Frames(r.area) = With(a, (R \ N) \cup N, actual)
  BY <1>4, <1>5
<1>8. R = Span(r.at, len)
  BY <1>4
<1>9. Answers(r, a, U, T, L, len, actual, N, N)
  BY <1>2, <1>3, <1>4, <1>6, <1>7, <1>8 DEF Answers
<1>. QED  BY <1>9 DEF Gets

LEMMA PiecesTaken ==
  ASSUME NEW a, NEW U, NEW T, NEW L, Shows(a, U, T, L), AllIdle(a, T), NEW s \in Size,
         NEW len \in Nat, 1 < len, len < s, NEW hit, hit = Candidates(a, s, Root(a)), hit # {},
         NEW big, big = First(hit), NEW w, w = Searched(a, s, Root(a)), NEW actual, NEW fails,
         NEW f, DoneRun(f, w, Pieces(big.at, len), big, actual, fails)
  PROVE  Gets(f[MaxSize], a, U, T, L, len, actual) \/ Failed(f[MaxSize], a, U, T, L, fails)
<1>1. /\ big \in Tree(a) /\ big \in Block /\ big.size = s /\ Pages(big) \cap T = {}
      /\ Ready(w, U, T, L, big) /\ w.size = a.size /\ Frames(w) = Frames(a)
      /\ \A c \in w.split : c \notin Under(big)
  <2>1. s # 1
    OBVIOUS
  <2>. QED  BY <2>1, BigIs
<1>2. Piecewise(a, U, T, L, big, len)
  BY <1>1 DEF Piecewise
<1>3. big.at \in Nat /\ big.at + len <= MaxSize /\ MaxSize \in Nat /\ a \in Area
  BY <1>2, PiecewiseIs
<1>. DEFINE pieces == Pieces(big.at, len)
<1>4. /\ \A b \in pieces : b \in Block
      /\ Union(pieces) = Span(big.at, len) /\ Starts(pieces)
      /\ \A b \in pieces : b.at \in Page
  BY <1>3, PiecesIs, BlockIs
<1>. HIDE DEF pieces
<1>. DEFINE P(i) == Behind(pieces, Up, i)
<1>. DEFINE S == {i \in 0 .. MaxSize : Going(f[i], a, U, T, L, len, Union(P(i)), big, actual, fails)}
<1>5. 0 \in S
  <2>1. P(0) = {}
    BY <1>4, BehindAll DEF Order
  <2>2. PICK N : N = {}
    OBVIOUS
  <2>3. Union(P(0)) = N /\ U \cup N = U /\ T \cup N = T /\ L \ N = L
    BY <2>1, <2>2 DEF Union
  <2>4. f[0] = Got(w, big.at)
    BY DEF DoneRun
  <2>5. Frames(w) = With(a, N, actual)
    BY <1>1, <1>3, <2>2, WithNone
  <2>6. PICK r : r = f[0]
    OBVIOUS
  <2>7. r.ok = TRUE /\ r.at = big.at /\ r.stray = {} /\ r.area = w
    BY <2>4, <2>6 DEF Got
  <2>8. Taking(r, a, U, T, L, N, big, actual)
    BY <1>1, <2>2, <2>3, <2>5, <2>7 DEF Taking
  <2>. QED  BY <1>3, <2>3, <2>6, <2>8 DEF Going
<1>6. ASSUME NEW i \in 1 .. MaxSize, i - 1 \in S PROVE i \in S
  <2>1. PICK r, x : r = f[i - 1] /\ x = f[i]
    OBVIOUS
  <2>2. x = DoneStep(r, pieces, big, actual, fails, Up[i]) /\ i \in 0 .. MaxSize /\ i \in Nat /\ i # 0
    BY <1>3, <2>1 DEF DoneRun, pieces
  <2>3. PICK R : R = Union(P(i - 1))
    OBVIOUS
  <2>4. Going(r, a, U, T, L, len, R, big, actual, fails)
    BY <1>6, <2>1, <2>3
  <2>5. CASE ~Begins(pieces, Up[i])
    <3>1. P(i) = P(i - 1) /\ x = r
      BY <1>4, <2>2, <2>5, BehindNext DEF DoneStep
    <3>. QED  BY <2>1, <2>2, <2>3, <2>4, <3>1
  <2>6. CASE Begins(pieces, Up[i])
    <3>1. PICK b \in pieces : b = At(pieces, Up[i]) /\ b.at = Up[i]
      BY <1>4, <2>6, AtIs
    <3>2. P(i) = P(i - 1) \cup {b}
      BY <1>4, <2>2, <2>6, <3>1, BehindNext
    <3>3. Union(P(i)) = R \cup Pages(b)
      BY <2>3, <3>2 DEF Union
    <3>4. x = AllocPiece(r, b, big, actual, fails)
      BY <2>2, <2>6, <3>1 DEF DoneStep
    <3>5. R = Span(big.at, b.at - big.at)
      <4>1. b.at = i - 1 /\ i - 1 \in 0 .. MaxSize
        BY <1>3, <3>1 DEF Up
      <4>2. P(i - 1) = Before(pieces, b.at)
        BY <1>4, <4>1, BehindUp
      <4>. QED  BY <1>3, <2>3, <4>2, BeforeIs DEF pieces
    <3>6. PICK V : V = R \cup Pages(b)
      OBVIOUS
    <3>7. Going(x, a, U, T, L, len, V, big, actual, fails)
      BY <1>2, <2>4, <3>4, <3>5, <3>6, PieceNext DEF pieces
    <3>. QED  BY <2>1, <2>2, <3>3, <3>6, <3>7
  <2>. QED  BY <2>5, <2>6
<1>7. MaxSize \in S
  <2>. HIDE DEF S
  <2>. QED  BY <1>3, <1>5, <1>6, Steps
<1>8. P(MaxSize) = pieces
  BY <1>4, BehindAll DEF Order
<1>9. PICK r, R : r = f[MaxSize] /\ R = Span(big.at, len)
  OBVIOUS
<1>10. Going(r, a, U, T, L, len, R, big, actual, fails)
  BY <1>4, <1>7, <1>8, <1>9
<1>. QED  BY <1>2, <1>9, <1>10, GoingEnds

\* kmalloc gives pages of which none was used, or everything is as before but
\* for pages lost.
LEMMA Allocates ==
  ASSUME NEW a, NEW U, NEW T, NEW L, Shows(a, U, T, L), AllIdle(a, T),
         NEW len \in 1 .. MaxSize, NEW actual, NEW fails
  PROVE  LET r == Alloc(a, len, actual, fails)
         IN  Gets(r, a, U, T, L, len, actual) \/ Failed(r, a, U, T, L, fails)
<1>1. PICK s : s = RoundedOf(len)
  OBVIOUS
<1>2. s \in Size /\ s \in Nat /\ s >= len /\ len \in Nat /\ 0 < len /\ s < 2 * len
  BY <1>1, RoundedIs, SizeNat
<1>. DEFINE hit == Candidates(a, s, Root(a))
<1>. DEFINE w == Searched(a, s, Root(a))
<1>4. PICK r : r = Alloc(a, len, actual, fails)
  OBVIOUS
<1>5. /\ len > a.size => r = NoBlock(a)
      /\ ~(len > a.size) /\ s = len => r = AllocBlock(a, len, Root(a), actual, fails)
      /\ ~(len > a.size) /\ s # len /\ hit = {} => r = NoBlock(w)
      /\ ~(len > a.size) /\ s # len /\ hit # {} =>
           \E f : DoneRun(f, w, Pieces(First(hit).at, len), First(hit), actual, fails)
                  /\ r = f[MaxSize]
  BY <1>1, <1>4, AllocIs
<1>6. CASE len > a.size
  <2>1. r.ok = FALSE /\ r.stray = {} /\ r.area = a
    BY <1>5, <1>6 DEF NoBlock
  <2>2. Calm(r.area, a, T)
    BY <2>1, FramesCalm
  <2>. QED  BY <1>4, <2>1, <2>2 DEF Failed, Back
<1>7. CASE ~(len > a.size) /\ s = len
  <2>1. r = AllocBlock(a, s, Root(a), actual, fails)
    BY <1>5, <1>7
  <2>2. Gets(r, a, U, T, L, s, actual) \/ Failed(r, a, U, T, L, fails)
    BY <1>2, <2>1, BlockTaken
  <2>. QED  BY <1>4, <1>7, <2>2
<1>8. CASE ~(len > a.size) /\ s # len /\ hit = {}
  <2>1. Root(a) \in Tree(a) /\ Ready(a, U, T, L, Root(a))
    BY RootReady
  <2>2. NotFoundIs(NoBlock(w), a, U, T, L)
    BY <1>2, <1>8, <2>1, NotFound
  <2>3. NotFoundIs(r, a, U, T, L)
    BY <1>5, <1>8, <2>2
  <2>4. /\ r.ok = FALSE /\ r.stray = {} /\ r.area.size = a.size
        /\ Frames(r.area) = Frames(a) /\ Shows(r.area, U, T, L)
    BY <2>3 DEF NotFoundIs
  <2>5. Calm(r.area, a, T)
    BY <2>4, FramesCalm
  <2>. QED  BY <1>4, <2>4, <2>5 DEF Failed, Back
<1>9. CASE ~(len > a.size) /\ s # len /\ hit # {}
  <2>1. PICK f : DoneRun(f, w, Pieces(First(hit).at, len), First(hit), actual, fails) /\ r = f[MaxSize]
    BY <1>5, <1>9
  <2>2. PICK big : big = First(hit)
    OBVIOUS
  <2>3. 1 < len /\ len < s
    BY <1>2, <1>9
  <2>4. PICK v, h : v = w /\ h = hit
    OBVIOUS
  <2>5. DoneRun(f, v, Pieces(big.at, len), big, actual, fails)
    BY <2>1, <2>2, <2>4
  <2>6. Gets(f[MaxSize], a, U, T, L, len, actual) \/ Failed(f[MaxSize], a, U, T, L, fails)
    BY <1>2, <1>9, <2>2, <2>3, <2>4, <2>5, PiecesTaken
  <2>. QED  BY <1>4, <2>1, <2>6
<1>. QED  BY <1>6, <1>7, <1>8, <1>9

-----------------------------------------------------------------------------
(* The heap grows                                                          *)

\* The old tree is the left half of the new one, whose right half is free.
LEMMA ExpandedShows ==
  ASSUME NEW a, NEW U, NEW T, NEW L, Shows(a, U, T, L), 2 * a.size \in Size
  PROVE  /\ Shows(Expanded(a), U, T, L) /\ Expanded(a).size = 2 * a.size
         /\ Frames(Expanded(a)) = Frames(a)
<1>1. /\ a \in Area /\ a.size \in Size /\ a.size \in Nat \ {0} /\ Root(a) \in Block
      /\ Pages(Root(a)) = Span(0, a.size) /\ Root(a) \in Tree(a) /\ Root(a).size = a.size
      /\ Fulls(a, U, T, L) /\ a.full \subseteq Tree(a) /\ a.split \subseteq Tree(a)
      /\ U \subseteq T /\ T \cap L = {} /\ T \cup L \subseteq Pages(Root(a))
  <2>1. Fulls(a, U, T, L)
    BY DEF Shows
  <2>2. a \in Area /\ a.size \in Size /\ a.full \subseteq Tree(a) /\ a.split \subseteq Tree(a)
    BY <2>1, FullsIs
  <2>3. a.size \in Nat \ {0}
    BY <2>2, SizeNat
  <2>4. /\ Root(a) \in Block /\ Pages(Root(a)) = Span(0, a.size) /\ Root(a) \in Tree(a)
        /\ Root(a).size = a.size
    BY <2>2, RootIs, TreeIs
  <2>5. U \subseteq T /\ T \cap L = {} /\ T \cup L \subseteq Pages(Root(a))
    BY <2>1 DEF Fulls
  <2>. QED  BY <2>1, <2>2, <2>3, <2>4, <2>5
<1>. DEFINE top == [at |-> 0, size |-> 2 * a.size]
<1>. DEFINE split == IF Root(a) \in Busy(a) THEN a.split \cup {top} ELSE a.split
<1>2. PICK x : x = Expanded(a)
  OBVIOUS
<1>3. x = [a EXCEPT !.size = 2 * @, !.split = split]
  BY <1>2 DEF Expanded
<1>4. /\ x.size = 2 * a.size /\ x.split = split /\ x.full = a.full
      /\ x.allocated = a.allocated /\ x.pages = a.pages
  BY <1>1, <1>3 DEF Area
<1>5. top = Root(x) /\ top \in Block /\ Pages(top) = Span(0, 2 * a.size) /\ top.size = 2 * a.size
      /\ top.size > 1
  BY <1>1, <1>4, RootIs DEF Root
<1>6. x \in Area
  <2>1. split \subseteq Block
    BY <1>1, <1>5 DEF Area
  <2>. HIDE DEF split
  <2>. QED  BY <1>1, <1>3, <2>1 DEF Area
<1>7. Span(0, a.size) \subseteq Span(0, 2 * a.size) /\ 0 \in Span(0, a.size)
      /\ a.size \in Span(0, 2 * a.size) /\ a.size \notin Span(0, a.size)
  BY <1>1 DEF Span
<1>. DEFINE A == Tree(x)
<1>8. /\ \A c : c \in A <=> c \in Block /\ Pages(c) \subseteq Pages(top)
      /\ \A c : c \in Tree(a) <=> c \in Block /\ Pages(c) \subseteq Pages(Root(a))
  BY <1>1, <1>4, <1>5, TreeIs
<1>9. Tree(a) \subseteq A /\ top \in A /\ top \notin Tree(a)
  BY <1>1, <1>5, <1>7, <1>8
<1>. HIDE DEF A, top, split
<1>10. ASSUME NEW c \in A PROVE c \in Tree(a) \/ c = top \/ Pages(c) \cap Pages(Root(a)) = {}
  <2>1. c \in Block /\ Pages(c) \subseteq Pages(top)
    BY <1>8
  <2>2. SUFFICES ASSUME NEW p \in Pages(c), p \in Pages(Root(a)), c \notin Tree(a) PROVE c = top
    OBVIOUS
  <2>4. Pages(Root(a)) \subseteq Pages(c)
    BY <1>1, <1>8, <2>1, <2>2, Laminar
  <2>5. c # Root(a)
    BY <1>1, <2>2
  <2>6. c \in Above(Root(a))
    BY <1>1, <2>1, <2>4, <2>5, AboveIs
  <2>7. a.size < c.size /\ c.size \in Size
    BY <1>1, <2>1, <2>6, AboveIs, BlockIs
  <2>8. 2 * a.size <= c.size /\ c.size \in Nat
    BY <1>1, <2>7, Twice, SizeNat
  <2>9. c.size <= top.size /\ Inside(c, top)
    BY <1>5, <2>1, InsidePages
  <2>10. c.size = top.size
    BY <1>1, <1>5, <2>8, <2>9
  <2>. QED  BY <1>5, <2>1, <2>9, <2>10, InsidePages
<1>11. \A c : c \in x.split <=> c \in a.split \/ (c = top /\ Root(a) \in Busy(a))
  BY <1>4 DEF split
<1>12. Root(a) \in Busy(a) => Pages(top) \cap (T \cup L) # {}
  BY <1>1, <1>5, <1>7, BusyOnly
<1>13. ASSUME NEW p \in Pages(top), p \in T PROVE Root(a) \in Busy(a)
  <2>1. Pages(Root(a)) \cap T # {}
    BY <1>1, <1>13
  <2>. QED  BY <1>1, <2>1, BusyIs
<1>14. Closed(x)
  <2>1. ASSUME NEW c \in x.split, NEW e \in Above(c), e \in A PROVE e \in x.split
    <3>1. CASE c = top
      <4>1. e \in Block /\ Pages(top) \subseteq Pages(e) /\ Pages(e) \subseteq Pages(top) /\ e # top
        BY <1>5, <1>8, <2>1, <3>1, AboveIs
      <4>2. Pages(e) = Pages(top)
        BY <4>1
      <4>. QED  BY <1>5, <4>1, <4>2, SamePages
    <3>2. CASE c \in a.split
      <4>1. c \in Tree(a) /\ c \in Block /\ Pages(c) # {} /\ Pages(c) \subseteq Pages(Root(a))
        BY <1>1, <1>8, <3>2, HasPage
      <4>2. Pages(c) \subseteq Pages(e)
        BY <2>1, <4>1, AboveIs
      <4>3. CASE e \in Tree(a)
        BY <1>1, <1>11, <2>1, <3>2, <4>3 DEF Fulls, Closed
      <4>4. CASE e = top
        <5>1. c = Root(a) \/ Root(a) \in Above(c)
          BY <1>1, <4>1, AboveIs
        <5>2. Root(a) \in a.split
          BY <1>1, <3>2, <5>1 DEF Fulls, Closed
        <5>. QED  BY <1>11, <4>4, <5>2 DEF Busy
      <4>. QED  BY <1>10, <2>1, <4>1, <4>2, <4>3, <4>4
    <3>. QED  BY <1>11, <2>1, <3>1, <3>2
  <2>2. x.split \subseteq A /\ x.full \subseteq A
    BY <1>1, <1>4, <1>9, <1>11
  <2>3. \A c \in x.full : Under(c) \subseteq x.full
    BY <1>1, <1>4 DEF Fulls, Closed
  <2>. QED  BY <2>1, <2>2, <2>3 DEF Closed, A
<1>15. ASSUME NEW c \in A, Pages(c) \subseteq U PROVE c \in x.full
  <2>1. Pages(c) # {} /\ Pages(c) \subseteq Pages(Root(a))
    BY <1>1, <1>8, <1>15, HasPage
  <2>2. c # top
    BY <1>1, <1>5, <1>7, <2>1
  <2>3. c \in Tree(a)
    BY <1>10, <1>15, <2>1, <2>2
  <2>. QED  BY <1>1, <1>4, <1>15, <2>3 DEF Fulls
<1>16. ASSUME NEW c \in A, c.size > 1, Pages(c) \cap T # {} PROVE c \in x.split
  <2>1. CASE c \in Tree(a)
    BY <1>1, <1>11, <1>16, <2>1 DEF Fulls
  <2>2. CASE c = top
    BY <1>11, <1>13, <1>16, <2>2
  <2>. QED  BY <1>1, <1>10, <1>16, <2>1, <2>2
<1>17. ASSUME NEW c \in x.split PROVE c.size > 1 /\ Pages(c) \cap (T \cup L) # {}
  <2>1. CASE c \in a.split
    BY <2>1 DEF Shows
  <2>2. CASE c = top /\ Root(a) \in Busy(a)
    BY <1>5, <1>12, <2>2
  <2>. QED  BY <1>11, <1>17, <2>1, <2>2
<1>18. T \cup L \subseteq Pages(Root(x))
  BY <1>1, <1>5, <1>7
<1>19. Fulls(x, U, T, L)
  <2>1. /\ \A c \in x.full : Pages(c) \subseteq T \cup L /\ (c.size > 1 => Pages(c) \cap T # {})
        /\ \A p \in T \cup L : Leaf(p) \in x.full
        /\ \A p \in L : p \notin x.allocated /\ x.pages[p] = Nothing
    BY <1>1, <1>4 DEF Fulls
  <2>. QED  BY <1>1, <1>6, <1>14, <1>15, <1>16, <1>18, <2>1 DEF Fulls, A
<1>20. Shows(x, U, T, L) /\ Frames(x) = Frames(a)
  BY <1>4, <1>17, <1>19 DEF Shows, Frames
<1>. QED  BY <1>2, <1>4, <1>20

LEMMA CalmTrans ==
  ASSUME NEW x, NEW y, NEW a, NEW T, Calm(x, a, T), Calm(y, x, T)
  PROVE  Calm(y, a, T)
<1>1. ASSUME NEW p \in Page PROVE SameFrame(y, a, p) \/ (p \notin T /\ Idle(y, p))
  <2>1. SameFrame(x, a, p) \/ (p \notin T /\ Idle(x, p))
    BY DEF Calm
  <2>2. SameFrame(y, x, p) \/ (p \notin T /\ Idle(y, p))
    BY DEF Calm
  <2>. QED  BY <2>1, <2>2 DEF SameFrame, NoFrame, Idle
<1>. QED  BY <1>1 DEF Calm

LEMMA CalmIdle ==
  ASSUME NEW x, NEW a, NEW T, Calm(x, a, T), AllIdle(a, T)
  PROVE  AllIdle(x, T)
<1>1. ASSUME NEW p \in Page \ T PROVE Idle(x, p)
  <2>1. Idle(a, p) /\ (SameFrame(x, a, p) \/ Idle(x, p))
    BY DEF Calm, AllIdle
  <2>. QED  BY <2>1 DEF SameFrame, NoFrame, Idle
<1>. QED  BY <1>1 DEF AllIdle

Retried(r, len, actual, fails, limit) ==
  IF r.ok \/ r.area.size >= limit THEN r ELSE Alloc(Expanded(r.area), len, actual, fails)
IsTried(f, len, actual, fails, limit, n) ==
  f = [i \in 0 .. n |->
         IF i = 0 THEN Alloc(area, len, actual, fails)
         ELSE IF f[i - 1].ok \/ f[i - 1].area.size >= limit THEN f[i - 1]
         ELSE Alloc(Expanded(f[i - 1].area), len, actual, fails)]

LEMMA TriedExists ==
  ASSUME NEW len, NEW actual, NEW fails, NEW limit
  PROVE  \A n \in Nat : \E f : IsTried(f, len, actual, fails, limit, n)
<1>. DEFINE S == {n \in Nat : \E f : IsTried(f, len, actual, fails, limit, n)}
<1>. DEFINE first == Alloc(area, len, actual, fails)
<1>1. 0 \in S
  <2>1. IsTried([i \in 0 .. 0 |-> first], len, actual, fails, limit, 0)
    BY DEF IsTried
  <2>. QED  BY <2>1
<1>2. ASSUME NEW n \in Nat, n # 0, n - 1 \in S PROVE n \in S
  <2>1. PICK f : IsTried(f, len, actual, fails, limit, n - 1)
    BY <1>2
  <2>. DEFINE g == [i \in 0 .. n |-> IF i = n THEN Retried(f[n - 1], len, actual, fails, limit) ELSE f[i]]
  <2>2. g = [i \in 0 .. n |-> g[i]]
    OBVIOUS
  <2>3. ASSUME NEW i \in 0 .. n
        PROVE  g[i] = IF i = 0 THEN first
                      ELSE IF g[i - 1].ok \/ g[i - 1].area.size >= limit THEN g[i - 1]
                      ELSE Alloc(Expanded(g[i - 1].area), len, actual, fails)
    <3>1. CASE i = n
      <4>1. i # 0 /\ g[i - 1] = f[i - 1] /\ g[i] = Retried(f[i - 1], len, actual, fails, limit)
        BY <1>2, <3>1
      <4>. HIDE DEF g
      <4>. QED  BY <4>1 DEF Retried
    <3>2. CASE i # n
      <4>1. i \in 0 .. n - 1 /\ (i # 0 => g[i - 1] = f[i - 1]) /\ g[i] = f[i]
        BY <3>2
      <4>2. f[i] = IF i = 0 THEN first
                   ELSE IF f[i - 1].ok \/ f[i - 1].area.size >= limit THEN f[i - 1]
                   ELSE Alloc(Expanded(f[i - 1].area), len, actual, fails)
        BY <2>1, <4>1 DEF IsTried
      <4>. QED  BY <4>1, <4>2
    <3>. QED  BY <3>1, <3>2
  <2>4. IsTried(g, len, actual, fails, limit, n)
    BY <2>2, <2>3 DEF IsTried
  <2>. QED  BY <2>4
<1>3. ASSUME NEW n \in Nat PROVE n \in S
  <2>1. \A i \in 1 .. n : i - 1 \in S => i \in S
    BY <1>2
  <2>2. \A i \in 0 .. n : i \in S
    BY <1>1, <2>1, Steps
  <2>. QED  BY <2>2
<1>. QED  BY <1>3

LEMMA TriedRun ==
  ASSUME NEW len, NEW actual, NEW fails, NEW limit
  PROVE  \E f : /\ f[0] = Alloc(area, len, actual, fails)
                /\ Reserve(len, actual, fails, limit) = f[MaxSize]
                /\ \A i \in 1 .. MaxSize : f[i] = Retried(f[i - 1], len, actual, fails, limit)
<1>. DEFINE f == CHOOSE f : IsTried(f, len, actual, fails, limit, MaxSize)
<1>1. IsTried(f, len, actual, fails, limit, MaxSize) /\ MaxSize \in Nat
  BY TriedExists, UserMapAssumption
<1>2. Reserve(len, actual, fails, limit) = f[MaxSize]
  BY DEF Reserve, IsTried
<1>. HIDE DEF f
<1>3. f[0] = Alloc(area, len, actual, fails)
  BY <1>1 DEF IsTried
<1>4. ASSUME NEW i \in 1 .. MaxSize PROVE f[i] = Retried(f[i - 1], len, actual, fails, limit)
  <2>1. i \in 0 .. MaxSize /\ i # 0
    BY <1>1
  <2>. QED  BY <1>1, <2>1 DEF IsTried, Retried
<1>. QED  BY <1>2, <1>3, <1>4

\* The answer to a call, when the heap has grown from a to x for it, and the
\* pages of K are lost by then.
Grows(x, K, a, U, T, L, fails) ==
  /\ Shows(x, U, T, K) /\ K \subseteq L \cup fails /\ AllIdle(x, T) /\ Calm(x, a, T)
  /\ x.size \in Nat /\ a.size <= x.size
Reserved(r, x, K, a, U, T, L, len, actual, fails) ==
  /\ Grows(x, K, a, U, T, L, fails)
  /\ Gets(r, x, U, T, K, len, actual) \/ Failed(r, x, U, T, K, fails)

LEMMA Reserves ==
  ASSUME NEW U, NEW T, NEW L, Shows(area, U, T, L), AllIdle(area, T),
         NEW len \in 1 .. MaxSize, NEW actual, NEW fails, NEW limit \in Size
  PROVE  \E x, K : Reserved(Reserve(len, actual, fails, limit), x, K, area, U, T, L, len, actual, fails)
<1>1. PICK f : /\ f[0] = Alloc(area, len, actual, fails)
               /\ Reserve(len, actual, fails, limit) = f[MaxSize]
               /\ \A i \in 1 .. MaxSize : f[i] = Retried(f[i - 1], len, actual, fails, limit)
  BY TriedRun
<1>2. MaxSize \in Nat /\ area.size \in Size /\ area.size \in Nat /\ limit \in Nat
  <2>1. Fulls(area, U, T, L)
    BY DEF Shows
  <2>2. area.size \in Size
    BY <2>1, FullsIs
  <2>. QED  BY <2>2, UserMapAssumption, SizeNat
<1>. DEFINE S == {i \in 0 .. MaxSize : \E x, K : Reserved(f[i], x, K, area, U, T, L, len, actual, fails)}
<1>3. 0 \in S
  <2>1. PICK r : r = f[0]
    OBVIOUS
  <2>2. Gets(r, area, U, T, L, len, actual) \/ Failed(r, area, U, T, L, fails)
    BY <1>1, <2>1, Allocates
  <2>3. Calm(area, area, T)
    BY FramesCalm
  <2>4. Grows(area, L, area, U, T, L, fails)
    BY <1>2, <2>3 DEF Grows
  <2>5. Reserved(r, area, L, area, U, T, L, len, actual, fails)
    BY <2>2, <2>4 DEF Reserved
  <2>. QED  BY <1>2, <2>1, <2>5
<1>4. ASSUME NEW i \in 1 .. MaxSize, i - 1 \in S PROVE i \in S
  <2>1. PICK r, y : r = f[i - 1] /\ y = f[i]
    OBVIOUS
  <2>2. y = Retried(r, len, actual, fails, limit) /\ i \in 0 .. MaxSize
    BY <1>1, <1>2, <2>1
  <2>3. PICK x, K : Reserved(r, x, K, area, U, T, L, len, actual, fails)
    BY <1>4, <2>1
  <2>4. CASE r.ok = TRUE \/ r.area.size >= limit
    <3>1. y = r
      BY <2>2, <2>4 DEF Retried
    <3>. QED  BY <2>1, <2>2, <2>3, <3>1
  <2>5. CASE r.ok # TRUE /\ ~(r.area.size >= limit)
    <3>1. Failed(r, x, U, T, K, fails) /\ r.ok = FALSE
      BY <2>3, <2>5 DEF Reserved, Gets, Answers, Failed
    <3>2. PICK z : z = r.area
      OBVIOUS
    <3>3. PICK J \in SUBSET (K \cup fails) : Shows(z, U, T, J) /\ z.size = x.size /\ Calm(z, x, T)
      BY <3>1, <3>2 DEF Failed, Back
    <3>4. /\ Calm(x, area, T) /\ AllIdle(x, T) /\ K \subseteq L \cup fails
          /\ x.size \in Nat /\ area.size <= x.size
      BY <2>3 DEF Reserved, Grows
    <3>5. z.size \in Size /\ z.size \in Nat /\ z.size < limit
      <4>1. z.size \in Size
        <5>1. Fulls(z, U, T, J)
          BY <3>3 DEF Shows
        <5>. QED  BY <5>1, FullsIs
      <4>2. ~(z.size >= limit)
        BY <2>5, <3>2
      <4>3. z.size \in Nat
        BY <4>1, SizeNat
      <4>. QED  BY <1>2, <4>1, <4>2, <4>3
    <3>6. 2 * z.size \in Size
      BY <3>5, Twice
    <3>7. PICK e : e = Expanded(z)
      OBVIOUS
    <3>8. Shows(e, U, T, J) /\ e.size = 2 * z.size /\ Frames(e) = Frames(z)
      BY <3>3, <3>6, <3>7, ExpandedShows
    <3>9. Calm(e, z, T)
      BY <3>8, FramesCalm
    <3>10. Calm(z, area, T)
      BY <3>3, <3>4, CalmTrans
    <3>11. Calm(e, area, T)
      BY <3>9, <3>10, CalmTrans
    <3>12. AllIdle(e, T)
      BY <3>11, CalmIdle
    <3>13. y = Alloc(e, len, actual, fails)
      BY <2>2, <2>5, <3>1, <3>2, <3>7 DEF Retried
    <3>14. Gets(y, e, U, T, J, len, actual) \/ Failed(y, e, U, T, J, fails)
      BY <3>8, <3>12, <3>13, Allocates
    <3>15. e.size \in Nat /\ area.size <= e.size
      BY <1>2, <3>3, <3>4, <3>5, <3>8
    <3>16. J \subseteq L \cup fails
      BY <3>3, <3>4
    <3>17. Reserved(y, e, J, area, U, T, L, len, actual, fails)
      BY <3>8, <3>11, <3>12, <3>14, <3>15, <3>16 DEF Reserved, Grows
    <3>. QED  BY <2>1, <2>2, <3>17
  <2>. QED  BY <2>4, <2>5
<1>5. MaxSize \in S
  <2>. HIDE DEF S
  <2>. QED  BY <1>2, <1>3, <1>4, Steps
<1>. QED  BY <1>1, <1>5

-----------------------------------------------------------------------------
(* The mappings and the pages they show                                    *)

Mappings == [at: Nat, len: Nat \ {0}, off: Nat, h: File \cup {Anonymous}]
AllPages(M) == UNION {MapPages(m) : m \in M}

Disjoint(M) == \A m, n \in M : m # n => MapPages(m) \cap MapPages(n) = {}
Fits(M, size) == M \subseteq Mappings /\ Disjoint(M) /\ AllPages(M) \subseteq Span(0, size)

\* A page of a mapping, with the pages of S stray.
Bares(a, S, m, p) == p = m.at + m.len - 1 /\ p \in Failing /\ S # {} /\ NoFrame(a, p)
Tells(a, S, m, p) ==
  IF m.h = Anonymous
  THEN \/ a.pages[p] # Nothing /\ a.pages[p].of = Anonymous /\ p \in a.allocated
       \/ Bares(a, S, m, p)
  ELSE a.pages[p] = Shown(m, p) /\ p \notin a.allocated

Told(a, M, S) ==
  /\ \A m \in M : \A p \in MapPages(m) : Tells(a, S, m, p)
  /\ \A p \in Page \ (AllPages(M) \cup S) : Idle(a, p)

\* The inductive invariant, of an area, a list of mappings and the stray pages,
\* with the pages of L lost.
Held(a, M, S, L) ==
  /\ Shows(a, AllPages(M), AllPages(M) \cup S, L) /\ L \subseteq Failing
  /\ AllPages(M) \cap S = {} /\ Fits(M, a.size) /\ Told(a, M, S)
Good(a, M, S) == \E L : Held(a, M, S, L)

LEMMA MapPagesIs ==
  ASSUME NEW m \in Mappings
  PROVE  /\ m.at \in Nat /\ m.len \in Nat \ {0} /\ m.off \in Nat /\ m.at \in MapPages(m)
         /\ m.h \in File \cup {Anonymous}
         /\ \A p : p \in MapPages(m) <=> p \in Int /\ m.at <= p /\ p < m.at + m.len
BY DEF Mappings, MapPages, Span

LEMMA FitsIs ==
  ASSUME NEW M, NEW a, a.size \in Size, Fits(M, a.size), NEW m \in M
  PROVE  /\ m \in Mappings /\ m.at \in Page /\ MapPages(m) \subseteq AllPages(M)
         /\ MapPages(m) \subseteq Page /\ m.at + m.len <= a.size
<1>1. /\ m \in Mappings /\ MapPages(m) \subseteq AllPages(M) /\ AllPages(M) \subseteq Span(0, a.size)
      /\ a.size \in Nat /\ a.size <= MaxSize /\ MaxSize \in Nat
  BY SizeNat, UserMapAssumption DEF Fits, AllPages
<1>2. m.at \in Nat /\ m.len \in Nat \ {0} /\ m.at \in MapPages(m) /\ m.at + m.len - 1 \in MapPages(m)
  BY <1>1, MapPagesIs
<1>3. Span(0, a.size) \subseteq Page
  BY <1>1 DEF Span, Page
<1>4. m.at + m.len - 1 \in Span(0, a.size)
  BY <1>1, <1>2
<1>. QED  BY <1>1, <1>2, <1>3, <1>4 DEF Span

LEMMA MappingStarts ==
  ASSUME NEW M, M \subseteq Mappings, Disjoint(M)
  PROVE  Starts(M)
<1>1. \A m \in M : m.at \in MapPages(m)
  BY MapPagesIs
<1>. QED  BY <1>1 DEF Disjoint, Starts

LEMMA HeldIs ==
  ASSUME NEW a, NEW M, NEW S, NEW L, Held(a, M, S, L)
  PROVE  /\ Shows(a, AllPages(M), AllPages(M) \cup S, L) /\ L \subseteq Failing
         /\ AllPages(M) \cap S = {} /\ Fits(M, a.size) /\ Told(a, M, S)
         /\ a \in Area /\ a.size \in Size /\ a.size \in Nat /\ a.size <= MaxSize /\ MaxSize \in Nat
         /\ AllPages(M) \subseteq Span(0, a.size) /\ Span(0, a.size) \subseteq Page
<1>1. /\ Shows(a, AllPages(M), AllPages(M) \cup S, L) /\ L \subseteq Failing
      /\ AllPages(M) \cap S = {} /\ Fits(M, a.size) /\ Told(a, M, S)
  BY DEF Held
<1>2. Fulls(a, AllPages(M), AllPages(M) \cup S, L)
  BY <1>1 DEF Shows
<1>3. a \in Area /\ a.size \in Size
  BY <1>2, FullsIs
<1>4. a.size \in Nat /\ a.size <= MaxSize /\ MaxSize \in Nat
  BY <1>3, SizeNat, UserMapAssumption
<1>5. Span(0, a.size) \subseteq Page
  BY <1>4 DEF Span, Page
<1>6. AllPages(M) \subseteq Span(0, a.size)
  BY <1>1 DEF Fits
<1>. QED  BY <1>1, <1>3, <1>4, <1>5, <1>6

\* More stray pages do not matter to a mapping.
LEMMA TellsMore ==
  ASSUME NEW a, NEW x, NEW S, NEW N, S \subseteq N, NEW m, NEW p, Tells(a, S, m, p), SameFrame(x, a, p)
  PROVE  Tells(x, N, m, p)
<1>1. (p \in x.allocated <=> p \in a.allocated) /\ x.pages[p] = a.pages[p]
  BY DEF SameFrame
<1>2. Bares(a, S, m, p) => Bares(x, N, m, p)
  BY <1>1 DEF Bares, NoFrame
<1>. QED  BY <1>1, <1>2 DEF Tells

LEMMA IdleStays ==
  ASSUME NEW a, NEW x, NEW p, Idle(a, p), SameFrame(x, a, p)
  PROVE  Idle(x, p)
BY DEF SameFrame, Idle, NoFrame

-----------------------------------------------------------------------------
(* mmap                                                                    *)

\* What a call can do without a mapping to see of it: x is now the area and N
\* the stray pages.
Still(x, N, a, M, S) ==
  \E K \in SUBSET Failing :
    /\ Shows(x, AllPages(M), AllPages(M) \cup N, K) /\ Calm(x, a, AllPages(M) \cup S)
    /\ a.size <= x.size /\ S \subseteq N /\ AllPages(M) \cap N = {}

LEMMA StillGood ==
  ASSUME NEW a, NEW M, NEW S, Good(a, M, S), NEW x, NEW N, Still(x, N, a, M, S)
  PROVE  Good(x, M, N)
<1>1. PICK L : Held(a, M, S, L)
  BY DEF Good
<1>2. PICK K \in SUBSET Failing :
        /\ Shows(x, AllPages(M), AllPages(M) \cup N, K) /\ Calm(x, a, AllPages(M) \cup S)
        /\ a.size <= x.size /\ S \subseteq N /\ AllPages(M) \cap N = {}
  BY DEF Still
<1>3. a.size \in Size /\ a.size \in Nat /\ Fits(M, a.size) /\ Told(a, M, S)
  BY <1>1, HeldIs
<1>4. x.size \in Nat
  <2>1. Fulls(x, AllPages(M), AllPages(M) \cup N, K)
    BY <1>2 DEF Shows
  <2>2. x.size \in Size
    BY <2>1, FullsIs
  <2>. QED  BY <2>2, SizeNat
<1>5. Fits(M, x.size)
  <2>1. Span(0, a.size) \subseteq Span(0, x.size)
    BY <1>2, <1>3, <1>4 DEF Span
  <2>. QED  BY <1>3, <2>1 DEF Fits
<1>6. ASSUME NEW m \in M, NEW p \in MapPages(m) PROVE Tells(x, N, m, p)
  <2>1. p \in Page /\ p \in AllPages(M)
    BY <1>3, FitsIs
  <2>2. Tells(a, S, m, p)
    BY <1>3 DEF Told
  <2>3. SameFrame(x, a, p)
    BY <1>2, <2>1 DEF Calm
  <2>. QED  BY <1>2, <2>2, <2>3, TellsMore
<1>7. ASSUME NEW p \in Page \ (AllPages(M) \cup N) PROVE Idle(x, p)
  <2>1. Idle(a, p)
    BY <1>2, <1>3 DEF Told
  <2>2. SameFrame(x, a, p) \/ Idle(x, p)
    BY <1>2 DEF Calm
  <2>. QED  BY <2>1, <2>2, IdleStays
<1>8. Told(x, M, N)
  BY <1>6, <1>7 DEF Told
<1>9. Held(x, M, N, K)
  BY <1>2, <1>5, <1>8 DEF Held
<1>. QED  BY <1>9 DEF Good

\* What a call adds to a: the mapping m, at pages that were idle.
Adds(x, a, M, S, m, N) ==
  /\ m \in Mappings /\ MapPages(m) \cap AllPages(M) = {} /\ m.at + m.len <= a.size
  /\ \E K \in SUBSET Failing :
       Shows(x, AllPages(M) \cup MapPages(m), (AllPages(M) \cup MapPages(m)) \cup N, K)
  /\ x.size = a.size /\ S \subseteq N /\ (AllPages(M) \cup MapPages(m)) \cap N = {}
  /\ \A p \in Page \ (MapPages(m) \cup N) : SameFrame(x, a, p)
  /\ \A p \in MapPages(m) : Tells(x, N, m, p)

LEMMA AddedGood ==
  ASSUME NEW a, NEW M, NEW S, Good(a, M, S), NEW x, NEW m, NEW N, Adds(x, a, M, S, m, N)
  PROVE  Good(x, M \cup {m}, N)
<1>0. PICK W : W = M \cup {m}
  OBVIOUS
<1>1. PICK L : Held(a, M, S, L)
  BY DEF Good
<1>2. /\ a.size \in Size /\ a.size \in Nat /\ Fits(M, a.size) /\ Told(a, M, S)
      /\ AllPages(M) \subseteq Span(0, a.size) /\ AllPages(M) \cap S = {}
  BY <1>1, HeldIs
<1>3. AllPages(W) = AllPages(M) \cup MapPages(m)
  BY <1>0 DEF AllPages
<1>4. /\ m \in Mappings /\ MapPages(m) \cap AllPages(M) = {} /\ m.at + m.len <= a.size
      /\ x.size = a.size /\ S \subseteq N /\ AllPages(W) \cap N = {}
      /\ \A p \in Page \ (MapPages(m) \cup N) : SameFrame(x, a, p)
      /\ \A p \in MapPages(m) : Tells(x, N, m, p)
  BY <1>3 DEF Adds
<1>5. PICK K \in SUBSET Failing : Shows(x, AllPages(W), AllPages(W) \cup N, K)
  BY <1>3 DEF Adds
<1>6. \A n \in M : MapPages(n) \subseteq Page /\ MapPages(n) \subseteq AllPages(M)
  BY <1>2, FitsIs
<1>7. Fits(W, x.size)
  <2>1. W \subseteq Mappings
    BY <1>0, <1>2, <1>4 DEF Fits
  <2>2. Disjoint(W)
    <3>1. \A n \in M : MapPages(n) \cap MapPages(m) = {}
      BY <1>4, <1>6
    <3>2. Disjoint(M)
      BY <1>2 DEF Fits
    <3>. QED  BY <1>0, <3>1, <3>2 DEF Disjoint
  <2>3. MapPages(m) \subseteq Span(0, x.size)
    BY <1>2, <1>4, MapPagesIs DEF Span
  <2>4. AllPages(W) \subseteq Span(0, x.size)
    BY <1>2, <1>3, <1>4, <2>3
  <2>. QED  BY <2>1, <2>2, <2>4 DEF Fits
<1>8. ASSUME NEW n \in M, NEW p \in MapPages(n) PROVE Tells(x, N, n, p)
  <2>1. p \in Page \ (MapPages(m) \cup N)
    BY <1>3, <1>4, <1>6
  <2>2. Tells(a, S, n, p)
    BY <1>2 DEF Told
  <2>3. SameFrame(x, a, p)
    BY <1>4, <2>1
  <2>. QED  BY <1>4, <2>2, <2>3, TellsMore
<1>9. ASSUME NEW p \in Page \ (AllPages(W) \cup N) PROVE Idle(x, p)
  <2>1. Idle(a, p) /\ SameFrame(x, a, p)
    BY <1>2, <1>3, <1>4 DEF Told
  <2>. QED  BY <2>1, IdleStays
<1>10. Told(x, W, N)
  <2>1. \A n \in W : \A p \in MapPages(n) : Tells(x, N, n, p)
    BY <1>0, <1>4, <1>8
  <2>. QED  BY <1>9, <2>1 DEF Told
<1>11. Held(x, W, N, K)
  BY <1>4, <1>5, <1>7, <1>10 DEF Held
<1>. QED  BY <1>0, <1>11 DEF Good

LEMMA LensIs ==
  ASSUME NEW len \in Lens
  PROVE  len \in 1 .. MaxSize /\ len \in Nat \ {0}
BY SizeNat, UserMapAssumption

\* What a call that asks for len pages of the heap can have been given.
Granted(r, x, K, a, M, S, len, actual, B, G) ==
  /\ Still(x, S, a, M, S) /\ Good(x, M, S) /\ Held(x, M, S, K)
  /\ Answers(r, x, AllPages(M), AllPages(M) \cup S, K, len, actual, B, G)

LEMMA Asked ==
  ASSUME Good(area, maps, stray), NEW len \in 1 .. MaxSize, NEW actual, NEW fails \in SUBSET Failing,
         NEW limit \in Size, NEW r, r = Reserve(len, actual, fails, limit)
  PROVE  \/ r.ok = FALSE /\ r.stray = {} /\ Still(r.area, stray, area, maps, stray)
         \/ \E x, K, B, G : Granted(r, x, K, area, maps, stray, len, actual, B, G)
<1>1. PICK L : Held(area, maps, stray, L)
  BY DEF Good
<1>2. PICK U, T : U = AllPages(maps) /\ T = AllPages(maps) \cup stray
  OBVIOUS
<1>3. /\ Shows(area, U, T, L) /\ L \subseteq Failing /\ Told(area, maps, stray)
      /\ AllPages(maps) \cap stray = {} /\ area.size \in Nat
  BY <1>1, <1>2, HeldIs
<1>4. AllIdle(area, T)
  BY <1>2, <1>3 DEF Told, AllIdle
<1>5. PICK x, K : Reserved(r, x, K, area, U, T, L, len, actual, fails)
  BY <1>3, <1>4, Reserves
<1>6. /\ Shows(x, U, T, K) /\ K \subseteq Failing /\ Calm(x, area, T) /\ AllIdle(x, T)
      /\ x.size \in Nat /\ area.size <= x.size
  BY <1>3, <1>5 DEF Reserved, Grows
<1>7. Still(x, stray, area, maps, stray)
  BY <1>2, <1>3, <1>6 DEF Still
<1>8. Good(x, maps, stray)
  BY <1>7, StillGood
<1>9. CASE Gets(r, x, U, T, K, len, actual)
  <2>1. PICK B, G : Answers(r, x, U, T, K, len, actual, B, G)
    BY <1>9 DEF Gets
  <2>2. PICK J : Held(x, maps, stray, J)
    BY <1>8 DEF Good
  <2>3. Held(x, maps, stray, K)
    <3>1. Fits(maps, x.size) /\ Told(x, maps, stray)
      BY <2>2, HeldIs
    <3>. QED  BY <1>2, <1>3, <1>6, <3>1 DEF Held
  <2>4. Answers(r, x, AllPages(maps), AllPages(maps) \cup stray, K, len, actual, B, G)
    BY <1>2, <2>1
  <2>5. Granted(r, x, K, area, maps, stray, len, actual, B, G)
    BY <1>7, <1>8, <2>3, <2>4 DEF Granted
  <2>. QED  BY <2>5
<1>10. CASE Failed(r, x, U, T, K, fails)
  <2>1. PICK y : y = r.area
    OBVIOUS
  <2>2. r.ok = FALSE /\ r.stray = {} /\ Back(y, x, U, T, K, fails)
    BY <1>10, <2>1 DEF Failed
  <2>3. PICK J \in SUBSET (K \cup fails) : Shows(y, U, T, J) /\ y.size = x.size /\ Calm(y, x, T)
    BY <2>2 DEF Back
  <2>4. Calm(y, area, T)
    BY <1>6, <2>3, CalmTrans
  <2>5. J \subseteq Failing
    BY <1>6, <2>3
  <2>6. Still(y, stray, area, maps, stray)
    BY <1>2, <1>3, <1>6, <2>3, <2>4, <2>5 DEF Still
  <2>. QED  BY <2>1, <2>2, <2>6
<1>. QED  BY <1>5, <1>9, <1>10 DEF Reserved

\* The pages of a call that has been granted.
GrantFrames(y, x, B, G, R, actual) ==
  /\ \A p \in Page \ (R \cup G) : SameFrame(y, x, p)
  /\ ~actual => \A p \in Page : SameFrame(y, x, p)
  /\ actual => \A p \in R \ B : p \in y.allocated /\ y.pages[p] = Zero
  /\ \A p \in B : NoFrame(y, p)
  /\ \A p \in R \cup G : Idle(y, p)

GrantIs(y, at, x, K, a, M, S, len, actual, B, G, R, N) ==
  /\ R = Span(at, len) /\ N = S \cup G /\ at \in Nat /\ len \in Nat \ {0} /\ at + len <= x.size
  /\ at + len - 1 \in R /\ R \subseteq Page /\ R \cap (AllPages(M) \cup N) = {} /\ AllPages(M) \cap N = {}
  /\ y.size = x.size /\ x.size \in Nat /\ y \in Area
  /\ B \subseteq K \cap {at + len - 1} /\ (B # {} => N # {}) /\ K \subseteq Failing
  /\ Shows(y, AllPages(M) \cup R, (AllPages(M) \cup R) \cup N, K \ (R \cup G))
  /\ G \cap AllPages(M) = {} /\ G \cap S = {}
  /\ GrantFrames(y, x, B, G, R, actual)

LEMMA GrantedIs ==
  ASSUME NEW r, NEW x, NEW K, NEW a, NEW M, NEW S, NEW len, NEW actual, NEW B, NEW G,
         Granted(r, x, K, a, M, S, len, actual, B, G), NEW y, y = r.area, NEW R, R = Span(r.at, len),
         NEW N, N = S \cup r.stray
  PROVE  /\ r.ok = TRUE /\ r.stray = G
         /\ GrantIs(y, r.at, x, K, a, M, S, len, actual, B, G, R, N)
<1>1. PICK U, T : U = AllPages(M) /\ T = AllPages(M) \cup S
  OBVIOUS
<1>2. Held(x, M, S, K) /\ Answers(r, x, U, T, K, len, actual, B, G)
  BY <1>1 DEF Granted
<1>3. /\ Shows(x, U, T, K) /\ K \subseteq Failing /\ U \cap S = {} /\ Told(x, M, S)
      /\ x.size \in Nat /\ x.size <= MaxSize /\ MaxSize \in Nat
  BY <1>1, <1>2, HeldIs
<1>4. /\ r.ok = TRUE /\ r.at \in Nat /\ len \in Nat \ {0} /\ r.at + len <= x.size
      /\ R \cap T = {} /\ r.stray = G /\ y.size = x.size
      /\ B \subseteq K \cap {r.at + len - 1} /\ (B # {} => G # {})
      /\ G \subseteq Page \ (T \cup R)
  BY <1>2 DEF Answers
<1>5. Shows(y, U \cup R, T \cup R \cup G, K \ (R \cup G))
  BY <1>2 DEF Answers
<1>6. Frames(y) = With(x, (R \ B) \cup G, actual)
  BY <1>2 DEF Answers
<1>7. R \subseteq Page /\ r.at + len - 1 \in R
  BY <1>3, <1>4 DEF Span, Page
<1>8. N = S \cup G /\ R \cap (U \cup N) = {} /\ U \cap N = {} /\ (B # {} => N # {})
      /\ G \cap U = {} /\ G \cap S = {}
  BY <1>1, <1>3, <1>4
<1>9. T \cup R \cup G = (U \cup R) \cup N
  BY <1>1, <1>8
<1>10. Shows(y, U \cup R, (U \cup R) \cup N, K \ (R \cup G))
  BY <1>5, <1>9
<1>11. y \in Area
  <2>1. Fulls(y, U \cup R, (U \cup R) \cup N, K \ (R \cup G))
    BY <1>10 DEF Shows
  <2>. QED  BY <2>1, FullsIs
<1>13. PICK Q : Q = (R \ B) \cup G
  OBVIOUS
<1>14. /\ y.allocated = IF actual THEN x.allocated \cup Q ELSE x.allocated
       /\ y.pages = [p \in Page |-> IF actual /\ p \in Q \ x.allocated THEN Zero ELSE x.pages[p]]
  BY <1>6, <1>13 DEF Frames, With
<1>15. \A p \in Page : p \notin Q \/ ~actual => SameFrame(y, x, p)
  BY <1>14 DEF SameFrame
<1>16. \A p \in R \cup G : p \in Page /\ Idle(x, p)
  BY <1>1, <1>3, <1>4, <1>7 DEF Told
<1>17. ASSUME NEW p \in Q, actual PROVE p \in y.allocated /\ y.pages[p] = Zero
  <2>1. p \in Page /\ Idle(x, p)
    BY <1>13, <1>16
  <2>. QED  BY <1>14, <1>17, <2>1 DEF Idle, NoFrame
<1>18. ASSUME NEW p \in B PROVE NoFrame(y, p)
  <2>1. p \in R /\ p \in K /\ p \in Page /\ p \notin Q
    BY <1>4, <1>7, <1>13
  <2>2. Fulls(x, U, T, K)
    BY <1>3 DEF Shows
  <2>3. NoFrame(x, p)
    BY <2>1, <2>2 DEF Fulls, NoFrame
  <2>4. SameFrame(y, x, p)
    BY <1>15, <2>1
  <2>. QED  BY <2>3, <2>4 DEF SameFrame, NoFrame
<1>19. ASSUME NEW p \in R \cup G PROVE Idle(y, p)
  <2>1. CASE ~actual \/ p \notin Q
    <3>1. SameFrame(y, x, p)
      BY <1>15, <1>16, <2>1
    <3>. QED  BY <1>16, <3>1, IdleStays
  <2>2. CASE actual /\ p \in Q
    BY <1>17, <2>2 DEF Idle
  <2>. QED  BY <2>1, <2>2
<1>20. GrantFrames(y, x, B, G, R, actual)
  <2>1. \A p \in Page \ (R \cup G) : SameFrame(y, x, p)
    BY <1>13, <1>15
  <2>2. ~actual => \A p \in Page : SameFrame(y, x, p)
    BY <1>15
  <2>3. actual => \A p \in R \ B : p \in y.allocated /\ y.pages[p] = Zero
    BY <1>13, <1>17
  <2>. QED  BY <2>1, <2>2, <2>3, <1>18, <1>19 DEF GrantFrames
<1>21. GrantIs(y, r.at, x, K, a, M, S, len, actual, B, G, R, N)
  BY <1>1, <1>3, <1>4, <1>7, <1>8, <1>10, <1>11, <1>20 DEF GrantIs
<1>. QED  BY <1>4, <1>21

\* mmap_err_case_free leaves the pages as they are, unused.
LEMMA GivenBack ==
  ASSUME NEW r, NEW x, NEW K, NEW a, NEW M, NEW S, NEW len, NEW actual, NEW B, NEW G,
         Granted(r, x, K, a, M, S, len, actual, B, G), a.size \in Nat
  PROVE  Still(GiveBack(r.area, r.at, len), S \cup r.stray, a, M, S)
<1>1. PICK y, at, R, N, z : /\ y = r.area /\ at = r.at /\ R = Span(r.at, len) /\ N = S \cup r.stray
                            /\ z = GiveBack(r.area, r.at, len)
  OBVIOUS
<1>2. GrantIs(y, at, x, K, a, M, S, len, actual, B, G, R, N) /\ GrantFrames(y, x, B, G, R, actual)
  <2>1. y = r.area /\ R = Span(r.at, len) /\ N = S \cup r.stray
    BY <1>1
  <2>2. GrantIs(y, r.at, x, K, a, M, S, len, actual, B, G, R, N)
    BY <2>1, GrantedIs
  <2>3. GrantIs(y, at, x, K, a, M, S, len, actual, B, G, R, N)
    BY <1>1, <2>2
  <2>. QED  BY <2>3 DEF GrantIs
<1>3. PICK U, V, W, J, no : /\ U = AllPages(M) /\ V = AllPages(M) \cup R /\ J = K \ (R \cup G)
                            /\ W = (AllPages(M) \cup R) \cup N /\ no = FALSE
  OBVIOUS
<1>4. /\ R = Span(at, len) /\ at \in Nat /\ len \in Nat /\ at + len <= y.size /\ x.size \in Nat
      /\ y.size = x.size /\ Shows(y, V, W, J) /\ R \subseteq V /\ J \subseteq Failing
      /\ V \ R = U /\ W \ R = U \cup N /\ N = S \cup G /\ U \cap N = {} /\ R \cap (U \cup S) = {}
  BY <1>2, <1>3 DEF GrantIs
<1>5. FreedTo(FreeRange(y, at, len, no), y, V, W, J, R, no)
  BY <1>4, FreeRangeIs
<1>6. z = FreeRange(y, at, len, no)
  BY <1>1, <1>3 DEF GiveBack
<1>7. Shows(z, U, U \cup N, J) /\ z.size = x.size /\ Frames(z) = Without(y, R, no)
  BY <1>4, <1>5, <1>6 DEF FreedTo
<1>8. \A p \in Page : SameFrame(z, y, p)
  BY <1>3, <1>7 DEF Frames, Without, SameFrame
<1>9. ASSUME NEW p \in Page PROVE SameFrame(z, x, p) \/ (p \notin U \cup S /\ Idle(z, p))
  <2>1. CASE p \in R \cup G
    <3>1. Idle(y, p)
      BY <1>2, <2>1 DEF GrantFrames
    <3>2. p \notin U \cup S
      BY <1>2, <1>3, <1>4, <2>1 DEF GrantIs
    <3>. QED  BY <1>8, <3>1, <3>2, IdleStays
  <2>2. CASE p \notin R \cup G
    <3>1. SameFrame(y, x, p)
      BY <1>2, <2>2 DEF GrantFrames
    <3>. QED  BY <1>8, <3>1 DEF SameFrame
  <2>. QED  BY <2>1, <2>2
<1>10. Calm(z, x, U \cup S)
  BY <1>9 DEF Calm
<1>11. Calm(x, a, U \cup S) /\ a.size <= x.size
  BY <1>3 DEF Granted, Still
<1>12. Calm(z, a, U \cup S)
  BY <1>10, <1>11, CalmTrans
<1>13. Still(z, N, a, M, S)
  BY <1>3, <1>4, <1>7, <1>11, <1>12 DEF Still
<1>. QED  BY <1>1, <1>13

LEMMA MappingIs ==
  ASSUME NEW at \in Nat, NEW len \in Nat \ {0}, NEW off \in Nat, NEW h \in File \cup {Anonymous},
         NEW m, m = Mapping(at, len, off, h)
  PROVE  /\ MapPages(m) = Span(at, len) /\ m \in Mappings
         /\ m.h = h /\ m.at = at /\ m.len = len /\ m.off = off
BY DEF Mapping, MapPages, Mappings

\* Pages that are shown do not matter to the tree.
LEMMA SameTree ==
  ASSUME NEW a, NEW U, NEW T, NEW L, Shows(a, U, T, L), NEW z, z \in Area,
         z.size = a.size, z.full = a.full, z.split = a.split, z.allocated = a.allocated,
         \A p \in L : z.pages[p] = a.pages[p]
  PROVE  Shows(z, U, T, L)
<1>1. Fulls(a, U, T, L) /\ \A c \in a.split : c.size > 1 /\ Pages(c) \cap (T \cup L) # {}
  BY DEF Shows
<1>2. Tree(z) = Tree(a) /\ Root(z) = Root(a)
  BY DEF Tree, Root
<1>3. Closed(z)
  BY <1>1, <1>2 DEF Fulls, Closed
<1>4. \A p \in L : p \notin z.allocated /\ z.pages[p] = Nothing
  BY <1>1 DEF Fulls
<1>5. /\ U \subseteq T /\ T \cap L = {} /\ T \cup L \subseteq Pages(Root(z))
      /\ \A c \in Tree(z) : Pages(c) \subseteq U => c \in z.full
      /\ \A c \in z.full : Pages(c) \subseteq T \cup L /\ (c.size > 1 => Pages(c) \cap T # {})
      /\ \A p \in T \cup L : Leaf(p) \in z.full
      /\ \A c \in Tree(z) : c.size > 1 /\ Pages(c) \cap T # {} => c \in z.split
  BY <1>1, <1>2 DEF Fulls
<1>6. Fulls(z, U, T, L)
  BY <1>3, <1>4, <1>5 DEF Fulls
<1>. QED  BY <1>1, <1>6 DEF Shows

\* What mmap can do: nothing to see, or one mapping more.
Quietly == maps' = maps /\ Still(area', stray', area, maps, stray)
Mapped(x, m) ==
  /\ Still(x, stray, area, maps, stray) /\ Good(x, maps, stray)
  /\ Adds(area', x, maps, stray, m, stray') /\ maps' = maps \cup {m}

\* New memory, of which the last page can be missing.
Zeroes(y, m) ==
  \A p \in MapPages(m) :
    y.pages[p] = Zero \/ (p = m.at + m.len - 1 /\ p \in Failing /\ y.pages[p] = Nothing)

ZeroIs == Zero \in Content /\ Zero.of = Anonymous /\ Zero # Nothing
LEMMA ZeroContent == ZeroIs
<1>1. Zero \in Content /\ Zero.of = Anonymous
  BY DEF Zero, Content
<1>. QED  BY <1>1, UserMapAssumption DEF ZeroIs

LEMMA NewAnonymous ==
  ASSUME NEW y, NEW at, NEW x, NEW K, NEW a, NEW M, NEW S, NEW len, NEW actual, actual, NEW B, NEW G,
         NEW R, NEW N, GrantIs(y, at, x, K, a, M, S, len, actual, B, G, R, N),
         NEW off \in Nat, NEW m, m = Mapping(at, len, off, Anonymous)
  PROVE  Adds(y, x, M, S, m, N) /\ Zeroes(y, m)
<1>1. /\ R = Span(at, len) /\ N = S \cup G /\ at \in Nat /\ len \in Nat \ {0} /\ at + len <= x.size
      /\ R \subseteq Page /\ R \cap (AllPages(M) \cup N) = {} /\ AllPages(M) \cap N = {}
      /\ y.size = x.size
      /\ B \subseteq K \cap {at + len - 1} /\ (B # {} => N # {}) /\ K \subseteq Failing
      /\ Shows(y, AllPages(M) \cup R, (AllPages(M) \cup R) \cup N, K \ (R \cup G))
      /\ \A p \in Page \ (R \cup G) : SameFrame(y, x, p)
      /\ \A p \in R \ B : p \in y.allocated /\ y.pages[p] = Zero
      /\ \A p \in B : NoFrame(y, p)
  BY DEF GrantIs, GrantFrames
<1>2. MapPages(m) = R /\ m \in Mappings /\ m.h = Anonymous /\ m.at = at /\ m.len = len
  <2>1. Anonymous \in File \cup {Anonymous}
    OBVIOUS
  <2>. QED  BY <1>1, <2>1, MappingIs
<1>3. ASSUME NEW p \in R
      PROVE  \/ p \in y.allocated /\ y.pages[p] = Zero
             \/ p = m.at + m.len - 1 /\ p \in Failing /\ N # {} /\ NoFrame(y, p)
  BY <1>1, <1>2
<1>4. \A p \in MapPages(m) : Tells(y, N, m, p)
  BY <1>2, <1>3, ZeroContent DEF Tells, Bares, ZeroIs
<1>5. Zeroes(y, m)
  BY <1>2, <1>3 DEF Zeroes, NoFrame
<1>6. \E J \in SUBSET Failing :
        Shows(y, AllPages(M) \cup MapPages(m), (AllPages(M) \cup MapPages(m)) \cup N, J)
  <2>1. K \ (R \cup G) \in SUBSET Failing
    BY <1>1
  <2>. QED  BY <1>1, <1>2, <2>1
<1>7. \A p \in Page \ (MapPages(m) \cup N) : SameFrame(y, x, p)
  BY <1>1, <1>2
<1>8. (AllPages(M) \cup MapPages(m)) \cap N = {} /\ MapPages(m) \cap AllPages(M) = {} /\ S \subseteq N
  BY <1>1, <1>2
<1>9. Adds(y, x, M, S, m, N)
  BY <1>1, <1>2, <1>4, <1>6, <1>7, <1>8 DEF Adds
<1>. QED  BY <1>5, <1>9

LEMMA AnonymousMapped ==
  ASSUME Good(area, maps, stray), NEW len \in Lens, NEW fails \in SUBSET Failing, NEW limit \in Limits,
         NEW um \in BOOLEAN, MmapAnonymous(len, fails, limit, um)
  PROVE  \/ Quietly /\ Answer("mmap", <<Anonymous, len, 0>>, Failure)
         \/ \E x, m : /\ Mapped(x, m) /\ m = Mapping(m.at, len, 0, Anonymous) /\ Zeroes(area', m)
                      /\ Answer("mmap", <<Anonymous, len, 0>>, m.at)
<1>1. len \in 1 .. MaxSize /\ len \in Nat \ {0} /\ limit \in Size
  BY LensIs DEF Limits
<1>2. PICK r, yes : r = Reserve(len, yes, fails, limit) /\ yes = TRUE
  OBVIOUS
<1>3. /\ area' = IF r.ok /\ ~um THEN GiveBack(r.area, r.at, len) ELSE r.area
      /\ maps' = IF r.ok /\ um THEN maps \cup {Mapping(r.at, len, 0, Anonymous)} ELSE maps
      /\ stray' = stray \cup r.stray
      /\ Answer("mmap", <<Anonymous, len, 0>>, IF r.ok /\ um THEN r.at ELSE Failure)
  BY <1>2 DEF MmapAnonymous
<1>4. \/ r.ok = FALSE /\ r.stray = {} /\ Still(r.area, stray, area, maps, stray)
      \/ \E x, K, B, G : Granted(r, x, K, area, maps, stray, len, yes, B, G)
  BY <1>1, <1>2, Asked
<1>5. CASE r.ok = FALSE /\ r.stray = {} /\ Still(r.area, stray, area, maps, stray)
  <2>1. stray' = stray
    BY <1>3, <1>5
  <2>. QED  BY <1>3, <1>5, <2>1 DEF Quietly
<1>6. CASE \E x, K, B, G : Granted(r, x, K, area, maps, stray, len, yes, B, G)
  <2>1. PICK x, K, B, G : Granted(r, x, K, area, maps, stray, len, yes, B, G)
    BY <1>6
  <2>2. PICK y, R, N : y = r.area /\ R = Span(r.at, len) /\ N = stray \cup r.stray
    OBVIOUS
  <2>3. r.ok = TRUE /\ GrantIs(y, r.at, x, K, area, maps, stray, len, yes, B, G, R, N)
    BY <2>1, <2>2, GrantedIs
  <2>4. CASE ~um
    <3>1. PICK L : Held(area, maps, stray, L)
      BY DEF Good
    <3>2. area.size \in Nat
      BY <3>1, HeldIs
    <3>3. Still(GiveBack(r.area, r.at, len), stray \cup r.stray, area, maps, stray)
      BY <2>1, <3>2, GivenBack
    <3>4. area' = GiveBack(r.area, r.at, len) /\ maps' = maps /\ stray' = stray \cup r.stray
      BY <1>3, <2>3, <2>4
    <3>5. Answer("mmap", <<Anonymous, len, 0>>, Failure)
      BY <1>3, <2>4
    <3>. QED  BY <3>3, <3>4, <3>5 DEF Quietly
  <2>5. CASE um
    <3>1. PICK m, at, none : m = Mapping(at, len, none, Anonymous) /\ at = r.at /\ none = 0
      OBVIOUS
    <3>2. area' = y /\ maps' = maps \cup {m} /\ stray' = N
      BY <1>3, <2>2, <2>3, <2>5, <3>1
    <3>3. Adds(y, x, maps, stray, m, N) /\ Zeroes(y, m) /\ m.at = r.at
      <4>1. none \in Nat /\ yes
        BY <1>2, <3>1
      <4>2. GrantIs(y, at, x, K, area, maps, stray, len, yes, B, G, R, N)
        BY <2>3, <3>1
      <4>3. m = Mapping(at, len, none, Anonymous)
        BY <3>1
      <4>4. Adds(y, x, maps, stray, m, N)
        BY <4>1, <4>2, <4>3, NewAnonymous
      <4>5. Zeroes(y, m)
        BY <4>1, <4>2, <4>3, NewAnonymous
      <4>6. m.at = at
        BY <4>3 DEF Mapping
      <4>. QED  BY <3>1, <4>4, <4>5, <4>6
    <3>4. Still(x, stray, area, maps, stray) /\ Good(x, maps, stray)
      BY <2>1 DEF Granted
    <3>5. Mapped(x, m)
      BY <3>2, <3>3, <3>4 DEF Mapped
    <3>6. m = Mapping(m.at, len, 0, Anonymous) /\ Zeroes(area', m)
      BY <3>1, <3>2, <3>3
    <3>7. Answer("mmap", <<Anonymous, len, 0>>, m.at)
      BY <1>3, <2>3, <2>5, <3>3
    <3>. QED  BY <3>5, <3>6, <3>7
  <2>. QED  BY <2>4, <2>5
<1>. QED  BY <1>4, <1>5, <1>6

\* vfs_mmap shows the pages of a file where nothing was.
Showing(z, y, m) ==
  z = [y EXCEPT !.pages = [p \in Page |-> IF p \in MapPages(m) THEN Shown(m, p) ELSE y.pages[p]]]
Displays(z, m) == \A p \in MapPages(m) : z.pages[p] = Shown(m, p)

LEMMA NewFile ==
  ASSUME NEW y, NEW at, NEW x, NEW K, NEW a, NEW M, NEW S, NEW len, NEW actual, ~actual, NEW B, NEW G,
         NEW R, NEW N, GrantIs(y, at, x, K, a, M, S, len, actual, B, G, R, N),
         NEW off \in Nat, NEW h \in File, NEW m, m = Mapping(at, len, off, h),
         \A p \in MapPages(m) : y.pages[p] = Nothing,
         NEW z, Showing(z, y, m)
  PROVE  Adds(z, x, M, S, m, N) /\ Displays(z, m)
<1>1. /\ R = Span(at, len) /\ N = S \cup G /\ at \in Nat /\ len \in Nat \ {0} /\ at + len <= x.size
      /\ R \subseteq Page /\ R \cap (AllPages(M) \cup N) = {} /\ AllPages(M) \cap N = {}
      /\ y.size = x.size /\ K \subseteq Failing /\ y \in Area
      /\ Shows(y, AllPages(M) \cup R, (AllPages(M) \cup R) \cup N, K \ (R \cup G))
      /\ \A p \in Page \ (R \cup G) : SameFrame(y, x, p)
      /\ \A p \in R \cup G : Idle(y, p)
  BY DEF GrantIs, GrantFrames
<1>2. /\ MapPages(m) = R /\ m \in Mappings /\ m.h = h /\ m.at = at /\ m.len = len /\ m.off = off
      /\ m.h # Anonymous
  <2>1. h \in File \cup {Anonymous} /\ h # Anonymous
    BY UserMapAssumption
  <2>2. MapPages(m) = R /\ m \in Mappings /\ m.h = h /\ m.at = at /\ m.len = len /\ m.off = off
    BY <1>1, <2>1, MappingIs
  <2>. QED  BY <2>1, <2>2
<1>3. ASSUME NEW p \in R PROVE Shown(m, p) \in Content
  <2>1. p \in Int /\ m.at \in Nat /\ m.at <= p
    BY <1>2, MapPagesIs
  <2>2. m.off + p - m.at \in Nat
    BY <1>2, <2>1
  <2>. QED  BY <1>2, <2>2 DEF Shown, Content
<1>4. /\ z.size = y.size /\ z.full = y.full /\ z.split = y.split /\ z.allocated = y.allocated
      /\ z.pages = [p \in Page |-> IF p \in R THEN Shown(m, p) ELSE y.pages[p]]
      /\ z \in Area
  BY <1>1, <1>2, <1>3 DEF Area, Showing
<1>5. PICK V, W, J : /\ V = AllPages(M) \cup R /\ W = (AllPages(M) \cup R) \cup N
                     /\ J = K \ (R \cup G)
  OBVIOUS
<1>6. Shows(z, V, W, J)
  <2>1. Shows(y, V, W, J)
    BY <1>1, <1>5
  <2>2. Fulls(y, V, W, J)
    BY <2>1 DEF Shows
  <2>3. J \subseteq Page /\ J \cap R = {}
    <3>1. W \cup J \subseteq Page
      BY <2>2, FullsIs
    <3>. QED  BY <1>5, <3>1
  <2>4. \A p \in J : z.pages[p] = y.pages[p]
    BY <1>4, <2>3
  <2>. QED  BY <1>4, <2>1, <2>4, SameTree
<1>7. ASSUME NEW p \in R PROVE Tells(z, N, m, p)
  <2>1. p \in Page /\ z.pages[p] = Shown(m, p) /\ y.pages[p] = Nothing /\ z.allocated = y.allocated
    BY <1>1, <1>2, <1>4
  <2>2. Idle(y, p)
    BY <1>1
  <2>3. p \notin y.allocated
    BY <2>1, <2>2, ZeroContent DEF Idle, NoFrame, ZeroIs
  <2>. QED  BY <1>2, <2>1, <2>3 DEF Tells
<1>8. ASSUME NEW p \in Page \ (R \cup N) PROVE SameFrame(z, x, p)
  <2>1. SameFrame(y, x, p) /\ z.pages[p] = y.pages[p] /\ z.allocated = y.allocated
    BY <1>1, <1>4
  <2>. QED  BY <2>1 DEF SameFrame
<1>9. \E I \in SUBSET Failing :
        Shows(z, AllPages(M) \cup MapPages(m), (AllPages(M) \cup MapPages(m)) \cup N, I)
  <2>1. J \in SUBSET Failing
    BY <1>1, <1>5
  <2>. QED  BY <1>2, <1>5, <1>6, <2>1
<1>10. (AllPages(M) \cup MapPages(m)) \cap N = {} /\ MapPages(m) \cap AllPages(M) = {} /\ S \subseteq N
  BY <1>1, <1>2
<1>11. Adds(z, x, M, S, m, N)
  <2>1. z.size = x.size /\ m.at + m.len <= x.size /\ m \in Mappings
    BY <1>1, <1>2, <1>4
  <2>2. \A p \in Page \ (MapPages(m) \cup N) : SameFrame(z, x, p)
    BY <1>2, <1>8
  <2>3. \A p \in MapPages(m) : Tells(z, N, m, p)
    BY <1>2, <1>7
  <2>. QED  BY <1>9, <1>10, <2>1, <2>2, <2>3 DEF Adds
<1>12. Displays(z, m)
  BY <1>1, <1>2, <1>4 DEF Displays
<1>. QED  BY <1>11, <1>12

LEMMA FileMapped ==
  ASSUME Good(area, maps, stray), NEW h \in File, NEW len \in Lens, NEW off \in Off,
         NEW limit \in Limits, NEW um \in BOOLEAN, MmapFile(h, len, off, limit, um)
  PROVE  \/ Quietly /\ Answer("mmap", <<h, len, off>>, Failure)
         \/ \E x, m : /\ Mapped(x, m) /\ m = Mapping(m.at, len, off, h)
                      /\ Displays(area', m)
                      /\ Answer("mmap", <<h, len, off>>, m.at)
<1>1. len \in 1 .. MaxSize /\ len \in Nat \ {0} /\ limit \in Size /\ off \in Nat
  BY LensIs, UserMapAssumption DEF Limits
<1>2. PICK r, no, fails : r = Reserve(len, no, fails, limit) /\ no = FALSE /\ fails = {}
  OBVIOUS
<1>3. PICK m, at : m = Mapping(at, len, off, h) /\ at = r.at
  OBVIOUS
<1>. DEFINE ok == um /\ \A p \in MapPages(m) : r.area.pages[p] = Nothing
<1>4. /\ area' = IF ~r.ok THEN r.area
                 ELSE IF ~ok THEN GiveBack(r.area, r.at, len)
                 ELSE [r.area EXCEPT !.pages =
                         [p \in Page |-> IF p \in MapPages(m) THEN Shown(m, p) ELSE r.area.pages[p]]]
      /\ maps' = IF r.ok /\ ok THEN maps \cup {m} ELSE maps
      /\ stray' = stray \cup r.stray
      /\ Answer("mmap", <<h, len, off>>, IF r.ok /\ ok THEN r.at ELSE Failure)
  BY <1>2, <1>3 DEF MmapFile
<1>. HIDE DEF ok
<1>5. \/ r.ok = FALSE /\ r.stray = {} /\ Still(r.area, stray, area, maps, stray)
      \/ \E x, K, B, G : Granted(r, x, K, area, maps, stray, len, no, B, G)
  <2>1. fails \in SUBSET Failing
    BY <1>2
  <2>. QED  BY <1>1, <1>2, <2>1, Asked
<1>6. CASE r.ok = FALSE /\ r.stray = {} /\ Still(r.area, stray, area, maps, stray)
  <2>1. stray' = stray
    BY <1>4, <1>6
  <2>. QED  BY <1>4, <1>6, <2>1 DEF Quietly
<1>7. CASE \E x, K, B, G : Granted(r, x, K, area, maps, stray, len, no, B, G)
  <2>1. PICK x, K, B, G : Granted(r, x, K, area, maps, stray, len, no, B, G)
    BY <1>7
  <2>2. PICK y, R, N : y = r.area /\ R = Span(r.at, len) /\ N = stray \cup r.stray
    OBVIOUS
  <2>3. r.ok = TRUE /\ GrantIs(y, r.at, x, K, area, maps, stray, len, no, B, G, R, N)
    BY <2>1, <2>2, GrantedIs
  <2>4. CASE ~ok
    <3>1. PICK L : Held(area, maps, stray, L)
      BY DEF Good
    <3>2. area.size \in Nat
      BY <3>1, HeldIs
    <3>3. Still(GiveBack(r.area, r.at, len), stray \cup r.stray, area, maps, stray)
      BY <2>1, <3>2, GivenBack
    <3>4. area' = GiveBack(r.area, r.at, len) /\ maps' = maps /\ stray' = stray \cup r.stray
      BY <1>4, <2>3, <2>4
    <3>5. Answer("mmap", <<h, len, off>>, Failure)
      BY <1>4, <2>4
    <3>. QED  BY <3>3, <3>4, <3>5 DEF Quietly
  <2>5. CASE ok
    <3>1. PICK z : z = area'
      OBVIOUS
    <3>2. Showing(z, y, m) /\ maps' = maps \cup {m} /\ stray' = N
      BY <1>4, <2>2, <2>3, <2>5, <3>1 DEF Showing
    <3>3. \A p \in MapPages(m) : y.pages[p] = Nothing
      BY <2>2, <2>5 DEF ok
    <3>4. ~no /\ off \in Nat /\ m = Mapping(at, len, off, h) /\ Showing(z, y, m)
      BY <1>1, <1>2, <1>3, <3>2
    <3>5. GrantIs(y, at, x, K, area, maps, stray, len, no, B, G, R, N)
      BY <1>3, <2>3
    <3>6. /\ Adds(z, x, maps, stray, m, N)
          /\ Displays(z, m) /\ m.at = r.at
      <4>1. Adds(z, x, maps, stray, m, N)
        BY <3>3, <3>4, <3>5, NewFile
      <4>2. Displays(z, m)
        BY <3>3, <3>4, <3>5, NewFile
      <4>. QED  BY <1>3, <4>1, <4>2 DEF Mapping
    <3>7. Still(x, stray, area, maps, stray) /\ Good(x, maps, stray)
      BY <2>1 DEF Granted
    <3>8. Mapped(x, m)
      BY <3>1, <3>2, <3>6, <3>7 DEF Mapped
    <3>9. m = Mapping(m.at, len, off, h) /\ Displays(area', m)
      BY <1>3, <3>1, <3>6
    <3>10. Answer("mmap", <<h, len, off>>, m.at)
      BY <1>4, <2>3, <2>5, <3>6
    <3>. QED  BY <3>8, <3>9, <3>10
  <2>. QED  BY <2>4, <2>5
<1>. QED  BY <1>5, <1>6, <1>7

LEMMA MappedGood ==
  ASSUME Good(area, maps, stray), Quietly \/ \E x, m : Mapped(x, m)
  PROVE  Good(area', maps', stray')
<1>1. PICK y, N : y = area' /\ N = stray'
  OBVIOUS
<1>2. CASE Quietly
  <2>1. Still(y, N, area, maps, stray) /\ maps' = maps
    BY <1>1, <1>2 DEF Quietly
  <2>2. Good(y, maps, N)
    BY <2>1, StillGood
  <2>. QED  BY <1>1, <2>1, <2>2
<1>3. CASE \E x, m : Mapped(x, m)
  <2>1. PICK x, m : Mapped(x, m)
    BY <1>3
  <2>2. Good(x, maps, stray) /\ Adds(y, x, maps, stray, m, N) /\ maps' = maps \cup {m}
    BY <1>1, <2>1 DEF Mapped
  <2>3. Good(y, maps \cup {m}, N)
    BY <2>2, AddedGood
  <2>. QED  BY <1>1, <2>2, <2>3
<1>. QED  BY <1>2, <1>3

-----------------------------------------------------------------------------
(* munmap                                                                  *)

\* What a call takes away from a mapping.
Cutout(m, s, e) == {p \in MapPages(m) : s <= p /\ p < e}
CutAll(S, s, e) == UNION {Cutout(m, s, e) : m \in S}

\* The area when the pages of R have been unmapped.
Unmaps(x, a, U, T, L, R) ==
  /\ Shows(x, U \ R, T \ R, L) /\ x.size = a.size
  /\ \A p \in Page : IF p \in R THEN NoFrame(x, p) ELSE SameFrame(x, a, p)

LEMMA CutoutIs ==
  ASSUME NEW m \in Mappings, NEW s \in Nat, NEW e \in Nat, s <= e, Overlaps(m, s, e),
         NEW from, from = IF m.at < s THEN s ELSE m.at,
         NEW to, to = IF e < m.at + m.len THEN e ELSE m.at + m.len
  PROVE  /\ from \in Nat /\ to - from \in Nat /\ from + (to - from) <= m.at + m.len
         /\ Cutout(m, s, e) = Span(from, to - from)
         /\ Span(from, to - from) = from .. to - 1
<1>1. m.at \in Nat /\ m.len \in Nat \ {0} /\ m.at < e /\ s < m.at + m.len
  BY MapPagesIs DEF Overlaps
<1>2. from \in Nat /\ to \in Nat /\ from <= to /\ to <= m.at + m.len
  BY <1>1
<1>3. \A p : p \in Cutout(m, s, e) <=> p \in Int /\ m.at <= p /\ p < m.at + m.len /\ s <= p /\ p < e
  BY MapPagesIs DEF Cutout
<1>4. \A p \in Int : (m.at <= p /\ p < m.at + m.len /\ s <= p /\ p < e) <=> (from <= p /\ p < to)
  BY <1>1
<1>5. \A p : p \in Span(from, to - from) <=> p \in Int /\ from <= p /\ p < to
  BY <1>2 DEF Span
<1>6. Cutout(m, s, e) = Span(from, to - from)
  <2>1. \A p : p \in Cutout(m, s, e) <=> p \in Span(from, to - from)
    BY <1>3, <1>4, <1>5
  <2>2. Cutout(m, s, e) \subseteq Span(from, to - from) /\ Span(from, to - from) \subseteq Cutout(m, s, e)
    BY <2>1
  <2>. QED  BY <2>2
<1>7. Span(from, to - from) = from .. to - 1
  BY <1>2 DEF Span
<1>. QED  BY <1>2, <1>6, <1>7

LEMMA OneUnmapped ==
  ASSUME NEW a, NEW M, NEW S, NEW L, Held(a, M, S, L), NEW m \in M, NEW s \in Nat, NEW e \in Nat,
         s <= e, Overlaps(m, s, e), NEW U, U = AllPages(M), NEW T, T = AllPages(M) \cup S, NEW R, NEW x,
         Unmaps(x, a, U, T, L, R), NEW C, C = Cutout(m, s, e), R \cap C = {}
  PROVE  Unmaps(Unmapped(x, m, s, e), a, U, T, L, R \cup C)
<1>1. /\ a.size \in Size /\ Fits(M, a.size) /\ Told(a, M, S) /\ a.size \in Nat
      /\ Shows(a, U, T, L)
  BY HeldIs
<1>2. /\ m \in Mappings /\ MapPages(m) \subseteq Page /\ m.at + m.len <= a.size
      /\ m.at \in Nat /\ m.len \in Nat /\ MapPages(m) \subseteq U
  BY <1>1, FitsIs, MapPagesIs
<1>3. PICK from, to : /\ from = IF m.at < s THEN s ELSE m.at
                      /\ to = IF e < m.at + m.len THEN e ELSE m.at + m.len
  OBVIOUS
<1>4. /\ from \in Nat /\ to - from \in Nat /\ from + (to - from) <= m.at + m.len
      /\ C = Span(from, to - from) /\ C = from .. to - 1
  <2>1. m \in Mappings
    BY <1>2
  <2>2. /\ from \in Nat /\ to - from \in Nat /\ from + (to - from) <= m.at + m.len
        /\ Cutout(m, s, e) = Span(from, to - from)
        /\ Span(from, to - from) = from .. to - 1
    BY <1>3, <2>1, CutoutIs
  <2>. QED  BY <2>2
<1>. DEFINE file == m.h # Anonymous
<1>5. PICK b, y : /\ b = IF file
                         THEN [x EXCEPT !.pages = [p \in Page |-> IF p \in from .. to - 1 THEN Nothing ELSE x.pages[p]]]
                         ELSE x
                  /\ y = ~file
  OBVIOUS
<1>6. PICK z : z = Unmapped(x, m, s, e)
  OBVIOUS
<1>7. z = FreeRange(b, from, to - from, y)
  BY <1>3, <1>5, <1>6, Zenon DEF Unmapped
<1>8. PICK V, W : V = U \ R /\ W = T \ R
  OBVIOUS
<1>9. /\ Shows(x, V, W, L) /\ x.size = a.size
      /\ \A p \in Page : IF p \in R THEN NoFrame(x, p) ELSE SameFrame(x, a, p)
  BY <1>8 DEF Unmaps
<1>10. x \in Area /\ U \subseteq T /\ T \cap L = {} /\ L \subseteq Page
  <2>1. Fulls(x, V, W, L) /\ Fulls(a, U, T, L)
    BY <1>1, <1>9 DEF Shows
  <2>2. x \in Area
    BY <2>1, FullsIs
  <2>3. U \subseteq T /\ T \cap L = {} /\ T \cup L \subseteq Page
    BY <2>1, FullsIs
  <2>. QED  BY <2>2, <2>3
<1>11. C \subseteq V /\ C \cap L = {}
  <2>1. C \subseteq MapPages(m)
    BY DEF Cutout
  <2>. QED  BY <1>2, <1>8, <1>10, <2>1
<1>12. /\ b \in Area /\ b.size = x.size /\ b.full = x.full /\ b.split = x.split /\ b.allocated = x.allocated
       /\ \A p \in Page : b.pages[p] = IF file /\ p \in C THEN Nothing ELSE x.pages[p]
  <2>1. CASE file
    <3>. DEFINE P == [p \in Page |-> IF p \in from .. to - 1 THEN Nothing ELSE x.pages[p]]
    <3>1. P \in [Page -> Content \cup {Nothing}]
      BY <1>10 DEF Area
    <3>2. b = [x EXCEPT !.pages = P]
      BY <1>5, <2>1
    <3>3. \A p \in Page : P[p] = IF p \in C THEN Nothing ELSE x.pages[p]
      BY <1>4
    <3>. HIDE DEF P
    <3>4. b \in Area /\ b.size = x.size /\ b.full = x.full /\ b.split = x.split
          /\ b.allocated = x.allocated /\ b.pages = P
      BY <1>10, <3>1, <3>2 DEF Area
    <3>. QED  BY <2>1, <3>3, <3>4
  <2>2. CASE ~file
    BY <1>5, <1>10, <2>2
  <2>. QED  BY <2>1, <2>2
<1>13. Shows(b, V, W, L)
  <2>1. \A p \in L : b.pages[p] = x.pages[p]
    BY <1>10, <1>11, <1>12
  <2>. QED  BY <1>9, <1>12, <2>1, SameTree
<1>14. FreedTo(z, b, V, W, L, C, y)
  <2>1. PICK n : n = to - from
    OBVIOUS
  <2>2. n \in Nat /\ from + n <= b.size /\ Span(from, n) \subseteq V
    BY <1>1, <1>2, <1>4, <1>9, <1>11, <1>12, <2>1
  <2>. QED  BY <1>4, <1>7, <1>13, <2>1, <2>2, FreeRangeIs
<1>15. Shows(z, V \ C, W \ C, L) /\ z.size = b.size
       /\ z.allocated = (IF y THEN b.allocated \ C ELSE b.allocated)
       /\ z.pages = [p \in Page |-> IF y /\ p \in C \cap b.allocated THEN Nothing ELSE b.pages[p]]
  BY <1>14 DEF FreedTo, Frames, Without
<1>16. V \ C = U \ (R \cup C) /\ W \ C = T \ (R \cup C)
  BY <1>8
<1>17. ASSUME NEW p \in Page PROVE IF p \in R \cup C THEN NoFrame(z, p) ELSE SameFrame(z, a, p)
  <2>1. CASE p \notin C
    <3>1. SameFrame(z, x, p)
      BY <1>12, <1>15, <2>1 DEF SameFrame
    <3>2. IF p \in R THEN NoFrame(x, p) ELSE SameFrame(x, a, p)
      BY <1>9
    <3>. QED  BY <2>1, <3>1, <3>2 DEF NoFrame, SameFrame
  <2>2. CASE p \in C
    <3>1. p \in MapPages(m) /\ p \notin R
      BY <2>2 DEF Cutout
    <3>2. Tells(a, S, m, p) /\ SameFrame(x, a, p)
      BY <1>1, <1>9, <3>1 DEF Told
    <3>3. CASE file
      <4>1. p \notin x.allocated /\ b.pages[p] = Nothing /\ b.allocated = x.allocated /\ ~y
        BY <1>5, <1>12, <2>2, <3>2, <3>3 DEF Tells, SameFrame
      <4>. QED  BY <1>15, <2>2, <4>1 DEF NoFrame
    <3>4. CASE ~file
      <4>1. y /\ b.pages[p] = x.pages[p] /\ b.allocated = x.allocated
        BY <1>5, <1>12, <3>4
      <4>2. p \in a.allocated \/ NoFrame(a, p)
        BY <3>2, <3>4 DEF Tells, Bares
      <4>3. p \in x.allocated \/ x.pages[p] = Nothing
        BY <3>2, <4>2 DEF SameFrame, NoFrame
      <4>4. p \notin z.allocated
        BY <1>15, <2>2, <4>1
      <4>5. z.pages[p] = IF p \in x.allocated THEN Nothing ELSE x.pages[p]
        BY <1>15, <2>2, <4>1
      <4>6. z.pages[p] = Nothing
        BY <4>3, <4>5
      <4>. QED  BY <2>2, <4>4, <4>6 DEF NoFrame
    <3>. QED  BY <3>3, <3>4
  <2>. QED  BY <2>1, <2>2
<1>18. Shows(z, U \ (R \cup C), T \ (R \cup C), L)
  BY <1>15, <1>16
<1>19. z.size = a.size
  BY <1>9, <1>12, <1>15
<1>. QED  BY <1>6, <1>17, <1>18, <1>19 DEF Unmaps

UnmapStep(x, hit, s, e, p) == IF Begins(hit, p) THEN Unmapped(x, At(hit, p), s, e) ELSE x
IsUnmapped(f, hit, s, e, n) ==
  f = [i \in 0 .. n |->
         IF i = 0 THEN area
         ELSE IF Begins(hit, Up[i]) THEN Unmapped(f[i - 1], At(hit, Up[i]), s, e)
         ELSE f[i - 1]]

LEMMA UnmappedExists ==
  ASSUME NEW hit, NEW s, NEW e
  PROVE  \A n \in Nat : \E f : IsUnmapped(f, hit, s, e, n)
<1>. DEFINE S == {n \in Nat : \E f : IsUnmapped(f, hit, s, e, n)}
<1>1. 0 \in S
  <2>1. IsUnmapped([i \in 0 .. 0 |-> area], hit, s, e, 0)
    BY DEF IsUnmapped
  <2>. QED  BY <2>1
<1>2. ASSUME NEW n \in Nat, n # 0, n - 1 \in S PROVE n \in S
  <2>1. PICK f : IsUnmapped(f, hit, s, e, n - 1)
    BY <1>2
  <2>. DEFINE g == [i \in 0 .. n |-> IF i = n THEN UnmapStep(f[n - 1], hit, s, e, Up[n]) ELSE f[i]]
  <2>2. g = [i \in 0 .. n |-> g[i]]
    OBVIOUS
  <2>3. ASSUME NEW i \in 0 .. n
        PROVE  g[i] = IF i = 0 THEN area
                      ELSE IF Begins(hit, Up[i]) THEN Unmapped(g[i - 1], At(hit, Up[i]), s, e)
                      ELSE g[i - 1]
    <3>1. CASE i = n
      <4>1. i # 0 /\ g[i - 1] = f[i - 1] /\ g[i] = UnmapStep(f[i - 1], hit, s, e, Up[i])
        BY <1>2, <3>1
      <4>. HIDE DEF g
      <4>. QED  BY <4>1 DEF UnmapStep
    <3>2. CASE i # n
      <4>1. i \in 0 .. n - 1 /\ (i # 0 => g[i - 1] = f[i - 1]) /\ g[i] = f[i]
        BY <3>2
      <4>2. f[i] = IF i = 0 THEN area
                   ELSE IF Begins(hit, Up[i]) THEN Unmapped(f[i - 1], At(hit, Up[i]), s, e)
                   ELSE f[i - 1]
        BY <2>1, <4>1 DEF IsUnmapped
      <4>. QED  BY <4>1, <4>2
    <3>. QED  BY <3>1, <3>2
  <2>4. IsUnmapped(g, hit, s, e, n)
    BY <2>2, <2>3 DEF IsUnmapped
  <2>. QED  BY <2>4
<1>3. ASSUME NEW n \in Nat PROVE n \in S
  <2>1. \A i \in 1 .. n : i - 1 \in S => i \in S
    BY <1>2
  <2>2. \A i \in 0 .. n : i \in S
    BY <1>1, <2>1, Steps
  <2>. QED  BY <2>2
<1>. QED  BY <1>3

LEMMA UnmappedRun ==
  ASSUME NEW hit, NEW s, NEW e
  PROVE  \E f : /\ f[0] = area /\ UnmapAll(hit, s, e) = f[MaxSize]
                /\ \A i \in 1 .. MaxSize : f[i] = UnmapStep(f[i - 1], hit, s, e, Up[i])
<1>. DEFINE f == CHOOSE f : IsUnmapped(f, hit, s, e, MaxSize)
<1>1. IsUnmapped(f, hit, s, e, MaxSize) /\ MaxSize \in Nat
  BY UnmappedExists, UserMapAssumption
<1>2. UnmapAll(hit, s, e) = f[MaxSize]
  BY DEF UnmapAll, IsUnmapped
<1>. HIDE DEF f
<1>3. f[0] = area
  BY <1>1 DEF IsUnmapped
<1>4. ASSUME NEW i \in 1 .. MaxSize PROVE f[i] = UnmapStep(f[i - 1], hit, s, e, Up[i])
  <2>1. i \in 0 .. MaxSize /\ i # 0
    BY <1>1
  <2>. QED  BY <1>1, <2>1 DEF IsUnmapped, UnmapStep
<1>. QED  BY <1>2, <1>3, <1>4

\* All the mappings of hit lose what lies in the range.
LEMMA AllUnmapped ==
  ASSUME NEW L, Held(area, maps, stray, L), NEW U, U = AllPages(maps),
         NEW T, T = AllPages(maps) \cup stray, NEW hit, hit \subseteq maps, NEW s \in Nat, NEW e \in Nat, s <= e,
         \A m \in hit : Overlaps(m, s, e)
  PROVE  Unmaps(UnmapAll(hit, s, e), area, U, T, L, CutAll(hit, s, e))
<1>1. PICK f : /\ f[0] = area /\ UnmapAll(hit, s, e) = f[MaxSize]
               /\ \A i \in 1 .. MaxSize : f[i] = UnmapStep(f[i - 1], hit, s, e, Up[i])
  BY UnmappedRun
<1>2. Shows(area, U, T, L) /\ Fits(maps, area.size) /\ area.size \in Size /\ MaxSize \in Nat
  BY HeldIs
<1>4. Starts(hit) /\ \A m \in hit : m.at \in Page
  BY <1>2, FitsIs, MappingStarts DEF Fits, Starts
<1>. DEFINE B(i) == Behind(hit, Up, i)
<1>. DEFINE C(i) == CutAll(B(i), s, e)
<1>. DEFINE S == {i \in 0 .. MaxSize : Unmaps(f[i], area, U, T, L, C(i))}
<1>5. 0 \in S
  <2>1. B(0) = {}
    BY <1>4, BehindAll DEF Order
  <2>2. PICK none : none = C(0)
    OBVIOUS
  <2>3. none = {} /\ U \ none = U /\ T \ none = T
    BY <2>1, <2>2 DEF CutAll
  <2>4. \A p \in Page : SameFrame(area, area, p)
    BY DEF SameFrame
  <2>5. Unmaps(area, area, U, T, L, none)
    BY <1>2, <2>3, <2>4 DEF Unmaps
  <2>. QED  BY <1>1, <1>2, <2>2, <2>5
<1>6. ASSUME NEW i \in 1 .. MaxSize, i - 1 \in S PROVE i \in S
  <2>1. PICK x, y : x = f[i - 1] /\ y = f[i]
    OBVIOUS
  <2>2. y = UnmapStep(x, hit, s, e, Up[i]) /\ i \in 0 .. MaxSize /\ i \in Nat /\ i # 0
    BY <1>1, <1>2, <2>1
  <2>3. PICK R : R = C(i - 1)
    OBVIOUS
  <2>4. Unmaps(x, area, U, T, L, R)
    BY <1>6, <2>1, <2>3
  <2>5. CASE ~Begins(hit, Up[i])
    <3>1. B(i) = B(i - 1) /\ y = x
      BY <1>4, <2>2, <2>5, BehindNext DEF UnmapStep
    <3>. QED  BY <2>1, <2>2, <2>3, <2>4, <3>1
  <2>6. CASE Begins(hit, Up[i])
    <3>1. PICK m \in hit : m = At(hit, Up[i]) /\ m.at = Up[i]
      BY <1>4, <2>6, AtIs
    <3>2. B(i) = B(i - 1) \cup {m}
      BY <1>4, <2>2, <2>6, <3>1, BehindNext
    <3>3. C(i) = R \cup Cutout(m, s, e)
      BY <2>3, <3>2 DEF CutAll
    <3>4. y = Unmapped(x, m, s, e)
      BY <2>2, <2>6, <3>1 DEF UnmapStep
    <3>5. R \cap Cutout(m, s, e) = {}
      <4>1. SUFFICES ASSUME NEW n \in B(i - 1), NEW p \in Cutout(n, s, e), p \in Cutout(m, s, e)
                     PROVE  FALSE
        BY <2>3 DEF CutAll
      <4>2. n \in hit /\ p \in MapPages(n) /\ p \in MapPages(m)
        BY <4>1 DEF Behind, Cutout
      <4>3. n = m
        BY <1>2, <4>2 DEF Fits, Disjoint
      <4>4. \A j \in 1 .. i - 1 : Up[j] # Up[i]
        BY <1>2 DEF Up
      <4>. QED  BY <3>1, <4>1, <4>3, <4>4 DEF Behind
    <3>6. PICK D : D = Cutout(m, s, e)
      OBVIOUS
    <3>7. Unmaps(Unmapped(x, m, s, e), area, U, T, L, R \cup D)
      <4>1. m \in maps /\ Overlaps(m, s, e) /\ R \cap D = {}
        BY <3>5, <3>6
      <4>. QED  BY <2>4, <3>6, <4>1, OneUnmapped
    <3>. QED  BY <2>1, <2>2, <3>3, <3>4, <3>6, <3>7
  <2>. QED  BY <2>5, <2>6
<1>7. MaxSize \in S
  <2>. HIDE DEF S
  <2>. QED  BY <1>2, <1>5, <1>6, Steps
<1>8. B(MaxSize) = hit
  BY <1>4, BehindAll DEF Order
<1>. QED  BY <1>1, <1>7, <1>8

\* A mapping that shows of its pages what m does.
PartOf(n, m) ==
  /\ n \in Mappings /\ m \in Mappings /\ n.h = m.h /\ MapPages(n) \subseteq MapPages(m)
  /\ \A p \in MapPages(n) : Shown(n, p) = Shown(m, p)

LEMMA LeftIs ==
  ASSUME NEW m \in Mappings, NEW s \in Nat, NEW e \in Nat, s <= e, Overlaps(m, s, e)
  PROVE  /\ \A n \in Left(m, s, e) : PartOf(n, m)
         /\ AllPages(Left(m, s, e)) = MapPages(m) \ Cutout(m, s, e)
         /\ Disjoint(Left(m, s, e))
<1>1. m.at \in Nat /\ m.len \in Nat \ {0} /\ m.off \in Nat /\ m.at < e /\ s < m.at + m.len
      /\ m.h \in File \cup {Anonymous} /\ m = [at |-> m.at, len |-> m.len, off |-> m.off, h |-> m.h]
  BY MapPagesIs DEF Overlaps, Mappings
<1>2. PICK b, c : b = Beginning(m, s) /\ c = Ending(m, e)
  OBVIOUS
<1>3. b.at = m.at /\ b.len = s - m.at /\ b.off = m.off /\ b.h = m.h
      /\ b = [at |-> m.at, len |-> s - m.at, off |-> m.off, h |-> m.h]
  BY <1>1, <1>2 DEF Beginning
<1>4. c.at = e /\ c.len = m.at + m.len - e /\ c.off = m.off + e - m.at /\ c.h = m.h
      /\ c = [at |-> e, len |-> m.at + m.len - e, off |-> m.off + e - m.at, h |-> m.h]
  BY <1>1, <1>2 DEF Ending
<1>5. \A p : p \in MapPages(m) <=> p \in Int /\ m.at <= p /\ p < m.at + m.len
  BY MapPagesIs
<1>6. \A p : p \in Cutout(m, s, e) <=> p \in Int /\ m.at <= p /\ p < m.at + m.len /\ s <= p /\ p < e
  BY <1>5 DEF Cutout
<1>7. ASSUME m.at < s
      PROVE  /\ PartOf(b, m)
             /\ \A p : p \in MapPages(b) <=> p \in Int /\ m.at <= p /\ p < s
  <2>1. b \in Mappings
    BY <1>1, <1>3, <1>7 DEF Mappings
  <2>2. \A p : p \in MapPages(b) <=> p \in Int /\ m.at <= p /\ p < s
    BY <1>1, <1>3, <2>1, MapPagesIs
  <2>3. MapPages(b) \subseteq MapPages(m)
    BY <1>1, <1>5, <2>2
  <2>4. \A p \in MapPages(b) : Shown(b, p) = Shown(m, p)
    BY <1>3 DEF Shown
  <2>. QED  BY <1>3, <2>1, <2>2, <2>3, <2>4 DEF PartOf
<1>8. ASSUME e < m.at + m.len
      PROVE  /\ PartOf(c, m)
             /\ \A p : p \in MapPages(c) <=> p \in Int /\ e <= p /\ p < m.at + m.len
  <2>1. c \in Mappings
    BY <1>1, <1>4, <1>8 DEF Mappings
  <2>2. \A p : p \in MapPages(c) <=> p \in Int /\ e <= p /\ p < m.at + m.len
    BY <1>1, <1>4, <2>1, MapPagesIs
  <2>3. MapPages(c) \subseteq MapPages(m)
    BY <1>1, <1>5, <2>2
  <2>4. ASSUME NEW p \in MapPages(c) PROVE Shown(c, p) = Shown(m, p)
    <3>1. c.off + p - c.at = m.off + p - m.at
      BY <1>1, <1>4, <2>2
    <3>. QED  BY <1>4, <3>1 DEF Shown
  <2>. QED  BY <1>4, <2>1, <2>2, <2>3, <2>4 DEF PartOf
<1>. DEFINE L == Left(m, s, e)
<1>9. L = (IF m.at < s THEN {b} ELSE {}) \cup (IF e < m.at + m.len THEN {c} ELSE {})
  BY <1>2 DEF Left
<1>. HIDE DEF L
<1>10. \A n \in L : PartOf(n, m)
  BY <1>7, <1>8, <1>9
<1>11. ASSUME NEW p PROVE p \in AllPages(L) <=> p \in MapPages(m) /\ p \notin Cutout(m, s, e)
  <2>1. p \in AllPages(L) <=> (m.at < s /\ p \in MapPages(b)) \/ (e < m.at + m.len /\ p \in MapPages(c))
    BY <1>9 DEF AllPages
  <2>2. m.at < s /\ p \in MapPages(b) <=> m.at < s /\ p \in Int /\ m.at <= p /\ p < s
    BY <1>7
  <2>3. e < m.at + m.len /\ p \in MapPages(c) <=> e < m.at + m.len /\ p \in Int /\ e <= p /\ p < m.at + m.len
    BY <1>8
  <2>. QED  BY <1>1, <1>5, <1>6, <2>1, <2>2, <2>3
<1>12. AllPages(L) = MapPages(m) \ Cutout(m, s, e)
  <2>1. AllPages(L) \subseteq MapPages(m) \ Cutout(m, s, e) /\ MapPages(m) \ Cutout(m, s, e) \subseteq AllPages(L)
    BY <1>11
  <2>. QED  BY <2>1
<1>13. Disjoint(L)
  <2>1. ASSUME m.at < s, e < m.at + m.len PROVE MapPages(b) \cap MapPages(c) = {}
    BY <1>1, <1>7, <1>8, <2>1
  <2>. QED  BY <1>9, <2>1 DEF Disjoint
<1>. QED  BY <1>10, <1>12, <1>13 DEF L

LEMMA PartTells ==
  ASSUME NEW n, NEW m, PartOf(n, m), NEW p \in MapPages(n), NEW a, NEW S, Tells(a, S, m, p)
  PROVE  Tells(a, S, n, p)
<1>1. /\ n.h = m.h /\ Shown(n, p) = Shown(m, p) /\ n \in Mappings /\ m \in Mappings
      /\ MapPages(n) \subseteq MapPages(m)
  BY DEF PartOf
<1>2. ASSUME p = m.at + m.len - 1 PROVE p = n.at + n.len - 1
  <2>1. n.at \in Nat /\ n.len \in Nat \ {0} /\ m.at \in Nat /\ m.len \in Nat
    BY <1>1, MapPagesIs
  <2>2. p \in Int /\ p < n.at + n.len
    BY <1>1, MapPagesIs
  <2>3. n.at + n.len - 1 \in MapPages(n)
    BY <1>1, <2>1, MapPagesIs
  <2>4. n.at + n.len - 1 < m.at + m.len
    BY <1>1, <2>3, MapPagesIs
  <2>. QED  BY <1>2, <2>1, <2>2, <2>4
<1>3. Bares(a, S, m, p) => Bares(a, S, n, p)
  BY <1>2 DEF Bares
<1>. QED  BY <1>1, <1>3 DEF Tells

\* What has become of the pages of R, of those of mappings.
Removed(R, x, a, M, S, N) ==
  /\ R \subseteq AllPages(M) /\ AllPages(N) = AllPages(M) \ R
  /\ \A p \in Page : IF p \in R THEN NoFrame(x, p) ELSE SameFrame(x, a, p)

\* Unmapping leaves good parts of good mappings.
LEMMA CutGood ==
  ASSUME NEW a, NEW M, NEW S, NEW L, Held(a, M, S, L), NEW U, U = AllPages(M),
         NEW T, T = AllPages(M) \cup S, NEW R, R \subseteq U, NEW x, Unmaps(x, a, U, T, L, R),
         NEW N, Disjoint(N), AllPages(N) = U \ R, \A n \in N : \E m \in M : PartOf(n, m)
  PROVE  Good(x, N, S) /\ Removed(R, x, a, M, S, N)
<1>1. /\ Fits(M, a.size) /\ Told(a, M, S) /\ a.size \in Size /\ U \cap S = {} /\ L \subseteq Failing
      /\ U \subseteq Span(0, a.size) /\ Span(0, a.size) \subseteq Page
  BY HeldIs
<1>2. /\ Shows(x, U \ R, T \ R, L) /\ x.size = a.size
      /\ \A p \in Page : IF p \in R THEN NoFrame(x, p) ELSE SameFrame(x, a, p)
  BY DEF Unmaps
<1>3. T \ R = AllPages(N) \cup S
  BY <1>1
<1>4. Shows(x, AllPages(N), AllPages(N) \cup S, L)
  BY <1>2, <1>3
<1>5. Fits(N, x.size)
  <2>1. N \subseteq Mappings
    BY DEF PartOf
  <2>. QED  BY <1>1, <1>2, <2>1 DEF Fits
<1>6. ASSUME NEW n \in N, NEW p \in MapPages(n) PROVE Tells(x, S, n, p)
  <2>1. PICK m \in M : PartOf(n, m)
    OBVIOUS
  <2>2. p \in MapPages(m) /\ p \in AllPages(N)
    BY <2>1 DEF PartOf, AllPages
  <2>3. p \in Page /\ p \notin R
    BY <1>1, <2>2
  <2>4. Tells(a, S, m, p)
    BY <1>1, <2>2 DEF Told
  <2>5. SameFrame(x, a, p)
    BY <1>2, <2>3
  <2>6. Tells(a, S, n, p)
    BY <2>1, <2>4, PartTells
  <2>. QED  BY <2>5, <2>6, TellsMore
<1>7. ASSUME NEW p \in Page \ (AllPages(N) \cup S) PROVE Idle(x, p)
  <2>1. CASE p \in R
    BY <1>2, <2>1 DEF Idle
  <2>2. CASE p \notin R
    <3>1. p \notin AllPages(M) \cup S /\ SameFrame(x, a, p)
      BY <1>2, <2>2
    <3>2. Idle(a, p)
      BY <1>1, <3>1 DEF Told
    <3>. QED  BY <3>1, <3>2, IdleStays
  <2>. QED  BY <2>1, <2>2
<1>8. Told(x, N, S)
  BY <1>6, <1>7 DEF Told
<1>9. Held(x, N, S, L)
  BY <1>1, <1>4, <1>5, <1>8 DEF Held
<1>. QED  BY <1>2, <1>9 DEF Good, Removed

\* What is taken away by a call, and which mappings are left.
Cuts(s, e) ==
  LET hit == {m \in maps : Overlaps(m, s, e)}
  IN  /\ area' = UnmapAll(hit, s, e)
      /\ maps' = (maps \ hit) \cup UNION {Left(m, s, e) : m \in hit}

\* munmap and mremap.
LEMMA RangeUnmapped ==
  ASSUME Good(area, maps, stray), NEW s \in Nat, NEW e \in Nat, s <= e, Cuts(s, e)
  PROVE  /\ Good(area', maps', stray)
         /\ \E R : /\ R = {p \in AllPages(maps) : s <= p /\ p < e}
                   /\ Removed(R, area', area, maps, stray, maps')
<1>. DEFINE hit == {m \in maps : Overlaps(m, s, e)}
<1>0. PICK L : Held(area, maps, stray, L)
  BY DEF Good
<1>1. PICK R, x, N, U, T : /\ R = CutAll(hit, s, e) /\ x = area' /\ N = maps'
                           /\ U = AllPages(maps) /\ T = AllPages(maps) \cup stray
  OBVIOUS
<1>2. /\ x = UnmapAll(hit, s, e) /\ N = (maps \ hit) \cup UNION {Left(m, s, e) : m \in hit}
      /\ hit \subseteq maps /\ \A m \in hit : Overlaps(m, s, e)
      /\ \A m \in maps : m \in hit <=> Overlaps(m, s, e)
  BY <1>1 DEF Cuts
<1>. HIDE DEF hit
<1>3. Unmaps(x, area, U, T, L, R)
  <2>1. Unmaps(UnmapAll(hit, s, e), area, U, T, L, CutAll(hit, s, e))
    BY <1>0, <1>1, <1>2, AllUnmapped
  <2>. QED  BY <1>1, <1>2, <2>1
<1>4. maps \subseteq Mappings /\ Disjoint(maps)
  BY <1>0, HeldIs DEF Fits
<1>5. \A m \in hit : /\ \A n \in Left(m, s, e) : PartOf(n, m)
                     /\ AllPages(Left(m, s, e)) = MapPages(m) \ Cutout(m, s, e)
                     /\ Disjoint(Left(m, s, e))
  BY <1>2, <1>4, LeftIs
<1>6. \A n \in maps : PartOf(n, n)
  BY <1>4 DEF PartOf
<1>7. \A n \in N : \E m \in maps : PartOf(n, m) /\ (n = m \/ n \in Left(m, s, e)) /\ (n \in hit => n # m \/ n \in Left(m, s, e))
  BY <1>2, <1>5, <1>6
<1>8. Disjoint(N)
  <2>1. ASSUME NEW n \in N, NEW o \in N, NEW p \in MapPages(n), p \in MapPages(o) PROVE n = o
    <3>1. PICK m \in maps : PartOf(n, m) /\ ((n = m /\ m \notin hit) \/ (m \in hit /\ n \in Left(m, s, e)))
      BY <1>2, <1>5, <1>6
    <3>2. PICK k \in maps : PartOf(o, k) /\ ((o = k /\ k \notin hit) \/ (k \in hit /\ o \in Left(k, s, e)))
      BY <1>2, <1>5, <1>6
    <3>3. m = k
      BY <1>4, <2>1, <3>1, <3>2 DEF PartOf, Disjoint
    <3>. QED  BY <1>5, <2>1, <3>1, <3>2, <3>3 DEF Disjoint
  <2>. QED  BY <2>1 DEF Disjoint
<1>9. ASSUME NEW p PROVE p \in R <=> p \in AllPages(maps) /\ s <= p /\ p < e
  <2>1. p \in R => p \in AllPages(maps) /\ s <= p /\ p < e
    BY <1>1, <1>2 DEF CutAll, Cutout, AllPages
  <2>2. ASSUME p \in AllPages(maps), s <= p, p < e PROVE p \in R
    <3>1. PICK m \in maps : p \in MapPages(m)
      BY <2>2 DEF AllPages
    <3>2. Overlaps(m, s, e)
      BY <1>4, <2>2, <3>1, MapPagesIs DEF Overlaps
    <3>. QED  BY <1>1, <1>2, <2>2, <3>1, <3>2 DEF CutAll, Cutout
  <2>. QED  BY <2>1, <2>2
<1>10. ASSUME NEW p PROVE p \in AllPages(N) <=> p \in AllPages(maps) /\ p \notin R
  <2>1. ASSUME p \in AllPages(N) PROVE p \in AllPages(maps) /\ p \notin R
    <3>1. PICK n \in N : p \in MapPages(n)
      BY <2>1 DEF AllPages
    <3>2. PICK m \in maps : PartOf(n, m) /\ ((n = m /\ m \notin hit) \/ (m \in hit /\ n \in Left(m, s, e)))
      BY <1>2, <1>5, <1>6
    <3>3. p \in MapPages(m)
      BY <3>1, <3>2 DEF PartOf
    <3>4. ASSUME NEW k \in hit, p \in Cutout(k, s, e) PROVE FALSE
      <4>1. k = m
        BY <1>2, <1>4, <3>3, <3>4 DEF Cutout, Disjoint
      <4>2. n \in Left(m, s, e)
        BY <3>2, <3>4, <4>1
      <4>3. p \in AllPages(Left(m, s, e))
        BY <3>1, <4>2 DEF AllPages
      <4>. QED  BY <1>5, <3>4, <4>1, <4>3
    <3>. QED  BY <1>1, <3>3, <3>4 DEF CutAll, AllPages
  <2>2. ASSUME p \in AllPages(maps), p \notin R PROVE p \in AllPages(N)
    <3>1. PICK m \in maps : p \in MapPages(m)
      BY <2>2 DEF AllPages
    <3>2. CASE m \notin hit
      BY <1>2, <3>1, <3>2 DEF AllPages
    <3>3. CASE m \in hit
      <4>1. p \in AllPages(Left(m, s, e))
        BY <1>1, <1>5, <2>2, <3>1, <3>3 DEF CutAll
      <4>. QED  BY <1>2, <3>3, <4>1 DEF AllPages
    <3>. QED  BY <3>2, <3>3
  <2>. QED  BY <2>1, <2>2
<1>11. AllPages(N) = AllPages(maps) \ R
  <2>1. AllPages(N) \subseteq AllPages(maps) \ R /\ AllPages(maps) \ R \subseteq AllPages(N)
    BY <1>10
  <2>. QED  BY <2>1
<1>12. Good(x, N, stray) /\ Removed(R, x, area, maps, stray, N)
  <2>1. R \subseteq U /\ AllPages(N) = U \ R /\ \A n \in N : \E m \in maps : PartOf(n, m)
    BY <1>1, <1>7, <1>9, <1>11
  <2>. QED  BY <1>0, <1>1, <1>3, <1>8, <2>1, CutGood
<1>13. R = {p \in AllPages(maps) : s <= p /\ p < e}
  BY <1>9
<1>. QED  BY <1>1, <1>12, <1>13

\* The end of a file's mappings.
LEMMA FileClosed ==
  ASSUME Good(area, maps, stray), NEW h, CloseFile(h)
  PROVE  /\ Good(area', maps', stray)
         /\ \E R : /\ R = AllPages({m \in maps : m.h = h})
                   /\ Removed(R, area', area, maps, stray, maps')
<1>. DEFINE hit == {m \in maps : m.h = h}
<1>0. PICK L : Held(area, maps, stray, L)
  BY DEF Good
<1>1. PICK R, x, N, U, T : /\ R = AllPages(hit) /\ x = area' /\ N = maps'
                           /\ U = AllPages(maps) /\ T = AllPages(maps) \cup stray
  OBVIOUS
<1>2. /\ x = UnmapAll(hit, 0, MaxSize) /\ N = maps \ hit /\ hit \subseteq maps
  BY <1>1 DEF CloseFile
<1>. HIDE DEF hit
<1>3. /\ maps \subseteq Mappings /\ Disjoint(maps) /\ MaxSize \in Nat
      /\ AllPages(maps) \subseteq Page /\ area.size \in Size /\ Fits(maps, area.size)
  BY <1>0, HeldIs DEF Fits
<1>4. \A m \in maps : MapPages(m) \subseteq Page /\ m.at \in MapPages(m) /\ m.at \in Nat /\ m.len \in Nat \ {0}
  BY <1>3, FitsIs, MapPagesIs
<1>5. \A m \in hit : Overlaps(m, 0, MaxSize) /\ Cutout(m, 0, MaxSize) = MapPages(m)
  <2>1. ASSUME NEW m \in hit PROVE Overlaps(m, 0, MaxSize) /\ Cutout(m, 0, MaxSize) = MapPages(m)
    <3>1. \A p \in MapPages(m) : 0 <= p /\ p < MaxSize
      BY <1>2, <1>3, <1>4 DEF Page
    <3>. QED  BY <1>2, <1>3, <1>4, <3>1 DEF Overlaps, Cutout
  <2>. QED  BY <2>1
<1>6. R = CutAll(hit, 0, MaxSize)
  BY <1>1, <1>5 DEF CutAll, AllPages
<1>7. Unmaps(x, area, U, T, L, R)
  <2>1. PICK s : s = 0
    OBVIOUS
  <2>2. s \in Nat /\ s <= MaxSize /\ \A m \in hit : Overlaps(m, s, MaxSize)
    BY <1>3, <1>5, <2>1
  <2>3. Unmaps(UnmapAll(hit, s, MaxSize), area, U, T, L, CutAll(hit, s, MaxSize))
    BY <1>0, <1>1, <1>2, <1>3, <2>2, AllUnmapped
  <2>. QED  BY <1>2, <1>6, <2>1, <2>3
<1>8. Disjoint(N) /\ \A n \in N : PartOf(n, n) /\ n \in maps
  BY <1>2, <1>3 DEF Disjoint, PartOf
<1>9. AllPages(N) = AllPages(maps) \ R
  <2>1. \A p : p \in AllPages(N) <=> p \in AllPages(maps) /\ p \notin R
    BY <1>1, <1>2, <1>3 DEF AllPages, Disjoint
  <2>2. AllPages(N) \subseteq AllPages(maps) \ R /\ AllPages(maps) \ R \subseteq AllPages(N)
    BY <2>1
  <2>. QED  BY <2>2
<1>10. Good(x, N, stray) /\ Removed(R, x, area, maps, stray, N)
  <2>1. R \subseteq U /\ AllPages(N) = U \ R /\ \A n \in N : \E m \in maps : PartOf(n, m)
    BY <1>1, <1>2, <1>8, <1>9 DEF AllPages
  <2>. QED  BY <1>0, <1>1, <1>7, <1>8, <2>1, CutGood
<1>. QED  BY <1>1, <1>10 DEF hit


-----------------------------------------------------------------------------
(* The other steps                                                         *)

\* What the program writes.
One == [of |-> Anonymous, at |-> 1]

\* Page p shows what was written, the others what they showed.
Writes(y, a, p) ==
  /\ a.pages[p] # Nothing /\ a.pages[p].of = Anonymous
  /\ y.pages[p] = One /\ \A q \in Page \ {p} : SameFrame(y, a, q)

OneIs == One \in Content /\ One.of = Anonymous /\ One # Nothing
LEMMA OneContent == OneIs
<1>1. One \in Content /\ One.of = Anonymous
  BY DEF One, Content
<1>. QED  BY <1>1, UserMapAssumption DEF OneIs

LEMMA StoreTold ==
  ASSUME NEW a, NEW M, NEW S, Told(a, M, S), Disjoint(M), AllPages(M) \subseteq Page,
         NEW m \in M, m.h = Anonymous, NEW p \in MapPages(m), p \in a.allocated,
         NEW y, y.pages[p] = One, y.allocated = a.allocated,
         \A q \in Page \ {p} : SameFrame(y, a, q)
  PROVE  Told(y, M, S)
<1>1. \A n \in M : \A q \in MapPages(n) : q \in Page /\ Tells(a, S, n, q)
  BY DEF Told, AllPages
<1>2. ASSUME NEW n \in M, NEW q \in MapPages(n) PROVE Tells(y, S, n, q)
  <2>1. CASE q = p
    <3>1. n = m
      BY <1>2, <2>1 DEF Disjoint
    <3>2. y.pages[q] # Nothing /\ y.pages[q].of = Anonymous /\ q \in y.allocated /\ n.h = Anonymous
      BY <2>1, <3>1, OneContent DEF OneIs
    <3>. QED  BY <3>2 DEF Tells
  <2>2. CASE q # p
    <3>1. SameFrame(y, a, q) /\ Tells(a, S, n, q)
      BY <1>1, <2>2
    <3>. QED  BY <3>1, TellsMore
  <2>. QED  BY <2>1, <2>2
<1>3. ASSUME NEW q \in Page \ (AllPages(M) \cup S) PROVE Idle(y, q)
  <2>1. p \in AllPages(M)
    BY DEF AllPages
  <2>2. q # p /\ q \in Page /\ Idle(a, q)
    BY <2>1 DEF Told
  <2>3. SameFrame(y, a, q)
    BY <2>2
  <2>. QED  BY <2>2, <2>3, IdleStays
<1>. QED  BY <1>2, <1>3 DEF Told

LEMMA Written ==
  ASSUME Good(area, maps, stray), NEW p, Store(p)
  PROVE  /\ Good(area', maps', stray') /\ maps' = maps /\ p \in AllPages(maps) /\ p \in Page
         /\ Writes(area', area, p) /\ Answer("store", <<p>>, 0)
<1>1. PICK m \in maps : m.h = Anonymous /\ p \in MapPages(m)
  BY DEF Store
<1>2. PICK L : Held(area, maps, stray, L)
  BY DEF Good
<1>3. PICK y : y = area'
  OBVIOUS
<1>4. /\ Shows(area, AllPages(maps), AllPages(maps) \cup stray, L) /\ L \subseteq Failing
      /\ AllPages(maps) \cap stray = {} /\ Fits(maps, area.size) /\ Told(area, maps, stray) /\ area \in Area
      /\ AllPages(maps) \subseteq Page
  BY <1>2, HeldIs
<1>5. p \in AllPages(maps) /\ p \in Page /\ Tells(area, stray, m, p) /\ Disjoint(maps)
  BY <1>1, <1>4 DEF AllPages, Told, Fits
<1>6. /\ area.pages[p] # Nothing /\ maps' = maps /\ stray' = stray /\ Answer("store", <<p>>, 0)
      /\ y = [area EXCEPT !.pages = [@ EXCEPT ![p] = One]]
  BY <1>3 DEF Store, One
<1>7. area.pages[p].of = Anonymous /\ p \in area.allocated
  BY <1>1, <1>5, <1>6 DEF Tells, Bares, NoFrame
<1>8. One \in Content
  BY OneContent DEF OneIs
<1>9. /\ y.size = area.size /\ y.full = area.full /\ y.split = area.split
      /\ y.allocated = area.allocated /\ y.pages = [area.pages EXCEPT ![p] = One] /\ y \in Area
  BY <1>4, <1>5, <1>6, <1>8 DEF Area
<1>10. (\A q \in Page \ {p} : SameFrame(y, area, q)) /\ y.pages[p] = One
  BY <1>4, <1>5, <1>9 DEF SameFrame, Area
<1>11. \A q \in L : y.pages[q] = area.pages[q]
  <2>1. Fulls(area, AllPages(maps), AllPages(maps) \cup stray, L)
    BY <1>4 DEF Shows
  <2>2. p \notin L
    BY <1>5, <2>1 DEF Fulls
  <2>. QED  BY <1>4, <1>9, <2>2 DEF Area
<1>12. Shows(y, AllPages(maps), AllPages(maps) \cup stray, L)
  BY <1>4, <1>9, <1>11, SameTree
<1>13. Told(y, maps, stray)
  BY <1>1, <1>4, <1>5, <1>7, <1>9, <1>10, StoreTold
<1>14. Held(y, maps, stray, L)
  BY <1>4, <1>9, <1>12, <1>13 DEF Held
<1>15. Writes(y, area, p)
  BY <1>6, <1>7, <1>10 DEF Writes
<1>. QED  BY <1>3, <1>5, <1>6, <1>14, <1>15 DEF Good

LEMMA InitGood ==
  ASSUME Init
  PROVE  Good(area, maps, stray)
<1>1. PICK a, M, S, none : a = area /\ M = maps /\ S = stray /\ none = {}
  OBVIOUS
<1>2. /\ a = [size |-> MinSize, full |-> {}, split |-> {}, allocated |-> {}, pages |-> [p \in Page |-> Nothing]]
      /\ M = {} /\ S = {}
  BY <1>1 DEF Init
<1>3. a \in Area /\ a.full = {} /\ a.split = {} /\ a.allocated = {} /\ a.pages = [p \in Page |-> Nothing]
      /\ a.size \in Size
  BY <1>2, OneSize DEF Area
<1>4. AllPages(M) = none /\ AllPages(M) \cup S = none
  BY <1>1, <1>2 DEF AllPages
<1>5. \A b \in Tree(a) : Pages(b) # {}
  BY <1>3, HasPage, RootIs DEF Tree, Under
<1>6. Shows(a, none, none, none)
  <2>1. Closed(a)
    BY <1>3 DEF Closed
  <2>2. Fulls(a, none, none, none)
    BY <1>1, <1>3, <1>5, <2>1 DEF Fulls
  <2>. QED  BY <1>3, <2>2 DEF Shows
<1>7. Fits(M, a.size)
  BY <1>1, <1>2, <1>4 DEF Fits, Disjoint
<1>8. Told(a, M, S)
  BY <1>2, <1>3 DEF Told, Idle, NoFrame
<1>9. Held(a, M, S, none)
  BY <1>1, <1>2, <1>4, <1>6, <1>7, <1>8 DEF Held
<1>. QED  BY <1>1, <1>9 DEF Good

\* The ranges that munmap and mremap unmap.
Range(s, e) == s \in Page /\ e \in Nat /\ s < e /\ Cuts(s, e) /\ stray' = stray
Kept == UNCHANGED <<area, maps, stray>>

LEMMA RangeOf ==
  ASSUME NEW s, NEW e, s \in Page, e \in Nat, s < e, NEW rc, MunmapRange(s, e, rc), UNCHANGED stray
  PROVE  (Range(s, e) /\ rc = 0) \/ (Kept /\ rc = Failure)
<1>1. PICK hit : hit = {m \in maps : Overlaps(m, s, e)}
  OBVIOUS
<1>2. \/ /\ rc = 0 /\ area' = UnmapAll(hit, s, e)
         /\ maps' = (maps \ hit) \cup UNION {Left(m, s, e) : m \in hit}
      \/ rc = Failure /\ UNCHANGED <<area, maps>>
  BY <1>1 DEF MunmapRange
<1>3. CASE /\ rc = 0 /\ area' = UnmapAll(hit, s, e)
           /\ maps' = (maps \ hit) \cup UNION {Left(m, s, e) : m \in hit}
  <2>1. Cuts(s, e)
    BY <1>1, <1>3 DEF Cuts
  <2>2. Range(s, e)
    BY <2>1 DEF Range
  <2>. QED  BY <1>3, <2>2
<1>4. CASE rc = Failure /\ UNCHANGED <<area, maps>>
  BY <1>4 DEF Kept
<1>. QED  BY <1>2, <1>3, <1>4

LEMMA MunmapIs ==
  ASSUME Good(area, maps, stray), NEW s \in Page, NEW len \in 1 .. MaxSize, Munmap(s, len)
  PROVE  \/ Range(s, s + len) /\ Answer("munmap", <<s, len>>, 0)
         \/ Kept /\ Answer("munmap", <<s, len>>, Failure)
<1>1. MaxSize \in Nat
  BY UserMapAssumption
<1>2. s + len \in Nat /\ s < s + len
  BY <1>1 DEF Page
<1>3. PICK rc \in {0, Failure} : MunmapRange(s, s + len, rc) /\ Answer("munmap", <<s, len>>, rc)
  BY DEF Munmap
<1>4. PICK e : e = s + len
  OBVIOUS
<1>5. (Range(s, e) /\ rc = 0) \/ (Kept /\ rc = Failure)
  BY <1>2, <1>3, <1>4, RangeOf DEF Munmap
<1>. QED  BY <1>3, <1>4, <1>5

LEMMA MremapIs ==
  ASSUME Good(area, maps, stray), NEW at \in Page, NEW old \in Lens, NEW new \in Lens, Mremap(at, old, new)
  PROVE  \/ Range(at + new, at + old) /\ Answer("mremap", <<at, old, new>>, at)
         \/ Kept /\ Answer("mremap", <<at, old, new>>, Failure)
<1>1. PICK L : Held(area, maps, stray, L)
  BY DEF Good
<1>2. area.size \in Nat /\ area.size <= MaxSize /\ MaxSize \in Nat
  BY <1>1, HeldIs
<1>3. old \in Nat /\ new \in Nat
  BY LensIs
<1>4. PICK s, e : s = at + new /\ e = at + old
  OBVIOUS
<1>5. PICK rc \in {0, Failure} :
        MunmapRange(s, e, rc) /\ Answer("mremap", <<at, old, new>>, IF rc = 0 THEN at ELSE Failure)
  BY <1>4 DEF Mremap
<1>6. new < old /\ at + new < area.size /\ UNCHANGED stray
  BY DEF Mremap
<1>7. s \in Page /\ e \in Nat /\ s < e
  BY <1>2, <1>3, <1>4, <1>6 DEF Page
<1>8. (Range(s, e) /\ rc = 0) \/ (Kept /\ rc = Failure)
  BY <1>5, <1>6, <1>7, RangeOf
<1>9. rc = Failure => ~(rc = 0)
  BY DEF Failure
<1>. QED  BY <1>4, <1>5, <1>8, <1>9

LEMMA KeptGood ==
  ASSUME Good(area, maps, stray), Kept
  PROVE  Good(area', maps', stray')
<1>1. area' = area /\ maps' = maps /\ stray' = stray
  BY DEF Kept
<1>. QED  BY <1>1

LEMMA NextGood ==
  ASSUME Good(area, maps, stray), [Next]_vars
  PROVE  Good(area', maps', stray')
<1>1. ASSUME NEW len \in Lens, NEW fails \in SUBSET Failing, NEW limit \in Limits, NEW um \in BOOLEAN,
             MmapAnonymous(len, fails, limit, um)
      PROVE  Good(area', maps', stray')
  <2>1. Quietly \/ \E x, m : Mapped(x, m)
    BY <1>1, AnonymousMapped
  <2>. QED  BY <2>1, MappedGood
<1>2. ASSUME NEW h \in File, NEW len \in Lens, NEW off \in Off, NEW limit \in Limits, NEW um \in BOOLEAN,
             MmapFile(h, len, off, limit, um)
      PROVE  Good(area', maps', stray')
  <2>1. Quietly \/ \E x, m : Mapped(x, m)
    BY <1>2, FileMapped
  <2>. QED  BY <2>1, MappedGood
<1>3. ASSUME NEW s, NEW e, Range(s, e) PROVE Good(area', maps', stray')
  <2>1. s \in Nat /\ e \in Nat /\ s <= e /\ Cuts(s, e) /\ stray' = stray
    BY <1>3, UserMapAssumption DEF Range, Page
  <2>2. Good(area', maps', stray)
    BY <2>1, RangeUnmapped
  <2>. QED  BY <2>1, <2>2
<1>4. ASSUME NEW s \in Page, NEW len \in 1 .. MaxSize, Munmap(s, len) PROVE Good(area', maps', stray')
  <2>1. (\E f, e : Range(f, e)) \/ Kept
    BY <1>4, MunmapIs
  <2>. QED  BY <1>3, <2>1, KeptGood
<1>5. ASSUME NEW at \in Page, NEW old \in Lens, NEW new \in Lens, Mremap(at, old, new)
      PROVE  Good(area', maps', stray')
  <2>1. (\E f, e : Range(f, e)) \/ Kept
    BY <1>5, MremapIs
  <2>. QED  BY <1>3, <2>1, KeptGood
<1>6. ASSUME NEW h \in File, CloseFile(h) PROVE Good(area', maps', stray')
  <2>1. Good(area', maps', stray)
    BY <1>6, FileClosed
  <2>2. stray' = stray
    BY <1>6 DEF CloseFile
  <2>. QED  BY <2>1, <2>2
<1>7. ASSUME NEW p \in Writable, Store(p) PROVE Good(area', maps', stray')
  BY <1>7, Written
<1>8. CASE UNCHANGED vars
  <2>1. Kept
    BY <1>8 DEF vars, Kept
  <2>. QED  BY <2>1, KeptGood
<1>9. CASE Next
  BY <1>1, <1>2, <1>4, <1>5, <1>6, <1>7, <1>9 DEF Next
<1>. QED  BY <1>8, <1>9

-----------------------------------------------------------------------------
(* What Good says                                                          *)

LEMMA UsedIs == Used = AllPages(maps)
BY DEF Used, AllPages

LEMMA GoodType ==
  ASSUME Good(area, maps, stray)
  PROVE  TypeOK
<1>1. PICK L : Held(area, maps, stray, L)
  BY DEF Good
<1>2. /\ Shows(area, AllPages(maps), AllPages(maps) \cup stray, L) /\ Fits(maps, area.size)
      /\ area \in Area /\ area.size \in Size /\ AllPages(maps) \subseteq Span(0, area.size)
  BY <1>1, HeldIs
<1>3. Fulls(area, AllPages(maps), AllPages(maps) \cup stray, L)
  BY <1>2 DEF Shows
<1>4. Busy(area) \subseteq Under(Root(area))
  BY <1>3 DEF Fulls, Closed, Tree, Busy
<1>5. area.allocated \subseteq Page /\ DOMAIN area.pages = Page
  BY <1>2 DEF Area
<1>6. \A m \in maps : m \in Mappings /\ MapPages(m) \subseteq AllPages(maps)
  BY <1>2, FitsIs
<1>7. \A m \in maps : m.len >= 1 /\ MapPages(m) \subseteq Span(0, area.size)
  BY <1>2, <1>6, MapPagesIs
<1>. QED  BY <1>2, <1>4, <1>5, <1>7 DEF TypeOK

\* Full leaves that are not taken are the pages lost.
LEMMA LostIs ==
  ASSUME NEW L, Held(area, maps, stray, L)
  PROVE  Taken = AllPages(maps) \cup stray /\ Lost = L
<1>1. /\ Shows(area, AllPages(maps), AllPages(maps) \cup stray, L)
      /\ Span(0, area.size) \subseteq Page
  BY HeldIs
<1>2. Fulls(area, AllPages(maps), AllPages(maps) \cup stray, L)
  BY <1>1 DEF Shows
<1>3. Taken = AllPages(maps) \cup stray
  BY UsedIs DEF Taken
<1>4. Pages(Root(area)) \subseteq Page
  BY <1>1 DEF Root, Pages
<1>5. \A p \in Page : Pages(Leaf(p)) = {p}
  BY LeafIs
<1>6. ASSUME NEW p \in Lost PROVE p \in L
  BY <1>2, <1>3, <1>5, <1>6 DEF Lost, Fulls
<1>7. ASSUME NEW p \in L PROVE p \in Lost
  <2>1. p \in Page /\ p \notin Taken /\ Leaf(p) \in area.full
    BY <1>2, <1>3, <1>4 DEF Fulls
  <2>. QED  BY <2>1 DEF Lost
<1>. QED  BY <1>3, <1>6, <1>7

LEMMA GoodFollows ==
  ASSUME Good(area, maps, stray)
  PROVE  HeapFollowsMappings
<1>1. PICK L : Held(area, maps, stray, L)
  BY DEF Good
<1>2. /\ Shows(area, AllPages(maps), AllPages(maps) \cup stray, L) /\ L \subseteq Failing
      /\ AllPages(maps) \cap stray = {} /\ Fits(maps, area.size)
  BY <1>1, HeldIs
<1>3. Taken = AllPages(maps) \cup stray /\ Lost = L /\ Used = AllPages(maps)
  BY <1>1, LostIs, UsedIs
<1>4. /\ Fulls(area, Used, Taken, Lost)
      /\ \A c \in area.split : c.size > 1 /\ Pages(c) \cap (Taken \cup Lost) # {}
  BY <1>2, <1>3 DEF Shows
<1>5. Blocks = Tree(area)
  BY DEF Blocks, Tree
<1>6. Closed(area)
  BY <1>4 DEF Fulls
<1>7. \A m, n \in maps : m # n => MapPages(m) \cap MapPages(n) = {}
  BY <1>2 DEF Fits, Disjoint
<1>8. \A b \in Blocks : Pages(b) \subseteq Used => b \in area.full
  BY <1>4, <1>5 DEF Fulls
<1>9. \A b \in area.full :
        /\ Pages(b) \subseteq Taken \cup Lost /\ Under(b) \subseteq area.full
        /\ b.size > 1 => Pages(b) \cap Taken # {}
  BY <1>4, <1>6 DEF Fulls, Closed
<1>10. Meets(Taken) \subseteq area.split
  BY <1>4, <1>5 DEF Fulls, Meets
<1>11. area.split \subseteq Meets(Taken \cup Lost)
  BY <1>4, <1>5, <1>6 DEF Closed, Meets
<1>. QED  BY <1>2, <1>3, <1>7, <1>8, <1>9, <1>10, <1>11 DEF HeapFollowsMappings

LEMMA GoodTells ==
  ASSUME Good(area, maps, stray)
  PROVE  MappingsTellPages
<1>1. PICK L : Held(area, maps, stray, L)
  BY DEF Good
<1>2. \A m \in maps : \A p \in MapPages(m) : Tells(area, stray, m, p)
  BY <1>1, HeldIs DEF Told
<1>. QED  BY <1>2 DEF Tells, Bares, NoFrame, Bare, MappingsTellPages

-----------------------------------------------------------------------------
(* The theorems                                                            *)

LEMMA GoodStep == Good(area, maps, stray) /\ [Next]_vars => Good(area, maps, stray)'
BY NextGood DEF Good, Held, Shows, Fulls, Closed, Tree, Fits, Disjoint, AllPages, Told, Tells, Bares, Idle, NoFrame

\* The inductive invariant: mmap, munmap, mremap and close keep heap, pages and
\* mappings together whatever they are asked and wherever memory is missing,
\* with the pages of L lost.
THEOREM GoodAlways == Spec => []Good(area, maps, stray)
<1>1. Init => Good(area, maps, stray)
  BY InitGood
<1>2. Good(area, maps, stray) /\ [Next]_vars => Good(area, maps, stray)'
  BY GoodStep
<1>. QED  BY <1>1, <1>2, PTL DEF Spec

\* Type correctness of the area and of the mappings, none of which is ever
\* empty, whatever munmap_one has left of it.
THEOREM TypeAlways == Spec => []TypeOK
<1>1. Good(area, maps, stray) => TypeOK
  BY GoodType
<1>. QED  BY <1>1, GoodAlways, PTL

\* After any calls, memory missing for any pages in blocks of any size: no two
\* mappings overlap, blocks are full where mappings are and split where they
\* begin or end, and elsewhere only for pages stray or lost for want of memory.
THEOREM FollowsAlways == Spec => []HeapFollowsMappings
<1>1. Good(area, maps, stray) => HeapFollowsMappings
  BY GoodFollows
<1>. QED  BY <1>1, GoodAlways, PTL

\* What munmap_one has left of a mapping still says what its pages show: the
\* part of the file from its offset on, or memory of the heap; and a page with
\* nothing behind it is a last one, lost when another was taken for it.
THEOREM TellsAlways == Spec => []MappingsTellPages
<1>1. Good(area, maps, stray) => MappingsTellPages
  BY GoodTells
<1>. QED  BY <1>1, GoodAlways, PTL

-----------------------------------------------------------------------------
(* The promise to the program                                              *)

\* What the program finds.
Finds(a, M) == [p \in Page |-> IF p \in AllPages(M) THEN a.pages[p] ELSE Nothing]
mem == [p \in Page |-> IF p \in Used THEN area.pages[p] ELSE Nothing]
SameMemory == Used' = Used /\ mem' = mem

LEMMA FindsIs ==
  /\ mem = Finds(area, maps) /\ mem' = Finds(area', maps')
  /\ Used = AllPages(maps) /\ Used' = AllPages(maps')
<1>1. Used = AllPages(maps) /\ Used' = AllPages(maps')
  BY DEF Used, AllPages
<1>. QED  BY <1>1 DEF mem, Finds

LEMMA StillFinds ==
  ASSUME NEW x, NEW N, Still(x, N, area, maps, stray)
  PROVE  Finds(x, maps) = Finds(area, maps)
<1>1. \A p \in AllPages(maps) : p \in Page => x.pages[p] = area.pages[p]
  BY DEF Still, Calm, SameFrame
<1>. QED  BY <1>1 DEF Finds

LEMMA QuietlySame ==
  ASSUME Quietly
  PROVE  SameMemory
<1>1. PICK x, N, M : x = area' /\ N = stray' /\ M = maps'
  OBVIOUS
<1>2. M = maps /\ Still(x, N, area, maps, stray)
  BY <1>1 DEF Quietly
<1>3. Finds(x, M) = Finds(area, maps) /\ AllPages(M) = AllPages(maps)
  BY <1>2, StillFinds
<1>. QED  BY <1>1, <1>3, FindsIs DEF SameMemory

\* The answers of the abstract calls.
LEMMA MemoryFails ==
  ASSUME NEW name, NEW args, Answer(name, args, Failure), SameMemory
  PROVE  Memory!Fails(name, args)
BY DEF Memory!Fails, Memory!Answer, Answer, Memory!Failure, Failure, SameMemory, mem

LEMMA MemoryAnswers ==
  ASSUME NEW name, NEW args, NEW ret, Answer(name, args, ret)
  PROVE  Memory!Answer(name, args, ret)
BY DEF Memory!Answer, Answer

LEMMA MemoryWithout ==
  ASSUME NEW r, Used' = Used \ r, mem' = [p \in Page |-> IF p \in r THEN Nothing ELSE mem[p]]
  PROVE  Memory!Without(r)
BY DEF Memory!Without, mem, Memory!Page, Page

\* A mapping more.
Appears(r) ==
  /\ r \subseteq Page \ Used /\ Used' = Used \cup r
  /\ mem' = [p \in Page |-> IF p \in r THEN area'.pages[p] ELSE mem[p]]

LEMMA MappedFinds ==
  ASSUME Good(area, maps, stray), NEW x, NEW m, Mapped(x, m)
  PROVE  /\ m \in Mappings /\ m.at \in Page /\ MapPages(m) = m.at .. m.at + m.len - 1
         /\ Appears(MapPages(m))
<1>1. PICK y, N, W : y = area' /\ N = maps' /\ W = stray'
  OBVIOUS
<1>2. /\ Still(x, stray, area, maps, stray) /\ Good(x, maps, stray) /\ N = maps \cup {m}
      /\ m \in Mappings /\ MapPages(m) \cap AllPages(maps) = {} /\ y.size = x.size /\ m.at + m.len <= x.size
      /\ (AllPages(maps) \cup MapPages(m)) \cap W = {}
      /\ \A p \in Page \ (MapPages(m) \cup W) : SameFrame(y, x, p)
  BY <1>1 DEF Mapped, Adds
<1>3. m.at \in Nat /\ m.len \in Nat \ {0} /\ x.size \in Nat /\ x.size <= MaxSize /\ MaxSize \in Nat
  <2>1. PICK L : Held(x, maps, stray, L)
    BY <1>2 DEF Good
  <2>. QED  BY <1>2, <2>1, MapPagesIs, HeldIs
<1>4. m.at \in Page /\ m.at + m.len - 1 \in Page /\ m.at <= m.at + m.len - 1
  BY <1>2, <1>3 DEF Page
<1>5. MapPages(m) = m.at .. m.at + m.len - 1
  BY DEF MapPages, Span
<1>6. MapPages(m) \subseteq Page
  BY <1>3, <1>4, <1>5 DEF Page
<1>7. \A p : p \in AllPages(N) <=> p \in AllPages(maps) \/ p \in MapPages(m)
  BY <1>2 DEF AllPages
<1>8. mem = Finds(x, maps)
  BY <1>2, StillFinds, FindsIs
<1>9. ASSUME NEW p \in Page
      PROVE  Finds(y, N)[p] = IF p \in MapPages(m) THEN y.pages[p] ELSE Finds(x, maps)[p]
  <2>1. CASE p \in MapPages(m)
    BY <1>7, <2>1 DEF Finds
  <2>2. CASE p \notin MapPages(m) /\ p \in AllPages(maps)
    <3>1. y.pages[p] = x.pages[p]
      BY <1>2, <2>2 DEF SameFrame
    <3>. QED  BY <1>7, <2>2, <3>1 DEF Finds
  <2>3. CASE p \notin MapPages(m) /\ p \notin AllPages(maps)
    BY <1>7, <2>3 DEF Finds
  <2>. QED  BY <2>1, <2>2, <2>3
<1>10. Finds(y, N) = [p \in Page |-> IF p \in MapPages(m) THEN y.pages[p] ELSE mem[p]]
  BY <1>8, <1>9 DEF Finds
<1>11. AllPages(N) = AllPages(maps) \cup MapPages(m) /\ MapPages(m) \subseteq Page \ AllPages(maps)
  BY <1>2, <1>6, <1>7
<1>12. Appears(MapPages(m))
  BY <1>1, <1>10, <1>11, FindsIs DEF Appears
<1>. QED  BY <1>2, <1>4, <1>5, <1>12

\* The pages of r appear, new ones of h from off on, but those of none.
Gives(h, len, off, at, none, r) ==
  /\ at \in Page /\ r = at .. at + len - 1 /\ r \subseteq Page \ Used /\ Used' = Used \cup r
  /\ none \in SUBSET ({at + len - 1} \cap Failing) /\ (h # Anonymous => none = {})
  /\ mem' = [p \in Page |-> IF p \in none THEN Nothing
                           ELSE IF p \in r THEN Memory!New(h, off, p - at) ELSE mem[p]]

LEMMA MemoryMmap ==
  ASSUME NEW h, NEW len, NEW off, NEW at, NEW none, NEW r, Gives(h, len, off, at, none, r),
         Answer("mmap", <<h, len, off>>, at)
  PROVE  Memory!Mmap(h, len, off)
<1>1. Memory!Page = Page
  BY DEF Memory!Page, Page
<1>2. Memory!Answer("mmap", <<h, len, off>>, at)
  BY MemoryAnswers
<1>3. Memory!MmapAt(h, len, off, at)
  BY <1>1, <1>2 DEF Memory!MmapAt, mem, Gives
<1>4. at \in Memory!Page
  BY <1>1 DEF Gives
<1>. QED  BY <1>3, <1>4 DEF Memory!Mmap

LEMMA AnonymousStep ==
  ASSUME Good(area, maps, stray), NEW len \in Lens, NEW fails \in SUBSET Failing, NEW limit \in Limits,
         NEW um \in BOOLEAN, MmapAnonymous(len, fails, limit, um)
  PROVE  Memory!Next
<1>1. CASE Quietly /\ Answer("mmap", <<Anonymous, len, 0>>, Failure)
  <2>1. SameMemory
    BY <1>1, QuietlySame
  <2>2. Memory!Fails("mmap", <<Anonymous, len, 0>>)
    BY <1>1, <2>1, MemoryFails
  <2>3. Memory!Mmap(Anonymous, len, 0)
    BY <2>2 DEF Memory!Mmap
  <2>. QED  BY <2>3 DEF Memory!Next
<1>2. CASE \E x, m : /\ Mapped(x, m) /\ m = Mapping(m.at, len, 0, Anonymous) /\ Zeroes(area', m)
                     /\ Answer("mmap", <<Anonymous, len, 0>>, m.at)
  <2>1. PICK x, m : /\ Mapped(x, m) /\ m = Mapping(m.at, len, 0, Anonymous) /\ Zeroes(area', m)
                    /\ Answer("mmap", <<Anonymous, len, 0>>, m.at)
    BY <1>2
  <2>2. m.len = len
    BY <2>1 DEF Mapping
  <2>3. PICK at, r, y : at = m.at /\ r = MapPages(m) /\ y = area'
    OBVIOUS
  <2>4. /\ at \in Page /\ r = at .. at + len - 1 /\ Appears(r)
        /\ Answer("mmap", <<Anonymous, len, 0>>, at)
    BY <2>1, <2>2, <2>3, MappedFinds
  <2>5. \A p \in r : y.pages[p] = Zero \/ (p = at + len - 1 /\ p \in Failing /\ y.pages[p] = Nothing)
    BY <2>1, <2>2, <2>3 DEF Zeroes
  <2>6. r \subseteq Page \ Used /\ Used' = Used \cup r
        /\ mem' = [p \in Page |-> IF p \in r THEN y.pages[p] ELSE mem[p]]
    BY <2>3, <2>4 DEF Appears
  <2>7. PICK none : none = {p \in r : y.pages[p] = Nothing}
    OBVIOUS
  <2>8. none \in SUBSET ({at + len - 1} \cap Failing)
    BY <2>5, <2>7, ZeroContent DEF ZeroIs
  <2>9. \A p : Memory!New(Anonymous, 0, p - at) = Zero
    BY DEF Memory!New, Zero
  <2>10. \A p \in Page : (IF p \in r THEN y.pages[p] ELSE mem[p])
            = IF p \in none THEN Nothing
              ELSE IF p \in r THEN Memory!New(Anonymous, 0, p - at) ELSE mem[p]
    BY <2>5, <2>7, <2>9
  <2>11. mem' = [p \in Page |-> IF p \in none THEN Nothing
                                ELSE IF p \in r THEN Memory!New(Anonymous, 0, p - at) ELSE mem[p]]
    BY <2>6, <2>10
  <2>12. PICK h, no : h = Anonymous /\ no = 0
    OBVIOUS
  <2>13. Gives(h, len, no, at, none, r)
    BY <2>4, <2>6, <2>8, <2>11, <2>12 DEF Gives
  <2>14. Memory!Mmap(h, len, no)
    BY <2>4, <2>12, <2>13, MemoryMmap
  <2>15. Memory!Mmap(Anonymous, len, 0)
    BY <2>12, <2>14
  <2>. QED  BY <2>15 DEF Memory!Next
<1>. QED  BY <1>1, <1>2, AnonymousMapped

LEMMA FileStep ==
  ASSUME Good(area, maps, stray), NEW h \in File, NEW len \in Lens, NEW off \in Off, NEW limit \in Limits,
         NEW um \in BOOLEAN, MmapFile(h, len, off, limit, um)
  PROVE  Memory!Next
<1>1. CASE Quietly /\ Answer("mmap", <<h, len, off>>, Failure)
  <2>1. SameMemory
    BY <1>1, QuietlySame
  <2>2. Memory!Fails("mmap", <<h, len, off>>)
    BY <1>1, <2>1, MemoryFails
  <2>3. Memory!Mmap(h, len, off)
    BY <2>2 DEF Memory!Mmap
  <2>. QED  BY <2>3 DEF Memory!Next
<1>2. CASE \E x, m : /\ Mapped(x, m) /\ m = Mapping(m.at, len, off, h) /\ Displays(area', m)
                     /\ Answer("mmap", <<h, len, off>>, m.at)
  <2>1. PICK x, m : /\ Mapped(x, m) /\ m = Mapping(m.at, len, off, h) /\ Displays(area', m)
                    /\ Answer("mmap", <<h, len, off>>, m.at)
    BY <1>2
  <2>2. m.len = len /\ m.h = h /\ m.off = off
    BY <2>1 DEF Mapping
  <2>3. PICK at, r, y, none : at = m.at /\ r = MapPages(m) /\ y = area' /\ none = {}
    OBVIOUS
  <2>4. /\ at \in Page /\ r = at .. at + len - 1 /\ Appears(r)
        /\ Answer("mmap", <<h, len, off>>, at)
    BY <2>1, <2>2, <2>3, MappedFinds
  <2>5. h # Anonymous
    BY UserMapAssumption
  <2>6. \A p \in r : y.pages[p] = [of |-> h, at |-> off + p - at]
    BY <2>1, <2>2, <2>3, <2>5 DEF Displays, Shown
  <2>7. r \subseteq Page \ Used /\ Used' = Used \cup r
        /\ mem' = [p \in Page |-> IF p \in r THEN y.pages[p] ELSE mem[p]]
    BY <2>3, <2>4 DEF Appears
  <2>8. off \in Int /\ at \in Int /\ Page \subseteq Int
    <3>1. off \in Int
      BY UserMapAssumption
    <3>2. Page \subseteq Int
      BY DEF Page
    <3>. QED  BY <2>4, <3>1, <3>2
  <2>9. \A p \in r : p \in Int
    BY <2>7, <2>8
  <2>10. \A p \in r : off + (p - at) = off + p - at
    BY <2>8, <2>9
  <2>11. \A p \in r : Memory!New(h, off, p - at) = y.pages[p]
    BY <2>5, <2>6, <2>10 DEF Memory!New
  <2>12. mem' = [p \in Page |-> IF p \in none THEN Nothing
                                ELSE IF p \in r THEN Memory!New(h, off, p - at) ELSE mem[p]]
    BY <2>3, <2>7, <2>11
  <2>13. none \in SUBSET ({at + len - 1} \cap Failing) /\ (h # Anonymous => none = {})
    BY <2>3
  <2>14. Gives(h, len, off, at, none, r)
    BY <2>4, <2>7, <2>12, <2>13 DEF Gives
  <2>15. Memory!Mmap(h, len, off)
    BY <2>4, <2>14, MemoryMmap
  <2>. QED  BY <2>15 DEF Memory!Next
<1>. QED  BY <1>1, <1>2, FileMapped

\* The pages of R less, which are those of S that the program has.
SamePart(R, S) == \A p \in AllPages(maps) : p \in R <=> p \in S

LEMMA RemovedFinds ==
  ASSUME NEW R, Removed(R, area', area, maps, stray, maps'), NEW S, SamePart(R, S)
  PROVE  Memory!Without(S)
<1>1. PICK y, N : y = area' /\ N = maps'
  OBVIOUS
<1>2. /\ AllPages(N) = AllPages(maps) \ R
      /\ \A p \in Page : IF p \in R THEN NoFrame(y, p) ELSE SameFrame(y, area, p)
  BY <1>1 DEF Removed
<1>3. AllPages(N) = AllPages(maps) \ S
  BY <1>2 DEF SamePart
<1>4. ASSUME NEW p \in Page
      PROVE  Finds(y, N)[p] = IF p \in S THEN Nothing ELSE Finds(area, maps)[p]
  BY <1>2, <1>3 DEF Finds, NoFrame, SameFrame, SamePart
<1>5. Finds(y, N) = [p \in Page |-> IF p \in S THEN Nothing ELSE Finds(area, maps)[p]]
  BY <1>4 DEF Finds
<1>6. Used' = Used \ S /\ mem' = [p \in Page |-> IF p \in S THEN Nothing ELSE mem[p]]
  BY <1>1, <1>3, <1>5, FindsIs
<1>. QED  BY <1>6, MemoryWithout

LEMMA RangeStep ==
  ASSUME Good(area, maps, stray), NEW s, NEW e, Range(s, e), NEW S, S = s .. e - 1
  PROVE  Memory!Without(S)
<1>1. s \in Nat /\ e \in Nat /\ Cuts(s, e) /\ s <= e
  BY UserMapAssumption DEF Range, Page
<1>2. PICK R : R = {p \in AllPages(maps) : s <= p /\ p < e} /\ Removed(R, area', area, maps, stray, maps')
  BY <1>1, RangeUnmapped
<1>4. AllPages(maps) \subseteq Int
  <2>1. PICK L : Held(area, maps, stray, L)
    BY DEF Good
  <2>2. AllPages(maps) \subseteq Page
    BY <2>1, HeldIs
  <2>. QED  BY <2>2 DEF Page
<1>5. SamePart(R, S)
  BY <1>1, <1>2, <1>4 DEF SamePart
<1>. QED  BY <1>2, <1>5, RemovedFinds

LEMMA KeptSame ==
  ASSUME Kept
  PROVE  SameMemory
BY DEF Kept, SameMemory, Used, mem

LEMMA MunmapStep ==
  ASSUME Good(area, maps, stray), NEW s \in Page, NEW len \in 1 .. MaxSize, Munmap(s, len)
  PROVE  Memory!Next
<1>1. CASE Range(s, s + len) /\ Answer("munmap", <<s, len>>, 0)
  <2>0. PICK f, e, S : f = s /\ e = s + len /\ S = f .. e - 1
    OBVIOUS
  <2>1. Memory!Without(S)
    BY <1>1, <2>0, RangeStep
  <2>3. S = s .. s + len - 1
    <3>1. s \in Int /\ len \in Int
      BY DEF Page
    <3>2. e - 1 = s + len - 1
      BY <2>0, <3>1
    <3>. QED  BY <2>0, <3>2, Zenon
  <2>2. Memory!Answer("munmap", <<s, len>>, 0)
    BY <1>1, MemoryAnswers
  <2>4. Memory!Without(s .. s + len - 1)
    BY <2>1, <2>3, Zenon
  <2>. QED  BY <2>2, <2>4 DEF Memory!Munmap, Memory!Next, Memory!Page, Page
<1>2. CASE Kept /\ Answer("munmap", <<s, len>>, Failure)
  <2>1. SameMemory
    BY <1>2, KeptSame
  <2>2. Memory!Fails("munmap", <<s, len>>)
    BY <1>2, <2>1, MemoryFails
  <2>. QED  BY <2>2 DEF Memory!Munmap, Memory!Next, Memory!Page, Page
<1>. QED  BY <1>1, <1>2, MunmapIs

LEMMA MremapStep ==
  ASSUME Good(area, maps, stray), NEW at \in Page, NEW old \in Lens, NEW new \in Lens, Mremap(at, old, new)
  PROVE  Memory!Next
<1>1. CASE Range(at + new, at + old) /\ Answer("mremap", <<at, old, new>>, at)
  <2>0. PICK f, e, S : f = at + new /\ e = at + old /\ S = f .. e - 1
    OBVIOUS
  <2>1. Memory!Without(S)
    BY <1>1, <2>0, RangeStep
  <2>3. S = at + new .. at + old - 1
    <3>1. at \in Int /\ old \in Int
      BY LensIs DEF Page
    <3>2. e - 1 = at + old - 1
      BY <2>0, <3>1
    <3>. QED  BY <2>0, <3>2, Zenon
  <2>2. Memory!Answer("mremap", <<at, old, new>>, at)
    BY <1>1, MemoryAnswers
  <2>4. Memory!Without(at + new .. at + old - 1)
    BY <2>1, <2>3, Zenon
  <2>. QED  BY <2>2, <2>4 DEF Memory!Mremap, Memory!Next, Memory!Page, Page
<1>2. CASE Kept /\ Answer("mremap", <<at, old, new>>, Failure)
  <2>1. SameMemory
    BY <1>2, KeptSame
  <2>2. Memory!Fails("mremap", <<at, old, new>>)
    BY <1>2, <2>1, MemoryFails
  <2>. QED  BY <2>2 DEF Memory!Mremap, Memory!Next, Memory!Page, Page
<1>. QED  BY <1>1, <1>2, MremapIs

LEMMA CloseStep ==
  ASSUME Good(area, maps, stray), NEW h \in File, CloseFile(h)
  PROVE  Memory!Next
<1>1. PICK R : R = AllPages({m \in maps : m.h = h}) /\ Removed(R, area', area, maps, stray, maps')
  BY FileClosed
<1>2. PICK S : S = {p \in Page : mem[p] # Nothing /\ mem[p].of = h}
  OBVIOUS
<1>3. PICK L : Held(area, maps, stray, L)
  BY DEF Good
<1>4. Told(area, maps, stray) /\ Fits(maps, area.size) /\ AllPages(maps) \subseteq Page
  BY <1>3, HeldIs
<1>5. h # Anonymous
  BY UserMapAssumption
<1>6. ASSUME NEW p \in AllPages(maps) PROVE p \in R <=> p \in S
  <2>1. PICK m \in maps : p \in MapPages(m)
    BY <1>6 DEF AllPages
  <2>2. Tells(area, stray, m, p) /\ Disjoint(maps) /\ m \in Mappings /\ p \in Page
    BY <1>4, <2>1 DEF Told, Fits
  <2>3. mem[p] = area.pages[p]
    BY <1>6, <2>2, FindsIs DEF Finds
  <2>4. p \in R <=> m.h = h
    BY <1>1, <2>1, <2>2 DEF AllPages, Disjoint
  <2>5. CASE m.h = Anonymous
    BY <1>2, <1>5, <2>2, <2>3, <2>4, <2>5 DEF Tells, Bares, NoFrame
  <2>6. CASE m.h # Anonymous
    <3>1. m.h \in File /\ m.at \in Nat /\ m.off \in Nat /\ p \in Int /\ m.at <= p
      BY <2>1, <2>2, <2>6, MapPagesIs
    <3>2. mem[p] = [of |-> m.h, at |-> m.off + p - m.at]
      BY <2>2, <2>3, <2>6 DEF Tells, Shown
    <3>3. m.off + p - m.at \in Nat
      BY <3>1
    <3>4. mem[p] # Nothing /\ mem[p].of = m.h
      BY <3>1, <3>2, <3>3, UserMapAssumption DEF Content
    <3>. QED  BY <1>2, <2>2, <2>4, <3>4
  <2>. QED  BY <2>5, <2>6
<1>7. SamePart(R, S)
  BY <1>6 DEF SamePart
<1>8. Memory!Without(S)
  BY <1>1, <1>7, RemovedFinds
<1>9. Memory!Page = Page
  BY DEF Memory!Page, Page
<1>10. S = {p \in Memory!Page : mem[p] # Nothing /\ mem[p].of = h}
  BY <1>2, <1>9, Zenon
<1>11. Memory!Without({p \in Memory!Page : mem[p] # Nothing /\ mem[p].of = h})
  BY <1>8, <1>10 DEF Memory!Without
<1>12. Memory!Answer("close", <<h>>, 0)
  BY MemoryAnswers DEF CloseFile
<1>13. Memory!CloseFile(h)
  BY <1>11, <1>12, Zenon DEF Memory!CloseFile, mem
<1>. QED  BY <1>13 DEF Memory!Next

LEMMA StoreStep ==
  ASSUME Good(area, maps, stray), NEW p, Store(p)
  PROVE  Memory!Next
<1>1. PICK y, N : y = area' /\ N = maps'
  OBVIOUS
<1>2. /\ N = maps /\ p \in AllPages(maps) /\ p \in Page /\ Writes(y, area, p) /\ Answer("store", <<p>>, 0)
  BY <1>1, Written
<1>3. /\ area.pages[p] # Nothing /\ area.pages[p].of = Anonymous
      /\ y.pages[p] = One /\ \A q \in Page \ {p} : y.pages[q] = area.pages[q]
  BY <1>2 DEF Writes, SameFrame
<1>4. mem[p] = area.pages[p] /\ DOMAIN mem = Page
  BY <1>2, FindsIs DEF Finds
<1>5. Finds(y, N) = [Finds(area, maps) EXCEPT ![p] = One]
  BY <1>2, <1>3 DEF Finds
<1>6. area.pages[p] \in Content
  <2>1. PICK L : Held(area, maps, stray, L)
    BY DEF Good
  <2>2. area \in Area
    BY <2>1, HeldIs
  <2>. QED  BY <1>2, <1>3, <2>2 DEF Area
<1>7. [mem[p] EXCEPT !.at = 1] = One
  BY <1>3, <1>4, <1>6 DEF Content, One
<1>8. mem' = [mem EXCEPT ![p].at = 1]
  BY <1>1, <1>5, <1>7, FindsIs
<1>9. Used' = Used
  BY <1>1, <1>2, FindsIs
<1>10. Memory!Answer("store", <<p>>, 0)
  BY <1>2, MemoryAnswers
<1>11. Memory!Store(p)
  BY <1>3, <1>4, <1>8, <1>9, <1>10 DEF Memory!Store, mem
<1>. QED  BY <1>2, <1>11 DEF Memory!Next, Memory!Page, Page

LEMMA MemoryStep == Good(area, maps, stray) /\ [Next]_vars => [Memory!Next]_<<Used, mem, call>>
<1>. SUFFICES ASSUME Good(area, maps, stray), [Next]_vars
              PROVE  [Memory!Next]_<<Used, mem, call>>
  OBVIOUS
<1>1. ASSUME NEW len \in Lens, NEW fails \in SUBSET Failing, NEW limit \in Limits, NEW um \in BOOLEAN,
             MmapAnonymous(len, fails, limit, um)
      PROVE  Memory!Next
  BY <1>1, AnonymousStep
<1>2. ASSUME NEW h \in File, NEW len \in Lens, NEW off \in Off, NEW limit \in Limits, NEW um \in BOOLEAN,
             MmapFile(h, len, off, limit, um)
      PROVE  Memory!Next
  BY <1>2, FileStep
<1>3. ASSUME NEW s \in Page, NEW len \in 1 .. MaxSize, Munmap(s, len) PROVE Memory!Next
  BY <1>3, MunmapStep
<1>4. ASSUME NEW at \in Page, NEW old \in Lens, NEW new \in Lens, Mremap(at, old, new)
      PROVE  Memory!Next
  BY <1>4, MremapStep
<1>5. ASSUME NEW h \in File, CloseFile(h) PROVE Memory!Next
  BY <1>5, CloseStep
<1>6. ASSUME NEW p \in Writable, Store(p) PROVE Memory!Next
  BY <1>6, StoreStep
<1>7. CASE Next
  <2>1. Memory!Next
    BY <1>1, <1>2, <1>3, <1>4, <1>5, <1>6, <1>7 DEF Next
  <2>. QED  BY <2>1
<1>8. CASE UNCHANGED vars
  BY <1>8 DEF vars, mem, Used
<1>. QED  BY <1>7, <1>8

\* Call by call: an mmap that answers with an address gives as many pages as
\* asked for, from there on, that the program did not have, zeros or the file
\* from the offset asked for, but for a last page lost; munmap, mremap and
\* close take all the pages they were asked to and no others; a call that
\* fails takes and gives none.
THEOREM MemoryImplements == Spec => ImplementsUserMemory
<1>1. Init => Memory!Init
  BY DEF Init, Memory!Init, Used, Memory!Page, Page
<1>2. Good(area, maps, stray) /\ [Next]_vars => [Memory!Next]_<<Used, mem, call>>
  BY MemoryStep
<1>. QED  BY <1>1, <1>2, GoodAlways, PTL DEF Spec, ImplementsUserMemory, Memory!Spec, mem

=============================================================================
