------------------------ MODULE TilckPaging_proofs ------------------------
(***************************************************************************)
(* Theorems about TilckPaging: for any number of processes, pages and      *)
(* frames the counts are the mappings, what a process can write is its     *)
(* own, and copy-on-write is not seen: the processes have the memory of    *)
(* AddressSpaces.                                                          *)
(***************************************************************************)
EXTENDS TilckPaging, FiniteSetTheorems, TLAPS

\* The entries of tables T that map f, those outside p's table, and p's pages.
MappersOf(T, f)   == {e \in Proc \X Page : T[e[1]][e[2]].f = f}
OthersOf(T, p, f) == {e \in (Proc \ {p}) \X Page : T[e[1]][e[2]].f = f}
PagesOf(ptes, f)  == {v \in Page : ptes[v].f = f}
OtherTables(T, U, p) == \A q \in Proc : q # p => U[q] = T[q]
DiffersAt(r, s, v)     == \A w \in Page : w # v => s[w] = r[w]
OtherPages(T, U, p, v) == OtherTables(T, U, p) /\ DiffersAt(T[p], U[p], v)
One(g, f)   == IF g = f THEN 1 ELSE 0
Extra(b, f) == IF f \in {Zero, b} THEN 1 ELSE 0
Table       == [Page -> PteType]

LEMMA MappersFinite ==
  ASSUME NEW T, NEW f
  PROVE  IsFiniteSet(MappersOf(T, f)) /\ Cardinality(MappersOf(T, f)) \in Nat
<1>1. IsFiniteSet(Proc) /\ IsFiniteSet(Page)
  BY PagingAssumption
<1>2. IsFiniteSet(Proc \X Page)
  BY <1>1, FS_Product
<1>3. MappersOf(T, f) \in SUBSET (Proc \X Page)
  BY DEF MappersOf
<1>4. IsFiniteSet(MappersOf(T, f))
  BY <1>2, <1>3, FS_Subset
<1>. QED  BY <1>4, FS_CardinalityType

LEMMA PagesFinite ==
  ASSUME NEW R, R \subseteq Page
  PROVE  IsFiniteSet(R) /\ Cardinality(R) \in Nat
<1>1. IsFiniteSet(Page) /\ R \in SUBSET Page
  BY PagingAssumption
<1>2. IsFiniteSet(R)
  BY <1>1, FS_Subset
<1>. QED  BY <1>2, FS_CardinalityType

LEMMA MapsType ==
  ASSUME NEW ptes, NEW f
  PROVE  Maps(ptes, f) \in Nat /\ Maps(ptes, f) = Cardinality(PagesOf(ptes, f))
<1>1. PagesOf(ptes, f) \subseteq Page
  BY DEF PagesOf
<1>2. Cardinality(PagesOf(ptes, f)) \in Nat
  BY <1>1, PagesFinite
<1>. QED  BY <1>2 DEF Maps, PagesOf

LEMMA PagesPairs ==
  ASSUME NEW p, NEW R, R \subseteq Page
  PROVE  IsFiniteSet({p} \X R) /\ Cardinality({p} \X R) = Cardinality(R)
<1>1. IsFiniteSet(R) /\ Cardinality(R) \in Nat
  BY PagesFinite
<1>2. IsFiniteSet({p}) /\ Cardinality({p}) = 1
  BY FS_Singleton
<1>3. /\ IsFiniteSet({p} \X R)
      /\ Cardinality({p} \X R) = Cardinality({p}) * Cardinality(R)
  BY <1>1, <1>2, FS_Product
<1>. QED  BY <1>1, <1>2, <1>3

\* The entries that map f are those of other tables and those of p's.
LEMMA MappersSplit ==
  ASSUME NEW T, NEW p \in Proc, NEW f
  PROVE  /\ Cardinality(OthersOf(T, p, f)) \in Nat
         /\ Cardinality(MappersOf(T, f)) =
              Cardinality(OthersOf(T, p, f)) + Maps(T[p], f)
<1>. DEFINE Others == OthersOf(T, p, f)
            Mine   == {p} \X PagesOf(T[p], f)
<1>1. MappersOf(T, f) = Others \cup Mine
  BY DEF MappersOf, PagesOf, OthersOf
<1>2. Others \cap Mine = {}
  BY DEF OthersOf
<1>3. Others \in SUBSET MappersOf(T, f)
  BY <1>1
<1>4. IsFiniteSet(MappersOf(T, f))
  BY MappersFinite
<1>5. IsFiniteSet(Others)
  BY <1>3, <1>4, FS_Subset
<1>6. Cardinality(Others) \in Nat
  BY <1>5, FS_CardinalityType
<1>7. PagesOf(T[p], f) \subseteq Page
  BY DEF PagesOf
<1>8. IsFiniteSet(Mine) /\ Cardinality(Mine) = Cardinality(PagesOf(T[p], f))
  BY <1>7, PagesPairs
<1>9. Maps(T[p], f) \in Nat /\ Maps(T[p], f) = Cardinality(PagesOf(T[p], f))
  BY MapsType
<1>. HIDE DEF Others, Mine
<1>10. Cardinality(Others \cup Mine) =
         Cardinality(Others) + Cardinality(Mine) - Cardinality(Others \cap Mine)
  BY <1>5, <1>8, FS_Union
<1>11. Cardinality(Others \cap Mine) = 0
  BY <1>2, FS_EmptySet
<1>12. Cardinality(MappersOf(T, f)) = Cardinality(Others \cup Mine)
  BY <1>1
<1>13. Cardinality(MappersOf(T, f)) = Cardinality(Others) + Maps(T[p], f)
  BY <1>6, <1>8, <1>9, <1>10, <1>11, <1>12
<1>. QED  BY <1>6, <1>13 DEF Others

\* A change of p's table changes the count by what that table changes.
LEMMA TableChange ==
  ASSUME NEW T, NEW U, NEW p \in Proc, NEW f, OtherTables(T, U, p)
  PROVE  /\ Cardinality(MappersOf(U, f)) =
              Cardinality(MappersOf(T, f)) - Maps(T[p], f) + Maps(U[p], f)
         /\ Maps(T[p], f) <= Cardinality(MappersOf(T, f))
<1>1. OthersOf(U, p, f) = OthersOf(T, p, f)
  BY DEF OthersOf, OtherTables
<1>2. /\ Cardinality(OthersOf(T, p, f)) \in Nat
      /\ Cardinality(MappersOf(T, f)) =
           Cardinality(OthersOf(T, p, f)) + Maps(T[p], f)
  BY MappersSplit
<1>3. Cardinality(MappersOf(U, f)) =
        Cardinality(OthersOf(U, p, f)) + Maps(U[p], f)
  BY MappersSplit
<1>4. Maps(T[p], f) \in Nat /\ Maps(U[p], f) \in Nat
  BY MapsType
<1>5. Cardinality(OthersOf(U, p, f)) = Cardinality(OthersOf(T, p, f))
  BY <1>1
<1>. QED  BY <1>2, <1>3, <1>4, <1>5

\* A table that differs in one entry.
LEMMA EntryMaps ==
  ASSUME NEW r, NEW s, NEW v \in Page, NEW f, DiffersAt(r, s, v)
  PROVE  Maps(s, f) = Maps(r, f) - One(r[v].f, f) + One(s[v].f, f)
<1>. DEFINE R == PagesOf(r, f)
<1>1. PagesOf(s, f) = IF s[v].f = f THEN (R \ {v}) \cup {v} ELSE R \ {v}
  BY DEF PagesOf, DiffersAt
<1>2. (v \in R) <=> r[v].f = f
  BY DEF PagesOf
<1>3. IsFiniteSet(R) /\ Cardinality(R) \in Nat
  BY PagesFinite DEF PagesOf
<1>4. Maps(r, f) = Cardinality(R) /\ Maps(s, f) = Cardinality(PagesOf(s, f))
  BY MapsType
<1>. HIDE DEF R
<1>5. /\ IsFiniteSet(R \ {v})
      /\ Cardinality(R \ {v}) = IF v \in R THEN Cardinality(R) - 1 ELSE Cardinality(R)
  BY <1>3, FS_RemoveElement
<1>6. v \notin R \ {v}
  OBVIOUS
<1>7. Cardinality((R \ {v}) \cup {v}) = Cardinality(R \ {v}) + 1
  BY <1>5, <1>6, FS_AddElement
<1>. QED  BY <1>1, <1>2, <1>3, <1>4, <1>5, <1>7 DEF One

\* A change of one entry.
LEMMA EntryChange ==
  ASSUME NEW T, NEW U, NEW p \in Proc, NEW v \in Page, NEW f, OtherPages(T, U, p, v)
  PROVE  Cardinality(MappersOf(U, f)) =
           Cardinality(MappersOf(T, f)) - One(T[p][v].f, f) + One(U[p][v].f, f)
<1>1. OtherTables(T, U, p) /\ DiffersAt(T[p], U[p], v)
  BY DEF OtherPages
<1>2. Cardinality(MappersOf(U, f)) =
        Cardinality(MappersOf(T, f)) - Maps(T[p], f) + Maps(U[p], f)
  BY <1>1, TableChange
<1>3. Maps(U[p], f) = Maps(T[p], f) - One(T[p][v].f, f) + One(U[p][v].f, f)
  BY <1>1, EntryMaps
<1>4. Cardinality(MappersOf(T, f)) \in Nat
  BY MappersFinite
<1>5. Maps(T[p], f) \in Nat /\ One(T[p][v].f, f) \in Nat /\ One(U[p][v].f, f) \in Nat
  BY MapsType DEF One
<1>. QED  BY <1>2, <1>3, <1>4, <1>5

\* Tables that map the same frames have the same counts.
LEMMA SameFrames ==
  ASSUME NEW r, NEW s, \A v \in Page : s[v].f = r[v].f
  PROVE  \A f : Maps(s, f) = Maps(r, f)
BY DEF Maps

LEMMA NothingMapped ==
  ASSUME NEW f \in AnyFrame
  PROVE  Maps(NoPtes, f) = 0
<1>1. PagesOf(NoPtes, f) = {}
  BY PagingAssumption DEF PagesOf, NoPtes, NoPte, AnyFrame
<1>. QED  BY <1>1, MapsType, FS_EmptySet

\* A frame with one entry has no second one.
LEMMA OneMapper ==
  ASSUME NEW T, NEW f, Cardinality(MappersOf(T, f)) <= 1,
         NEW p \in Proc, NEW v \in Page, T[p][v].f = f,
         NEW q \in Proc, NEW w \in Page, T[q][w].f = f
  PROVE  p = q /\ v = w
<1>1. <<p, v>> \in MappersOf(T, f) /\ <<q, w>> \in MappersOf(T, f)
  BY DEF MappersOf
<1>2. IsFiniteSet(MappersOf(T, f)) /\ Cardinality(MappersOf(T, f)) \in Nat
  BY MappersFinite
<1>3. {<<p, v>>} \in SUBSET MappersOf(T, f)
  BY <1>1
<1>4. Cardinality({<<p, v>>}) = 1
  BY FS_Singleton
<1>5. /\ Cardinality({<<p, v>>}) <= Cardinality(MappersOf(T, f))
      /\ Cardinality(MappersOf(T, f)) = Cardinality({<<p, v>>}) =>
           MappersOf(T, f) = {<<p, v>>}
  BY <1>2, <1>3, FS_Subset
<1>6. MappersOf(T, f) = {<<p, v>>}
  BY <1>2, <1>4, <1>5
<1>7. <<q, w>> = <<p, v>>
  BY <1>1, <1>6
<1>. QED  BY <1>7

LEMMA MapperCounts ==
  ASSUME NEW T, NEW p \in Proc, NEW v \in Page, NEW f, T[p][v].f = f
  PROVE  Cardinality(MappersOf(T, f)) >= 1
<1>1. <<p, v>> \in MappersOf(T, f)
  BY DEF MappersOf
<1>2. IsFiniteSet(MappersOf(T, f)) /\ Cardinality(MappersOf(T, f)) \in Nat
  BY MappersFinite
<1>3. Cardinality(MappersOf(T, f)) # 0
  BY <1>1, <1>2, FS_EmptySet
<1>. QED  BY <1>2, <1>3

-----------------------------------------------------------------------------
\* A process that is not alive maps nothing that fork would have to count.
Dead == \A p \in Proc : p \notin alive => pt[p] = NoPtes

SaneTables(T) == \A p \in Proc, v \in Page : Sane(T[p][v])
Counted(T, r, b) ==
  \A f \in AnyFrame : r[f] = Cardinality(MappersOf(T, f)) + Extra(b, f)
InUse(t, r) == \A f \in Frame : f \in t <=> r[f] > 0

CountInv  == TypeOK /\ RefsCountMappings /\ Dead
PagingInv == CountInv /\ WritableAlone /\ StaleEntriesHarmless

LEMMA Names ==
  /\ Zero \in AnyFrame /\ Frame \subseteq AnyFrame /\ None \notin AnyFrame
  /\ Zero \notin Frame /\ None \notin Frame /\ None # Zero
  /\ \A f \in AnyFrame : f \in Frame \/ f = Zero
  /\ NoPte \in PteType /\ NoPtes \in Table /\ NoPte.f = None
  /\ ~NoPte.wr /\ ~NoPte.cow /\ ~NoPte.sh
  /\ \A v \in Page : NoPtes[v] = NoPte
  /\ Blank \in Val
BY PagingAssumption DEF AnyFrame, NoPte, NoPtes, PteType, Table

LEMMA Parts ==
  ASSUME CountInv
  PROVE  /\ pt \in [Proc -> Table] /\ ref \in [AnyFrame -> Nat]
         /\ data \in [AnyFrame -> Val]
         /\ taken \subseteq Frame /\ block \in taken \cup {None}
         /\ block \in Frame \cup {None}
         /\ cur \in alive /\ cur \in Proc /\ alive \subseteq Proc /\ tlb \in Table
         /\ SaneTables(pt) /\ (\A v \in Page : Sane(tlb[v]))
         /\ Counted(pt, ref, block) /\ InUse(taken, ref) /\ Dead
<1>1. TypeOK /\ RefsCountMappings /\ Dead
  BY DEF CountInv
<1>2. /\ pt \in [Proc -> Table] /\ ref \in [AnyFrame -> Nat]
      /\ data \in [AnyFrame -> Val]
      /\ taken \subseteq Frame /\ block \in taken \cup {None}
      /\ cur \in alive /\ alive \subseteq Proc /\ tlb \in Table
  BY <1>1 DEF TypeOK, Table
<1>3. SaneTables(pt) /\ (\A v \in Page : Sane(tlb[v]))
  BY <1>1 DEF TypeOK, SaneTables
<1>4. Counted(pt, ref, block)
  BY <1>1 DEF RefsCountMappings, Mappers, MappersOf, Counted, Extra
<1>5. InUse(taken, ref)
  BY <1>1 DEF RefsCountMappings, InUse
<1>. QED  BY <1>1, <1>2, <1>3, <1>4, <1>5

\* The counts give their own type: a step need not show that it counts in Nat.
LEMMA CountInvNext ==
  ASSUME pt' \in [Proc -> Table], ref' \in [AnyFrame -> Int],
         data' \in [AnyFrame -> Val], taken' \subseteq Frame,
         block' \in Frame \cup {None},
         cur' \in alive', alive' \subseteq Proc, tlb' \in Table,
         SaneTables(pt'), \A v \in Page : Sane(tlb'[v]),
         Counted(pt', ref', block'), InUse(taken', ref'), Dead'
  PROVE  CountInv'
<1>1. ASSUME NEW f \in AnyFrame
      PROVE  ref'[f] \in Nat
  <2>1. ref'[f] = Cardinality(MappersOf(pt', f)) + Extra(block', f)
    BY DEF Counted
  <2>2. Cardinality(MappersOf(pt', f)) \in Nat /\ Extra(block', f) \in Nat
    BY MappersFinite DEF Extra
  <2>. QED  BY <2>1, <2>2
<1>2. ref' \in [AnyFrame -> Nat]
  BY <1>1
<1>3. block' \in taken' \cup {None}
  <2>1. SUFFICES ASSUME block' \in Frame PROVE block' \in taken'
    OBVIOUS
  <2>2. block' \in AnyFrame
    BY <2>1, Names
  <2>3. ref'[block'] = Cardinality(MappersOf(pt', block')) + Extra(block', block')
    BY <2>2 DEF Counted
  <2>4. Cardinality(MappersOf(pt', block')) \in Nat /\ Extra(block', block') = 1
    BY MappersFinite DEF Extra
  <2>5. ref'[block'] > 0
    BY <2>3, <2>4
  <2>. QED  BY <2>1, <2>5 DEF InUse
<1>4. TypeOK'
  BY <1>2, <1>3 DEF TypeOK, Table, SaneTables
<1>5. RefsCountMappings'
  <2>1. \A f \in AnyFrame :
          ref'[f] = Cardinality(Mappers(f)') + IF f \in {Zero, block'} THEN 1 ELSE 0
    BY DEF Counted, Mappers, MappersOf, Extra
  <2>2. taken' = {f \in Frame : ref'[f] > 0}
    BY DEF InUse
  <2>. QED  BY <2>1, <2>2 DEF RefsCountMappings
<1>. QED  BY <1>4, <1>5 DEF CountInv

\* The facts about frames that every step uses.
LEMMA MappedFrames ==
  ASSUME CountInv, NEW p \in Proc, NEW v \in Page, pt[p][v] # NoPte
  PROVE  /\ pt[p][v] \in PteType
         /\ pt[p][v].f \in AnyFrame /\ ref[pt[p][v].f] >= 1
         /\ pt[p][v].f \in taken \cup {Zero}
         /\ pt[p][v].f \in {Zero, block} => ref[pt[p][v].f] >= 2
<1>. DEFINE f == pt[p][v].f
<1>1. pt[p][v] \in PteType /\ Sane(pt[p][v])
  BY Parts DEF Table, SaneTables
<1>2. f # None /\ f \in AnyFrame
  BY <1>1 DEF Sane, PteType
<1>3. Cardinality(MappersOf(pt, f)) >= 1 /\ Cardinality(MappersOf(pt, f)) \in Nat
  BY MapperCounts, MappersFinite
<1>4. ref[f] = Cardinality(MappersOf(pt, f)) + Extra(block, f)
  BY <1>2, Parts DEF Counted
<1>5. ref[f] >= 1 /\ (f \in {Zero, block} => ref[f] >= 2)
  BY <1>3, <1>4 DEF Extra
<1>6. f \in taken \cup {Zero}
  BY <1>2, <1>5, Names, Parts DEF InUse
<1>. QED  BY <1>1, <1>2, <1>5, <1>6

LEMMA Sole ==
  ASSUME CountInv,
         NEW p \in Proc, NEW v \in Page, pt[p][v] # NoPte, ref[pt[p][v].f] = 1,
         NEW q \in Proc, NEW w \in Page, pt[q][w].f = pt[p][v].f
  PROVE  p = q /\ v = w
<1>. DEFINE f == pt[p][v].f
<1>1. f \in AnyFrame
  BY MappedFrames
<1>2. ref[f] = Cardinality(MappersOf(pt, f)) + Extra(block, f)
  BY <1>1, Parts DEF Counted
<1>3. Cardinality(MappersOf(pt, f)) \in Nat /\ Extra(block, f) \in Nat
  BY MappersFinite DEF Extra
<1>4. Cardinality(MappersOf(pt, f)) <= 1
  BY <1>2, <1>3
<1>. HIDE DEF f
<1>5. pt[p][v].f = f /\ pt[q][w].f = f
  BY DEF f
<1>. QED  BY <1>4, <1>5, OneMapper

\* A frame that kmalloc has not given out is mapped nowhere.
LEMMA FreeFrames ==
  ASSUME CountInv, NEW f \in Frame, f \notin taken
  PROVE  /\ ref[f] = 0 /\ f \in AnyFrame /\ f # Zero /\ f # block
         /\ \A p \in Proc, v \in Page : pt[p][v].f # f
<1>1. f \in AnyFrame /\ f # Zero /\ f # None
  BY Names
<1>2. ref[f] = 0
  BY <1>1, Parts DEF InUse
<1>3. f # block
  BY <1>1, Parts
<1>4. ASSUME NEW p \in Proc, NEW v \in Page, pt[p][v].f = f
      PROVE  FALSE
  <2>1. pt[p][v] # NoPte
    BY <1>1, <1>4, Names
  <2>2. f \in taken \cup {Zero}
    BY <1>4, <2>1, MappedFrames
  <2>. QED  BY <1>1, <2>2
<1>. QED  BY <1>1, <1>2, <1>3, <1>4

\* The entry the hart uses.
LEMMA UsedEntry ==
  ASSUME PagingInv, NEW v \in Page, Entry(v) # NoPte
  PROVE  /\ pt[cur][v] # NoPte
         /\ Entry(v) \in PteType /\ Sane(Entry(v))
         /\ Entry(v).f = pt[cur][v].f /\ Entry(v).sh = pt[cur][v].sh
         /\ Entry(v).wr =>
              pt[cur][v].wr \/ (pt[cur][v].cow /\ ref[pt[cur][v].f] = 1)
<1>1. CountInv /\ StaleEntriesHarmless
  BY DEF PagingInv
<1>2. /\ cur \in Proc /\ pt[cur][v] \in PteType /\ tlb[v] \in PteType
      /\ Sane(pt[cur][v]) /\ Sane(tlb[v])
  BY <1>1, Parts DEF Table, SaneTables
<1>3. CASE tlb[v] = NoPte
  BY <1>2, <1>3 DEF Entry
<1>4. CASE tlb[v] # NoPte
  <2>1. /\ tlb[v].f = pt[cur][v].f /\ tlb[v].sh = pt[cur][v].sh
        /\ tlb[v].wr => pt[cur][v].wr \/ (pt[cur][v].cow /\ ref[pt[cur][v].f] = 1)
    BY <1>1, <1>4 DEF StaleEntriesHarmless
  <2>2. tlb[v].f # None
    BY <1>2, <1>4 DEF Sane
  <2>3. pt[cur][v] # NoPte
    BY <2>1, <2>2, Names
  <2>. QED  BY <1>2, <1>4, <2>1, <2>3 DEF Entry
<1>. QED  BY <1>3, <1>4

-----------------------------------------------------------------------------
\* What the steps that change one entry of the running process have in common:
\* e takes the place of the entry of v, and the counts follow.
Enters(v, e) ==
  /\ pt' = [pt EXCEPT ![cur][v] = e]
  /\ tlb' = [tlb EXCEPT ![v] = NoPte]
  /\ UNCHANGED <<block, cur, alive>>
  /\ ref' \in [AnyFrame -> Int]
  /\ \A f \in AnyFrame : ref'[f] = ref[f] - One(pt[cur][v].f, f) + One(e.f, f)
  /\ taken' \subseteq Frame /\ InUse(taken', ref')
  /\ data' \in [AnyFrame -> Val] /\ data'[Zero] = Blank

\* ... and the frames that the new entry may have.
Allowed(v, e) ==
  /\ e \in PteType /\ Sane(e)
  /\ \/ e.f \in {None, Zero, block, pt[cur][v].f}
     \/ e.f \in Frame \ taken
  /\ e.wr /\ ~e.sh => ref'[e.f] = 1 /\ e.f # Zero
  /\ e # NoPte => (e.sh <=> e.f = block)

LEMMA EnterTable ==
  ASSUME CountInv, NEW v \in Page, NEW e \in PteType, pt' = [pt EXCEPT ![cur][v] = e]
  PROVE  /\ pt' \in [Proc -> Table] /\ pt'[cur][v] = e
         /\ \A q \in Proc, w \in Page : q # cur \/ w # v => pt'[q][w] = pt[q][w]
BY Parts DEF Table

LEMMA EnterCount ==
  ASSUME CountInv, NEW v \in Page, NEW e, Enters(v, e), Allowed(v, e)
  PROVE  CountInv'
<1>1. e \in PteType /\ Sane(e) /\ pt' = [pt EXCEPT ![cur][v] = e]
  BY DEF Enters, Allowed
<1>2. /\ pt' \in [Proc -> Table] /\ pt'[cur][v] = e
      /\ \A q \in Proc, w \in Page : q # cur \/ w # v => pt'[q][w] = pt[q][w]
  BY <1>1, EnterTable
<1>3. SaneTables(pt')
  BY <1>1, <1>2, Parts DEF SaneTables
<1>4. tlb' \in Table /\ \A w \in Page : Sane(tlb'[w])
  <2>1. tlb' = [tlb EXCEPT ![v] = NoPte]
    BY DEF Enters
  <2>2. Sane(NoPte)
    BY Names DEF Sane
  <2>. QED  BY <2>1, <2>2, Parts, Names DEF Table
<1>5. OtherPages(pt, pt', cur, v)
  <2>1. \A q \in Proc : q # cur => pt'[q] = pt[q]
    BY <1>1, Parts DEF Table
  <2>. QED  BY <2>1, <1>2, Parts DEF OtherPages, OtherTables, DiffersAt
<1>6. ASSUME NEW f \in AnyFrame
      PROVE  ref'[f] = Cardinality(MappersOf(pt', f)) + Extra(block', f)
  <2>1. Cardinality(MappersOf(pt', f)) =
          Cardinality(MappersOf(pt, f)) - One(pt[cur][v].f, f) + One(pt'[cur][v].f, f)
    BY <1>5, EntryChange, Parts
  <2>2. ref[f] = Cardinality(MappersOf(pt, f)) + Extra(block, f)
    BY Parts DEF Counted
  <2>3. ref'[f] = ref[f] - One(pt[cur][v].f, f) + One(e.f, f) /\ block' = block
    BY DEF Enters
  <2>4. Cardinality(MappersOf(pt, f)) \in Nat
    BY MappersFinite
  <2>5. One(pt'[cur][v].f, f) = One(e.f, f)
    BY <1>2
  <2>6. /\ One(pt[cur][v].f, f) \in Nat /\ One(e.f, f) \in Nat
        /\ Extra(block, f) \in Nat
    BY DEF One, Extra
  <2>7. Extra(block', f) = Extra(block, f)
    BY <2>3
  <2>. QED  BY <2>1, <2>2, <2>3, <2>4, <2>5, <2>6, <2>7
<1>7. Counted(pt', ref', block')
  BY <1>6 DEF Counted
<1>8. /\ ref' \in [AnyFrame -> Int] /\ data' \in [AnyFrame -> Val]
      /\ taken' \subseteq Frame /\ InUse(taken', ref')
      /\ block' = block /\ cur' = cur /\ alive' = alive
  BY DEF Enters
<1>9. Dead'
  <2>1. \A q \in Proc : q # cur => pt'[q] = pt[q]
    BY <1>1, Parts DEF Table
  <2>. QED  BY <2>1, <1>8, Parts DEF Dead
<1>. QED  BY <1>2, <1>3, <1>4, <1>7, <1>8, <1>9, Parts, CountInvNext

\* Other entries that are alone with their frame stay so.
LEMMA EnterAlone ==
  ASSUME CountInv, NEW v \in Page, NEW e, Enters(v, e), Allowed(v, e),
         NEW q \in Proc, NEW w \in Page, q # cur \/ w # v,
         pt[q][w] # NoPte, ref[pt[q][w].f] = 1
  PROVE  ref'[pt[q][w].f] = 1
<1>. DEFINE f == pt[q][w].f
<1>1. f \in AnyFrame /\ f \in taken \cup {Zero} /\ f \notin {Zero, block}
  BY MappedFrames
<1>2. pt[cur][v].f # f
  BY Sole, Parts
<1>3. e.f # f
  BY <1>1, <1>2, Names DEF Allowed
<1>. HIDE DEF f
<1>4. ref'[f] = ref[f] - One(pt[cur][v].f, f) + One(e.f, f)
  BY <1>1 DEF Enters
<1>5. ref'[f] = ref[f]
  BY <1>1, <1>2, <1>3, <1>4, Parts DEF One
<1>. QED  BY <1>5 DEF f

LEMMA EnterStep ==
  ASSUME PagingInv, NEW v \in Page, NEW e, Enters(v, e), Allowed(v, e)
  PROVE  PagingInv'
<1>1. CountInv /\ WritableAlone /\ StaleEntriesHarmless
  BY DEF PagingInv
<1>2. CountInv'
  BY <1>1, EnterCount
<1>3. e \in PteType /\ pt' = [pt EXCEPT ![cur][v] = e]
  BY DEF Enters, Allowed
<1>4. /\ pt'[cur][v] = e
      /\ \A q \in Proc, w \in Page : q # cur \/ w # v => pt'[q][w] = pt[q][w]
  BY <1>1, <1>3, EnterTable
<1>5. block' = block /\ cur' = cur /\ cur \in Proc /\ data'[Zero] = Blank
  BY <1>1, Parts DEF Enters
<1>6. ASSUME NEW q \in Proc, NEW w \in Page
      PROVE  /\ pt'[q][w].wr /\ ~pt'[q][w].sh =>
                  ref'[pt'[q][w].f] = 1 /\ pt'[q][w].f # Zero
             /\ pt'[q][w] # NoPte => (pt'[q][w].sh <=> pt'[q][w].f = block')
  <2>1. CASE q = cur /\ w = v
    BY <1>4, <1>5, <2>1 DEF Allowed
  <2>2. CASE q # cur \/ w # v
    <3>1. pt'[q][w] = pt[q][w]
      BY <1>4, <2>2
    <3>2. /\ pt[q][w].wr /\ ~pt[q][w].sh => ref[pt[q][w].f] = 1 /\ pt[q][w].f # Zero
          /\ pt[q][w] # NoPte => (pt[q][w].sh <=> pt[q][w].f = block)
      BY <1>1 DEF WritableAlone
    <3>3. pt[q][w].wr => pt[q][w] # NoPte
      BY Names
    <3>4. pt[q][w] # NoPte /\ ref[pt[q][w].f] = 1 => ref'[pt[q][w].f] = 1
      BY <1>1, <2>2, EnterAlone
    <3>. QED  BY <1>5, <3>1, <3>2, <3>3, <3>4
  <2>. QED  BY <2>1, <2>2
<1>7. WritableAlone'
  BY <1>5, <1>6 DEF WritableAlone
<1>8. ASSUME NEW w \in Page, tlb'[w] # NoPte
      PROVE  /\ tlb'[w].f = pt'[cur'][w].f /\ tlb'[w].sh = pt'[cur'][w].sh
             /\ tlb'[w].wr => pt'[cur'][w].wr
                              \/ (pt'[cur'][w].cow /\ ref'[pt'[cur'][w].f] = 1)
  <2>1. tlb' = [tlb EXCEPT ![v] = NoPte] /\ tlb \in Table
    BY <1>1, Parts DEF Enters
  <2>2. w # v /\ tlb'[w] = tlb[w]
    BY <1>8, <2>1 DEF Table
  <2>3. pt'[cur'][w] = pt[cur][w]
    BY <1>4, <1>5, <2>2
  <2>4. /\ tlb[w].f = pt[cur][w].f /\ tlb[w].sh = pt[cur][w].sh
        /\ tlb[w].wr => pt[cur][w].wr \/ (pt[cur][w].cow /\ ref[pt[cur][w].f] = 1)
    BY <1>1, <1>8, <2>2 DEF StaleEntriesHarmless
  <2>5. pt[cur][w].cow => pt[cur][w] # NoPte
    BY Names
  <2>6. pt[cur][w] # NoPte /\ ref[pt[cur][w].f] = 1 => ref'[pt[cur][w].f] = 1
    BY <1>1, <1>5, <2>2, EnterAlone
  <2>. QED  BY <2>2, <2>3, <2>4, <2>5, <2>6
<1>9. StaleEntriesHarmless'
  BY <1>8 DEF StaleEntriesHarmless
<1>. QED  BY <1>2, <1>7, <1>9 DEF PagingInv

-----------------------------------------------------------------------------
\* The steps on one entry.
LEMMA InvParts ==
  ASSUME PagingInv
  PROVE  /\ CountInv
         /\ \A p \in Proc, v \in Page :
              /\ pt[p][v].wr /\ ~pt[p][v].sh => ref[pt[p][v].f] = 1 /\ pt[p][v].f # Zero
              /\ pt[p][v] # NoPte => (pt[p][v].sh <=> pt[p][v].f = block)
         /\ data[Zero] = Blank
         /\ \A v \in Page : tlb[v] # NoPte =>
              /\ tlb[v].f = pt[cur][v].f /\ tlb[v].sh = pt[cur][v].sh
              /\ tlb[v].wr => pt[cur][v].wr \/ (pt[cur][v].cow /\ ref[pt[cur][v].f] = 1)
BY DEF PagingInv, WritableAlone, StaleEntriesHarmless

LEMMA PteFields ==
  ASSUME NEW f, NEW wr \in BOOLEAN, NEW cow \in BOOLEAN, NEW sh \in BOOLEAN
  PROVE  /\ Pte(f, wr, cow, sh).f = f /\ Pte(f, wr, cow, sh).wr = wr
         /\ Pte(f, wr, cow, sh).cow = cow /\ Pte(f, wr, cow, sh).sh = sh
         /\ f \in AnyFrame => Pte(f, wr, cow, sh) \in PteType
         /\ f \in AnyFrame => Pte(f, wr, cow, sh) # NoPte
BY Names DEF Pte, PteType

LEMMA MapEnters ==
  ASSUME PagingInv, NEW v \in Page, NEW e, e.f \in AnyFrame, Map(v, e),
         UNCHANGED <<block, cur, alive>>,
         taken' \subseteq Frame, taken' \ {e.f} = taken \ {e.f},
         e.f \in Frame => e.f \in taken',
         data' \in [AnyFrame -> Val], data'[Zero] = Blank
  PROVE  Enters(v, e) /\ ref'[e.f] = ref[e.f] + 1
<1>1. CountInv
  BY InvParts
<1>2. /\ pt[cur][v] = NoPte /\ pt' = [pt EXCEPT ![cur][v] = e]
      /\ ref' = [ref EXCEPT ![e.f] = @ + 1] /\ tlb' = [tlb EXCEPT ![v] = NoPte]
  BY DEF Map, Invalidate
<1>3. ref \in [AnyFrame -> Nat] /\ InUse(taken, ref)
  BY <1>1, Parts
<1>4. /\ ref' \in [AnyFrame -> Int] /\ ref'[e.f] = ref[e.f] + 1
      /\ \A f \in AnyFrame : ref'[f] = ref[f] + One(e.f, f)
  BY <1>2, <1>3 DEF One
<1>5. \A f \in AnyFrame : One(pt[cur][v].f, f) = 0
  BY <1>2, Names DEF One
<1>6. \A f \in AnyFrame : ref'[f] = ref[f] - One(pt[cur][v].f, f) + One(e.f, f)
  BY <1>3, <1>4, <1>5 DEF One
<1>7. InUse(taken', ref')
  BY <1>3, <1>4, Names DEF InUse, One
<1>. QED  BY <1>2, <1>4, <1>6, <1>7 DEF Enters

LEMMA MapZeroStep ==
  ASSUME PagingInv, NEW v \in Page, MapZero(v)
  PROVE  PagingInv'
<1>. DEFINE e == Pte(Zero, FALSE, TRUE, FALSE)
<1>1. Map(v, e) /\ UNCHANGED <<data, taken, block, cur, alive>>
  BY DEF MapZero
<1>2. /\ e.f = Zero /\ ~e.wr /\ e.cow /\ ~e.sh /\ e \in PteType
  BY PteFields, Names
<1>3. CountInv /\ data[Zero] = Blank
  BY InvParts
<1>4. Zero # block /\ Zero # None
  BY <1>3, Parts, Names
<1>. HIDE DEF e
<1>5. Enters(v, e)
  BY <1>1, <1>2, <1>3, Parts, Names, MapEnters
<1>6. Allowed(v, e)
  BY <1>2, <1>4 DEF Allowed, Sane
<1>. QED  BY <1>5, <1>6, EnterStep

LEMMA BrkStep ==
  ASSUME PagingInv, NEW v \in Page, NEW f \in Frame, Brk(v, f)
  PROVE  PagingInv'
<1>. DEFINE e == Pte(f, TRUE, FALSE, FALSE)
<1>1. /\ Map(v, e) /\ UNCHANGED <<block, cur, alive>>
      /\ f \notin taken /\ taken' = taken \cup {f} /\ data' = [data EXCEPT ![f] = Blank]
  BY DEF Brk, Zeroed
<1>2. CountInv /\ data[Zero] = Blank
  BY InvParts
<1>3. ref[f] = 0 /\ f \in AnyFrame /\ f # Zero /\ f # block
  BY <1>1, <1>2, FreeFrames
<1>4. e.f = f /\ e.wr /\ ~e.cow /\ ~e.sh /\ e \in PteType
  BY <1>3, PteFields
<1>. HIDE DEF e
<1>5. /\ taken' \subseteq Frame /\ taken' \ {e.f} = taken \ {e.f} /\ e.f \in taken'
      /\ data' \in [AnyFrame -> Val] /\ data'[Zero] = Blank
  BY <1>1, <1>2, <1>3, <1>4, Parts, Names
<1>6. Enters(v, e) /\ ref'[e.f] = ref[e.f] + 1
  BY <1>1, <1>3, <1>4, <1>5, MapEnters
<1>7. ref'[e.f] = 1 /\ f # None
  BY <1>3, <1>4, <1>6, Names
<1>8. Allowed(v, e)
  BY <1>1, <1>3, <1>4, <1>7 DEF Allowed, Sane
<1>. QED  BY <1>6, <1>8, EnterStep

LEMMA MapFileStep ==
  ASSUME PagingInv, NEW v \in Page, NEW rw \in BOOLEAN, MapFile(v, rw)
  PROVE  PagingInv'
<1>. DEFINE e == Pte(block, rw, FALSE, TRUE)
<1>1. Map(v, e) /\ UNCHANGED <<data, taken, block, cur, alive>> /\ block # None
  BY DEF MapFile
<1>2. CountInv /\ data[Zero] = Blank
  BY InvParts
<1>3. block \in taken /\ block \in AnyFrame /\ block # Zero
  BY <1>1, <1>2, Parts, Names
<1>4. e.f = block /\ ~e.cow /\ e.sh /\ e \in PteType
  BY <1>3, PteFields
<1>. HIDE DEF e
<1>5. Enters(v, e)
  BY <1>1, <1>2, <1>3, <1>4, Parts, MapEnters
<1>6. Allowed(v, e)
  BY <1>1, <1>4 DEF Allowed, Sane
<1>. QED  BY <1>5, <1>6, EnterStep

LEMMA UnmapStep ==
  ASSUME PagingInv, NEW v \in Page, Unmap(v)
  PROVE  PagingInv'
<1>. DEFINE g == pt[cur][v].f
<1>1. /\ pt[cur][v] # NoPte /\ pt' = [pt EXCEPT ![cur][v] = NoPte]
      /\ ref' = [ref EXCEPT ![g] = @ - 1]
      /\ taken' = IF pt[cur][v].sh THEN taken ELSE Kept(ref')
      /\ tlb' = [tlb EXCEPT ![v] = NoPte] /\ UNCHANGED <<data, block, cur, alive>>
  BY DEF Unmap, Invalidate
<1>2. CountInv /\ data[Zero] = Blank /\ (pt[cur][v].sh <=> g = block)
  BY <1>1, InvParts, Parts
<1>3. /\ g \in AnyFrame /\ ref[g] >= 1 /\ g \in taken \cup {Zero}
      /\ g \in {Zero, block} => ref[g] >= 2
  BY <1>1, <1>2, MappedFrames, Parts
<1>4. /\ ref \in [AnyFrame -> Nat] /\ InUse(taken, ref) /\ taken \subseteq Frame
      /\ data \in [AnyFrame -> Val]
  BY <1>2, Parts
<1>. HIDE DEF g
<1>5. /\ ref' \in [AnyFrame -> Int]
      /\ \A f \in AnyFrame : ref'[f] = ref[f] - One(g, f) /\ ref'[f] >= 0
  BY <1>1, <1>3, <1>4 DEF One
<1>6. \A f \in AnyFrame : One(NoPte.f, f) = 0
  BY Names DEF One
<1>7. \A f \in AnyFrame : ref'[f] = ref[f] - One(pt[cur][v].f, f) + One(NoPte.f, f)
  BY <1>4, <1>5, <1>6 DEF One, g
<1>8. taken' \subseteq Frame /\ InUse(taken', ref')
  <2>1. CASE pt[cur][v].sh
    <3>1. taken' = taken /\ g = block /\ ref[g] >= 2
      BY <1>1, <1>2, <1>3, <2>1
    <3>2. \A f \in AnyFrame : ref'[f] > 0 <=> ref[f] > 0
      BY <1>3, <1>4, <1>5, <3>1 DEF One
    <3>. QED  BY <1>4, <3>1, <3>2, Names DEF InUse
  <2>2. CASE ~pt[cur][v].sh
    <3>1. taken' = {f \in taken : ref'[f] # 0}
      BY <1>1, <2>2 DEF Kept
    <3>2. \A f \in AnyFrame : ref'[f] > 0 => ref[f] > 0
      BY <1>4, <1>5 DEF One
    <3>3. \A f \in Frame : ref'[f] # 0 <=> ref'[f] > 0
      BY <1>5, Names
    <3>. QED  BY <1>4, <3>1, <3>2, <3>3, Names DEF InUse
  <2>. QED  BY <2>1, <2>2
<1>9. Enters(v, NoPte)
  BY <1>1, <1>2, <1>4, <1>5, <1>7, <1>8 DEF Enters
<1>10. Allowed(v, NoPte)
  BY Names DEF Allowed, Sane
<1>. QED  BY <1>9, <1>10, EnterStep

\* The entry of a copy-on-write fault.
LEMMA CowEntry ==
  ASSUME PagingInv, NEW v \in Page, CowFault(v)
  PROVE  /\ pt[cur][v] # NoPte /\ ~pt[cur][v].sh /\ pt[cur][v].cow /\ ~pt[cur][v].wr
         /\ pt[cur][v].f \in AnyFrame /\ pt[cur][v].f # block
         /\ ref[pt[cur][v].f] \in Nat \ {0} /\ pt[cur][v].f \in taken \cup {Zero}
         /\ pt[cur][v].f = Zero => ref[pt[cur][v].f] >= 2
         /\ Entry(v).f = pt[cur][v].f
<1>1. CountInv /\ Entry(v) # NoPte /\ pt[cur][v].cow
  BY InvParts DEF CowFault
<1>2. cur \in Proc /\ pt[cur][v] # NoPte /\ Entry(v).f = pt[cur][v].f
  BY <1>1, UsedEntry, Parts
<1>3. /\ pt[cur][v] \in PteType /\ pt[cur][v].f \in AnyFrame
      /\ ref[pt[cur][v].f] >= 1 /\ pt[cur][v].f \in taken \cup {Zero}
      /\ pt[cur][v].f \in {Zero, block} => ref[pt[cur][v].f] >= 2
  BY <1>1, <1>2, MappedFrames
<1>4. Sane(pt[cur][v])
  BY <1>1, <1>2, Parts DEF SaneTables
<1>5. ~pt[cur][v].sh /\ ~pt[cur][v].wr
  BY <1>1, <1>4 DEF Sane
<1>6. pt[cur][v].f # block
  BY <1>2, <1>5, InvParts
<1>7. ref[pt[cur][v].f] \in Nat
  BY <1>1, <1>3, Parts
<1>. QED  BY <1>1, <1>2, <1>3, <1>5, <1>6, <1>7

LEMMA CowInPlaceStep ==
  ASSUME PagingInv, NEW v \in Page, CowInPlace(v)
  PROVE  PagingInv'
<1>. DEFINE g == pt[cur][v].f
            e == Pte(g, TRUE, FALSE, FALSE)
<1>1. /\ CowFault(v) /\ ref[g] = 1
      /\ pt' = [pt EXCEPT ![cur][v] = e] /\ tlb' = [tlb EXCEPT ![v] = NoPte]
      /\ UNCHANGED <<ref, data, taken, block, cur, alive>>
  BY DEF CowInPlace, Alone, Resolved, Invalidate
<1>2. /\ g \in AnyFrame /\ g # block /\ (g = Zero => ref[g] >= 2)
      /\ CountInv /\ data[Zero] = Blank
  BY <1>1, CowEntry, InvParts
<1>3. e.f = g /\ e.wr /\ ~e.cow /\ ~e.sh /\ e \in PteType
  BY <1>2, PteFields
<1>4. g # Zero /\ g # None
  BY <1>1, <1>2, Names
<1>5. pt[cur][v].f = g
  OBVIOUS
<1>. HIDE DEF g, e
<1>6. \A f \in AnyFrame : ref'[f] = ref[f] - One(pt[cur][v].f, f) + One(e.f, f)
  <2>1. ref' = ref /\ ref \in [AnyFrame -> Nat] /\ pt[cur][v].f = e.f
    BY <1>1, <1>2, <1>3, <1>5, Parts
  <2>2. \A f \in AnyFrame : One(e.f, f) \in Nat
    BY DEF One
  <2>. QED  BY <2>1, <2>2
<1>7. /\ ref' \in [AnyFrame -> Int] /\ taken' \subseteq Frame /\ InUse(taken', ref')
      /\ data' \in [AnyFrame -> Val] /\ data'[Zero] = Blank
  BY <1>1, <1>2, Parts
<1>8. Enters(v, e)
  BY <1>1, <1>6, <1>7 DEF Enters
<1>9. Allowed(v, e)
  BY <1>1, <1>2, <1>3, <1>4, <1>5 DEF Allowed, Sane
<1>. QED  BY <1>8, <1>9, EnterStep

LEMMA CowCopyStep ==
  ASSUME PagingInv, NEW v \in Page, NEW f \in Frame, CowCopy(v, f)
  PROVE  PagingInv'
<1>. DEFINE g == pt[cur][v].f
            e == Pte(f, TRUE, FALSE, FALSE)
<1>1. /\ CowFault(v) /\ ref[g] # 1 /\ f \notin taken /\ taken' = taken \cup {f}
      /\ data' = [data EXCEPT ![f] = data[Entry(v).f]]
      /\ ref' = [ref EXCEPT ![f] = @ + 1, ![g] = @ - 1]
      /\ pt' = [pt EXCEPT ![cur][v] = e] /\ tlb' = [tlb EXCEPT ![v] = NoPte]
      /\ UNCHANGED <<block, cur, alive>>
  BY DEF CowCopy, Alone, Resolved, Invalidate, Moved
<1>2. /\ g \in AnyFrame /\ ref[g] \in Nat \ {0} /\ Entry(v).f = g
      /\ CountInv /\ data[Zero] = Blank
  BY <1>1, CowEntry, InvParts
<1>3. /\ ref[f] = 0 /\ f \in AnyFrame /\ f # Zero /\ f # block /\ f # None /\ f # g
  BY <1>1, <1>2, FreeFrames, Names, Parts
<1>4. e.f = f /\ e.wr /\ ~e.cow /\ ~e.sh /\ e \in PteType
  BY <1>3, PteFields
<1>5. pt[cur][v].f = g
  OBVIOUS
<1>. HIDE DEF g, e
<1>6. /\ ref \in [AnyFrame -> Nat] /\ InUse(taken, ref) /\ taken \subseteq Frame
      /\ data \in [AnyFrame -> Val]
  BY <1>2, Parts
<1>7. /\ ref' \in [AnyFrame -> Int] /\ ref'[f] = 1
      /\ \A h \in AnyFrame : ref'[h] = ref[h] - One(g, h) + One(f, h)
  BY <1>1, <1>2, <1>3, <1>6 DEF One
<1>8. \A h \in AnyFrame : ref'[h] = ref[h] - One(pt[cur][v].f, h) + One(e.f, h)
  BY <1>4, <1>5, <1>7
<1>9. taken' \subseteq Frame /\ InUse(taken', ref')
  <2>1. \A h \in AnyFrame : h # f => (ref'[h] > 0 <=> ref[h] > 0)
    BY <1>1, <1>2, <1>6, <1>7 DEF One
  <2>. QED  BY <1>1, <1>3, <1>6, <1>7, <2>1, Names DEF InUse
<1>10. data' \in [AnyFrame -> Val] /\ data'[Zero] = Blank
  BY <1>1, <1>2, <1>3, <1>6
<1>11. Enters(v, e)
  BY <1>1, <1>7, <1>8, <1>9, <1>10 DEF Enters
<1>12. Allowed(v, e)
  BY <1>1, <1>3, <1>4, <1>7 DEF Allowed, Sane
<1>. QED  BY <1>11, <1>12, EnterStep

-----------------------------------------------------------------------------
\* The steps that leave entries and counts alone.
LEMMA CountInvSame ==
  ASSUME PagingInv, UNCHANGED <<pt, ref, taken, block, alive>>,
         data' \in [AnyFrame -> Val], data'[Zero] = Blank,
         cur' \in alive, tlb' \in Table, \A v \in Page : Sane(tlb'[v])
  PROVE  CountInv' /\ WritableAlone'
<1>1. CountInv /\ WritableAlone
  BY DEF PagingInv
<1>2. /\ pt \in [Proc -> Table] /\ ref \in [AnyFrame -> Int] /\ taken \subseteq Frame
      /\ block \in Frame \cup {None} /\ alive \subseteq Proc
      /\ SaneTables(pt) /\ Counted(pt, ref, block) /\ InUse(taken, ref) /\ Dead
  BY <1>1, Parts
<1>3. Dead'
  BY <1>2 DEF Dead
<1>4. SaneTables(pt') /\ Counted(pt', ref', block') /\ InUse(taken', ref')
  BY <1>2 DEF SaneTables, Counted, InUse
<1>5. CountInv'
  BY <1>2, <1>3, <1>4, CountInvNext
<1>6. WritableAlone'
  BY <1>1 DEF WritableAlone
<1>. QED  BY <1>5, <1>6

LEMMA StoreStep ==
  ASSUME PagingInv, NEW v \in Page, NEW x \in Val, Store(v, x)
  PROVE  PagingInv'
<1>. DEFINE g == Entry(v).f
<1>1. /\ Entry(v).wr /\ data' = [data EXCEPT ![g] = x]
      /\ tlb' = tlb \/ tlb' = [tlb EXCEPT ![v] = Entry(v)]
      /\ UNCHANGED <<pt, ref, taken, block, cur, alive>>
  BY DEF Store
<1>2. Entry(v) # NoPte
  BY <1>1, Names
<1>3. /\ pt[cur][v] # NoPte /\ Entry(v) \in PteType /\ Sane(Entry(v))
      /\ g = pt[cur][v].f /\ Entry(v).sh = pt[cur][v].sh
      /\ Entry(v).wr => pt[cur][v].wr \/ (pt[cur][v].cow /\ ref[pt[cur][v].f] = 1)
  BY <1>2, UsedEntry
<1>4. CountInv /\ data[Zero] = Blank
  BY InvParts
<1>5. /\ data \in [AnyFrame -> Val] /\ tlb \in Table /\ cur \in alive /\ cur \in Proc
      /\ \A w \in Page : Sane(tlb[w])
  BY <1>4, Parts
<1>6. g \in AnyFrame /\ (g \in {Zero, block} => ref[g] >= 2)
  BY <1>3, <1>4, <1>5, MappedFrames
<1>7. g # Zero
  <2>1. CASE pt[cur][v].sh
    <3>1. g = block
      BY <1>3, <1>5, <2>1, InvParts
    <3>. QED  BY <1>4, <3>1, Parts, Names
  <2>2. CASE ~pt[cur][v].sh
    <3>1. pt[cur][v].wr => ref[g] = 1
      BY <1>3, <1>5, <2>2, InvParts
    <3>. QED  BY <1>1, <1>3, <1>6, <3>1
  <2>. QED  BY <2>1, <2>2
<1>. HIDE DEF g
<1>8. data' \in [AnyFrame -> Val] /\ data'[Zero] = Blank
  BY <1>1, <1>4, <1>5, <1>6, <1>7
<1>9. tlb' \in Table /\ \A w \in Page : Sane(tlb'[w])
  BY <1>1, <1>3, <1>5 DEF Table
<1>10. CountInv' /\ WritableAlone'
  BY <1>1, <1>5, <1>8, <1>9, CountInvSame
<1>11. ASSUME NEW w \in Page, tlb'[w] # NoPte
       PROVE  /\ tlb'[w].f = pt'[cur'][w].f /\ tlb'[w].sh = pt'[cur'][w].sh
              /\ tlb'[w].wr => pt'[cur'][w].wr
                               \/ (pt'[cur'][w].cow /\ ref'[pt'[cur'][w].f] = 1)
  <2>1. CASE tlb'[w] = tlb[w]
    BY <1>1, <1>11, <2>1, InvParts
  <2>2. CASE w = v /\ tlb'[w] = Entry(v)
    BY <1>1, <1>3, <2>2 DEF g
  <2>. QED  BY <1>1, <1>5, <2>1, <2>2 DEF Table
<1>12. StaleEntriesHarmless'
  BY <1>11 DEF StaleEntriesHarmless
<1>. QED  BY <1>10, <1>12 DEF PagingInv

LEMMA LoadStep ==
  ASSUME PagingInv, NEW v \in Page, Load(v)
  PROVE  PagingInv'
<1>1. /\ tlb' = [tlb EXCEPT ![v] = pt[cur][v]]
      /\ UNCHANGED <<pt, ref, data, taken, block, cur, alive>>
  BY DEF Load
<1>2. CountInv /\ data[Zero] = Blank
  BY InvParts
<1>3. /\ data \in [AnyFrame -> Val] /\ tlb \in Table /\ cur \in alive /\ cur \in Proc
      /\ (\A w \in Page : Sane(tlb[w])) /\ SaneTables(pt) /\ pt \in [Proc -> Table]
  BY <1>2, Parts
<1>4. tlb' \in Table /\ \A w \in Page : Sane(tlb'[w])
  BY <1>1, <1>3 DEF Table, SaneTables
<1>5. CountInv' /\ WritableAlone'
  BY <1>1, <1>2, <1>3, <1>4, CountInvSame
<1>6. ASSUME NEW w \in Page, tlb'[w] # NoPte
      PROVE  /\ tlb'[w].f = pt'[cur'][w].f /\ tlb'[w].sh = pt'[cur'][w].sh
             /\ tlb'[w].wr => pt'[cur'][w].wr
                              \/ (pt'[cur'][w].cow /\ ref'[pt'[cur'][w].f] = 1)
  <2>1. CASE w # v
    <3>1. tlb'[w] = tlb[w]
      BY <1>1, <1>3, <2>1 DEF Table
    <3>. QED  BY <1>1, <1>6, <3>1, InvParts
  <2>2. CASE w = v
    BY <1>1, <1>3, <2>2 DEF Table
  <2>. QED  BY <2>1, <2>2
<1>7. StaleEntriesHarmless'
  BY <1>6 DEF StaleEntriesHarmless
<1>. QED  BY <1>5, <1>7 DEF PagingInv

LEMMA FlushedHarmless ==
  ASSUME Flush
  PROVE  /\ StaleEntriesHarmless' /\ tlb' \in Table
         /\ \A w \in Page : Sane(tlb'[w])
<1>1. tlb' = NoPtes /\ \A w \in Page : tlb'[w] = NoPte
  BY Names DEF Flush
<1>. QED  BY <1>1, Names DEF StaleEntriesHarmless, Sane

LEMMA SwitchStep ==
  ASSUME PagingInv, NEW q \in Proc, Switch(q)
  PROVE  PagingInv'
<1>1. cur' \in alive /\ Flush /\ UNCHANGED <<pt, ref, data, taken, block, alive>>
  BY DEF Switch
<1>2. data \in [AnyFrame -> Val] /\ data[Zero] = Blank
  BY InvParts, Parts
<1>3. StaleEntriesHarmless' /\ tlb' \in Table /\ \A w \in Page : Sane(tlb'[w])
  BY <1>1, FlushedHarmless
<1>4. CountInv' /\ WritableAlone'
  BY <1>1, <1>2, <1>3, CountInvSame
<1>. QED  BY <1>3, <1>4 DEF PagingInv

\* The same invariants, from facts about single entries.
LEMMA InvNext ==
  ASSUME CountInv', data'[Zero] = Blank,
         \A p \in Proc, v \in Page :
           /\ pt'[p][v].wr /\ ~pt'[p][v].sh => ref'[pt'[p][v].f] = 1 /\ pt'[p][v].f # Zero
           /\ pt'[p][v] # NoPte => (pt'[p][v].sh <=> pt'[p][v].f = block'),
         \A v \in Page : tlb'[v] # NoPte =>
           /\ tlb'[v].f = pt'[cur'][v].f /\ tlb'[v].sh = pt'[cur'][v].sh
           /\ tlb'[v].wr => pt'[cur'][v].wr
                            \/ (pt'[cur'][v].cow /\ ref'[pt'[cur'][v].f] = 1)
  PROVE  PagingInv'
<1>1. WritableAlone'
  BY DEF WritableAlone
<1>2. StaleEntriesHarmless'
  BY DEF StaleEntriesHarmless
<1>. QED  BY <1>1, <1>2 DEF PagingInv

LEMMA WriteFileStep ==
  ASSUME PagingInv, NEW x \in Val, NEW f \in Frame, WriteFile(x, f)
  PROVE  PagingInv'
<1>1. CountInv /\ data[Zero] = Blank
  BY InvParts
<1>2. /\ data' = [data EXCEPT ![f] = x] /\ UNCHANGED <<pt, cur, tlb, alive>>
  BY DEF WriteFile
<1>3. /\ pt \in [Proc -> Table] /\ ref \in [AnyFrame -> Nat]
      /\ data \in [AnyFrame -> Val] /\ taken \subseteq Frame
      /\ cur \in alive /\ cur \in Proc /\ alive \subseteq Proc /\ tlb \in Table
      /\ SaneTables(pt) /\ (\A v \in Page : Sane(tlb[v]))
      /\ Counted(pt, ref, block) /\ InUse(taken, ref) /\ Dead
      /\ block \in Frame \cup {None}
  BY <1>1, Parts
<1>4. data' \in [AnyFrame -> Val] /\ data'[Zero] = Blank
  BY <1>1, <1>2, <1>3, Names
<1>5. CASE block # None
  <2>1. UNCHANGED <<ref, taken, block>>
    BY <1>5 DEF WriteFile
  <2>2. CountInv' /\ WritableAlone'
    BY <1>2, <1>3, <1>4, <2>1, CountInvSame
  <2>3. StaleEntriesHarmless'
    BY <1>2, <2>1 DEF PagingInv, StaleEntriesHarmless
  <2>. QED  BY <2>2, <2>3 DEF PagingInv
<1>6. CASE block = None
  <2>1. /\ f \notin taken /\ taken' = taken \cup {f} /\ block' = f
        /\ ref' = [ref EXCEPT ![f] = @ + 1]
    BY <1>6 DEF WriteFile
  <2>2. /\ ref[f] = 0 /\ f \in AnyFrame /\ f # Zero /\ f # None
        /\ \A p \in Proc, v \in Page : pt[p][v].f # f
    BY <1>1, <2>1, FreeFrames, Names
  <2>3. /\ ref' \in [AnyFrame -> Int] /\ ref'[f] = 1
        /\ \A g \in AnyFrame : g # f => ref'[g] = ref[g]
    BY <1>3, <2>1, <2>2
  <2>4. Counted(pt', ref', block')
    <3>1. SUFFICES ASSUME NEW g \in AnyFrame
                   PROVE  ref'[g] = Cardinality(MappersOf(pt', g)) + Extra(block', g)
      BY DEF Counted
    <3>2. ref[g] = Cardinality(MappersOf(pt, g)) + Extra(block, g)
      BY <1>3 DEF Counted
    <3>3. Cardinality(MappersOf(pt, g)) \in Nat /\ MappersOf(pt', g) = MappersOf(pt, g)
      BY <1>2, MappersFinite
    <3>4. CASE g = f
      BY <1>6, <2>1, <2>2, <2>3, <3>2, <3>3, <3>4 DEF Extra
    <3>5. CASE g # f
      <4>1. g # None
        BY Names
      <4>. QED  BY <1>6, <2>1, <2>3, <3>2, <3>3, <3>5, <4>1 DEF Extra
    <3>. QED  BY <3>4, <3>5
  <2>5. taken' \subseteq Frame /\ InUse(taken', ref')
    BY <1>3, <2>1, <2>3, Names DEF InUse
  <2>6. SaneTables(pt') /\ Dead'
    BY <1>2, <1>3 DEF SaneTables, Dead
  <2>7. CountInv'
    BY <1>2, <1>3, <1>4, <2>1, <2>3, <2>4, <2>5, <2>6, CountInvNext
  <2>8. \A p \in Proc, v \in Page : pt[p][v] # NoPte => ref'[pt[p][v].f] = ref[pt[p][v].f]
    BY <1>1, <2>2, <2>3, MappedFrames
  <2>9. ASSUME NEW p \in Proc, NEW v \in Page
        PROVE  /\ pt'[p][v].wr /\ ~pt'[p][v].sh =>
                    ref'[pt'[p][v].f] = 1 /\ pt'[p][v].f # Zero
               /\ pt'[p][v] # NoPte => (pt'[p][v].sh <=> pt'[p][v].f = block')
    <3>1. pt[p][v].wr => pt[p][v] # NoPte
      BY Names
    <3>2. pt[p][v] # NoPte => ~pt[p][v].sh
      <4>1. pt[p][v] # NoPte => pt[p][v].f # None
        BY <1>1, MappedFrames, Names
      <4>. QED  BY <1>6, <4>1, InvParts
    <3>. QED  BY <1>2, <2>1, <2>2, <2>8, <3>1, <3>2, InvParts
  <2>10. ASSUME NEW v \in Page, tlb'[v] # NoPte
         PROVE  /\ tlb'[v].f = pt'[cur'][v].f /\ tlb'[v].sh = pt'[cur'][v].sh
                /\ tlb'[v].wr => pt'[cur'][v].wr
                                 \/ (pt'[cur'][v].cow /\ ref'[pt'[cur'][v].f] = 1)
    <3>1. pt[cur][v].cow => pt[cur][v] # NoPte
      BY Names
    <3>2. pt[cur][v] # NoPte => ref'[pt[cur][v].f] = ref[pt[cur][v].f]
      BY <1>3, <2>8
    <3>. QED  BY <1>2, <2>10, <3>1, <3>2, InvParts
  <2>. QED  BY <1>4, <2>7, <2>9, <2>10, InvNext
<1>. QED  BY <1>5, <1>6

-----------------------------------------------------------------------------
\* The steps on whole tables.
LEMMA NotMine ==
  ASSUME CountInv, NEW p \in Proc, NEW v \in Page, p # cur, pt[p][v] # NoPte,
         ref[pt[p][v].f] = 1
  PROVE  Maps(pt[cur], pt[p][v].f) = 0
<1>1. cur \in Proc
  BY Parts
<1>2. \A w \in Page : pt[cur][w].f # pt[p][v].f
  BY <1>1, Sole
<1>3. PagesOf(pt[cur], pt[p][v].f) = {}
  BY <1>2 DEF PagesOf
<1>. QED  BY <1>3, MapsType, FS_EmptySet

LEMMA MineCounted ==
  ASSUME CountInv, NEW f \in AnyFrame
  PROVE  /\ Maps(pt[cur], f) \in Nat /\ Maps(pt[cur], f) <= ref[f]
         /\ f = block => ref[f] - Maps(pt[cur], f) >= 1
<1>1. cur \in Proc /\ OtherTables(pt, pt, cur)
  BY Parts DEF OtherTables
<1>2. Maps(pt[cur], f) <= Cardinality(MappersOf(pt, f))
  BY <1>1, TableChange
<1>3. Maps(pt[cur], f) \in Nat /\ Cardinality(MappersOf(pt, f)) \in Nat
  BY MapsType, MappersFinite
<1>4. ref[f] = Cardinality(MappersOf(pt, f)) + Extra(block, f)
  BY Parts DEF Counted
<1>. QED  BY <1>2, <1>3, <1>4 DEF Extra

\* r takes the place of the running process's table: execve, and the end.
Replaces(r) ==
  /\ pt' = [pt EXCEPT ![cur] = r] /\ tlb' = NoPtes /\ block' = block
  /\ ref' \in [AnyFrame -> Int]
  /\ \A f \in AnyFrame : ref'[f] = ref[f] - Maps(pt[cur], f) + Maps(r, f)
  /\ taken' \subseteq Frame /\ InUse(taken', ref')
  /\ data' \in [AnyFrame -> Val] /\ data'[Zero] = Blank

Fresh(r) ==
  \A v \in Page : r[v] # NoPte =>
    /\ r[v] \in PteType /\ Sane(r[v]) /\ ~r[v].sh
    /\ r[v].f \in Frame \ taken /\ ref'[r[v].f] = 1

LEMMA ReplaceStep ==
  ASSUME PagingInv, NEW r \in Table, Replaces(r), Fresh(r),
         cur' \in alive', alive' \subseteq Proc, Dead'
  PROVE  PagingInv'
<1>1. CountInv /\ data'[Zero] = Blank
  BY InvParts DEF Replaces
<1>2. /\ pt' = [pt EXCEPT ![cur] = r] /\ tlb' = NoPtes /\ block' = block
      /\ ref' \in [AnyFrame -> Int] /\ taken' \subseteq Frame /\ InUse(taken', ref')
      /\ data' \in [AnyFrame -> Val]
  BY DEF Replaces
<1>3. /\ cur \in Proc /\ pt \in [Proc -> Table] /\ block \in Frame \cup {None}
      /\ block \in taken \cup {None} /\ SaneTables(pt)
  BY <1>1, Parts
<1>4. /\ pt' \in [Proc -> Table] /\ pt'[cur] = r
      /\ \A p \in Proc : p # cur => pt'[p] = pt[p]
  BY <1>2, <1>3
<1>5. OtherTables(pt, pt', cur)
  BY <1>4 DEF OtherTables
<1>6. Counted(pt', ref', block')
  <2>1. SUFFICES ASSUME NEW f \in AnyFrame
                 PROVE  ref'[f] = Cardinality(MappersOf(pt', f)) + Extra(block', f)
    BY DEF Counted
  <2>2. Cardinality(MappersOf(pt', f)) =
          Cardinality(MappersOf(pt, f)) - Maps(pt[cur], f) + Maps(pt'[cur], f)
    BY <1>3, <1>5, TableChange
  <2>3. ref[f] = Cardinality(MappersOf(pt, f)) + Extra(block, f)
    BY <1>1, Parts DEF Counted
  <2>4. ref'[f] = ref[f] - Maps(pt[cur], f) + Maps(r, f)
    BY DEF Replaces
  <2>5. /\ Cardinality(MappersOf(pt, f)) \in Nat /\ Maps(pt[cur], f) \in Nat
        /\ Maps(r, f) \in Nat /\ Extra(block, f) \in Nat
    BY MappersFinite, MapsType DEF Extra
  <2>6. Maps(pt'[cur], f) = Maps(r, f) /\ Extra(block', f) = Extra(block, f)
    BY <1>2, <1>4
  <2>. QED  BY <2>2, <2>3, <2>4, <2>5, <2>6
<1>7. Sane(NoPte)
  BY Names DEF Sane
<1>8. SaneTables(pt')
  BY <1>3, <1>4, <1>7 DEF SaneTables, Fresh
<1>9. tlb' \in Table /\ \A v \in Page : Sane(tlb'[v]) /\ tlb'[v] = NoPte
  BY <1>2, <1>7, Names
<1>10. CountInv'
  BY <1>2, <1>3, <1>4, <1>6, <1>8, <1>9, CountInvNext
<1>11. ASSUME NEW p \in Proc, NEW v \in Page
       PROVE  /\ pt'[p][v].wr /\ ~pt'[p][v].sh =>
                   ref'[pt'[p][v].f] = 1 /\ pt'[p][v].f # Zero
              /\ pt'[p][v] # NoPte => (pt'[p][v].sh <=> pt'[p][v].f = block')
  <2>1. CASE p = cur
    <3>1. pt'[p][v] = r[v] /\ (r[v].wr => r[v] # NoPte)
      BY <1>4, <2>1, Names
    <3>2. r[v] # NoPte => /\ ~r[v].sh /\ ref'[r[v].f] = 1
                          /\ r[v].f # Zero /\ r[v].f # block
      BY <1>3, Names DEF Fresh
    <3>. QED  BY <1>2, <3>1, <3>2
  <2>2. CASE p # cur
    <3>1. pt'[p][v] = pt[p][v] /\ (pt[p][v].wr => pt[p][v] # NoPte)
      BY <1>4, <2>2, Names
    <3>2. /\ pt[p][v].wr /\ ~pt[p][v].sh => ref[pt[p][v].f] = 1 /\ pt[p][v].f # Zero
          /\ pt[p][v] # NoPte => (pt[p][v].sh <=> pt[p][v].f = block)
      BY InvParts
    <3>3. ASSUME pt[p][v] # NoPte, ref[pt[p][v].f] = 1
          PROVE  ref'[pt[p][v].f] = 1
      <4>. DEFINE f == pt[p][v].f
      <4>1. f \in AnyFrame /\ f \in taken \cup {Zero}
        BY <1>1, <3>3, MappedFrames
      <4>2. Maps(pt[cur], f) = 0
        BY <1>1, <2>2, <3>3, NotMine
      <4>. HIDE DEF f
      <4>3. \A w \in Page : r[w].f # f
        <5>1. f # None /\ f # NoPte.f
          BY <4>1, Names
        <5>2. f = Zero => ref[f] >= 2
          BY <1>1, <3>3, MappedFrames DEF f
        <5>3. f # Zero
          BY <3>3, <5>2 DEF f
        <5>. QED  BY <4>1, <5>1, <5>3 DEF Fresh
      <4>4. PagesOf(r, f) = {}
        BY <4>3 DEF PagesOf
      <4>5. Maps(r, f) = 0
        BY <4>4, MapsType, FS_EmptySet
      <4>6. ref'[f] = ref[f] - Maps(pt[cur], f) + Maps(r, f)
        BY <4>1 DEF Replaces
      <4>7. ref[f] = 1
        BY <3>3 DEF f
      <4>8. ref'[f] = 1
        BY <4>2, <4>5, <4>6, <4>7
      <4>. QED  BY <4>8 DEF f
    <3>. QED  BY <1>2, <3>1, <3>2, <3>3
  <2>. QED  BY <2>1, <2>2
<1>. QED  BY <1>1, <1>9, <1>10, <1>11, InvNext

LEMMA ExitStep ==
  ASSUME PagingInv, NEW q \in Proc, Exit(q)
  PROVE  PagingInv'
<1>1. /\ q \in alive /\ q # cur /\ cur' = q /\ alive' = alive \ {cur}
      /\ pt' = [pt EXCEPT ![cur] = NoPtes] /\ taken' = Kept(ref') /\ tlb' = NoPtes
      /\ ref' = [f \in AnyFrame |-> ref[f] - Maps(pt[cur], f)]
      /\ UNCHANGED <<data, block>>
  BY DEF Exit, Flush, Without
<1>2. CountInv /\ data[Zero] = Blank
  BY InvParts
<1>3. /\ pt \in [Proc -> Table] /\ ref \in [AnyFrame -> Nat] /\ taken \subseteq Frame
      /\ data \in [AnyFrame -> Val] /\ cur \in Proc /\ alive \subseteq Proc
      /\ InUse(taken, ref) /\ Dead
  BY <1>2, Parts
<1>4. \A f \in AnyFrame : Maps(pt[cur], f) \in Nat /\ Maps(pt[cur], f) <= ref[f]
  BY <1>2, MineCounted
<1>5. /\ ref' \in [AnyFrame -> Int]
      /\ \A f \in AnyFrame : /\ ref'[f] = ref[f] - Maps(pt[cur], f)
                             /\ ref'[f] >= 0 /\ (ref'[f] > 0 => ref[f] > 0)
  BY <1>1, <1>3, <1>4
<1>6. \A f \in AnyFrame : ref'[f] = ref[f] - Maps(pt[cur], f) + Maps(NoPtes, f)
  <2>1. \A f \in AnyFrame : Maps(NoPtes, f) = 0
    BY NothingMapped
  <2>. QED  BY <1>3, <1>4, <1>5, <2>1
<1>7. taken' \subseteq Frame /\ InUse(taken', ref')
  BY <1>1, <1>3, <1>5, Names DEF Kept, InUse
<1>8. Replaces(NoPtes)
  BY <1>1, <1>2, <1>3, <1>5, <1>6, <1>7 DEF Replaces
<1>9. Fresh(NoPtes) /\ NoPtes \in Table
  BY Names DEF Fresh
<1>10. Dead'
  BY <1>1, <1>3 DEF Dead
<1>11. cur' \in alive' /\ alive' \subseteq Proc
  BY <1>1, <1>3
<1>. QED  BY <1>8, <1>9, <1>10, <1>11, ReplaceStep

LEMMA ExecStep ==
  ASSUME PagingInv, NEW v \in Page, NEW x \in Val, NEW rw \in BOOLEAN, NEW f \in Frame,
         Exec(v, x, rw, f)
  PROVE  PagingInv'
<1>. DEFINE e == Pte(f, rw, FALSE, FALSE)
            r == [NoPtes EXCEPT ![v] = e]
            gone == Without(pt[cur])
<1>1. /\ f \notin taken /\ taken' = Kept(gone) \cup {f}
      /\ data' = [data EXCEPT ![f] = x]
      /\ ref' = [gone EXCEPT ![f] = @ + 1]
      /\ pt' = [pt EXCEPT ![cur] = r] /\ tlb' = NoPtes
      /\ UNCHANGED <<block, cur, alive>>
  BY DEF Exec, Flush
<1>2. CountInv /\ data[Zero] = Blank
  BY InvParts
<1>3. /\ pt \in [Proc -> Table] /\ ref \in [AnyFrame -> Nat] /\ taken \subseteq Frame
      /\ data \in [AnyFrame -> Val] /\ cur \in Proc /\ alive \subseteq Proc
      /\ cur \in alive /\ InUse(taken, ref) /\ Dead
  BY <1>2, Parts
<1>4. ref[f] = 0 /\ f \in AnyFrame /\ f # Zero /\ f # None
  BY <1>1, <1>2, FreeFrames, Names
<1>5. \A h \in AnyFrame : Maps(pt[cur], h) \in Nat /\ Maps(pt[cur], h) <= ref[h]
  BY <1>2, MineCounted
<1>6. /\ gone \in [AnyFrame -> Int]
      /\ \A h \in AnyFrame : /\ gone[h] = ref[h] - Maps(pt[cur], h)
                             /\ gone[h] >= 0 /\ (gone[h] > 0 => ref[h] > 0)
  BY <1>3, <1>5 DEF Without
<1>7. e.f = f /\ ~e.cow /\ ~e.sh /\ e \in PteType
  BY <1>4, PteFields
<1>. HIDE DEF e, gone
<1>8. /\ r \in Table /\ r[v] = e
      /\ \A w \in Page : w # v => r[w] = NoPte
  BY <1>7, Names DEF Table
<1>9. DiffersAt(NoPtes, r, v)
  BY <1>8, Names DEF DiffersAt
<1>. HIDE DEF r
<1>10. \A h \in AnyFrame : Maps(r, h) = One(f, h)
  <2>1. SUFFICES ASSUME NEW h \in AnyFrame PROVE Maps(r, h) = One(f, h)
    OBVIOUS
  <2>2. Maps(r, h) = Maps(NoPtes, h) - One(NoPtes[v].f, h) + One(r[v].f, h)
    BY <1>9, EntryMaps
  <2>3. Maps(NoPtes, h) = 0
    BY NothingMapped
  <2>4. One(NoPtes[v].f, h) = 0
    BY Names DEF One
  <2>5. One(r[v].f, h) = One(f, h) /\ One(f, h) \in Nat
    BY <1>7, <1>8 DEF One
  <2>. QED  BY <2>2, <2>3, <2>4, <2>5
<1>11. gone[f] = 0
  BY <1>4, <1>5, <1>6
<1>12. /\ ref' \in [AnyFrame -> Int] /\ ref'[f] = 1
       /\ \A h \in AnyFrame : ref'[h] = gone[h] + One(f, h)
  BY <1>1, <1>4, <1>6, <1>11 DEF One
<1>13. \A h \in AnyFrame : ref'[h] = ref[h] - Maps(pt[cur], h) + Maps(r, h)
  <2>1. \A h \in AnyFrame : One(f, h) \in Nat
    BY DEF One
  <2>. QED  BY <1>3, <1>5, <1>6, <1>10, <1>12, <2>1
<1>14. taken' \subseteq Frame /\ InUse(taken', ref')
  <2>1. \A h \in Frame : h # f => (h \in taken' <=> gone[h] > 0)
    BY <1>1, <1>3, <1>6, Names DEF Kept, InUse
  <2>2. \A h \in Frame : h # f => ref'[h] = gone[h]
    BY <1>6, <1>12, Names DEF One
  <2>3. f \in taken' /\ taken' \subseteq Frame
    BY <1>1, <1>3 DEF Kept
  <2>. QED  BY <1>12, <2>1, <2>2, <2>3 DEF InUse
<1>15. data' \in [AnyFrame -> Val] /\ data'[Zero] = Blank
  BY <1>1, <1>2, <1>3, <1>4
<1>16. Replaces(r)
  BY <1>1, <1>12, <1>13, <1>14, <1>15 DEF Replaces
<1>17. Fresh(r)
  BY <1>1, <1>4, <1>7, <1>8, <1>12 DEF Fresh, Sane
<1>18. Dead'
  <2>1. \A p \in Proc : p # cur => pt'[p] = pt[p]
    BY <1>1, <1>3
  <2>. QED  BY <1>1, <1>3, <2>1 DEF Dead
<1>19. cur' \in alive' /\ alive' \subseteq Proc
  BY <1>1, <1>3
<1>. QED  BY <1>8, <1>16, <1>17, <1>18, <1>19, ReplaceStep

-----------------------------------------------------------------------------
\* fork.
LEMMA MarkedEntry ==
  ASSUME NEW e \in PteType, Sane(e)
  PROVE  /\ Marked(e) \in PteType /\ Sane(Marked(e))
         /\ Marked(e).f = e.f /\ Marked(e).sh = e.sh
         /\ Marked(e).wr <=> e.wr /\ e.sh
         /\ e.wr /\ ~e.sh => Marked(e).cow
         /\ e.cow => Marked(e).cow
         /\ Marked(e).cow => e.cow \/ e.wr
         /\ Marked(e) = NoPte <=> e = NoPte
<1>1. CASE e = NoPte \/ e.sh
  <2>1. Marked(e) = e
    BY <1>1 DEF Marked
  <2>2. e.sh => ~e.cow
    BY DEF Sane
  <2>. QED  BY <1>1, <2>1, <2>2, Names
<1>2. CASE e # NoPte /\ ~e.sh
  <2>1. Marked(e) = [e EXCEPT !.wr = FALSE, !.cow = @ \/ e.wr]
    BY <1>2 DEF Marked
  <2>2. /\ Marked(e).f = e.f /\ Marked(e).sh = e.sh /\ Marked(e).wr = FALSE
        /\ Marked(e).cow = (e.cow \/ e.wr) /\ Marked(e) \in PteType
    BY <2>1 DEF PteType
  <2>3. e.f # None
    BY <1>2 DEF Sane
  <2>4. Marked(e) # NoPte
    BY <2>2, <2>3, Names
  <2>5. Sane(Marked(e))
    BY <1>2, <2>2, <2>3 DEF Sane
  <2>. QED  BY <1>2, <2>2, <2>4, <2>5
<1>. QED  BY <1>1, <1>2

LEMMA MarkedTable ==
  ASSUME CountInv
  PROVE  /\ MarkedAll(pt[cur]) \in Table
         /\ \A v \in Page : MarkedAll(pt[cur])[v] = Marked(pt[cur][v])
         /\ \A v \in Page : Sane(MarkedAll(pt[cur])[v])
         /\ \A f : Maps(MarkedAll(pt[cur]), f) = Maps(pt[cur], f)
<1>1. cur \in Proc /\ \A v \in Page : pt[cur][v] \in PteType /\ Sane(pt[cur][v])
  BY Parts DEF Table, SaneTables
<1>2. \A v \in Page : /\ Marked(pt[cur][v]) \in PteType /\ Sane(Marked(pt[cur][v]))
                      /\ Marked(pt[cur][v]).f = pt[cur][v].f
  BY <1>1, MarkedEntry
<1>3. \A v \in Page : MarkedAll(pt[cur])[v] = Marked(pt[cur][v])
  BY DEF MarkedAll
<1>4. MarkedAll(pt[cur]) \in Table
  BY <1>2 DEF MarkedAll, Table
<1>5. \A v \in Page : MarkedAll(pt[cur])[v].f = pt[cur][v].f
  BY <1>2, <1>3
<1>6. \A f : Maps(MarkedAll(pt[cur]), f) = Maps(pt[cur], f)
  BY <1>5, SameFrames
<1>. QED  BY <1>2, <1>3, <1>4, <1>6

LEMMA ForkStep ==
  ASSUME PagingInv, NEW c \in Proc, Fork(c)
  PROVE  PagingInv'
<1>. DEFINE m == MarkedAll(pt[cur])
            T == [pt EXCEPT ![cur] = m]
<1>1. /\ c \notin alive /\ alive' = alive \cup {c}
      /\ pt' = [pt EXCEPT ![cur] = m, ![c] = m]
      /\ ref' = [f \in AnyFrame |-> ref[f] + Maps(pt[cur], f)]
      /\ UNCHANGED <<data, taken, block, cur>> /\ Flush
  BY DEF Fork, CloneInto
<1>2. CountInv /\ data[Zero] = Blank
  BY InvParts
<1>3. /\ pt \in [Proc -> Table] /\ ref \in [AnyFrame -> Nat] /\ taken \subseteq Frame
      /\ data \in [AnyFrame -> Val] /\ cur \in Proc /\ alive \subseteq Proc
      /\ cur \in alive /\ InUse(taken, ref) /\ Dead /\ SaneTables(pt)
      /\ block \in Frame \cup {None}
  BY <1>2, Parts
<1>4. /\ m \in Table /\ (\A v \in Page : m[v] = Marked(pt[cur][v]) /\ Sane(m[v]))
      /\ \A f : Maps(m, f) = Maps(pt[cur], f)
  BY <1>2, MarkedTable
<1>5. \A f \in AnyFrame : Maps(pt[cur], f) \in Nat /\ Maps(pt[cur], f) <= ref[f]
  BY <1>2, MineCounted
<1>6. c # cur /\ pt[c] = NoPtes
  BY <1>1, <1>3 DEF Dead
<1>7. \A v \in Page :
        /\ m[v].f = pt[cur][v].f /\ m[v].sh = pt[cur][v].sh
        /\ m[v].wr => m[v].sh
        /\ m[v] # NoPte => pt[cur][v] # NoPte
  <2>1. \A v \in Page : pt[cur][v] \in PteType /\ Sane(pt[cur][v])
    BY <1>3 DEF Table, SaneTables
  <2>. QED  BY <1>4, <2>1, MarkedEntry
<1>. HIDE DEF m
<1>8. /\ pt' \in [Proc -> Table] /\ pt'[cur] = m /\ pt'[c] = m
      /\ \A p \in Proc : p # cur /\ p # c => pt'[p] = pt[p]
  BY <1>1, <1>3, <1>4, <1>6
<1>9. /\ T \in [Proc -> Table] /\ T[cur] = m /\ T[c] = NoPtes
      /\ \A p \in Proc : p # cur => T[p] = pt[p]
  BY <1>3, <1>4, <1>6
<1>. HIDE DEF T
<1>10. OtherTables(pt, T, cur) /\ OtherTables(T, pt', c)
  BY <1>8, <1>9 DEF OtherTables
<1>11. Counted(pt', ref', block')
  <2>1. SUFFICES ASSUME NEW f \in AnyFrame
                 PROVE  ref'[f] = Cardinality(MappersOf(pt', f)) + Extra(block', f)
    BY DEF Counted
  <2>2. Cardinality(MappersOf(T, f)) =
          Cardinality(MappersOf(pt, f)) - Maps(pt[cur], f) + Maps(T[cur], f)
    BY <1>3, <1>10, TableChange
  <2>3. Cardinality(MappersOf(pt', f)) =
          Cardinality(MappersOf(T, f)) - Maps(T[c], f) + Maps(pt'[c], f)
    BY <1>10, TableChange
  <2>4. /\ Maps(T[cur], f) = Maps(pt[cur], f) /\ Maps(pt'[c], f) = Maps(pt[cur], f)
        /\ Maps(T[c], f) = 0
    BY <1>4, <1>8, <1>9, NothingMapped
  <2>5. ref[f] = Cardinality(MappersOf(pt, f)) + Extra(block, f)
    BY <1>2, Parts DEF Counted
  <2>6. /\ Cardinality(MappersOf(pt, f)) \in Nat /\ Maps(pt[cur], f) \in Nat
        /\ Cardinality(MappersOf(T, f)) \in Nat /\ Extra(block, f) \in Nat
    BY MappersFinite, MapsType DEF Extra
  <2>7. ref'[f] = ref[f] + Maps(pt[cur], f)
    BY <1>1
  <2>8. Extra(block', f) = Extra(block, f)
    BY <1>1
  <2>. QED  BY <2>2, <2>3, <2>4, <2>5, <2>6, <2>7, <2>8
<1>12. ref' \in [AnyFrame -> Int] /\ InUse(taken', ref')
  <2>1. \A f \in AnyFrame : ref'[f] = ref[f] + Maps(pt[cur], f)
    BY <1>1
  <2>2. \A f \in AnyFrame : ref'[f] > 0 <=> ref[f] > 0
    BY <1>3, <1>5, <2>1
  <2>. QED  BY <1>1, <1>3, <1>5, <2>2, Names DEF InUse
<1>13. SaneTables(pt')
  BY <1>3, <1>4, <1>8 DEF SaneTables
<1>14. tlb' \in Table /\ \A v \in Page : Sane(tlb'[v]) /\ tlb'[v] = NoPte
  BY <1>1, Names DEF Flush, Sane
<1>15. Dead'
  BY <1>1, <1>3, <1>6, <1>8 DEF Dead
<1>16. cur' \in alive' /\ alive' \subseteq Proc
  BY <1>1, <1>3
<1>17. CountInv'
  BY <1>1, <1>3, <1>8, <1>11, <1>12, <1>13, <1>14, <1>15, <1>16, CountInvNext
<1>18. ASSUME NEW p \in Proc, NEW v \in Page
       PROVE  /\ pt'[p][v].wr /\ ~pt'[p][v].sh =>
                   ref'[pt'[p][v].f] = 1 /\ pt'[p][v].f # Zero
              /\ pt'[p][v] # NoPte => (pt'[p][v].sh <=> pt'[p][v].f = block')
  <2>1. CASE p = cur \/ p = c
    <3>1. pt'[p][v] = m[v]
      BY <1>8, <2>1
    <3>2. m[v] # NoPte => (m[v].sh <=> m[v].f = block)
      BY <1>3, <1>7, InvParts
    <3>. QED  BY <1>1, <1>7, <3>1, <3>2
  <2>2. CASE p # cur /\ p # c
    <3>1. pt'[p][v] = pt[p][v] /\ (pt[p][v].wr => pt[p][v] # NoPte)
      BY <1>8, <2>2, Names
    <3>2. /\ pt[p][v].wr /\ ~pt[p][v].sh => ref[pt[p][v].f] = 1 /\ pt[p][v].f # Zero
          /\ pt[p][v] # NoPte => (pt[p][v].sh <=> pt[p][v].f = block)
      BY InvParts
    <3>3. pt[p][v] # NoPte /\ ref[pt[p][v].f] = 1 => ref'[pt[p][v].f] = 1
      <4>1. SUFFICES ASSUME pt[p][v] # NoPte, ref[pt[p][v].f] = 1
                     PROVE  ref'[pt[p][v].f] = 1
        OBVIOUS
      <4>2. Maps(pt[cur], pt[p][v].f) = 0
        BY <1>2, <2>2, <4>1, NotMine
      <4>3. pt[p][v].f \in AnyFrame
        BY <1>2, <4>1, MappedFrames
      <4>. QED  BY <1>1, <4>1, <4>2, <4>3
    <3>. QED  BY <1>1, <3>1, <3>2, <3>3
  <2>. QED  BY <2>1, <2>2
<1>. QED  BY <1>1, <1>2, <1>14, <1>17, <1>18, InvNext

LEMMA ForkFailsStep ==
  ASSUME PagingInv, ForkFails
  PROVE  PagingInv'
<1>. DEFINE m == MarkedAll(pt[cur])
<1>1. /\ pt' = [pt EXCEPT ![cur] = m]
      /\ UNCHANGED <<ref, data, taken, block, cur, tlb, alive>>
  BY DEF ForkFails
<1>2. CountInv /\ data[Zero] = Blank
  BY InvParts
<1>3. /\ pt \in [Proc -> Table] /\ ref \in [AnyFrame -> Nat] /\ taken \subseteq Frame
      /\ data \in [AnyFrame -> Val] /\ cur \in Proc /\ alive \subseteq Proc
      /\ cur \in alive /\ InUse(taken, ref) /\ Dead /\ SaneTables(pt)
      /\ block \in Frame \cup {None} /\ tlb \in Table /\ \A v \in Page : Sane(tlb[v])
  BY <1>2, Parts
<1>4. /\ m \in Table /\ (\A v \in Page : m[v] = Marked(pt[cur][v]) /\ Sane(m[v]))
      /\ \A f : Maps(m, f) = Maps(pt[cur], f)
  BY <1>2, MarkedTable
<1>5. \A v \in Page :
        /\ m[v].f = pt[cur][v].f /\ m[v].sh = pt[cur][v].sh
        /\ m[v].wr <=> pt[cur][v].wr /\ pt[cur][v].sh
        /\ pt[cur][v].wr /\ ~pt[cur][v].sh => m[v].cow
        /\ pt[cur][v].cow => m[v].cow
        /\ m[v] # NoPte => pt[cur][v] # NoPte
  <2>1. \A v \in Page : pt[cur][v] \in PteType /\ Sane(pt[cur][v])
    BY <1>3 DEF Table, SaneTables
  <2>. QED  BY <1>4, <2>1, MarkedEntry
<1>. HIDE DEF m
<1>6. /\ pt' \in [Proc -> Table] /\ pt'[cur] = m
      /\ \A p \in Proc : p # cur => pt'[p] = pt[p]
  BY <1>1, <1>3, <1>4
<1>7. Counted(pt', ref', block')
  <2>1. SUFFICES ASSUME NEW f \in AnyFrame
                 PROVE  ref'[f] = Cardinality(MappersOf(pt', f)) + Extra(block', f)
    BY DEF Counted
  <2>2. OtherTables(pt, pt', cur)
    BY <1>6 DEF OtherTables
  <2>3. Cardinality(MappersOf(pt', f)) =
          Cardinality(MappersOf(pt, f)) - Maps(pt[cur], f) + Maps(pt'[cur], f)
    BY <1>3, <2>2, TableChange
  <2>4. Maps(pt'[cur], f) = Maps(pt[cur], f) /\ Maps(pt[cur], f) \in Nat
    BY <1>4, <1>6, MapsType
  <2>5. Cardinality(MappersOf(pt, f)) \in Nat
    BY MappersFinite
  <2>6. ref[f] = Cardinality(MappersOf(pt, f)) + Extra(block, f)
    BY <1>2, Parts DEF Counted
  <2>7. Cardinality(MappersOf(pt', f)) = Cardinality(MappersOf(pt, f))
    BY <2>3, <2>4, <2>5
  <2>. QED  BY <1>1, <2>6, <2>7
<1>8. SaneTables(pt') /\ Dead' /\ InUse(taken', ref')
  BY <1>1, <1>3, <1>4, <1>6 DEF SaneTables, Dead, InUse
<1>9. CountInv'
  BY <1>1, <1>3, <1>6, <1>7, <1>8, CountInvNext
<1>10. ASSUME NEW p \in Proc, NEW v \in Page
       PROVE  /\ pt'[p][v].wr /\ ~pt'[p][v].sh =>
                   ref'[pt'[p][v].f] = 1 /\ pt'[p][v].f # Zero
              /\ pt'[p][v] # NoPte => (pt'[p][v].sh <=> pt'[p][v].f = block')
  <2>1. CASE p = cur
    BY <1>1, <1>5, <1>6, <2>1, InvParts
  <2>2. CASE p # cur
    BY <1>1, <1>6, <2>2, InvParts
  <2>. QED  BY <2>1, <2>2
<1>11. ASSUME NEW v \in Page, tlb'[v] # NoPte
       PROVE  /\ tlb'[v].f = pt'[cur'][v].f /\ tlb'[v].sh = pt'[cur'][v].sh
              /\ tlb'[v].wr => pt'[cur'][v].wr
                               \/ (pt'[cur'][v].cow /\ ref'[pt'[cur'][v].f] = 1)
  <2>1. /\ tlb[v].f = pt[cur][v].f /\ tlb[v].sh = pt[cur][v].sh
        /\ tlb[v].wr => pt[cur][v].wr \/ (pt[cur][v].cow /\ ref[pt[cur][v].f] = 1)
    BY <1>1, <1>11, InvParts
  <2>2. pt[cur][v].wr /\ ~pt[cur][v].sh => ref[pt[cur][v].f] = 1
    BY <1>3, InvParts
  <2>3. pt'[cur'][v] = m[v] /\ tlb' = tlb /\ ref' = ref
    BY <1>1, <1>6
  <2>. QED  BY <1>5, <2>1, <2>2, <2>3
<1>. QED  BY <1>1, <1>2, <1>9, <1>10, <1>11, InvNext

LEMMA TruncateStep ==
  ASSUME PagingInv, Truncate
  PROVE  PagingInv'
<1>1. /\ block # None /\ block' = None
      /\ pt' = [p \in Proc |-> [v \in Page |->
                  IF <<p, v>> \in FileEntries THEN NoPte ELSE pt[p][v]]]
      /\ ref' = [ref EXCEPT ![block] = @ - Cardinality(FileEntries) - 1]
      /\ taken' = taken \ {block}
      /\ tlb' = [v \in Page |->
                  IF \E p \in Proc : <<p, v>> \in FileEntries THEN NoPte ELSE tlb[v]]
      /\ UNCHANGED <<data, cur, alive>>
  BY DEF Truncate
<1>2. CountInv /\ data[Zero] = Blank
  BY InvParts
<1>3. /\ pt \in [Proc -> Table] /\ ref \in [AnyFrame -> Nat] /\ taken \subseteq Frame
      /\ data \in [AnyFrame -> Val] /\ cur \in Proc /\ alive \subseteq Proc
      /\ cur \in alive /\ InUse(taken, ref) /\ Dead /\ SaneTables(pt)
      /\ block \in taken \cup {None} /\ tlb \in Table /\ \A v \in Page : Sane(tlb[v])
  BY <1>2, Parts
<1>4. block \in Frame /\ block \in AnyFrame /\ block # Zero
  BY <1>1, <1>3, Names
<1>5. \A p \in Proc, v \in Page :
        /\ <<p, v>> \in FileEntries <=> pt[p][v].sh
        /\ pt[p][v].sh <=> pt[p][v].f = block
  <2>1. \A p \in Proc, v \in Page : <<p, v>> \in FileEntries <=> pt[p][v].sh
    BY DEF FileEntries
  <2>2. ASSUME NEW p \in Proc, NEW v \in Page
        PROVE  pt[p][v].sh <=> pt[p][v].f = block
    <3>1. CASE pt[p][v] = NoPte
      BY <1>1, <3>1, Names
    <3>2. CASE pt[p][v] # NoPte
      BY <3>2, InvParts
    <3>. QED  BY <3>1, <3>2
  <2>. QED  BY <2>1, <2>2
<1>6. FileEntries = MappersOf(pt, block)
  BY <1>5 DEF FileEntries, MappersOf
<1>7. ref[block] = Cardinality(MappersOf(pt, block)) + 1
  BY <1>2, <1>4, Parts DEF Counted, Extra
<1>8. Cardinality(FileEntries) \in Nat
  BY <1>6, MappersFinite
<1>9. /\ ref' \in [AnyFrame -> Int] /\ ref'[block] = 0
      /\ \A f \in AnyFrame : f # block => ref'[f] = ref[f]
  BY <1>1, <1>3, <1>4, <1>6, <1>7, <1>8
<1>10. \A p \in Proc, v \in Page :
         pt'[p][v] = IF pt[p][v].sh THEN NoPte ELSE pt[p][v]
  BY <1>1, <1>5
<1>11. pt' \in [Proc -> Table]
  <2>1. \A p \in Proc, v \in Page : pt[p][v] \in PteType
    BY <1>3 DEF Table
  <2>. QED  BY <1>1, <2>1, Names DEF Table
<1>12. Counted(pt', ref', block')
  <2>1. SUFFICES ASSUME NEW f \in AnyFrame
                 PROVE  ref'[f] = Cardinality(MappersOf(pt', f)) + Extra(block', f)
    BY DEF Counted
  <2>2. f # None
    BY Names
  <2>3. CASE f = block
    <3>1. ASSUME NEW p \in Proc, NEW v \in Page PROVE pt'[p][v].f # f
      <4>1. CASE pt[p][v].sh
        BY <1>10, <2>2, <4>1, Names
      <4>2. CASE ~pt[p][v].sh
        BY <1>5, <1>10, <2>3, <4>2
      <4>. QED  BY <4>1, <4>2
    <3>2. MappersOf(pt', f) = {}
      BY <3>1 DEF MappersOf
    <3>3. Cardinality(MappersOf(pt', f)) = 0
      BY <3>2, FS_EmptySet
    <3>4. Extra(block', f) = 0
      BY <1>1, <1>4, <2>2, <2>3 DEF Extra
    <3>. QED  BY <1>9, <2>3, <3>3, <3>4
  <2>4. CASE f # block
    <3>1. ASSUME NEW p \in Proc, NEW v \in Page
          PROVE  pt'[p][v].f = f <=> pt[p][v].f = f
      <4>1. CASE pt[p][v].sh
        <5>1. pt'[p][v] = NoPte /\ pt[p][v].f = block
          BY <1>5, <1>10, <4>1
        <5>. QED  BY <2>2, <2>4, <5>1, Names
      <4>2. CASE ~pt[p][v].sh
        BY <1>10, <4>2
      <4>. QED  BY <4>1, <4>2
    <3>2. MappersOf(pt', f) = MappersOf(pt, f)
      BY <3>1 DEF MappersOf
    <3>3. ref[f] = Cardinality(MappersOf(pt, f)) + Extra(block, f)
      BY <1>2, Parts DEF Counted
    <3>4. Extra(block', f) = Extra(block, f)
      BY <1>1, <2>2, <2>4 DEF Extra
    <3>. QED  BY <1>9, <2>4, <3>2, <3>3, <3>4
  <2>. QED  BY <2>3, <2>4
<1>13. taken' \subseteq Frame /\ InUse(taken', ref')
  BY <1>1, <1>3, <1>9, Names DEF InUse
<1>14. Sane(NoPte)
  BY Names DEF Sane
<1>15. SaneTables(pt')
  BY <1>3, <1>10, <1>14 DEF SaneTables
<1>16. tlb' \in Table /\ \A v \in Page : Sane(tlb'[v])
  BY <1>1, <1>3, <1>14, Names DEF Table
<1>17. Dead'
  <2>1. SUFFICES ASSUME NEW p \in Proc, p \notin alive PROVE pt'[p] = NoPtes
    BY <1>1 DEF Dead
  <2>2. \A v \in Page : pt[p][v] = NoPte
    BY <1>3, <2>1, Names DEF Dead
  <2>3. pt'[p] = [v \in Page |-> NoPte]
    BY <1>1, <2>2
  <2>. QED  BY <2>3 DEF NoPtes
<1>18. CountInv'
  BY <1>1, <1>3, <1>9, <1>11, <1>12, <1>13, <1>15, <1>16, <1>17, CountInvNext
<1>19. \A p \in Proc, v \in Page :
         pt[p][v] # NoPte /\ ~pt[p][v].sh => ref'[pt[p][v].f] = ref[pt[p][v].f]
  BY <1>2, <1>5, <1>9, MappedFrames
<1>20. ASSUME NEW p \in Proc, NEW v \in Page
       PROVE  /\ pt'[p][v].wr /\ ~pt'[p][v].sh =>
                   ref'[pt'[p][v].f] = 1 /\ pt'[p][v].f # Zero
              /\ pt'[p][v] # NoPte => (pt'[p][v].sh <=> pt'[p][v].f = block')
  <2>1. CASE pt[p][v].sh
    BY <1>10, <2>1, Names
  <2>2. CASE ~pt[p][v].sh
    <3>1. pt'[p][v] = pt[p][v] /\ (pt[p][v].wr => pt[p][v] # NoPte)
      BY <1>10, <2>2, Names
    <3>2. pt[p][v] # NoPte => pt[p][v].f # None
      BY <1>2, MappedFrames, Names
    <3>. QED  BY <1>1, <1>19, <2>2, <3>1, <3>2, InvParts
  <2>. QED  BY <2>1, <2>2
<1>21. ASSUME NEW v \in Page, tlb'[v] # NoPte
       PROVE  /\ tlb'[v].f = pt'[cur'][v].f /\ tlb'[v].sh = pt'[cur'][v].sh
              /\ tlb'[v].wr => pt'[cur'][v].wr
                               \/ (pt'[cur'][v].cow /\ ref'[pt'[cur'][v].f] = 1)
  <2>1. tlb'[v] = tlb[v] /\ <<cur, v>> \notin FileEntries
    BY <1>1, <1>3, <1>21
  <2>2. ~pt[cur][v].sh /\ pt'[cur'][v] = pt[cur][v]
    BY <1>1, <1>3, <1>5, <1>10, <2>1
  <2>3. pt[cur][v].cow => ref'[pt[cur][v].f] = ref[pt[cur][v].f]
    BY <1>3, <1>19, <2>2, Names
  <2>. QED  BY <1>21, <2>1, <2>2, <2>3, InvParts
<1>. QED  BY <1>1, <1>2, <1>18, <1>20, <1>21, InvNext

-----------------------------------------------------------------------------
LEMMA InitInv == Init => PagingInv
<1>. SUFFICES ASSUME Init PROVE PagingInv
  OBVIOUS
<1>1. /\ pt = [p \in Proc |-> NoPtes]
      /\ ref = [f \in AnyFrame |-> IF f = Zero THEN 1 ELSE 0]
      /\ data = [f \in AnyFrame |-> Blank] /\ taken = {} /\ block = None
      /\ cur = First /\ alive = {First} /\ tlb = NoPtes
  BY DEF Init
<1>2. /\ \A p \in Proc : pt[p] = NoPtes
      /\ \A p \in Proc, v \in Page : pt[p][v] = NoPte
      /\ \A v \in Page : tlb[v] = NoPte
  BY <1>1, Names
<1>3. Sane(NoPte)
  BY Names DEF Sane
<1>4. TypeOK
  BY <1>1, <1>2, <1>3, Names, PagingAssumption DEF TypeOK, Table
<1>5. RefsCountMappings
  <2>1. ASSUME NEW f \in AnyFrame
        PROVE  ref[f] = Cardinality(Mappers(f)) + IF f \in {Zero, block} THEN 1 ELSE 0
    <3>1. f # None
      BY Names
    <3>2. Mappers(f) = {}
      BY <1>2, <3>1, Names DEF Mappers
    <3>3. Cardinality(Mappers(f)) = 0
      BY <3>2, FS_EmptySet
    <3>. QED  BY <1>1, <3>1, <3>3
  <2>2. taken = {f \in Frame : ref[f] > 0}
    BY <1>1, Names
  <2>. QED  BY <2>1, <2>2 DEF RefsCountMappings
<1>6. Dead
  BY <1>2 DEF Dead
<1>7. WritableAlone
  BY <1>1, <1>2, Names DEF WritableAlone
<1>8. StaleEntriesHarmless
  BY <1>2 DEF StaleEntriesHarmless
<1>. QED  BY <1>4, <1>5, <1>6, <1>7, <1>8 DEF PagingInv, CountInv

LEMMA NextInv == PagingInv /\ [Next]_vars => PagingInv'
<1>. SUFFICES ASSUME PagingInv, [Next]_vars PROVE PagingInv'
  OBVIOUS
<1>1. ASSUME NEW v \in Page, Memory(v)
      PROVE  PagingInv'
  BY <1>1, MapZeroStep, UnmapStep, LoadStep, CowInPlaceStep, MapFileStep, StoreStep,
     BrkStep, CowCopyStep, ExecStep DEF Memory
<1>2. ASSUME NEW q \in Proc, Fork(q) \/ Exit(q) \/ Switch(q)
      PROVE  PagingInv'
  BY <1>2, ForkStep, ExitStep, SwitchStep
<1>3. ASSUME NEW f \in Frame, NEW x \in Val, WriteFile(x, f)
      PROVE  PagingInv'
  BY <1>3, WriteFileStep
<1>4. CASE ForkFails
  BY <1>4, ForkFailsStep
<1>5. CASE Truncate
  BY <1>5, TruncateStep
<1>6. CASE UNCHANGED vars
  BY <1>6 DEF vars, PagingInv, CountInv, TypeOK, RefsCountMappings, Mappers, Dead,
              WritableAlone, StaleEntriesHarmless
<1>. QED  BY <1>1, <1>2, <1>3, <1>4, <1>5, <1>6 DEF Next

\* The inductive invariant, for any number of processes, pages and frames.
THEOREM PagingAlways == Spec => []PagingInv
<1>. QED  BY InitInv, NextInv, PTL DEF Spec

\* Entries, counts and cached entries have their types; none is both writable
\* and copy-on-write.
THEOREM TypesAlways == Spec => []TypeOK
<1>1. PagingInv => TypeOK
  BY DEF PagingInv, CountInv
<1>. QED  BY <1>1, PagingAlways, PTL

\* pageframes_refcount is right whatever processes do, and no frame leaks or is
\* freed under an entry.
THEOREM CountsAlways == Spec => []RefsCountMappings
<1>1. PagingInv => RefsCountMappings
  BY DEF PagingInv, CountInv
<1>. QED  BY <1>1, PagingAlways, PTL

\* Nobody else maps what a process may write.
THEOREM PrivateAlways == Spec => []WritableAlone
<1>1. PagingInv => WritableAlone
  BY DEF PagingInv
<1>. QED  BY <1>1, PagingAlways, PTL

\* No cached entry leads to another frame or allows a store it should not.
THEOREM CachedAlways == Spec => []StaleEntriesHarmless
<1>1. PagingInv => StaleEntriesHarmless
  BY DEF PagingInv
<1>. QED  BY <1>1, PagingAlways, PTL

-----------------------------------------------------------------------------
\* Copy-on-write implements a memory of its own for every process.
CellIn(e, d) ==
  IF e = NoPte THEN AS!Hole
  ELSE IF e.sh THEN AS!FilePage(e.wr) ELSE AS!Own(d[e.f], e.wr \/ e.cow)

LEMMA MemCells ==
  /\ \A p \in Proc, v \in Page : Mem[p][v] = CellIn(pt[p][v], data)
  /\ \A p \in Proc, v \in Page : Mem'[p][v] = CellIn(pt'[p][v], data')
BY DEF Mem, Cell, CellIn, AS!Hole, AS!FilePage, AS!Own

\* What a cell tells of its entry.
LEMMA Kinds ==
  ASSUME NEW e, NEW d
  PROVE  /\ CellIn(e, d) = AS!Hole <=> e = NoPte
         /\ CellIn(e, d).kind = "file" <=> e # NoPte /\ e.sh
         /\ CellIn(e, d).kind = "own" <=> e # NoPte /\ ~e.sh
<1>1. /\ AS!Hole.kind = "hole"
      /\ \A b : AS!FilePage(b).kind = "file"
      /\ \A x, b : AS!Own(x, b).kind = "own"
  BY DEF AS!Hole, AS!FilePage, AS!Own
<1>2. CASE e = NoPte
  BY <1>1, <1>2 DEF CellIn
<1>3. CASE e # NoPte /\ e.sh
  BY <1>1, <1>3 DEF CellIn
<1>4. CASE e # NoPte /\ ~e.sh
  BY <1>1, <1>4 DEF CellIn
<1>. QED  BY <1>2, <1>3, <1>4

LEMMA MemShape ==
  /\ Mem = [p \in Proc |-> Mem[p]] /\ Mem' = [p \in Proc |-> Mem'[p]]
  /\ \A p \in Proc : Mem[p] = [w \in Page |-> Mem[p][w]]
  /\ \A p \in Proc : Mem'[p] = [w \in Page |-> Mem'[p][w]]
BY DEF Mem

LEMMA MemRow ==
  ASSUME NEW p \in Proc, \A w \in Page : Mem'[p][w] = Mem[p][w]
  PROVE  Mem'[p] = Mem[p]
BY MemShape

LEMMA MemSet ==
  ASSUME NEW q \in Proc, NEW v \in Page, NEW c,
         \A p \in Proc, w \in Page : p # q \/ w # v => Mem'[p][w] = Mem[p][w],
         Mem'[q][v] = c
  PROVE  Mem' = [Mem EXCEPT ![q][v] = c]
<1>1. \A p \in Proc : p # q => Mem'[p] = Mem[p]
  BY MemRow
<1>2. Mem'[q] = [Mem[q] EXCEPT ![v] = c]
  BY MemShape
<1>3. Mem' = [Mem EXCEPT ![q] = Mem'[q]]
  BY <1>1, MemShape
<1>. QED  BY <1>2, <1>3

LEMMA MemSame ==
  ASSUME \A p \in Proc, w \in Page : Mem'[p][w] = Mem[p][w]
  PROVE  Mem' = Mem
<1>1. \A p \in Proc : Mem'[p] = Mem[p]
  BY MemRow
<1>. QED  BY <1>1, MemShape

\* Whether the data that private pages lead to are kept.
KeepsData(d) ==
  \A p \in Proc, w \in Page :
    pt[p][w] # NoPte /\ ~pt[p][w].sh => d[pt[p][w].f] = data[pt[p][w].f]

LEMMA KeptCell ==
  ASSUME NEW p \in Proc, NEW w \in Page, pt'[p][w] = pt[p][w], KeepsData(data')
  PROVE  Mem'[p][w] = Mem[p][w]
BY MemCells DEF KeepsData, CellIn

LEMMA FreshData ==
  ASSUME PagingInv, NEW f \in Frame, f \notin taken, NEW x,
         data' = [data EXCEPT ![f] = x]
  PROVE  KeepsData(data') /\ data'[f] = x /\ File = IF block = None THEN {} ELSE {data'[block]}
<1>1. CountInv
  BY InvParts
<1>2. /\ f \in AnyFrame /\ f # block /\ \A p \in Proc, w \in Page : pt[p][w].f # f
  BY <1>1, FreeFrames
<1>3. data \in [AnyFrame -> Val]
  BY <1>1, Parts
<1>4. KeepsData(data')
  BY <1>2, <1>3 DEF KeepsData
<1>. QED  BY <1>2, <1>3, <1>4 DEF File

\* A step on the entry of v only, seen from above.
LEMMA EnterMem ==
  ASSUME PagingInv, NEW v \in Page, NEW e \in PteType,
         pt' = [pt EXCEPT ![cur][v] = e], KeepsData(data')
  PROVE  /\ Mem' = [Mem EXCEPT ![cur][v] = CellIn(e, data')]
         /\ CellIn(e, data') = Mem[cur][v] => Mem' = Mem
<1>1. CountInv /\ cur \in Proc
  BY InvParts, Parts
<1>2. /\ pt'[cur][v] = e
      /\ \A q \in Proc, w \in Page : q # cur \/ w # v => pt'[q][w] = pt[q][w]
  BY <1>1, EnterTable
<1>3. \A q \in Proc, w \in Page : q # cur \/ w # v => Mem'[q][w] = Mem[q][w]
  BY <1>2, KeptCell
<1>4. Mem'[cur][v] = CellIn(e, data')
  BY <1>1, <1>2, MemCells
<1>5. Mem' = [Mem EXCEPT ![cur][v] = CellIn(e, data')]
  BY <1>1, <1>3, <1>4, MemSet
<1>6. ASSUME CellIn(e, data') = Mem[cur][v]
      PROVE  Mem' = Mem
  <2>1. \A q \in Proc, w \in Page : Mem'[q][w] = Mem[q][w]
    BY <1>3, <1>4, <1>6
  <2>. QED  BY <2>1, MemSame
<1>. QED  BY <1>5, <1>6

LEMMA SameData == data' = data => KeepsData(data')
BY DEF KeepsData

LEMMA GrowImplements ==
  ASSUME PagingInv, NEW v \in Page, MapZero(v) \/ \E f \in Frame : Brk(v, f)
  PROVE  AS!Grow(cur, v)
<1>1. CountInv /\ data[Zero] = Blank /\ cur \in Proc
  BY InvParts, Parts
<1>2. pt[cur][v] = NoPte /\ UNCHANGED alive
  BY DEF MapZero, Brk, Map
<1>3. Mem[cur][v] = AS!Hole
  BY <1>1, <1>2, MemCells DEF CellIn
<1>4. CASE MapZero(v)
  <2>. DEFINE e == Pte(Zero, FALSE, TRUE, FALSE)
  <2>1. pt' = [pt EXCEPT ![cur][v] = e] /\ UNCHANGED <<data, block>>
    BY <1>4 DEF MapZero, Map
  <2>2. e \in PteType /\ e.f = Zero /\ e.cow /\ ~e.sh /\ e # NoPte
    BY PteFields, Names
  <2>3. CellIn(e, data') = AS!Own(Blank, TRUE)
    BY <1>1, <2>1, <2>2 DEF CellIn
  <2>. HIDE DEF e
  <2>6. KeepsData(data')
    BY <2>1, SameData
  <2>7. Mem' = [Mem EXCEPT ![cur][v] = CellIn(e, data')]
    BY <2>1, <2>2, <2>6, EnterMem
  <2>4. Mem' = [Mem EXCEPT ![cur][v] = AS!Own(Blank, TRUE)]
    BY <2>3, <2>7
  <2>5. File' = File
    BY <2>1 DEF File
  <2>. QED  BY <1>2, <1>3, <2>4, <2>5 DEF AS!Grow, AS!Set
<1>5. CASE \E f \in Frame : Brk(v, f)
  <2>1. PICK f \in Frame : Brk(v, f)
    BY <1>5
  <2>. DEFINE e == Pte(f, TRUE, FALSE, FALSE)
  <2>2. /\ pt' = [pt EXCEPT ![cur][v] = e] /\ UNCHANGED block
        /\ f \notin taken /\ data' = [data EXCEPT ![f] = Blank]
    BY <2>1 DEF Brk, Map, Zeroed
  <2>3. e \in PteType /\ e.f = f /\ e.wr /\ ~e.sh /\ e # NoPte
    BY PteFields, Names
  <2>4. /\ KeepsData(data') /\ data'[f] = Blank
        /\ File = IF block = None THEN {} ELSE {data'[block]}
    BY <2>2, FreshData
  <2>5. CellIn(e, data') = AS!Own(Blank, TRUE)
    BY <2>3, <2>4 DEF CellIn
  <2>. HIDE DEF e
  <2>8. Mem' = [Mem EXCEPT ![cur][v] = CellIn(e, data')]
    BY <2>2, <2>3, <2>4, EnterMem
  <2>6. Mem' = [Mem EXCEPT ![cur][v] = AS!Own(Blank, TRUE)]
    BY <2>5, <2>8
  <2>7. File' = File
    BY <2>2, <2>4 DEF File
  <2>. QED  BY <1>2, <1>3, <2>6, <2>7 DEF AS!Grow, AS!Set
<1>. QED  BY <1>4, <1>5

LEMMA MapFileImplements ==
  ASSUME PagingInv, NEW v \in Page, NEW rw \in BOOLEAN, MapFile(v, rw)
  PROVE  AS!MapFile(cur, v, rw)
<1>. DEFINE e == Pte(block, rw, FALSE, TRUE)
<1>1. CountInv /\ cur \in Proc /\ block \in Frame \cup {None}
  BY InvParts, Parts
<1>2. /\ pt[cur][v] = NoPte /\ pt' = [pt EXCEPT ![cur][v] = e] /\ block # None
      /\ UNCHANGED <<data, block, alive>>
  BY DEF MapFile, Map
<1>3. Mem[cur][v] = AS!Hole
  BY <1>1, <1>2, MemCells DEF CellIn
<1>8. block \in AnyFrame
  BY <1>1, <1>2 DEF AnyFrame
<1>4. e \in PteType /\ e.wr = rw /\ e.sh /\ e # NoPte
  BY <1>8, PteFields
<1>5. CellIn(e, data') = AS!FilePage(rw)
  BY <1>4 DEF CellIn
<1>. HIDE DEF e
<1>9. KeepsData(data')
  BY <1>2, SameData
<1>10. Mem' = [Mem EXCEPT ![cur][v] = CellIn(e, data')]
  BY <1>2, <1>4, <1>9, EnterMem
<1>6. Mem' = [Mem EXCEPT ![cur][v] = AS!FilePage(rw)]
  BY <1>5, <1>10
<1>7. File' = File /\ File # {}
  BY <1>2 DEF File
<1>. QED  BY <1>2, <1>3, <1>6, <1>7 DEF AS!MapFile, AS!Set

LEMMA UnmapImplements ==
  ASSUME PagingInv, NEW v \in Page, Unmap(v)
  PROVE  AS!Unmap(cur, v)
<1>1. CountInv /\ cur \in Proc
  BY InvParts, Parts
<1>2. /\ pt[cur][v] # NoPte /\ pt' = [pt EXCEPT ![cur][v] = NoPte]
      /\ UNCHANGED <<data, block, alive>>
  BY DEF Unmap
<1>3. Mem[cur][v] # AS!Hole
  <2>1. Mem[cur][v] = CellIn(pt[cur][v], data)
    BY <1>1, MemCells
  <2>. QED  BY <1>2, <2>1, Kinds
<1>4. CellIn(NoPte, data') = AS!Hole
  BY DEF CellIn
<1>7. KeepsData(data') /\ NoPte \in PteType
  BY <1>2, SameData, Names
<1>8. Mem' = [Mem EXCEPT ![cur][v] = CellIn(NoPte, data')]
  BY <1>2, <1>7, EnterMem
<1>5. Mem' = [Mem EXCEPT ![cur][v] = AS!Hole]
  BY <1>4, <1>8
<1>6. File' = File
  BY <1>2 DEF File
<1>. QED  BY <1>2, <1>3, <1>5, <1>6 DEF AS!Unmap, AS!Set

LEMMA CowImplements ==
  ASSUME PagingInv, NEW v \in Page, CowInPlace(v) \/ \E f \in Frame : CowCopy(v, f)
  PROVE  Mem' = Mem /\ File' = File /\ alive' = alive
<1>. DEFINE g == pt[cur][v].f
<1>1. CowFault(v) /\ UNCHANGED <<block, alive>> /\ CountInv /\ cur \in Proc
  BY InvParts, Parts DEF CowInPlace, CowCopy
<1>2. /\ pt[cur][v] # NoPte /\ ~pt[cur][v].sh /\ pt[cur][v].cow
      /\ g \in AnyFrame /\ Entry(v).f = g
  BY <1>1, CowEntry
<1>3. Mem[cur][v] = AS!Own(data[g], TRUE)
  BY <1>1, <1>2, MemCells DEF CellIn
<1>4. CASE CowInPlace(v)
  <2>. DEFINE e == Pte(g, TRUE, FALSE, FALSE)
  <2>1. pt' = [pt EXCEPT ![cur][v] = e] /\ UNCHANGED data
    BY <1>4 DEF CowInPlace, Resolved
  <2>2. e \in PteType /\ e.f = g /\ e.wr /\ ~e.sh /\ e # NoPte
    BY <1>2, PteFields
  <2>3. CellIn(e, data') = Mem[cur][v]
    BY <1>3, <2>1, <2>2 DEF CellIn
  <2>. HIDE DEF e
  <2>4. Mem' = Mem
    BY <2>1, <2>2, <2>3, SameData, EnterMem
  <2>. QED  BY <1>1, <2>1, <2>4 DEF File
<1>5. CASE \E f \in Frame : CowCopy(v, f)
  <2>1. PICK f \in Frame : CowCopy(v, f)
    BY <1>5
  <2>. DEFINE e == Pte(f, TRUE, FALSE, FALSE)
  <2>2. /\ pt' = [pt EXCEPT ![cur][v] = e] /\ f \notin taken
        /\ data' = [data EXCEPT ![f] = data[g]]
    BY <1>2, <2>1 DEF CowCopy, Resolved
  <2>3. e \in PteType /\ e.f = f /\ e.wr /\ ~e.sh /\ e # NoPte
    BY PteFields, Names
  <2>4. /\ KeepsData(data') /\ data'[f] = data[g]
        /\ File = IF block = None THEN {} ELSE {data'[block]}
    BY <2>2, FreshData
  <2>5. CellIn(e, data') = Mem[cur][v]
    BY <1>3, <2>3, <2>4 DEF CellIn
  <2>. HIDE DEF e
  <2>6. Mem' = Mem
    BY <2>2, <2>3, <2>4, <2>5, EnterMem
  <2>. QED  BY <1>1, <2>4, <2>6 DEF File
<1>. QED  BY <1>4, <1>5

\* What the processes have stays as it was while their tables do.
LEMMA Stays ==
  ASSUME UNCHANGED <<pt, data, block>>
  PROVE  Mem' = Mem /\ File' = File
BY DEF Mem, Cell, File

LEMMA StoreImplements ==
  ASSUME PagingInv, NEW v \in Page, NEW x \in Val, Store(v, x)
  PROVE  AS!Store(cur, v, x)
<1>. DEFINE g == pt[cur][v].f
<1>1. Entry(v).wr /\ data' = [data EXCEPT ![Entry(v).f] = x] /\ UNCHANGED <<pt, block, alive>>
  BY DEF Store
<1>2. Entry(v) # NoPte
  BY <1>1, Names
<1>3. /\ pt[cur][v] # NoPte /\ Entry(v).f = g
      /\ pt[cur][v].wr \/ (pt[cur][v].cow /\ ref[g] = 1)
  BY <1>1, <1>2, UsedEntry
<1>4. CountInv /\ cur \in Proc
  BY InvParts, Parts
<1>5. g \in AnyFrame /\ data \in [AnyFrame -> Val]
  BY <1>3, <1>4, MappedFrames, Parts
<1>6. Mem[cur][v] = CellIn(pt[cur][v], data)
  BY <1>4, MemCells
<1>7. CASE pt[cur][v].sh
  <2>1. g = block /\ pt[cur][v].wr
    <3>1. Sane(pt[cur][v])
      BY <1>4, Parts DEF SaneTables
    <3>. QED  BY <1>3, <1>4, <1>7, <3>1, InvParts DEF Sane
  <2>2. Mem[cur][v] = AS!FilePage(TRUE)
    BY <1>3, <1>6, <1>7, <2>1 DEF CellIn, AS!FilePage
  <2>3. block # None
    BY <1>5, <2>1, Names
  <2>4. File' = {x}
    BY <1>1, <1>3, <1>5, <2>1, <2>3 DEF File
  <2>5. KeepsData(data')
    <3>1. ASSUME NEW p \in Proc, NEW w \in Page, pt[p][w] # NoPte, ~pt[p][w].sh
          PROVE  data'[pt[p][w].f] = data[pt[p][w].f]
      <4>1. pt[p][w].f # block /\ pt[p][w].f \in AnyFrame
        BY <1>4, <3>1, InvParts, MappedFrames
      <4>. QED  BY <1>1, <1>3, <1>5, <2>1, <4>1
    <3>. QED  BY <3>1 DEF KeepsData
  <2>6. \A p \in Proc, w \in Page : Mem'[p][w] = Mem[p][w]
    BY <1>1, <2>5, KeptCell
  <2>7. Mem' = Mem
    BY <2>6, MemSame
  <2>8. Mem[cur][v].rw /\ Mem[cur][v].kind = "file"
    BY <2>2 DEF AS!FilePage
  <2>. QED  BY <1>1, <2>4, <2>7, <2>8 DEF AS!Store
<1>8. CASE ~pt[cur][v].sh
  <2>1. ref[g] = 1 /\ g # block
    BY <1>3, <1>4, <1>8, InvParts
  <2>2. Mem[cur][v].rw /\ Mem[cur][v].kind = "own"
    <3>1. Mem[cur][v] = AS!Own(data[g], pt[cur][v].wr \/ pt[cur][v].cow)
      BY <1>3, <1>6, <1>8 DEF CellIn
    <3>2. Mem[cur][v] = AS!Own(data[g], TRUE)
      BY <1>3, <3>1 DEF AS!Own
    <3>. QED  BY <3>2 DEF AS!Own
  <2>3. ASSUME NEW p \in Proc, NEW w \in Page, p # cur \/ w # v
        PROVE  Mem'[p][w] = Mem[p][w]
    <3>1. pt[p][w].f # g
      BY <1>3, <1>4, <2>1, <2>3, Sole
    <3>2. pt[p][w] # NoPte => data'[pt[p][w].f] = data[pt[p][w].f]
      BY <1>1, <1>3, <1>4, <1>5, <3>1, MappedFrames
    <3>3. /\ Mem[p][w] = CellIn(pt[p][w], data)
          /\ Mem'[p][w] = CellIn(pt'[p][w], data')
      BY MemCells
    <3>. QED  BY <1>1, <3>2, <3>3 DEF CellIn
  <2>4. Mem'[cur][v] = AS!Own(x, TRUE)
    <3>1. Mem'[cur][v] = CellIn(pt[cur][v], data')
      BY <1>1, <1>4, MemCells
    <3>2. data'[g] = x
      BY <1>1, <1>3, <1>5
    <3>3. CellIn(pt[cur][v], data') = AS!Own(x, pt[cur][v].wr \/ pt[cur][v].cow)
      BY <1>3, <1>8, <3>2 DEF CellIn
    <3>. QED  BY <1>3, <3>1, <3>3 DEF AS!Own
  <2>5. Mem' = [Mem EXCEPT ![cur][v] = AS!Own(x, TRUE)]
    <3>1. \A p \in Proc, w \in Page : p # cur \/ w # v => Mem'[p][w] = Mem[p][w]
      BY <2>3
    <3>. DEFINE c == AS!Own(x, TRUE)
    <3>2. cur \in Proc /\ Mem'[cur][v] = c
      BY <1>4, <2>4
    <3>. HIDE DEF c
    <3>3. Mem' = [Mem EXCEPT ![cur][v] = c]
      BY <3>1, <3>2, MemSet
    <3>. QED  BY <3>3 DEF c
  <2>6. File' = File
    BY <1>1, <1>3, <1>5, <2>1 DEF File
  <2>. QED  BY <1>1, <2>2, <2>5, <2>6 DEF AS!Store, AS!Set
<1>. QED  BY <1>7, <1>8

LEMMA MarkedCell ==
  ASSUME NEW e \in PteType, Sane(e), NEW d
  PROVE  CellIn(Marked(e), d) = CellIn(e, d)
<1>1. CASE e = NoPte \/ e.sh
  BY <1>1 DEF Marked
<1>2. CASE e # NoPte /\ ~e.sh
  <2>1. /\ Marked(e) # NoPte /\ ~Marked(e).sh /\ Marked(e).f = e.f
        /\ Marked(e).wr <=> FALSE
        /\ Marked(e).cow <=> e.cow \/ e.wr
    BY <1>2, MarkedEntry
  <2>2. (Marked(e).wr \/ Marked(e).cow) = (e.wr \/ e.cow)
    BY <2>1
  <2>3. CellIn(e, d) = AS!Own(d[e.f], e.wr \/ e.cow)
    BY <1>2 DEF CellIn
  <2>4. CellIn(Marked(e), d) = AS!Own(d[e.f], Marked(e).wr \/ Marked(e).cow)
    BY <2>1 DEF CellIn
  <2>. QED  BY <2>2, <2>3, <2>4
<1>. QED  BY <1>1, <1>2

LEMMA MarkedCells ==
  ASSUME PagingInv, NEW w \in Page
  PROVE  CellIn(MarkedAll(pt[cur])[w], data) = Mem[cur][w]
<1>1. CountInv /\ cur \in Proc
  BY InvParts, Parts
<1>2. pt[cur][w] \in PteType /\ Sane(pt[cur][w])
  BY <1>1, Parts DEF Table, SaneTables
<1>3. CellIn(Marked(pt[cur][w]), data) = CellIn(pt[cur][w], data)
  BY <1>2, MarkedCell
<1>4. MarkedAll(pt[cur])[w] = Marked(pt[cur][w])
  BY DEF MarkedAll
<1>. QED  BY <1>1, <1>3, <1>4, MemCells

LEMMA ForkFailsImplements ==
  ASSUME PagingInv, ForkFails
  PROVE  Mem' = Mem /\ File' = File /\ alive' = alive
<1>1. /\ pt' = [pt EXCEPT ![cur] = MarkedAll(pt[cur])]
      /\ UNCHANGED <<data, block, alive>>
  BY DEF ForkFails
<1>2. cur \in Proc /\ pt \in [Proc -> Table]
  BY InvParts, Parts
<1>3. KeepsData(data')
  BY <1>1, SameData
<1>4. ASSUME NEW p \in Proc, NEW w \in Page
      PROVE  Mem'[p][w] = Mem[p][w]
  <2>1. CASE p = cur
    <3>1. pt'[p][w] = MarkedAll(pt[cur])[w]
      BY <1>1, <1>2, <2>1
    <3>2. CellIn(MarkedAll(pt[cur])[w], data) = Mem[cur][w]
      BY MarkedCells
    <3>3. Mem'[p][w] = CellIn(pt'[p][w], data')
      BY MemCells
    <3>. QED  BY <1>1, <2>1, <3>1, <3>2, <3>3
  <2>2. CASE p # cur
    <3>1. pt'[p][w] = pt[p][w]
      BY <1>1, <1>2, <2>2
    <3>. QED  BY <1>3, <3>1, KeptCell
  <2>. QED  BY <2>1, <2>2
<1>5. Mem' = Mem
  BY <1>4, MemSame
<1>. QED  BY <1>1, <1>5 DEF File

\* A step on the whole table of a process, seen from above.
LEMMA MemTable ==
  ASSUME NEW q \in Proc, NEW r, r = [w \in Page |-> r[w]],
         \A p \in Proc, w \in Page : p # q => Mem'[p][w] = Mem[p][w],
         \A w \in Page : Mem'[q][w] = r[w]
  PROVE  Mem' = [Mem EXCEPT ![q] = r]
<1>1. \A p \in Proc : p # q => Mem'[p] = Mem[p]
  BY MemRow
<1>2. Mem'[q] = r
  BY MemShape
<1>. QED  BY <1>1, <1>2, MemShape

LEMMA ForkImplements ==
  ASSUME PagingInv, NEW c \in Proc, Fork(c)
  PROVE  AS!Fork(cur, c)
<1>. DEFINE m == MarkedAll(pt[cur])
<1>1. /\ c \notin alive /\ alive' = alive \cup {c}
      /\ pt' = [pt EXCEPT ![cur] = m, ![c] = m]
      /\ UNCHANGED <<data, block>>
  BY DEF Fork, CloneInto
<1>2. cur \in Proc /\ cur \in alive /\ pt \in [Proc -> Table]
  BY InvParts, Parts
<1>3. KeepsData(data')
  BY <1>1, SameData
<1>4. ASSUME NEW p \in Proc, NEW w \in Page, pt'[p] = m
      PROVE  Mem'[p][w] = Mem[cur][w]
  <2>1. CellIn(MarkedAll(pt[cur])[w], data) = Mem[cur][w]
    BY MarkedCells
  <2>2. Mem'[p][w] = CellIn(pt'[p][w], data')
    BY MemCells
  <2>. QED  BY <1>1, <1>4, <2>1, <2>2
<1>5. ASSUME NEW p \in Proc, NEW w \in Page, p # c
      PROVE  Mem'[p][w] = Mem[p][w]
  <2>1. CASE p = cur
    BY <1>1, <1>2, <1>4, <1>5, <2>1
  <2>2. CASE p # cur
    <3>1. pt'[p][w] = pt[p][w]
      BY <1>1, <1>2, <1>5, <2>2
    <3>. QED  BY <1>3, <3>1, KeptCell
  <2>. QED  BY <2>1, <2>2
<1>6. \A w \in Page : Mem'[c][w] = Mem[cur][w]
  <2>1. pt'[c] = m
    BY <1>1, <1>2
  <2>. QED  BY <1>4, <2>1
<1>. HIDE DEF m
<1>7. Mem[cur] = [w \in Page |-> Mem[cur][w]]
  BY <1>2, MemShape
<1>8. \A p \in Proc, w \in Page : p # c => Mem'[p][w] = Mem[p][w]
  BY <1>5
<1>9. Mem' = [Mem EXCEPT ![c] = Mem[cur]]
  BY <1>6, <1>7, <1>8, MemTable
<1>. QED  BY <1>1, <1>9 DEF AS!Fork, File

\* A step that replaces the table of the running process.
LEMMA ReplaceMem ==
  ASSUME PagingInv, NEW t, pt' = [pt EXCEPT ![cur] = t], KeepsData(data'),
         NEW r, r = [w \in Page |-> r[w]], \A w \in Page : CellIn(t[w], data') = r[w]
  PROVE  Mem' = [Mem EXCEPT ![cur] = r]
<1>1. cur \in Proc /\ pt \in [Proc -> Table]
  BY InvParts, Parts
<1>2. ASSUME NEW p \in Proc, NEW w \in Page, p # cur
      PROVE  Mem'[p][w] = Mem[p][w]
  <2>1. pt'[p][w] = pt[p][w]
    BY <1>1, <1>2
  <2>. QED  BY <2>1, KeptCell
<1>3. \A p \in Proc, w \in Page : p # cur => Mem'[p][w] = Mem[p][w]
  BY <1>2
<1>4. \A w \in Page : Mem'[cur][w] = r[w]
  <2>1. pt'[cur] = t
    BY <1>1
  <2>. QED  BY <1>1, <2>1, MemCells
<1>. QED  BY <1>1, <1>3, <1>4, MemTable

LEMMA ExecImplements ==
  ASSUME PagingInv, NEW v \in Page, NEW x \in Val, NEW rw \in BOOLEAN, NEW f \in Frame,
         Exec(v, x, rw, f)
  PROVE  AS!Exec(cur, v, x, rw)
<1>. DEFINE e == Pte(f, rw, FALSE, FALSE)
            t == [NoPtes EXCEPT ![v] = e]
            r == [AS!Holes EXCEPT ![v] = AS!Own(x, rw)]
<1>1. /\ f \notin taken /\ data' = [data EXCEPT ![f] = x]
      /\ pt' = [pt EXCEPT ![cur] = t] /\ UNCHANGED <<block, alive>>
  BY DEF Exec
<1>2. /\ KeepsData(data') /\ data'[f] = x
      /\ File = IF block = None THEN {} ELSE {data'[block]}
  BY <1>1, FreshData
<1>3. e.f = f /\ e.wr = rw /\ e.cow = FALSE /\ ~e.sh /\ e # NoPte
  BY PteFields, Names
<1>4. CellIn(e, data') = AS!Own(x, rw)
  <2>1. CellIn(e, data') = AS!Own(data'[e.f], e.wr \/ e.cow)
    BY <1>3 DEF CellIn
  <2>2. (e.wr \/ e.cow) = rw
    BY <1>3
  <2>. QED  BY <1>2, <1>3, <2>1, <2>2
<1>5. CellIn(NoPte, data') = AS!Hole
  BY DEF CellIn
<1>. HIDE DEF e
<1>6. t[v] = e /\ \A w \in Page : w # v => t[w] = NoPte
  BY DEF NoPtes
<1>7. /\ r[v] = AS!Own(x, rw) /\ r = [w \in Page |-> r[w]]
      /\ \A w \in Page : w # v => r[w] = AS!Hole
  BY DEF AS!Holes
<1>8. \A w \in Page : CellIn(t[w], data') = r[w]
  BY <1>4, <1>5, <1>6, <1>7
<1>9. r = [AS!Holes EXCEPT ![v] = AS!Own(x, rw)]
  OBVIOUS
<1>. HIDE DEF t, r
<1>10. Mem' = [Mem EXCEPT ![cur] = r]
  BY <1>1, <1>2, <1>7, <1>8, ReplaceMem
<1>11. File' = File
  BY <1>1, <1>2 DEF File
<1>. QED  BY <1>1, <1>9, <1>10, <1>11 DEF AS!Exec

LEMMA ExitImplements ==
  ASSUME PagingInv, NEW q \in Proc, Exit(q)
  PROVE  AS!Exit(cur)
<1>1. /\ alive' = alive \ {cur} /\ pt' = [pt EXCEPT ![cur] = NoPtes]
      /\ UNCHANGED <<data, block>>
  BY DEF Exit
<1>2. KeepsData(data')
  BY <1>1, SameData
<1>3. \A w \in Page : CellIn(NoPtes[w], data') = AS!Holes[w]
  BY Names DEF CellIn, AS!Holes
<1>4. AS!Holes = [w \in Page |-> AS!Holes[w]]
  BY DEF AS!Holes
<1>5. Mem' = [Mem EXCEPT ![cur] = AS!Holes]
  BY <1>1, <1>2, <1>3, <1>4, ReplaceMem
<1>6. File' = File
  BY <1>1 DEF File
<1>. QED  BY <1>1, <1>5, <1>6 DEF AS!Exit

LEMMA WriteFileImplements ==
  ASSUME PagingInv, NEW x \in Val, NEW f \in Frame, WriteFile(x, f)
  PROVE  AS!WriteFile(x)
<1>1. CountInv /\ data \in [AnyFrame -> Val] /\ f \in AnyFrame /\ f # None
  BY InvParts, Parts, Names
<1>2. data' = [data EXCEPT ![f] = x] /\ UNCHANGED <<pt, alive>> /\ block' = f
  BY DEF WriteFile
<1>3. File' = {x}
  BY <1>1, <1>2 DEF File
<1>4. KeepsData(data')
  <2>1. CASE block # None
    <3>1. f = block
      BY <2>1 DEF WriteFile
    <3>2. ASSUME NEW p \in Proc, NEW w \in Page, pt[p][w] # NoPte, ~pt[p][w].sh
          PROVE  data'[pt[p][w].f] = data[pt[p][w].f]
      <4>1. pt[p][w].f # f /\ pt[p][w].f \in AnyFrame
        BY <1>1, <3>1, <3>2, InvParts, MappedFrames
      <4>. QED  BY <1>1, <1>2, <4>1
    <3>. QED  BY <3>2 DEF KeepsData
  <2>2. CASE block = None
    <3>1. f \notin taken
      BY <2>2 DEF WriteFile
    <3>. QED  BY <1>2, <3>1, FreshData
  <2>. QED  BY <2>1, <2>2
<1>5. \A p \in Proc, w \in Page : Mem'[p][w] = Mem[p][w]
  BY <1>2, <1>4, KeptCell
<1>6. Mem' = Mem
  BY <1>5, MemSame
<1>. QED  BY <1>2, <1>3, <1>6 DEF AS!WriteFile

LEMMA TruncateImplements ==
  ASSUME PagingInv, Truncate
  PROVE  AS!Truncate
<1>1. /\ block' = None /\ UNCHANGED <<data, alive>>
      /\ pt' = [p \in Proc |-> [v \in Page |->
                  IF <<p, v>> \in FileEntries THEN NoPte ELSE pt[p][v]]]
  BY DEF Truncate
<1>2. File' = {}
  BY <1>1 DEF File
<1>3. ASSUME NEW p \in Proc, NEW v \in Page
      PROVE  Mem'[p][v] = IF Mem[p][v].kind = "file" THEN AS!Hole ELSE Mem[p][v]
  <2>1. Mem[p][v] = CellIn(pt[p][v], data) /\ Mem'[p][v] = CellIn(pt'[p][v], data)
    BY <1>1, MemCells
  <2>2. Mem[p][v].kind = "file" <=> pt[p][v] # NoPte /\ pt[p][v].sh
    BY <2>1, Kinds
  <2>3. pt'[p][v] = IF pt[p][v].sh THEN NoPte ELSE pt[p][v]
    BY <1>1 DEF FileEntries
  <2>4. pt[p][v].sh => pt[p][v] # NoPte
    BY Names
  <2>5. CellIn(NoPte, data) = AS!Hole
    BY DEF CellIn
  <2>. QED  BY <2>1, <2>2, <2>3, <2>4, <2>5
<1>4. Mem' = [p \in Proc |-> [v \in Page |->
                IF Mem[p][v].kind = "file" THEN AS!Hole ELSE Mem[p][v]]]
  <2>. DEFINE T == [p \in Proc |-> [v \in Page |->
                     IF Mem[p][v].kind = "file" THEN AS!Hole ELSE Mem[p][v]]]
  <2>1. \A p \in Proc : Mem'[p] = T[p]
    <3>1. SUFFICES ASSUME NEW p \in Proc PROVE Mem'[p] = T[p]
      OBVIOUS
    <3>2. Mem'[p] = [v \in Page |-> Mem'[p][v]]
      BY MemShape
    <3>3. T[p] = [v \in Page |-> IF Mem[p][v].kind = "file" THEN AS!Hole ELSE Mem[p][v]]
      OBVIOUS
    <3>. HIDE DEF T
    <3>. QED  BY <1>3, <3>2, <3>3
  <2>2. T = [p \in Proc |-> T[p]]
    OBVIOUS
  <2>. HIDE DEF T
  <2>3. Mem' = T
    BY <2>1, <2>2, MemShape
  <2>. QED  BY <2>3 DEF T
<1>. QED  BY <1>1, <1>2, <1>4 DEF AS!Truncate

LEMMA InitImplements == Init => AS!Init
<1>. SUFFICES ASSUME Init PROVE AS!Init
  OBVIOUS
<1>1. pt = [p \in Proc |-> NoPtes] /\ block = None /\ alive = {First}
  BY DEF Init
<1>2. \A p \in Proc, v \in Page : pt[p][v] = NoPte
  BY <1>1 DEF NoPtes
<1>3. Mem = [p \in Proc |-> AS!Holes]
  BY <1>2 DEF Mem, Cell, AS!Holes, AS!Hole
<1>. QED  BY <1>1, <1>3 DEF AS!Init, File

LEMMA NextImplements == PagingInv /\ [Next]_vars => [AS!Next]_(AS!vars)
<1>. SUFFICES ASSUME PagingInv, [Next]_vars
              PROVE  AS!Next \/ UNCHANGED <<Mem, File, alive>>
  BY DEF AS!vars
<1>1. cur \in alive
  BY InvParts, Parts
<1>2. ASSUME NEW v \in Page, Memory(v)
      PROVE  AS!Next \/ UNCHANGED <<Mem, File, alive>>
  <2>1. CASE MapZero(v) \/ \E f \in Frame : Brk(v, f)
    BY <1>1, <2>1, GrowImplements DEF AS!Next
  <2>2. CASE Unmap(v)
    BY <1>1, <2>2, UnmapImplements DEF AS!Next
  <2>3. CASE Load(v)
    <3>1. UNCHANGED <<pt, data, block, alive>>
      BY <2>3 DEF Load
    <3>. QED  BY <3>1, Stays
  <2>4. CASE CowInPlace(v) \/ \E f \in Frame : CowCopy(v, f)
    BY <2>4, CowImplements
  <2>5. CASE \E rw \in BOOLEAN : MapFile(v, rw)
    BY <1>1, <2>5, MapFileImplements DEF AS!Next
  <2>6. CASE \E x \in Val : Store(v, x)
    BY <1>1, <2>6, StoreImplements DEF AS!Next
  <2>7. CASE \E x \in Val, rw \in BOOLEAN, f \in Frame : Exec(v, x, rw, f)
    BY <1>1, <2>7, ExecImplements DEF AS!Next
  <2>. QED  BY <1>2, <2>1, <2>2, <2>3, <2>4, <2>5, <2>6, <2>7 DEF Memory
<1>3. ASSUME NEW q \in Proc, Fork(q) \/ Exit(q) \/ Switch(q)
      PROVE  AS!Next \/ UNCHANGED <<Mem, File, alive>>
  <2>1. CASE Fork(q)
    BY <1>1, <2>1, ForkImplements DEF AS!Next
  <2>2. CASE Exit(q)
    BY <1>1, <2>2, ExitImplements DEF AS!Next
  <2>3. CASE Switch(q)
    <3>1. UNCHANGED <<pt, data, block, alive>>
      BY <2>3 DEF Switch
    <3>. QED  BY <3>1, Stays
  <2>. QED  BY <1>3, <2>1, <2>2, <2>3
<1>4. CASE ForkFails
  BY <1>4, ForkFailsImplements
<1>5. ASSUME NEW f \in Frame, NEW x \in Val, WriteFile(x, f)
      PROVE  AS!Next
  BY <1>5, WriteFileImplements DEF AS!Next
<1>6. CASE Truncate
  BY <1>6, TruncateImplements DEF AS!Next
<1>7. CASE UNCHANGED vars
  BY <1>7, Stays DEF vars
<1>. QED  BY <1>2, <1>3, <1>4, <1>5, <1>6, <1>7 DEF Next

\* Copy-on-write, the zero page, the counts and the cached entries cannot be
\* seen: the processes have the memory that AddressSpaces promises.
THEOREM PagingImplements == Spec => ImplementsAddressSpaces
<1>. QED  BY InitImplements, NextImplements, PagingAlways, PTL
          DEF Spec, ImplementsAddressSpaces, AS!Spec
=============================================================================
