------------------------ MODULE TilckHandles_proofs ------------------------
(***************************************************************************)
(* Theorems about TilckHandles: for any number of processes, descriptors   *)
(* and pages, h_refs counts the descriptors, nobody runs on the mappings   *)
(* of a process that is gone, and no mapping outlives its description.     *)
(***************************************************************************)
EXTENDS TilckHandles, FiniteSetTheorems, TLAPS

\* The users of h in tables H, those in rows other than p, and those in one row.
UsersOf(H, h) == {u \in Proc \X Fd : H[u[1]][u[2]] = h}
OthersOf(H, p, h) == {u \in (Proc \ {p}) \X Fd : H[u[1]][u[2]] = h}
RowOf(r, h)   == {i \in Fd : r[i] = h}
OtherRows(H, G, p) == \A q \in Proc : q # p => G[q] = H[q]
OtherSlots(H, G, p, i) ==
  OtherRows(H, G, p) /\ \A j \in Fd : j # i => G[p][j] = H[p][j]
One(v, h)     == IF v = h THEN 1 ELSE 0
Row           == [Fd -> Handle \cup {None}]

LEMMA FdFinite == IsFiniteSet(Fd) /\ Fd \subseteq Int
<1>1. MaxHandles \in Nat
  BY HandlesAssumption
<1>2. IsFiniteSet(0..(MaxHandles - 1))
  BY <1>1, FS_Interval
<1>. QED  BY <1>1, <1>2 DEF Fd

LEMMA UsersFinite ==
  ASSUME NEW H, NEW h
  PROVE  IsFiniteSet(UsersOf(H, h)) /\ Cardinality(UsersOf(H, h)) \in Nat
<1>1. IsFiniteSet(Proc) /\ IsFiniteSet(Fd)
  BY HandlesAssumption, FdFinite
<1>2. IsFiniteSet(Proc \X Fd)
  BY <1>1, FS_Product
<1>3. UsersOf(H, h) \in SUBSET (Proc \X Fd)
  BY DEF UsersOf
<1>4. IsFiniteSet(UsersOf(H, h))
  BY <1>2, <1>3, FS_Subset
<1>. QED  BY <1>4, FS_CardinalityType

LEMMA RowFinite ==
  ASSUME NEW R, R \subseteq Fd
  PROVE  IsFiniteSet(R) /\ Cardinality(R) \in Nat
<1>1. IsFiniteSet(Fd) /\ R \in SUBSET Fd
  BY FdFinite
<1>2. IsFiniteSet(R)
  BY <1>1, FS_Subset
<1>. QED  BY <1>2, FS_CardinalityType

LEMMA RowPairs ==
  ASSUME NEW p, NEW R, R \subseteq Fd
  PROVE  IsFiniteSet({p} \X R) /\ Cardinality({p} \X R) = Cardinality(R)
<1>1. IsFiniteSet(R) /\ Cardinality(R) \in Nat
  BY RowFinite
<1>2. IsFiniteSet({p}) /\ Cardinality({p}) = 1
  BY FS_Singleton
<1>3. /\ IsFiniteSet({p} \X R)
      /\ Cardinality({p} \X R) = Cardinality({p}) * Cardinality(R)
  BY <1>1, <1>2, FS_Product
<1>. QED  BY <1>1, <1>2, <1>3

\* The users of h are those in other rows and those in row p.
LEMMA UsersSplit ==
  ASSUME NEW H, NEW p \in Proc, NEW h
  PROVE  /\ Cardinality(OthersOf(H, p, h)) \in Nat
         /\ Cardinality(UsersOf(H, h)) =
              Cardinality(OthersOf(H, p, h)) + Cardinality(RowOf(H[p], h))
<1>. DEFINE Others == OthersOf(H, p, h)
            Mine   == {p} \X RowOf(H[p], h)
<1>1. UsersOf(H, h) = Others \cup Mine
  BY DEF UsersOf, RowOf, OthersOf
<1>2. Others \cap Mine = {}
  BY DEF OthersOf
<1>3. Others \in SUBSET UsersOf(H, h)
  BY <1>1
<1>4. IsFiniteSet(UsersOf(H, h))
  BY UsersFinite
<1>5. IsFiniteSet(Others)
  BY <1>3, <1>4, FS_Subset
<1>6. Cardinality(Others) \in Nat
  BY <1>5, FS_CardinalityType
<1>7. RowOf(H[p], h) \subseteq Fd
  BY DEF RowOf
<1>8. IsFiniteSet(Mine) /\ Cardinality(Mine) = Cardinality(RowOf(H[p], h))
  BY <1>7, RowPairs
<1>9. Cardinality(RowOf(H[p], h)) \in Nat
  BY <1>7, RowFinite
<1>. HIDE DEF Others, Mine
<1>10. Cardinality(Others \cup Mine) =
         Cardinality(Others) + Cardinality(Mine) - Cardinality(Others \cap Mine)
  BY <1>5, <1>8, FS_Union
<1>11. Cardinality(Others \cap Mine) = 0
  BY <1>2, FS_EmptySet
<1>12. Cardinality(UsersOf(H, h)) = Cardinality(Others \cup Mine)
  BY <1>1
<1>13. Cardinality(UsersOf(H, h)) = Cardinality(Others) + Cardinality(RowOf(H[p], h))
  BY <1>6, <1>8, <1>9, <1>10, <1>11, <1>12
<1>. QED  BY <1>6, <1>13 DEF Others

\* A change of row p changes the count by what that row changes.
LEMMA RowChange ==
  ASSUME NEW H, NEW G, NEW p \in Proc, NEW h, OtherRows(H, G, p)
  PROVE  Cardinality(UsersOf(G, h)) + Cardinality(RowOf(H[p], h)) =
           Cardinality(UsersOf(H, h)) + Cardinality(RowOf(G[p], h))
<1>1. OthersOf(G, p, h) = OthersOf(H, p, h)
  BY DEF OthersOf, OtherRows
<1>2. /\ Cardinality(OthersOf(H, p, h)) \in Nat
      /\ Cardinality(UsersOf(H, h)) =
           Cardinality(OthersOf(H, p, h)) + Cardinality(RowOf(H[p], h))
  BY UsersSplit
<1>3. Cardinality(UsersOf(G, h)) =
        Cardinality(OthersOf(G, p, h)) + Cardinality(RowOf(G[p], h))
  BY UsersSplit
<1>4. Cardinality(RowOf(H[p], h)) \in Nat /\ Cardinality(RowOf(G[p], h)) \in Nat
  BY RowFinite DEF RowOf
<1>5. Cardinality(OthersOf(G, p, h)) = Cardinality(OthersOf(H, p, h))
  BY <1>1
<1>. QED  BY <1>2, <1>3, <1>4, <1>5

\* A change of one descriptor.
LEMMA SlotChange ==
  ASSUME NEW H, NEW G, NEW p \in Proc, NEW i \in Fd, NEW h, OtherSlots(H, G, p, i)
  PROVE  Cardinality(UsersOf(G, h)) + One(H[p][i], h) =
           Cardinality(UsersOf(H, h)) + One(G[p][i], h)
<1>. DEFINE R == RowOf(H[p], h)
<1>1. RowOf(G[p], h) = IF G[p][i] = h THEN (R \ {i}) \cup {i} ELSE R \ {i}
  BY DEF RowOf, OtherSlots
<1>2. (i \in R) <=> H[p][i] = h
  BY DEF RowOf
<1>3. IsFiniteSet(R) /\ Cardinality(R) \in Nat
  BY RowFinite DEF RowOf
<1>4. Cardinality(UsersOf(G, h)) + Cardinality(R) =
        Cardinality(UsersOf(H, h)) + Cardinality(RowOf(G[p], h))
  BY RowChange DEF OtherSlots
<1>. HIDE DEF R
<1>5. /\ IsFiniteSet(R \ {i})
      /\ Cardinality(R \ {i}) = IF i \in R THEN Cardinality(R) - 1 ELSE Cardinality(R)
  BY <1>3, FS_RemoveElement
<1>6. i \notin R \ {i}
  OBVIOUS
<1>7. Cardinality((R \ {i}) \cup {i}) = Cardinality(R \ {i}) + 1
  BY <1>5, <1>6, FS_AddElement
<1>8. Cardinality(RowOf(G[p], h)) = Cardinality(R) - One(H[p][i], h)
                                                   + One(G[p][i], h)
  BY <1>1, <1>2, <1>3, <1>5, <1>7 DEF One
<1>9. Cardinality(UsersOf(H, h)) \in Nat /\ Cardinality(UsersOf(G, h)) \in Nat
  BY UsersFinite
<1>. QED  BY <1>3, <1>4, <1>8, <1>9 DEF One

-----------------------------------------------------------------------------
Mapping == [h: Handle \cup {None}, pi: Proc \cup {None}]

\* A slot without a process holds nothing that fork would have to count.
Ended == \A p \in Proc : mi[p] = None => handles[p] = Closed

CountInv == TypeOK /\ RefsCountUsers /\ Ended

LEMMA CountInvParts ==
  ASSUME CountInv
  PROVE  /\ handles \in [Proc -> Row]
         /\ flags \in [Proc -> SUBSET Fd]
         /\ refs \in [Handle -> Nat]
         /\ mi \in [Proc -> Proc \cup {None}]
         /\ maps \in [Proc -> [Page -> Mapping]]
         /\ vparent \in [Proc -> Proc \cup {None}]
         /\ \A h \in Handle : refs[h] = Cardinality(UsersOf(handles, h))
         /\ Ended
         /\ NoMaps \in [Page -> Mapping] /\ Closed \in Row
         /\ None \notin Proc /\ None \notin Handle
BY HandlesAssumption
   DEF CountInv, TypeOK, RefsCountUsers, Users, UsersOf, Row, Mapping, NoMaps, NoMap, Closed

\* The counts give their own type: a step need not show that it counts in Nat.
LEMMA CountInvNext ==
  ASSUME handles' \in [Proc -> Row],
         flags' \in [Proc -> SUBSET Fd],
         mi' \in [Proc -> Proc \cup {None}],
         maps' \in [Proc -> [Page -> Mapping]],
         vparent' \in [Proc -> Proc \cup {None}],
         refs' \in [Handle -> Int],
         \A h \in Handle : refs'[h] = Cardinality(UsersOf(handles', h)),
         Ended'
  PROVE  CountInv'
<1>1. \A h \in Handle : refs'[h] \in Nat
  BY UsersFinite
<1>2. refs' \in [Handle -> Nat]
  BY <1>1
<1>3. TypeOK'
  BY <1>2 DEF TypeOK, Row, Mapping
<1>4. RefsCountUsers'
  BY DEF RefsCountUsers, Users, UsersOf
<1>. QED  BY <1>3, <1>4 DEF CountInv

LEMMA ClosedMapsTyped ==
  ASSUME CountInv, NEW p \in Proc, NEW h
  PROVE  MapsAfterClose(p, h) \in [Proc -> [Page -> Mapping]]
<1>1. maps \in [Proc -> [Page -> Mapping]] /\ NoMap \in Mapping
  BY CountInvParts DEF NoMap, Mapping
<1>2. \A ms \in [Page -> Mapping] : Unmap(ms, h) \in [Page -> Mapping]
  BY <1>1 DEF Unmap
<1>. QED  BY <1>1, <1>2 DEF MapsAfterClose

LEMMA FlagTyped ==
  ASSUME CountInv, NEW p \in Proc, NEW i \in Fd, NEW c
  PROVE  WithFlag(p, i, c) \in [Proc -> SUBSET Fd]
BY CountInvParts DEF WithFlag

\* A step that changes descriptor i of p changes the users of h accordingly.
LEMMA SlotUsers ==
  ASSUME CountInv, NEW p \in Proc, NEW i \in Fd, NEW h \in Handle,
         OtherSlots(handles, handles', p, i)
  PROVE  Cardinality(UsersOf(handles', h)) =
           refs[h] - One(handles[p][i], h) + One(handles'[p][i], h)
<1>1. Cardinality(UsersOf(handles', h)) + One(handles[p][i], h) =
        Cardinality(UsersOf(handles, h)) + One(handles'[p][i], h)
  BY SlotChange
<1>2. refs[h] = Cardinality(UsersOf(handles, h)) /\ refs[h] \in Nat
  BY CountInvParts
<1>3. Cardinality(UsersOf(handles', h)) \in Nat
  BY UsersFinite
<1>4. One(handles[p][i], h) \in Nat /\ One(handles'[p][i], h) \in Nat
  BY DEF One
<1>. QED  BY <1>1, <1>2, <1>3, <1>4

\* sys_close, sys_open and F_SETFD: one descriptor at most.
LEMMA CloseCounts ==
  ASSUME CountInv, NEW p \in Proc, NEW i \in Fd, Close(p, i)
  PROVE  CountInv'
<1>. DEFINE old == handles[p][i]
<1>1. mi[p] # None /\ old \in Handle
  BY CountInvParts DEF Close, Running, Row
<1>2. handles' = [handles EXCEPT ![p][i] = None]
  BY DEF Close
<1>3. handles' \in [Proc -> Row]
  BY <1>2, CountInvParts DEF Row
<1>4. /\ flags' \in [Proc -> SUBSET Fd]
      /\ mi' \in [Proc -> Proc \cup {None}]
      /\ vparent' \in [Proc -> Proc \cup {None}]
  BY CountInvParts DEF Close
<1>5. maps' \in [Proc -> [Page -> Mapping]]
  BY ClosedMapsTyped DEF Close
<1>. HIDE DEF old
<1>6. /\ refs' \in [Handle -> Int]
      /\ \A h \in Handle : refs'[h] = refs[h] - (IF h = old THEN 1 ELSE 0)
  <2>1. refs' = [refs EXCEPT ![old] = @ - 1] /\ refs \in [Handle -> Nat]
    BY CountInvParts DEF Close, old
  <2>2. refs' \in [Handle -> Int]
    BY <1>1, <2>1
  <2>3. \A h \in Handle : refs'[h] = refs[h] - (IF h = old THEN 1 ELSE 0)
    BY <1>1, <2>1
  <2>. QED  BY <2>2, <2>3
<1>7. OtherSlots(handles, handles', p, i)
  BY <1>2, CountInvParts DEF Row, OtherSlots, OtherRows
<1>a. handles'[p][i] = None
  BY <1>2, CountInvParts DEF Row
<1>8. ASSUME NEW h \in Handle
      PROVE  refs'[h] = Cardinality(UsersOf(handles', h))
  <2>1. Cardinality(UsersOf(handles', h)) =
          refs[h] - One(handles[p][i], h) + One(handles'[p][i], h)
    BY <1>7, SlotUsers
  <2>2. refs[h] \in Nat /\ None # h
    BY CountInvParts
  <2>3. /\ One(handles'[p][i], h) = 0
        /\ One(handles[p][i], h) = IF h = old THEN 1 ELSE 0
    BY <1>a, <2>2 DEF One, old
  <2>. QED  BY <1>6, <2>1, <2>2, <2>3
<1>9. Ended'
  BY <1>1, <1>2, CountInvParts DEF Ended, Close
<1>. QED  BY <1>3, <1>4, <1>5, <1>6, <1>8, <1>9, CountInvNext

LEMMA OpenCounts ==
  ASSUME CountInv, NEW p \in Proc, NEW f \in Handle, NEW c \in BOOLEAN, Open(p, f, c)
  PROVE  CountInv'
<1>1. PICK i \in Fd : /\ i \in Free(p, 0)
                      /\ handles' = [handles EXCEPT ![p][i] = f]
                      /\ flags' = WithFlag(p, i, c)
  BY DEF Open, Lowest
<1>2. mi[p] # None /\ handles[p][i] = None
  BY <1>1 DEF Open, Running, Free
<1>3. handles' \in [Proc -> Row]
  BY <1>1, CountInvParts DEF Row
<1>4. /\ flags' \in [Proc -> SUBSET Fd]
      /\ mi' \in [Proc -> Proc \cup {None}]
      /\ maps' \in [Proc -> [Page -> Mapping]]
      /\ vparent' \in [Proc -> Proc \cup {None}]
  BY <1>1, FlagTyped, CountInvParts DEF Open
<1>5. /\ refs' \in [Handle -> Int]
      /\ \A h \in Handle : refs'[h] = refs[h] + (IF h = f THEN 1 ELSE 0)
  <2>1. refs' = [refs EXCEPT ![f] = 1] /\ refs[f] = 0 /\ refs \in [Handle -> Nat]
    BY CountInvParts DEF Open
  <2>2. refs' \in [Handle -> Int]
    BY <2>1
  <2>3. \A h \in Handle : refs'[h] = refs[h] + (IF h = f THEN 1 ELSE 0)
    BY <2>1
  <2>. QED  BY <2>2, <2>3
<1>6. OtherSlots(handles, handles', p, i)
  BY <1>1, CountInvParts DEF Row, OtherSlots, OtherRows
<1>a. handles'[p][i] = f
  BY <1>1, CountInvParts DEF Row
<1>7. ASSUME NEW h \in Handle
      PROVE  refs'[h] = Cardinality(UsersOf(handles', h))
  <2>1. Cardinality(UsersOf(handles', h)) =
          refs[h] - One(handles[p][i], h) + One(handles'[p][i], h)
    BY <1>6, SlotUsers
  <2>2. refs[h] \in Nat /\ None # h
    BY CountInvParts
  <2>3. /\ One(handles[p][i], h) = 0
        /\ One(handles'[p][i], h) = IF h = f THEN 1 ELSE 0
    BY <1>2, <1>a, <2>2 DEF One
  <2>. QED  BY <1>5, <2>1, <2>2, <2>3
<1>8. Ended'
  BY <1>1, <1>2, CountInvParts DEF Ended, Open
<1>. QED  BY <1>3, <1>4, <1>5, <1>7, <1>8, CountInvNext

LEMMA SetFdCounts ==
  ASSUME CountInv, NEW p \in Proc, NEW i \in Fd, NEW c \in BOOLEAN, SetFd(p, i, c)
  PROVE  CountInv'
<1>1. flags' \in [Proc -> SUBSET Fd]
  BY FlagTyped DEF SetFd
<1>2. UNCHANGED <<handles, refs, mi, maps, vparent>>
  BY DEF SetFd
<1>3. \A h \in Handle : refs'[h] = Cardinality(UsersOf(handles', h))
  BY <1>2, CountInvParts
<1>4. refs' \in [Handle -> Int]
  BY <1>2, CountInvParts
<1>5. Ended'
  BY <1>2, CountInvParts DEF Ended
<1>. QED  BY <1>1, <1>2, <1>3, <1>4, <1>5, CountInvParts, CountInvNext

\* sys_dup2, which closes what newfd had.
LEMMA Dup2Counts ==
  ASSUME CountInv, NEW p \in Proc, NEW i \in Fd, NEW j \in Fd, NEW c \in BOOLEAN,
         Dup2(p, i, j, c)
  PROVE  CountInv'
<1>. DEFINE old == handles[p][i]
            new == handles[p][j]
<1>1. mi[p] # None /\ old \in Handle
  BY CountInvParts DEF Dup2, Running, Row
<1>2. handles' = [handles EXCEPT ![p][j] = old]
  BY DEF Dup2
<1>3. handles' \in [Proc -> Row]
  BY <1>1, <1>2, CountInvParts DEF Row
<1>4. /\ flags' \in [Proc -> SUBSET Fd]
      /\ mi' \in [Proc -> Proc \cup {None}]
      /\ maps' \in [Proc -> [Page -> Mapping]]
      /\ vparent' \in [Proc -> Proc \cup {None}]
  BY FlagTyped, ClosedMapsTyped, CountInvParts DEF Dup2
<1>5. /\ refs' \in [Handle -> Int]
      /\ \A h \in Handle : refs'[h] = refs[h] - One(new, h) + One(old, h)
  <2>1. refs' = [h \in Handle |-> refs[h] - One(new, h) + One(old, h)]
    BY DEF Dup2, One
  <2>2. \A h \in Handle : refs[h] \in Int /\ One(new, h) \in Int /\ One(old, h) \in Int
    BY CountInvParts DEF One
  <2>. QED  BY <2>1, <2>2
<1>6. OtherSlots(handles, handles', p, j)
  BY <1>2, CountInvParts DEF Row, OtherSlots, OtherRows
<1>7. handles'[p][j] = old
  BY <1>2, CountInvParts DEF Row
<1>8. ASSUME NEW h \in Handle
      PROVE  refs'[h] = Cardinality(UsersOf(handles', h))
  <2>1. Cardinality(UsersOf(handles', h)) =
          refs[h] - One(handles[p][j], h) + One(handles'[p][j], h)
    BY <1>6, SlotUsers
  <2>. QED  BY <1>5, <1>7, <2>1
<1>9. Ended'
  BY <1>1, <1>2, CountInvParts DEF Ended, Dup2
<1>. QED  BY <1>3, <1>4, <1>5, <1>8, <1>9, CountInvNext

\* sys_pipe2: two slots, one after the other.
LEMMA Pipe2Counts ==
  ASSUME CountInv, NEW p \in Proc, NEW r \in Handle, NEW w \in Handle,
         NEW c \in BOOLEAN, Pipe2(p, r, w, c)
  PROVE  CountInv'
<1>1. PICK i \in Fd, j \in Fd :
        /\ i \in Free(p, 0) /\ j \in Free(p, i + 1)
        /\ handles' = [handles EXCEPT ![p][i] = r, ![p][j] = w]
        /\ flags' = [flags EXCEPT ![p] = IF c THEN @ \cup {i, j} ELSE @ \ {i, j}]
  BY DEF Pipe2, Lowest
<1>2. /\ mi[p] # None /\ r # w
      /\ handles[p][i] = None /\ handles[p][j] = None
  BY <1>1 DEF Pipe2, Running, Free
<1>3. i # j
  BY <1>1, FdFinite DEF Free
<1>4. handles' \in [Proc -> Row]
  BY <1>1, CountInvParts DEF Row
<1>5. /\ mi' \in [Proc -> Proc \cup {None}]
      /\ maps' \in [Proc -> [Page -> Mapping]]
      /\ vparent' \in [Proc -> Proc \cup {None}]
  BY CountInvParts DEF Pipe2
<1>6. flags' \in [Proc -> SUBSET Fd]
  BY <1>1, CountInvParts
<1>7. /\ refs' \in [Handle -> Int]
      /\ \A h \in Handle : refs'[h] = refs[h] + One(r, h) + One(w, h)
  <2>1. /\ refs' = [refs EXCEPT ![r] = 1, ![w] = 1]
        /\ refs[r] = 0 /\ refs[w] = 0 /\ refs \in [Handle -> Nat]
    BY CountInvParts DEF Pipe2
  <2>2. refs' \in [Handle -> Int]
    BY <2>1
  <2>3. \A h \in Handle : refs'[h] = refs[h] + One(r, h) + One(w, h)
    BY <1>2, <2>1 DEF One
  <2>. QED  BY <2>2, <2>3
<1>. DEFINE G == [handles EXCEPT ![p][i] = r]
<1>8. /\ OtherSlots(handles, G, p, i) /\ G[p][i] = r
      /\ OtherSlots(G, handles', p, j) /\ handles'[p][j] = w /\ G[p][j] = None
  BY <1>1, <1>2, <1>3, CountInvParts DEF Row, OtherSlots, OtherRows
<1>. HIDE DEF G
<1>9. ASSUME NEW h \in Handle
      PROVE  refs'[h] = Cardinality(UsersOf(handles', h))
  <2>1. OtherSlots(handles, G, p, i) /\ OtherSlots(G, handles', p, j)
    BY <1>8
  <2>2. Cardinality(UsersOf(G, h)) + One(handles[p][i], h) =
          Cardinality(UsersOf(handles, h)) + One(G[p][i], h)
    BY <2>1, SlotChange
  <2>3. Cardinality(UsersOf(handles', h)) + One(G[p][j], h) =
          Cardinality(UsersOf(G, h)) + One(handles'[p][j], h)
    BY <2>1, SlotChange
  <2>4. /\ refs[h] = Cardinality(UsersOf(handles, h)) /\ refs[h] \in Nat
        /\ One(None, h) = 0 /\ One(r, h) \in Nat /\ One(w, h) \in Nat
    BY CountInvParts DEF One
  <2>5. Cardinality(UsersOf(handles', h)) \in Nat /\ Cardinality(UsersOf(G, h)) \in Nat
    BY UsersFinite
  <2>6. Cardinality(UsersOf(G, h)) = refs[h] + One(r, h)
    BY <1>2, <1>8, <2>2, <2>4, <2>5
  <2>7. Cardinality(UsersOf(handles', h)) = refs[h] + One(r, h) + One(w, h)
    BY <1>8, <2>3, <2>4, <2>5, <2>6
  <2>. QED  BY <1>7, <2>7
<1>10. Ended'
  BY <1>1, <1>2, CountInvParts DEF Ended, Pipe2
<1>. QED  BY <1>4, <1>5, <1>6, <1>7, <1>9, <1>10, CountInvNext

\* sys_mmap and sys_munmap: nothing but the mappings.
LEMMA MapsCounts ==
  ASSUME CountInv, UNCHANGED <<handles, flags, refs, mi, vparent>>,
         maps' \in [Proc -> [Page -> Mapping]]
  PROVE  CountInv'
<1>1. \A h \in Handle : refs'[h] = Cardinality(UsersOf(handles', h))
  BY CountInvParts
<1>2. refs' \in [Handle -> Int]
  BY CountInvParts
<1>3. Ended'
  BY CountInvParts DEF Ended
<1>. QED  BY <1>1, <1>2, <1>3, CountInvParts, CountInvNext

LEMMA MmapCounts ==
  ASSUME CountInv, NEW p \in Proc, NEW i \in Fd, NEW G, Mmap(p, i, G)
  PROVE  CountInv'
<1>1. [h |-> handles[p][i], pi |-> p] \in Mapping
  BY CountInvParts DEF Mapping, Row
<1>2. maps' \in [Proc -> [Page -> Mapping]]
  BY <1>1, CountInvParts DEF Mmap
<1>3. UNCHANGED <<handles, flags, refs, mi, vparent>>
  BY DEF Mmap
<1>. QED  BY <1>2, <1>3, MapsCounts

LEMMA MunmapCounts ==
  ASSUME CountInv, NEW p \in Proc, NEW G, Munmap(p, G)
  PROVE  CountInv'
<1>1. NoMap \in Mapping
  BY DEF Mapping, NoMap
<1>2. maps' \in [Proc -> [Page -> Mapping]]
  BY <1>1, CountInvParts DEF Munmap
<1>3. UNCHANGED <<handles, flags, refs, mi, vparent>>
  BY DEF Munmap
<1>. QED  BY <1>2, <1>3, MapsCounts

\* A step that replaces the row of p.
LEMMA RowUsers ==
  ASSUME CountInv, NEW p \in Proc, NEW h \in Handle, OtherRows(handles, handles', p)
  PROVE  Cardinality(UsersOf(handles', h)) =
           refs[h] - Cardinality(FdsOf(p, h)) + Cardinality(RowOf(handles'[p], h))
<1>1. Cardinality(UsersOf(handles', h)) + Cardinality(RowOf(handles[p], h)) =
        Cardinality(UsersOf(handles, h)) + Cardinality(RowOf(handles'[p], h))
  BY RowChange
<1>2. refs[h] = Cardinality(UsersOf(handles, h)) /\ refs[h] \in Nat
  BY CountInvParts
<1>3. /\ Cardinality(UsersOf(handles', h)) \in Nat
      /\ Cardinality(RowOf(handles[p], h)) \in Nat
      /\ Cardinality(RowOf(handles'[p], h)) \in Nat
  BY UsersFinite, RowFinite DEF RowOf
<1>4. RowOf(handles[p], h) = FdsOf(p, h)
  BY DEF RowOf, FdsOf
<1>. QED  BY <1>1, <1>2, <1>3, <1>4

LEMMA NoUsers ==
  ASSUME NEW h \in Handle
  PROVE  RowOf(Closed, h) = {} /\ Cardinality(RowOf(Closed, h)) = 0
<1>1. RowOf(Closed, h) = {}
  BY HandlesAssumption DEF RowOf, Closed
<1>. QED  BY <1>1, FS_EmptySet

\* fork and vfork: the child's row is its parent's.
LEMMA InheritCounts ==
  ASSUME CountInv, NEW p \in Proc, NEW c \in Proc, Inherit(p, c),
         mi' \in [Proc -> Proc \cup {None}],
         \A q \in Proc : q # c => mi'[q] = mi[q],
         mi'[c] # None,
         maps' \in [Proc -> [Page -> Mapping]],
         vparent' \in [Proc -> Proc \cup {None}]
  PROVE  CountInv'
<1>1. handles' = [handles EXCEPT ![c] = handles[p]] /\ handles[c] = Closed
  BY CountInvParts DEF Inherit, Ended
<1>2. handles' \in [Proc -> Row] /\ flags' \in [Proc -> SUBSET Fd]
  BY <1>1, CountInvParts DEF Inherit
<1>3. OtherRows(handles, handles', c)
  BY <1>1, CountInvParts DEF OtherRows
<1>4. handles'[c] = handles[p]
  BY <1>1, CountInvParts
<1>5. \A h \in Handle : Cardinality(FdsOf(p, h)) \in Nat
  BY RowFinite DEF FdsOf
<1>6. refs' = [h \in Handle |-> refs[h] + Cardinality(FdsOf(p, h))]
  BY DEF Inherit
<1>7. refs' \in [Handle -> Int]
  BY <1>5, <1>6, CountInvParts
<1>8. ASSUME NEW h \in Handle
      PROVE  refs'[h] = Cardinality(UsersOf(handles', h))
  <2>1. Cardinality(UsersOf(handles', h)) =
          refs[h] - Cardinality(FdsOf(c, h)) + Cardinality(RowOf(handles'[c], h))
    BY <1>3, RowUsers
  <2>2. FdsOf(c, h) = RowOf(Closed, h)
    BY <1>1 DEF FdsOf, RowOf
  <2>3. Cardinality(FdsOf(c, h)) = 0
    BY <2>2, NoUsers
  <2>4. RowOf(handles'[c], h) = FdsOf(p, h)
    BY <1>4 DEF FdsOf, RowOf
  <2>5. refs[h] \in Nat /\ refs'[h] = refs[h] + Cardinality(FdsOf(p, h))
    BY <1>6, CountInvParts
  <2>. QED  BY <1>5, <2>1, <2>3, <2>4, <2>5
<1>9. Ended'
  BY <1>1, CountInvParts DEF Ended
<1>. QED  BY <1>2, <1>7, <1>8, <1>9, CountInvNext

LEMMA ForkCounts ==
  ASSUME CountInv, NEW p \in Proc, NEW c \in Proc, Fork(p, c)
  PROVE  CountInv'
<1>1. \A ms \in [Page -> Mapping] : Copies(ms, c) \in [Page -> Mapping]
  BY DEF Copies, Mapping, NoMap
<1>2. mi[p] \in Proc
  BY CountInvParts DEF Fork, Inherit, Running
<1>3. maps' \in [Proc -> [Page -> Mapping]]
  BY <1>1, <1>2, CountInvParts DEF Fork
<1>4. /\ mi' \in [Proc -> Proc \cup {None}]
      /\ \A q \in Proc : q # c => mi'[q] = mi[q]
      /\ mi'[c] # None
  BY CountInvParts DEF Fork
<1>5. vparent' \in [Proc -> Proc \cup {None}] /\ Inherit(p, c)
  BY CountInvParts DEF Fork
<1>. QED  BY <1>3, <1>4, <1>5, InheritCounts

LEMMA VforkCounts ==
  ASSUME CountInv, NEW p \in Proc, NEW c \in Proc, Vfork(p, c)
  PROVE  CountInv'
<1>1. mi[p] \in Proc
  BY CountInvParts DEF Vfork, Inherit, Running
<1>2. maps' \in [Proc -> [Page -> Mapping]]
  BY CountInvParts DEF Vfork
<1>3. /\ mi' \in [Proc -> Proc \cup {None}]
      /\ \A q \in Proc : q # c => mi'[q] = mi[q]
      /\ mi'[c] # None
  BY <1>1, CountInvParts DEF Vfork
<1>4. vparent' \in [Proc -> Proc \cup {None}] /\ Inherit(p, c)
  BY CountInvParts DEF Vfork
<1>. QED  BY <1>2, <1>3, <1>4, InheritCounts

\* close_cloexec_handles: the row loses the descriptors to close.
LEMMA ExecCounts ==
  ASSUME CountInv, NEW p \in Proc, Exec(p)
  PROVE  CountInv'
<1>. DEFINE r == [i \in Fd |-> IF i \in ToClose(p) THEN None ELSE handles[p][i]]
<1>1. handles' = [handles EXCEPT ![p] = r]
  BY CountInvParts DEF Exec
<1>2. r \in Row
  BY CountInvParts DEF Row
<1>3. \A h \in Handle : RowOf(r, h) = FdsOf(p, h) \ ToClose(p)
  BY CountInvParts DEF RowOf, FdsOf
<1>. HIDE DEF r
<1>4. handles' \in [Proc -> Row] /\ handles'[p] = r
  BY <1>1, <1>2, CountInvParts
<1>5. OtherRows(handles, handles', p)
  BY <1>1, CountInvParts DEF OtherRows
<1>6. /\ flags' \in [Proc -> SUBSET Fd]
      /\ mi' \in [Proc -> Proc \cup {None}]
      /\ maps' \in [Proc -> [Page -> Mapping]]
      /\ vparent' \in [Proc -> Proc \cup {None}]
  BY CountInvParts DEF Exec
<1>7. ASSUME NEW h \in Handle
      PROVE  /\ Cardinality(FdsOf(p, h)) \in Nat
             /\ Cardinality(FdsOf(p, h) \cap ToClose(p)) \in Nat
             /\ Cardinality(RowOf(r, h)) =
                  Cardinality(FdsOf(p, h)) - Cardinality(FdsOf(p, h) \cap ToClose(p))
  <2>1. IsFiniteSet(FdsOf(p, h)) /\ Cardinality(FdsOf(p, h)) \in Nat
    BY RowFinite DEF FdsOf
  <2>2. Cardinality(FdsOf(p, h) \ ToClose(p)) =
          Cardinality(FdsOf(p, h)) - Cardinality(FdsOf(p, h) \cap ToClose(p))
    BY <2>1, FS_Difference
  <2>3. FdsOf(p, h) \cap ToClose(p) \subseteq Fd
    BY DEF FdsOf
  <2>4. Cardinality(FdsOf(p, h) \cap ToClose(p)) \in Nat
    BY <2>3, RowFinite
  <2>. QED  BY <1>3, <2>1, <2>2, <2>4
<1>8. refs' = [h \in Handle |-> refs[h] - Cardinality(FdsOf(p, h) \cap ToClose(p))]
  BY DEF Exec
<1>9. refs' \in [Handle -> Int]
  <2>1. ASSUME NEW h \in Handle
        PROVE  refs[h] - Cardinality(FdsOf(p, h) \cap ToClose(p)) \in Int
    <3>1. refs[h] \in Nat
      BY CountInvParts
    <3>2. Cardinality(FdsOf(p, h) \cap ToClose(p)) \in Nat
      BY <1>7
    <3>. QED  BY <3>1, <3>2
  <2>. QED  BY <1>8, <2>1
<1>10. ASSUME NEW h \in Handle
       PROVE  refs'[h] = Cardinality(UsersOf(handles', h))
  <2>1. Cardinality(UsersOf(handles', h)) =
          refs[h] - Cardinality(FdsOf(p, h)) + Cardinality(RowOf(handles'[p], h))
    BY <1>5, RowUsers
  <2>2. Cardinality(RowOf(handles'[p], h)) = Cardinality(RowOf(r, h))
    BY <1>4
  <2>3. refs[h] \in Nat
    BY CountInvParts
  <2>. QED  BY <1>7, <1>8, <2>1, <2>2, <2>3
<1>11. Ended'
  BY <1>1, CountInvParts DEF Ended, Exec, Running
<1>. QED  BY <1>4, <1>6, <1>9, <1>10, <1>11, CountInvNext

LEMMA ExitCounts ==
  ASSUME CountInv, NEW p \in Proc, Exit(p)
  PROVE  CountInv'
<1>1. handles' = [handles EXCEPT ![p] = Closed]
  BY DEF Exit
<1>2. handles' \in [Proc -> Row] /\ handles'[p] = Closed
  BY <1>1, CountInvParts
<1>3. OtherRows(handles, handles', p)
  BY <1>1, CountInvParts DEF OtherRows
<1>4. /\ flags' \in [Proc -> SUBSET Fd]
      /\ mi' \in [Proc -> Proc \cup {None}]
      /\ maps' \in [Proc -> [Page -> Mapping]]
      /\ vparent' \in [Proc -> Proc \cup {None}]
  BY CountInvParts DEF Exit
<1>5. \A h \in Handle : Cardinality(FdsOf(p, h)) \in Nat
  BY RowFinite DEF FdsOf
<1>6. refs' = [h \in Handle |-> refs[h] - Cardinality(FdsOf(p, h))]
  BY DEF Exit
<1>7. refs' \in [Handle -> Int]
  BY <1>5, <1>6, CountInvParts
<1>8. ASSUME NEW h \in Handle
      PROVE  refs'[h] = Cardinality(UsersOf(handles', h))
  <2>1. Cardinality(UsersOf(handles', h)) =
          refs[h] - Cardinality(FdsOf(p, h)) + Cardinality(RowOf(handles'[p], h))
    BY <1>3, RowUsers
  <2>2. Cardinality(RowOf(handles'[p], h)) = 0
    BY <1>2, NoUsers
  <2>3. refs[h] \in Nat
    BY CountInvParts
  <2>. QED  BY <1>5, <1>6, <2>1, <2>2, <2>3
<1>9. Ended'
  BY <1>1, CountInvParts DEF Ended, Exit
<1>. QED  BY <1>2, <1>4, <1>7, <1>8, <1>9, CountInvNext

-----------------------------------------------------------------------------
LEMMA InitCounts == ASSUME Init PROVE CountInv
<1>1. ASSUME NEW h \in Handle PROVE refs[h] = Cardinality(Users(h))
  <2>1. Users(h) = {}
    BY HandlesAssumption DEF Init, Users, Closed
  <2>2. refs[h] = 0
    BY DEF Init
  <2>. QED  BY <2>1, <2>2, FS_EmptySet
<1>2. TypeOK
  BY HandlesAssumption DEF Init, TypeOK, Closed, NoMaps, NoMap
<1>3. Ended
  BY DEF Init, Ended
<1>. QED  BY <1>1, <1>2, <1>3 DEF CountInv, RefsCountUsers

LEMMA StepCounts == ASSUME CountInv, [Next]_vars PROVE CountInv'
<1>1. ASSUME UNCHANGED vars PROVE CountInv'
  <2>1. UNCHANGED <<handles, flags, refs, mi, maps, vparent>>
    BY <1>1 DEF vars
  <2>. QED  BY <2>1, CountInvParts, MapsCounts
<1>2. ASSUME NEW p \in Proc, Tables(p) PROVE CountInv'
  <2>1. ASSUME NEW c \in BOOLEAN, Files(p, c) PROVE CountInv'
    <3>1. CASE \E h \in Handle : Open(p, h, c)
      BY <3>1, OpenCounts
    <3>2. CASE \E r, w \in Handle : Pipe2(p, r, w, c)
      BY <3>2, Pipe2Counts
    <3>3. CASE \E i, ge \in Fd : DupFd(p, i, ge, c)
      BY <3>3, Dup2Counts DEF DupFd
    <3>4. CASE \E i \in Fd : SetFd(p, i, c)
      BY <3>4, SetFdCounts
    <3>. QED  BY <2>1, <3>1, <3>2, <3>3, <3>4 DEF Files
  <2>2. CASE \E i, j \in Fd : Dup2(p, i, j, FALSE)
    BY <2>2, Dup2Counts
  <2>3. CASE \E i \in Fd : Close(p, i)
    BY <2>3, CloseCounts
  <2>. QED  BY <1>2, <2>1, <2>2, <2>3, ExecCounts, ExitCounts DEF Tables
<1>3. ASSUME NEW p \in Proc, Spaces(p) PROVE CountInv'
  <2>1. CASE \E G \in SUBSET Page \ {{}} : Munmap(p, G)
    BY <2>1, MunmapCounts
  <2>2. CASE \E G \in SUBSET Page \ {{}}, i \in Fd : Mmap(p, i, G)
    BY <2>2, MmapCounts
  <2>3. CASE \E c \in Proc : Fork(p, c) \/ Vfork(p, c)
    BY <2>3, ForkCounts, VforkCounts
  <2>. QED  BY <1>3, <2>1, <2>2, <2>3 DEF Spaces
<1>. QED  BY <1>1, <1>2, <1>3 DEF Next

\* The count of a description is right whatever processes do (vfs_dup,
\* fork_dup_all_handles, vfs_close, close_cloexec_handles, the end).
THEOREM CountAlways == Spec => []CountInv
<1>. QED  BY InitCounts, StepCounts, PTL DEF Spec

\* Type correctness: h_refs never goes below zero.
THEOREM TypesAlways == Spec => []TypeOK
<1>1. CountInv => TypeOK
  BY DEF CountInv
<1>. QED  BY <1>1, CountAlways, PTL

\* h_refs is the number of descriptors, so a description is freed when, and only
\* when, nobody has it any more.
THEOREM CountsAlways == Spec => []RefsCountUsers
<1>1. CountInv => RefsCountUsers
  BY DEF CountInv
<1>. QED  BY <1>1, CountAlways, PTL

-----------------------------------------------------------------------------
\* Who has stopped whom.  The last part says that there is no cycle: among
\* vforked processes one has a parent outside.  Without it a process could end
\* while others, waiting for each other, run on its mappings.
Tree ==
  /\ mi \in [Proc -> Proc \cup {None}] /\ vparent \in [Proc -> Proc \cup {None}]
  /\ \A p \in Proc : mi[p] = None => vparent[p] = None
  /\ \A p \in Proc : mi[p] # None /\ vparent[p] = None => mi[p] = p
  /\ \A p \in Proc : vparent[p] # None => mi[p] # p /\ mi[vparent[p]] = mi[p]
  /\ \A p \in Proc : mi[p] # None => mi[mi[p]] = mi[p]
  /\ \A S \in SUBSET Proc :
       S # {} /\ (\A q \in S : vparent[q] # None) => \E q \in S : vparent[q] \notin S

LEMMA TreeParts ==
  ASSUME Tree
  PROVE  /\ mi \in [Proc -> Proc \cup {None}] /\ vparent \in [Proc -> Proc \cup {None}]
         /\ \A p \in Proc : mi[p] = None => vparent[p] = None
         /\ \A p \in Proc : mi[p] # None /\ vparent[p] = None => mi[p] = p
         /\ \A p \in Proc : vparent[p] # None => mi[p] # p /\ mi[vparent[p]] = mi[p]
         /\ \A p \in Proc : mi[p] # None => mi[mi[p]] = mi[p]
         /\ None \notin Proc
BY HandlesAssumption DEF Tree

\* A running process that has ended or runs execve is used by nobody.
LEMMA NobodyElse ==
  ASSUME Tree, NEW p \in Proc, Running(p), NEW q \in Proc, q # p
  PROVE  mi[q] # p /\ vparent[q] # p
<1>1. vparent[q] # p /\ mi[p] # None
  BY DEF Running
<1>2. SUFFICES ASSUME mi[q] = p PROVE FALSE
  BY <1>1
<1>3. vparent[q] # None /\ mi[p] = p
  BY <1>2, TreeParts
<1>. DEFINE S == {x \in Proc : x # p /\ mi[x] = p}
<1>4. q \in S /\ S \in SUBSET Proc
  BY <1>2
<1>5. \A x \in S : vparent[x] # None
  BY TreeParts
<1>6. PICK x \in S : vparent[x] \notin S
  BY <1>4, <1>5 DEF Tree
<1>7. mi[vparent[x]] = p /\ vparent[x] \in Proc
  BY <1>5, TreeParts
<1>8. vparent[x] = p
  BY <1>6, <1>7
<1>. QED  BY <1>8 DEF Running

LEMMA NoCycle ==
  ASSUME Tree,
         \A q \in Proc : vparent'[q] = vparent[q] \/ vparent'[q] = None,
         NEW S \in SUBSET Proc, S # {}, \A q \in S : vparent'[q] # None
  PROVE  \E q \in S : vparent'[q] \notin S
<1>1. \A q \in S : vparent'[q] = vparent[q]
  OBVIOUS
<1>2. \E q \in S : vparent[q] \notin S
  BY <1>1 DEF Tree
<1>. QED  BY <1>1, <1>2

LEMMA ForkTree ==
  ASSUME Tree, NEW p \in Proc, NEW c \in Proc, Fork(p, c)
  PROVE  Tree'
<1>1. mi[c] = None /\ mi' = [mi EXCEPT ![c] = c] /\ vparent' = vparent
  BY DEF Fork, Inherit
<1>2. vparent[c] = None /\ \A q \in Proc : mi[q] # c /\ vparent[q] # c
  BY <1>1, TreeParts
<1>3. mi'[c] = c /\ \A q \in Proc : q # c => mi'[q] = mi[q]
  BY <1>1, TreeParts
<1>4. mi' \in [Proc -> Proc \cup {None}] /\ vparent' \in [Proc -> Proc \cup {None}]
  BY <1>1, TreeParts
<1>5. \A q \in Proc : mi'[q] = None => vparent'[q] = None
  BY <1>1, <1>2, <1>3, TreeParts
<1>6. \A q \in Proc : mi'[q] # None /\ vparent'[q] = None => mi'[q] = q
  BY <1>1, <1>3, TreeParts
<1>7. \A q \in Proc : vparent'[q] # None => mi'[q] # q /\ mi'[vparent'[q]] = mi'[q]
  BY <1>1, <1>2, <1>3, TreeParts
<1>8. \A q \in Proc : mi'[q] # None => mi'[mi'[q]] = mi'[q]
  BY <1>2, <1>3, TreeParts
<1>9. ASSUME NEW S \in SUBSET Proc, S # {}, \A q \in S : vparent'[q] # None
      PROVE  \E q \in S : vparent'[q] \notin S
  BY <1>1, <1>9, NoCycle
<1>. QED  BY <1>4, <1>5, <1>6, <1>7, <1>8, <1>9 DEF Tree

LEMMA VforkTree ==
  ASSUME Tree, NEW p \in Proc, NEW c \in Proc, Vfork(p, c)
  PROVE  Tree'
<1>1. /\ mi[c] = None /\ mi[p] # None /\ p # c
      /\ mi' = [mi EXCEPT ![c] = mi[p]] /\ vparent' = [vparent EXCEPT ![c] = p]
  BY DEF Vfork, Inherit, Running
<1>2. vparent[c] = None /\ \A q \in Proc : mi[q] # c /\ vparent[q] # c
  BY <1>1, TreeParts
<1>3. mi'[c] = mi[p] /\ \A q \in Proc : q # c => mi'[q] = mi[q]
  BY <1>1, TreeParts
<1>4. vparent'[c] = p /\ \A q \in Proc : q # c => vparent'[q] = vparent[q]
  BY <1>1, TreeParts
<1>5. mi' \in [Proc -> Proc \cup {None}] /\ vparent' \in [Proc -> Proc \cup {None}]
  BY <1>1, TreeParts
<1>6. \A q \in Proc : mi'[q] = None => vparent'[q] = None
  BY <1>1, <1>3, <1>4, TreeParts
<1>7. \A q \in Proc : mi'[q] # None /\ vparent'[q] = None => mi'[q] = q
  BY <1>3, <1>4, TreeParts
<1>8. \A q \in Proc : vparent'[q] # None => mi'[q] # q /\ mi'[vparent'[q]] = mi'[q]
  BY <1>1, <1>2, <1>3, <1>4, TreeParts
<1>9. \A q \in Proc : mi'[q] # None => mi'[mi'[q]] = mi'[q]
  BY <1>1, <1>2, <1>3, TreeParts
<1>10. ASSUME NEW S \in SUBSET Proc, S # {}, \A q \in S : vparent'[q] # None
       PROVE  \E q \in S : vparent'[q] \notin S
  <2>1. CASE S \subseteq {c}
    BY <1>1, <1>4, <1>10, <2>1
  <2>2. CASE ~(S \subseteq {c})
    <3>. DEFINE R == S \ {c}
    <3>1. R # {} /\ R \in SUBSET Proc /\ \A q \in R : vparent[q] # None
      BY <1>4, <1>10, <2>2
    <3>2. PICK q \in R : vparent[q] \notin R
      BY <3>1 DEF Tree
    <3>3. vparent'[q] # c /\ vparent'[q] = vparent[q]
      BY <1>2, <1>4, <3>2
    <3>. QED  BY <3>2, <3>3
  <2>. QED  BY <2>1, <2>2
<1>. QED  BY <1>5, <1>6, <1>7, <1>8, <1>9, <1>10 DEF Tree

LEMMA ExecTree ==
  ASSUME Tree, NEW p \in Proc, Exec(p)
  PROVE  Tree'
<1>1. /\ Running(p) /\ mi[p] # None
      /\ mi' = [mi EXCEPT ![p] = p] /\ vparent' = [vparent EXCEPT ![p] = None]
  BY DEF Exec, Running
<1>2. \A q \in Proc : q # p => mi[q] # p /\ vparent[q] # p
  BY <1>1, NobodyElse
<1>3. mi'[p] = p /\ \A q \in Proc : q # p => mi'[q] = mi[q]
  BY <1>1, TreeParts
<1>4. vparent'[p] = None /\ \A q \in Proc : q # p => vparent'[q] = vparent[q]
  BY <1>1, TreeParts
<1>5. mi' \in [Proc -> Proc \cup {None}] /\ vparent' \in [Proc -> Proc \cup {None}]
  BY <1>1, TreeParts
<1>6. \A q \in Proc : mi'[q] = None => vparent'[q] = None
  BY <1>3, <1>4, TreeParts
<1>7. \A q \in Proc : mi'[q] # None /\ vparent'[q] = None => mi'[q] = q
  BY <1>3, <1>4, TreeParts
<1>8. \A q \in Proc : vparent'[q] # None => mi'[q] # q /\ mi'[vparent'[q]] = mi'[q]
  BY <1>2, <1>3, <1>4, TreeParts
<1>9. \A q \in Proc : mi'[q] # None => mi'[mi'[q]] = mi'[q]
  BY <1>2, <1>3, TreeParts
<1>10. \A q \in Proc : vparent'[q] = vparent[q] \/ vparent'[q] = None
  BY <1>4
<1>11. ASSUME NEW S \in SUBSET Proc, S # {}, \A q \in S : vparent'[q] # None
       PROVE  \E q \in S : vparent'[q] \notin S
  BY <1>10, <1>11, NoCycle
<1>. QED  BY <1>5, <1>6, <1>7, <1>8, <1>9, <1>11 DEF Tree

LEMMA ExitTree ==
  ASSUME Tree, NEW p \in Proc, Exit(p)
  PROVE  Tree'
<1>1. /\ Running(p)
      /\ mi' = [mi EXCEPT ![p] = None] /\ vparent' = [vparent EXCEPT ![p] = None]
  BY DEF Exit
<1>2. \A q \in Proc : q # p => mi[q] # p /\ vparent[q] # p
  BY <1>1, NobodyElse
<1>3. mi'[p] = None /\ \A q \in Proc : q # p => mi'[q] = mi[q]
  BY <1>1, TreeParts
<1>4. vparent'[p] = None /\ \A q \in Proc : q # p => vparent'[q] = vparent[q]
  BY <1>1, TreeParts
<1>5. mi' \in [Proc -> Proc \cup {None}] /\ vparent' \in [Proc -> Proc \cup {None}]
  BY <1>1, TreeParts
<1>6. \A q \in Proc : mi'[q] = None => vparent'[q] = None
  BY <1>3, <1>4, TreeParts
<1>7. \A q \in Proc : mi'[q] # None /\ vparent'[q] = None => mi'[q] = q
  BY <1>3, <1>4, TreeParts
<1>8. \A q \in Proc : vparent'[q] # None => mi'[q] # q /\ mi'[vparent'[q]] = mi'[q]
  BY <1>2, <1>3, <1>4, TreeParts
<1>9. \A q \in Proc : mi'[q] # None => mi'[mi'[q]] = mi'[q]
  BY <1>2, <1>3, TreeParts
<1>10. \A q \in Proc : vparent'[q] = vparent[q] \/ vparent'[q] = None
  BY <1>4
<1>11. ASSUME NEW S \in SUBSET Proc, S # {}, \A q \in S : vparent'[q] # None
       PROVE  \E q \in S : vparent'[q] \notin S
  BY <1>10, <1>11, NoCycle
<1>. QED  BY <1>5, <1>6, <1>7, <1>8, <1>9, <1>11 DEF Tree

LEMMA StepTree == ASSUME Tree, [Next]_vars PROVE Tree'
<1>1. ASSUME UNCHANGED <<mi, vparent>> PROVE Tree'
  BY <1>1 DEF Tree
<1>2. ASSUME NEW p \in Proc, Tables(p) PROVE Tree'
  <2>1. \/ UNCHANGED <<mi, vparent>> \/ Exec(p) \/ Exit(p)
    BY <1>2 DEF Tables, Files, Open, Pipe2, DupFd, Dup2, SetFd, Close
  <2>. QED  BY <1>1, <2>1, ExecTree, ExitTree
<1>3. ASSUME NEW p \in Proc, Spaces(p) PROVE Tree'
  <2>1. \/ UNCHANGED <<mi, vparent>>
        \/ \E c \in Proc : Fork(p, c) \/ Vfork(p, c)
    BY <1>3 DEF Spaces, Mmap, Munmap
  <2>. QED  BY <1>1, <2>1, ForkTree, VforkTree
<1>4. UNCHANGED vars => UNCHANGED <<mi, vparent>>
  BY DEF vars
<1>. QED  BY <1>1, <1>2, <1>3, <1>4 DEF Next

LEMMA InitTree == ASSUME Init PROVE Tree
<1>1. \A p \in Proc : mi[p] = (IF p = First THEN First ELSE None) /\ vparent[p] = None
  BY DEF Init
<1>2. mi \in [Proc -> Proc \cup {None}] /\ vparent \in [Proc -> Proc \cup {None}]
  BY HandlesAssumption DEF Init
<1>3. None \notin Proc /\ First \in Proc
  BY HandlesAssumption
<1>. QED  BY <1>1, <1>2, <1>3 DEF Tree

\* A vforked child, however deep, uses the mappings of a process that is still
\* there and still uses them (do_fork, setup_process, the end).
THEOREM SpacesAlways == Spec => []SpacesOwned
<1>1. Tree => SpacesOwned
  BY TreeParts DEF SpacesOwned, Vforked
<1>. QED  BY <1>1, InitTree, StepTree, PTL DEF Spec

-----------------------------------------------------------------------------
\* Of each mapping of q: MappingsHeld, and that it is a file's.
HeldBy(q) == \A g \in Page : maps[q][g] # NoMap =>
  /\ mi[q] = q /\ maps[q][g].pi = q
  /\ maps[q][g].h # None /\ FdsOf(q, maps[q][g].h) # {}

HeldInv == CountInv /\ Tree /\ \A q \in Proc : HeldBy(q)

\* Steps that leave q alone, or only open more descriptors and unmap pages.
LEMMA HeldStays ==
  ASSUME NEW q \in Proc, HeldBy(q), mi'[q] = mi[q],
         \A g \in Page : maps'[q][g] = NoMap \/ maps'[q][g] = maps[q][g],
         \A i \in Fd : handles[q][i] # None => handles'[q][i] = handles[q][i]
  PROVE  HeldBy(q)'
<1>. SUFFICES ASSUME NEW g \in Page, maps'[q][g] # NoMap
              PROVE  /\ mi'[q] = q /\ maps'[q][g].pi = q
                     /\ maps'[q][g].h # None
                     /\ {i \in Fd : handles'[q][i] = maps'[q][g].h} # {}
  BY DEF HeldBy, FdsOf
<1>1. maps'[q][g] = maps[q][g]
  OBVIOUS
<1>2. /\ mi[q] = q /\ maps[q][g].pi = q
      /\ maps[q][g].h # None /\ FdsOf(q, maps[q][g].h) # {}
  BY <1>1 DEF HeldBy
<1>3. PICK i \in Fd : handles[q][i] = maps[q][g].h
  BY <1>2 DEF FdsOf
<1>4. handles'[q][i] = maps'[q][g].h
  BY <1>1, <1>2, <1>3
<1>. QED  BY <1>1, <1>2, <1>4

\* What vfs_close of descriptor i leaves of the mappings has another descriptor.
LEMMA Released ==
  ASSUME HeldInv, NEW p \in Proc, Running(p), NEW i \in Fd, handles[p][i] # None
  PROVE  LET ms == MapsAfterClose(p, handles[p][i])
         IN /\ \A q \in Proc : q # p => ms[q] = maps[q]
            /\ \A g \in Page :
                 \/ ms[p][g] = NoMap
                 \/ /\ ms[p][g] = maps[p][g]
                    /\ \E j \in Fd : j # i /\ handles[p][j] = maps[p][g].h
<1>. DEFINE old == handles[p][i]
            ms  == MapsAfterClose(p, old)
<1>1. /\ CountInv /\ Tree /\ HeldBy(p)
      /\ maps \in [Proc -> [Page -> Mapping]]
  BY CountInvParts DEF HeldInv
<1>2. CASE Vforked(p)
  <2>1. ms = maps
    BY <1>2 DEF MapsAfterClose
  <2>2. mi[p] # p
    BY <1>1, <1>2, TreeParts DEF Vforked
  <2>3. \A g \in Page : maps[p][g] = NoMap
    BY <1>1, <2>2 DEF HeldBy
  <2>. QED  BY <2>1, <2>3
<1>3. CASE ~Vforked(p)
  <2>1. mi[p] = p
    BY <1>1, <1>3, TreeParts DEF Vforked, Running
  <2>2. CASE Cardinality(FdsOf(p, old)) <= 1
    <3>1. ms = [maps EXCEPT ![p] = Unmap(maps[p], old)]
      BY <1>3, <2>1, <2>2 DEF MapsAfterClose
    <3>2. \A q \in Proc : q # p => ms[q] = maps[q]
      BY <1>1, <3>1
    <3>3. ASSUME NEW g \in Page, ms[p][g] # NoMap
          PROVE  /\ ms[p][g] = maps[p][g]
                 /\ \E j \in Fd : j # i /\ handles[p][j] = maps[p][g].h
      <4>1. ms[p][g] = maps[p][g] /\ maps[p][g].h # old
        BY <1>1, <3>1, <3>3 DEF Unmap
      <4>2. FdsOf(p, maps[p][g].h) # {}
        BY <1>1, <3>3, <4>1 DEF HeldBy
      <4>. QED  BY <4>1, <4>2 DEF FdsOf
    <3>. QED  BY <3>2, <3>3
  <2>3. CASE ~(Cardinality(FdsOf(p, old)) <= 1)
    <3>1. ms = maps
      BY <2>3 DEF MapsAfterClose
    <3>2. PICK j \in Fd : j # i /\ handles[p][j] = old
      <4>1. SUFFICES ASSUME \A j \in Fd : handles[p][j] = old => j = i PROVE FALSE
        OBVIOUS
      <4>2. FdsOf(p, old) = {i}
        BY <4>1 DEF FdsOf
      <4>3. Cardinality(FdsOf(p, old)) = 1
        BY <4>2, FS_Singleton
      <4>. QED  BY <2>3, <4>3
    <3>3. ASSUME NEW g \in Page, maps[p][g] # NoMap
          PROVE  \E k \in Fd : k # i /\ handles[p][k] = maps[p][g].h
      <4>1. PICK k \in Fd : handles[p][k] = maps[p][g].h
        BY <1>1, <3>3 DEF HeldBy, FdsOf
      <4>. QED  BY <3>2, <4>1
    <3>. QED  BY <3>1, <3>3
  <2>. QED  BY <2>2, <2>3
<1>. QED  BY <1>2, <1>3

\* sys_close, and sys_dup2 onto a descriptor in use.
LEMMA ReleaseHolds ==
  ASSUME HeldInv, NEW p \in Proc, Running(p), NEW i \in Fd, handles[p][i] # None,
         maps' = MapsAfterClose(p, handles[p][i]), UNCHANGED mi,
         OtherSlots(handles, handles', p, i)
  PROVE  \A q \in Proc : HeldBy(q)'
<1>1. /\ \A q \in Proc : q # p => maps'[q] = maps[q]
      /\ \A g \in Page :
           \/ maps'[p][g] = NoMap
           \/ /\ maps'[p][g] = maps[p][g]
              /\ \E j \in Fd : j # i /\ handles[p][j] = maps[p][g].h
  BY Released
<1>2. \A q \in Proc : HeldBy(q)
  BY DEF HeldInv
<1>3. ASSUME NEW q \in Proc, q # p PROVE HeldBy(q)'
  <2>1. handles'[q] = handles[q] /\ mi'[q] = mi[q] /\ maps'[q] = maps[q]
    BY <1>1, <1>3 DEF OtherSlots, OtherRows
  <2>. QED  BY <1>2, <2>1, HeldStays
<1>4. HeldBy(p)'
  <2>1. SUFFICES ASSUME NEW g \in Page, maps'[p][g] # NoMap
                 PROVE  /\ mi'[p] = p /\ maps'[p][g].pi = p
                        /\ maps'[p][g].h # None
                        /\ {j \in Fd : handles'[p][j] = maps'[p][g].h} # {}
    BY DEF HeldBy, FdsOf
  <2>2. /\ maps'[p][g] = maps[p][g]
        /\ \E j \in Fd : j # i /\ handles[p][j] = maps[p][g].h
    BY <1>1, <2>1
  <2>3. mi[p] = p /\ maps[p][g].pi = p /\ maps[p][g].h # None
    BY <1>2, <2>1, <2>2 DEF HeldBy
  <2>4. \E j \in Fd : handles'[p][j] = maps'[p][g].h
    BY <2>2 DEF OtherSlots
  <2>. QED  BY <2>2, <2>3, <2>4
<1>. QED  BY <1>3, <1>4

LEMMA CloseHolds ==
  ASSUME HeldInv, NEW p \in Proc, NEW i \in Fd, Close(p, i)
  PROVE  \A q \in Proc : HeldBy(q)'
<1>1. OtherSlots(handles, handles', p, i)
  BY CountInvParts DEF HeldInv, Close, Row, OtherSlots, OtherRows
<1>2. /\ Running(p) /\ handles[p][i] # None /\ UNCHANGED mi
      /\ maps' = MapsAfterClose(p, handles[p][i])
  BY DEF Close
<1>. QED  BY <1>1, <1>2, ReleaseHolds

LEMMA Dup2Holds ==
  ASSUME HeldInv, NEW p \in Proc, NEW i \in Fd, NEW j \in Fd, NEW c, Dup2(p, i, j, c)
  PROVE  \A q \in Proc : HeldBy(q)'
<1>1. OtherSlots(handles, handles', p, j)
  BY CountInvParts DEF HeldInv, Dup2, Row, OtherSlots, OtherRows
<1>2. Running(p) /\ UNCHANGED mi
  BY DEF Dup2
<1>3. CASE handles[p][j] = None
  <2>1. maps' = maps
    BY <1>3 DEF Dup2
  <2>2. \A q \in Proc, k \in Fd :
          handles[q][k] # None => handles'[q][k] = handles[q][k]
    BY <1>1, <1>3 DEF OtherSlots, OtherRows
  <2>. QED  BY <1>2, <2>1, <2>2, HeldStays DEF HeldInv
<1>4. CASE handles[p][j] # None
  <2>1. maps' = MapsAfterClose(p, handles[p][j])
    BY <1>4 DEF Dup2
  <2>. QED  BY <1>1, <1>2, <1>4, <2>1, ReleaseHolds
<1>. QED  BY <1>3, <1>4

\* Calls that only fill free slots, or touch no slot and no page.
LEMMA FilesHold ==
  ASSUME HeldInv, NEW p \in Proc, NEW c \in BOOLEAN, Files(p, c)
  PROVE  \A q \in Proc : HeldBy(q)'
<1>1. CASE \E i, ge \in Fd : DupFd(p, i, ge, c)
  BY <1>1, Dup2Holds DEF DupFd
<1>2. CASE \E h \in Handle : Open(p, h, c)
  <2>1. PICK h \in Handle, i \in Fd : /\ handles[p][i] = None
                                     /\ handles' = [handles EXCEPT ![p][i] = h]
    BY <1>2 DEF Open, Lowest, Free
  <2>2. \A q \in Proc, k \in Fd :
          handles[q][k] # None => handles'[q][k] = handles[q][k]
    BY <2>1, CountInvParts DEF HeldInv, Row
  <2>3. UNCHANGED <<mi, maps>>
    BY <1>2 DEF Open
  <2>. QED  BY <2>2, <2>3, HeldStays DEF HeldInv
<1>3. CASE \E r, w \in Handle : Pipe2(p, r, w, c)
  <2>a. PICK r \in Handle, w \in Handle : Pipe2(p, r, w, c)
    BY <1>3
  <2>1. PICK i \in Fd, j \in Fd :
          /\ i \in Free(p, 0) /\ j \in Free(p, i + 1)
          /\ handles' = [handles EXCEPT ![p][i] = r, ![p][j] = w]
    BY <2>a DEF Pipe2, Lowest
  <2>b. handles[p][i] = None /\ handles[p][j] = None
    BY <2>1 DEF Free
  <2>2. \A q \in Proc, k \in Fd :
          handles[q][k] # None => handles'[q][k] = handles[q][k]
    BY <2>1, <2>b, CountInvParts DEF HeldInv, Row
  <2>3. UNCHANGED <<mi, maps>>
    BY <1>3 DEF Pipe2
  <2>. QED  BY <2>2, <2>3, HeldStays DEF HeldInv
<1>4. CASE \E i \in Fd : SetFd(p, i, c)
  BY <1>4, HeldStays DEF SetFd, HeldInv
<1>. QED  BY <1>1, <1>2, <1>3, <1>4 DEF Files

LEMMA MmapHolds ==
  ASSUME HeldInv, NEW p \in Proc, ~Vforked(p), NEW i \in Fd, NEW G, Mmap(p, i, G)
  PROVE  \A q \in Proc : HeldBy(q)'
<1>1. mi[p] = p /\ handles[p][i] # None /\ UNCHANGED <<handles, mi>>
  BY TreeParts DEF HeldInv, Vforked, Mmap, Running
<1>. DEFINE m == [h |-> handles[p][i], pi |-> p]
<1>2. maps' = [maps EXCEPT ![p] = [g \in Page |-> IF g \in G THEN m ELSE maps[p][g]]]
  BY <1>1, CountInvParts DEF Mmap, HeldInv
<1>3. /\ \A q \in Proc : q # p => maps'[q] = maps[q]
      /\ \A g \in Page : maps'[p][g] = IF g \in G THEN m ELSE maps[p][g]
  BY <1>2, CountInvParts DEF HeldInv
<1>4. \A q \in Proc : q # p => HeldBy(q)'
  BY <1>1, <1>3, HeldStays DEF HeldInv
<1>5. HeldBy(p)'
  <2>1. SUFFICES ASSUME NEW g \in Page, maps'[p][g] # NoMap
                 PROVE  /\ mi'[p] = p /\ maps'[p][g].pi = p
                        /\ maps'[p][g].h # None
                        /\ \E j \in Fd : handles'[p][j] = maps'[p][g].h
    BY DEF HeldBy, FdsOf
  <2>2. CASE g \in G
    BY <1>1, <1>3, <2>2
  <2>3. CASE g \notin G
    BY <1>1, <1>3, <2>1, <2>3 DEF HeldInv, HeldBy, FdsOf
  <2>. QED  BY <2>2, <2>3
<1>. QED  BY <1>4, <1>5

LEMMA MunmapHolds ==
  ASSUME HeldInv, NEW p \in Proc, NEW G, Munmap(p, G)
  PROVE  \A q \in Proc : HeldBy(q)'
<1>1. mi[p] \in Proc /\ UNCHANGED <<handles, mi>>
  BY CountInvParts DEF HeldInv, Munmap, Running
<1>2. \A q \in Proc, g \in Page : maps'[q][g] = NoMap \/ maps'[q][g] = maps[q][g]
  BY <1>1, CountInvParts DEF HeldInv, Munmap
<1>. QED  BY <1>1, <1>2, HeldStays DEF HeldInv

\* fork: the child's copies name the child, and it has its parent's descriptors.
LEMMA ForkHolds ==
  ASSUME HeldInv, NEW p \in Proc, ~Vforked(p), NEW c \in Proc, Fork(p, c)
  PROVE  \A q \in Proc : HeldBy(q)'
<1>1. mi[p] = p /\ Inherit(p, c)
  BY TreeParts DEF HeldInv, Vforked, Fork, Inherit, Running
<1>2. /\ handles' = [handles EXCEPT ![c] = handles[p]]
      /\ mi' = [mi EXCEPT ![c] = c]
      /\ maps' = [maps EXCEPT ![c] = Copies(maps[p], c)]
  BY <1>1 DEF Fork, Inherit
<1>3. \A q \in Proc : q # c => handles'[q] = handles[q] /\ mi'[q] = mi[q] /\ maps'[q] = maps[q]
  BY <1>2, CountInvParts DEF HeldInv
<1>4. handles'[c] = handles[p] /\ mi'[c] = c /\ maps'[c] = Copies(maps[p], c)
  BY <1>2, CountInvParts DEF HeldInv
<1>5. \A q \in Proc : q # c => HeldBy(q)'
  BY <1>3, HeldStays DEF HeldInv
<1>6. HeldBy(c)'
  <2>1. SUFFICES ASSUME NEW g \in Page, maps'[c][g] # NoMap
                 PROVE  /\ mi'[c] = c /\ maps'[c][g].pi = c
                        /\ maps'[c][g].h # None
                        /\ \E j \in Fd : handles'[c][j] = maps'[c][g].h
    BY DEF HeldBy, FdsOf
  <2>2. maps[p][g] # NoMap /\ maps'[c][g] = [maps[p][g] EXCEPT !.pi = c]
    BY <1>4, <2>1 DEF Copies
  <2>3. maps[p][g] \in Mapping
    BY CountInvParts DEF HeldInv
  <2>4. maps'[c][g].pi = c /\ maps'[c][g].h = maps[p][g].h
    BY <2>2, <2>3 DEF Mapping
  <2>5. maps[p][g].h # None /\ \E j \in Fd : handles[p][j] = maps[p][g].h
    BY <2>2 DEF HeldInv, HeldBy, FdsOf
  <2>. QED  BY <1>4, <2>4, <2>5
<1>. QED  BY <1>5, <1>6

LEMMA VforkHolds ==
  ASSUME HeldInv, NEW p \in Proc, NEW c \in Proc, Vfork(p, c)
  PROVE  \A q \in Proc : HeldBy(q)'
<1>1. /\ mi[c] = None /\ c # None /\ UNCHANGED maps
      /\ handles' = [handles EXCEPT ![c] = handles[p]]
      /\ mi' = [mi EXCEPT ![c] = mi[p]]
  BY CountInvParts DEF HeldInv, Vfork, Inherit
<1>2. \A g \in Page : maps'[c][g] = NoMap
  BY <1>1 DEF HeldInv, HeldBy
<1>3. HeldBy(c)'
  BY <1>2 DEF HeldBy, NoMap
<1>4. \A q \in Proc : q # c => handles'[q] = handles[q] /\ mi'[q] = mi[q] /\ maps'[q] = maps[q]
  BY <1>1, CountInvParts DEF HeldInv
<1>5. \A q \in Proc : q # c => HeldBy(q)'
  BY <1>4, HeldStays DEF HeldInv
<1>. QED  BY <1>3, <1>5

LEMMA LeaveHolds ==
  ASSUME HeldInv, NEW p \in Proc, Exec(p) \/ Exit(p)
  PROVE  \A q \in Proc : HeldBy(q)'
<1>1. /\ maps' = [maps EXCEPT ![p] = NoMaps]
      /\ \A q \in Proc : q # p => handles'[q] = handles[q] /\ mi'[q] = mi[q]
  BY CountInvParts DEF HeldInv, Exec, Exit
<1>2. \A g \in Page : maps'[p][g] = NoMap
  BY <1>1, CountInvParts DEF HeldInv, NoMaps
<1>3. HeldBy(p)'
  BY <1>2 DEF HeldBy, NoMap
<1>4. \A q \in Proc : q # p => maps'[q] = maps[q]
  BY <1>1, CountInvParts DEF HeldInv
<1>5. \A q \in Proc : q # p => HeldBy(q)'
  BY <1>1, <1>4, HeldStays DEF HeldInv
<1>. QED  BY <1>3, <1>5

LEMMA VforkNextIsNext == [VforkNext]_vars => [Next]_vars
BY DEF VforkNext, Next

LEMMA StepHolds == ASSUME HeldInv, [VforkNext]_vars PROVE HeldInv'
<1>1. CountInv' /\ Tree'
  BY VforkNextIsNext, StepCounts, StepTree DEF HeldInv
<1>2. ASSUME UNCHANGED vars PROVE \A q \in Proc : HeldBy(q)'
  BY <1>2, HeldStays DEF vars, HeldInv
<1>3. ASSUME NEW p \in Proc, Tables(p) PROVE \A q \in Proc : HeldBy(q)'
  <2>1. CASE \E c \in BOOLEAN : Files(p, c)
    BY <2>1, FilesHold
  <2>2. CASE \E i, j \in Fd : Dup2(p, i, j, FALSE)
    BY <2>2, Dup2Holds
  <2>3. CASE \E i \in Fd : Close(p, i)
    BY <2>3, CloseHolds
  <2>. QED  BY <1>3, <2>1, <2>2, <2>3, LeaveHolds DEF Tables
<1>4. ASSUME NEW p \in Proc, ~Vforked(p), Spaces(p) PROVE \A q \in Proc : HeldBy(q)'
  <2>1. CASE \E G \in SUBSET Page \ {{}} : Munmap(p, G)
    BY <2>1, MunmapHolds
  <2>2. CASE \E G \in SUBSET Page \ {{}}, i \in Fd : Mmap(p, i, G)
    BY <1>4, <2>2, MmapHolds
  <2>3. CASE \E c \in Proc : Fork(p, c) \/ Vfork(p, c)
    BY <1>4, <2>3, ForkHolds, VforkHolds
  <2>. QED  BY <1>4, <2>1, <2>2, <2>3 DEF Spaces
<1>5. \A q \in Proc : HeldBy(q)'
  BY <1>2, <1>3, <1>4 DEF VforkNext
<1>. QED  BY <1>1, <1>5 DEF HeldInv

LEMMA InitHolds == ASSUME Init PROVE HeldInv
<1>1. \A q \in Proc : HeldBy(q)
  BY DEF Init, HeldBy, NoMaps
<1>. QED  BY <1>1, InitCounts, InitTree DEF HeldInv

\* As long as vforked children only open, close, duplicate, execute and end, no
\* page stays mapped to a description that the process has closed, and
\* generic_fs_munmap finds each page where um->pi says (vfs_close, fork).
THEOREM MappingsAlways == VforkSpec => []MappingsHeld
<1>1. HeldInv => MappingsHeld
  BY DEF HeldInv, HeldBy, MappingsHeld
<1>. QED  BY <1>1, InitHolds, StepHolds, PTL DEF VforkSpec

-----------------------------------------------------------------------------
\* The implementation of FdTables.  A slot's flag counts only while the slot is
\* in use; a process is one that has mappings to run on.
Cloexec == [q \in Proc |-> ToClose(q)]
Alive   == {q \in Proc : mi[q] # None}

LEMMA CloexecOf == \A q \in Proc : Cloexec[q] = {i \in flags[q] : handles[q][i] # None}
BY DEF Cloexec, ToClose

\* A description that is counted nowhere is free in FdTables as well.
LEMMA FreeUnnamed ==
  ASSUME CountInv, NEW h \in Handle, refs[h] = 0
  PROVE  ~FT!Named(h)
<1>1. Cardinality(UsersOf(handles, h)) = 0 /\ IsFiniteSet(UsersOf(handles, h))
  BY CountInvParts, UsersFinite
<1>2. UsersOf(handles, h) = {}
  BY <1>1, FS_EmptySet
<1>3. ASSUME NEW p \in Proc, NEW i \in Fd, handles[p][i] = h
      PROVE  FALSE
  <2>1. <<p, i>> \in UsersOf(handles, h)
    BY <1>3 DEF UsersOf
  <2>. QED  BY <1>2, <2>1
<1>. QED  BY <1>3 DEF FT!Named, FT!Fd, Fd

\* get_free_handle_num_ge finds what FdTables calls the lowest free slot.
LEMMA LowestIsFree ==
  ASSUME NEW p \in Proc, NEW ge \in Int, ge >= 0, NEW i \in Fd, Lowest(i, Free(p, ge))
  PROVE  FT!LowestFree(p, ge, i)
<1>1. i \in Int /\ i >= ge /\ handles[p][i] = None
  BY FdFinite DEF Lowest, Free
<1>2. ASSUME NEW j \in ge..(i - 1), handles[p][j] = None
      PROVE  FALSE
  <2>1. j \in Fd /\ j < i /\ j >= ge
    BY <1>1, HandlesAssumption DEF Fd
  <2>. QED  BY <1>1, <1>2, <2>1 DEF Lowest, Free
<1>. QED  BY <1>1, <1>2 DEF FT!LowestFree

\* A call that opens or closes the slots I of p, with the flag that goes with
\* them, moves the flags that FdTables sees in the same way.
LEMMA FlagFollows ==
  ASSUME CountInv, NEW p \in Proc, NEW I \in SUBSET Fd, NEW c \in BOOLEAN,
         OtherRows(handles, handles', p), OtherRows(flags, flags', p),
         \A j \in Fd \ I : /\ handles'[p][j] = None <=> handles[p][j] = None
                           /\ j \in flags'[p] <=> j \in flags[p],
         flags'[p] \subseteq Fd,
         \A i \in I : (i \in flags'[p] /\ handles'[p][i] # None) <=> c
  PROVE  FT!Flag(p, I, c)
<1>1. flags[p] \subseteq Fd
  BY CountInvParts
<1>2. \A q \in Proc : q # p => Cloexec'[q] = Cloexec[q]
  BY DEF Cloexec, ToClose, OtherRows
<1>3. Cloexec'[p] = IF c THEN Cloexec[p] \cup I ELSE Cloexec[p] \ I
  <2>1. \A j \in Fd : j \in Cloexec'[p] <=> j \in flags'[p] /\ handles'[p][j] # None
    BY DEF Cloexec, ToClose
  <2>2. \A j \in Fd : j \in Cloexec[p] <=> j \in flags[p] /\ handles[p][j] # None
    BY DEF Cloexec, ToClose
  <2>3. Cloexec'[p] \subseteq Fd /\ Cloexec[p] \subseteq Fd
    BY <1>1 DEF Cloexec, ToClose
  <2>. QED  BY <2>1, <2>2, <2>3
<1>4. Cloexec' = [Cloexec EXCEPT ![p] = IF c THEN @ \cup I ELSE @ \ I]
  BY <1>2, <1>3 DEF Cloexec
<1>. QED  BY <1>4 DEF FT!Flag, Cloexec

\* The step of FdTables' Calls, of which a process's other rows are part.
LEMMA CallStep ==
  ASSUME NEW p \in Proc, p \in Alive, OtherRows(handles, handles', p),
         \/ \E i \in Fd : FT!Close(p, i)
         \/ \E c \in BOOLEAN :
              \/ \E i \in Fd : FT!SetFd(p, i, c)
              \/ \E i, j \in Fd : FT!Dup(p, i, j, c)
              \/ \E f \in Handle : FT!Open(p, f, c)
              \/ \E r, w \in Handle : FT!Pipe(p, r, w, c)
         \/ FT!Exec(p)
         \/ FT!Exit(p)
  PROVE  FT!Next
<1>1. FT!Calls(p)
  BY DEF FT!Calls, FT!Fd, Fd, OtherRows
<1>. QED  BY <1>1 DEF FT!Next, Alive

LEMMA AliveSame == ASSUME UNCHANGED mi PROVE Alive' = Alive
BY DEF Alive

LEMMA CloseImplements ==
  ASSUME CountInv, NEW p \in Proc, NEW i \in Fd, Close(p, i)
  PROVE  FT!Next
<1>1. /\ p \in Alive /\ handles[p][i] # None /\ UNCHANGED <<flags, mi>>
      /\ handles' = [handles EXCEPT ![p][i] = None]
  BY DEF Close, Running, Alive
<1>2. handles \in [Proc -> Row] /\ flags \in [Proc -> SUBSET Fd]
  BY CountInvParts
<1>3. OtherSlots(handles, handles', p, i) /\ handles'[p][i] = None
  BY <1>1, <1>2 DEF Row, OtherSlots, OtherRows
<1>4. FT!Flag(p, {i}, FALSE)
  BY <1>1, <1>2, <1>3, FlagFollows DEF OtherSlots, OtherRows
<1>5. FT!Close(p, i)
  BY <1>1, <1>4, AliveSame DEF FT!Close, Alive
<1>. QED  BY <1>1, <1>3, <1>5, CallStep DEF OtherSlots

LEMMA SetFdImplements ==
  ASSUME CountInv, NEW p \in Proc, NEW i \in Fd, NEW c \in BOOLEAN, SetFd(p, i, c)
  PROVE  FT!Next
<1>1. /\ p \in Alive /\ handles[p][i] # None /\ UNCHANGED <<handles, mi>>
      /\ flags' = WithFlag(p, i, c)
  BY DEF SetFd, Running, Alive
<1>2. handles \in [Proc -> Row] /\ flags \in [Proc -> SUBSET Fd]
  BY CountInvParts
<1>3. /\ OtherRows(flags, flags', p)
      /\ flags'[p] = IF c THEN flags[p] \cup {i} ELSE flags[p] \ {i}
  BY <1>1, <1>2 DEF WithFlag, OtherRows
<1>4. FT!Flag(p, {i}, c)
  BY <1>1, <1>2, <1>3, FlagFollows DEF OtherRows
<1>5. FT!SetFd(p, i, c)
  BY <1>1, <1>4, AliveSame DEF FT!SetFd, Alive
<1>. QED  BY <1>1, <1>5, CallStep DEF OtherRows

LEMMA OpenImplements ==
  ASSUME CountInv, NEW p \in Proc, NEW f \in Handle, NEW c \in BOOLEAN, Open(p, f, c)
  PROVE  FT!Next
<1>1. PICK i \in Fd : /\ Lowest(i, Free(p, 0))
                      /\ handles' = [handles EXCEPT ![p][i] = f]
                      /\ flags' = WithFlag(p, i, c)
  BY DEF Open
<1>2. p \in Alive /\ refs[f] = 0 /\ UNCHANGED mi
  BY DEF Open, Running, Alive
<1>3. handles \in [Proc -> Row] /\ flags \in [Proc -> SUBSET Fd] /\ f # None
  BY CountInvParts
<1>4. OtherSlots(handles, handles', p, i) /\ handles'[p][i] = f
  BY <1>1, <1>3 DEF Row, OtherSlots, OtherRows
<1>5. /\ OtherRows(flags, flags', p)
      /\ flags'[p] = IF c THEN flags[p] \cup {i} ELSE flags[p] \ {i}
  BY <1>1, <1>3 DEF WithFlag, OtherRows
<1>6. FT!Flag(p, {i}, c)
  BY <1>3, <1>4, <1>5, FlagFollows DEF OtherSlots
<1>7. ~FT!Named(f) /\ FT!LowestFree(p, 0, i)
  BY <1>1, <1>2, FreeUnnamed, LowestIsFree
<1>8. FT!Open(p, f, c)
  BY <1>1, <1>2, <1>6, <1>7, AliveSame DEF FT!Open, FT!Fd, Fd, Alive
<1>. QED  BY <1>2, <1>4, <1>8, CallStep DEF OtherSlots

LEMMA PipeImplements ==
  ASSUME CountInv, NEW p \in Proc, NEW r \in Handle, NEW w \in Handle,
         NEW c \in BOOLEAN, Pipe2(p, r, w, c)
  PROVE  FT!Next
<1>1. PICK i \in Fd, j \in Fd :
        /\ Lowest(i, Free(p, 0)) /\ Lowest(j, Free(p, i + 1))
        /\ handles' = [handles EXCEPT ![p][i] = r, ![p][j] = w]
        /\ flags' = [flags EXCEPT ![p] = IF c THEN @ \cup {i, j} ELSE @ \ {i, j}]
  BY DEF Pipe2
<1>2. p \in Alive /\ r # w /\ refs[r] = 0 /\ refs[w] = 0 /\ UNCHANGED mi
  BY DEF Pipe2, Running, Alive
<1>3. /\ handles \in [Proc -> Row] /\ flags \in [Proc -> SUBSET Fd]
      /\ r # None /\ w # None
  BY CountInvParts
<1>4. i \in Int /\ j \in Int /\ i + 1 >= 0 /\ i + 1 \in Int /\ j # i
  BY <1>1, FdFinite DEF Lowest, Free, Fd
<1>5. /\ OtherRows(handles, handles', p)
      /\ handles'[p][i] = r /\ handles'[p][j] = w
      /\ \A k \in Fd \ {i, j} : handles'[p][k] = handles[p][k]
  BY <1>1, <1>3, <1>4 DEF Row, OtherRows
<1>6. /\ OtherRows(flags, flags', p)
      /\ flags'[p] = IF c THEN flags[p] \cup {i, j} ELSE flags[p] \ {i, j}
  BY <1>1, <1>3 DEF OtherRows
<1>7. FT!Flag(p, {i, j}, c)
  BY <1>3, <1>5, <1>6, FlagFollows
<1>8. /\ ~FT!Named(r) /\ ~FT!Named(w)
      /\ FT!LowestFree(p, 0, i) /\ FT!LowestFree(p, i + 1, j)
  BY <1>1, <1>2, <1>4, FreeUnnamed, LowestIsFree
<1>9. FT!Pipe(p, r, w, c)
  BY <1>1, <1>2, <1>7, <1>8, AliveSame DEF FT!Pipe, FT!Fd, Fd, Alive
<1>. QED  BY <1>2, <1>5, <1>9, CallStep

\* sys_dup2 onto a slot in use never asks for the flag.
LEMMA DupImplements ==
  ASSUME CountInv, NEW p \in Proc, NEW i \in Fd, NEW j \in Fd, NEW c \in BOOLEAN,
         Dup2(p, i, j, c), c => handles[p][j] = None
  PROVE  FT!Next
<1>1. /\ p \in Alive /\ i # j /\ handles[p][i] # None /\ UNCHANGED mi
      /\ handles' = [handles EXCEPT ![p][j] = handles[p][i]]
      /\ flags' = WithFlag(p, j, c)
  BY DEF Dup2, Running, Alive
<1>2. handles \in [Proc -> Row] /\ flags \in [Proc -> SUBSET Fd]
  BY CountInvParts
<1>3. OtherSlots(handles, handles', p, j) /\ handles'[p][j] = handles[p][i]
  BY <1>1, <1>2 DEF Row, OtherSlots, OtherRows
<1>4. /\ OtherRows(flags, flags', p)
      /\ flags'[p] = IF c THEN flags[p] \cup {j} ELSE flags[p] \ {j}
  BY <1>1, <1>2 DEF WithFlag, OtherRows
<1>5. FT!Flag(p, {j}, c)
  BY <1>1, <1>2, <1>3, <1>4, FlagFollows DEF OtherSlots
<1>6. FT!Dup(p, i, j, c)
  BY <1>1, <1>5, AliveSame DEF FT!Dup, Alive
<1>. QED  BY <1>1, <1>3, <1>6, CallStep DEF OtherSlots

\* A new process starts with its parent's descriptors and flags.
LEMMA InheritImplements ==
  ASSUME CountInv, NEW p \in Proc, NEW c \in Proc, Inherit(p, c),
         \A q \in Proc : q # c => mi'[q] = mi[q], mi'[c] # None
  PROVE  FT!Next
<1>1. /\ p \in Alive /\ c \notin Alive
      /\ handles' = [handles EXCEPT ![c] = handles[p]]
      /\ flags' = [flags EXCEPT ![c] = flags[p]]
  BY DEF Inherit, Running, Alive
<1>2. handles \in [Proc -> Row] /\ flags \in [Proc -> SUBSET Fd]
  BY CountInvParts
<1>3. Alive' = Alive \cup {c}
  BY DEF Alive
<1>4. Cloexec' = [Cloexec EXCEPT ![c] = Cloexec[p]]
  BY <1>1, <1>2 DEF Cloexec, ToClose
<1>5. FT!Fork(p, c)
  BY <1>1, <1>3, <1>4 DEF FT!Fork, Alive, Cloexec
<1>. QED  BY <1>1, <1>5 DEF FT!Next, Alive

LEMMA ExecImplements ==
  ASSUME CountInv, NEW p \in Proc, Exec(p)
  PROVE  FT!Next
<1>1. /\ p \in Alive /\ mi[p] # None
      /\ mi' = [mi EXCEPT ![p] = p]
      /\ handles' = [handles EXCEPT ![p] =
                       [i \in Fd |-> IF i \in ToClose(p) THEN None ELSE @[i]]]
      /\ flags' = [flags EXCEPT ![p] = @ \ ToClose(p)]
  BY DEF Exec, Running, Alive
<1>2. /\ handles \in [Proc -> Row] /\ flags \in [Proc -> SUBSET Fd]
      /\ mi \in [Proc -> Proc \cup {None}] /\ p # None
  BY CountInvParts
<1>3. Alive' = Alive
  BY <1>1, <1>2 DEF Alive
<1>4. Cloexec[p] = ToClose(p)
  BY DEF Cloexec
<1>5. handles' = [handles EXCEPT ![p] =
                    [i \in Fd |-> IF i \in Cloexec[p] THEN None ELSE @[i]]]
  BY <1>1, <1>4
<1>6. /\ OtherRows(handles, handles', p) /\ OtherRows(flags, flags', p)
      /\ flags'[p] = flags[p] \ ToClose(p)
      /\ \A i \in Fd \ ToClose(p) : handles'[p][i] = handles[p][i]
  BY <1>1, <1>2 DEF OtherRows
<1>7. Cloexec'[p] = {} /\ \A q \in Proc : q # p => Cloexec'[q] = Cloexec[q]
  BY <1>2, <1>6 DEF Cloexec, ToClose, OtherRows
<1>8. Cloexec' = [Cloexec EXCEPT ![p] = {}]
  BY <1>7 DEF Cloexec
<1>9. FT!Exec(p)
  BY <1>3, <1>5, <1>8 DEF FT!Exec, FT!Fd, Fd, Alive, Cloexec
<1>. QED  BY <1>1, <1>6, <1>9, CallStep

LEMMA ExitImplements ==
  ASSUME CountInv, NEW p \in Proc, Exit(p)
  PROVE  FT!Next
<1>1. /\ p \in Alive
      /\ mi' = [mi EXCEPT ![p] = None]
      /\ handles' = [handles EXCEPT ![p] = Closed]
      /\ flags' = [flags EXCEPT ![p] = {}]
  BY DEF Exit, Running, Alive
<1>2. /\ handles \in [Proc -> Row] /\ flags \in [Proc -> SUBSET Fd]
      /\ mi \in [Proc -> Proc \cup {None}]
  BY CountInvParts
<1>3. Alive' = Alive \ {p}
  BY <1>1, <1>2 DEF Alive
<1>4. OtherRows(handles, handles', p) /\ OtherRows(flags, flags', p) /\ flags'[p] = {}
  BY <1>1, <1>2 DEF OtherRows
<1>5. Cloexec'[p] = {} /\ \A q \in Proc : q # p => Cloexec'[q] = Cloexec[q]
  BY <1>4 DEF Cloexec, ToClose, OtherRows
<1>6. Cloexec' = [Cloexec EXCEPT ![p] = {}]
  BY <1>5 DEF Cloexec
<1>7. FT!Exit(p)
  BY <1>1, <1>3, <1>6 DEF FT!Exit, FT!Empty, Closed, FT!Fd, Fd, Alive, Cloexec
<1>. QED  BY <1>1, <1>4, <1>7, CallStep

LEMMA InitImplementsFdTables == ASSUME Init PROVE FT!Init
<1>1. Alive = {First}
  BY HandlesAssumption DEF Init, Alive
<1>2. handles = [p \in Proc |-> FT!Empty]
  BY DEF Init, FT!Empty, FT!Fd, Closed, Fd
<1>3. Cloexec = [p \in Proc |-> {}]
  BY DEF Init, Cloexec, ToClose
<1>. QED  BY <1>1, <1>2, <1>3 DEF FT!Init, Alive, Cloexec

\* Calls on mappings, and a count, are nothing that FdTables sees.
LEMMA StepImplementsFdTables ==
  ASSUME CountInv, [Next]_vars
  PROVE  [FT!Next]_(FT!vars)
<1>1. ASSUME UNCHANGED <<handles, flags, mi>> PROVE UNCHANGED FT!vars
  BY <1>1 DEF FT!vars, ToClose
<1>2. ASSUME NEW p \in Proc, NEW c \in BOOLEAN, Files(p, c) PROVE FT!Next
  <2>1. CASE \E h \in Handle : Open(p, h, c)
    BY <2>1, OpenImplements
  <2>2. CASE \E r, w \in Handle : Pipe2(p, r, w, c)
    BY <2>2, PipeImplements
  <2>3. CASE \E i, ge \in Fd : DupFd(p, i, ge, c)
    BY <2>3, DupImplements DEF DupFd, Lowest, Free
  <2>4. CASE \E i \in Fd : SetFd(p, i, c)
    BY <2>4, SetFdImplements
  <2>. QED  BY <1>2, <2>1, <2>2, <2>3, <2>4 DEF Files
<1>3. ASSUME NEW p \in Proc, Tables(p) PROVE FT!Next
  <2>1. CASE \E c \in BOOLEAN : Files(p, c)
    BY <2>1, <1>2
  <2>2. CASE \E i, j \in Fd : Dup2(p, i, j, FALSE)
    BY <2>2, DupImplements
  <2>3. CASE \E i \in Fd : Close(p, i)
    BY <2>3, CloseImplements
  <2>4. CASE Exec(p) \/ Exit(p)
    BY <2>4, ExecImplements, ExitImplements
  <2>. QED  BY <1>3, <2>1, <2>2, <2>3, <2>4 DEF Tables
<1>4. ASSUME NEW p \in Proc, Spaces(p) PROVE [FT!Next]_(FT!vars)
  <2>1. CASE \E G \in SUBSET Page \ {{}} : Munmap(p, G) \/ \E i \in Fd : Mmap(p, i, G)
    BY <2>1, <1>1 DEF Munmap, Mmap
  <2>2. ASSUME NEW c \in Proc, Fork(p, c) PROVE FT!Next
    <3>1. mi' = [mi EXCEPT ![c] = c] /\ Inherit(p, c)
      BY <2>2 DEF Fork
    <3>. QED  BY <3>1, CountInvParts, InheritImplements
  <2>3. ASSUME NEW c \in Proc, Vfork(p, c) PROVE FT!Next
    <3>1. mi' = [mi EXCEPT ![c] = mi[p]] /\ Inherit(p, c) /\ mi[p] # None
      BY <2>3 DEF Vfork, Inherit, Running
    <3>. QED  BY <3>1, CountInvParts, InheritImplements
  <2>. QED  BY <1>4, <2>1, <2>2, <2>3 DEF Spaces
<1>. QED  BY <1>1, <1>3, <1>4 DEF Next, vars

\* Whatever is opened, duplicated, forked, vforked, executed or mapped, by any
\* number of processes: the tables are what FdTables promises, and sys_open and
\* sys_pipe2 never take memory that a descriptor of any process still refers to.
THEOREM HandlesImplement == Spec => ImplementsFdTables
<1>. QED  BY InitImplementsFdTables, StepImplementsFdTables, CountAlways, PTL
          DEF Spec, ImplementsFdTables, FT!Spec
=============================================================================
