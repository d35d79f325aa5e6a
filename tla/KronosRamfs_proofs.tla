------------------------- MODULE KronosRamfs_proofs -------------------------
(***************************************************************************)
(* Theorems about KronosRamfs: whatever sequence of calls the programs     *)
(* make, sharing files or not, the copies of storage pointer, size and     *)
(* capacity that descriptors and entries keep stay within their storage,   *)
(* and no two files share storage.                                         *)
(***************************************************************************)
EXTENDS KronosRamfs, SequenceTheorems, NaturalsInduction, WellFoundedInduction, TLAPS

\* The first-match loops of ramfs.c find an element whenever there is one.
LEMMA FirstOfIn ==
  ASSUME NEW S \in SUBSET Nat, S # {}
  PROVE  FirstOf(S) \in S /\ \A j \in S : FirstOf(S) <= j
<1>1. PICK m \in S : \A j \in S : ~(<<j, m>> \in OpToRel(<, Nat))
  BY NatLessThanWellFounded, WFMin
<1>2. \A j \in S : ~(j < m)
  BY <1>1, Zenon DEF OpToRel
<1>3. \A j \in S : m <= j
  BY <1>2
<1>. QED  BY <1>3 DEF FirstOf

LEMMA OverlaySeq ==
  ASSUME NEW s \in Seq(Byte), NEW pos \in Nat, NEW n \in Nat, NEW v \in Byte
  PROVE  /\ Overlay(s, pos, n, v) \in Seq(Byte)
         /\ Len(Overlay(s, pos, n, v)) = Len(s)
BY DEF Overlay

LEMMA SyncSizeSeq ==
  ASSUME NEW es \in Seq(Extra), NEW b \in Nat, NEW sz \in Nat
  PROVE  /\ SyncSize(es, b, sz) \in Seq(Extra)
         /\ DOMAIN SyncSize(es, b, sz) = DOMAIN es
         /\ \A i \in DOMAIN es : SyncSize(es, b, sz)[i] =
              IF es[i].buf = b THEN [es[i] EXCEPT !.size = sz] ELSE es[i]
<1>1. ASSUME NEW e \in Extra
      PROVE  (IF e.buf = b THEN [e EXCEPT !.size = sz] ELSE e) \in Extra
  BY DEF Extra
<1>3. \A i \in DOMAIN es : es[i] \in Extra
  OBVIOUS
<1>2. SyncSize(es, b, sz) \in [1..Len(es) -> Extra]
  BY <1>1, <1>3 DEF SyncSize
<1>. QED  BY <1>2, SeqDef DEF SyncSize

LEMMA ReplacedEntry ==
  ASSUME NEW es \in Seq(Extra), NEW k \in DOMAIN es, NEW v \in Extra
  PROVE  /\ [es EXCEPT ![k] = v] \in Seq(Extra)
         /\ DOMAIN [es EXCEPT ![k] = v] = DOMAIN es
         /\ \A i \in DOMAIN es : [es EXCEPT ![k] = v][i] = IF i = k THEN v ELSE es[i]
OBVIOUS

LEMMA NormPathType ==
  ASSUME TypeOK, NEW n \in Names
  PROVE  NormPath(n) \in Paths
BY RamfsAssumption DEF NormPath, TypeOK

\* A free descriptor is filled, or the table is full and nothing is.
LEMMA InstallFdFills ==
  ASSUME TypeOK, NEW p \in Paths, NEW fl,
         NEW b \in Nat, NEW sz \in Nat, NEW cap \in Nat,
         InstallFd(p, fl, b, sz, cap)
  PROVE  /\ fds' \in [Fd -> FdEnt]
         /\ opened' \in [Fd -> Paths \cup {NoPath}]
         /\ \A f \in Fd : fds'[f] = fds[f] \/
              (fds'[f].buf = b /\ fds'[f].size = sz /\ fds'[f].cap = cap)
<1>1. CASE FreeFds = {}
  BY <1>1 DEF InstallFd, TypeOK
<1>2. CASE FreeFds # {}
  <2>. DEFINE g == FirstOf(FreeFds)
              d == [buf |-> b, size |-> sz, cap |-> cap,
                    pos |-> IF "APPEND" \in fl THEN sz ELSE 0,
                    used |-> TRUE, writable |-> fl # {}]
  <2>1. g \in Fd
    BY <1>2, FirstOfIn DEF FreeFds, Fd
  <2>2. d \in FdEnt
    BY DEF FdEnt
  <2>3. fds' = [fds EXCEPT ![g] = d] /\ opened' = [opened EXCEPT ![g] = p]
    BY <1>2 DEF InstallFd
  <2>. HIDE DEF g, d
  <2>4. fds' \in [Fd -> FdEnt] /\ opened' \in [Fd -> Paths \cup {NoPath}]
    BY <2>1, <2>2, <2>3 DEF TypeOK
  <2>5. \A f \in Fd : fds'[f] = fds[f] \/ fds'[f] = d
    BY <2>1, <2>3 DEF TypeOK
  <2>. QED  BY <2>4, <2>5 DEF d
<1>. QED  BY <1>1, <1>2

\* Calls that leave files and storage alone and move a position at most.
LEMMA PositionsOnly ==
  ASSUME StorageInv, UNCHANGED <<extras, heap>>,
         cwd' \in Dirs, opened' \in [Fd -> Paths \cup {NoPath}],
         fds' \in [Fd -> FdEnt],
         \A f \in Fd : fds'[f].used =>
           /\ fds[f].used
           /\ fds'[f].buf = fds[f].buf
           /\ fds'[f].cap = fds[f].cap
           /\ fds'[f].size = fds[f].size
  PROVE  StorageInv'
<1>1. TypeOK'
  BY DEF StorageInv, TypeOK
<1>2. InBounds'
  BY DEF StorageInv, InBounds, FdInBounds, EntryInBounds
<1>3. OwnStorage' /\ DirectoriesBare' /\ BlobInPlace'
  BY DEF StorageInv, OwnStorage, DirectoriesBare, BlobInPlace
<1>. QED  BY <1>1, <1>2, <1>3 DEF StorageInv

\* Fresh storage leaves the old one where it was.
LEMMA FreshStorage ==
  ASSUME StorageInv, NEW s \in Seq(Byte), heap' = Append(heap, s)
  PROVE  /\ heap' \in Seq(Seq(Byte))
         /\ Len(heap) \in Nat /\ DOMAIN heap = 1..Len(heap)
         /\ DOMAIN heap' = 1..(Len(heap) + 1)
         /\ heap'[Len(heap) + 1] = s
         /\ \A b \in DOMAIN heap : heap'[b] = heap[b]
         /\ BlobInPlace'
<1>1. /\ heap' \in Seq(Seq(Byte))
      /\ Len(heap) \in Nat /\ DOMAIN heap = 1..Len(heap)
      /\ DOMAIN heap' = 1..(Len(heap) + 1) /\ Len(heap') = Len(heap) + 1
      /\ heap'[Len(heap) + 1] = s
      /\ \A b \in DOMAIN heap : heap'[b] = heap[b]
  BY DEF StorageInv, TypeOK
<1>2. NBlob \in Nat
  BY RamfsAssumption DEF NBlob
<1>. QED  BY <1>1, <1>2 DEF StorageInv, BlobInPlace

LEMMA NewBytesSeq == NewBytes(ICap) \in Seq(Byte) /\ Len(NewBytes(ICap)) = ICap
BY RamfsAssumption DEF NewBytes

LEMMA OpenNewStep ==
  ASSUME StorageInv, NEW p \in Paths, NEW fl \in Modes, OpenNew(p, fl)
  PROVE  StorageInv'
<1>1. CASE Fail("open", 0, ENOMEM)
  BY <1>1, PositionsOnly DEF Fail, StorageInv, TypeOK
<1>2. CASE /\ CreateFile(p)
           /\ InstallFd(p, fl, Len(heap) + 1, 0, ICap)
           /\ UNCHANGED cwd
  <2>. DEFINE b == Len(heap) + 1
              e == [path |-> p, isdir |-> FALSE, buf |-> b, size |-> 0, cap |-> ICap]
  <2>1. /\ heap' \in Seq(Seq(Byte))
        /\ Len(heap) \in Nat /\ DOMAIN heap = 1..Len(heap)
        /\ DOMAIN heap' = 1..b /\ b = Len(heap) + 1
        /\ Len(heap'[b]) = ICap
        /\ \A c \in DOMAIN heap : heap'[c] = heap[c]
        /\ BlobInPlace'
    BY <1>2, NewBytesSeq, FreshStorage DEF CreateFile
  <2>2. extras' = Append(extras, e)
    BY <1>2 DEF CreateFile
  <2>4. /\ ICap \in Nat /\ NBlob \in Nat /\ b \in Nat /\ e \in Extra
        /\ e.path = p /\ ~e.isdir /\ e.buf = b /\ e.size = 0 /\ e.cap = ICap
    BY <2>1, RamfsAssumption DEF Extra, NBlob
  <2>12. InstallFd(p, fl, b, 0, ICap)
    BY <1>2
  <2>. HIDE DEF b, e
  <2>3. /\ fds' \in [Fd -> FdEnt]
        /\ opened' \in [Fd -> Paths \cup {NoPath}]
        /\ \A f \in Fd : fds'[f] = fds[f] \/
              (fds'[f].buf = b /\ fds'[f].size = 0 /\ fds'[f].cap = ICap)
    <3>1. TypeOK /\ b \in Nat /\ 0 \in Nat /\ ICap \in Nat
      BY <2>4 DEF StorageInv
    <3>. QED  BY ONLY <3>1, <2>12, p \in Paths, InstallFdFills
  <2>5. /\ extras' \in Seq(Extra) /\ Len(extras) \in Nat
        /\ DOMAIN extras = 1..Len(extras)
        /\ DOMAIN extras' = 1..(Len(extras) + 1)
        /\ extras'[Len(extras) + 1] = e
        /\ \A i \in DOMAIN extras : extras'[i] = extras[i]
    BY <2>2, <2>4 DEF StorageInv, TypeOK
  <2>6. TypeOK'
    BY <1>2, <2>1, <2>3, <2>5 DEF StorageInv, TypeOK
  <2>7. InBounds'
    <3>1. ASSUME NEW f \in Fd PROVE FdInBounds(fds[f])'
      <4>1. CASE fds'[f] = fds[f]
        <5>1. FdInBounds(fds[f])
          BY DEF StorageInv, InBounds
        <5>. QED  BY <2>1, <4>1, <5>1 DEF FdInBounds
      <4>2. CASE fds'[f].buf = b /\ fds'[f].size = 0 /\ fds'[f].cap = ICap
        BY <2>1, <2>4, <4>2 DEF FdInBounds
      <4>. QED  BY <2>3, <4>1, <4>2
    <3>2. ASSUME NEW i \in DOMAIN extras' PROVE EntryInBounds(extras[i])'
      <4>1. CASE i \in DOMAIN extras
        <5>1. EntryInBounds(extras[i])
          BY <4>1 DEF StorageInv, InBounds
        <5>. QED  BY <2>1, <2>5, <4>1, <5>1 DEF EntryInBounds
      <4>2. CASE i = Len(extras) + 1
        BY <2>1, <2>4, <2>5, <4>2 DEF EntryInBounds
      <4>. QED  BY <2>5, <4>1, <4>2
    <3>. QED  BY <3>1, <3>2 DEF InBounds
  <2>8. \A i \in DOMAIN extras : extras[i].path # p
    BY <2>5 DEF OpenNew, HasExtra, EntriesAt
  <2>9. \A i \in DOMAIN extras : ~extras[i].isdir => extras[i].buf # b /\ extras[i].buf > NBlob
    BY <2>1 DEF StorageInv, InBounds, EntryInBounds, OwnStorage
  <2>10. OwnStorage'
    <3>1. b > NBlob
      BY <2>1, <2>4 DEF StorageInv, BlobInPlace
    <3>2. ASSUME NEW i \in DOMAIN extras', NEW j \in DOMAIN extras'
          PROVE  /\ ~extras'[i].isdir /\ ~extras'[j].isdir
                      /\ extras'[i].buf = extras'[j].buf => i = j
                 /\ extras'[i].path = extras'[j].path => i = j
                 /\ ~extras'[i].isdir => extras'[i].buf > NBlob
      BY <2>4, <2>5, <2>8, <2>9, <3>1 DEF StorageInv, OwnStorage
    <3>. QED  BY <3>2 DEF OwnStorage
  <2>11. DirectoriesBare'
    BY <2>4, <2>5 DEF StorageInv, DirectoriesBare
  <2>. QED  BY <2>1, <2>6, <2>7, <2>10, <2>11 DEF StorageInv
<1>. QED  BY <1>1, <1>2 DEF OpenNew

\* Calls that move no file: entries keep their paths and their storage,
\* storage keeps its length, and only sizes, bytes and descriptors change.
LEMMA SameStorage ==
  ASSUME StorageInv,
         heap' \in Seq(Seq(Byte)), Len(heap') = Len(heap),
         \A b \in DOMAIN heap : Len(heap'[b]) = Len(heap[b]),
         extras' \in Seq(Extra), DOMAIN extras' = DOMAIN extras,
         \A i \in DOMAIN extras :
           /\ extras'[i].path = extras[i].path /\ extras'[i].isdir = extras[i].isdir
           /\ extras'[i].buf = extras[i].buf /\ extras'[i].cap = extras[i].cap
           /\ ~extras[i].isdir => extras'[i].size <= extras[i].cap,
         cwd' \in Dirs, opened' \in [Fd -> Paths \cup {NoPath}],
         fds' \in [Fd -> FdEnt],
         \A f \in Fd : FdInBounds(fds'[f])
  PROVE  StorageInv'
<1>1. TypeOK'
  BY DEF TypeOK
<1>2. /\ Len(heap) \in Nat /\ DOMAIN heap = 1..Len(heap) /\ DOMAIN heap' = 1..Len(heap)
  BY DEF StorageInv, TypeOK
<1>3. NBlob \in Nat
  BY RamfsAssumption DEF NBlob
<1>4. InBounds'
  <2>1. ASSUME NEW f \in Fd PROVE FdInBounds(fds[f])'
    <3>1. FdInBounds(fds'[f])
      OBVIOUS
    <3>. QED  BY <1>2, <3>1 DEF FdInBounds
  <2>2. ASSUME NEW i \in DOMAIN extras PROVE EntryInBounds(extras[i])'
    <3>1. EntryInBounds(extras[i])
      BY DEF StorageInv, InBounds
    <3>. QED  BY <1>2, <3>1 DEF EntryInBounds
  <2>. QED  BY <2>1, <2>2 DEF InBounds
<1>5. OwnStorage'
  BY DEF StorageInv, OwnStorage
<1>6. DirectoriesBare'
  BY DEF StorageInv, DirectoriesBare
<1>7. BlobInPlace'
  <2>1. BlobInPlace
    BY DEF StorageInv
  <2>2. ASSUME NEW i \in 1..NBlob PROVE Len(heap'[i]) = Len(BlobData[i])
    <3>1. i \in DOMAIN heap
      BY <1>2, <1>3, <2>1 DEF BlobInPlace
    <3>. QED  BY <2>1, <3>1 DEF BlobInPlace
  <2>. QED  BY <2>1, <2>2 DEF BlobInPlace
<1>. QED  BY <1>1, <1>4, <1>5, <1>6, <1>7 DEF StorageInv

\* extra_find returns an entry of that path.
LEMMA ExtraFound ==
  ASSUME StorageInv, NEW p, HasExtra(p)
  PROVE  /\ FirstOf(EntriesAt(p)) \in DOMAIN extras
         /\ ExtraAt(p) \in Extra
         /\ EntryInBounds(ExtraAt(p))
<1>1. EntriesAt(p) \in SUBSET Nat /\ EntriesAt(p) \subseteq DOMAIN extras
  BY DEF EntriesAt, StorageInv, TypeOK
<1>2. FirstOf(EntriesAt(p)) \in DOMAIN extras
  BY <1>1, FirstOfIn DEF HasExtra
<1>. QED  BY <1>2 DEF ExtraAt, StorageInv, TypeOK, InBounds

LEMMA OpenTruncStep ==
  ASSUME StorageInv, NEW p \in Paths, NEW fl \in Modes, OpenTrunc(p, fl)
  PROVE  StorageInv'
<1>. DEFINE k == FirstOf(EntriesAt(p))
            e == ExtraAt(p)
<1>1. k \in DOMAIN extras /\ e \in Extra /\ EntryInBounds(e) /\ e = extras[k] /\ ~e.isdir
  BY ExtraFound DEF OpenTrunc, ExtraAt, IsDirExtra
<1>2. extras' = [extras EXCEPT ![k].size = 0] /\ UNCHANGED <<heap, cwd>>
      /\ InstallFd(p, fl, e.buf, 0, e.cap)
  BY DEF OpenTrunc
<1>. HIDE DEF k, e
<1>3. extras \in Seq(Extra)
  BY DEF StorageInv, TypeOK
<1>4. [extras[k] EXCEPT !.size = 0] \in Extra
  BY <1>1 DEF Extra
<1>5. /\ extras' = [extras EXCEPT ![k] = [extras[k] EXCEPT !.size = 0]]
      /\ extras' \in Seq(Extra) /\ DOMAIN extras' = DOMAIN extras
      /\ \A i \in DOMAIN extras : extras'[i] =
           IF i = k THEN [extras[k] EXCEPT !.size = 0] ELSE extras[i]
  <2>. DEFINE v == [extras[k] EXCEPT !.size = 0]
  <2>1. v \in Extra /\ k \in DOMAIN extras /\ extras' = [extras EXCEPT ![k] = v]
    BY <1>1, <1>2, <1>4
  <2>2. extras' = [extras EXCEPT ![k] = v]
        /\ extras' \in Seq(Extra) /\ DOMAIN extras' = DOMAIN extras
        /\ \A i \in DOMAIN extras : extras'[i] = IF i = k THEN v ELSE extras[i]
    <3>. HIDE DEF v
    <3>. QED  BY <1>3, <2>1, ReplacedEntry
  <2>. QED  BY <2>2
<1>6. ASSUME NEW i \in DOMAIN extras
      PROVE  /\ extras'[i].path = extras[i].path /\ extras'[i].isdir = extras[i].isdir
             /\ extras'[i].buf = extras[i].buf /\ extras'[i].cap = extras[i].cap
             /\ ~extras[i].isdir => extras'[i].size <= extras[i].cap
  <2>1. extras[i] \in Extra /\ EntryInBounds(extras[i])
    BY DEF StorageInv, TypeOK, InBounds
  <2>. QED  BY <1>5, <2>1 DEF Extra, EntryInBounds
<1>7. e.buf \in Nat /\ e.cap \in Nat
  BY <1>1 DEF Extra
<1>8. /\ fds' \in [Fd -> FdEnt]
      /\ opened' \in [Fd -> Paths \cup {NoPath}]
      /\ \A f \in Fd : fds'[f] = fds[f] \/
           (fds'[f].buf = e.buf /\ fds'[f].size = 0 /\ fds'[f].cap = e.cap)
  <2>1. TypeOK /\ e.buf \in Nat /\ 0 \in Nat /\ e.cap \in Nat
        /\ InstallFd(p, fl, e.buf, 0, e.cap)
    BY <1>2, <1>7 DEF StorageInv
  <2>. QED  BY ONLY <2>1, p \in Paths, InstallFdFills
<1>9. \A f \in Fd : FdInBounds(fds'[f])
  BY <1>1, <1>7, <1>8 DEF StorageInv, InBounds, FdInBounds, EntryInBounds
<1>. QED
  BY <1>2, <1>5, <1>6, <1>8, <1>9, SameStorage DEF StorageInv, TypeOK

LEMMA OpenExistingStep ==
  ASSUME StorageInv, NEW p \in Paths, NEW fl \in Modes, OpenExisting(p, fl)
  PROVE  StorageInv'
<1>. DEFINE cap == IF HasExtra(p) THEN ExtraAt(p).cap ELSE SizeOf(p)
            b   == BufOf(p)
            sz  == SizeOf(p)
<1>1. /\ b \in DOMAIN heap /\ b \in Nat /\ cap \in Nat /\ sz \in Nat
      /\ cap = Len(heap[b]) /\ sz <= cap
  <2>1. CASE HasExtra(p)
    <3>1. ExtraAt(p) \in Extra /\ EntryInBounds(ExtraAt(p)) /\ ~ExtraAt(p).isdir
      BY <2>1, ExtraFound DEF OpenExisting, IsFile
    <3>. QED  BY <2>1, <3>1 DEF Extra, EntryInBounds, BufOf, SizeOf
  <2>2. CASE ~HasExtra(p)
    <3>1. BlobAt(p) # {} /\ BlobAt(p) \in SUBSET Nat
      BY <2>2 DEF OpenExisting, IsFile, BlobAt
    <3>2. FirstOf(BlobAt(p)) \in 1..NBlob
      BY <3>1, FirstOfIn DEF BlobAt
    <3>3. /\ NBlob \in Nat
          /\ \A i \in 1..NBlob : Len(BlobData[i]) \in Nat
      BY RamfsAssumption DEF NBlob
    <3>4. FirstOf(BlobAt(p)) \in DOMAIN heap
      BY <3>2, <3>3 DEF StorageInv, BlobInPlace, TypeOK
    <3>5. Len(heap[FirstOf(BlobAt(p))]) = Len(BlobData[FirstOf(BlobAt(p))])
      BY <3>2 DEF StorageInv, BlobInPlace
    <3>. QED  BY <2>2, <3>2, <3>3, <3>4, <3>5 DEF BufOf, SizeOf
  <2>. QED  BY <2>1, <2>2
<1>2. UNCHANGED <<extras, heap, cwd>> /\ InstallFd(p, fl, b, sz, cap)
  BY DEF OpenExisting
<1>. HIDE DEF cap, b, sz
<1>3. /\ fds' \in [Fd -> FdEnt]
      /\ opened' \in [Fd -> Paths \cup {NoPath}]
      /\ \A f \in Fd : fds'[f] = fds[f] \/
           (fds'[f].buf = b /\ fds'[f].size = sz /\ fds'[f].cap = cap)
  <2>1. TypeOK /\ InstallFd(p, fl, b, sz, cap)
    BY <1>2 DEF StorageInv
  <2>2. b \in Nat /\ cap \in Nat /\ sz \in Nat
    BY <1>1
  <2>. QED  BY <2>1, <2>2, InstallFdFills
<1>4. \A f \in Fd : FdInBounds(fds'[f])
  BY <1>1, <1>3 DEF StorageInv, InBounds, FdInBounds
<1>5. \A i \in DOMAIN extras : EntryInBounds(extras[i])
  BY DEF StorageInv, InBounds
<1>. QED
  BY <1>2, <1>3, <1>4, <1>5, SameStorage DEF StorageInv, TypeOK, EntryInBounds

\* The entry that has a descriptor's storage has its capacity, so the size the
\* descriptor hands back fits.
LEMMA SyncSizeInBounds ==
  ASSUME StorageInv, NEW b \in DOMAIN heap, NEW sz \in Nat, sz <= Len(heap[b])
  PROVE  /\ SyncSize(extras, b, sz) \in Seq(Extra)
         /\ DOMAIN SyncSize(extras, b, sz) = DOMAIN extras
         /\ \A i \in DOMAIN extras :
              LET e == SyncSize(extras, b, sz)[i] IN
              /\ e.path = extras[i].path /\ e.isdir = extras[i].isdir
              /\ e.buf = extras[i].buf /\ e.cap = extras[i].cap
              /\ ~extras[i].isdir => e.size <= extras[i].cap
<1>1. extras \in Seq(Extra) /\ b \in Nat
  BY DEF StorageInv, TypeOK
<1>2. /\ SyncSize(extras, b, sz) \in Seq(Extra)
      /\ DOMAIN SyncSize(extras, b, sz) = DOMAIN extras
      /\ \A i \in DOMAIN extras : SyncSize(extras, b, sz)[i] =
           IF extras[i].buf = b THEN [extras[i] EXCEPT !.size = sz] ELSE extras[i]
  BY <1>1, SyncSizeSeq, SMTT(30)
<1>3. ASSUME NEW i \in DOMAIN extras
      PROVE  LET e == SyncSize(extras, b, sz)[i] IN
             /\ e.path = extras[i].path /\ e.isdir = extras[i].isdir
             /\ e.buf = extras[i].buf /\ e.cap = extras[i].cap
             /\ ~extras[i].isdir => e.size <= extras[i].cap
  <2>1. extras[i] \in Extra /\ EntryInBounds(extras[i])
    BY DEF StorageInv, TypeOK, InBounds
  <2>. QED  BY <1>2, <2>1 DEF Extra, EntryInBounds
<1>. QED  BY <1>2, <1>3

LEMMA OpenStep ==
  ASSUME StorageInv, NEW n \in Names, NEW fl \in Modes, Open(n, fl)
  PROVE  StorageInv'
<1>. DEFINE p == NormPath(n)
<1>1. p \in Paths
  BY NormPathType DEF StorageInv
<1>2. CASE Fail("open", 0, EINVAL) \/ Fail("open", 0, ENOENT)
  BY <1>2, PositionsOnly DEF Fail, StorageInv, TypeOK
<1>3. CASE OpenNew(p, fl) \/ OpenTrunc(p, fl) \/ OpenExisting(p, fl)
  <2>. HIDE DEF p
  <2>. QED  BY <1>1, <1>3, OpenNewStep, OpenTruncStep, OpenExistingStep
<1>. QED  BY <1>2, <1>3 DEF Open

\* A refused call, a query and a new program change no descriptor and no file.
LEMMA NothingMoves ==
  ASSUME StorageInv, UNCHANGED <<extras, heap, fds>>,
         cwd' \in Dirs, opened' \in [Fd -> Paths \cup {NoPath}]
  PROVE  StorageInv'
BY PositionsOnly DEF StorageInv, TypeOK

LEMMA FdEntType ==
  ASSUME StorageInv, NEW f \in Fd
  PROVE  /\ fds[f] \in FdEnt
         /\ fds[f].buf \in Nat /\ fds[f].size \in Nat /\ fds[f].cap \in Nat
         /\ fds[f].pos \in Nat /\ fds[f].used \in BOOLEAN
         /\ FdInBounds(fds[f])
<1>1. fds[f] \in FdEnt
  BY DEF StorageInv, TypeOK
<1>. QED  BY <1>1 DEF FdEnt, StorageInv, InBounds

LEMMA PositionMoves ==
  ASSUME StorageInv, NEW f \in Fd, NEW np \in Nat,
         fds' = [fds EXCEPT ![f].pos = np],
         UNCHANGED <<extras, heap, cwd, opened>>
  PROVE  StorageInv'
<1>1. fds' = [fds EXCEPT ![f] = [fds[f] EXCEPT !.pos = np]]
  OBVIOUS
<1>2. fds[f] \in FdEnt
  BY FdEntType
<1>3. [fds[f] EXCEPT !.pos = np] \in FdEnt
  BY <1>2 DEF FdEnt
<1>4. fds' \in [Fd -> FdEnt]
  BY <1>1, <1>3 DEF StorageInv, TypeOK
<1>5. ASSUME NEW g \in Fd
      PROVE  /\ fds'[g].used = fds[g].used /\ fds'[g].buf = fds[g].buf
             /\ fds'[g].cap = fds[g].cap /\ fds'[g].size = fds[g].size
  BY <1>1, <1>2 DEF StorageInv, TypeOK, FdEnt
<1>6. cwd' \in Dirs /\ opened' \in [Fd -> Paths \cup {NoPath}]
  BY DEF StorageInv, TypeOK
<1>. QED  BY <1>4, <1>5, <1>6, PositionsOnly

LEMMA ReadStep ==
  ASSUME StorageInv, NEW f \in Fd, NEW n \in Counts, Read(f, n)
  PROVE  StorageInv'
<1>1. CASE Fail("read", f, EBADF)
  BY <1>1, NothingMoves DEF Fail, StorageInv, TypeOK
<1>2. CASE ~Fail("read", f, EBADF)
  <2>1. n \in Nat /\ fds[f].pos \in Nat /\ fds[f].size \in Nat
    BY RamfsAssumption, FdEntType
  <2>2. UNCHANGED <<extras, heap, cwd, opened>>
    BY <1>2 DEF Read
  <2>3. PICK k \in Nat : fds' = [fds EXCEPT ![f].pos = @ + k]
    <3>. DEFINE left == IF fds[f].pos >= fds[f].size THEN 0
                        ELSE fds[f].size - fds[f].pos
                k    == IF n > left THEN left ELSE n
    <3>1. fds' = [fds EXCEPT ![f].pos = @ + k]
      BY <1>2 DEF Read
    <3>2. left \in Nat
      BY <2>1
    <3>3. k \in Nat
      BY <2>1, <3>2
    <3>. QED  BY <3>1, <3>3
  <2>4. fds' = [fds EXCEPT ![f].pos = fds[f].pos + k] /\ fds[f].pos + k \in Nat
    BY <2>1, <2>3
  <2>. QED  BY <2>2, <2>4, PositionMoves
<1>. QED  BY <1>1, <1>2

LEMMA SeekStep ==
  ASSUME StorageInv, NEW f \in Fd, NEW off \in Offsets,
         NEW w \in {"set", "cur", "end"}, Seek(f, off, w)
  PROVE  StorageInv'
<1>1. CASE Fail("lseek", f, EBADF) \/ Fail("lseek", f, EINVAL)
  BY <1>1, NothingMoves DEF Fail, StorageInv, TypeOK
<1>2. CASE ~(Fail("lseek", f, EBADF) \/ Fail("lseek", f, EINVAL))
  <2>. DEFINE base == CASE w = "set" -> 0
                        [] w = "cur" -> fds[f].pos
                        [] w = "end" -> fds[f].size
              np == Signed(Wrap(IF base + off < 0 THEN base + off + WordSize ELSE base + off))
  <2>1. fds' = [fds EXCEPT ![f].pos = np] /\ np >= 0
        /\ UNCHANGED <<extras, heap, cwd, opened>>
    BY <1>2 DEF Seek
  <2>2. base \in Nat
    BY FdEntType
  <2>3. off \in Int /\ WordSize \in Nat
    BY RamfsAssumption
  <2>4. np \in Int
    <3>. HIDE DEF base
    <3>. QED  BY <2>2, <2>3 DEF Signed, Wrap
  <2>5. np \in Nat
    <3>. HIDE DEF np
    <3>. QED  BY <2>1, <2>4
  <2>. HIDE DEF np, base
  <2>. QED  BY <2>1, <2>5, PositionMoves
<1>. QED  BY <1>1, <1>2

\* n bytes at a descriptor's position fit into the storage it has, and every
\* copy of the size that changes is the new one.
LEMMA WriteInPlaceStep ==
  ASSUME StorageInv, NEW f \in Fd, NEW n \in Counts, NEW v \in Tags,
         Valid(f), WriteInPlace(f, n, v), UNCHANGED <<cwd, opened>>
  PROVE  StorageInv'
<1>. DEFINE b == fds[f].buf
            end == fds[f].pos + n
            sz == Larger(fds[f].size, end)
<1>1. n \in Nat /\ v \in Byte
  BY RamfsAssumption
<1>2. /\ b \in Nat /\ fds[f].size \in Nat /\ fds[f].cap \in Nat /\ fds[f].pos \in Nat
      /\ fds[f] \in FdEnt /\ FdInBounds(fds[f]) /\ fds[f].used
  BY FdEntType DEF Valid
<1>3. end \in Nat /\ sz \in Nat /\ end <= fds[f].cap
  BY <1>1, <1>2 DEF Larger, WriteInPlace
<1>4. b \in DOMAIN heap /\ fds[f].cap = Len(heap[b]) /\ sz <= Len(heap[b])
  BY <1>2, <1>3 DEF FdInBounds, Larger
<1>5. /\ heap' = [heap EXCEPT ![b] = Overlay(heap[b], fds[f].pos, n, v)]
      /\ fds' = [fds EXCEPT ![f] = [fds[f] EXCEPT !.pos = end, !.size = sz]]
      /\ extras' = SyncSize(extras, b, sz)
  BY DEF WriteInPlace
<1>. HIDE DEF b, end, sz
<1>6. heap \in Seq(Seq(Byte)) /\ heap[b] \in Seq(Byte)
  BY <1>4 DEF StorageInv, TypeOK
<1>7. Overlay(heap[b], fds[f].pos, n, v) \in Seq(Byte)
      /\ Len(Overlay(heap[b], fds[f].pos, n, v)) = Len(heap[b])
  BY <1>1, <1>2, <1>6, OverlaySeq
<1>8. /\ heap' \in Seq(Seq(Byte)) /\ Len(heap') = Len(heap)
      /\ \A c \in DOMAIN heap : Len(heap'[c]) = Len(heap[c])
  BY <1>4, <1>5, <1>6, <1>7
<1>9. [fds[f] EXCEPT !.pos = end, !.size = sz] \in FdEnt
  BY <1>2, <1>3 DEF FdEnt
<1>10. fds' \in [Fd -> FdEnt]
  BY <1>5, <1>9 DEF StorageInv, TypeOK
<1>11. ASSUME NEW g \in Fd PROVE FdInBounds(fds'[g])
  <2>1. CASE g = f
    <3>1. /\ fds'[g].buf = b /\ fds'[g].size = sz /\ fds'[g].cap = fds[f].cap
      BY <1>2, <1>5, <2>1 DEF StorageInv, TypeOK, FdEnt, b
    <3>. QED  BY <1>4, <3>1 DEF FdInBounds
  <2>2. CASE g # f
    BY <1>5, <2>2, FdEntType DEF StorageInv, TypeOK
  <2>. QED  BY <2>1, <2>2
<1>12. cwd' \in Dirs /\ opened' \in [Fd -> Paths \cup {NoPath}]
  BY DEF StorageInv, TypeOK
<1>. QED
  <2>1. /\ extras' \in Seq(Extra) /\ DOMAIN extras' = DOMAIN extras
        /\ \A i \in DOMAIN extras :
             /\ extras'[i].path = extras[i].path /\ extras'[i].isdir = extras[i].isdir
             /\ extras'[i].buf = extras[i].buf /\ extras'[i].cap = extras[i].cap
             /\ ~extras[i].isdir => extras'[i].size <= extras[i].cap
    BY <1>3, <1>4, <1>5, SyncSizeInBounds
  <2>. QED  BY <1>8, <1>10, <1>11, <1>12, <2>1, SameStorage

\* Growing: the entry is the one file with that storage, and it and the
\* descriptor take storage nobody else has.
LEMMA WriteGrowingStep ==
  ASSUME StorageInv, NEW f \in Fd, NEW n \in Counts, NEW v \in Tags,
         Valid(f), WriteGrowing(f, n, v), UNCHANGED <<cwd, opened>>
  PROVE  StorageInv'
<1>. DEFINE old == fds[f].buf
            end == fds[f].pos + n
            sz == Larger(fds[f].size, end)
            k == FirstOf(EntriesFor(old))
            b == Len(heap) + 1
<1>1. n \in Nat /\ v \in Byte /\ NBlob \in Nat /\ Junk \in Byte
  BY RamfsAssumption DEF NBlob
<1>2. /\ old \in Nat /\ fds[f].size \in Nat /\ fds[f].cap \in Nat /\ fds[f].pos \in Nat
      /\ fds[f] \in FdEnt /\ FdInBounds(fds[f]) /\ fds[f].used
  BY FdEntType DEF Valid
<1>3. old \in DOMAIN heap /\ fds[f].cap = Len(heap[old]) /\ fds[f].size <= fds[f].cap
  BY <1>2 DEF FdInBounds
<1>4. end \in Nat /\ sz \in Nat /\ fds[f].cap < end /\ sz = end
  BY <1>1, <1>2, <1>3 DEF Larger, WriteGrowing
<1>5. /\ heap \in Seq(Seq(Byte)) /\ extras \in Seq(Extra) /\ heap[old] \in Seq(Byte)
      /\ Len(heap) \in Nat /\ DOMAIN heap = 1..Len(heap)
      /\ Len(extras) \in Nat /\ DOMAIN extras = 1..Len(extras)
  BY <1>3 DEF StorageInv, TypeOK
<1>6. k \in DOMAIN extras /\ extras[k].buf = old
  <2>1. EntriesFor(old) \in SUBSET Nat
    BY <1>5 DEF EntriesFor
  <2>2. EntriesFor(old) # {}
    BY DEF WriteGrowing
  <2>3. k \in EntriesFor(old)
    BY <2>1, <2>2, FirstOfIn
  <2>. QED  BY <2>3 DEF EntriesFor
<1>7. /\ extras[k] \in Extra /\ ~extras[k].isdir
      /\ extras[k].size \in Nat /\ extras[k].cap \in Nat
      /\ extras[k].size <= Len(heap[old])
  <2>1. extras[k] \in Extra /\ EntryInBounds(extras[k])
    BY <1>5, <1>6 DEF StorageInv, InBounds
  <2>2. ~extras[k].isdir
    <3>1. old # 0
      BY <1>3, <1>5
    <3>. QED  BY <1>6, <3>1 DEF StorageInv, DirectoriesBare
  <2>. QED  BY <1>6, <2>1, <2>2 DEF Extra, EntryInBounds
<1>8. PICK c \in Doubled(extras[k].cap, end) :
      /\ heap' = Append(heap, Overlay(
           [i \in 1..c |-> IF i <= extras[k].size THEN heap[old][i] ELSE Junk],
           fds[f].pos, n, v))
      /\ fds' = [fds EXCEPT ![f].buf = b, ![f].cap = c, ![f].pos = end,
                            ![f].size = sz]
      /\ extras' = [extras EXCEPT ![k].buf = b, ![k].cap = c, ![k].size = sz]
  BY DEF WriteGrowing
<1>9. c \in Nat /\ c >= end
  BY RamfsAssumption DEF Doubled
<1>. DEFINE s == Overlay([i \in 1..c |-> IF i <= extras[k].size THEN heap[old][i] ELSE Junk],
                         fds[f].pos, n, v)
            d == [fds[f] EXCEPT !.buf = b, !.cap = c, !.pos = end, !.size = sz]
            e == [extras[k] EXCEPT !.buf = b, !.cap = c, !.size = sz]
<1>10. s \in Seq(Byte) /\ Len(s) = c
  <2>. DEFINE t == [i \in 1..c |-> IF i <= extras[k].size THEN heap[old][i] ELSE Junk]
  <2>1. t \in [1..c -> Byte]
    BY <1>1, <1>5, <1>7, <1>9
  <2>2. t \in Seq(Byte) /\ Len(t) = c
    BY <1>9, <2>1
  <2>. HIDE DEF t
  <2>3. Overlay(t, fds[f].pos, n, v) \in Seq(Byte) /\ Len(Overlay(t, fds[f].pos, n, v)) = c
    BY <1>1, <1>2, <2>2, OverlaySeq
  <2>. QED  BY <2>3 DEF t
<1>11. heap' = Append(heap, s) /\ fds' = [fds EXCEPT ![f] = d]
       /\ extras' = [extras EXCEPT ![k] = e]
  BY <1>8
<1>12. /\ d \in FdEnt /\ d.buf = b /\ d.cap = c /\ d.size = sz
       /\ e \in Extra /\ e.path = extras[k].path /\ ~e.isdir
       /\ e.buf = b /\ e.cap = c /\ e.size = sz
  <2>1. b \in Nat
    BY <1>5
  <2>. HIDE DEF b, end, sz, k
  <2>2. d \in FdEnt /\ d.buf = b /\ d.cap = c /\ d.size = sz
    BY <1>2, <1>4, <1>9, <2>1 DEF FdEnt
  <2>3. /\ e \in Extra /\ e.path = extras[k].path /\ ~e.isdir
        /\ e.buf = b /\ e.cap = c /\ e.size = sz
    BY <1>4, <1>7, <1>9, <2>1 DEF Extra
  <2>. QED  BY <2>2, <2>3
<1>. HIDE DEF s, d, e, sz, k
<1>13. /\ heap' \in Seq(Seq(Byte))
       /\ DOMAIN heap' = 1..b
       /\ heap'[b] = s
       /\ \A g \in DOMAIN heap : heap'[g] = heap[g]
       /\ BlobInPlace'
  BY <1>10, <1>11, FreshStorage
<1>14. /\ extras' \in Seq(Extra) /\ DOMAIN extras' = DOMAIN extras
       /\ \A i \in DOMAIN extras : extras'[i] = IF i = k THEN e ELSE extras[i]
  BY <1>5, <1>6, <1>11, <1>12
<1>15. /\ fds' \in [Fd -> FdEnt]
       /\ \A g \in Fd : fds'[g] = IF g = f THEN d ELSE fds[g]
  BY <1>11, <1>12 DEF StorageInv, TypeOK
<1>16. TypeOK'
  BY <1>13, <1>14, <1>15 DEF StorageInv, TypeOK
<1>17. InBounds'
  <2>1. ASSUME NEW g \in Fd PROVE FdInBounds(fds[g])'
    <3>1. FdInBounds(fds[g])
      BY DEF StorageInv, InBounds
    <3>2. CASE g = f
      BY <1>4, <1>5, <1>9, <1>10, <1>12, <1>13, <1>15, <3>2 DEF FdInBounds
    <3>3. CASE g # f
      <4>1. fds'[g] = fds[g]
        BY <1>15, <3>3
      <4>2. DOMAIN heap \subseteq DOMAIN heap'
        BY <1>5, <1>13
      <4>. QED  BY <1>13, <3>1, <4>1, <4>2 DEF FdInBounds
    <3>. QED  BY <3>2, <3>3
  <2>2. ASSUME NEW i \in DOMAIN extras PROVE EntryInBounds(extras[i])'
    <3>1. EntryInBounds(extras[i])
      BY DEF StorageInv, InBounds
    <3>2. CASE i = k
      BY <1>4, <1>5, <1>9, <1>10, <1>12, <1>13, <1>14, <3>2 DEF EntryInBounds
    <3>3. CASE i # k
      BY <1>5, <1>13, <1>14, <3>1, <3>3 DEF EntryInBounds
    <3>. QED  BY <3>2, <3>3
  <2>. QED  BY <1>14, <2>1, <2>2 DEF InBounds
<1>18. OwnStorage'
  <2>1. b > NBlob /\ b \in Nat
    BY <1>1, <1>5 DEF StorageInv, BlobInPlace
  <2>2. \A i \in DOMAIN extras : ~extras[i].isdir => extras[i].buf # b
    BY <1>5 DEF StorageInv, InBounds, EntryInBounds
  <2>3. OwnStorage
    BY DEF StorageInv
  <2>. HIDE DEF b
  <2>4. ASSUME NEW i \in DOMAIN extras, NEW j \in DOMAIN extras
        PROVE  /\ ~extras'[i].isdir /\ ~extras'[j].isdir
                    /\ extras'[i].buf = extras'[j].buf => i = j
               /\ extras'[i].path = extras'[j].path => i = j
               /\ ~extras'[i].isdir => extras'[i].buf > NBlob
    BY <1>12, <1>14, <2>1, <2>2, <2>3 DEF OwnStorage
  <2>. QED  BY <1>14, <2>4 DEF OwnStorage
<1>19. DirectoriesBare'
  BY <1>12, <1>14 DEF StorageInv, DirectoriesBare
<1>. QED  BY <1>13, <1>16, <1>17, <1>18, <1>19 DEF StorageInv

LEMMA WriteStep ==
  ASSUME StorageInv, NEW f \in Fd, NEW n \in Counts, NEW v \in Tags, Write(f, n, v)
  PROVE  StorageInv'
<1>1. CASE Fail("write", f, EBADF) \/ Fail("write", f, ENOMEM)
  BY <1>1, NothingMoves DEF Fail, StorageInv, TypeOK
<1>2. CASE Valid(f) /\ WriteInPlace(f, n, v) /\ UNCHANGED <<cwd, opened>>
  BY <1>2, WriteInPlaceStep
<1>3. CASE Valid(f) /\ WriteGrowing(f, n, v) /\ UNCHANGED <<cwd, opened>>
  BY <1>3, WriteGrowingStep
<1>. QED  BY <1>1, <1>2, <1>3 DEF Write

LEMMA CloseStep ==
  ASSUME StorageInv, NEW f \in Fd, Close(f)
  PROVE  StorageInv'
<1>1. CASE Fail("close", f, EBADF)
  BY <1>1, NothingMoves DEF Fail, StorageInv, TypeOK
<1>2. CASE ~Fail("close", f, EBADF)
  <2>1. /\ Valid(f)
        /\ extras' = SyncSize(extras, fds[f].buf, fds[f].size)
        /\ fds' = [fds EXCEPT ![f] = FreeFd]
        /\ opened' = [opened EXCEPT ![f] = NoPath]
        /\ UNCHANGED <<heap, cwd>>
    BY <1>2 DEF Close
  <2>2. /\ fds[f].buf \in DOMAIN heap /\ fds[f].size \in Nat
        /\ fds[f].size <= Len(heap[fds[f].buf])
    BY <2>1, FdEntType DEF FdInBounds, Valid
  <2>3. /\ extras' \in Seq(Extra) /\ DOMAIN extras' = DOMAIN extras
        /\ \A i \in DOMAIN extras :
             /\ extras'[i].path = extras[i].path /\ extras'[i].isdir = extras[i].isdir
             /\ extras'[i].buf = extras[i].buf /\ extras'[i].cap = extras[i].cap
             /\ ~extras[i].isdir => extras'[i].size <= extras[i].cap
    BY <2>1, <2>2, SyncSizeInBounds
  <2>4. FreeFd \in FdEnt /\ ~FreeFd.used
    BY DEF FreeFd, FdEnt
  <2>5. fds' \in [Fd -> FdEnt] /\ opened' \in [Fd -> Paths \cup {NoPath}]
    BY <2>1, <2>4 DEF StorageInv, TypeOK
  <2>6. \A g \in Fd : FdInBounds(fds'[g])
    <3>1. ASSUME NEW g \in Fd PROVE fds'[g] = IF g = f THEN FreeFd ELSE fds[g]
      BY <2>1 DEF StorageInv, TypeOK
    <3>. QED  BY <2>4, <3>1 DEF StorageInv, InBounds, FdInBounds
  <2>7. /\ heap' \in Seq(Seq(Byte)) /\ Len(heap') = Len(heap) /\ cwd' \in Dirs
        /\ \A b \in DOMAIN heap : Len(heap'[b]) = Len(heap[b])
    BY <2>1 DEF StorageInv, TypeOK
  <2>. QED  BY <2>3, <2>5, <2>6, <2>7, SameStorage
<1>. QED  BY <1>1, <1>2

LEMMA MkdirStep ==
  ASSUME StorageInv, NEW n \in Names, Mkdir(n)
  PROVE  StorageInv'
<1>1. CASE \E err \in {EEXIST, 0, ENOMEM} : Fail("mkdir", 0, err)
  BY <1>1, NothingMoves DEF Fail, StorageInv, TypeOK
<1>2. CASE ~ \E err \in {EEXIST, 0, ENOMEM} : Fail("mkdir", 0, err)
  <2>. DEFINE p == NormPath(n)
              e == [path |-> p, isdir |-> TRUE, buf |-> 0, size |-> 0, cap |-> 0]
  <2>1. p \in Paths
    BY NormPathType DEF StorageInv
  <2>2. e \in Extra /\ e.path = p /\ e.isdir /\ e.buf = 0
    BY <2>1 DEF Extra
  <2>3. ~HasExtra(p) /\ extras' = Append(extras, e) /\ UNCHANGED <<heap, fds, cwd, opened>>
    BY <1>2 DEF Mkdir
  <2>. HIDE DEF p, e
  <2>4. /\ extras' \in Seq(Extra) /\ Len(extras) \in Nat
        /\ DOMAIN extras = 1..Len(extras)
        /\ DOMAIN extras' = 1..(Len(extras) + 1)
        /\ extras'[Len(extras) + 1] = e
        /\ \A i \in DOMAIN extras : extras'[i] = extras[i]
    BY <2>2, <2>3 DEF StorageInv, TypeOK
  <2>5. \A i \in DOMAIN extras : extras[i].path # p
    BY <2>3 DEF HasExtra, EntriesAt
  <2>6. TypeOK'
    BY <2>3, <2>4 DEF StorageInv, TypeOK
  <2>7. InBounds'
    BY <2>2, <2>3, <2>4 DEF StorageInv, InBounds, FdInBounds, EntryInBounds
  <2>8. OwnStorage'
    <3>1. ASSUME NEW i \in DOMAIN extras', NEW j \in DOMAIN extras'
          PROVE  /\ ~extras'[i].isdir /\ ~extras'[j].isdir
                      /\ extras'[i].buf = extras'[j].buf => i = j
                 /\ extras'[i].path = extras'[j].path => i = j
                 /\ ~extras'[i].isdir => extras'[i].buf > NBlob
      BY <2>2, <2>4, <2>5 DEF StorageInv, OwnStorage
    <3>. QED  BY <3>1 DEF OwnStorage
  <2>9. DirectoriesBare' /\ BlobInPlace'
    BY <2>2, <2>3, <2>4 DEF StorageInv, DirectoriesBare, BlobInPlace
  <2>. QED  BY <2>6, <2>7, <2>8, <2>9 DEF StorageInv
<1>. QED  BY <1>1, <1>2

LEMMA InitStorage == Init => StorageInv
<1>. SUFFICES ASSUME Init PROVE StorageInv
  OBVIOUS
<1>1. NBlob \in Nat /\ NBlob = Len(BlobData)
  BY RamfsAssumption DEF NBlob
<1>2. FreeFd \in FdEnt /\ ~FreeFd.used
  BY DEF FreeFd, FdEnt
<1>3. extras \in Seq(Extra) /\ DOMAIN extras = {}
  BY DEF Init
<1>4. TypeOK
  BY <1>2, <1>3, RamfsAssumption DEF Init, TypeOK
<1>5. InBounds
  BY <1>2, <1>3 DEF Init, InBounds, FdInBounds
<1>6. OwnStorage /\ DirectoriesBare
  BY <1>3 DEF OwnStorage, DirectoriesBare
<1>7. BlobInPlace
  BY <1>1 DEF Init, BlobInPlace
<1>. QED  BY <1>4, <1>5, <1>6, <1>7 DEF StorageInv

LEMMA StepStorage == StorageInv /\ [Next]_vars => StorageInv'
<1>. SUFFICES ASSUME StorageInv, [Next]_vars PROVE StorageInv'
  OBVIOUS
<1>1. ASSUME NEW n \in Names, NEW fl \in Modes, Open(n, fl) PROVE StorageInv'
  BY <1>1, OpenStep
<1>2. ASSUME NEW f \in Fd, NEW n \in Counts, Read(f, n) PROVE StorageInv'
  BY <1>2, ReadStep
<1>3. ASSUME NEW f \in Fd, NEW n \in Counts, NEW v \in Tags, Write(f, n, v)
      PROVE  StorageInv'
  BY <1>3, WriteStep
<1>4. ASSUME NEW f \in Fd, NEW off \in Offsets, NEW w \in {"set", "cur", "end"},
             Seek(f, off, w)
      PROVE  StorageInv'
  BY <1>4, SeekStep
<1>5. ASSUME NEW f \in Fd, Close(f) PROVE StorageInv'
  BY <1>5, CloseStep
<1>6. ASSUME NEW n \in Names, Mkdir(n) PROVE StorageInv'
  BY <1>6, MkdirStep
<1>7. CASE (\E f \in Fd : FStat(f)) \/ (\E n \in Names : Stat(n)) \/ UNCHANGED vars
  BY <1>7, NothingMoves DEF FStat, Stat, vars, StorageInv, TypeOK
<1>8. ASSUME NEW d \in Dirs, NextProgram(d) PROVE StorageInv'
  BY <1>8, NothingMoves DEF NextProgram, StorageInv, TypeOK
<1>. QED  BY <1>1, <1>2, <1>3, <1>4, <1>5, <1>6, <1>7, <1>8 DEF Next

\* Every reachable state of ramfs.c's tables satisfies the inductive invariant.
THEOREM StorageAlways == Spec => []StorageInv
BY InitStorage, StepStorage, PTL DEF Spec

\* Type correctness, for every table size, blob and set of programs.
THEOREM TypesAlways == Spec => []TypeOK
BY StorageAlways, PTL DEF StorageInv

\* Every copy ramfs.c makes stays inside its buffer: however descriptors and
\* entries came to share storage, each one's size and capacity are within it.
THEOREM BoundsAlways == Spec => []InBounds
BY StorageAlways, PTL DEF StorageInv

\* The search by storage pointer in ramfs_write and ramfs_close never finds
\* another file, and no created file aliases the packed image.
THEOREM StorageNeverShared == Spec => []OwnStorage
BY StorageAlways, PTL DEF StorageInv
=============================================================================
