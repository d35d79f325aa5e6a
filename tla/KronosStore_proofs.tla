------------------------- MODULE KronosStore_proofs -------------------------
(***************************************************************************)
(* Theorems about what programs see through ramfs.c: no call changes two   *)
(* files; and for programs that are alone on the files they write, the     *)
(* copies in descriptors agree with the files, so that names and           *)
(* descriptors are those of FileStore.                                     *)
(***************************************************************************)
EXTENDS KronosRamfs_proofs

\* An entry is the only one of its path, so extra_find returns it.
LEMMA ExtraUnique ==
  ASSUME StorageInv, NEW i \in DOMAIN extras, NEW p, extras[i].path = p
  PROVE  HasExtra(p) /\ FirstOf(EntriesAt(p)) = i /\ ExtraAt(p) = extras[i]
<1>1. i \in EntriesAt(p) /\ EntriesAt(p) \in SUBSET Nat
  BY DEF EntriesAt, StorageInv, TypeOK
<1>2. FirstOf(EntriesAt(p)) \in EntriesAt(p)
  BY <1>1, FirstOfIn
<1>3. FirstOf(EntriesAt(p)) = i
  BY <1>2 DEF EntriesAt, StorageInv, OwnStorage
<1>. QED  BY <1>1, <1>3 DEF HasExtra, ExtraAt

\* extra_find returns an entry of the path it looks for.
LEMMA ExtraIndex ==
  ASSUME StorageInv, NEW p, HasExtra(p)
  PROVE  /\ FirstOf(EntriesAt(p)) \in DOMAIN extras
         /\ extras[FirstOf(EntriesAt(p))].path = p
<1>1. EntriesAt(p) \in SUBSET Nat
  BY DEF EntriesAt, StorageInv, TypeOK
<1>. QED  BY <1>1, FirstOfIn DEF HasExtra, EntriesAt

LEMMA BlobFound ==
  ASSUME StorageInv, NEW p, BlobAt(p) # {}
  PROVE  /\ FirstOf(BlobAt(p)) \in 1..NBlob
         /\ BlobPath[FirstOf(BlobAt(p))] = p
         /\ FirstOf(BlobAt(p)) \in DOMAIN heap
         /\ Len(heap[FirstOf(BlobAt(p))]) = Len(BlobData[FirstOf(BlobAt(p))])
         /\ FirstOf(BlobAt(p)) \in DOMAIN BlobData
<1>1. BlobAt(p) \in SUBSET Nat
  BY DEF BlobAt
<1>2. FirstOf(BlobAt(p)) \in 1..NBlob /\ BlobPath[FirstOf(BlobAt(p))] = p
  BY <1>1, FirstOfIn DEF BlobAt
<1>3. NBlob \in Nat /\ DOMAIN BlobData = 1..NBlob
  BY RamfsAssumption DEF NBlob
<1>. QED  BY <1>2, <1>3 DEF StorageInv, BlobInPlace, TypeOK

\* A file's storage holds at least its bytes.
LEMMA FileStorage ==
  ASSUME StorageInv, NEW p \in Paths, IsFile(p)
  PROVE  /\ BufOf(p) \in DOMAIN heap /\ BufOf(p) \in Nat
         /\ SizeOf(p) \in Nat /\ SizeOf(p) <= Len(heap[BufOf(p)])
         /\ heap[BufOf(p)] \in Seq(Byte)
<1>1. CASE HasExtra(p)
  <2>1. ExtraAt(p) \in Extra /\ EntryInBounds(ExtraAt(p)) /\ ~ExtraAt(p).isdir
    BY <1>1, ExtraFound DEF IsFile
  <2>2. heap \in Seq(Seq(Byte))
    BY DEF StorageInv, TypeOK
  <2>. QED  BY <1>1, <2>1, <2>2 DEF Extra, EntryInBounds, BufOf, SizeOf
<1>2. CASE ~HasExtra(p)
  <2>1. BlobAt(p) # {}
    BY <1>2 DEF IsFile
  <2>2. heap \in Seq(Seq(Byte)) /\ BlobData \in Seq(Seq(Byte))
    BY RamfsAssumption DEF StorageInv, TypeOK
  <2>. QED  BY <1>2, <2>1, <2>2, BlobFound DEF BufOf, SizeOf
<1>. QED  BY <1>1, <1>2

\* The bytes of a file.
LEMMA FileContent ==
  ASSUME StorageInv, NEW p \in Paths, IsFile(p)
  PROVE  /\ Content(p) \in Seq(Byte) /\ Content(p) # NoFile
         /\ Len(Content(p)) = SizeOf(p)
         /\ Content(p) = [i \in 1..SizeOf(p) |-> heap[BufOf(p)][i]]
<1>1. /\ SizeOf(p) \in Nat /\ SizeOf(p) <= Len(heap[BufOf(p)])
      /\ heap[BufOf(p)] \in Seq(Byte)
  BY FileStorage
<1>2. Content(p) = SubSeq(heap[BufOf(p)], 1, SizeOf(p))
  BY DEF Content
<1>. DEFINE s == heap[BufOf(p)]
            n == SizeOf(p)
<1>. HIDE DEF s, n
<1>3. SubSeq(s, 1, n) \in Seq(Byte) /\ Len(SubSeq(s, 1, n)) = n
      /\ SubSeq(s, 1, n) = [i \in 1..n |-> s[i]]
  BY <1>1 DEF s, n
<1>. QED  BY <1>2, <1>3, StoreAssumption DEF s, n

\* ... and after a step.
LEMMA FileContentPrimed ==
  ASSUME NEW p \in Paths
  PROVE  (StorageInv /\ IsFile(p) =>
           /\ SizeOf(p) \in Nat /\ Len(Content(p)) = SizeOf(p)
           /\ Content(p) # NoFile
           /\ Content(p) = [i \in 1..SizeOf(p) |-> heap[BufOf(p)][i]])'
<1>1. StorageInv /\ IsFile(p) =>
        /\ SizeOf(p) \in Nat /\ Len(Content(p)) = SizeOf(p)
        /\ Content(p) # NoFile
        /\ Content(p) = [i \in 1..SizeOf(p) |-> heap[BufOf(p)][i]]
  BY FileContent, FileStorage
<1>. QED  BY <1>1, PTL

LEMMA FileContentNext ==
  ASSUME NEW p \in Paths, StorageInv', IsFile(p)'
  PROVE  /\ SizeOf(p)' \in Nat /\ Len(Content(p)') = SizeOf(p)'
         /\ Content(p)' # NoFile
         /\ Content(p)' = [i \in 1..SizeOf(p)' |-> heap'[BufOf(p)'][i]]
BY FileContentPrimed

LEMMA NoContent ==
  ASSUME NEW p, ~IsFile(p)
  PROVE  Content(p) = NoFile
BY DEF Content

\* Two paths never lead to the same storage.
LEMMA StorageApart ==
  ASSUME StorageInv, NEW p \in Paths, NEW q \in Paths,
         IsFile(p), IsFile(q), BufOf(p) = BufOf(q)
  PROVE  p = q
<1>1. ASSUME NEW r \in Paths, IsFile(r), HasExtra(r)
      PROVE  /\ FirstOf(EntriesAt(r)) \in DOMAIN extras
             /\ extras[FirstOf(EntriesAt(r))].path = r
             /\ ~extras[FirstOf(EntriesAt(r))].isdir
             /\ BufOf(r) = extras[FirstOf(EntriesAt(r))].buf
             /\ BufOf(r) > NBlob
  BY <1>1, ExtraIndex DEF IsFile, BufOf, ExtraAt, StorageInv, OwnStorage
<1>2. ASSUME NEW r \in Paths, IsFile(r), ~HasExtra(r)
      PROVE  BufOf(r) \in 1..NBlob /\ BlobPath[BufOf(r)] = r
  BY <1>2, BlobFound DEF IsFile, BufOf
<1>3. NBlob \in Nat
  BY RamfsAssumption DEF NBlob
<1>4. CASE HasExtra(p) /\ HasExtra(q)
  BY <1>4, <1>1 DEF StorageInv, OwnStorage
<1>5. CASE ~HasExtra(p) /\ ~HasExtra(q)
  BY <1>5, <1>2
<1>6. CASE HasExtra(p) /\ ~HasExtra(q)
  <2>1. BufOf(p) > NBlob /\ BufOf(q) \in 1..NBlob
    BY <1>6, <1>1, <1>2
  <2>. QED  BY <2>1, <1>3
<1>7. CASE ~HasExtra(p) /\ HasExtra(q)
  <2>1. BufOf(q) > NBlob /\ BufOf(p) \in 1..NBlob
    BY <1>7, <1>1, <1>2
  <2>. QED  BY <2>1, <1>3
<1>. QED  BY <1>4, <1>5, <1>6, <1>7

\* The entry, if any, that has the storage of a file is the file's.
LEMMA EntryOfStorage ==
  ASSUME StorageInv, NEW p \in Paths, IsFile(p),
         NEW i \in DOMAIN extras, extras[i].buf = BufOf(p)
  PROVE  HasExtra(p) /\ i = FirstOf(EntriesAt(p))
<1>1. NBlob \in Nat /\ BufOf(p) \in DOMAIN heap /\ 0 \notin DOMAIN heap
  BY FileStorage, RamfsAssumption DEF NBlob, StorageInv, TypeOK
<1>2. ~extras[i].isdir
  BY <1>1 DEF StorageInv, DirectoriesBare
<1>3. extras[i].buf > NBlob
  BY <1>2 DEF StorageInv, OwnStorage
<1>4. HasExtra(p)
  <2>1. SUFFICES ASSUME ~HasExtra(p) PROVE FALSE
    OBVIOUS
  <2>2. BufOf(p) \in 1..NBlob
    BY <2>1, BlobFound DEF IsFile, BufOf
  <2>. QED  BY <1>1, <1>3, <2>2
<1>5. /\ FirstOf(EntriesAt(p)) \in DOMAIN extras
      /\ extras[FirstOf(EntriesAt(p))].buf = BufOf(p)
      /\ ~extras[FirstOf(EntriesAt(p))].isdir
  BY <1>4, ExtraIndex DEF BufOf, IsFile, ExtraAt
<1>. QED  BY <1>2, <1>4, <1>5 DEF StorageInv, OwnStorage

-----------------------------------------------------------------------------
\* The entries keep their places, paths and kinds.
SameEntries ==
  /\ DOMAIN extras' = DOMAIN extras
  /\ \A i \in DOMAIN extras : /\ extras'[i].path = extras[i].path
                              /\ extras'[i].isdir = extras[i].isdir

LEMMA EntriesKept ==
  ASSUME StorageInv, SameEntries, NEW p
  PROVE  /\ EntriesAt(p)' = EntriesAt(p)
         /\ HasExtra(p)' = HasExtra(p)
         /\ IsFile(p)' = IsFile(p) /\ IsDirExtra(p)' = IsDirExtra(p)
<1>1. EntriesAt(p)' = EntriesAt(p)
  BY DEF SameEntries, EntriesAt
<1>2. HasExtra(p)' = HasExtra(p)
  BY <1>1 DEF HasExtra
<1>3. HasExtra(p) => ExtraAt(p)'.isdir = ExtraAt(p).isdir
  BY <1>1, ExtraIndex DEF SameEntries, ExtraAt
<1>4. BlobAt(p)' = BlobAt(p)
  BY DEF BlobAt, NBlob
<1>. QED  BY <1>1, <1>2, <1>3, <1>4 DEF IsFile, IsDirExtra

\* A file whose entry and whose bytes stay has the contents it had.
LEMMA ContentKept ==
  ASSUME StorageInv, StorageInv', NEW p \in Paths, IsFile(p)' = IsFile(p),
         IsFile(p) => /\ BufOf(p)' = BufOf(p) /\ SizeOf(p)' = SizeOf(p)
                      /\ \A i \in 1..SizeOf(p) : heap'[BufOf(p)][i] = heap[BufOf(p)][i]
  PROVE  Content(p)' = Content(p)
<1>1. CASE IsFile(p)
  <2>1. Content(p) = [i \in 1..SizeOf(p) |-> heap[BufOf(p)][i]]
    BY <1>1, FileContent
  <2>2. Content(p)' = [i \in 1..SizeOf(p)' |-> heap'[BufOf(p)'][i]]
    BY <1>1, FileContentNext
  <2>. QED  BY <1>1, <2>1, <2>2
<1>2. CASE ~IsFile(p)
  BY <1>2 DEF Content
<1>. QED  BY <1>1, <1>2

\* What a path shows when the entries keep their places.
LEMMA ExtraKept ==
  ASSUME StorageInv, SameEntries, NEW p, HasExtra(p)
  PROVE  /\ ExtraAt(p)' = extras'[FirstOf(EntriesAt(p))]
         /\ FirstOf(EntriesAt(p)) \in DOMAIN extras
         /\ BufOf(p) = extras[FirstOf(EntriesAt(p))].buf
         /\ SizeOf(p) = extras[FirstOf(EntriesAt(p))].size
         /\ BufOf(p)' = extras'[FirstOf(EntriesAt(p))].buf
         /\ SizeOf(p)' = extras'[FirstOf(EntriesAt(p))].size
<1>1. EntriesAt(p)' = EntriesAt(p) /\ HasExtra(p)'
  BY EntriesKept
<1>. QED  BY <1>1, ExtraIndex DEF ExtraAt, BufOf, SizeOf

LEMMA BlobKept ==
  ASSUME NEW p, ~HasExtra(p), ~HasExtra(p)'
  PROVE  BufOf(p)' = BufOf(p) /\ SizeOf(p)' = SizeOf(p)
BY DEF BufOf, SizeOf, BlobAt, NBlob

LEMMA SyncSizeFields ==
  ASSUME StorageInv, NEW b \in Nat, NEW sz \in Nat, extras' = SyncSize(extras, b, sz)
  PROVE  /\ extras \in Seq(Extra) /\ DOMAIN extras' = DOMAIN extras
         /\ \A i \in DOMAIN extras :
              /\ extras'[i].path = extras[i].path /\ extras'[i].isdir = extras[i].isdir
              /\ extras'[i].buf = extras[i].buf
              /\ extras'[i].size = IF extras[i].buf = b THEN sz ELSE extras[i].size
<1>1. extras \in Seq(Extra)
  BY DEF StorageInv, TypeOK
<1>2. DOMAIN extras' = DOMAIN extras
  BY <1>1, SyncSizeSeq
<1>3. ASSUME NEW i \in DOMAIN extras
      PROVE  /\ extras'[i].path = extras[i].path /\ extras'[i].isdir = extras[i].isdir
             /\ extras'[i].buf = extras[i].buf
             /\ extras'[i].size = IF extras[i].buf = b THEN sz ELSE extras[i].size
  <2>1. extras[i] \in Extra
    BY <1>1
  <2>2. extras'[i] =
          IF extras[i].buf = b THEN [extras[i] EXCEPT !.size = sz] ELSE extras[i]
    BY DEF SyncSize
  <2>. QED  BY <2>1, <2>2 DEF Extra
<1>. QED  BY <1>1, <1>2, <1>3

\* The tail of ramfs_write and ramfs_close changes the size of the file that
\* has the storage, and of no other.
LEMMA SyncStorage ==
  ASSUME StorageInv, NEW b \in DOMAIN heap, NEW sz \in Nat,
         extras' = SyncSize(extras, b, sz), NEW p \in Paths
  PROVE  /\ SameEntries /\ IsFile(p)' = IsFile(p) /\ IsDirExtra(p)' = IsDirExtra(p)
         /\ HasExtra(p)' = HasExtra(p)
         /\ IsFile(p) =>
              /\ BufOf(p)' = BufOf(p)
              /\ SizeOf(p)' = IF HasExtra(p) /\ BufOf(p) = b THEN sz ELSE SizeOf(p)
<1>1. b \in Nat
  BY DEF StorageInv, TypeOK
<1>2. /\ DOMAIN extras' = DOMAIN extras
      /\ \A i \in DOMAIN extras :
           /\ extras'[i].path = extras[i].path /\ extras'[i].isdir = extras[i].isdir
           /\ extras'[i].buf = extras[i].buf
           /\ extras'[i].size = IF extras[i].buf = b THEN sz ELSE extras[i].size
  BY <1>1, SyncSizeFields
<1>3. SameEntries
  BY <1>2 DEF SameEntries
<1>4. HasExtra(p) => BufOf(p)' = BufOf(p)
                     /\ SizeOf(p)' = IF BufOf(p) = b THEN sz ELSE SizeOf(p)
  BY <1>2, <1>3, ExtraKept
<1>5. ~HasExtra(p) => BufOf(p)' = BufOf(p) /\ SizeOf(p)' = SizeOf(p)
  BY <1>3, EntriesKept, BlobKept
<1>. QED  BY <1>3, <1>4, <1>5, EntriesKept

\* One entry is changed: every other path shows what it showed.
LEMMA EntryChanged ==
  ASSUME StorageInv, NEW k \in DOMAIN extras, NEW e \in Extra,
         e.path = extras[k].path, e.isdir = extras[k].isdir,
         extras' = [extras EXCEPT ![k] = e], NEW p \in Paths
  PROVE  /\ SameEntries /\ IsFile(p)' = IsFile(p) /\ IsDirExtra(p)' = IsDirExtra(p)
         /\ HasExtra(p)' = HasExtra(p)
         /\ p # e.path => BufOf(p)' = BufOf(p) /\ SizeOf(p)' = SizeOf(p)
         /\ p = e.path => BufOf(p)' = e.buf /\ SizeOf(p)' = e.size
<1>1. /\ extras \in Seq(Extra) /\ DOMAIN extras' = DOMAIN extras
      /\ \A i \in DOMAIN extras : extras'[i] = IF i = k THEN e ELSE extras[i]
  BY ReplacedEntry DEF StorageInv, TypeOK
<1>2. SameEntries
  BY <1>1 DEF SameEntries
<1>3. HasExtra(p) /\ p # e.path => BufOf(p)' = BufOf(p) /\ SizeOf(p)' = SizeOf(p)
  BY <1>1, <1>2, ExtraKept, ExtraIndex
<1>4. ~HasExtra(p) => BufOf(p)' = BufOf(p) /\ SizeOf(p)' = SizeOf(p)
  BY <1>2, EntriesKept, BlobKept
<1>5. p = e.path => HasExtra(p) /\ FirstOf(EntriesAt(p)) = k
  BY ExtraUnique
<1>6. p = e.path => BufOf(p)' = e.buf /\ SizeOf(p)' = e.size
  BY <1>1, <1>2, <1>5, ExtraKept
<1>. QED  BY <1>2, <1>3, <1>4, <1>6, EntriesKept

\* An entry of a new path is added: every other path shows what it showed.
LEMMA EntryAdded ==
  ASSUME StorageInv, StorageInv', NEW e, ~HasExtra(e.path),
         extras' = Append(extras, e), NEW p \in Paths
  PROVE  /\ p # e.path =>
              /\ HasExtra(p)' = HasExtra(p) /\ IsFile(p)' = IsFile(p)
              /\ IsDirExtra(p)' = IsDirExtra(p)
              /\ BufOf(p)' = BufOf(p) /\ SizeOf(p)' = SizeOf(p)
         /\ p = e.path => HasExtra(p)' /\ ExtraAt(p)' = e
<1>1. /\ extras \in Seq(Extra) /\ Len(extras) \in Nat
      /\ DOMAIN extras = 1..Len(extras) /\ DOMAIN extras' = 1..(Len(extras) + 1)
      /\ extras'[Len(extras) + 1] = e
      /\ \A i \in DOMAIN extras : extras'[i] = extras[i]
  BY DEF StorageInv, TypeOK
<1>2. CASE p # e.path
  <2>1. EntriesAt(p)' = EntriesAt(p)
    BY <1>1, <1>2 DEF EntriesAt
  <2>2. HasExtra(p)' = HasExtra(p)
    BY <2>1 DEF HasExtra
  <2>3. HasExtra(p) => ExtraAt(p)' = ExtraAt(p)
    BY <1>1, <2>1, ExtraIndex DEF ExtraAt
  <2>4. BlobAt(p)' = BlobAt(p)
    BY DEF BlobAt, NBlob
  <2>5. IsFile(p)' = IsFile(p) /\ IsDirExtra(p)' = IsDirExtra(p)
    BY <2>2, <2>3, <2>4 DEF IsFile, IsDirExtra
  <2>6. HasExtra(p) => BufOf(p)' = BufOf(p) /\ SizeOf(p)' = SizeOf(p)
    BY <2>2, <2>3 DEF BufOf, SizeOf
  <2>7. ~HasExtra(p) => BufOf(p)' = BufOf(p) /\ SizeOf(p)' = SizeOf(p)
    BY <2>2, BlobKept
  <2>. QED  BY <1>2, <2>2, <2>5, <2>6, <2>7
<1>3. CASE p = e.path
  <2>1. \A i \in DOMAIN extras : extras[i].path # p
    BY <1>3 DEF HasExtra, EntriesAt
  <2>2. EntriesAt(p)' = {Len(extras) + 1}
    BY <1>1, <1>3, <2>1 DEF EntriesAt
  <2>3. FirstOf({Len(extras) + 1}) = Len(extras) + 1
    BY <1>1 DEF FirstOf
  <2>. QED  BY <1>1, <1>3, <2>2, <2>3 DEF HasExtra, ExtraAt
<1>. QED  BY <1>2, <1>3

-----------------------------------------------------------------------------
Changed(p) == Content(p)' # Content(p)
OneChanges == \A p, q \in Paths : Changed(p) /\ Changed(q) => p = q

LEMMA NoneChanges == ASSUME UNCHANGED <<extras, heap>> PROVE OneChanges
<1>1. \A p : Content(p)' = Content(p)
  BY DEF Content, IsFile, HasExtra, EntriesAt, ExtraAt, BufOf, SizeOf, BlobAt, NBlob
<1>. QED  BY <1>1 DEF OneChanges, Changed

\* Storage of its own: the files that were there keep theirs.
LEMMA CreateKeeps ==
  ASSUME StorageInv, StorageInv', NEW p \in Paths, ~HasExtra(p), CreateFile(p)
  PROVE  \A q \in Paths : q # p => Content(q)' = Content(q)
<1>. DEFINE e == [path |-> p, isdir |-> FALSE, buf |-> Len(heap) + 1, size |-> 0, cap |-> ICap]
<1>1. extras' = Append(extras, e) /\ e.path = p /\ heap' = Append(heap, NewBytes(ICap))
  BY DEF CreateFile
<1>2. \A b \in DOMAIN heap : heap'[b] = heap[b]
  BY <1>1, FreshStorage, NewBytesSeq
<1>. HIDE DEF e
<1>3. ASSUME NEW q \in Paths, q # p PROVE Content(q)' = Content(q)
  <2>1. IsFile(q)' = IsFile(q) /\ BufOf(q)' = BufOf(q) /\ SizeOf(q)' = SizeOf(q)
    BY <1>1, <1>3, EntryAdded
  <2>. QED  BY <1>2, <2>1, FileStorage, ContentKept
<1>. QED  BY <1>3

LEMMA MkdirKeeps ==
  ASSUME StorageInv, StorageInv', NEW p \in Paths, ~HasExtra(p), ~IsFile(p),
         UNCHANGED heap, NEW e, e.path = p, e.isdir, extras' = Append(extras, e)
  PROVE  \A q \in Paths : Content(q)' = Content(q)
<1>1. ASSUME NEW q \in Paths PROVE Content(q)' = Content(q)
  <2>1. CASE q # p
    BY <2>1, EntryAdded, ContentKept
  <2>2. CASE q = p
    <3>1. HasExtra(q)' /\ ExtraAt(q)' = e
      BY <2>2, EntryAdded
    <3>2. ~IsFile(q)'
      BY <3>1 DEF IsFile
    <3>. QED  BY <2>2, <3>2 DEF Content
  <2>. QED  BY <2>1, <2>2
<1>. QED  BY <1>1

\* Truncation empties the file whose entry it changes.
Emptied(p) == extras' = [extras EXCEPT ![FirstOf(EntriesAt(p))].size = 0]

LEMMA TruncKeeps ==
  ASSUME StorageInv, StorageInv', NEW p \in Paths, HasExtra(p), ~IsDirExtra(p),
         Emptied(p), UNCHANGED heap
  PROVE  /\ SameEntries /\ IsFile(p) /\ IsFile(p)'
         /\ BufOf(p)' = BufOf(p) /\ SizeOf(p)' = 0
         /\ \A q \in Paths : q # p =>
              /\ BufOf(q)' = BufOf(q) /\ SizeOf(q)' = SizeOf(q)
              /\ Content(q)' = Content(q)
<1>. DEFINE k == FirstOf(EntriesAt(p))
            e == [extras[k] EXCEPT !.size = 0]
<1>1. k \in DOMAIN extras /\ extras[k].path = p /\ extras[k] \in Extra /\ ~extras[k].isdir
  BY ExtraIndex DEF IsDirExtra, ExtraAt, StorageInv, TypeOK
<1>2. /\ e \in Extra /\ e.path = p /\ e.isdir = extras[k].isdir
      /\ e.buf = extras[k].buf /\ e.size = 0
  BY <1>1 DEF Extra
<1>3. extras' = [extras EXCEPT ![k] = e]
  BY DEF Emptied
<1>4. BufOf(p) = extras[k].buf
  BY DEF BufOf, ExtraAt
<1>. HIDE DEF k, e
<1>5. SameEntries /\ IsFile(p)' = IsFile(p) /\ BufOf(p)' = e.buf /\ SizeOf(p)' = e.size
  BY <1>1, <1>2, <1>3, EntryChanged
<1>6. ASSUME NEW q \in Paths, q # p
      PROVE  IsFile(q)' = IsFile(q) /\ BufOf(q)' = BufOf(q) /\ SizeOf(q)' = SizeOf(q)
  BY <1>1, <1>2, <1>3, <1>6, EntryChanged
<1>7. ASSUME NEW q \in Paths, q # p PROVE Content(q)' = Content(q)
  BY <1>6, <1>7, ContentKept
<1>8. IsFile(p)
  BY DEF IsFile, IsDirExtra
<1>. QED  BY <1>2, <1>4, <1>5, <1>6, <1>7, <1>8

\* A descriptor's storage and size are those of a buffer.
LEMMA DescStorage ==
  ASSUME StorageInv, NEW f \in Fd, Valid(f)
  PROVE  /\ fds[f].buf \in DOMAIN heap /\ fds[f].buf \in Nat /\ fds[f].size \in Nat
         /\ fds[f].pos \in Nat /\ fds[f].cap \in Nat
         /\ fds[f].cap = Len(heap[fds[f].buf]) /\ fds[f].size <= fds[f].cap
         /\ heap[fds[f].buf] \in Seq(Byte)
<1>1. FdInBounds(fds[f]) /\ heap \in Seq(Seq(Byte))
  BY FdEntType DEF StorageInv, TypeOK
<1>2. heap[fds[f].buf] \in Seq(Byte)
  BY <1>1 DEF FdInBounds, Valid
<1>. QED  BY <1>1, <1>2, FdEntType DEF FdInBounds, Valid

\* A write in place reaches the file that has the descriptor's storage.
LEMMA InPlaceKeeps ==
  ASSUME StorageInv, StorageInv', NEW f \in Fd, Valid(f),
         NEW n \in Counts, NEW v \in Tags, WriteInPlace(f, n, v)
  PROVE  /\ SameEntries
         /\ \A p \in Paths : IsFile(p) =>
              /\ IsFile(p)' /\ BufOf(p)' = BufOf(p)
              /\ BufOf(p) # fds[f].buf => SizeOf(p)' = SizeOf(p)
              /\ HasExtra(p) /\ BufOf(p) = fds[f].buf =>
                   SizeOf(p)' = Larger(fds[f].size, fds[f].pos + n)
         /\ \A p \in Paths :
              (IsFile(p) => BufOf(p) # fds[f].buf) => Content(p)' = Content(p)
<1>. DEFINE b  == fds[f].buf
            sz == Larger(fds[f].size, fds[f].pos + n)
<1>1. n \in Nat /\ b \in DOMAIN heap /\ sz \in Nat
  BY DescStorage, RamfsAssumption DEF Larger
<1>2. extras' = SyncSize(extras, b, sz) /\ \A c \in DOMAIN heap : c # b => heap'[c] = heap[c]
  BY DEF WriteInPlace
<1>. HIDE DEF b, sz
<1>3. ASSUME NEW p \in Paths
      PROVE  /\ SameEntries /\ IsFile(p)' = IsFile(p)
             /\ IsFile(p) =>
                  /\ BufOf(p)' = BufOf(p)
                  /\ SizeOf(p)' = IF HasExtra(p) /\ BufOf(p) = b THEN sz ELSE SizeOf(p)
  BY <1>1, <1>2, SyncStorage
<1>4. ASSUME NEW p \in Paths, IsFile(p) => BufOf(p) # b
      PROVE  Content(p)' = Content(p)
  BY <1>2, <1>3, <1>4, FileStorage, ContentKept
<1>5. SameEntries
  <2>1. b \in Nat
    BY <1>1 DEF StorageInv, TypeOK
  <2>. QED  BY <1>1, <1>2, <2>1, SyncSizeFields DEF SameEntries
<1>. QED  BY <1>3, <1>4, <1>5 DEF b, sz

\* What growing does: the one entry with the old storage gets the new, which
\* has its bytes and those written.
Grown(f, n, v, k, e, s) ==
  /\ k \in DOMAIN extras /\ extras[k].buf = fds[f].buf /\ ~extras[k].isdir
  /\ e \in Extra /\ e.path = extras[k].path /\ ~e.isdir
  /\ e.buf = Len(heap) + 1 /\ e.size = fds[f].pos + n
  /\ extras' = [extras EXCEPT ![k] = e]
  /\ s \in Seq(Byte) /\ heap' = Append(heap, s)
  /\ fds[f].pos + n \in Nat /\ fds[f].pos + n <= Len(s)
  /\ fds[f].pos + n > fds[f].size
  /\ \A i \in 1..Len(s) : s[i] =
       IF fds[f].pos < i /\ i <= fds[f].pos + n THEN v
       ELSE IF i <= extras[k].size THEN heap[fds[f].buf][i] ELSE Junk
  /\ fds' = [fds EXCEPT ![f] = [fds[f] EXCEPT !.buf = Len(heap) + 1, !.cap = Len(s),
                                  !.pos = fds[f].pos + n, !.size = fds[f].pos + n]]

LEMMA GrowingGrows ==
  ASSUME StorageInv, NEW f \in Fd, NEW n \in Counts, NEW v \in Tags,
         Valid(f), WriteGrowing(f, n, v)
  PROVE  \E k, e, s : Grown(f, n, v, k, e, s)
<1>. DEFINE old == fds[f].buf
            end == fds[f].pos + n
            sz == Larger(fds[f].size, end)
            k == FirstOf(EntriesFor(old))
            b == Len(heap) + 1
<1>1. n \in Nat /\ v \in Byte /\ Junk \in Byte
  BY RamfsAssumption
<1>2. /\ old \in DOMAIN heap /\ old \in Nat /\ fds[f].size \in Nat /\ fds[f].pos \in Nat
      /\ fds[f].cap = Len(heap[old]) /\ fds[f].size <= fds[f].cap
      /\ heap[old] \in Seq(Byte) /\ fds[f].cap \in Nat
  BY DescStorage
<1>3. end > fds[f].cap /\ EntriesFor(old) # {}
  BY Zenon DEF WriteGrowing
<1>14. end \in Nat /\ sz = end /\ end > fds[f].size
  BY <1>1, <1>2, <1>3 DEF Larger
<1>4. heap \in Seq(Seq(Byte)) /\ extras \in Seq(Extra) /\ b \in Nat /\ 0 \notin DOMAIN heap
  BY DEF StorageInv, TypeOK
<1>5. k \in DOMAIN extras /\ extras[k].buf = old
  <2>1. EntriesFor(old) \in SUBSET Nat /\ EntriesFor(old) # {}
    BY <1>3, <1>4 DEF EntriesFor
  <2>2. k \in EntriesFor(old)
    BY <2>1, FirstOfIn
  <2>. QED  BY <2>2 DEF EntriesFor
<1>6. /\ extras[k] \in Extra /\ ~extras[k].isdir
      /\ extras[k].size \in Nat /\ extras[k].size <= Len(heap[old])
  <2>1. extras[k] \in Extra /\ EntryInBounds(extras[k])
    BY <1>4, <1>5 DEF StorageInv, InBounds
  <2>2. ~extras[k].isdir
    BY <1>2, <1>4, <1>5 DEF StorageInv, DirectoriesBare
  <2>. QED  BY <1>5, <2>1, <2>2 DEF Extra, EntryInBounds
<1>7. PICK c \in Doubled(extras[k].cap, end) :
      /\ heap' = Append(heap, Overlay(
           [i \in 1..c |-> IF i <= extras[k].size THEN heap[old][i] ELSE Junk],
           fds[f].pos, n, v))
      /\ fds' = [fds EXCEPT ![f].buf = b, ![f].cap = c, ![f].pos = end, ![f].size = sz]
      /\ extras' = [extras EXCEPT ![k].buf = b, ![k].cap = c, ![k].size = sz]
  BY DEF WriteGrowing
<1>8. c \in Nat /\ c >= end
  BY RamfsAssumption DEF Doubled
<1>. DEFINE t == [i \in 1..c |-> IF i <= extras[k].size THEN heap[old][i] ELSE Junk]
            s == Overlay(t, fds[f].pos, n, v)
            e == [extras[k] EXCEPT !.buf = b, !.cap = c, !.size = sz]
<1>9. t \in Seq(Byte) /\ Len(t) = c /\ \A i \in 1..c : t[i] =
        IF i <= extras[k].size THEN heap[old][i] ELSE Junk
  <2>1. t \in [1..c -> Byte]
    BY <1>1, <1>2, <1>6, <1>8
  <2>. QED  BY <1>8, <2>1
<1>. HIDE DEF t, k, sz, end, b
<1>10. /\ s \in Seq(Byte) /\ Len(s) = c
       /\ \A i \in 1..c : s[i] = IF fds[f].pos < i /\ i <= fds[f].pos + n THEN v ELSE t[i]
  <2>1. s \in Seq(Byte) /\ Len(s) = c
    <3>1. t \in Seq(Byte) /\ Len(t) = c /\ fds[f].pos \in Nat
      BY <1>2, <1>9
    <3>2. Overlay(t, fds[f].pos, n, v) \in Seq(Byte)
          /\ Len(Overlay(t, fds[f].pos, n, v)) = Len(t)
      BY <1>1, <3>1, OverlaySeq
    <3>. QED  BY <3>1, <3>2
  <2>2. DOMAIN t = 1..c
    BY <1>8, <1>9
  <2>. QED  BY <2>1, <2>2 DEF Overlay
<1>11. /\ e \in Extra /\ e.path = extras[k].path /\ ~e.isdir
       /\ e.buf = b /\ e.size = sz
  BY <1>14, <1>4, <1>6, <1>8 DEF Extra
<1>12. /\ heap' = Append(heap, s) /\ extras' = [extras EXCEPT ![k] = e]
       /\ fds' = [fds EXCEPT ![f] = [fds[f] EXCEPT !.buf = b, !.cap = c,
                                       !.pos = end, !.size = end]]
  BY <1>14, <1>7 DEF t
<1>. HIDE DEF s, e
<1>13. Grown(f, n, v, k, e, s)
  BY <1>14, <1>5, <1>6, <1>8, <1>9, <1>10, <1>11, <1>12 DEF Grown, end, b
<1>. QED  BY <1>13

LEMMA GrowingKeeps ==
  ASSUME StorageInv, StorageInv', NEW f \in Fd, NEW n, NEW v,
         NEW k, NEW e, NEW s, Grown(f, n, v, k, e, s)
  PROVE  /\ SameEntries
         /\ \A p \in Paths : p # e.path =>
              /\ BufOf(p)' = BufOf(p) /\ SizeOf(p)' = SizeOf(p)
              /\ Content(p)' = Content(p)
         /\ \A p \in Paths : p = e.path =>
              /\ HasExtra(p) /\ IsFile(p) /\ IsFile(p)'
              /\ BufOf(p) = fds[f].buf /\ SizeOf(p) = extras[k].size
              /\ BufOf(p)' = Len(heap) + 1 /\ SizeOf(p)' = fds[f].pos + n
<1>1. /\ k \in DOMAIN extras /\ extras[k].buf = fds[f].buf /\ ~extras[k].isdir
      /\ e \in Extra /\ e.path = extras[k].path /\ e.isdir = extras[k].isdir
      /\ e.buf = Len(heap) + 1 /\ e.size = fds[f].pos + n
      /\ extras' = [extras EXCEPT ![k] = e]
      /\ s \in Seq(Byte) /\ heap' = Append(heap, s)
  <2>1. ~e.isdir /\ ~extras[k].isdir /\ e \in Extra /\ k \in DOMAIN extras
    BY DEF Grown
  <2>2. extras[k] \in Extra
    BY <2>1 DEF StorageInv, TypeOK
  <2>3. e.isdir = extras[k].isdir
    BY <2>1, <2>2 DEF Extra
  <2>. QED  BY <2>3 DEF Grown
<1>2. \A b \in DOMAIN heap : heap'[b] = heap[b]
  BY <1>1, FreshStorage
<1>3. SameEntries
  BY <1>1, ReplacedEntry DEF StorageInv, TypeOK, SameEntries
<1>4. ASSUME NEW p \in Paths, p # e.path
      PROVE  /\ IsFile(p)' = IsFile(p) /\ BufOf(p)' = BufOf(p) /\ SizeOf(p)' = SizeOf(p)
             /\ Content(p)' = Content(p)
  <2>1. IsFile(p)' = IsFile(p) /\ BufOf(p)' = BufOf(p) /\ SizeOf(p)' = SizeOf(p)
    BY <1>1, <1>4, EntryChanged
  <2>. QED  BY <1>2, <2>1, FileStorage, ContentKept
<1>5. ASSUME NEW p \in Paths, p = e.path
      PROVE  /\ HasExtra(p) /\ IsFile(p) /\ IsFile(p)'
             /\ BufOf(p) = fds[f].buf /\ SizeOf(p) = extras[k].size
             /\ BufOf(p)' = Len(heap) + 1 /\ SizeOf(p)' = fds[f].pos + n
  <2>1. HasExtra(p) /\ ExtraAt(p) = extras[k]
    BY <1>1, <1>5, ExtraUnique
  <2>2. IsFile(p) /\ BufOf(p) = fds[f].buf /\ SizeOf(p) = extras[k].size
    BY <1>1, <2>1 DEF IsFile, BufOf, SizeOf
  <2>3. IsFile(p)' = IsFile(p) /\ BufOf(p)' = e.buf /\ SizeOf(p)' = e.size
    BY <1>1, <1>5, EntryChanged
  <2>. QED  BY <1>1, <2>1, <2>2, <2>3
<1>. QED  BY <1>3, <1>4, <1>5

LEMMA OpenChanges ==
  ASSUME StorageInv, StorageInv', NEW n \in Names, NEW fl \in Modes, Open(n, fl)
  PROVE  OneChanges
<1>1. PICK p \in Paths : p = NormPath(n)
  BY NormPathType DEF StorageInv
<1>2. CASE UNCHANGED <<extras, heap>>
  BY <1>2, NoneChanges
<1>3. CASE ~HasExtra(p) /\ CreateFile(p)
  BY <1>3, CreateKeeps DEF OneChanges, Changed
<1>4. CASE OpenTrunc(p, fl)
  BY <1>4, TruncKeeps DEF OpenTrunc, Emptied, OneChanges, Changed
<1>5. \/ Fail("open", 0, EINVAL) \/ Fail("open", 0, ENOENT)
      \/ OpenNew(p, fl) \/ OpenTrunc(p, fl) \/ OpenExisting(p, fl)
  BY <1>1 DEF Open
<1>. QED  BY <1>2, <1>3, <1>4, <1>5 DEF Fail, OpenNew, OpenExisting

LEMMA WriteChanges ==
  ASSUME StorageInv, StorageInv', NEW f \in Fd, NEW n \in Counts, NEW v \in Tags,
         Write(f, n, v)
  PROVE  OneChanges
<1>1. CASE UNCHANGED <<extras, heap>>
  BY <1>1, NoneChanges
<1>2. CASE Valid(f) /\ WriteInPlace(f, n, v)
  <2>1. ASSUME NEW p \in Paths, Changed(p)
        PROVE  IsFile(p) /\ BufOf(p) = fds[f].buf
    BY <1>2, <2>1, InPlaceKeeps DEF Changed
  <2>. QED  BY <2>1, StorageApart DEF OneChanges
<1>3. CASE Valid(f) /\ WriteGrowing(f, n, v)
  <2>1. PICK k, e, s : Grown(f, n, v, k, e, s)
    BY <1>3, GrowingGrows
  <2>. QED  BY <2>1, GrowingKeeps DEF OneChanges, Changed
<1>. QED  BY <1>1, <1>2, <1>3 DEF Write, Fail

LEMMA CloseChanges ==
  ASSUME StorageInv, StorageInv', NEW f \in Fd, Close(f)
  PROVE  OneChanges
<1>1. CASE UNCHANGED <<extras, heap>>
  BY <1>1, NoneChanges
<1>2. CASE Valid(f) /\ extras' = SyncSize(extras, fds[f].buf, fds[f].size) /\ UNCHANGED heap
  <2>1. fds[f].buf \in DOMAIN heap /\ fds[f].size \in Nat
    BY <1>2, DescStorage
  <2>2. ASSUME NEW p \in Paths, Changed(p)
        PROVE  IsFile(p) /\ BufOf(p) = fds[f].buf
    BY <1>2, <2>1, <2>2, SyncStorage, ContentKept DEF Changed
  <2>. QED  BY <2>2, StorageApart DEF OneChanges
<1>. QED  BY <1>1, <1>2 DEF Close, Fail

LEMMA MkdirChanges ==
  ASSUME StorageInv, StorageInv', NEW n \in Names, Mkdir(n)
  PROVE  OneChanges
<1>1. PICK p \in Paths : p = NormPath(n)
  BY NormPathType DEF StorageInv
<1>. DEFINE e == [path |-> p, isdir |-> TRUE, buf |-> 0, size |-> 0, cap |-> 0]
<1>2. CASE UNCHANGED <<extras, heap>>
  BY <1>2, NoneChanges
<1>3. CASE ~IsFile(p) /\ ~HasExtra(p) /\ extras' = Append(extras, e) /\ UNCHANGED heap
  <2>1. e.path = p /\ e.isdir
    OBVIOUS
  <2>. HIDE DEF e
  <2>. QED  BY <1>3, <2>1, MkdirKeeps DEF OneChanges, Changed
<1>. QED  BY <1>1, <1>2, <1>3 DEF Mkdir, Fail

LEMMA StepChanges == ASSUME StorageInv, StorageInv', [Next]_vars PROVE OneChanges
<1>1. CASE UNCHANGED <<extras, heap>>
  BY <1>1, NoneChanges
<1>2. ASSUME NEW f \in Fd, NEW n \in Counts, Read(f, n)
      PROVE  UNCHANGED <<extras, heap>>
  BY <1>2 DEF Read, Fail
<1>3. ASSUME NEW f \in Fd, NEW off \in Offsets, NEW w \in {"set", "cur", "end"},
             Seek(f, off, w)
      PROVE  UNCHANGED <<extras, heap>>
  BY <1>3 DEF Seek, Fail
<1>. QED
  BY <1>1, <1>2, <1>3, OpenChanges, WriteChanges, CloseChanges, MkdirChanges
  DEF Next, vars, FStat, Stat, NextProgram

\* No call of any program changes what two names show: not a write through a
\* descriptor whose file has been truncated or has moved since, not a close
\* that hands an old size back.
THEOREM OneFileAlways == Spec => OneFileAtATime
<1>1. StorageInv /\ StorageInv' /\ [Next]_vars =>
        [\A p, q \in Paths : Content(p)' # Content(p) /\ Content(q)' # Content(q)
                               => p = q]_vars
  BY StepChanges DEF OneChanges, Changed
<1>. QED  BY <1>1, StorageAlways, PTL DEF Spec, OneFileAtATime

-----------------------------------------------------------------------------
\* The inductive invariant of polite programs.  A descriptor that is written
\* through is alone on its path; without that, a write or a truncation would
\* leave another descriptor's copies behind.
Agrees(f) == Mine(f) =>
  /\ fds[f].used /\ IsFile(opened[f])
  /\ fds[f].buf = BufOf(opened[f]) /\ fds[f].size = SizeOf(opened[f])
Alone ==
  \A f, g \in Fd : f # g /\ Mine(f) /\ opened[f] = opened[g] => ~fds[f].writable

\* Positions and sizes are words, which lseek's sum relies on.
Words ==
  /\ \A i \in DOMAIN extras : extras[i].size < WordSize
  /\ \A f \in Fd : fds[f].size < WordSize /\ fds[f].pos < WordSize

PoliteInv == StorageInv /\ (\A f \in Fd : Agrees(f)) /\ Alone /\ Words

LEMMA MinePath ==
  ASSUME StorageInv, NEW f \in Fd, Mine(f)
  PROVE  opened[f] \in Paths
BY DEF Mine, StorageInv, TypeOK

\* A path shows the same file, at the same place.
SameFile(q) ==
  IsFile(q) => IsFile(q)' /\ BufOf(q)' = BufOf(q) /\ SizeOf(q)' = SizeOf(q)

LEMMA AgreesKept ==
  ASSUME StorageInv, NEW f \in Fd, Agrees(f), opened'[f] = opened[f],
         fds'[f].used = fds[f].used, fds'[f].buf = fds[f].buf,
         fds'[f].size = fds[f].size,
         \A q \in Paths : Mine(f) /\ q = opened[f] => SameFile(q)
  PROVE  Agrees(f)'
<1>1. CASE Mine(f)
  <2>1. PICK q \in Paths : q = opened[f]
    BY <1>1, MinePath
  <2>2. /\ fds[f].used /\ IsFile(q)
        /\ fds[f].buf = BufOf(q) /\ fds[f].size = SizeOf(q)
    BY <1>1, <2>1 DEF Agrees
  <2>3. IsFile(q)' /\ BufOf(q)' = BufOf(q) /\ SizeOf(q)' = SizeOf(q)
    BY <1>1, <2>1, <2>2 DEF SameFile
  <2>4. opened'[f] = q
    BY <2>1
  <2>. QED  BY <2>2, <2>3, <2>4 DEF Agrees
<1>2. CASE ~Mine(f)
  BY <1>2 DEF Agrees, Mine
<1>. QED  BY <1>1, <1>2

NewFd(fl, b, sz, cap) ==
  [buf |-> b, size |-> sz, cap |-> cap,
   pos |-> IF "APPEND" \in fl THEN sz ELSE 0, used |-> TRUE, writable |-> fl # {}]

LEMMA NewFdFields ==
  ASSUME NEW fl, NEW b, NEW sz, NEW cap
  PROVE  /\ NewFd(fl, b, sz, cap).buf = b /\ NewFd(fl, b, sz, cap).size = sz
         /\ NewFd(fl, b, sz, cap).used /\ NewFd(fl, b, sz, cap).writable = (fl # {})
         /\ NewFd(fl, b, sz, cap).pos = IF "APPEND" \in fl THEN sz ELSE 0
BY DEF NewFd

\* alloc_fd: a descriptor that is not in use, or none.
LEMMA Installs ==
  ASSUME TypeOK, NEW p, NEW fl, NEW b, NEW sz, NEW cap, InstallFd(p, fl, b, sz, cap)
  PROVE  \/ /\ UNCHANGED <<fds, opened>>
            /\ ret' = [call |-> "open", fd |-> 0, val |-> ENOMEM, data |-> <<>>]
         \/ \E g \in Fd :
              /\ ~fds[g].used
              /\ fds' = [fds EXCEPT ![g] = NewFd(fl, b, sz, cap)]
              /\ opened' = [opened EXCEPT ![g] = p]
              /\ ret' = [call |-> "open", fd |-> g, val |-> g, data |-> <<>>]
<1>1. CASE FreeFds = {}
  BY <1>1 DEF InstallFd, Return
<1>2. CASE FreeFds # {}
  <2>1. FreeFds \in SUBSET Nat
    BY DEF FreeFds, Fd
  <2>2. FirstOf(FreeFds) \in FreeFds
    BY <1>2, <2>1, FirstOfIn
  <2>3. FirstOf(FreeFds) \in Fd /\ ~fds[FirstOf(FreeFds)].used
    BY <2>2 DEF FreeFds
  <2>4. /\ fds' = [fds EXCEPT ![FirstOf(FreeFds)] = NewFd(fl, b, sz, cap)]
        /\ opened' = [opened EXCEPT ![FirstOf(FreeFds)] = p]
        /\ ret' = [call |-> "open", fd |-> FirstOf(FreeFds), val |-> FirstOf(FreeFds),
                   data |-> <<>>]
    BY <1>2 DEF InstallFd, Return, NewFd
  <2>. QED  BY <2>3, <2>4
<1>. QED  BY <1>1, <1>2

LEMMA InstallAgrees ==
  ASSUME PoliteInv, NEW p \in Paths, NEW fl,
         NEW b \in Nat, NEW sz \in Nat, NEW cap \in Nat, sz < WordSize,
         InstallFd(p, fl, b, sz, cap),
         IsFile(p)', BufOf(p)' = b, SizeOf(p)' = sz,
         \A f \in Fd, q \in Paths : Mine(f) /\ q = opened[f] => SameFile(q),
         \A f \in Fd : opened[f] = p => fl = {} /\ ~fds[f].writable
  PROVE  /\ \A f \in Fd : Agrees(f)'
         /\ Alone'
         /\ \A f \in Fd : fds'[f].size < WordSize /\ fds'[f].pos < WordSize
<1>1. TypeOK
  BY DEF PoliteInv, StorageInv
<1>2. CASE UNCHANGED <<fds, opened>>
  <2>1. \A f \in Fd : Agrees(f)'
    BY <1>2, AgreesKept DEF PoliteInv
  <2>2. Alone'
    BY <1>2 DEF PoliteInv, Alone, Mine
  <2>. QED  BY <1>2, <2>1, <2>2 DEF PoliteInv, Words
<1>3. ASSUME NEW g \in Fd, ~fds[g].used,
             fds' = [fds EXCEPT ![g] = NewFd(fl, b, sz, cap)],
             opened' = [opened EXCEPT ![g] = p]
      PROVE  /\ \A f \in Fd : Agrees(f)'
             /\ Alone'
             /\ \A f \in Fd : fds'[f].size < WordSize /\ fds'[f].pos < WordSize
  <2>1. /\ \A f \in Fd : fds'[f] = IF f = g THEN NewFd(fl, b, sz, cap) ELSE fds[f]
        /\ \A f \in Fd : opened'[f] = IF f = g THEN p ELSE opened[f]
    BY <1>1, <1>3 DEF TypeOK
  <2>2. Agrees(g)'
    <3>1. fds'[g].used /\ fds'[g].buf = b /\ fds'[g].size = sz /\ opened'[g] = p
      BY <2>1, NewFdFields
    <3>. QED  BY <3>1 DEF Agrees
  <2>3. ASSUME NEW f \in Fd, f # g PROVE Agrees(f)'
    BY <2>1, <2>3, AgreesKept DEF PoliteInv
  <2>4. Alone'
    <3>1. SUFFICES ASSUME NEW f \in Fd, NEW h \in Fd, f # h,
                          opened'[f] # NoPath, opened'[f] = opened'[h]
                   PROVE  ~fds'[f].writable
      BY DEF Alone, Mine
    <3>2. CASE f = g
      <4>1. opened[h] = p
        BY <2>1, <3>1, <3>2
      <4>2. ~NewFd(fl, b, sz, cap).writable
        BY <4>1, NewFdFields
      <4>. QED  BY <2>1, <3>2, <4>2
    <3>3. CASE h = g
      BY <2>1, <3>1, <3>3
    <3>4. CASE f # g /\ h # g
      BY <2>1, <3>1, <3>4 DEF PoliteInv, Alone, Mine
    <3>. QED  BY <3>2, <3>3, <3>4
  <2>5. 0 < WordSize /\ WordSize \in Nat
    BY RamfsAssumption
  <2>6. \A f \in Fd : fds'[f].size < WordSize /\ fds'[f].pos < WordSize
    <3>1. NewFd(fl, b, sz, cap).size < WordSize /\ NewFd(fl, b, sz, cap).pos < WordSize
      BY <2>5, NewFdFields
    <3>. QED  BY <2>1, <3>1 DEF PoliteInv, Words
  <2>. QED  BY <2>2, <2>3, <2>4, <2>6
<1>. QED  BY <1>1, <1>2, <1>3, Installs

\* Nobody polite has a file open that is created anew or truncated.
LEMMA OpenNewAgrees ==
  ASSUME PoliteInv, StorageInv', NEW p \in Paths, NEW fl \in Modes, OpenNew(p, fl),
         \A f \in Fd : opened[f] = p => fl = {} /\ ~fds[f].writable
  PROVE  PoliteInv'
<1>1. CASE Fail("open", 0, ENOMEM)
  <2>1. UNCHANGED <<extras, heap, fds, opened>>
    BY <1>1 DEF Fail
  <2>2. \A q : SameFile(q)
    BY <2>1 DEF SameFile, IsFile, BufOf, SizeOf, HasExtra, ExtraAt, EntriesAt, BlobAt, NBlob
  <2>3. \A f \in Fd : Agrees(f)'
    BY <2>1, <2>2, AgreesKept DEF PoliteInv
  <2>. QED  BY <2>1, <2>3 DEF PoliteInv, Alone, Words, Mine
<1>2. CASE ~HasExtra(p) /\ CreateFile(p) /\ InstallFd(p, fl, Len(heap) + 1, 0, ICap)
  <2>. DEFINE e == [path |-> p, isdir |-> FALSE, buf |-> Len(heap) + 1, size |-> 0, cap |-> ICap]
  <2>1. extras' = Append(extras, e) /\ e.path = p /\ ~e.isdir
        /\ e.buf = Len(heap) + 1 /\ e.size = 0
    BY <1>2 DEF CreateFile
  <2>2. fl # {}
    BY DEF OpenNew
  <2>. HIDE DEF e
  <2>3. StorageInv /\ ~HasExtra(e.path)
    BY <1>2, <2>1 DEF PoliteInv
  <2>4. ASSUME NEW q \in Paths, q # p PROVE SameFile(q)
    BY <2>1, <2>3, <2>4, EntryAdded DEF SameFile
  <2>5. HasExtra(p)' /\ ExtraAt(p)' = e
    BY <2>1, <2>3, EntryAdded
  <2>6. IsFile(p)' /\ BufOf(p)' = Len(heap) + 1 /\ SizeOf(p)' = 0
    BY <2>1, <2>5 DEF IsFile, BufOf, SizeOf
  <2>7. Len(heap) + 1 \in Nat /\ ICap \in Nat /\ 0 < WordSize
    BY <2>3, RamfsAssumption DEF StorageInv, TypeOK
  <2>8. ASSUME NEW f \in Fd, NEW q \in Paths, Mine(f), q = opened[f] PROVE SameFile(q)
    BY <2>2, <2>4, <2>8
  <2>9. /\ \A f \in Fd : Agrees(f)'
        /\ Alone'
        /\ \A f \in Fd : fds'[f].size < WordSize /\ fds'[f].pos < WordSize
    BY <1>2, <2>6, <2>7, <2>8, InstallAgrees
  <2>10. \A i \in DOMAIN extras' : extras'[i].size < WordSize
    <3>1. /\ DOMAIN extras' = 1..(Len(extras) + 1) /\ Len(extras) \in Nat
          /\ DOMAIN extras = 1..Len(extras)
          /\ extras'[Len(extras) + 1] = e
          /\ \A i \in DOMAIN extras : extras'[i] = extras[i]
      BY <2>1, <2>3 DEF StorageInv, TypeOK
    <3>. QED  BY <2>1, <2>7, <3>1 DEF PoliteInv, Words
  <2>. QED  BY <2>9, <2>10 DEF PoliteInv, Words
<1>. QED  BY <1>1, <1>2 DEF OpenNew

LEMMA OpenTruncAgrees ==
  ASSUME PoliteInv, StorageInv', NEW p \in Paths, NEW fl \in Modes, OpenTrunc(p, fl),
         \A f \in Fd : opened[f] = p => fl = {} /\ ~fds[f].writable
  PROVE  PoliteInv'
<1>1. /\ StorageInv /\ HasExtra(p) /\ ~IsDirExtra(p) /\ fl # {}
      /\ Emptied(p) /\ UNCHANGED heap
      /\ InstallFd(p, fl, ExtraAt(p).buf, 0, ExtraAt(p).cap)
  BY DEF PoliteInv, OpenTrunc, Emptied
<1>2. /\ SameEntries /\ IsFile(p)' /\ BufOf(p)' = BufOf(p) /\ SizeOf(p)' = 0
      /\ \A q \in Paths : q # p => BufOf(q)' = BufOf(q) /\ SizeOf(q)' = SizeOf(q)
  BY <1>1, TruncKeeps
<1>3. ExtraAt(p) \in Extra /\ BufOf(p) = ExtraAt(p).buf
  BY <1>1, ExtraFound DEF BufOf
<1>4. ExtraAt(p).buf \in Nat /\ ExtraAt(p).cap \in Nat /\ 0 < WordSize
  BY <1>3, RamfsAssumption DEF Extra
<1>5. ASSUME NEW f \in Fd, NEW q \in Paths, Mine(f), q = opened[f] PROVE SameFile(q)
  <2>1. q # p
    BY <1>1, <1>5
  <2>2. IsFile(q)' = IsFile(q)
    BY <1>1, <1>2, EntriesKept
  <2>. QED  BY <1>2, <2>1, <2>2 DEF SameFile
<1>6. /\ \A f \in Fd : Agrees(f)'
      /\ Alone'
      /\ \A f \in Fd : fds'[f].size < WordSize /\ fds'[f].pos < WordSize
  BY <1>1, <1>2, <1>3, <1>4, <1>5, InstallAgrees
<1>7. \A i \in DOMAIN extras' : extras'[i].size < WordSize
  <2>1. extras \in Seq(Extra)
    BY <1>1 DEF StorageInv, TypeOK
  <2>. DEFINE k == FirstOf(EntriesAt(p))
  <2>2. k \in DOMAIN extras
    BY <1>1, ExtraIndex
  <2>. HIDE DEF k
  <2>3. extras' = [extras EXCEPT ![k].size = 0]
    BY <1>1 DEF k, Emptied
  <2>4. ASSUME NEW i \in DOMAIN extras
        PROVE  extras'[i].size = IF i = k THEN 0 ELSE extras[i].size
    <3>1. extras[i] \in Extra
      BY <2>1
    <3>. QED  BY <2>1, <2>2, <2>3, <3>1 DEF Extra
  <2>5. DOMAIN extras' = DOMAIN extras
    BY <2>3
  <2>. QED  BY <1>4, <2>4, <2>5 DEF PoliteInv, Words
<1>. QED  BY <1>6, <1>7 DEF PoliteInv, Words

LEMMA Untouched ==
  ASSUME UNCHANGED <<extras, heap>>, NEW q
  PROVE  /\ IsFile(q)' = IsFile(q) /\ BufOf(q)' = BufOf(q) /\ SizeOf(q)' = SizeOf(q)
         /\ Content(q)' = Content(q) /\ IsDirExtra(q)' = IsDirExtra(q)
         /\ HasExtra(q)' = HasExtra(q)
BY DEF Content, IsFile, BufOf, SizeOf, HasExtra, ExtraAt, EntriesAt, BlobAt, NBlob, IsDirExtra

LEMMA SizeIsWord ==
  ASSUME PoliteInv, NEW p \in Paths, IsFile(p)
  PROVE  SizeOf(p) < WordSize
<1>1. CASE HasExtra(p)
  BY <1>1, ExtraIndex DEF PoliteInv, Words, SizeOf, ExtraAt
<1>2. CASE ~HasExtra(p)
  <2>1. FirstOf(BlobAt(p)) \in DOMAIN BlobData
    BY <1>2, BlobFound DEF IsFile, PoliteInv
  <2>. QED  BY <1>2, <2>1, StoreAssumption DEF SizeOf
<1>. QED  BY <1>1, <1>2

LEMMA OpenExistingAgrees ==
  ASSUME PoliteInv, StorageInv', NEW p \in Paths, NEW fl \in Modes, OpenExisting(p, fl),
         \A f \in Fd : opened[f] = p => fl = {} /\ ~fds[f].writable
  PROVE  PoliteInv'
<1>. DEFINE cap == IF HasExtra(p) THEN ExtraAt(p).cap ELSE SizeOf(p)
<1>1. /\ StorageInv /\ IsFile(p) /\ UNCHANGED <<extras, heap>>
      /\ InstallFd(p, fl, BufOf(p), SizeOf(p), cap)
  BY DEF PoliteInv, OpenExisting
<1>2. BufOf(p) \in Nat /\ SizeOf(p) \in Nat /\ SizeOf(p) < WordSize
  BY <1>1, FileStorage, SizeIsWord
<1>3. cap \in Nat
  <2>1. HasExtra(p) => ExtraAt(p) \in Extra
    BY <1>1, ExtraFound
  <2>. QED  BY <1>2, <2>1 DEF Extra
<1>4. IsFile(p)' /\ BufOf(p)' = BufOf(p) /\ SizeOf(p)' = SizeOf(p)
  BY <1>1, Untouched
<1>5. \A q : SameFile(q)
  BY <1>1, Untouched DEF SameFile
<1>. HIDE DEF cap
<1>6. /\ \A f \in Fd : Agrees(f)'
      /\ Alone'
      /\ \A f \in Fd : fds'[f].size < WordSize /\ fds'[f].pos < WordSize
  BY <1>1, <1>2, <1>3, <1>4, <1>5, InstallAgrees
<1>. QED  BY <1>1, <1>6 DEF PoliteInv, Words

LEMMA NothingMovesAgrees ==
  ASSUME PoliteInv, StorageInv', UNCHANGED <<extras, heap, fds, opened>>
  PROVE  PoliteInv'
<1>1. \A q : SameFile(q)
  BY Untouched DEF SameFile
<1>2. \A f \in Fd : Agrees(f)'
  BY <1>1, AgreesKept DEF PoliteInv
<1>. QED  BY <1>2 DEF PoliteInv, Alone, Words, Mine

LEMMA OpenAgrees ==
  ASSUME PoliteInv, StorageInv', NEW n \in Names, NEW fl \in Modes,
         Polite(n, fl), Open(n, fl)
  PROVE  PoliteInv'
<1>1. PICK p \in Paths : p = NormPath(n)
  BY NormPathType DEF PoliteInv, StorageInv
<1>2. \A f \in Fd : opened[f] = p => fl = {} /\ ~fds[f].writable
  BY <1>1 DEF Polite
<1>3. CASE Fail("open", 0, EINVAL) \/ Fail("open", 0, ENOENT)
  BY <1>3, NothingMovesAgrees DEF Fail
<1>4. CASE OpenNew(p, fl) \/ OpenTrunc(p, fl) \/ OpenExisting(p, fl)
  BY <1>2, <1>4, OpenNewAgrees, OpenTruncAgrees, OpenExistingAgrees
<1>. QED  BY <1>1, <1>3, <1>4 DEF Open

\* A position moves to another word.
LEMMA PositionAgrees ==
  ASSUME PoliteInv, StorageInv', NEW f \in Fd, NEW np \in Nat, np < WordSize,
         fds' = [fds EXCEPT ![f].pos = np], UNCHANGED <<extras, heap, opened>>
  PROVE  PoliteInv'
<1>1. \A g \in Fd : fds[g] \in FdEnt
  BY DEF PoliteInv, StorageInv, TypeOK
<1>2. \A g \in Fd : /\ fds'[g].used = fds[g].used /\ fds'[g].buf = fds[g].buf
                    /\ fds'[g].size = fds[g].size
                    /\ fds'[g].writable = fds[g].writable
                    /\ fds'[g].pos = IF g = f THEN np ELSE fds[g].pos
  BY <1>1 DEF PoliteInv, StorageInv, TypeOK, FdEnt
<1>3. \A q : SameFile(q)
  BY Untouched DEF SameFile
<1>4. \A g \in Fd : Agrees(g)'
  BY <1>2, <1>3, AgreesKept DEF PoliteInv
<1>5. Alone'
  BY <1>2 DEF PoliteInv, Alone, Mine
<1>6. Words'
  BY <1>2 DEF PoliteInv, Words
<1>. QED  BY <1>4, <1>5, <1>6 DEF PoliteInv

\* What ramfs_read moves the position by.
Left(f) == IF fds[f].pos >= fds[f].size THEN 0 ELSE fds[f].size - fds[f].pos
Taken(f, n) == IF n > Left(f) THEN Left(f) ELSE n

LEMMA ReadAgrees ==
  ASSUME PoliteInv, StorageInv', NEW f \in Fd, NEW n \in Counts, Read(f, n)
  PROVE  PoliteInv'
<1>1. CASE Fail("read", f, EBADF)
  BY <1>1, NothingMovesAgrees DEF Fail
<1>2. CASE fds' = [fds EXCEPT ![f].pos = @ + Taken(f, n)] /\ UNCHANGED <<extras, heap, opened>>
  <2>1. /\ fds[f].pos \in Nat /\ fds[f].size \in Nat /\ n \in Nat
        /\ fds[f].pos < WordSize /\ fds[f].size < WordSize /\ WordSize \in Nat
    BY FdEntType, RamfsAssumption DEF PoliteInv, Words
  <2>2. fds[f].pos + Taken(f, n) \in Nat /\ fds[f].pos + Taken(f, n) < WordSize
    BY <2>1 DEF Taken, Left
  <2>3. fds' = [fds EXCEPT ![f].pos = fds[f].pos + Taken(f, n)]
    BY <1>2
  <2>. QED  BY <1>2, <2>2, <2>3, PositionAgrees
<1>. QED  BY <1>1, <1>2 DEF Read, Taken, Left

\* lseek's sum is below twice the word size, so the result is what a signed
\* word holds.
LEMMA SeekResult ==
  ASSUME NEW base \in Nat, base < WordSize, NEW off \in Offsets
  PROVE  LET np == Signed(Wrap(IF base + off < 0 THEN base + off + WordSize ELSE base + off))
         IN  np \in Int /\ (np >= 0 => np < WordSize \div 2 /\ np < WordSize)
<1>1. /\ WordSize \in Nat /\ WordSize \div 2 \in Nat
      /\ 2 * (WordSize \div 2) <= WordSize
      /\ off \in Int /\ off >= -(WordSize \div 2) /\ off < WordSize \div 2
  BY RamfsAssumption
<1>. DEFINE h == WordSize \div 2
            x == IF base + off < 0 THEN base + off + WordSize ELSE base + off
<1>. HIDE DEF h
<1>2. h \in Nat /\ 2 * h <= WordSize /\ off >= -h /\ off < h
  BY <1>1 DEF h
<1>3. x \in Nat /\ x < 2 * WordSize
  BY <1>1, <1>2
<1>. HIDE DEF x
<1>4. Wrap(x) \in Nat /\ Wrap(x) < WordSize
  BY <1>1, <1>3 DEF Wrap
<1>5. /\ Signed(Wrap(x)) \in Int
      /\ Signed(Wrap(x)) >= 0 => Signed(Wrap(x)) < h /\ Signed(Wrap(x)) < WordSize
  BY <1>1, <1>2, <1>4 DEF Signed, h
<1>. QED  BY <1>5 DEF x, h

SeekBase(f, w) == CASE w = "set" -> 0
                    [] w = "cur" -> fds[f].pos
                    [] w = "end" -> fds[f].size
SeekTo(f, off, w) ==
  Signed(Wrap(IF SeekBase(f, w) + off < 0 THEN SeekBase(f, w) + off + WordSize
                                          ELSE SeekBase(f, w) + off))

LEMMA SeekToWord ==
  ASSUME PoliteInv, NEW f \in Fd, NEW off \in Offsets, NEW w \in {"set", "cur", "end"}
  PROVE  /\ SeekTo(f, off, w) \in Int
         /\ SeekTo(f, off, w) >= 0 =>
              SeekTo(f, off, w) < WordSize \div 2 /\ SeekTo(f, off, w) < WordSize
<1>1. SeekBase(f, w) \in Nat /\ SeekBase(f, w) < WordSize
  <2>1. /\ fds[f].pos \in Nat /\ fds[f].size \in Nat
        /\ fds[f].pos < WordSize /\ fds[f].size < WordSize /\ 0 < WordSize
    BY FdEntType, RamfsAssumption DEF PoliteInv, Words
  <2>. QED  BY <2>1 DEF SeekBase
<1>. QED  BY <1>1, SeekResult DEF SeekTo

LEMMA SeekCases ==
  ASSUME NEW f, NEW off, NEW w, Seek(f, off, w)
  PROVE  \/ ~Valid(f) /\ Fail("lseek", f, EBADF)
         \/ Valid(f) /\ SeekTo(f, off, w) < 0 /\ Fail("lseek", f, EINVAL)
         \/ /\ Valid(f) /\ SeekTo(f, off, w) >= 0
            /\ fds' = [fds EXCEPT ![f].pos = SeekTo(f, off, w)]
            /\ Return("lseek", f, SeekTo(f, off, w), <<>>)
            /\ UNCHANGED <<extras, heap, cwd, opened>>
BY DEF Seek, SeekTo, SeekBase

LEMMA SeekAgrees ==
  ASSUME PoliteInv, StorageInv', NEW f \in Fd, NEW off \in Offsets,
         NEW w \in {"set", "cur", "end"}, Seek(f, off, w)
  PROVE  PoliteInv'
<1>1. CASE Fail("lseek", f, EBADF) \/ Fail("lseek", f, EINVAL)
  BY <1>1, NothingMovesAgrees DEF Fail
<1>2. CASE /\ SeekTo(f, off, w) >= 0
           /\ fds' = [fds EXCEPT ![f].pos = SeekTo(f, off, w)]
           /\ UNCHANGED <<extras, heap, opened>>
  <2>1. PICK np \in Nat : np = SeekTo(f, off, w)
    BY <1>2, SeekToWord
  <2>2. np < WordSize
    BY <1>2, <2>1, SeekToWord
  <2>3. fds' = [fds EXCEPT ![f].pos = np]
    BY <1>2, <2>1
  <2>. QED  BY <1>2, <2>2, <2>3, PositionAgrees
<1>. QED  BY <1>1, <1>2, SeekCases

\* A file's descriptor hands back the size the file has: nothing changes.
LEMMA CloseSame ==
  ASSUME PoliteInv, NEW f \in Fd, Mine(f), Close(f)
  PROVE  /\ Valid(f) /\ UNCHANGED heap
         /\ fds' = [fds EXCEPT ![f] = FreeFd]
         /\ opened' = [opened EXCEPT ![f] = NoPath]
         /\ ret' = [call |-> "close", fd |-> f, val |-> 0, data |-> <<>>]
         /\ extras' = SyncSize(extras, fds[f].buf, fds[f].size)
         /\ \A q \in Paths : /\ IsFile(q)' = IsFile(q) /\ IsDirExtra(q)' = IsDirExtra(q)
                             /\ SameFile(q)
<1>1. Valid(f) /\ StorageInv
  BY DEF PoliteInv, Agrees, Valid
<1>2. /\ UNCHANGED heap
      /\ fds' = [fds EXCEPT ![f] = FreeFd]
      /\ opened' = [opened EXCEPT ![f] = NoPath]
      /\ ret' = [call |-> "close", fd |-> f, val |-> 0, data |-> <<>>]
      /\ extras' = SyncSize(extras, fds[f].buf, fds[f].size)
  BY <1>1 DEF Close, Return
<1>3. fds[f].buf \in DOMAIN heap /\ fds[f].size \in Nat
  BY <1>1, DescStorage
<1>4. opened[f] \in Paths /\ IsFile(opened[f])
      /\ fds[f].buf = BufOf(opened[f]) /\ fds[f].size = SizeOf(opened[f])
  BY <1>1, MinePath DEF PoliteInv, Agrees
<1>5. ASSUME NEW q \in Paths
      PROVE  /\ IsFile(q)' = IsFile(q) /\ IsDirExtra(q)' = IsDirExtra(q)
             /\ SameFile(q)
  <2>1. /\ IsFile(q)' = IsFile(q) /\ IsDirExtra(q)' = IsDirExtra(q)
        /\ IsFile(q) =>
             /\ BufOf(q)' = BufOf(q)
             /\ SizeOf(q)' = IF HasExtra(q) /\ BufOf(q) = fds[f].buf
                             THEN fds[f].size ELSE SizeOf(q)
    BY <1>1, <1>2, <1>3, SyncStorage
  <2>2. IsFile(q) /\ BufOf(q) = fds[f].buf => q = opened[f]
    BY <1>1, <1>4, StorageApart
  <2>. QED  BY <1>4, <2>1, <2>2 DEF SameFile
<1>. QED  BY <1>1, <1>2, <1>5

LEMMA CloseAgrees ==
  ASSUME PoliteInv, StorageInv', NEW f \in Fd, Mine(f), Close(f)
  PROVE  PoliteInv'
<1>1. /\ Valid(f) /\ fds' = [fds EXCEPT ![f] = FreeFd]
      /\ opened' = [opened EXCEPT ![f] = NoPath]
      /\ extras' = SyncSize(extras, fds[f].buf, fds[f].size)
      /\ \A q \in Paths : SameFile(q)
  BY CloseSame
<1>2. /\ \A g \in Fd : fds'[g] = IF g = f THEN FreeFd ELSE fds[g]
      /\ \A g \in Fd : opened'[g] = IF g = f THEN NoPath ELSE opened[g]
      /\ StorageInv
  BY <1>1 DEF PoliteInv, StorageInv, TypeOK
<1>3. Agrees(f)'
  BY <1>2 DEF Agrees, Mine
<1>4. ASSUME NEW g \in Fd, g # f PROVE Agrees(g)'
  BY <1>1, <1>2, <1>4, MinePath, AgreesKept DEF PoliteInv
<1>5. Alone'
  BY <1>2 DEF PoliteInv, Alone, Mine
<1>6. Words'
  <2>1. fds[f].size < WordSize /\ 0 < WordSize /\ fds[f].buf \in Nat /\ fds[f].size \in Nat
    BY <1>1, <1>2, DescStorage, RamfsAssumption DEF PoliteInv, Words
  <2>3. /\ DOMAIN extras' = DOMAIN extras
        /\ \A i \in DOMAIN extras : extras'[i].size =
             IF extras[i].buf = fds[f].buf THEN fds[f].size ELSE extras[i].size
    BY <1>1, <1>2, <2>1, SyncSizeFields
  <2>5. \A i \in DOMAIN extras' : extras'[i].size < WordSize
    BY <2>1, <2>3 DEF PoliteInv, Words
  <2>6. \A g \in Fd : fds'[g].size < WordSize /\ fds'[g].pos < WordSize
    BY <1>2, <2>1 DEF PoliteInv, Words, FreeFd
  <2>. QED  BY <2>5, <2>6 DEF Words
<1>. QED  BY <1>3, <1>4, <1>5, <1>6 DEF PoliteInv

-----------------------------------------------------------------------------
\* What a write leaves: the descriptor and the file it names agree on storage
\* and size, the bytes are those written and the old ones, and no other path
\* shows anything new.
WriteSeen(f, n, v, p) ==
  /\ IsFile(p) /\ IsFile(p)' /\ BufOf(p)' = fds'[f].buf
  /\ SizeOf(p)' = Larger(fds[f].size, fds[f].pos + n)
  /\ fds'[f].size = SizeOf(p)' /\ fds'[f].pos = fds[f].pos + n
  /\ fds'[f].used = fds[f].used /\ fds'[f].writable = fds[f].writable
  /\ \A g \in Fd : g # f => fds'[g] = fds[g]
  /\ \A q \in Paths : q # p => SameFile(q) /\ Content(q)' = Content(q)
  /\ \A q : IsDirExtra(q)' = IsDirExtra(q)
  /\ \A i \in 1..SizeOf(p)' :
       IF fds[f].pos < i /\ i <= fds[f].pos + n THEN heap'[BufOf(p)'][i] = v
       ELSE i <= SizeOf(p) => heap'[BufOf(p)'][i] = heap[BufOf(p)][i]
  /\ \A i \in DOMAIN extras' : extras'[i].size < WordSize

LEMMA InPlaceSeen ==
  ASSUME PoliteInv, StorageInv', NEW f \in Fd, Mine(f), NEW n \in Counts, NEW v \in Tags,
         NEW p \in Paths, p = opened[f],
         WriteInPlace(f, n, v), fds[f].pos + n < WordSize
  PROVE  WriteSeen(f, n, v, p)
<1>. DEFINE b == fds[f].buf
            sz == Larger(fds[f].size, fds[f].pos + n)
<1>1. StorageInv /\ Valid(f) /\ IsFile(p) /\ b = BufOf(p)
      /\ fds[f].size = SizeOf(p) /\ n \in Nat
  BY RamfsAssumption DEF PoliteInv, Agrees, Valid
<1>2. /\ b \in DOMAIN heap /\ b \in Nat /\ fds[f].size \in Nat
      /\ fds[f].pos \in Nat /\ fds[f].cap = Len(heap[b]) /\ fds[f].size <= fds[f].cap
      /\ heap[b] \in Seq(Byte) /\ fds[f] \in FdEnt /\ fds[f].cap \in Nat
  BY <1>1, DescStorage, FdEntType
<1>3. sz \in Nat /\ sz <= Len(heap[b]) /\ sz < WordSize /\ fds[f].pos + n <= fds[f].cap
  BY <1>1, <1>2 DEF Larger, WriteInPlace, PoliteInv, Words
<1>4. /\ heap' = [heap EXCEPT ![b] = Overlay(heap[b], fds[f].pos, n, v)]
      /\ fds' = [fds EXCEPT ![f] = [fds[f] EXCEPT !.pos = fds[f].pos + n, !.size = sz]]
      /\ extras' = SyncSize(extras, b, sz)
  BY DEF WriteInPlace
<1>5. /\ SameEntries
      /\ \A q \in Paths : IsFile(q) =>
           /\ IsFile(q)' /\ BufOf(q)' = BufOf(q)
           /\ BufOf(q) # b => SizeOf(q)' = SizeOf(q)
           /\ HasExtra(q) /\ BufOf(q) = b => SizeOf(q)' = sz
      /\ \A q \in Paths : (IsFile(q) => BufOf(q) # b) => Content(q)' = Content(q)
  BY <1>1, InPlaceKeeps
<1>6. SizeOf(p)' = sz
  <2>1. CASE HasExtra(p)
    BY <1>1, <1>5, <2>1
  <2>2. CASE ~HasExtra(p)
    <3>1. SizeOf(p)' = SizeOf(p)
      BY <1>1, <1>5, <2>2, EntriesKept, BlobKept
    <3>2. SizeOf(p) = Len(heap[b])
      BY <1>1, <2>2, BlobFound DEF IsFile, BufOf, SizeOf
    <3>. QED  BY <1>1, <1>2, <1>3, <3>1, <3>2 DEF Larger
  <2>. QED  BY <2>1, <2>2
<1>7. ASSUME NEW q \in Paths, q # p
      PROVE  SameFile(q) /\ Content(q)' = Content(q)
  <2>1. IsFile(q) => BufOf(q) # b
    BY <1>1, <1>7, StorageApart
  <2>. QED  BY <1>5, <2>1 DEF SameFile
<1>8. \A q : IsDirExtra(q)' = IsDirExtra(q)
  BY <1>1, <1>5, EntriesKept
<1>. HIDE DEF b, sz
<1>9. /\ fds'[f].buf = b /\ fds'[f].size = sz /\ fds'[f].pos = fds[f].pos + n
      /\ fds'[f].used = fds[f].used /\ fds'[f].writable = fds[f].writable
      /\ \A g \in Fd : g # f => fds'[g] = fds[g]
  BY <1>1, <1>2, <1>4 DEF StorageInv, TypeOK, FdEnt, b
<1>10. heap'[b] = Overlay(heap[b], fds[f].pos, n, v)
  BY <1>1, <1>2, <1>4
<1>11. \A i \in 1..sz :
         heap'[b][i] = IF fds[f].pos < i /\ i <= fds[f].pos + n THEN v ELSE heap[b][i]
  BY <1>2, <1>3, <1>10 DEF Overlay
<1>12. \A i \in DOMAIN extras' : extras'[i].size < WordSize
  <2>1. /\ DOMAIN extras' = DOMAIN extras
        /\ \A i \in DOMAIN extras : extras'[i].size =
             IF extras[i].buf = b THEN sz ELSE extras[i].size
    BY <1>1, <1>2, <1>3, <1>4, SyncSizeFields
  <2>. QED  BY <1>3, <2>1 DEF PoliteInv, Words
<1>13. IsFile(p)' /\ BufOf(p)' = b
  BY <1>1, <1>5
<1>. QED  BY <1>1, <1>6, <1>7, <1>8, <1>9, <1>11, <1>12, <1>13 DEF WriteSeen, b, sz

LEMMA GrowingSeen ==
  ASSUME PoliteInv, StorageInv', NEW f \in Fd, Mine(f), NEW n \in Counts, NEW v \in Tags,
         NEW p \in Paths, p = opened[f],
         WriteGrowing(f, n, v), fds[f].pos + n < WordSize
  PROVE  WriteSeen(f, n, v, p)
<1>. DEFINE b == fds[f].buf
            end == fds[f].pos + n
<1>1. StorageInv /\ Valid(f) /\ IsFile(p) /\ b = BufOf(p)
      /\ fds[f].size = SizeOf(p) /\ n \in Nat
  BY RamfsAssumption DEF PoliteInv, Agrees, Valid
<1>2. PICK k, e, s : Grown(f, n, v, k, e, s)
  BY <1>1, GrowingGrows
<1>3. /\ SameEntries
      /\ \A q \in Paths : q # e.path =>
           /\ BufOf(q)' = BufOf(q) /\ SizeOf(q)' = SizeOf(q)
           /\ Content(q)' = Content(q)
      /\ \A q \in Paths : q = e.path =>
           /\ HasExtra(q) /\ IsFile(q) /\ IsFile(q)'
           /\ BufOf(q) = b /\ SizeOf(q) = extras[k].size
           /\ BufOf(q)' = Len(heap) + 1 /\ SizeOf(q)' = end
  BY <1>1, <1>2, GrowingKeeps
<1>4. e.path = p
  <2>1. e.path \in Paths
    BY <1>2 DEF Grown, Extra
  <2>2. IsFile(e.path) /\ BufOf(e.path) = BufOf(p)
    BY <1>1, <1>3, <2>1
  <2>. QED  BY <1>1, <2>1, <2>2, StorageApart
<1>5. /\ fds[f].size \in Nat /\ fds[f].pos \in Nat /\ fds[f] \in FdEnt /\ b \in DOMAIN heap
      /\ Len(heap) \in Nat
  BY <1>1, DescStorage, FdEntType DEF StorageInv, TypeOK
<1>6. /\ end \in Nat /\ end > fds[f].size /\ s \in Seq(Byte) /\ end <= Len(s)
      /\ heap' = Append(heap, s)
      /\ \A i \in 1..Len(s) : s[i] = IF fds[f].pos < i /\ i <= end THEN v
                                     ELSE IF i <= extras[k].size THEN heap[b][i] ELSE Junk
      /\ fds' = [fds EXCEPT ![f] = [fds[f] EXCEPT !.buf = Len(heap) + 1, !.cap = Len(s),
                                      !.pos = end, !.size = end]]
      /\ k \in DOMAIN extras /\ e \in Extra /\ e.size = end
      /\ extras' = [extras EXCEPT ![k] = e]
  BY <1>2 DEF Grown
<1>7. Larger(fds[f].size, end) = end
  BY <1>5, <1>6 DEF Larger
<1>8. /\ IsFile(p)' /\ BufOf(p)' = Len(heap) + 1 /\ SizeOf(p)' = end
      /\ SizeOf(p) = extras[k].size /\ BufOf(p) = b
  BY <1>1, <1>3, <1>4
<1>9. \A q : IsDirExtra(q)' = IsDirExtra(q) /\ IsFile(q)' = IsFile(q)
  BY <1>1, <1>3, EntriesKept
<1>10. \A q \in Paths : q # p => SameFile(q) /\ Content(q)' = Content(q)
  BY <1>3, <1>4, <1>9 DEF SameFile
<1>. HIDE DEF b, end
<1>11. /\ fds'[f].buf = Len(heap) + 1 /\ fds'[f].size = end /\ fds'[f].pos = end
       /\ fds'[f].used = fds[f].used /\ fds'[f].writable = fds[f].writable
       /\ \A g \in Fd : g # f => fds'[g] = fds[g]
  BY <1>1, <1>5, <1>6 DEF StorageInv, TypeOK, FdEnt
<1>12. heap'[Len(heap) + 1] = s
  BY <1>1, <1>6, FreshStorage
<1>13. \A i \in 1..end :
         IF fds[f].pos < i /\ i <= end THEN heap'[Len(heap) + 1][i] = v
         ELSE i <= extras[k].size => heap'[Len(heap) + 1][i] = heap[b][i]
  BY <1>5, <1>6, <1>12
<1>14. \A i \in DOMAIN extras' : extras'[i].size < WordSize
  <2>1. extras \in Seq(Extra) /\ end < WordSize
    BY <1>1 DEF StorageInv, TypeOK, end
  <2>. QED  BY <1>6, <2>1, ReplacedEntry DEF PoliteInv, Words
<1>. QED
  BY <1>1, <1>7, <1>8, <1>9, <1>10, <1>11, <1>13, <1>14 DEF WriteSeen, end

\* Any write of a polite program either changes nothing or is seen like that.
LEMMA WriteCases ==
  ASSUME PoliteInv, StorageInv', NEW f \in Fd, Mine(f), NEW n \in Counts, NEW v \in Tags,
         NEW p \in Paths, p = opened[f], Write(f, n, v)
  PROVE  \/ ~fds[f].writable /\ Fail("write", f, EBADF)
         \/ fds[f].writable /\ Fail("write", f, ENOMEM)
         \/ /\ fds[f].writable /\ WriteSeen(f, n, v, p) /\ fds[f].pos + n < WordSize
            /\ ret' = [call |-> "write", fd |-> f, val |-> n, data |-> <<>>]
            /\ UNCHANGED <<cwd, opened>>
<1>1. Valid(f)
  BY DEF PoliteInv, Agrees, Valid
<1>2. CASE /\ fds[f].writable
           /\ Wrap(fds[f].pos + n) >= fds[f].pos
           /\ WriteInPlace(f, n, v) \/ WriteGrowing(f, n, v)
           /\ Return("write", f, n, <<>>)
           /\ UNCHANGED <<cwd, opened>>
  <2>1. /\ fds[f].pos \in Nat /\ n \in Nat /\ n < WordSize /\ WordSize \in Nat
        /\ fds[f].pos < WordSize
    BY FdEntType, RamfsAssumption DEF PoliteInv, Words
  <2>2. fds[f].pos + n < WordSize
    BY <1>2, <2>1 DEF Wrap
  <2>. QED  BY <1>2, <2>2, InPlaceSeen, GrowingSeen DEF Return
<1>. QED  BY <1>1, <1>2 DEF Write

LEMMA WriteAgrees ==
  ASSUME PoliteInv, StorageInv', NEW f \in Fd, Mine(f), NEW n \in Counts, NEW v \in Tags,
         Write(f, n, v)
  PROVE  PoliteInv'
<1>. PICK p \in Paths : p = opened[f]
  BY MinePath DEF PoliteInv
<1>1. CASE Fail("write", f, EBADF) \/ Fail("write", f, ENOMEM)
  BY <1>1, NothingMovesAgrees DEF Fail
<1>2. CASE fds[f].writable /\ WriteSeen(f, n, v, p) /\ fds[f].pos + n < WordSize
           /\ UNCHANGED opened
  <2>1. /\ IsFile(p)' /\ BufOf(p)' = fds'[f].buf
        /\ SizeOf(p)' = Larger(fds[f].size, fds[f].pos + n)
        /\ fds'[f].size = SizeOf(p)' /\ fds'[f].pos = fds[f].pos + n
        /\ fds'[f].used = fds[f].used /\ fds'[f].writable = fds[f].writable
        /\ \A g \in Fd : g # f => fds'[g] = fds[g]
        /\ \A q \in Paths : q # p => SameFile(q)
        /\ \A i \in DOMAIN extras' : extras'[i].size < WordSize
    BY <1>2 DEF WriteSeen
  <2>2. Agrees(f)' 
    <3>1. fds[f].used
      BY DEF PoliteInv, Agrees
    <3>. QED  BY <1>2, <2>1, <3>1 DEF Agrees
  <2>3. ASSUME NEW g \in Fd, g # f PROVE Agrees(g)'
    <3>1. Mine(g) => opened[g] \in Paths /\ opened[g] # p
      BY <1>2, <2>3, MinePath DEF PoliteInv, Alone
    <3>. QED  BY <1>2, <2>1, <2>3, <3>1, AgreesKept DEF PoliteInv
  <2>4. Alone'
    <3>1. \A g \in Fd : fds'[g].writable = fds[g].writable
      BY <2>1
    <3>. QED  BY <1>2, <3>1 DEF PoliteInv, Alone, Mine
  <2>5. Words'
    <3>1. Larger(fds[f].size, fds[f].pos + n) < WordSize
      BY <1>2 DEF Larger, PoliteInv, Words
    <3>. QED  BY <1>2, <2>1, <3>1 DEF PoliteInv, Words
  <2>. QED  BY <2>2, <2>3, <2>4, <2>5 DEF PoliteInv
<1>. QED  BY <1>1, <1>2, WriteCases

LEMMA MkdirAgrees ==
  ASSUME PoliteInv, StorageInv', NEW n \in Names, Mkdir(n)
  PROVE  PoliteInv'
<1>1. PICK p \in Paths : p = NormPath(n) /\ StorageInv
  BY NormPathType DEF PoliteInv, StorageInv
<1>. DEFINE e == [path |-> p, isdir |-> TRUE, buf |-> 0, size |-> 0, cap |-> 0]
<1>2. CASE UNCHANGED <<extras, heap, fds, opened>>
  BY <1>2, NothingMovesAgrees
<1>3. CASE /\ ~IsFile(p) /\ ~HasExtra(p) /\ extras' = Append(extras, e)
           /\ UNCHANGED <<heap, fds, opened>>
  <2>1. e.path = p /\ e.isdir /\ e.size = 0
    OBVIOUS
  <2>. HIDE DEF e
  <2>2. \A q \in Paths : q # p => SameFile(q)
    BY <1>1, <1>3, <2>1, EntryAdded DEF SameFile
  <2>3. \A q : IsFile(q) => q # p
    BY <1>3
  <2>4. ASSUME NEW f \in Fd PROVE Agrees(f)'
    <3>1. ASSUME NEW q \in Paths, Mine(f), q = opened[f] PROVE SameFile(q)
      BY <2>2, <2>3 DEF SameFile
    <3>. QED  BY <1>1, <1>3, <3>1, AgreesKept DEF PoliteInv
  <2>5. Alone'
    BY <1>3 DEF PoliteInv, Alone, Mine
  <2>6. Words'
    <3>1. /\ DOMAIN extras' = 1..(Len(extras) + 1) /\ Len(extras) \in Nat
          /\ DOMAIN extras = 1..Len(extras)
          /\ extras'[Len(extras) + 1] = e
          /\ \A i \in DOMAIN extras : extras'[i] = extras[i]
      BY <1>1, <1>3 DEF StorageInv, TypeOK
    <3>2. 0 < WordSize
      BY RamfsAssumption
    <3>3. \A i \in DOMAIN extras' : extras'[i].size < WordSize
      BY <2>1, <3>1, <3>2 DEF PoliteInv, Words
    <3>. QED  BY <1>3, <3>3 DEF PoliteInv, Words
  <2>. QED  BY <2>4, <2>5, <2>6 DEF PoliteInv
<1>. QED  BY <1>1, <1>2, <1>3 DEF Mkdir, Fail

\* The next program has nothing open, whatever the first left in the table.
LEMMA NextProgramAgrees ==
  ASSUME PoliteInv, StorageInv', NEW d \in Dirs, NextProgram(d)
  PROVE  PoliteInv'
<1>1. /\ \A f \in Fd : ~Mine(f)' /\ opened'[f] = NoPath
      /\ UNCHANGED <<extras, heap, fds>>
  BY DEF NextProgram, Mine
<1>. QED  BY <1>1 DEF PoliteInv, Agrees, Alone, Words, Mine

LEMMA InitPolite == Init => PoliteInv
<1>. SUFFICES ASSUME Init PROVE PoliteInv
  OBVIOUS
<1>1. StorageInv
  BY InitStorage
<1>2. \A f \in Fd : ~Mine(f)
  BY DEF Init, Mine
<1>3. Words
  BY RamfsAssumption DEF Init, Words, FreeFd
<1>. QED  BY <1>1, <1>2, <1>3 DEF PoliteInv, Agrees, Alone

LEMMA PoliteIsNext == PoliteNext => Next
BY DEF PoliteNext, Next

LEMMA StepPolite == PoliteInv /\ [PoliteNext]_vars => PoliteInv' /\ StorageInv'
<1>. SUFFICES ASSUME PoliteInv, [PoliteNext]_vars PROVE PoliteInv' /\ StorageInv'
  OBVIOUS
<1>1. StorageInv'
  BY PoliteIsNext, StepStorage DEF PoliteInv
<1>2. ASSUME NEW n \in Names, NEW fl \in Modes, Polite(n, fl), Open(n, fl)
      PROVE  PoliteInv'
  BY <1>1, <1>2, OpenAgrees
<1>3. ASSUME NEW f \in Fd, NEW n \in Counts, Read(f, n) PROVE PoliteInv'
  BY <1>1, <1>3, ReadAgrees
<1>4. ASSUME NEW f \in Fd, NEW n \in Counts, NEW v \in Tags, Mine(f), Write(f, n, v)
      PROVE  PoliteInv'
  BY <1>1, <1>4, WriteAgrees
<1>5. ASSUME NEW f \in Fd, NEW off \in Offsets, NEW w \in {"set", "cur", "end"},
             Seek(f, off, w)
      PROVE  PoliteInv'
  BY <1>1, <1>5, SeekAgrees
<1>6. ASSUME NEW f \in Fd, Mine(f), Close(f) PROVE PoliteInv'
  BY <1>1, <1>6, CloseAgrees
<1>7. ASSUME NEW n \in Names, Mkdir(n) PROVE PoliteInv'
  BY <1>1, <1>7, MkdirAgrees
<1>8. ASSUME NEW d \in Dirs, NextProgram(d) PROVE PoliteInv'
  BY <1>1, <1>8, NextProgramAgrees
<1>9. CASE (\E f \in Fd : FStat(f)) \/ (\E n \in Names : Stat(n)) \/ UNCHANGED vars
  BY <1>1, <1>9, NothingMovesAgrees DEF FStat, Stat, vars
<1>. QED
  BY <1>1, <1>2, <1>3, <1>4, <1>5, <1>6, <1>7, <1>8, <1>9 DEF PoliteNext

\* Every state polite programs reach satisfies the invariant.
THEOREM PoliteAlways == PoliteSpec => []PoliteInv
BY InitPolite, StepPolite, PTL DEF PoliteSpec

\* Between polite programs the copies agree: whatever they open, create,
\* truncate, grow and close, a descriptor has the storage and the size of the
\* file its path names, in every reachable state.
THEOREM AgreeAlways == PoliteSpec => []DescriptorsAgree
<1>1. PoliteInv => DescriptorsAgree
  BY DEF PoliteInv, Agrees, DescriptorsAgree
<1>. QED  BY <1>1, PoliteAlways, PTL

-----------------------------------------------------------------------------
(***************************************************************************)
(* Every call of a polite program is a call of FileStore.                  *)
(***************************************************************************)
LEMMA SeenNow ==
  /\ \A p \in Paths : Contents[p] = Content(p) /\ Contents'[p] = Content(p)'
  /\ \A f \in Fd :
       /\ Descs[f] = IF opened[f] = NoPath THEN NoPath
                     ELSE [path |-> opened[f], pos |-> fds[f].pos,
                           writable |-> fds[f].writable]
       /\ Descs'[f] = IF opened'[f] = NoPath THEN NoPath
                      ELSE [path |-> opened'[f], pos |-> fds'[f].pos,
                            writable |-> fds'[f].writable]
BY DEF Contents, Descs, Fd

LEMMA ContentsChange ==
  ASSUME NEW p \in Paths, \A q \in Paths : q # p => Content(q)' = Content(q)
  PROVE  Contents' = [Contents EXCEPT ![p] = Content(p)']
BY DEF Contents

LEMMA DescsChange ==
  ASSUME NEW f \in Fd,
         \A g \in Fd : g # f => fds'[g] = fds[g] /\ opened'[g] = opened[g]
  PROVE  Descs' = [Descs EXCEPT ![f] = Descs'[f]]
BY DEF Descs, Fd

LEMMA FilesSame ==
  ASSUME UNCHANGED <<extras, heap>>
  PROVE  UNCHANGED <<Contents, CreatedDirs>>
BY Untouched DEF Contents, CreatedDirs

LEMMA DescsSame ==
  ASSUME UNCHANGED <<fds, opened>>
  PROVE  UNCHANGED Descs
BY DEF Descs, Fd

LEMMA Refused ==
  ASSUME NEW call, NEW f, NEW err, Fail(call, f, err)
  PROVE  FS!Refuse(call, f, err)
<1>1. UNCHANGED <<Contents, CreatedDirs, Descs>>
  BY FilesSame, DescsSame DEF Fail
<1>. QED  BY <1>1 DEF Fail, Return, FS!Refuse, FS!Answer

\* The opening of a file that is there, at its old or new contents.
LEMMA FilledImplements ==
  ASSUME PoliteInv, NEW p \in Paths, NEW fl, NEW b, NEW sz \in Nat, NEW cap,
         InstallFd(p, fl, b, sz, cap),
         \A q \in Paths : q # p => Content(q)' = Content(q),
         Content(p)' = FS!Opened(p, fl), Len(FS!Opened(p, fl)) = sz,
         UNCHANGED CreatedDirs, p \notin CreatedDirs,
         Contents[p] # NoFile \/ "CREAT" \in fl
  PROVE  FS!Open(p, fl)
<1>1. TypeOK /\ p # NoPath
  BY StoreAssumption DEF PoliteInv, StorageInv
<1>2. Contents' = [Contents EXCEPT ![p] = FS!Opened(p, fl)]
  BY ContentsChange
<1>3. CASE /\ UNCHANGED <<fds, opened>>
           /\ ret' = [call |-> "open", fd |-> 0, val |-> ENOMEM, data |-> <<>>]
  <2>1. UNCHANGED Descs
    BY <1>3, DescsSame
  <2>2. FS!Answer("open", 0, -12, <<>>)
    BY <1>3 DEF FS!Answer, ENOMEM
  <2>3. ret'.call = "open"
    BY <1>3
  <2>. QED  BY <1>2, <2>1, <2>2, <2>3 DEF FS!Open
<1>4. ASSUME NEW g \in Fd, ~fds[g].used,
             fds' = [fds EXCEPT ![g] = NewFd(fl, b, sz, cap)],
             opened' = [opened EXCEPT ![g] = p],
             ret' = [call |-> "open", fd |-> g, val |-> g, data |-> <<>>]
      PROVE  FS!Open(p, fl)
  <2>1. opened[g] = NoPath
    BY <1>4 DEF PoliteInv, Agrees, Mine
  <2>2. ~FS!IsOpen(g)
    BY <2>1, SeenNow DEF FS!IsOpen
  <2>3. fds'[g] = NewFd(fl, b, sz, cap) /\ opened'[g] = p
        /\ \A h \in Fd : h # g => fds'[h] = fds[h] /\ opened'[h] = opened[h]
    BY <1>1, <1>4 DEF TypeOK
  <2>4. Descs'[g] = [path |-> p, writable |-> fl # {},
                     pos |-> IF "APPEND" \in fl THEN Len(FS!Opened(p, fl)) ELSE 0]
    <3>1. /\ fds'[g].pos = IF "APPEND" \in fl THEN sz ELSE 0
          /\ fds'[g].writable = (fl # {})
      BY <2>3, NewFdFields
    <3>2. Descs'[g] = [path |-> p, pos |-> fds'[g].pos, writable |-> fds'[g].writable]
      BY <1>1, <2>3, SeenNow
    <3>. QED  BY <3>1, <3>2
  <2>5. Descs' = [Descs EXCEPT ![g] = Descs'[g]]
    BY <2>3, DescsChange
  <2>6. Descs' = [Descs EXCEPT ![g] =
                    [path |-> p, writable |-> fl # {},
                     pos |-> IF "APPEND" \in fl THEN Len(FS!Opened(p, fl)) ELSE 0]]
    BY <2>4, <2>5
  <2>7. FS!Answer("open", g, g, <<>>) /\ ret'.call = "open"
    BY <1>4 DEF FS!Answer
  <2>8. g \in FS!Fd
    BY DEF FS!Fd, Fd
  <2>. QED  BY <1>2, <2>2, <2>6, <2>7, <2>8 DEF FS!Open
<1>. QED  BY <1>1, <1>3, <1>4, Installs

LEMMA OpenImplements ==
  ASSUME PoliteInv, StorageInv', NEW n \in Names, NEW fl \in Modes, Open(n, fl),
         NEW p \in Paths, p = NormPath(n)
  PROVE  FS!Open(p, fl)
<1>1. StorageInv
  BY DEF PoliteInv
<1>2. \/ IsDirExtra(p) /\ Fail("open", 0, EINVAL)
      \/ ~HasExtra(p) /\ BlobAt(p) = {} /\ "CREAT" \notin fl /\ Fail("open", 0, ENOENT)
      \/ Fail("open", 0, ENOMEM)
      \/ /\ ~HasExtra(p) /\ IF BlobAt(p) = {} THEN "CREAT" \in fl ELSE "TRUNC" \in fl
         /\ CreateFile(p) /\ InstallFd(p, fl, Len(heap) + 1, 0, ICap)
      \/ OpenTrunc(p, fl)
      \/ OpenExisting(p, fl)
  BY DEF Open, OpenNew
<1>3. Contents[p] = Content(p) /\ (IsFile(p) => Content(p) # NoFile)
  BY <1>1, SeenNow, FileContent
<1>4. CASE IsDirExtra(p) /\ Fail("open", 0, EINVAL)
  BY <1>1, <1>4, Refused DEF FS!Open, CreatedDirs, EINVAL
<1>5. CASE ~HasExtra(p) /\ BlobAt(p) = {} /\ "CREAT" \notin fl /\ Fail("open", 0, ENOENT)
  <2>1. Contents[p] = NoFile
    BY <1>3, <1>5 DEF Content, IsFile
  <2>. QED  BY <1>5, <2>1, Refused DEF FS!Open, ENOENT
<1>6. CASE Fail("open", 0, ENOMEM)
  BY <1>6, Refused DEF FS!Open, ENOMEM
<1>7. CASE /\ ~HasExtra(p) /\ IF BlobAt(p) = {} THEN "CREAT" \in fl ELSE "TRUNC" \in fl
           /\ CreateFile(p) /\ InstallFd(p, fl, Len(heap) + 1, 0, ICap)
  <2>. DEFINE e == [path |-> p, isdir |-> FALSE, buf |-> Len(heap) + 1, size |-> 0, cap |-> ICap]
  <2>1. extras' = Append(extras, e) /\ e.path = p /\ ~e.isdir /\ e.size = 0
    BY <1>7 DEF CreateFile
  <2>. HIDE DEF e
  <2>2. \A q \in Paths : q # p => Content(q)' = Content(q) /\ IsDirExtra(q)' = IsDirExtra(q)
    BY <1>1, <1>7, <2>1, CreateKeeps, EntryAdded
  <2>3. HasExtra(p)' /\ ExtraAt(p)' = e
    BY <1>1, <1>7, <2>1, EntryAdded
  <2>4. IsFile(p)' /\ ~IsDirExtra(p)' /\ SizeOf(p)' = 0 /\ ~IsDirExtra(p)
    BY <1>7, <2>1, <2>3 DEF IsFile, IsDirExtra, SizeOf
  <2>5. Content(p)' = <<>>
    BY <1>1, <2>4, FileContentNext
  <2>6. UNCHANGED CreatedDirs /\ p \notin CreatedDirs
    BY <2>2, <2>4 DEF CreatedDirs
  <2>7. IF BlobAt(p) = {} THEN Contents[p] = NoFile /\ "CREAT" \in fl
        ELSE Contents[p] # NoFile /\ "TRUNC" \in fl
    BY <1>3, <1>7 DEF IsFile, Content
  <2>8. FS!Opened(p, fl) = <<>>
    BY <2>7 DEF FS!Opened
  <2>. QED  BY <1>1, <1>7, <2>2, <2>5, <2>6, <2>7, <2>8, FilledImplements
<1>8. CASE OpenTrunc(p, fl)
  <2>1. /\ HasExtra(p) /\ ~IsDirExtra(p) /\ "TRUNC" \in fl
        /\ Emptied(p) /\ UNCHANGED heap
        /\ InstallFd(p, fl, ExtraAt(p).buf, 0, ExtraAt(p).cap)
    BY <1>8 DEF OpenTrunc, Emptied
  <2>2. /\ SameEntries /\ IsFile(p) /\ IsFile(p)' /\ SizeOf(p)' = 0
        /\ \A q \in Paths : q # p => Content(q)' = Content(q)
    BY <1>1, <2>1, TruncKeeps
  <2>3. Content(p)' = <<>>
    BY <1>1, <2>2, FileContentNext
  <2>4. UNCHANGED CreatedDirs /\ p \notin CreatedDirs
    BY <1>1, <2>1, <2>2, EntriesKept DEF CreatedDirs
  <2>5. FS!Opened(p, fl) = <<>>
    BY <2>1 DEF FS!Opened
  <2>. QED  BY <1>1, <1>3, <2>1, <2>2, <2>3, <2>4, <2>5, FilledImplements
<1>9. CASE OpenExisting(p, fl)
  <2>1. /\ IsFile(p) /\ "TRUNC" \notin fl /\ UNCHANGED <<extras, heap>>
        /\ \E cap : InstallFd(p, fl, BufOf(p), SizeOf(p), cap)
    BY <1>9 DEF OpenExisting
  <2>2. UNCHANGED CreatedDirs /\ \A q : Content(q)' = Content(q)
    BY <2>1, FilesSame, Untouched
  <2>3. p \notin CreatedDirs
    BY <2>1 DEF CreatedDirs, IsFile, IsDirExtra
  <2>4. FS!Opened(p, fl) = Content(p) /\ Len(Content(p)) = SizeOf(p) /\ SizeOf(p) \in Nat
    BY <1>1, <1>3, <2>1, FileContent, FileStorage DEF FS!Opened
  <2>. QED  BY <1>1, <1>3, <2>1, <2>2, <2>3, <2>4, FilledImplements
<1>. QED  BY <1>2, <1>4, <1>5, <1>6, <1>7, <1>8, <1>9

LEMMA SubSeqSame ==
  ASSUME NEW s \in Seq(Byte), NEW c \in Seq(Byte), NEW n \in Nat, n <= Len(s),
         c = [i \in 1..n |-> s[i]], NEW a \in Nat, NEW k \in Nat, k = 0 \/ a + k <= n
  PROVE  SubSeq(s, a + 1, a + k) = SubSeq(c, a + 1, a + k)
<1>1. Len(c) = n
  OBVIOUS
<1>2. CASE k = 0
  BY <1>2
<1>3. CASE a + k <= n
  <2>1. \A i \in 1..k : s[a + i] = c[a + i]
    BY <1>3
  <2>2. SubSeq(s, a + 1, a + k) = [i \in 1..k |-> s[a + i]]
    BY <1>3
  <2>3. SubSeq(c, a + 1, a + k) = [i \in 1..k |-> c[a + i]]
    BY <1>1, <1>3
  <2>. QED  BY <2>1, <2>2, <2>3
<1>. QED  BY <1>2, <1>3

\* What the descriptor of a polite program shows: the file its path names.
LEMMA MineSeen ==
  ASSUME PoliteInv, NEW f \in Fd, Mine(f)
  PROVE  /\ Valid(f) /\ FS!IsOpen(f) /\ f \in FS!Fd
         /\ Descs[f] = [path |-> opened[f], pos |-> fds[f].pos,
                        writable |-> fds[f].writable]
         /\ opened[f] \in Paths /\ IsFile(opened[f])
         /\ FS!File(f) = Content(opened[f])
         /\ FS!File(f) \in Seq(Byte)
         /\ Len(FS!File(f)) = fds[f].size
         /\ FS!File(f) = [i \in 1..fds[f].size |-> heap[fds[f].buf][i]]
<1>1. /\ opened[f] \in Paths /\ opened[f] # NoPath /\ IsFile(opened[f]) /\ fds[f].used
      /\ fds[f].buf = BufOf(opened[f]) /\ fds[f].size = SizeOf(opened[f]) /\ StorageInv
  BY MinePath DEF PoliteInv, Agrees, Mine
<1>2. Descs[f] = [path |-> opened[f], pos |-> fds[f].pos, writable |-> fds[f].writable]
  BY <1>1, SeenNow
<1>3. Descs[f].path = opened[f]
  BY <1>2
<1>4. FS!IsOpen(f)
  <2>1. Descs[f] \in [path: Paths, pos: Nat, writable: BOOLEAN]
    <3>1. fds[f].pos \in Nat /\ fds[f].writable \in BOOLEAN
      BY <1>1, FdEntType DEF FdEnt
    <3>. QED  BY <1>1, <1>2, <3>1
  <2>2. Descs[f] # NoPath
    BY <2>1, StoreAssumption
  <2>. QED  BY <2>2 DEF FS!IsOpen
<1>5. FS!File(f) = Content(opened[f])
  BY <1>1, <1>3, SeenNow DEF FS!File
<1>. QED  BY <1>1, <1>2, <1>4, <1>5, FileContent DEF Valid, FS!Fd, Fd

LEMMA ReadImplements ==
  ASSUME PoliteInv, NEW f \in Fd, Mine(f), NEW n \in Counts, Read(f, n)
  PROVE  FS!Read(f, n)
<1>. DEFINE k == Taken(f, n)
            s == heap[fds[f].buf]
            c == FS!File(f)
            a == fds[f].pos
            d == SubSeq(s, a + 1, a + k)
<1>1. /\ Valid(f) /\ FS!IsOpen(f) /\ StorageInv
      /\ Descs[f] = [path |-> opened[f], pos |-> a, writable |-> fds[f].writable]
      /\ c \in Seq(Byte) /\ Len(c) = fds[f].size
      /\ c = [i \in 1..fds[f].size |-> s[i]]
      /\ opened[f] # NoPath
  BY MineSeen DEF PoliteInv, Mine
<1>2. /\ a \in Nat /\ fds[f].size \in Nat /\ n \in Nat /\ s \in Seq(Byte)
      /\ fds[f].size <= Len(s) /\ fds[f] \in FdEnt
  BY <1>1, DescStorage, FdEntType, RamfsAssumption
<1>3. /\ fds' = [fds EXCEPT ![f].pos = a + k]
      /\ ret' = [call |-> "read", fd |-> f, val |-> k, data |-> d]
      /\ UNCHANGED <<extras, heap, opened>>
  BY <1>1 DEF Read, Return, Taken, Left
<1>4. k \in Nat /\ (k = 0 \/ a + k <= fds[f].size)
  BY <1>2 DEF Taken, Left
<1>. HIDE DEF k, c
<1>5. d = SubSeq(c, a + 1, a + k)
  <2>. HIDE DEF s, a
  <2>. QED  BY <1>1, <1>2, <1>4, SubSeqSame
<1>6. k = LET left == IF a >= Len(c) THEN 0 ELSE Len(c) - a
          IN  IF n > left THEN left ELSE n
  BY <1>1 DEF Taken, Left, k
<1>7. /\ fds'[f].pos = a + k /\ fds'[f].writable = fds[f].writable
      /\ \A g \in Fd : g # f => fds'[g] = fds[g] /\ opened'[g] = opened[g]
      /\ opened'[f] = opened[f]
  BY <1>1, <1>2, <1>3 DEF StorageInv, TypeOK, FdEnt
<1>. HIDE DEF d, a, s
<1>8. Descs'[f] = [path |-> opened[f], pos |-> a + k, writable |-> fds[f].writable]
  BY <1>1, <1>7, SeenNow
<1>9. Descs' = [Descs EXCEPT ![f] = Descs'[f]]
  BY <1>7, DescsChange
<1>10. Descs[f].pos = a /\ Descs' = [Descs EXCEPT ![f].pos = @ + k]
  <2>1. Descs[f].pos = a
    BY <1>1
  <2>2. [Descs[f] EXCEPT !.pos = a + k] = Descs'[f]
    BY <1>1, <1>8
  <2>. QED  BY <1>9, <2>1, <2>2
<1>11. UNCHANGED <<Contents, CreatedDirs>>
  BY <1>3, FilesSame
<1>12. FS!Answer("read", f, k, SubSeq(c, a + 1, a + k)) /\ ret'.call = "read"
  BY <1>3, <1>5 DEF FS!Answer
<1>. QED  BY <1>1, <1>6, <1>10, <1>11, <1>12 DEF FS!Read, c

LEMMA WriteImplements ==
  ASSUME PoliteInv, StorageInv', NEW f \in Fd, Mine(f), NEW n \in Counts, NEW v \in Tags,
         Write(f, n, v), NEW p \in Paths, p = opened[f]
  PROVE  FS!Write(f, n, v)
<1>. DEFINE a == fds[f].pos
<1>1. /\ FS!IsOpen(f) /\ StorageInv
      /\ Descs[f] = [path |-> p, pos |-> a, writable |-> fds[f].writable]
      /\ IsFile(p)
      /\ Len(FS!File(f)) = fds[f].size
      /\ FS!File(f) = Content(p) /\ p # NoPath
  BY MineSeen DEF PoliteInv, Mine
<1>2. Descs[f].path = p /\ Descs[f].pos = a /\ Descs[f].writable = fds[f].writable
  BY <1>1
<1>3. CASE ~fds[f].writable /\ Fail("write", f, EBADF)
  BY <1>1, <1>2, <1>3, Refused DEF FS!Write, EBADF, Fail, Return
<1>4. CASE fds[f].writable /\ Fail("write", f, ENOMEM)
  BY <1>1, <1>2, <1>4, Refused DEF FS!Write, ENOMEM, Fail, Return
<1>5. CASE /\ fds[f].writable /\ WriteSeen(f, n, v, p)
           /\ ret' = [call |-> "write", fd |-> f, val |-> n, data |-> <<>>]
           /\ UNCHANGED opened
  <2>1. /\ IsFile(p)' /\ SizeOf(p)' = Larger(fds[f].size, a + n)
        /\ fds'[f].pos = a + n /\ fds'[f].writable = fds[f].writable
        /\ \A g \in Fd : g # f => fds'[g] = fds[g]
        /\ \A q \in Paths : q # p => Content(q)' = Content(q)
        /\ \A q : IsDirExtra(q)' = IsDirExtra(q)
        /\ \A i \in 1..SizeOf(p)' :
             IF a < i /\ i <= a + n THEN heap'[BufOf(p)'][i] = v
             ELSE i <= SizeOf(p) => heap'[BufOf(p)'][i] = heap[BufOf(p)][i]
    BY <1>5 DEF WriteSeen
  <2>2. /\ a \in Nat /\ n \in Nat /\ fds[f].size \in Nat /\ fds[f].size = SizeOf(p)
    BY FdEntType, RamfsAssumption DEF PoliteInv, Agrees
  <2>3. Content(p) = [i \in 1..SizeOf(p) |-> heap[BufOf(p)][i]]
    BY <1>1, FileContent
  <2>4. /\ Len(Content(p)') = SizeOf(p)'
        /\ Content(p)' = [i \in 1..SizeOf(p)' |-> heap'[BufOf(p)'][i]]
        /\ SizeOf(p)' \in Nat
    BY <1>1, <2>1, FileContentNext
  <2>5. FS!Written(Content(p), Content(p)', a, n, v)
    <3>1. Len(Content(p)') = IF a + n > Len(Content(p)) THEN a + n ELSE Len(Content(p))
      BY <1>1, <2>1, <2>2, <2>4 DEF Larger
    <3>2. DOMAIN Content(p)' = 1..SizeOf(p)'
      BY <2>4
    <3>3. \A i \in DOMAIN Content(p)' :
            IF a < i /\ i <= a + n THEN Content(p)'[i] = v
            ELSE i <= Len(Content(p)) => Content(p)'[i] = Content(p)[i]
      <4>1. ASSUME NEW i \in 1..SizeOf(p)'
            PROVE  IF a < i /\ i <= a + n THEN Content(p)'[i] = v
                   ELSE i <= Len(Content(p)) => Content(p)'[i] = Content(p)[i]
        <5>1. Content(p)'[i] = heap'[BufOf(p)'][i] /\ i \in Nat /\ i >= 1
          BY <2>4
        <5>2. i <= SizeOf(p) => Content(p)[i] = heap[BufOf(p)][i]
          BY <2>2, <2>3, <5>1
        <5>. QED  BY <1>1, <2>1, <2>2, <5>1, <5>2
      <4>. QED  BY <3>2, <4>1
    <3>. QED  BY <3>1, <3>3 DEF FS!Written
  <2>6. FS!Written(FS!File(f), Contents'[Descs[f].path], Descs[f].pos, n, v)
    BY <1>1, <1>2, <2>5, SeenNow
  <2>7. \A q \in Paths \ {Descs[f].path} : Contents'[q] = Contents[q]
    BY <1>2, <2>1, SeenNow
  <2>8. Descs' = [Descs EXCEPT ![f].pos = @ + n]
    <3>1. Descs'[f] = [path |-> p, pos |-> a + n, writable |-> fds[f].writable]
      BY <1>1, <1>5, <2>1, SeenNow
    <3>2. Descs' = [Descs EXCEPT ![f] = Descs'[f]]
      BY <1>5, <2>1, DescsChange
    <3>3. [Descs[f] EXCEPT !.pos = a + n] = Descs'[f]
      BY <1>1, <3>1
    <3>. QED  BY <1>2, <3>2, <3>3
  <2>9. UNCHANGED CreatedDirs
    BY <2>1 DEF CreatedDirs
  <2>10. FS!Answer("write", f, n, <<>>) /\ ret'.call = "write"
    BY <1>5 DEF FS!Answer
  <2>. QED
    BY <1>1, <1>2, <1>5, <2>6, <2>7, <2>8, <2>9, <2>10 DEF FS!Write
<1>. QED  BY <1>3, <1>4, <1>5, WriteCases

LEMMA SeekImplements ==
  ASSUME PoliteInv, NEW f \in Fd, Mine(f), NEW off \in Offsets,
         NEW w \in {"set", "cur", "end"}, Seek(f, off, w)
  PROVE  FS!Seek(f)
<1>. DEFINE np == SeekTo(f, off, w)
<1>1. /\ Valid(f) /\ FS!IsOpen(f) /\ StorageInv
      /\ Descs[f] = [path |-> opened[f], pos |-> fds[f].pos, writable |-> fds[f].writable]
      /\ opened[f] # NoPath
  BY MineSeen DEF PoliteInv, Mine
<1>2. CASE Fail("lseek", f, EINVAL)
  BY <1>1, <1>2, Refused DEF FS!Seek, EINVAL, Fail, Return
<1>3. CASE /\ np >= 0 /\ fds' = [fds EXCEPT ![f].pos = np]
           /\ Return("lseek", f, np, <<>>)
           /\ UNCHANGED <<extras, heap, cwd, opened>>
  <2>1. np \in 0..(WordSize \div 2 - 1)
    <3>1. np \in Int /\ np >= 0 /\ np < WordSize \div 2 /\ WordSize \div 2 \in Int
      BY <1>3, SeekToWord, RamfsAssumption
    <3>. HIDE DEF np
    <3>. QED  BY <3>1
  <2>. HIDE DEF np
  <2>2. fds[f] \in FdEnt
    BY <1>1, FdEntType
  <2>3. /\ fds'[f].pos = np /\ fds'[f].writable = fds[f].writable
        /\ \A g \in Fd : g # f => fds'[g] = fds[g] /\ opened'[g] = opened[g]
        /\ opened'[f] = opened[f]
    BY <1>1, <1>3, <2>2 DEF StorageInv, TypeOK, FdEnt
  <2>4. Descs' = [Descs EXCEPT ![f].pos = np]
    <3>1. Descs'[f] = [path |-> opened[f], pos |-> np, writable |-> fds[f].writable]
      BY <1>1, <2>3, SeenNow
    <3>2. Descs' = [Descs EXCEPT ![f] = Descs'[f]]
      BY <2>3, DescsChange
    <3>3. [Descs[f] EXCEPT !.pos = np] = Descs'[f]
      BY <1>1, <3>1
    <3>. QED  BY <3>2, <3>3
  <2>5. FS!Answer("lseek", f, np, <<>>) /\ ret'.call = "lseek"
    BY <1>3 DEF Return, FS!Answer
  <2>6. UNCHANGED <<Contents, CreatedDirs>>
    BY <1>3, FilesSame
  <2>. QED  BY <1>1, <2>1, <2>4, <2>5, <2>6 DEF FS!Seek
<1>. QED  BY <1>1, <1>2, <1>3, SeekCases

LEMMA CloseImplements ==
  ASSUME PoliteInv, StorageInv', NEW f \in Fd, Mine(f), Close(f)
  PROVE  FS!Close(f)
<1>1. /\ UNCHANGED heap
      /\ fds' = [fds EXCEPT ![f] = FreeFd]
      /\ opened' = [opened EXCEPT ![f] = NoPath]
      /\ ret' = [call |-> "close", fd |-> f, val |-> 0, data |-> <<>>]
      /\ \A q \in Paths : /\ IsFile(q)' = IsFile(q) /\ IsDirExtra(q)' = IsDirExtra(q)
                          /\ SameFile(q)
  BY CloseSame
<1>2. StorageInv
  BY DEF PoliteInv
<1>3. ASSUME NEW q \in Paths PROVE Content(q)' = Content(q)
  BY <1>1, <1>2, ContentKept DEF SameFile
<1>4. UNCHANGED <<Contents, CreatedDirs>>
  BY <1>1, <1>3 DEF Contents, CreatedDirs
<1>5. opened'[f] = NoPath
      /\ \A g \in Fd : g # f => fds'[g] = fds[g] /\ opened'[g] = opened[g]
  BY <1>1, <1>2 DEF StorageInv, TypeOK
<1>6. Descs' = [Descs EXCEPT ![f] = NoPath]
  <2>1. Descs'[f] = NoPath
    BY <1>5, SeenNow
  <2>2. Descs' = [Descs EXCEPT ![f] = Descs'[f]]
    BY <1>5, DescsChange
  <2>. QED  BY <2>1, <2>2
<1>7. FS!Answer("close", f, 0, <<>>)
  BY <1>1 DEF FS!Answer
<1>. QED  BY <1>4, <1>6, <1>7, MineSeen DEF FS!Close

LEMMA FStatImplements ==
  ASSUME PoliteInv, NEW f \in Fd, Mine(f), FStat(f)
  PROVE  FS!FStat(f)
<1>1. Valid(f) /\ FS!IsOpen(f) /\ Len(FS!File(f)) = fds[f].size
  BY MineSeen
<1>2. ret' = [call |-> "fstat", fd |-> f, val |-> Len(FS!File(f)), data |-> <<>>]
  BY <1>1 DEF FStat, Return
<1>3. UNCHANGED <<Contents, CreatedDirs, Descs>>
  BY FilesSame, DescsSame DEF FStat
<1>. QED  BY <1>1, <1>2, <1>3 DEF FS!FStat, FS!Refuse, FS!Answer

LEMMA StatImplements ==
  ASSUME PoliteInv, NEW n \in Names, Stat(n), NEW p \in Paths, p = NormPath(n)
  PROVE  FS!Stat(p)
<1>. DEFINE val == CASE IsFile(p) -> SizeOf(p)
              [] ~IsFile(p) /\ IsDir(p) -> 0
              [] OTHER -> ENOENT
<1>1. StorageInv
  BY DEF PoliteInv
<1>2. ret' = [call |-> "stat", fd |-> 0, val |-> val, data |-> <<>>]
      /\ UNCHANGED <<extras, heap, fds, opened>>
  BY DEF Stat, Return
<1>3. UNCHANGED <<Contents, CreatedDirs, Descs>>
  BY <1>2, FilesSame, DescsSame
<1>4. val = IF Contents[p] # NoFile THEN Len(Contents[p])
            ELSE IF p \in CreatedDirs \cup PackedDirs THEN 0 ELSE -2
  <2>1. CASE IsFile(p)
    BY <1>1, <2>1, SeenNow, FileContent
  <2>2. CASE ~IsFile(p)
    <3>1. Contents[p] = NoFile
      BY <1>1, <2>2, SeenNow, NoContent
    <3>2. IsDir(p) <=> p \in CreatedDirs \cup PackedDirs
      <4>1. CASE HasExtra(p)
        <5>1. IsDirExtra(p) /\ IsDir(p)
          BY <2>2, <4>1 DEF IsFile, IsDir, IsDirExtra
        <5>. QED  BY <1>1, <5>1 DEF CreatedDirs
      <4>2. CASE ~HasExtra(p)
        BY <1>1, <4>2 DEF IsDir, CreatedDirs, PackedDirs, IsDirExtra
      <4>. QED  BY <4>1, <4>2
    <3>. QED  BY <2>2, <3>1, <3>2 DEF ENOENT
  <2>. QED  BY <2>1, <2>2
<1>. HIDE DEF val
<1>. QED  BY <1>2, <1>3, <1>4 DEF FS!Stat, FS!Refuse, FS!Answer

LEMMA MkdirImplements ==
  ASSUME PoliteInv, StorageInv', NEW n \in Names, Mkdir(n),
         NEW p \in Paths, p = NormPath(n)
  PROVE  FS!Mkdir(p)
<1>. DEFINE e == [path |-> p, isdir |-> TRUE, buf |-> 0, size |-> 0, cap |-> 0]
<1>1. StorageInv
  BY DEF PoliteInv
<1>2. \/ IsFile(p) /\ Fail("mkdir", 0, EEXIST)
      \/ IsDirExtra(p) /\ Fail("mkdir", 0, 0)
      \/ ~IsFile(p) /\ Fail("mkdir", 0, ENOMEM)
      \/ /\ ~IsFile(p) /\ ~HasExtra(p) /\ extras' = Append(extras, e)
         /\ Return("mkdir", 0, 0, <<>>)
         /\ UNCHANGED <<heap, fds, opened>>
  BY DEF Mkdir
<1>3. e.path = p /\ e.isdir
  OBVIOUS
<1>. HIDE DEF e
<1>4. Contents[p] # NoFile <=> IsFile(p)
  BY <1>1, SeenNow, FileContent, NoContent
<1>5. CASE IsFile(p) /\ Fail("mkdir", 0, EEXIST)
  BY <1>4, <1>5, Refused DEF FS!Mkdir, EEXIST
<1>6. CASE IsDirExtra(p) /\ Fail("mkdir", 0, 0)
  <2>1. ~IsFile(p) /\ p \in CreatedDirs
    BY <1>1, <1>6 DEF IsFile, IsDirExtra, CreatedDirs
  <2>2. UNCHANGED <<Contents, CreatedDirs, Descs>> /\ FS!Answer("mkdir", 0, 0, <<>>)
    BY <1>6, Refused DEF FS!Refuse
  <2>3. CreatedDirs' = CreatedDirs \cup {p}
    BY <2>1, <2>2
  <2>. QED  BY <1>4, <2>1, <2>2, <2>3 DEF FS!Mkdir
<1>7. CASE ~IsFile(p) /\ Fail("mkdir", 0, ENOMEM)
  BY <1>4, <1>7, Refused DEF FS!Mkdir, ENOMEM
<1>8. CASE /\ ~IsFile(p) /\ ~HasExtra(p) /\ extras' = Append(extras, e)
           /\ Return("mkdir", 0, 0, <<>>)
           /\ UNCHANGED <<heap, fds, opened>>
  <2>1. \A q \in Paths : Content(q)' = Content(q)
    BY <1>1, <1>3, <1>8, MkdirKeeps
  <2>2. \A q \in Paths : q # p => IsDirExtra(q)' = IsDirExtra(q)
    BY <1>1, <1>3, <1>8, EntryAdded
  <2>3. IsDirExtra(p)'
    BY <1>1, <1>3, <1>8, EntryAdded DEF IsDirExtra
  <2>4. CreatedDirs' = CreatedDirs \cup {p}
    BY <1>1, <2>2, <2>3 DEF CreatedDirs
  <2>5. UNCHANGED <<Contents, Descs>>
    BY <1>8, <2>1, DescsSame DEF Contents
  <2>6. FS!Answer("mkdir", 0, 0, <<>>)
    BY <1>8 DEF Return, FS!Answer
  <2>. QED  BY <1>4, <1>8, <2>4, <2>5, <2>6 DEF FS!Mkdir
<1>. QED  BY <1>2, <1>5, <1>6, <1>7, <1>8

LEMMA NextProgramImplements ==
  ASSUME NEW d \in Dirs, NextProgram(d)
  PROVE  FS!NextProgram
<1>1. UNCHANGED <<Contents, CreatedDirs>>
  BY FilesSame DEF NextProgram
<1>2. Descs' = [f \in FS!Fd |-> NoPath]
  BY DEF NextProgram, Descs, FS!Fd, Fd
<1>3. FS!Answer("run", 0, 0, <<>>)
  BY DEF NextProgram, Return, FS!Answer
<1>. QED  BY <1>1, <1>2, <1>3 DEF FS!NextProgram

LEMMA InitImplementsStore == Init => FS!Init
<1>. SUFFICES ASSUME Init PROVE FS!Init
  OBVIOUS
<1>1. \A p : ~HasExtra(p)
  BY DEF Init, HasExtra, EntriesAt
<1>2. CreatedDirs = {}
  BY <1>1 DEF CreatedDirs, IsDirExtra
<1>3. Descs = [f \in FS!Fd |-> NoPath]
  BY DEF Init, Descs, FS!Fd, Fd
<1>4. ASSUME NEW p \in Paths
      PROVE  Content(p) = IF BlobAt(p) = {} THEN NoFile ELSE BlobData[FirstOf(BlobAt(p))]
  <2>1. CASE BlobAt(p) = {}
    BY <1>1, <2>1 DEF Content, IsFile
  <2>2. CASE BlobAt(p) # {}
    <3>. DEFINE i == FirstOf(BlobAt(p))
    <3>1. i \in DOMAIN BlobData /\ BlobData \in Seq(Seq(Byte))
      BY <2>2, InitStorage, BlobFound, RamfsAssumption
    <3>2. Content(p) = SubSeq(BlobData[i], 1, Len(BlobData[i]))
      BY <1>1, <2>2 DEF Content, IsFile, BufOf, SizeOf, Init
    <3>. HIDE DEF i
    <3>3. BlobData[i] \in Seq(Byte)
      BY <3>1
    <3>4. SubSeq(BlobData[i], 1, Len(BlobData[i])) = BlobData[i]
      BY <3>3
    <3>. QED  BY <2>2, <3>2, <3>4 DEF i
  <2>. QED  BY <2>1, <2>2
<1>5. Contents = Packed
  BY <1>4 DEF Contents, Packed
<1>. QED  BY <1>2, <1>3, <1>5 DEF Init, FS!Init

LEMMA StepImplementsStore ==
  PoliteInv /\ StorageInv' /\ [PoliteNext]_vars => [FS!Next]_(FS!vars)
<1>. SUFFICES ASSUME PoliteInv, StorageInv', [PoliteNext]_vars
              PROVE  [FS!Next]_(FS!vars)
  OBVIOUS
<1>1. ASSUME NEW n \in Names PROVE \E p \in Paths : p = NormPath(n)
  BY NormPathType DEF PoliteInv, StorageInv
<1>2. ASSUME NEW n \in Names, NEW fl \in Modes, Open(n, fl) PROVE FS!Next
  <2>1. PICK p \in Paths : p = NormPath(n)
    BY <1>1
  <2>2. FS!Open(p, fl)
    BY <1>2, <2>1, OpenImplements
  <2>. QED  BY <2>2 DEF FS!Next
<1>3. ASSUME NEW n \in Names, Stat(n) \/ Mkdir(n) PROVE FS!Next
  <2>1. PICK p \in Paths : p = NormPath(n)
    BY <1>1
  <2>2. FS!Stat(p) \/ FS!Mkdir(p)
    BY <1>3, <2>1, StatImplements, MkdirImplements
  <2>. QED  BY <2>2 DEF FS!Next
<1>4. ASSUME NEW f \in Fd, NEW n \in Counts, Mine(f), Read(f, n) PROVE FS!Next
  BY <1>4, ReadImplements, MineSeen DEF FS!Next
<1>5. ASSUME NEW f \in Fd, NEW n \in Counts, NEW v \in Tags, Mine(f), Write(f, n, v)
      PROVE  FS!Next
  BY <1>5, WriteImplements, MineSeen DEF FS!Next
<1>6. ASSUME NEW f \in Fd, NEW off \in Offsets, NEW w \in {"set", "cur", "end"},
             Mine(f), Seek(f, off, w)
      PROVE  FS!Next
  BY <1>6, SeekImplements, MineSeen DEF FS!Next
<1>7. ASSUME NEW f \in Fd, Mine(f), Close(f) \/ FStat(f) PROVE FS!Next
  BY <1>7, CloseImplements, FStatImplements, MineSeen DEF FS!Next
<1>8. ASSUME NEW d \in Dirs, NextProgram(d) PROVE FS!Next
  BY <1>8, NextProgramImplements DEF FS!Next
<1>9. CASE UNCHANGED vars
  <2>1. UNCHANGED <<Contents, CreatedDirs, Descs, ret>>
    BY <1>9, FilesSame, DescsSame DEF vars
  <2>. QED  BY <2>1 DEF FS!vars
<1>. QED
  BY <1>2, <1>3, <1>4, <1>5, <1>6, <1>7, <1>8, <1>9 DEF PoliteNext

\* Programs that share no file they write see named byte sequences: through
\* any number of descriptors, created, truncated, grown and closed, a name has
\* the bytes last written to it, and a descriptor is a position in a name.
THEOREM StoreImplements == PoliteSpec => ImplementsFileStore
<1>. USE DEF ImplementsFileStore, FS!Spec
<1>1. PoliteInv /\ [PoliteNext]_vars => [FS!Next]_(FS!vars)
  BY StepPolite, StepImplementsStore
<1>. QED  BY <1>1, InitImplementsStore, PoliteAlways, PTL DEF PoliteSpec
=============================================================================
