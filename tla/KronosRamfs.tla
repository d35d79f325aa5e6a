---------------------------- MODULE KronosRamfs ----------------------------
(***************************************************************************)
(* The file system of Kronos (ramfs.c): a packed read-only image of files  *)
(* (the blob), a table of files and directories created since boot         *)
(* (extras), and one descriptor table (fds) for whatever program runs.     *)
(* A descriptor keeps its own copy of the storage pointer, the size and    *)
(* the capacity of its file; nothing ties it to the entry it came from     *)
(* except the pointer.  Storage comes from kalloc and is never freed.      *)
(*                                                                         *)
(* Paths are sequences of components; a written byte is a tag.             *)
(***************************************************************************)
EXTENDS Integers, Sequences, FiniteSets

CONSTANTS
  Paths,       \* full paths: sequences of components
  Names,       \* what a program passes: [rel: BOOLEAN, comps: a sequence]
  Dirs,        \* working directories kmain starts programs in
  BlobPath,    \* the paths of the packed files, in the order of the blob
  BlobData,    \* their contents
  Byte,        \* byte tags
  Tags,        \* the tags programs write
  Junk,        \* the tag of a byte nobody has written
  Zero,        \* the tag of a zero byte
  LastFd,      \* descriptors are 3..LastFd (31)
  NExtra,      \* KFS_NEXTRA
  ICap,        \* the capacity of a new file (64 KiB)
  GrowMax,     \* the last capacity extra_grow doubles (1 GiB)
  WordSize,    \* 2^64
  Modes,       \* the sets of flags programs open files with
  Counts,      \* byte counts passed to read and write: unsigned words
  Offsets,     \* offsets passed to lseek: signed words
  NoPath, NoFile,
  MaxBufs      \* model bound on the number of kalloc calls

NBlob == Len(BlobPath)

ASSUME RamfsAssumption ==
  /\ BlobPath \in Seq(Paths)
  /\ BlobData \in Seq(Seq(Byte))
  /\ Len(BlobData) = Len(BlobPath)
  /\ Tags \subseteq Byte /\ Junk \in Byte /\ Zero \in Byte
  /\ LastFd \in Nat /\ LastFd >= 3
  /\ NExtra \in Nat
  /\ ICap \in Nat \ {0}
  /\ GrowMax \in Nat
  /\ WordSize \in Nat \ {0}
  /\ Modes \subseteq SUBSET {"WR", "CREAT", "TRUNC", "APPEND"}
  /\ \A n \in Names, d \in Dirs :
       (IF n.rel THEN d \o n.comps ELSE n.comps) \in Paths
  /\ Counts \subseteq 0..(WordSize - 1)
  /\ Offsets \subseteq (-(WordSize \div 2))..(WordSize \div 2 - 1)
  /\ MaxBufs \in Nat

\* What stands for no path and no descriptor, and for no contents, is none of
\* them, and the sizes of the packed files are words.
ASSUME StoreAssumption ==
  /\ NoPath \notin Paths /\ NoFile \notin Seq(Byte)
  /\ NoPath \notin [path: Paths, pos: Nat, writable: BOOLEAN]
  /\ \A i \in DOMAIN BlobData : Len(BlobData[i]) < WordSize

VARIABLES
  extras,   \* files and directories created since boot, in creation order
  heap,     \* heap[b]: the bytes of buffer b; 1..NBlob are the packed files
  fds,      \* the descriptor table
  cwd,      \* working directory of the running program
  opened,   \* history: the path each descriptor of the running program names
  ret       \* history: the last call's result

vars == <<extras, heap, fds, cwd, opened, ret>>

EINVAL == -22
ENOENT == -2
ENOMEM == -12
EBADF  == -9
EEXIST == -17

Fd == 3..LastFd
FreeFd == [buf |-> 0, size |-> 0, cap |-> 0, pos |-> 0,
           used |-> FALSE, writable |-> FALSE]

-----------------------------------------------------------------------------
\* Wrong: every name is taken from the working directory.
AlwaysRelative(n) == cwd \o n.comps
\* norm_path: a relative name is taken from the working directory; "." and
\* ".." inside a name are ordinary components.
NormPath(n) == IF n.rel THEN cwd \o n.comps ELSE n.comps

FirstOf(S) == CHOOSE i \in S : \A j \in S : i <= j

\* extra_find, and the search by storage pointer of write and close.
EntriesAt(p)  == {i \in DOMAIN extras : extras[i].path = p}
EntriesFor(b) == {i \in DOMAIN extras : extras[i].buf = b}
ExtraAt(p)    == extras[FirstOf(EntriesAt(p))]
HasExtra(p)   == EntriesAt(p) # {}
IsDirExtra(p) == HasExtra(p) /\ ExtraAt(p).isdir

\* kfs_get: the extras hide the blob.
BlobAt(p)    == {i \in 1..NBlob : BlobPath[i] = p}
IsFile(p)    == IF HasExtra(p) THEN ~ExtraAt(p).isdir ELSE BlobAt(p) # {}
BufOf(p)     == IF HasExtra(p) THEN ExtraAt(p).buf ELSE FirstOf(BlobAt(p))
SizeOf(p)    == IF HasExtra(p) THEN ExtraAt(p).size
                               ELSE Len(BlobData[FirstOf(BlobAt(p))])
Content(p)   == IF IsFile(p) THEN SubSeq(heap[BufOf(p)], 1, SizeOf(p))
                             ELSE NoFile

\* ramfs_isdir: an entry decides; otherwise a packed file below the path.
\* The prefix test needs p[nlen] = '/', so it never holds of the root.
BlobDir(p) == p # <<>> /\ \E i \in 1..NBlob :
                Len(BlobPath[i]) > Len(p) /\ SubSeq(BlobPath[i], 1, Len(p)) = p
IsDir(p)   == IF HasExtra(p) THEN ExtraAt(p).isdir ELSE BlobDir(p)

FreeFds == {f \in Fd : ~fds[f].used}
Valid(f) == f \in Fd /\ fds[f].used

Wrap(x)   == IF x < WordSize THEN x ELSE x - WordSize
Signed(x) == IF x < WordSize \div 2 THEN x ELSE x - WordSize

Overlay(s, pos, n, v) ==
  [i \in DOMAIN s |-> IF pos < i /\ i <= pos + n THEN v ELSE s[i]]

Return(call, f, val, data) ==
  ret' = [call |-> call, fd |-> f, val |-> val, data |-> data]
Fail(call, f, err) ==
  /\ Return(call, f, err, <<>>)
  /\ UNCHANGED <<extras, heap, fds, cwd, opened>>

-----------------------------------------------------------------------------
\* alloc_fd and the descriptor that ramfs_open fills: a snapshot of the
\* storage, the size and the capacity.  When the table is full the open fails
\* although the file may already have been created or truncated.
InstallFd(p, fl, b, sz, cap) ==
  IF FreeFds = {}
  THEN Return("open", 0, ENOMEM, <<>>) /\ UNCHANGED <<fds, opened>>
  ELSE LET f == FirstOf(FreeFds) IN
       /\ fds' = [fds EXCEPT ![f] =
            [buf |-> b, size |-> sz, cap |-> cap,
             pos |-> IF "APPEND" \in fl THEN sz ELSE 0,
             used |-> TRUE, writable |-> fl # {}]]
       /\ opened' = [opened EXCEPT ![f] = p]
       /\ Return("open", f, f, <<>>)

NewBytes(n) == [i \in 1..n |-> IF i = 1 THEN Zero ELSE Junk]

\* Wrong: the new file gets the storage last handed out.
CreateFileShared(p) ==
  /\ Len(heap) < MaxBufs
  /\ heap' = Append(heap, NewBytes(ICap))
  /\ extras' = Append(extras, [path |-> p, isdir |-> FALSE,
                               buf |-> Len(heap), size |-> 0, cap |-> ICap])

\* extra_create for a file: a fresh buffer whose first byte only is cleared.
CreateFile(p) ==
  /\ Len(heap) < MaxBufs
  /\ heap' = Append(heap, NewBytes(ICap))
  /\ extras' = Append(extras, [path |-> p, isdir |-> FALSE,
                               buf |-> Len(heap) + 1, size |-> 0, cap |-> ICap])

OpenNew(p, fl) ==      \* absent and O_CREAT, or a packed file and O_TRUNC
  /\ ~HasExtra(p)
  /\ IF BlobAt(p) = {} THEN "CREAT" \in fl ELSE "TRUNC" \in fl
  /\ IF Len(extras) >= NExtra
     THEN Fail("open", 0, ENOMEM)
     ELSE /\ CreateFile(p)
          /\ InstallFd(p, fl, Len(heap) + 1, 0, ICap)
          /\ UNCHANGED cwd

\* Wrong: only the descriptor is truncated, not the file.
OpenTruncFd(p, fl) ==
  /\ HasExtra(p) /\ ~IsDirExtra(p) /\ "TRUNC" \in fl
  /\ InstallFd(p, fl, ExtraAt(p).buf, 0, ExtraAt(p).cap)
  /\ UNCHANGED <<extras, heap, cwd>>

OpenTrunc(p, fl) ==
  /\ HasExtra(p) /\ ~IsDirExtra(p) /\ "TRUNC" \in fl
  /\ extras' = [extras EXCEPT ![FirstOf(EntriesAt(p))].size = 0]
  /\ InstallFd(p, fl, ExtraAt(p).buf, 0, ExtraAt(p).cap)
  /\ UNCHANGED <<heap, cwd>>

OpenExisting(p, fl) ==
  /\ IsFile(p) /\ "TRUNC" \notin fl
  /\ InstallFd(p, fl, BufOf(p), SizeOf(p),
               IF HasExtra(p) THEN ExtraAt(p).cap ELSE SizeOf(p))
  /\ UNCHANGED <<extras, heap, cwd>>

\* ramfs_open
Open(n, fl) == LET p == NormPath(n) IN
  \/ IsDirExtra(p) /\ Fail("open", 0, EINVAL)
  \/ ~HasExtra(p) /\ BlobAt(p) = {} /\ "CREAT" \notin fl /\ Fail("open", 0, ENOENT)
  \/ OpenNew(p, fl)
  \/ OpenTrunc(p, fl)
  \/ OpenExisting(p, fl)

\* ramfs_read
Read(f, n) ==
  \/ ~Valid(f) /\ Fail("read", f, EBADF)
  \/ /\ Valid(f)
     /\ LET left == IF fds[f].pos >= fds[f].size THEN 0
                    ELSE fds[f].size - fds[f].pos
            k    == IF n > left THEN left ELSE n
        IN /\ fds' = [fds EXCEPT ![f].pos = @ + k]
           /\ Return("read", f, k,
                     SubSeq(heap[fds[f].buf], fds[f].pos + 1, fds[f].pos + k))
     /\ UNCHANGED <<extras, heap, cwd, opened>>

\* Wrong: no entry takes the size; every entry does.
SyncNothing(es, b, sz) == es
SyncEverything(es, b, sz) == [i \in DOMAIN es |-> [es[i] EXCEPT !.size = sz]]
\* The tail of ramfs_write and ramfs_close: whatever entry uses the
\* descriptor's storage takes the descriptor's size.
SyncSize(es, b, sz) ==
  [i \in DOMAIN es |-> IF es[i].buf = b THEN [es[i] EXCEPT !.size = sz] ELSE es[i]]

Larger(a, b) == IF a > b THEN a ELSE b

\* Wrong: one byte past the capacity is written in place.
WritePastCap(f, n, v) ==
  LET d   == fds[f]
      end == d.pos + n
  IN /\ end <= d.cap + 1
     /\ heap' = [heap EXCEPT ![d.buf] = Overlay(@, d.pos, n, v)]
     /\ fds' = [fds EXCEPT ![f].pos = end, ![f].size = Larger(d.size, end)]
     /\ extras' = SyncSize(extras, d.buf, Larger(d.size, end))

WriteInPlace(f, n, v) ==
  LET d   == fds[f]
      end == d.pos + n
  IN /\ end <= d.cap
     /\ heap' = [heap EXCEPT ![d.buf] = Overlay(@, d.pos, n, v)]
     /\ fds' = [fds EXCEPT ![f].pos = end, ![f].size = Larger(d.size, end)]
     /\ extras' = SyncSize(extras, d.buf, Larger(d.size, end))

\* extra_grow: the capacity doubles until it suffices and fails past GrowMax.
PowersOfTwo == {2^k : k \in 1..30}
Doubled(cap, need) ==
  {c \in 1..(2 * GrowMax) : /\ c % cap = 0 /\ c \div cap \in PowersOfTwo
                            /\ c >= need /\ c \div 2 < need}

\* Growing moves the file to fresh storage: the entry and this descriptor
\* follow, every other descriptor on the file keeps the old storage.
WriteGrowing(f, n, v) ==
  LET d   == fds[f]
      end == d.pos + n
      e   == FirstOf(EntriesFor(d.buf))
      b   == Len(heap) + 1
  IN /\ end > d.cap
     /\ EntriesFor(d.buf) # {}
     /\ Len(heap) < MaxBufs
     /\ \E c \in Doubled(extras[e].cap, end) :
          /\ heap' = Append(heap, Overlay(
               [i \in 1..c |-> IF i <= extras[e].size THEN heap[d.buf][i] ELSE Junk],
               d.pos, n, v))
          /\ fds' = [fds EXCEPT ![f].buf = b, ![f].cap = c, ![f].pos = end,
                                ![f].size = Larger(d.size, end)]
          /\ extras' = [extras EXCEPT ![e].buf = b, ![e].cap = c,
                                      ![e].size = Larger(d.size, end)]

CannotGrow(f, end) ==
  /\ end > fds[f].cap
  /\ \A e \in EntriesFor(fds[f].buf) :
       e = FirstOf(EntriesFor(fds[f].buf)) => Doubled(extras[e].cap, end) = {}

\* ramfs_write, n bytes tagged v
Write(f, n, v) ==
  \/ (~Valid(f) \/ ~fds[f].writable) /\ Fail("write", f, EBADF)
  \/ /\ Valid(f) /\ fds[f].writable
     /\ Wrap(fds[f].pos + n) < fds[f].pos \/ CannotGrow(f, fds[f].pos + n)
     /\ Fail("write", f, ENOMEM)
  \/ /\ Valid(f) /\ fds[f].writable
     /\ Wrap(fds[f].pos + n) >= fds[f].pos
     /\ WriteInPlace(f, n, v) \/ WriteGrowing(f, n, v)
     /\ Return("write", f, n, <<>>)
     /\ UNCHANGED <<cwd, opened>>

\* ramfs_lseek: signed 64-bit addition; any position from 0 up is accepted.
Seek(f, off, whence) ==
  LET base == CASE whence = "set" -> 0
                [] whence = "cur" -> fds[f].pos
                [] whence = "end" -> fds[f].size
      np   == Signed(Wrap(IF base + off < 0 THEN base + off + WordSize ELSE base + off))
  IN \/ ~Valid(f) /\ Fail("lseek", f, EBADF)
     \/ Valid(f) /\ np < 0 /\ Fail("lseek", f, EINVAL)
     \/ /\ Valid(f) /\ np >= 0
        /\ fds' = [fds EXCEPT ![f].pos = np]
        /\ Return("lseek", f, np, <<>>)
        /\ UNCHANGED <<extras, heap, cwd, opened>>

\* ramfs_close
Close(f) ==
  \/ ~Valid(f) /\ Fail("close", f, EBADF)
  \/ /\ Valid(f)
     /\ extras' = SyncSize(extras, fds[f].buf, fds[f].size)
     /\ fds' = [fds EXCEPT ![f] = FreeFd]
     /\ opened' = [opened EXCEPT ![f] = NoPath]
     /\ Return("close", f, 0, <<>>)
     /\ UNCHANGED <<heap, cwd>>

\* newfstatat and faccessat; fstat
Stat(n) == LET p == NormPath(n) IN
  /\ Return("stat", 0, CASE IsFile(p) -> SizeOf(p)
                         [] ~IsFile(p) /\ IsDir(p) -> 0
                         [] OTHER -> ENOENT, <<>>)
  /\ UNCHANGED <<extras, heap, fds, cwd, opened>>

FStat(f) ==
  /\ Return("fstat", f, IF Valid(f) THEN fds[f].size ELSE EBADF, <<>>)
  /\ UNCHANGED <<extras, heap, fds, cwd, opened>>

\* ramfs_mkdir
Mkdir(n) == LET p == NormPath(n) IN
  \/ IsFile(p) /\ Fail("mkdir", 0, EEXIST)
  \/ IsDirExtra(p) /\ Fail("mkdir", 0, 0)
  \/ ~IsFile(p) /\ ~HasExtra(p) /\ Len(extras) >= NExtra /\ Fail("mkdir", 0, ENOMEM)
  \/ /\ ~IsFile(p) /\ ~HasExtra(p) /\ Len(extras) < NExtra
     /\ extras' = Append(extras, [path |-> p, isdir |-> TRUE,
                                  buf |-> 0, size |-> 0, cap |-> 0])
     /\ Return("mkdir", 0, 0, <<>>)
     /\ UNCHANGED <<heap, fds, cwd, opened>>

\* A program exits (sys_exit jumps back into kmain) and run starts the next
\* one in directory d.  Nothing closes the descriptors of the first.
NextProgram(d) ==
  /\ cwd' = d
  /\ opened' = [f \in Fd |-> NoPath]
  /\ Return("run", 0, 0, <<>>)
  /\ UNCHANGED <<extras, heap, fds>>

-----------------------------------------------------------------------------
Init ==
  /\ extras = <<>>
  /\ heap = BlobData
  /\ fds = [f \in Fd |-> FreeFd]
  /\ cwd \in Dirs
  /\ opened = [f \in Fd |-> NoPath]
  /\ ret = [call |-> "run", fd |-> 0, val |-> 0, data |-> <<>>]

Next ==
  \/ \E n \in Names, fl \in Modes : Open(n, fl)
  \/ \E f \in Fd, n \in Counts : Read(f, n)
  \/ \E f \in Fd, n \in Counts, v \in Tags : Write(f, n, v)
  \/ \E f \in Fd, off \in Offsets, w \in {"set", "cur", "end"} : Seek(f, off, w)
  \/ \E f \in Fd : Close(f) \/ FStat(f)
  \/ \E n \in Names : Stat(n) \/ Mkdir(n)
  \/ \E d \in Dirs : NextProgram(d)

Spec == Init /\ [][Next]_vars

-----------------------------------------------------------------------------
FdEnt == [buf: Nat, size: Nat, cap: Nat, pos: Nat, used: BOOLEAN, writable: BOOLEAN]
Extra == [path: Paths, isdir: BOOLEAN, buf: Nat, size: Nat, cap: Nat]

TypeOK ==
  /\ extras \in Seq(Extra)
  /\ heap \in Seq(Seq(Byte))
  /\ fds \in [Fd -> FdEnt]
  /\ opened \in [Fd -> Paths \cup {NoPath}]
  /\ cwd \in Dirs

\* A descriptor's size and capacity never exceed the storage its pointer leads
\* to, and neither do an entry's, whatever other descriptors did to the same
\* file: every memcpy of ramfs_read, ramfs_write and extra_grow stays inside
\* its buffer.
FdInBounds(d) == d.used =>
  /\ d.buf \in DOMAIN heap
  /\ d.cap = Len(heap[d.buf])
  /\ d.size <= d.cap
EntryInBounds(e) == ~e.isdir =>
  /\ e.buf \in DOMAIN heap
  /\ e.cap = Len(heap[e.buf])
  /\ e.size <= e.cap
InBounds ==
  /\ \A f \in Fd : FdInBounds(fds[f])
  /\ \A i \in DOMAIN extras : EntryInBounds(extras[i])

\* Two files never have the same storage and none has a packed file's, so the
\* search by pointer in ramfs_write and ramfs_close finds at most one entry.
OwnStorage ==
  /\ \A i, j \in DOMAIN extras :
       ~extras[i].isdir /\ ~extras[j].isdir /\ extras[i].buf = extras[j].buf => i = j
  /\ \A i \in DOMAIN extras : ~extras[i].isdir => extras[i].buf > NBlob
  /\ \A i, j \in DOMAIN extras : extras[i].path = extras[j].path => i = j

\* Directories have no storage, so no descriptor's pointer leads to one.
DirectoriesBare == \A i \in DOMAIN extras : extras[i].isdir => extras[i].buf = 0

\* The packed files keep their place and length.
BlobInPlace ==
  /\ Len(heap) >= NBlob
  /\ \A i \in 1..NBlob : Len(heap[i]) = Len(BlobData[i])

\* The inductive invariant behind InBounds and OwnStorage.
StorageInv == TypeOK /\ InBounds /\ OwnStorage /\ DirectoriesBare /\ BlobInPlace

\* No call changes the contents of two files.
OneFileAtATime ==
  [][\A p, q \in Paths : Content(p)' # Content(p) /\ Content(q)' # Content(q) => p = q]_vars

-----------------------------------------------------------------------------
(***************************************************************************)
(* How the programs of the ladder use the calls: a file is opened for      *)
(* writing only when the program has it open nowhere else, and a program   *)
(* uses only descriptors it opened itself.                                 *)
(***************************************************************************)
Polite(n, fl) == \A f \in Fd : opened[f] = NormPath(n) =>
                   fl = {} /\ ~fds[f].writable
Mine(f) == opened[f] # NoPath

PoliteNext ==
  \/ \E n \in Names, fl \in Modes : Polite(n, fl) /\ Open(n, fl)
  \/ \E f \in Fd, n \in Counts : Mine(f) /\ Read(f, n)
  \/ \E f \in Fd, n \in Counts, v \in Tags : Mine(f) /\ Write(f, n, v)
  \/ \E f \in Fd, off \in Offsets, w \in {"set", "cur", "end"} : Mine(f) /\ Seek(f, off, w)
  \/ \E f \in Fd : Mine(f) /\ (Close(f) \/ FStat(f))
  \/ \E n \in Names : Stat(n) \/ Mkdir(n)
  \/ \E d \in Dirs : NextProgram(d)

PoliteSpec == Init /\ [][PoliteNext]_vars

\* Between polite programs the copies agree: an open descriptor has the
\* storage and the size of the file its path now names.
DescriptorsAgree ==
  \A f \in Fd : Mine(f) =>
    /\ fds[f].used /\ IsFile(opened[f])
    /\ fds[f].buf = BufOf(opened[f])
    /\ fds[f].size = SizeOf(opened[f])

\* What the store looks like through its names and through the descriptors of
\* the running program.
Contents    == [p \in Paths |-> Content(p)]
CreatedDirs == {p \in Paths : IsDirExtra(p)}
Descs       == [f \in Fd |->
                  IF opened[f] = NoPath THEN NoPath
                  ELSE [path |-> opened[f], pos |-> fds[f].pos,
                        writable |-> fds[f].writable]]
PackedDirs  == {p \in Paths : BlobDir(p)}
Packed      == [p \in Paths |-> IF BlobAt(p) = {} THEN NoFile
                                ELSE BlobData[FirstOf(BlobAt(p))]]

FS == INSTANCE FileStore WITH
  content <- Contents, dirs <- CreatedDirs, desc <- Descs,
  BlobDirs <- PackedDirs, Initial <- Packed, Closed <- NoPath

\* Every program that uses the store politely sees named byte sequences.
ImplementsFileStore == FS!Spec
=============================================================================
