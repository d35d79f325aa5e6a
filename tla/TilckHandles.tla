---------------------------- MODULE TilckHandles ----------------------------
(***************************************************************************)
(* Descriptors of the Tilck kernel (override/kernel/fs/fs_syscalls.c,      *)
(* vfs/vfs.c, fork.c, process.c, execve.c, mm/process_mm_base.c).  Each    *)
(* process has a table of pointers to open file descriptions, which dup,   *)
(* fork and vfork share and h_refs counts.  A file mapping points to the   *)
(* description too, but is not counted: the process's last close of the    *)
(* description removes it.  A vforked child uses its parent's mappings.    *)
(*                                                                         *)
(* A call is one action: a process has one thread, a vforked child's       *)
(* parent is stopped, and only h_refs is shared with others, which change  *)
(* it by atomic operations.  A call that fails changes nothing.            *)
(***************************************************************************)
EXTENDS Integers, FiniteSets

CONSTANTS
  Proc,       \* process slots; also names of address spaces
  Handle,     \* memory for open file descriptions
  MaxHandles, \* KRN_MAX_HANDLES
  Page,       \* the pages of a process's mmap heap
  First,      \* the first process
  None

ASSUME HandlesAssumption ==
  /\ IsFiniteSet(Proc) /\ First \in Proc
  /\ MaxHandles \in Nat
  /\ None \notin Proc \cup Handle

Fd == 0..(MaxHandles - 1)

VARIABLES
  handles,   \* handles[p][i]: what descriptor i of p refers to
  flags,     \* fd_flags: the descriptors of p with FD_CLOEXEC
  refs,      \* h_refs; 0 when the memory is free
  mi,        \* the mappings p uses, by the process they belong to; None: no process
  maps,      \* maps[q][g]: what page g of address space q maps (um->h), for
             \* which process it was mapped (um->pi)
  vparent    \* the parent a vforked child has stopped

vars == <<handles, flags, refs, mi, maps, vparent>>

NoMap   == [h |-> None, pi |-> None]
NoMaps  == [g \in Page |-> NoMap]
Closed  == [i \in Fd |-> None]

\* Wrong: the parent goes on while its vforked child runs.
RunsAnyway(p) == mi[p] # None

Running(p) == mi[p] # None /\ \A c \in Proc : vparent[c] # p
Vforked(p) == vparent[p] # None

FdsOf(p, h) == {i \in Fd : handles[p][i] = h}

\* get_free_handle_num_ge
Free(p, ge) == {i \in Fd : i >= ge /\ handles[p][i] = None}
Lowest(i, S) == i \in S /\ \A j \in S : i <= j

-----------------------------------------------------------------------------
\* remove_all_mappings_of_handle
Unmap(ms, h) == [g \in Page |-> IF ms[g].h = h THEN NoMap ELSE ms[g]]

\* Wrong: the mappings are counted after the slot is cleared.
CountsAfter(p, h) ==
  IF ~Vforked(p) /\ Cardinality(FdsOf(p, h)) <= 0
  THEN [maps EXCEPT ![mi[p]] = Unmap(@, h)]
  ELSE maps

\* vfs_close of one descriptor, before it is cleared: the mappings go with the
\* process's last one, but a vforked child must not touch its parent's.
MapsAfterClose(p, h) ==
  IF ~Vforked(p) /\ Cardinality(FdsOf(p, h)) <= 1
  THEN [maps EXCEPT ![mi[p]] = Unmap(@, h)]
  ELSE maps

\* sys_close.  The slot's FD_CLOEXEC stays until the slot is used again.
Close(p, i) ==
  /\ Running(p) /\ handles[p][i] # None
  /\ maps' = MapsAfterClose(p, handles[p][i])
  /\ refs' = [refs EXCEPT ![handles[p][i]] = @ - 1]
  /\ handles' = [handles EXCEPT ![p][i] = None]
  /\ UNCHANGED <<flags, mi, vparent>>

\* Wrong: the flag of what the slot had before stays.
StaleFlag(p, i, cloexec) ==
  [flags EXCEPT ![p] = IF cloexec THEN @ \cup {i} ELSE @]

WithFlag(p, i, cloexec) ==
  [flags EXCEPT ![p] = IF cloexec THEN @ \cup {i} ELSE @ \ {i}]

\* sys_open
Open(p, h, cloexec) ==
  /\ Running(p) /\ refs[h] = 0
  /\ \E i \in Fd :
       /\ Lowest(i, Free(p, 0))
       /\ handles' = [handles EXCEPT ![p][i] = h]
       /\ flags' = WithFlag(p, i, cloexec)
  /\ refs' = [refs EXCEPT ![h] = 1]
  /\ UNCHANGED <<mi, maps, vparent>>

\* sys_pipe2: two descriptions in the two lowest free slots.
Pipe2(p, r, w, cloexec) ==
  /\ Running(p) /\ r # w /\ refs[r] = 0 /\ refs[w] = 0
  /\ \E i, j \in Fd :
       /\ Lowest(i, Free(p, 0)) /\ Lowest(j, Free(p, i + 1))
       /\ handles' = [handles EXCEPT ![p][i] = r, ![p][j] = w]
       /\ flags' = [flags EXCEPT ![p] = IF cloexec THEN @ \cup {i, j} ELSE @ \ {i, j}]
  /\ refs' = [refs EXCEPT ![r] = 1, ![w] = 1]
  /\ UNCHANGED <<mi, maps, vparent>>

\* Wrong: what newfd had is not closed.
Dup2Leaks(p, i, j, cloexec) ==
  LET old == handles[p][i]
  IN /\ Running(p) /\ i # j /\ old # None
     /\ refs' = [refs EXCEPT ![old] = @ + 1]
     /\ handles' = [handles EXCEPT ![p][j] = old]
     /\ flags' = WithFlag(p, j, cloexec)
     /\ UNCHANGED <<mi, maps, vparent>>

\* sys_dup2: what newfd had is closed first.
Dup2(p, i, j, cloexec) ==
  LET old == handles[p][i]
      new == handles[p][j]
  IN /\ Running(p) /\ i # j /\ old # None
     /\ maps' = IF new = None THEN maps ELSE MapsAfterClose(p, new)
     /\ refs' = [h \in Handle |-> refs[h] - (IF h = new THEN 1 ELSE 0)
                                          + (IF h = old THEN 1 ELSE 0)]
     /\ handles' = [handles EXCEPT ![p][j] = old]
     /\ flags' = WithFlag(p, j, cloexec)
     /\ UNCHANGED <<mi, vparent>>

\* sys_dup, F_DUPFD and F_DUPFD_CLOEXEC
DupFd(p, i, ge, cloexec) ==
  \E j \in Fd : Lowest(j, Free(p, ge)) /\ Dup2(p, i, j, cloexec)

\* F_SETFD
SetFd(p, i, cloexec) ==
  /\ Running(p) /\ handles[p][i] # None
  /\ flags' = WithFlag(p, i, cloexec)
  /\ UNCHANGED <<handles, refs, mi, maps, vparent>>

\* sys_mmap_pgoff of a file, and sys_munmap of any pages: both on the mappings
\* that the process uses.  (What munmap_one leaves behind a hole becomes the
\* caller's; that is somebody else's only when a vforked child unmaps.)
Mmap(p, i, G) ==
  /\ Running(p) /\ handles[p][i] # None
  /\ \A g \in G : maps[mi[p]][g] = NoMap
  /\ maps' = [maps EXCEPT ![mi[p]] = [g \in Page |->
       IF g \in G THEN [h |-> handles[p][i], pi |-> p] ELSE @[g]]]
  /\ UNCHANGED <<handles, flags, refs, mi, vparent>>

Munmap(p, G) ==
  /\ Running(p)
  /\ maps' = [maps EXCEPT ![mi[p]] = [g \in Page |-> IF g \in G THEN NoMap ELSE @[g]]]
  /\ UNCHANGED <<handles, flags, refs, mi, vparent>>

-----------------------------------------------------------------------------
\* Wrong: the child's descriptors are not counted.
InheritUncounted(p, c) ==
  /\ Running(p) /\ mi[c] = None
  /\ handles' = [handles EXCEPT ![c] = handles[p]]
  /\ flags' = [flags EXCEPT ![c] = flags[p]]
  /\ UNCHANGED refs

\* fork_dup_all_handles, and the copy of fd_flags with the process.
Inherit(p, c) ==
  /\ Running(p) /\ mi[c] = None
  /\ handles' = [handles EXCEPT ![c] = handles[p]]
  /\ flags' = [flags EXCEPT ![c] = flags[p]]
  /\ refs' = [h \in Handle |-> refs[h] + Cardinality(FdsOf(p, h))]

\* duplicate_mappings_info: the copies belong to the child.
Copies(ms, c) ==
  [g \in Page |-> IF ms[g] = NoMap THEN NoMap ELSE [ms[g] EXCEPT !.pi = c]]

Fork(p, c) ==
  /\ Inherit(p, c)
  /\ mi' = [mi EXCEPT ![c] = c]
  /\ maps' = [maps EXCEPT ![c] = Copies(maps[mi[p]], c)]
  /\ UNCHANGED vparent

Vfork(p, c) ==
  /\ Inherit(p, c)
  /\ mi' = [mi EXCEPT ![c] = mi[p]]
  /\ vparent' = [vparent EXCEPT ![c] = p]
  /\ UNCHANGED maps

\* setup_process, close_cloexec_handles and execve_final_steps: fresh mappings
\* (a vforked child leaves its parent's alone), the close-on-exec descriptors
\* closed one after the other, and the parent of a vforked child set free.
ToClose(p) == {i \in flags[p] : handles[p][i] # None}

Exec(p) ==
  /\ Running(p)
  /\ maps' = [maps EXCEPT ![p] = NoMaps]
  /\ mi' = [mi EXCEPT ![p] = p]
  /\ refs' = [h \in Handle |-> refs[h] - Cardinality(FdsOf(p, h) \cap ToClose(p))]
  /\ handles' = [handles EXCEPT ![p] =
                   [i \in Fd |-> IF i \in ToClose(p) THEN None ELSE @[i]]]
  /\ flags' = [flags EXCEPT ![p] = @ \ ToClose(p)]
  /\ vparent' = [vparent EXCEPT ![p] = None]

\* The end of a process: every descriptor is closed, and its own mappings go.
Exit(p) ==
  /\ Running(p)
  /\ refs' = [h \in Handle |-> refs[h] - Cardinality(FdsOf(p, h))]
  /\ handles' = [handles EXCEPT ![p] = Closed]
  /\ flags' = [flags EXCEPT ![p] = {}]
  /\ maps' = [maps EXCEPT ![p] = NoMaps]
  /\ mi' = [mi EXCEPT ![p] = None]
  /\ vparent' = [vparent EXCEPT ![p] = None]

-----------------------------------------------------------------------------
Init ==
  /\ handles = [p \in Proc |-> Closed]
  /\ flags = [p \in Proc |-> {}]
  /\ refs = [h \in Handle |-> 0]
  /\ mi = [p \in Proc |-> IF p = First THEN First ELSE None]
  /\ maps = [p \in Proc |-> NoMaps]
  /\ vparent = [p \in Proc |-> None]

Files(p, cloexec) ==
  \/ \E h \in Handle : Open(p, h, cloexec)
  \/ \E r, w \in Handle : Pipe2(p, r, w, cloexec)
  \/ \E i, ge \in Fd : DupFd(p, i, ge, cloexec)
  \/ \E i \in Fd : SetFd(p, i, cloexec)
Tables(p) ==
  \/ \E cloexec \in BOOLEAN : Files(p, cloexec)
  \/ \E i, j \in Fd : Dup2(p, i, j, FALSE)
  \/ \E i \in Fd : Close(p, i)
  \/ Exec(p) \/ Exit(p)
Spaces(p) ==
  \/ \E G \in SUBSET Page \ {{}} : Munmap(p, G) \/ \E i \in Fd : Mmap(p, i, G)
  \/ \E c \in Proc : Fork(p, c) \/ Vfork(p, c)

Next == \E p \in Proc : Tables(p) \/ Spaces(p)
Spec == Init /\ [][Next]_vars

\* vfork as it is meant: the child opens, closes, duplicates, executes or ends.
\* What it maps would stay in its parent's list, where no close removes it.
VforkNext == \E p \in Proc : Tables(p) \/ (~Vforked(p) /\ Spaces(p))
VforkSpec == Init /\ [][VforkNext]_vars

-----------------------------------------------------------------------------
TypeOK ==
  /\ handles \in [Proc -> [Fd -> Handle \cup {None}]]
  /\ flags \in [Proc -> SUBSET Fd]
  /\ refs \in [Handle -> Nat]
  /\ mi \in [Proc -> Proc \cup {None}]
  /\ maps \in [Proc -> [Page -> [h: Handle \cup {None}, pi: Proc \cup {None}]]]
  /\ vparent \in [Proc -> Proc \cup {None}]

\* The count of a description is the number of descriptors that refer to it, in
\* all processes: one less, and a description in use would be freed; one more,
\* and a pipe would never see its other end closed.
Users(h) == {u \in Proc \X Fd : handles[u[1]][u[2]] = h}
RefsCountUsers == \A h \in Handle : refs[h] = Cardinality(Users(h))

\* A mapping never outlives its description, which is not counted for it:
\* what a process has mapped it also has open, or a page of it would be written
\* to freed memory.  And generic_fs_munmap, which unmaps from um->pi, unmaps
\* where the page is.
MappingsHeld == \A p \in Proc, g \in Page : maps[p][g] # NoMap =>
  /\ mi[p] = p /\ maps[p][g].pi = p
  /\ FdsOf(p, maps[p][g].h) # {}

\* Nobody runs on mappings whose owner has ended or replaced them: only a
\* vforked child uses another process's, and that process keeps them.
SpacesOwned == \A p \in Proc : mi[p] # None =>
  /\ mi[mi[p]] = mi[p]
  /\ mi[p] = p <=> ~Vforked(p)

FT == INSTANCE FdTables WITH
  File    <- Handle,
  table   <- handles,
  cloexec <- [p \in Proc |-> ToClose(p)],
  alive   <- {p \in Proc : mi[p] # None}

\* h_refs alone tells that a description may be freed, and the flags in an array
\* of their own, which survive a close, are those of what the slot holds.
ImplementsFdTables == FT!Spec
=============================================================================
