---------------------------- MODULE TilckPaging ----------------------------
(***************************************************************************)
(* Pages of user memory in the Tilck kernel on RISC-V                      *)
(* (override/kernel/arch/riscv/paging.c, paging_generic.c and .h, fork.c,  *)
(* mm/process_mm.c, elf.c, fs/ramfs/rw_ops.c.h).  Page frames have a count *)
(* of the entries that map them.  fork shares them, read-only, and the     *)
(* first store to a shared one makes a copy; fresh memory is the one       *)
(* zero page, shared the same way.                                         *)
(*                                                                         *)
(* A handler runs with preemption disabled and is one action.  The TLB is  *)
(* modelled, since pdir_clone takes rights away and invalidates nothing.   *)
(* The pages of Page lie in page tables of their own, in address order.    *)
(* A file has at most one block (ramfs_new_block, ramfs_destroy_block and  *)
(* the mmap of ramfs are not in the repository: a block holds one count of *)
(* its frame, and its pages are mapped PAGE_SHARED).                       *)
(***************************************************************************)
EXTENDS Integers, FiniteSets

CONSTANTS
  Proc,      \* process slots, each with a pdir
  First,     \* the first process
  Page,      \* the pages of the user's address space
  Frame,     \* the page frames kmalloc gives out
  Zero,      \* zero_page, in the kernel's image
  Val,       \* what a page may contain
  Blank,     \* all zeros
  None

ASSUME PagingAssumption ==
  /\ IsFiniteSet(Proc) /\ First \in Proc
  /\ IsFiniteSet(Page) /\ Page \subseteq Nat
  /\ Zero \notin Frame /\ None \notin Frame \cup {Zero} \cup Proc
  /\ Blank \in Val

VARIABLES
  pt,        \* pt[p][v]: the entry of page v in p's page tables
  ref,       \* pageframes_refcount
  data,      \* the contents of the frames
  taken,     \* the frames kmalloc has given out
  block,     \* the file's block, or None
  cur,       \* the running process (get_curr_pdir)
  tlb,       \* the entries of cur that the hart has cached
  alive

vars == <<pt, ref, data, taken, block, cur, tlb, alive>>

AnyFrame == Frame \cup {Zero}

\* A page-table entry: f is None if not present; cow is PAGE_COW_ORIG_RW.
NoPte == [f |-> None, wr |-> FALSE, cow |-> FALSE, sh |-> FALSE]
Pte(f, wr, cow, sh) == [f |-> f, wr |-> wr, cow |-> cow, sh |-> sh]
NoPtes == [v \in Page |-> NoPte]

\* How many entries of the table ptes map frame f.
Maps(ptes, f) == Cardinality({v \in Page : ptes[v].f = f})

Flush == tlb' = NoPtes
Invalidate(v) == tlb' = [tlb EXCEPT ![v] = NoPte]

\* The counts after the entries of one table are gone (__pf_ref_count_dec),
\* and the frames that kfree2 leaves then.
Without(ptes) == [f \in AnyFrame |-> ref[f] - Maps(ptes, f)]
Kept(counts) == {f \in taken : counts[f] # 0}

\* map_page_int
Map(v, e) ==
  /\ pt[cur][v] = NoPte
  /\ pt' = [pt EXCEPT ![cur][v] = e]
  /\ ref' = [ref EXCEPT ![e.f] = @ + 1]
  /\ Invalidate(v)

-----------------------------------------------------------------------------
\* map_zero_page: a page of an anonymous mmap or of the stack.
MapZero(v) ==
  /\ Map(v, Pte(Zero, FALSE, TRUE, FALSE))
  /\ UNCHANGED <<data, taken, block, cur, alive>>

\* Wrong: the page holds what kmalloc gave (Tilck before the override).
AsItWas(f) == data

\* The bzero of brk_syscall_int.
Zeroed(f) == [data EXCEPT ![f] = Blank]

\* brk_syscall_int, for one page of the growth.
Brk(v, f) ==
  /\ f \notin taken /\ taken' = taken \cup {f}
  /\ data' = Zeroed(f)
  /\ Map(v, Pte(f, TRUE, FALSE, FALSE))
  /\ UNCHANGED <<block, cur, alive>>

\* map_page of the file's block with PAGING_FL_SHARED.
MapFile(v, rw) ==
  /\ block # None
  /\ Map(v, Pte(block, rw, FALSE, TRUE))
  /\ UNCHANGED <<data, taken, block, cur, alive>>

\* __unmap_page: a private page frees its frame with the last entry, a page of
\* a file does not (generic_fs_munmap).
Unmap(v) ==
  LET e == pt[cur][v]
  IN /\ e # NoPte
     /\ pt' = [pt EXCEPT ![cur][v] = NoPte]
     /\ ref' = [ref EXCEPT ![e.f] = @ - 1]
     /\ taken' = IF e.sh THEN taken ELSE Kept(ref')
     /\ Invalidate(v)
     /\ UNCHANGED <<data, block, cur, alive>>

-----------------------------------------------------------------------------
\* The entry the hart uses for page v: a cached one, even if it is stale.
Entry(v) == IF tlb[v] # NoPte THEN tlb[v] ELSE pt[cur][v]

\* A store that the entry allows; the hart may cache the entry.
Store(v, x) ==
  /\ Entry(v).wr
  /\ data' = [data EXCEPT ![Entry(v).f] = x]
  /\ tlb' \in {tlb, [tlb EXCEPT ![v] = Entry(v)]}
  /\ UNCHANGED <<pt, ref, taken, block, cur, alive>>

\* A load caches the entry too.
Load(v) ==
  /\ tlb[v] = NoPte
  /\ tlb' = [tlb EXCEPT ![v] = pt[cur][v]]
  /\ UNCHANGED <<pt, ref, data, taken, block, cur, alive>>

\* Wrong: the last but one entry keeps the frame as well.
AlmostAlone(f) == ref[f] <= 2

\* handle_potential_cow's test that nobody else maps the frame any more.
Alone(f) == ref[f] = 1

\* A store faults on an entry that fork or map_zero_page made read-only.
CowFault(v) == Entry(v) # NoPte /\ ~Entry(v).wr /\ pt[cur][v].cow
Resolved(f) == Pte(f, TRUE, FALSE, FALSE)

CowInPlace(v) ==
  LET e == pt[cur][v]
  IN /\ CowFault(v) /\ Alone(e.f)
     /\ pt' = [pt EXCEPT ![cur][v] = Resolved(e.f)]
     /\ Invalidate(v)
     /\ UNCHANGED <<ref, data, taken, block, cur, alive>>

\* Wrong: the old frame keeps its count.
OldKept(old, new) == [ref EXCEPT ![new] = @ + 1]

\* The counts after a copy.
Moved(old, new) == [ref EXCEPT ![new] = @ + 1, ![old] = @ - 1]

\* handle_potential_cow of a shared frame.  (Without a free frame the process
\* is killed: Exit.)
CowCopy(v, f) ==
  LET e == pt[cur][v]
  IN /\ CowFault(v) /\ ~Alone(e.f)
     /\ f \notin taken /\ taken' = taken \cup {f}
     /\ data' = [data EXCEPT ![f] = data[Entry(v).f]]
     /\ ref' = Moved(e.f, f)
     /\ pt' = [pt EXCEPT ![cur][v] = Resolved(f)]
     /\ Invalidate(v)
     /\ UNCHANGED <<block, cur, alive>>

-----------------------------------------------------------------------------
\* Wrong: entries that were writable stay so.
MarkedOnly(e) == IF e = NoPte \/ e.sh THEN e ELSE [e EXCEPT !.cow = @ \/ e.wr]

\* pdir_clone_int of one entry.
Marked(e) ==
  IF e = NoPte \/ e.sh THEN e ELSE [e EXCEPT !.wr = FALSE, !.cow = @ \/ e.wr]
MarkedAll(ptes) == [v \in Page |-> Marked(ptes[v])]

\* pdir_clone of the running process.
CloneInto(c) ==
  /\ c \notin alive /\ alive' = alive \cup {c}
  /\ pt' = [pt EXCEPT ![cur] = MarkedAll(pt[cur]), ![c] = MarkedAll(pt[cur])]
  /\ ref' = [f \in AnyFrame |-> ref[f] + Maps(pt[cur], f)]
  /\ UNCHANGED <<data, taken, block, cur>>

\* Wrong: the parent's cached entries stay.
ForkUnflushed(c) == CloneInto(c) /\ UNCHANGED tlb

\* do_fork: the clone, and set_curr_pdir, which flushes.
Fork(c) == CloneInto(c) /\ Flush

\* ... when there is no memory for the process after the clone: pdir_destroy
\* gives the counts back, the parent's entries stay marked, nothing is flushed.
ForkFails ==
  /\ pt' = [pt EXCEPT ![cur] = MarkedAll(pt[cur])]
  /\ UNCHANGED <<ref, data, taken, block, cur, tlb, alive>>

\* ... when there is no memory for a page table of the clone, from page k on:
\* the entries of new_pdir still lead to the parent's own tables there, and
\* pdir_destroy of the clone gives up the parent's frames.  (It also frees the
\* parent's tables, which the model leaves out.)
CloneFails(k) ==
  LET rest == [v \in Page |-> IF v < k THEN NoPte ELSE pt[cur][v]]
  IN /\ pt' = [pt EXCEPT ![cur] = [v \in Page |-> IF v < k THEN Marked(@[v]) ELSE @[v]]]
     /\ ref' = Without(rest)
     /\ taken' = Kept(ref')
     /\ UNCHANGED <<data, block, cur, tlb, alive>>

\* load_elf_program and setup_process: a program of one page that is copied
\* from its file, in a new pdir; the old one is destroyed.
Exec(v, x, rw, f) ==
  LET gone == Without(pt[cur])
  IN /\ f \notin taken /\ taken' = Kept(gone) \cup {f}
     /\ data' = [data EXCEPT ![f] = x]
     /\ ref' = [gone EXCEPT ![f] = @ + 1]
     /\ pt' = [pt EXCEPT ![cur] = [NoPtes EXCEPT ![v] = Pte(f, rw, FALSE, FALSE)]]
     /\ Flush
     /\ UNCHANGED <<block, cur, alive>>

\* The end of a process: pdir_destroy, and another process runs.
Exit(q) ==
  /\ q \in alive /\ q # cur /\ cur' = q
  /\ alive' = alive \ {cur}
  /\ pt' = [pt EXCEPT ![cur] = NoPtes]
  /\ ref' = Without(pt[cur])
  /\ taken' = Kept(ref')
  /\ Flush
  /\ UNCHANGED <<data, block>>

\* The scheduler: set_curr_pdir of another process.
Switch(q) ==
  /\ q \in alive /\ q # cur /\ cur' = q
  /\ Flush
  /\ UNCHANGED <<pt, ref, data, taken, block, alive>>

-----------------------------------------------------------------------------
\* A write call puts a block into the file, or changes the one it has.
WriteFile(x, f) ==
  /\ IF block # None
     THEN f = block /\ UNCHANGED <<ref, taken, block>>
     ELSE /\ f \notin taken /\ taken' = taken \cup {f}
          /\ block' = f
          /\ ref' = [ref EXCEPT ![f] = @ + 1]
  /\ data' = [data EXCEPT ![f] = x]
  /\ UNCHANGED <<pt, cur, tlb, alive>>

\* The entries ramfs_unmap_past_eof_mappings finds, in every process.
FileEntries == {e \in Proc \X Page : pt[e[1]][e[2]].sh}

\* ramfs_inode_truncate to nothing: first the file's pages are unmapped, then
\* its block is freed.
Truncate ==
  /\ block # None /\ block' = None
  /\ pt' = [p \in Proc |-> [v \in Page |->
              IF <<p, v>> \in FileEntries THEN NoPte ELSE pt[p][v]]]
  /\ ref' = [ref EXCEPT ![block] = @ - Cardinality(FileEntries) - 1]
  /\ taken' = taken \ {block}
  /\ tlb' = [v \in Page |->
              IF \E p \in Proc : <<p, v>> \in FileEntries THEN NoPte ELSE tlb[v]]
  /\ UNCHANGED <<data, cur, alive>>

-----------------------------------------------------------------------------
Init ==
  /\ pt = [p \in Proc |-> NoPtes]
  /\ ref = [f \in AnyFrame |-> IF f = Zero THEN 1 ELSE 0]
  /\ data = [f \in AnyFrame |-> Blank]
  /\ taken = {} /\ block = None
  /\ cur = First /\ alive = {First}
  /\ tlb = NoPtes

Memory(v) ==
  \/ MapZero(v) \/ Unmap(v) \/ Load(v) \/ CowInPlace(v)
  \/ \E rw \in BOOLEAN : MapFile(v, rw)
  \/ \E x \in Val : Store(v, x)
  \/ \E f \in Frame : Brk(v, f) \/ CowCopy(v, f)
  \/ \E x \in Val, rw \in BOOLEAN, f \in Frame : Exec(v, x, rw, f)

Next ==
  \/ \E v \in Page : Memory(v)
  \/ \E q \in Proc : Fork(q) \/ Exit(q) \/ Switch(q)
  \/ ForkFails
  \/ \E f \in Frame, x \in Val : WriteFile(x, f)
  \/ Truncate

Spec == Init /\ [][Next]_vars

\* ... where the kernel may run out of memory in the middle of a clone.
OomSpec == Init /\ [][Next \/ \E k \in Page : CloneFails(k)]_vars

-----------------------------------------------------------------------------
PteType == [f : AnyFrame \cup {None}, wr : BOOLEAN, cow : BOOLEAN, sh : BOOLEAN]

\* The types, and what an entry may be: absent, or private and either writable
\* or copy-on-write or read-only, or the file's.
Sane(e) == /\ e.f = None => e = NoPte
           /\ ~(e.wr /\ e.cow) /\ ~(e.sh /\ e.cow)
TypeOK ==
  /\ pt \in [Proc -> [Page -> PteType]]
  /\ ref \in [AnyFrame -> Nat]
  /\ data \in [AnyFrame -> Val]
  /\ taken \subseteq Frame /\ block \in taken \cup {None}
  /\ cur \in alive /\ alive \subseteq Proc
  /\ tlb \in [Page -> PteType]
  /\ \A v \in Page : Sane(tlb[v]) /\ \A p \in Proc : Sane(pt[p][v])

Mappers(f) == {e \in Proc \X Page : pt[e[1]][e[2]].f = f}

\* pageframes_refcount counts the entries of all processes that map a frame,
\* one more for the zero page (init_paging) and for the file's block; a frame
\* is given out by kmalloc exactly while its count is not zero.
RefsCountMappings ==
  /\ \A f \in AnyFrame :
       ref[f] = Cardinality(Mappers(f)) + IF f \in {Zero, block} THEN 1 ELSE 0
  /\ taken = {f \in Frame : ref[f] > 0}

\* A frame that a private entry lets its process write is mapped by that entry
\* only, the zero page is not writable at all and stays blank, and the pages of
\* the file are exactly the shared ones.
WritableAlone ==
  /\ \A p \in Proc, v \in Page :
       LET e == pt[p][v]
       IN /\ e.wr /\ ~e.sh => ref[e.f] = 1 /\ e.f # Zero
          /\ e # NoPte => (e.sh <=> e.f = block)
  /\ data[Zero] = Blank

\* A cached entry may be stale, after a fork that failed, but never such that
\* the hart reads another frame or writes one that somebody else has.
StaleEntriesHarmless ==
  \A v \in Page :
    LET c == tlb[v]
        e == pt[cur][v]
    IN c # NoPte =>
         /\ c.f = e.f /\ c.sh = e.sh
         /\ c.wr => e.wr \/ (e.cow /\ ref[e.f] = 1)

\* What the sanity check of pdir_clone_int asserts: "a mapped page MUST have
\* ref-count > 0" (paging.c:658).
MappedPagesCounted ==
  \A p \in alive, v \in Page : pt[p][v] # NoPte => ref[pt[p][v].f] > 0

\* The promise: memory of its own for every process, pages of a file in common.
Cell(e) ==
  IF e = NoPte THEN [kind |-> "hole", val |-> Blank, rw |-> FALSE]
  ELSE IF e.sh THEN [kind |-> "file", val |-> Blank, rw |-> e.wr]
  ELSE [kind |-> "own", val |-> data[e.f], rw |-> e.wr \/ e.cow]

Mem  == [p \in Proc |-> [v \in Page |-> Cell(pt[p][v])]]
File == IF block = None THEN {} ELSE {data[block]}

AS == INSTANCE AddressSpaces WITH mem <- Mem, file <- File

ImplementsAddressSpaces == AS!Spec
=============================================================================
