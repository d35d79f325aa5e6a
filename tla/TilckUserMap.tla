--------------------------- MODULE TilckUserMap ---------------------------
(***************************************************************************)
(* The mmap area of a Tilck process: the list of mappings                  *)
(* (mm/process_mm.c, process_mm_base.c), the buddy heap that hands out     *)
(* their addresses (kmalloc/kmalloc.c) and the pages mapped there.  The    *)
(* three are changed one after the other by every call, and munmap may cut *)
(* through what several calls have mapped.                                 *)
(*                                                                         *)
(* A call runs with preemption disabled and is one action.  Addresses are  *)
(* pages from USER_MMAP_BEGIN on.  A node of the heap's tree is the block  *)
(* it stands for; min_block_size and alloc_block_size are one page.        *)
(* kmalloc_heap_dup_expanded and the mmap of a file system are not in the  *)
(* repository.                                                             *)
(***************************************************************************)
EXTENDS Integers, FiniteSets

CONSTANTS
  MinSize,    \* USER_MMAP_MIN_SZ, in pages
  MaxSize,    \* USER_MMAP_MAX_SZ
  Lens,       \* lengths of mmap
  Off,        \* offsets in a file
  File,       \* open files that can be mapped
  Anonymous,  \* stands for the file of a mapping without one
  Nothing,    \* a page that is not mapped
  Failing,    \* pages for which there may be no memory
  Writable,   \* the pages that are written
  MaxMaps     \* bound: mappings at a time

\* No odd number but 1 divides a power of two.
PowerOfTwo(n) == \A d \in 1 .. n : n % d = 0 => d = 1 \/ d % 2 = 0

Page == 0 .. MaxSize - 1
Size == {s \in 1 .. MaxSize : PowerOfTwo(s)}

\* What a page can show: memory that is new or written, or a page of a file.
Content == [of: File \cup {Anonymous}, at: Nat]

ASSUME UserMapAssumption ==
  /\ MaxSize \in Nat /\ MaxSize \in Size /\ MinSize \in Size
  \* freeing the root reads the node before the array (kmalloc.c:114)
  /\ \A l \in Lens : l \in 1 .. MinSize - 1
  /\ Off \subseteq Nat
  /\ Anonymous \notin File
  /\ Nothing \notin Content

\* The block of s pages that page p is in.
Around(p, s) == [at |-> p - (p % s), size |-> s]
Block == {Around(p, s) : p \in Page, s \in Size}

VARIABLES
  area,   \* the heap, the page table of the area
  maps,   \* pi->mi->mappings, those of mmap
  stray,  \* history: pages a call has taken instead of those it answers with
  call    \* history: the last call, with its answer
vars == <<area, maps, stray, call>>

Failure == -1
Answer(name, args, ret) == call' = [name |-> name, args |-> args, ret |-> ret]

Span(at, len) == at .. at + len - 1
Pages(b)  == Span(b.at, b.size)
Leaf(p)   == [at |-> p, size |-> 1]
Leaves(S) == {Leaf(p) : p \in S}

\* The tree: NODE_LEFT and NODE_RIGHT are the halves of a block.
Inside(b, c) == c.at <= b.at /\ b.at + b.size <= c.at + c.size
Under(b)   == {c \in Block : Inside(c, b)}
Above(b)   == {Around(b.at, s) : s \in {s \in Size : s > b.size}}
Sibling(b) == Around(IF b.at % (2 * b.size) = 0 THEN b.at + b.size ELSE b.at - b.size,
                     b.size)

\* The nodes from b up to its ancestor c, without c; those up to top.
Path(b, c)   == {d \in Above(b) \cup {b} : d.size < c.size}
UpTo(b, top) == {d \in Above(b) : d.size <= top.size}

Root(a) == [at |-> 0, size |-> a.size]
Busy(a) == a.full \cup a.split

-----------------------------------------------------------------------------
(* kfree                                                                   *)

\* set_free_uplevels: the ancestors of b that join, now that b is free.
Joined(a, b) ==
  {c \in UpTo(b, Root(a)) :
     /\ \A d \in Path(b, c) : Sibling(d) \notin Busy(a)
     /\ \A d \in (Path(b, c) \cup {c}) \ {b} : d \in Busy(a)}

\* internal_kfree, with internal_kmalloc_coalesce_block
FreeBlock(a, b, allow_split, actual) ==
  LET cut  == IF allow_split /\ b \in a.split THEN Under(b) ELSE {}
      own  == [a EXCEPT !.full = @ \ (cut \cup {b}), !.split = @ \ cut]
      gone == IF actual THEN Pages(b) \cap a.allocated ELSE {}
  IN  [own EXCEPT
         !.full = @ \ (Above(b) \cup Leaves(gone)),
         !.split = @ \ Joined(own, b),
         !.allocated = @ \ gone,
         !.pages = [p \in Page |-> IF p \in gone THEN Nothing ELSE @[p]]]

\* Wrong: sizes from the bits of the length, wherever the range starts
\* (Tilck before the override).
PiecesOfLength(at, len) ==
  {Around(at + (len \div (2 * s)) * 2 * s, s) : s \in {t \in Size : (len \div t) % 2 = 1}}

\* The biggest aligned blocks of a range.
Pieces(at, len) ==
  LET fit == {b \in Block : Pages(b) \subseteq Span(at, len)}
  IN  {b \in fit : \A c \in fit : Inside(b, c) => c = b}

\* Pages in the order of their addresses, and against it.
Up   == [i \in 1 .. MaxSize |-> i - 1]
Down == [i \in 1 .. MaxSize |-> MaxSize - i]

\* The block or mapping of S that begins at page p.
Begins(S, p) == \E b \in S : b.at = p
At(S, p)     == CHOOSE b \in S : b.at = p

FreeBlocks(a, blocks, actual, order) ==
  LET freed[i \in 0 .. MaxSize] ==
        IF i = 0 THEN a
        ELSE IF Begins(blocks, order[i])
        THEN FreeBlock(freed[i - 1], At(blocks, order[i]), TRUE, actual)
        ELSE freed[i - 1]
  IN  freed[MaxSize]

\* per_heap_kfree_unsafe, multi-step
FreeRange(a, at, len, actual) == FreeBlocks(a, Pieces(at, len), actual, Up)

-----------------------------------------------------------------------------
(* kmalloc                                                                 *)

\* The nodes the search may enter: it turns back at a full one.
Reach(a, top) == {b \in Under(top) : (UpTo(b, top) \cup {b}) \cap a.full = {}}

\* The free blocks of size s it can come to, and the first of them.
Candidates(a, s, top) == {b \in Reach(a, top) : b.size = s /\ b \notin a.split}
First(S) == CHOOSE b \in S : \A c \in S : b.at <= c.at

\* The search splits every bigger node it enters, up to the block it finds.
Searched(a, s, top) ==
  LET hit   == Candidates(a, s, top)
      found == First(hit)
  IN  [a EXCEPT !.split = @ \cup
         {b \in Reach(a, top) : b.size > s /\ (hit = {} \/ b.at <= found.at)}]

Unlucky(a, b, fails) == (Pages(b) \cap fails) \ a.allocated

\* actual_allocate_node, and the ancestors that are full with it.
Take(a, b, top, actual, fails) ==
  LET new  == IF actual THEN (Pages(b) \ a.allocated) \ Unlucky(a, b, fails) ELSE {}
      full == a.full \cup {b} \cup (IF actual THEN Leaves(Pages(b)) ELSE {})
  IN  [a EXCEPT
         !.full = full \cup {c \in UpTo(b, top) :
                               \A d \in Path(b, c) : Sibling(d) \in full},
         !.allocated = @ \cup new,
         !.pages = [p \in Page |-> IF p \in new THEN [of |-> Anonymous, at |-> 0] ELSE @[p]]]

\* internal_kmalloc_split_block, down to pages
Split(a, b) ==
  [a EXCEPT !.full = @ \cup Under(b),
            !.split = (@ \cup Under(b)) \ Leaves(Pages(b))]

\* The answers of an allocation.
Got(a, at) == [ok |-> TRUE, area |-> a, at |-> at, stray |-> {}]
NoBlock(a) == [ok |-> FALSE, area |-> a, at |-> 0, stray |-> {}]

\* internal_kmalloc and the split
AllocBlock(a, s, top, actual, fails) ==
  LET hit == Candidates(a, s, top)
      w   == Searched(a, s, top)
      b   == First(hit)
      t   == Take(w, b, top, actual, fails)
  IN  IF hit = {} THEN NoBlock(w)
      ELSE IF actual /\ Unlucky(a, b, fails) # {}
      THEN NoBlock(FreeBlock(t, b, FALSE, TRUE))
      ELSE Got(Split(t, b), b.at)

\* One sub-block after the other; those before a failure are freed again.  The
\* code asserts that a sub-block is where it should be, but is built without
\* assertions (cflags.rsp:4) and goes on as if it were.
AllocPiece(r, b, big, actual, fails) ==
  LET x == AllocBlock(r.area, b.size, big, actual, fails)
  IN  IF ~r.ok THEN r
      ELSE IF x.ok
      THEN [x EXCEPT !.at = big.at, !.stray = r.stray \cup (Span(x.at, b.size) \ Pages(b))]
      ELSE NoBlock(FreeBlocks(x.area, Pieces(big.at, b.at - big.at), actual, Down))

\* per_heap_kmalloc_unsafe, multi-step
Alloc(a, len, actual, fails) ==
  LET rounded == CHOOSE s \in Size : s >= len /\ s < 2 * len
      hit     == Candidates(a, rounded, Root(a))
      big     == First(hit)
      w       == Searched(a, rounded, Root(a))
      pieces  == Pieces(big.at, len)
      done[i \in 0 .. MaxSize] ==
        IF i = 0 THEN Got(w, big.at)
        ELSE IF Begins(pieces, Up[i])
        THEN AllocPiece(done[i - 1], At(pieces, Up[i]), big, actual, fails)
        ELSE done[i - 1]
  IN  IF len > a.size THEN NoBlock(a)
      ELSE IF rounded = len THEN AllocBlock(a, len, Root(a), actual, fails)
      ELSE IF hit = {} THEN NoBlock(w)
      ELSE done[MaxSize]

\* kmalloc_heap_dup_expanded: the old tree is the left half.
Expanded(a) ==
  [a EXCEPT !.size = 2 * @,
            !.split = IF Root(a) \in Busy(a) THEN @ \cup {[at |-> 0, size |-> 2 * a.size]} ELSE @]

\* The loop of mmap_on_user_heap; memory allows a heap of size limit.
Reserve(len, actual, fails, limit) ==
  LET Retry(r) == IF r.ok \/ r.area.size >= limit THEN r
                  ELSE Alloc(Expanded(r.area), len, actual, fails)
      tried[i \in 0 .. MaxSize] ==
        IF i = 0 THEN Alloc(area, len, actual, fails) ELSE Retry(tried[i - 1])
  IN  tried[MaxSize]

-----------------------------------------------------------------------------
(* The calls                                                               *)

\* The sizes to which there may be memory for the tree to grow.
Limits == {s \in Size : s >= area.size}

Mapping(at, len, off, h) == [at |-> at, len |-> len, off |-> off, h |-> h]
MapPages(m) == Span(m.at, m.len)
Shown(m, p) == IF m.h = Anonymous THEN [of |-> Anonymous, at |-> 0]
               ELSE [of |-> m.h, at |-> m.off + p - m.at]

\* mmap_err_case_free
GiveBack(a, at, len) == FreeRange(a, at, len, FALSE)

\* sys_mmap_pgoff without a file; um: there is memory for the user_mapping.
MmapAnonymous(len, fails, limit, um) ==
  /\ Cardinality(maps) < MaxMaps
  /\ \E r \in {Reserve(len, TRUE, fails, limit)} :
       /\ area' = IF r.ok /\ ~um THEN GiveBack(r.area, r.at, len) ELSE r.area
       /\ maps' = IF r.ok /\ um THEN maps \cup {Mapping(r.at, len, 0, Anonymous)} ELSE maps
       /\ stray' = stray \cup r.stray
       /\ Answer("mmap", <<Anonymous, len, 0>>, IF r.ok /\ um THEN r.at ELSE Failure)

\* ... of a file; vfs_mmap fails on a page that is mapped.  um: it and
\* process_add_user_mapping have memory.
MmapFile(h, len, off, limit, um) ==
  /\ Cardinality(maps) < MaxMaps
  /\ \E r \in {Reserve(len, FALSE, {}, limit)} :
       LET m  == Mapping(r.at, len, off, h)
           ok == um /\ \A p \in MapPages(m) : r.area.pages[p] = Nothing
       IN  /\ area' = IF ~r.ok THEN r.area
                      ELSE IF ~ok THEN GiveBack(r.area, r.at, len)
                      ELSE [r.area EXCEPT !.pages =
                              [p \in Page |-> IF p \in MapPages(m) THEN Shown(m, p) ELSE @[p]]]
           /\ maps' = IF r.ok /\ ok THEN maps \cup {m} ELSE maps
           /\ stray' = stray \cup r.stray
           /\ Answer("mmap", <<h, len, off>>, IF r.ok /\ ok THEN r.at ELSE Failure)

\* The parts of a mapping on both sides of the pages from s to e.
Beginning(m, s) == [m EXCEPT !.len = s - m.at]

\* Wrong: the rest starts at the offset of the whole.
EndingOffKept(m, e) == [m EXCEPT !.at = e, !.len = m.at + m.len - e]

Ending(m, e) == [m EXCEPT !.at = e, !.off = @ + e - m.at, !.len = m.at + m.len - e]

\* Wrong: also when nothing is left on a side.
LeftAlways(m, s, e) == {Beginning(m, s), Ending(m, e)}

Left(m, s, e) ==
  (IF m.at < s THEN {Beginning(m, s)} ELSE {}) \cup
  (IF e < m.at + m.len THEN {Ending(m, e)} ELSE {})

Overlaps(m, s, e) == m.at < e /\ s < m.at + m.len
Middle(m, s, e)   == m.at < s /\ e < m.at + m.len

\* Wrong: the pages of anonymous memory stay with the heap.
UnmappedKept(a, m, s, e) ==
  LET from == IF m.at < s THEN s ELSE m.at
      to   == IF e < m.at + m.len THEN e ELSE m.at + m.len
  IN  FreeRange(a, from, to - from, FALSE)

\* vfs_munmap of a file's pages, then per_heap_kfree
Unmapped(a, m, s, e) ==
  LET from == IF m.at < s THEN s ELSE m.at
      to   == IF e < m.at + m.len THEN e ELSE m.at + m.len
      file == m.h # Anonymous
      b    == IF file THEN [a EXCEPT !.pages =
                              [p \in Page |-> IF p \in from .. to - 1 THEN Nothing ELSE @[p]]]
                      ELSE a
  IN  FreeRange(b, from, to - from, ~file)

UnmapAll(hit, s, e) ==
  LET unmapped[i \in 0 .. MaxSize] ==
        IF i = 0 THEN area
        ELSE IF Begins(hit, Up[i]) THEN Unmapped(unmapped[i - 1], At(hit, Up[i]), s, e)
        ELSE unmapped[i - 1]
  IN  unmapped[MaxSize]

\* munmap_int: each mapping that overlaps, the lowest first.  The middle of
\* one needs a new user_mapping; without memory for it nothing changes.
MunmapRange(s, e, rc) ==
  LET hit == {m \in maps : Overlaps(m, s, e)}
  IN  \/ /\ rc = 0
         /\ area' = UnmapAll(hit, s, e)
         /\ maps' = (maps \ hit) \cup UNION {Left(m, s, e) : m \in hit}
      \/ /\ rc = Failure
         /\ \E m \in hit : Middle(m, s, e)
         /\ UNCHANGED <<area, maps>>

Munmap(s, len) ==
  /\ s < area.size
  /\ \E rc \in {0, Failure} :
       MunmapRange(s, s + len, rc) /\ Answer("munmap", <<s, len>>, rc)
  /\ UNCHANGED stray

\* Wrong: the pages go from the front.
MremapFront(at, old, new) ==
  /\ new < old /\ at + new < area.size
  /\ \E rc \in {0, Failure} :
       /\ MunmapRange(at, at + old - new, rc)
       /\ Answer("mremap", <<at, old, new>>, IF rc = 0 THEN at ELSE Failure)
  /\ UNCHANGED stray

\* sys_mremap shrinks in place.
Mremap(at, old, new) ==
  /\ new < old /\ at + new < area.size
  /\ \E rc \in {0, Failure} :
       /\ MunmapRange(at + new, at + old, rc)
       /\ Answer("mremap", <<at, old, new>>, IF rc = 0 THEN at ELSE Failure)
  /\ UNCHANGED stray

\* remove_all_mappings_of_handle, when the file is closed
CloseFile(h) ==
  LET hit == {m \in maps : m.h = h}
  IN  /\ area' = UnmapAll(hit, 0, MaxSize)
      /\ maps' = maps \ hit
      /\ UNCHANGED stray
      /\ Answer("close", <<h>>, 0)

\* The program writes to a page it has been given.
Store(p) ==
  /\ \E m \in maps : m.h = Anonymous /\ p \in MapPages(m)
  /\ area.pages[p] # Nothing
  /\ area' = [area EXCEPT !.pages[p] = [of |-> Anonymous, at |-> 1]]
  /\ UNCHANGED <<maps, stray>>
  /\ Answer("store", <<p>>, 0)

Init ==
  /\ area = [size |-> MinSize, full |-> {}, split |-> {}, allocated |-> {},
             pages |-> [p \in Page |-> Nothing]]
  /\ maps = {} /\ stray = {}
  /\ call = [name |-> "run", args |-> <<>>, ret |-> 0]

Next ==
  \/ \E len \in Lens, fails \in SUBSET Failing, limit \in Limits, um \in BOOLEAN :
       MmapAnonymous(len, fails, limit, um)
  \/ \E h \in File, len \in Lens, off \in Off, limit \in Limits, um \in BOOLEAN :
       MmapFile(h, len, off, limit, um)
  \/ \E s \in Page, len \in 1 .. MaxSize : Munmap(s, len)
  \/ \E at \in Page, old, new \in Lens : Mremap(at, old, new)
  \/ \E h \in File : CloseFile(h)
  \/ \E p \in Writable : Store(p)

Spec == Init /\ [][Next]_vars

-----------------------------------------------------------------------------
\* The types of the area and the mappings, none of which is empty.
TypeOK ==
  /\ area.size \in Size
  /\ Busy(area) \subseteq Under(Root(area))
  /\ area.allocated \subseteq Page
  /\ DOMAIN area.pages = Page
  /\ \A m \in maps : m.len >= 1 /\ MapPages(m) \subseteq Span(0, area.size)

Used == UNION {MapPages(m) : m \in maps}

\* Stray pages belong to no mapping.  Lost pages belong to nobody and stay
\* full all the same: actual_allocate_node found no memory for them in a
\* block of several pages (kmalloc.c:183-225), and the block alone was given
\* back (405-420): not "to the previous state" (411), as the comment says.
Taken == Used \cup stray
Lost  == {p \in Page \ Taken : Leaf(p) \in area.full}

Blocks == Under(Root(area))
Meets(S) == {b \in Blocks : b.size > 1 /\ Pages(b) \cap S # {}}

\* The heap agrees with the mappings after any calls, whichever step of one
\* has failed.  Mappings are apart.  A block covered by mappings is full, so
\* it is not handed out again, and a bigger block in which one lies is split.
\* Conversely nothing else is full or split, but for what lost and stray
\* pages account for: pages are lost only where memory was missing, a bigger
\* block is full only if all of its pages are taken or lost, some taken, and
\* its own blocks are full with it, so that a free of all gives it back whole.
HeapFollowsMappings ==
  /\ \A m, n \in maps : m # n => MapPages(m) \cap MapPages(n) = {}
  /\ \A b \in Blocks : Pages(b) \subseteq Used => b \in area.full
  /\ \A b \in area.full :
       /\ Pages(b) \subseteq Taken \cup Lost /\ Under(b) \subseteq area.full
       /\ b.size > 1 => Pages(b) \cap Taken # {}
  /\ Meets(Taken) \subseteq area.split /\ area.split \subseteq Meets(Taken \cup Lost)
  /\ Lost \subseteq Failing /\ Used \cap stray = {}

\* The last page of an allocation in several steps was lost, and another page
\* taken for it: kmalloc.c:614-618 asserts that they are the same.
Bare(m, p) ==
  /\ p = m.at + m.len - 1 /\ p \in Failing /\ stray # {}
  /\ p \notin area.allocated /\ area.pages[p] = Nothing

\* What is left of a mapping, after any munmaps that cut it, tells what its
\* pages are: those of a file show the file from the mapping's own offset on
\* and are not the heap's, those without a file are memory that the heap has
\* allocated, or bare.
MappingsTellPages ==
  \A m \in maps : \A p \in MapPages(m) :
    IF m.h # Anonymous THEN area.pages[p] = Shown(m, p) /\ p \notin area.allocated
    ELSE \/ area.pages[p] # Nothing /\ area.pages[p].of = Anonymous /\ p \in area.allocated
         \/ Bare(m, p)

Memory == INSTANCE UserMemory WITH
  given <- Used,
  mem <- [p \in Page |-> IF p \in Used THEN area.pages[p] ELSE Nothing]
ImplementsUserMemory == Memory!Spec

\* For a VIEW: all but the last call, which no guard reads.
CodeState == <<area, maps, stray>>
=============================================================================
