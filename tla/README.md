# Aegis-V in TLA+

Aegis-V builds a compiler, a C library and a small Unix from 256 bytes of
machine code, on one RISC-V machine. The ladder has stages (`src/src/stages`);
two of them are operating systems the later stages run on: **Kronos** (stage 9),
a few hundred lines written for this repository, and **Tilck** (stage 12), an
upstream kernel of which the repository carries the files it had to change
(`12-tilck/src/override`). Python drivers on the host (`src/src/scripts`) start
QEMU and talk to the guest over the serial console and QMP. Paths below are
relative to `src/`.

These modules model the parts where a test can hardly reach what can go wrong:
state that is copied and shared (descriptors, sizes, reference counts, mappings,
frames), processes that wait for one another (pipes, signals, vfork), structures that must
agree after calls that fail half way (mappings and their heap), and interrupts
(the ring buffer). Everything is translated from the
code. What a file needs from code that is not in the repository (Tilck's mutexes,
condition variables, scheduler) is modelled from how it is used, and marked
`external` in `PROJECT.json`.

## The system

| Component | State | Operations | Talks to | Hard behaviours | What makes it correct |
|---|---|---|---|---|---|
| Kronos ramfs (`09-kronos/src/ramfs.c`) | table of created files, descriptor table, storage | open read write lseek close fstat stat mkdir | system calls above it, `kalloc` below | a descriptor has its own copy of pointer, size and capacity; growth moves a file; tables fill up; 64-bit sums wrap; descriptors outlive programs | accesses stay inside the buffer; files never share storage; programs see a store of named byte sequences |
| Kronos memory (`kmem.c`) | bump pointer, break | kalloc, brk, anonymous mmap, address translation | ramfs, ELF loader | never frees; low addresses alias | fresh memory is zero and unshared; the kernel image is not user memory |
| Kronos programs and traps (`proc.c trap.c elf.c entry.s syscall.c`) | working directory, exit status | run, exit, system calls | all of Kronos | state of one program that reaches the next | a program starts as on Linux |
| Kronos ladder (`kmain.c`) | artifacts in the ramfs | some 300 compiler and test runs | ramfs, `run` | ignored exit status, files left by failed steps | a printed mark means the step succeeded |
| Tilck pipes (`override/kernel/pipe.c`) | ring buffer, mutex, two conditions, counts of open ends | read write poll close fork | vfs, scheduler, signals | one wake-up at a time, atomic writes, closes and signals between test and sleep | no lost wake-up; a queue of bytes; end of file and EPIPE arrive |
| Tilck signals (`signal.c`) | pending and masked sets, handlers, frames, stop flag | send, wake, stop, continue, deliver, sigsuspend, rt_sigreturn | every sleeping task, fork, vfork, execve | a signal before the sleep, several at once, in a handler, while stopped, while parked by vfork | no sleeper misses its signal; masks and frames come back; SIGKILL ends every sleep it meets |
| Tilck descriptors (`fs_syscalls.c vfs.c fork.c process_mm_base.c`) | descriptor tables, shared descriptions with counts, FD_CLOEXEC, file mappings | open close dup fcntl pipe2 fork vfork exec exit mmap munmap | file systems, pipes | last close, sharing of one table of mappings after vfork | a description lives exactly as long as something refers to it |
| Tilck process life cycle (`process.c execve.c`) | process tree, zombies, vfork parents | fork vfork execve exit wait | signals, descriptors, memory | vfork parent waits for exec or exit | no parent runs beside its vforked child, none is stopped for good |
| Tilck user memory (`process_mm.c system_mmap.c user.c`) | mappings, break, per-process heap of addresses | mmap munmap mremap brk | kmalloc, paging | partial unmaps, no memory half way | mappings, heap and pages agree; a program sees only what it asked for |
| Tilck kernel heap (`kmalloc.c`) | tree of block nodes | allocate, free, split, join | everything | splits, joins, multi-step allocations that fail | blocks never overlap, none is lost |
| Tilck interrupt ring (`safe_ringbuf.c`) | one word with two positions, elements | read, write with interrupts | drivers | handlers between any two accesses | no element lost, torn or doubled |
| Tilck paging (`arch/riscv/paging*.c`) | page tables, counts of frames, cached translations | map, unmap, fault, clone, destroy | mmap, fork, ramfs | copy on write, stale translations, a clone that fails | counts are right; memory is private |
| Tilck file systems, boot, system-call table | inodes | | | | |
| Outbox (`outbox.c`, `scripts/tilck.py`) | the device's physical pages, the host's worker | guest writes a file, host dumps memory | QMP | request and answer race | the dump is the file |
| SBI (`12-tilck/src/sbi`) | timer compare | ecalls from S mode | QEMU | timer races | a set timer fires |
| Simon (`0-simon`) | command buffer, ramfs, harts | `do`, load, jump | UART | hart hand-off | |
| Host drivers (`scripts/*.py`, `scripts/lib`) | phase, checkpoint | phases, serial expect, snapshots | QEMU, guest | late or split output, timeouts | a phase is entered once, in order |
| Compilers and build stages | none between runs | translate | | none for TLC | |

`PROJECT.json` has the same list with sources and status, and under `hazards`
each place in the code where something is hard to test, with the properties
that watch it.

How the modelled parts meet: a descriptor (`TilckHandles`) leads to a description,
which may be an end of a pipe (`TilckPipe`) or a file that is mapped; the mapping has
addresses (`TilckUserMap`) and entries in page tables (`TilckPaging`); fork, vfork, execve and
exit touch all of them, each module with its part of the call, and signals (`TilckSignals`)
decide when a task runs at all. The modules share no variables: each has what
the others do to its state as actions.

## Modules

| Module | Models | Used by |
|---|---|---|
| `KronosRamfs` | `ramfs.c`, the file calls of `syscall.c`, the hand-over between programs of `proc.c`, `kalloc` as the ramfs uses it | `MCKronosRamfs`, `KronosRamfs_proofs`, `KronosStore_proofs` |
| `FileStore` | what the ramfs promises: named byte sequences and descriptors that name them | refined by `KronosRamfs` |
| `TilckPipe` | `pipe.c`, with the parts of `vfs.c`, `fork.c`, `fs_syscalls.c` and `signal.c` that act on a pipe and on tasks blocked in it | `MCTilckPipe`, `TilckPipe_proofs` |
| `PipeStream` | what a pipe promises: one queue of bytes, and which answers a call may give | refined by `TilckPipe` |
| `TilckHandles` | descriptor tables, open file descriptions and file mappings: `fs_syscalls.c`, `vfs.c`, `fork.c`, and the parts of `execve.c`, `process.c`, `process_mm.c` and `process_mm_base.c` that act on them | `MCTilckHandles`, `TilckHandles_proofs` |
| `FdTables` | what descriptors promise: a table per process, and the set that exec closes | refined by `TilckHandles` |
| `TilckPaging` | `arch/riscv/paging.c`, `paging_generic.c` and `.h` for user pages, with the callers in `fork.c`, `process_mm.c`, `elf.c` and the ramfs | `MCTilckPaging`, `TilckPaging_proofs` |
| `AddressSpaces` | what paging promises: a memory for each process that fork copies at once | refined by `TilckPaging` |
| `TilckSignals` | `signal.c`, with what `fork.c`, `execve.c` and `process.c` do to signals and to a parked parent | `MCTilckSignals`, `TilckSignals_proofs` |
| `TilckUserMap` | mmap, munmap, mremap: `process_mm.c`, `process_mm_base.c` and the heap of addresses, `kmalloc.c` | `MCTilckUserMap`, `TilckUserMap_proofs` |
| `UserMemory` | what they promise to the program | refined by `TilckUserMap` |
| `TilckRingbuf` | `safe_ringbuf.c` | `MCTilckRingbuf`, `TilckRingbuf_proofs` |
| `RingQueue` | what it promises: a bounded queue | refined by `TilckRingbuf` |
| `*_proofs` | theorems about the module of that name; `KronosStore_proofs` goes on from `KronosRamfs_proofs` | |

Operators with a comment `Wrong:` are not part of a specification.
Each is the form a definition would have after a plausible mistake, kept to
show that a property notices it (`mutants` in `PROJECT.json`).

### KronosRamfs

`extras` is `extras[]` (the used entries, in creation order: entries are never
freed), `fds` is `fds[]`, `cwd` is `proc_cwd`, `heap` is the memory behind the
storage pointers: buffer `b` is one `kalloc`, buffers `1..NBlob` are the packed
files. A path is a sequence of components and a byte a tag. `opened` and `ret`
are history: which path a descriptor was opened for by the program now running,
and what the last call returned. Each call is one action, because Kronos runs
one program with interrupts off and a call runs to its end.

An open copies storage, size and capacity into the descriptor (`InstallFd`);
`SyncSize` is the search by storage pointer at the end of `ramfs_write` and in
`ramfs_close`; `WriteGrowing` moves the file to fresh storage and takes only the
writing descriptor along. `NextProgram` is `sys_exit` followed by the next
`run`: only the working directory changes. Nothing closes what a program left open:
`fds[]` belongs to no program, and the next one starts with fewer slots.

`Spec` lets programs do anything. `PoliteSpec` restricts them to what the
ladder's programs do: a file is open for writing only once, by itself, and a
program uses only descriptors it opened. (`user/libc.c`, tcc, ar and the small tools
open a file, read or write it, close it.) The refinement of `FileStore` needs
that; the safety of memory does not.

### TilckPipe

A call is cut where another task can run. `pc` says where a task is: `user`;
`lock`, waiting for the mutex at the start; `loop`, with the mutex, before one
round of the loop; `wait`, between the test and the sleep, still with the mutex;
`asleep` on one of the two conditions; `woken`, waiting for the mutex again;
`exit`, with the mutex, before the wake-ups at the end; `close`, the last
reference is given up and the mutex of `pipe_on_handle_close` is still to be taken.
`handles` is `read_handles`/`write_handles`; `refs` is `h_refs` of
the two shared descriptions; `nonblock` their O_NONBLOCK; `fds` which ends each
process has. Mutex, condition variables and ring buffer are not in the repository:
the mutex excludes, `kcond_wait` releases it and joins the waiters in one step
(that is what a condition variable is for), `kcond_signal_one` takes any waiter
and `kcond_signal_all` all. A byte is `[by, i, n]`: byte `i` of an `n`-byte write of
process `by`.

A signal (`Kill`) wakes a task that sleeps on a condition and only becomes pending
otherwise; `Stop` leaves a sleeper among the waiters, and a stopped task takes
no step of its own.

### TilckHandles

`handles` is `pi->handles[]` of each process and `flags` the slots with FD_CLOEXEC in `pi->fd_flags[]`, an array
of its own that `close` does not touch. A `Handle` is the memory of a description; `refs` is its
`h_refs`, 0 while it is free. Address spaces are named by the process they
were made for: `mi[p]` is `pi->mi`, which for a vforked child is its parent's, and
`maps[q]` the list in it, as pages. A page has `um->h` and `um->pi`. `vparent` is
the parent that vfork has stopped, so `Vforked(p)` is `pi->vforked`.

A call is one action. A process has one thread, its table is its own, and a
vforked child, which shares its parent's mappings, runs while the parent is stopped; what
two processes do share is `h_refs`, which changes by atomic operations. A
call that fails changes nothing here (`vfs_dup` cannot fail). `vfs_close` appears
in four places, and so does what it does with mappings: `MapsAfterClose` in
`Close` and `Dup2`; `Exec` and `Exit`, which close many descriptors one by one, replace or empty the process's
own mappings, and leave alone those of a parent. An `munmap` that splits a mapping is seen as the set of
pages that are left.

`Spec` lets a vforked child do anything. `VforkSpec` restricts it to what vfork is for: open,
close, duplicate, execute or end. Its child does not map, unmap, fork or
vfork again. The count of a description and the ownership of address spaces do not need that; `MappingsHeld` does
(see "Seen while modelling").

### TilckPaging

`pt[p][v]` is the entry of page `v` in the page tables of `p`: a frame, whether it is writable, copy on write, shared (a
page of a file). `ref` is `pageframes_refcount`, `taken` the frames `kmalloc` has given out, `block` the frame of the
one file block. `tlb` is what the hart has cached of the running process's
entries: a load or a store may cache an entry, an invalidation or a switch forgets, and nothing else does. It is there because `pdir_clone`
makes the parent's entries read-only without invalidating them, and relies on a flush that
follows on the path of success only. `CowInPlace` and `CowCopy` are the two
outcomes of `handle_potential_cow`, decided by the count alone. `CloneFails(k)` is `pdir_clone` without memory for the table of
page `k`; it is an action of `OomSpec` only, because it breaks the counts (finding).

The refinement forgets frames, counts, marks and cached entries: `Cell` of a page is what its process may read and
write there, and each process's memory changes by its own stores only.

### TilckSignals

`ti[t]` is a record with the fields of `struct task` and `struct process` that signals read and write. `at` says where the
task is: in user mode; in the loop of `sys_pause`; in a call that may sleep, before its wait (`begun`), in it (`wait`), waiting for a mutex before
it or after it (`lock`, `relock`); in a call that ends when the task runs again (`call`). `code` is where its user-mode registers
lead to: the program, a handler, the address 1 (a handler that is `SIG_IGN` and is called all the same), or the detour to `pause` that
is set up for a task with a fatal signal that is not the current one. `saved` is what the frame on the user's stack
goes back to. `lender` is the parent whose stack a vforked child uses.

The code of `signal.c` runs with preemption off on one CPU, so a call is one action, with the delivery at
its end (`Processed`); between two calls any task may be scheduled, stopped, continued or sent a signal.
`Sigsuspend` changes the mask and enters the loop of `sys_pause`; `PauseAgain` is one more round of it.
Other calls that sleep are cut where another task can run: `Enter`, any number of waits for a mutex (`Lock`, `WakeUp`), the wait (`Sleep`),
which begins without a look at what is pending, and after it either the end of the call (`CallEnds`) or, if no signal is seen, one more wait
(`WaitAgain`). A signal that comes between `Enter` and `Sleep` is marked and wakes nobody; the finding of `pipe_signal` shows that in the pipe's own module.
`late` is history, set when a task goes to sleep with SIGKILL pending: `KillTakesEffect` says that SIGKILL ends every sleep it meets, and makes an exception of the sleeps
that begin after it came, because the code lets those last. Without the exception TLC finds the task that
waits for a mutex, is sent SIGKILL and sleeps on in its wait.

### TilckUserMap

`area` is the heap of addresses of a process and what is mapped there: `full` and `split` are the flags of the block nodes, a
node being the block it stands for, `allocated` the pages backed by memory of their own, `pages` what
the program finds. `maps` is the list of mappings. All three change in each call, one after the other, and nothing in the
code checks that they agree afterwards.

An allocation takes one block or, for a length that is no power of two, a block in several steps
(`AllocPiece`, `Alloc`); a page that `map_zero_page` cannot back (`fails`), in a block of whatever size, ends it, and the code undoes what it
has done. It does not undo everything: the leaf of that page stays full below a free parent, and the page is *lost* (`Lost`). A later allocation
in several steps may begin in a block whose last page is lost; the search then takes another page (`stray`) and the answer names the lost one, which has nothing
behind it (`Bare`). `kmalloc.c:618` asserts that this cannot be, but the kernel is built without assertions (`cflags.rsp:4`), so
the model goes on as the code does. `HeapFollowsMappings` and `MappingsTellPages` say what holds all the same.

`FreeRange` is `per_heap_kfree_unsafe` with its split of a length into blocks; `Joined` is the
walk up the tree after a free. `Left` is what `munmap_one` leaves of a mapping: a beginning, an end with its
offset moved, both, or nothing. The heap may be doubled (`Expanded`, external) while there is memory.

`stray` and `call`, the last call with its arguments and its answer, are history; no guard reads them, and the run has a `VIEW` without `call`.
`UserMemory` knows no heap and no list. It says of each call by itself what its arguments and its answer mean: an mmap that answers with an
address has given as many pages as asked for, from there on, none of which the program had, zeros or the file from the offset asked for;
munmap, mremap and close have taken all pages of their ranges and no others; a call that fails has changed nothing. It allows one thing that no program
would ask for: the last page of anonymous memory may be missing.

What is done to the blocks of a range one after the other (`FreeBlocks`, `Alloc`, `UnmapAll`) is a function on the pages in the order in which the code
comes to them (`Up`, `Down`).

Only lengths below the initial size of the area are mapped: freeing the root block reads before the array of nodes
(see "Seen while modelling").

### TilckRingbuf

`s` is the word with both positions and the full flag, `buf` the elements, in parts. `calls` is a stack: the calls that have begun, of which the
last one runs and the others are interrupted. A step is one access to memory: the first load of the word, the second
(the code loads it twice, `safe_ringbuf.c:114` and 115), the exchange, the copy of one part. A handler that writes may begin between any two of them; a read
interrupts nothing. The exchange may fail although the word is unchanged, since it is a weak one.

`RingQueue` has no steps inside a call. Each call takes effect at its exchange, or where it finds the buffer full or empty. The refinement maps
a place that has been reserved and is still being filled to the element that will be there (`Content`): the reader, which cannot run
before the writers above it have returned, never sees the difference, and that is what is to be shown.

## Runs

State counts are of distinct states.

| Run | Instance | Shows |
|---|---|---|
| `ramfs_store` | polite programs, 3 paths (one packed, one its directory), descriptors 3–4, 1 new file, capacities 1 and 2, counts 1 and 3, words of 2 bits, 3 buffers, absolute and relative names, mkdir | `ImplementsFileStore`: every call does what `FileStore` says; `DescriptorsAgree`: the copies in the descriptors are those of the file. 182,631 states |
| `ramfs_shared` | any programs, 2 descriptors, 2 entries | `InBounds`, `OwnStorage`, `OneFileAtATime`. Uses a VIEW without the two history variables, which no guard reads. 41,808 states |
| `pipe` | three initial states: a reader and two writers, two readers and a writer, a shell that forks (and may use the pipe itself); buffer 2, reads of 1 and 3 bytes, writes of 2 and 3; one process may be killed, one stopped | `WriterNotForgotten`, `ReaderNotForgotten`, `AtomicWrites`, `EndsCountHolders`, `ImplementsPipeStream`. 1.16M states |
| `pipe_live` | two readers, one writer, fair; O_NONBLOCK set and cleared during calls | `EndOfFile`, `BrokenPipe`, `Exchange`; `ImplementsPipeStream`: which of data, end of file, EAGAIN, EPIPE and a short count is allowed when. 80,482 states |
| `pipe_signal` | two readers, one killable | **violated**: a signal before the sleep is lost (finding) |
| `handles` | `VforkSpec`, three processes, two descriptions, two slots, one page | `RefsCountUsers`, `MappingsHeld`, `SpacesOwned`; `ImplementsFdTables`: a description is used anew exactly when no descriptor names it, and exec closes the right ones. 313,329 states |
| `cow` | two processes, two pages, three frames, the zero page, one file | `RefsCountMappings`, `WritableAlone`, `StaleEntriesHarmless`, `ImplementsAddressSpaces`. 156,828 states |
| `cow_oom` | the same, a clone may run out of memory | **violated**: frames of the parent lose their counts (finding) |
| `signals` | two tasks, one of them sent signals; SIGFPE (caught, masked, ignored, raised by a fault), SIGKILL, SIGCONT, SIGSTOP | `ParentParked`, `SleepersWoken`, `OneInterruption`, `NothingRunsBefore`, and `KillTakesEffect` under fairness. 1.24M states |
| `signals_kill` | the same | **violated**: a handler in pause survives SIGKILL (finding) |
| `mmap` | an area of 4 pages that may become 8, lengths 1 to 3, one file, two mappings, perhaps no memory for pages 2 and 6, in blocks of one page or more | `HeapFollowsMappings`, `MappingsTellPages`, `ImplementsUserMemory`: each call gives or takes the pages its arguments and its answer say. 11,874 states |
| `ringbuf` | two places, elements of two parts, three calls deep | `PlacesApart`, `ImplementsRingQueue`, and `CallsReturn` under fairness. 55,716 states |

Why the bounds are enough to mean something. In the ramfs a capacity of 1 makes
the second byte grow a file, so two descriptors disagree after two writes; with
`GrowMax` 1 the next doubling fails; words of 2 bits make `pos + n` wrap with the
count 3; `LastFd` 4 gives a table that fills up. `MaxBufs` bounds the number of
`kalloc`s. In the pipe a
buffer of 2 bytes and writes of up to 3 make every case of `pipe_write`: fits,
fits later, atomic but not yet, larger than the buffer. Three tasks are the least
with which waking one is not waking all; `Spare` is the slot the shell forks into, `InitFds` the three ways the ends are
held at first. Two descriptors of one process may name one description, or two, so that the first
close of a mapped file must keep its mapping and the second remove it. A third process gives a vforked child whose parent has
itself been forked with mappings, and a space that three share. A vforked child that vforks again is outside `VforkSpec`
and therefore of no run: for it `SpacesOwned` rests on the theorem `SpacesAlways`, which is about `Spec`.

In paging three frames let one page be copied while the other is shared by both processes and a third frame is free,
and two pages make a cached entry of one survive what happens to the other. `Targets` has one task
because a task's signals concern only itself and a parent it has stopped; the other slot is
its parent or its child, vforked or not. `Caught` has one signal that can be masked, caught and raised by a fault: two of them only make the order
of delivery visible, which is `Lowest`. In `mmap` lengths of 1, 2 and 3 pages are one
block, a pair, and an allocation in several steps; `Failing` says for which pages memory can be missing, in a block of any size,
once in the first half of the area and once in the part that a growth adds: each is the last page of an allocation of three, the first of a pair, and a page
by itself, so a pair that fails there loses a page and an allocation of three then comes to it; `MaxMaps` bounds the mappings at a time, and two of them can be cut
by one munmap, each into two. In the ring buffer two places make the positions go round within three writes; a depth of
three has a write that interrupts a write that interrupts a read, and an element of two parts
can be half copied.

Runs without deadlock checking (`CHECK_DEADLOCK FALSE`): `pipe`, where a process that holds both ends of a pipe and reads
it while it is empty waits for itself, as on any Unix; `handles`, where every process may end, the first one too; `signals` and
`signals_kill`, where every task may be stopped or have ended.

Symmetry is used where only safety is checked: frames in `cow`, the two process slots beside the first
and the descriptions in `handles`.

## Fairness

Fairness is stated where the code's scheduling gives it, and for no choice of a program: no program need make a call, close a
descriptor or send a signal.

- `TilckPipe`: weak for a task that can run inside the kernel (a preemptive scheduler runs every runnable task), strong
  for taking the mutex (one that is freed again and again goes to each of its waiters; Tilck's wakes the first of
  a queue). Processes may not be stopped in `pipe_live`, since nothing makes anybody send SIGCONT.
- `TilckSignals`: a task that can run is scheduled (weak); a running task that has no choice to make goes on in the end (strong: it may be
  preempted each time, but not always before it has done anything, nor does a call take mutexes for ever); a task that waits for a mutex gets
  it (weak). What a wait is for (data, a time, a child) need not come.
- `TilckRingbuf`: a call goes on whenever the calls above it have returned, strong for each depth, because an interrupt may come
  between any two of its steps and it can go on only between interrupts; and an exchange that would succeed does not fail
  for ever, which is what a weak compare-and-swap promises. It is not assumed that interrupts stop: that calls return
  follows from the buffer's becoming full.

## Findings

- **a signal before the sleep** (`pipe.c:132`, `pipe.c:224`; run `pipe_signal`). Tilck wakes a task that
  sleeps on a condition; one still running or waiting for the mutex is only
  marked. `pipe_read` and `pipe_write` look at the mark after the sleep, not before.
  (The model's `kcond_wait` does not look either; it is not in the repository.)
- **a clone without memory gives up the parent's frames** (`paging.c:745`; run `cow_oom`). The new directory begins as a copy of the
  parent's, and the entries that have not been cloned yet still lead to the parent's tables when `pdir_destroy` walks it.
- **SIGKILL in a handler that pauses** (`signal.c:564`; run `signals_kill`). In a handler `pending_signals` is false whatever is pending, and
  the loop of `sys_pause` relies on it.

### Seen while modelling

Places where the code does something a reader may not expect, and which no run is about.

- Handles: a vforked child that maps a file puts the mapping in its parent's list (`process_mm.c:221`). Its own closes leave that
  list alone (`vfs.c:56`), the parent has no descriptor whose close could remove it, and `remove_all_user_mappings` asserts that
  none remain (`process_mm_base.c:117`). POSIX lets a vforked child do nothing of the kind; `VforkSpec` excludes it.
- Pipe: `kcond_signal_one` may choose a reader that is stopped, which then keeps the only wake-up until SIGCONT, while another
  reader sleeps on (`pipe.c:163`). `ReaderNotForgotten` counts a stopped reader as one that has been woken.
- Signals: a signal that is pending when its handler is reset or ignored is still delivered by what it finds then (`signal.c:254`; a SIGCHLD
  that is pending over an exec). In a handler only the lowest deliverable signal is looked at (234). SIGSTOP after SIGKILL,
  before the task has run, leaves it stopped. A handled signal wakes a stopped task. For a task that is
  not the current one a frame that cannot be set up ends in the detour through `pause`. `1 << index` is undefined for signals 33 to 64 (34, 58).
- Kernel heap: a block of several pages without memory for one of them does not "restore kmalloc's heap metadata to the previous state"
  (`kmalloc.c:411`): the node of that page stays full below a parent that is free (732). A later mmap in several steps
  takes the parent, skips that page, and the assertion at 618 is false; it is not built (`cflags.rsp:4`), and the mapping has a last page with nothing behind it,
  while another page stays taken for good. A program that touches the page gets a fault. The tree need not be as it was before a call that failed:
  `HeapFollowsMappings` names the pages lost and stray, and does not hold without them. Freeing a block of
  the whole heap reads `nodes[-1]` (114). `mem_allocated` is subtracted but never added for blocks without actual allocation (674, 425).
- User memory: `mmap_err_case_free` frees anonymous memory with the flag that keeps the pages mapped. `munmap_one`
  reads `um->h` after `um` has been freed (`process_mm.c:385`, 431). `sys_munmap` does not check the alignment of its address.
- Ring buffer: a read that interrupts a read, with as many writes in between as bring both positions back, would let the exchange succeed on a
  word that has changed and come back. The check in the code excludes only reads during writes; its
  callers are not in the repository. In the model only a thread reads.
- Kronos: `close` stores the descriptor's own size in the file (`ramfs.c:379`): read through one descriptor, append through
  another, close the first, and the file is as short as before. `PoliteSpec` programs do not do this, and for them the store is right.

## Proofs

Checked by TLAPS for every value of the constants that satisfies the named assumptions
(`RamfsAssumption`, `StoreAssumption`, `PipeAssumption`, `HandlesAssumption`, `PagingAssumption`, `SignalsAssumption`, `RingbufAssumption`,
`UserMapAssumption`), which say only what
the code's types and `#define`s say. `StoreAssumption` adds that the values which stand for "no path" and "no file" are not paths, files or
descriptors, and that the length of a packed file is a word, as it is in the blob.

`KronosRamfs_proofs`: `StorageAlways` is `Spec => []StorageInv`. `InBounds` alone is
not inductive. A write through a descriptor changes the entry that has its storage,
so one needs that this entry is the file's own and no packed file's (`OwnStorage`),
that directories have no storage at all (`DirectoriesBare`: with pointer 0 they are
never found by the search), and that the packed files keep place and length
(`BlobInPlace`: a packed file opened later gets its size from the blob). The heap only grows and buffers keep
their length (`Extends`), so descriptors left behind by a growth stay inside the old buffer: that is why
stale copies are safe. `TypesAlways`, `BoundsAlways` and `StorageNeverShared` follow.

`KronosStore_proofs`: `OneFileAlways` is `Spec => OneFileAtATime`, for any programs. From `StorageInv`: a call changes at most one buffer
and one entry (`OneChanges`), an entry is the only one of its storage (`EntryOfStorage`), so no other path can show something new.
For programs that are alone on the files they write, `PoliteAlways` is `PoliteSpec => []PoliteInv`. `DescriptorsAgree` is not inductive: a
write moves the file away from under every other descriptor, and what it says of them survives only because there is
none (`Alone`: of two descriptors with one path neither can write); `lseek` adds to a position, and its result is a position only because
sizes are words (`Words`). `AgreeAlways` follows. `StoreImplements` is `PoliteSpec => ImplementsFileStore`, one lemma for each
call: what it answers and how names and descriptors change is what `FileStore` says. The longest is the write that
grows a file, where contents move to a new buffer and the copies in other descriptors stay behind.

`TilckPipe_proofs`: `PipeAlways` is `Spec => []PipeInv`. The two properties about lost wake-ups speak of
moments when the mutex is free. While it is held they are weakened by who will repair them:
`WritersServed`, a writer that could go on sleeps only if a reader is about to leave its call
and wake all of them; `ReadersServed`, unread bytes and sleeping readers exist together only if another
reader has been woken or is in its loop, or somebody is in its exit. `AboutToSleep` says that what a task saw before going to sleep still
holds when it sleeps, which the mutex gives (`Mutex`). `EndsCountHolders` and `OneClose` carry the
counts through a close that waits for the mutex.

What the processes see of the pipe, in the same module: what a call may answer depends on how far it is. `CallsInv` says it of each process: inside a call
(`InProgress`) there is no answer yet, there are bytes to go, and none is through unless the call is a write of more than the buffer holds
(`Unanswered`); in its exit there is an answer; anywhere else (`Outside`) there is no call. `CallsAlways` is `Spec => [](PipeInv /\ CallsInv)`.
`WritesStayWhole` is `Spec => []AtomicWrites`, about the last byte read followed by the buffer (`Passed`): a
write that is atomic appends all of its bytes at once, because none was through before (`WholeAppend`), a longer one appends bytes that the property
leaves free, and what a read takes from the front was whole up to there (`WholeSuffix`).
`PipeImplements` is `Spec => ImplementsPipeStream`: the steps that move bytes, end a call or close an end are those of `PipeStream`, and locks, waits,
signals and wake-ups are stutters.

`TilckHandles_proofs`: `CountAlways` is `Spec => []CountInv`: types, the counts, and that an ended process has no
descriptors left (`Ended`), without which a fork into its slot would overwrite references that are counted.
`RefsCountUsers` counts a set of pairs of process and slot; the counting lemmas take it apart:
`UsersSplit`, one process's row and the others; `RowChange`, what replacing a row does to the
count; `SlotChange`, what writing one slot of it does. With them each action is arithmetic. `SpacesAlways` rests on
`Tree`. That nobody runs on a space whose owner is gone holds because the owner is stopped. For nested vforks the owner is a parent's
parent, and one needs that the chain of stopped parents ends there and does not run in a circle: the invariant says that of every nonempty
set of processes, some member has no parent in it. `MappingsAlways` is
`VforkSpec => []MappingsHeld`, from both and `HeldBy`. `HandlesImplement` is `Spec => ImplementsFdTables`: that a new descriptor's
description is unused is the count being 0, which is `CountInv`.

`TilckPaging_proofs`: `PagingAlways` is `Spec => []PagingInv`, the counts (`CountInv`), `WritableAlone` and `StaleEntriesHarmless` together.
None is inductive by itself: a write fault takes a frame over if the count is 1, which is right only because counts are exact;
counts stay exact over the end of a process only because frames that somebody maps are taken; and a stale
entry is harmless because a frame that is marked in the table while a writable entry is cached has one user. Counts are
cardinalities of sets of pairs of process and page, taken apart one process and one page at a time, as in
`TilckHandles_proofs`. `PagingImplements` is `Spec => ImplementsAddressSpaces`, one lemma for each action: it maps to the action of
`AddressSpaces` of that name, or, as a fault, an invalidation, a load or a switch, to a stutter.

`TilckSignals_proofs`: `InvariantAlways` is `Spec => []Invariant(ti)`. `Invariant` says of each task by itself what holds of its frames, its mask and
where it sleeps (`Good`), and of each vforked child that its parent is parked and is parked for nobody else (`Lending`).
Each part of `process_signals` is proved once to keep `Good` of a record; an action is then a change of one record, or of
two. `ParkedAlways`, `WokenAlways`, `InterruptionAlways` and `RunsAlways` follow.

`TilckUserMap_proofs`: `GoodAlways` is `Spec => []Good(area, maps, stray)`, for memory missing anywhere. `HeapFollowsMappings` says what the tree is for a set of used pages;
`Good` says that there is a set of lost pages, all of them among `Failing`, with which the tree is that (`Shows`), and moreover that mappings are
apart and inside the area (`Fits`), and, for the pages, not only what mappings tell but that a page without
a mapping is empty or a new zero page of the heap's own (`Told`): `mmap_err_case_free` leaves such pages behind, and the next mmap of them must find zeros. Every part of
`kmalloc.c` is a lemma about `Shows(a, U, T, L)`: used, taken (used or stray) and lost pages. A free takes the block's pages from the first two
(`FreeShows`): that the walk of `Joined` ends where it should is an argument about the blocks between two blocks (`AlongPath`), and that about divisibility: a size is
a number no odd number but 1 divides, of two sizes one divides the other (`Divides`), and two blocks are apart or nested (`Laminar`). A search that finds a
block splits exactly the nodes that taking it would split (`Found`); one that runs out of memory is undone but for the pages lost (`Undone`); the pieces of a range are apart and cover
it (`PiecesCover`, `PiecesIs`). An allocation in several steps (`PiecesTaken`) needs that the next piece is the first free block of its size below the big one
(`FirstPiece`), which is the assertion at `kmalloc.c:618`. It holds of pieces of several pages, because a lost leaf leaves the blocks above it free, and of a
piece of one page unless that page is lost; that piece is the last one, and `LostEnds` says what the tree is when another page has been taken for it.
A failure gives everything else back. Loops are by
induction on the position (`Steps`), where the function of the loop is given by its equations. The calls follow: `Reserves`,
`AnonymousMapped`, `FileMapped`, `RangeUnmapped`, `FileClosed`. `TypeAlways`, `FollowsAlways`, `TellsAlways` and, one step for each
call, `MemoryImplements` (`Spec => ImplementsUserMemory`) rest on them. They have no hypotheses but `UserMapAssumption`.

`TilckRingbuf_proofs`: `RingAlways` is `Spec => []RingInv`. The heart of it is `More(t, u)`: the word `u` is `t` or has more
elements. What a call has loaded and the word as it is now are related by it, because the calls above it only write; so
the word never comes back once it has changed, and an exchange that succeeds has loaded the same word
twice (`SameWord`). With that, an element that is being filled lies among the elements of the word (`FilledOK`), what a read has copied is still there
(`ReadOK`), and no two calls use one place (`Apart`). `RingImplements` is `Spec => ImplementsRingQueue`: the exchange of a
write appends the element, although its place still has the old contents (`CasWriteRing`); the last part of a copy leaves the place as its users saw it
(`CopyInQuiet`); the exchange of a read takes the head (`CasReadRing`); every other step is a stutter.

Only model-checked: everything temporal (`EndOfFile`, `BrokenPipe`, `Exchange`, `KillTakesEffect`, `CallsReturn`: liveness under fairness and ENABLED are out of the
prover's reach). The safety properties of every passing run, type invariants and refinements included, are theorems.

## Plan

Done, in this order: `KronosRamfs` and `FileStore`; `TilckPipe` and `PipeStream`; `TilckHandles` and `FdTables`; `TilckPaging` and
`AddressSpaces`; `TilckSignals`; `TilckUserMap` and `UserMemory`; `TilckRingbuf` and `RingQueue`; the proofs of each.

Worth adding: zombies and wait beside `TilckSignals`; the outbox and the host's dump worker; host
checkpoints; Kronos memory and the ladder.

## Not modelled

Most of the repository's lines are compilers, assemblers, linkers, patches and build steps of the stages (hex0 to GCC), vendored in large part: batch
translators, which read a file and write one. They have no processes, no failures they recover from and no state between runs; what could be checked of them is
a function on programs, and that is out of TLC's reach. Nor modelled: file formats on the host; ELF loading, the bits
of page tables, console output; poll on pipes (its wait is not in the repository); Tilck's file systems (the inode
layer is not in the repository), its boot and its system-call table; the small heaps, the choice among heaps and the deferred frees of
`kmalloc`; process groups, sessions and wait.
