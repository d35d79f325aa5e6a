---------------------------- MODULE UserMemory ----------------------------
(***************************************************************************)
(* What mmap, munmap, mremap and close promise to a program, call by call: *)
(* which pages it is given and what it finds there.                        *)
(***************************************************************************)
EXTENDS Integers

CONSTANTS MaxSize, Lens, Off, File, Anonymous, Nothing,
          Failing   \* pages for which there may be no memory

Page == 0 .. MaxSize - 1

VARIABLES
  given,  \* the pages the program has been given
  mem,    \* mem[p]: what it finds at page p
  call    \* the last call, with its answer

Failure == -1
Answer(name, args, ret) == call' = [name |-> name, args |-> args, ret |-> ret]

Fails(name, args) == Answer(name, args, Failure) /\ UNCHANGED <<given, mem>>

\* What a new mapping shows at its page i.
New(h, off, i) == IF h = Anonymous THEN [of |-> Anonymous, at |-> 0]
                  ELSE [of |-> h, at |-> off + i]

\* As many pages as asked for, none of which the program has: zeros, or the
\* file from off on.  The last page of anonymous memory may be missing.
MmapAt(h, len, off, at) ==
  LET r == at .. at + len - 1
  IN  /\ Answer("mmap", <<h, len, off>>, at)
      /\ r \subseteq Page \ given
      /\ given' = given \cup r
      /\ \E none \in SUBSET ({at + len - 1} \cap Failing) :
           /\ h # Anonymous => none = {}
           /\ mem' = [p \in Page |-> IF p \in none THEN Nothing
                                    ELSE IF p \in r THEN New(h, off, p - at) ELSE mem[p]]

Mmap(h, len, off) ==
  \/ \E at \in Page : MmapAt(h, len, off, at)
  \/ Fails("mmap", <<h, len, off>>)

\* The pages of r go, all of them and no others.
Without(r) ==
  /\ given' = given \ r
  /\ mem' = [p \in Page |-> IF p \in r THEN Nothing ELSE mem[p]]

Munmap(s, len) ==
  \/ Answer("munmap", <<s, len>>, 0) /\ Without(s .. s + len - 1)
  \/ Fails("munmap", <<s, len>>)

Mremap(at, old, new) ==
  \/ Answer("mremap", <<at, old, new>>, at) /\ Without(at + new .. at + old - 1)
  \/ Fails("mremap", <<at, old, new>>)

CloseFile(h) ==
  /\ Answer("close", <<h>>, 0)
  /\ Without({p \in Page : mem[p] # Nothing /\ mem[p].of = h})

Store(p) ==
  /\ Answer("store", <<p>>, 0)
  /\ mem[p] # Nothing /\ mem[p].of = Anonymous
  /\ mem' = [mem EXCEPT ![p].at = 1]
  /\ UNCHANGED given

Init ==
  /\ given = {}
  /\ mem = [p \in Page |-> Nothing]
  /\ call = [name |-> "run", args |-> <<>>, ret |-> 0]

Next ==
  \/ \E len \in Lens : Mmap(Anonymous, len, 0)
  \/ \E h \in File, len \in Lens, off \in Off : Mmap(h, len, off)
  \/ \E s \in Page, len \in 1 .. MaxSize : Munmap(s, len)
  \/ \E at \in Page, old, new \in Lens : Mremap(at, old, new)
  \/ \E h \in File : CloseFile(h)
  \/ \E p \in Page : Store(p)

Spec == Init /\ [][Next]_<<given, mem, call>>
=============================================================================
