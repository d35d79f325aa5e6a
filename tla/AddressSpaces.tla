--------------------------- MODULE AddressSpaces ---------------------------
(***************************************************************************)
(* What fork and memory mappings promise: every process has a memory of    *)
(* its own, of which fork makes a copy at once; only the pages of a mapped *)
(* file are the same for all who map it.                                   *)
(***************************************************************************)
EXTENDS Integers

CONSTANTS Proc, First, Page, Val, Blank

VARIABLES
  mem,    \* mem[p][v]: the page v of process p
  file,   \* the file's page: {} or {its contents}
  alive
vars == <<mem, file, alive>>

Hole        == [kind |-> "hole", val |-> Blank, rw |-> FALSE]
Own(x, rw)  == [kind |-> "own", val |-> x, rw |-> rw]
FilePage(rw) == [kind |-> "file", val |-> Blank, rw |-> rw]
Holes       == [v \in Page |-> Hole]

Set(p, v, cell) == mem' = [mem EXCEPT ![p][v] = cell]

Grow(p, v) ==
  /\ mem[p][v] = Hole /\ Set(p, v, Own(Blank, TRUE))
  /\ UNCHANGED <<file, alive>>

MapFile(p, v, rw) ==
  /\ mem[p][v] = Hole /\ file # {} /\ Set(p, v, FilePage(rw))
  /\ UNCHANGED <<file, alive>>

Unmap(p, v) ==
  /\ mem[p][v] # Hole /\ Set(p, v, Hole)
  /\ UNCHANGED <<file, alive>>

\* A store is seen by p alone, or by everybody when the page is the file's.
Store(p, v, x) ==
  /\ mem[p][v].rw
  /\ \/ /\ mem[p][v].kind = "own" /\ Set(p, v, Own(x, TRUE))
        /\ UNCHANGED file
     \/ mem[p][v].kind = "file" /\ file' = {x} /\ UNCHANGED mem
  /\ UNCHANGED alive

WriteFile(x) == file' = {x} /\ UNCHANGED <<mem, alive>>

Truncate ==
  /\ file' = {}
  /\ mem' = [p \in Proc |-> [v \in Page |->
               IF mem[p][v].kind = "file" THEN Hole ELSE mem[p][v]]]
  /\ UNCHANGED alive

Fork(p, c) ==
  /\ c \notin alive /\ alive' = alive \cup {c}
  /\ mem' = [mem EXCEPT ![c] = mem[p]]
  /\ UNCHANGED file

Exec(p, v, x, rw) ==
  /\ mem' = [mem EXCEPT ![p] = [Holes EXCEPT ![v] = Own(x, rw)]]
  /\ UNCHANGED <<file, alive>>

Exit(p) ==
  /\ mem' = [mem EXCEPT ![p] = Holes]
  /\ alive' = alive \ {p}
  /\ UNCHANGED file

Init ==
  /\ mem = [p \in Proc |-> Holes]
  /\ file = {}
  /\ alive = {First}

Next ==
  \/ \E p \in alive :
       \/ \E v \in Page :
            \/ Grow(p, v) \/ Unmap(p, v)
            \/ \E rw \in BOOLEAN : MapFile(p, v, rw)
            \/ \E x \in Val : Store(p, v, x) \/ \E rw \in BOOLEAN : Exec(p, v, x, rw)
       \/ \E c \in Proc : Fork(p, c)
       \/ Exit(p)
  \/ \E x \in Val : WriteFile(x)
  \/ Truncate

Spec == Init /\ [][Next]_vars
=============================================================================
