---------------------------- MODULE MCTilckPipe ----------------------------
(* Finite instances of TilckPipe with three process slots. *)
EXTENDS TilckPipe, TLC

CONSTANTS a, b, c
MCTask == {a, b, c}

\* One reader, two writers; two readers, one writer; a shell that has made the
\* pipe and forks.
TwoWriters == a :> {"r"} @@ b :> {"w"} @@ c :> {"w"}
TwoReaders == a :> {"r"} @@ b :> {"r"} @@ c :> {"w"}
Shell      == a :> End @@ b :> {} @@ c :> {}
MCFds      == {TwoWriters, TwoReaders, Shell}
ReaderFds  == {TwoReaders}

\* Reads of one byte and of all there is; atomic writes and big ones.
MCSizes    == [e \in End |-> IF e = "r" THEN {1, 3} ELSE {2, 3}]
SmallSizes == [e \in End |-> IF e = "r" THEN {1} ELSE {1, 3}]
=============================================================================
