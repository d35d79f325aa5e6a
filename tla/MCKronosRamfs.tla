--------------------------- MODULE MCKronosRamfs ---------------------------
(* Finite instances of KronosRamfs: one packed file /ca/cb (so /ca is a     *)
(* directory the blob implies), one file /co that does not exist at boot.   *)
EXTENDS KronosRamfs

CONSTANTS ca, cb, co, x, y

MCPaths == {<<co>>, <<ca, cb>>}
MCNames == {[rel |-> FALSE, comps |-> <<co>>], [rel |-> TRUE, comps |-> <<cb>>]}
\* ... and the directory, as a file name and for mkdir.
AllNames == MCNames \cup {[rel |-> FALSE, comps |-> <<ca>>]}
AllPaths == MCPaths \cup {<<ca>>}
MCDirs == {<<ca>>}
MCBlobPath == <<<<ca, cb>>>>
MCBlobData == <<<<x>>>>
MCByte == {x, y}
MCModes == {{}, {"WR"}, {"WR", "CREAT", "TRUNC"}, {"WR", "CREAT", "APPEND"}}
MCNoPlainWrite == MCModes \ {{"WR"}}
MCCounts == {1, 3}
\* For the runs whose properties look at neither opened nor ret: no guard and no
\* other variable's next value reads them under Spec.
CodeState == <<extras, heap, fds, cwd>>
MCOffsets == {-1, 1}
=============================================================================
