----------------------------- MODULE FileStore -----------------------------
(***************************************************************************)
(* What the programs of the ladder rely on: named byte sequences, and      *)
(* descriptors that hold a position in a NAME, not in a piece of storage.  *)
(* An open may be refused for want of room, and is then allowed to have    *)
(* created or emptied the file; a write may be refused and then changes    *)
(* nothing; bytes a program skipped over are unspecified.                  *)
(***************************************************************************)
EXTENDS Integers, Sequences

CONSTANTS Paths, Tags, LastFd, WordSize, Counts, Modes, NoFile, Closed,
          BlobDirs,      \* the directories the packed image implies
          Initial        \* the packed image: a content for every path

VARIABLES content, dirs, desc, ret
vars == <<content, dirs, desc, ret>>

Fd == 3..LastFd

Answer(call, f, val, data) ==
  ret' = [call |-> call, fd |-> f, val |-> val, data |-> data]
Refuse(call, f, err) ==
  Answer(call, f, err, <<>>) /\ UNCHANGED <<content, dirs, desc>>
IsOpen(f) == desc[f] # Closed
File(f) == content[desc[f].path]

Opened(p, fl) == IF content[p] = NoFile \/ "TRUNC" \in fl THEN <<>> ELSE content[p]

Open(p, fl) ==
  \/ Refuse("open", 0, -22) /\ p \in dirs
  \/ Refuse("open", 0, -2) /\ content[p] = NoFile /\ "CREAT" \notin fl
  \/ Refuse("open", 0, -12)
  \/ /\ ret'.call = "open"
     /\ p \notin dirs
     /\ content[p] # NoFile \/ "CREAT" \in fl
     /\ content' = [content EXCEPT ![p] = Opened(p, fl)]
     /\ UNCHANGED dirs
     /\ \/ Answer("open", 0, -12, <<>>) /\ UNCHANGED desc
        \/ \E f \in Fd :
             /\ ~IsOpen(f)
             /\ Answer("open", f, f, <<>>)
             /\ desc' = [desc EXCEPT ![f] =
                  [path |-> p, writable |-> fl # {},
                   pos |-> IF "APPEND" \in fl THEN Len(Opened(p, fl)) ELSE 0]]

Read(f, n) ==
  /\ ret'.call = "read" /\ IsOpen(f)
  /\ LET left == IF desc[f].pos >= Len(File(f)) THEN 0
                 ELSE Len(File(f)) - desc[f].pos
         k    == IF n > left THEN left ELSE n
     IN /\ Answer("read", f, k, SubSeq(File(f), desc[f].pos + 1, desc[f].pos + k))
        /\ desc' = [desc EXCEPT ![f].pos = @ + k]
  /\ UNCHANGED <<content, dirs>>

\* The file after a write: the n bytes at the position, the old bytes
\* elsewhere, anything where the position was beyond the end.
Written(old, new, pos, n, v) ==
  /\ Len(new) = IF pos + n > Len(old) THEN pos + n ELSE Len(old)
  /\ \A i \in DOMAIN new :
       IF pos < i /\ i <= pos + n THEN new[i] = v
       ELSE i <= Len(old) => new[i] = old[i]

Write(f, n, v) ==
  /\ ret'.call = "write" /\ IsOpen(f)
  /\ \/ Refuse("write", f, -9) /\ ~desc[f].writable
     \/ Refuse("write", f, -12) /\ desc[f].writable
     \/ /\ Answer("write", f, n, <<>>)
        /\ desc[f].writable
        /\ Written(File(f), content'[desc[f].path], desc[f].pos, n, v)
        /\ \A p \in Paths \ {desc[f].path} : content'[p] = content[p]
        /\ desc' = [desc EXCEPT ![f].pos = @ + n]
        /\ UNCHANGED dirs

Seek(f) ==
  /\ ret'.call = "lseek" /\ IsOpen(f)
  /\ \/ Refuse("lseek", f, -22)
     \/ \E np \in 0..(WordSize \div 2 - 1) :
          /\ Answer("lseek", f, np, <<>>)
          /\ desc' = [desc EXCEPT ![f].pos = np]
          /\ UNCHANGED <<content, dirs>>

Close(f) ==
  /\ Answer("close", f, 0, <<>>)
  /\ IsOpen(f)
  /\ desc' = [desc EXCEPT ![f] = Closed]
  /\ UNCHANGED <<content, dirs>>

FStat(f) ==
  /\ ret'.call = "fstat" /\ IsOpen(f)
  /\ Refuse("fstat", f, Len(File(f)))

Stat(p) ==
  /\ ret'.call = "stat"
  /\ Refuse("stat", 0, IF content[p] # NoFile THEN Len(content[p])
                       ELSE IF p \in dirs \cup BlobDirs THEN 0 ELSE -2)

Mkdir(p) ==
  \/ content[p] # NoFile /\ Refuse("mkdir", 0, -17)
  \/ content[p] = NoFile /\ Refuse("mkdir", 0, -12)
  \/ /\ Answer("mkdir", 0, 0, <<>>)
     /\ content[p] = NoFile
     /\ dirs' = dirs \cup {p}
     /\ UNCHANGED <<content, desc>>

NextProgram ==
  /\ Answer("run", 0, 0, <<>>)
  /\ desc' = [f \in Fd |-> Closed]
  /\ UNCHANGED <<content, dirs>>

Init ==
  /\ content = Initial
  /\ dirs = {}
  /\ desc = [f \in Fd |-> Closed]
  /\ ret = [call |-> "run", fd |-> 0, val |-> 0, data |-> <<>>]

Next ==
  \/ \E p \in Paths :
       (\E fl \in Modes : Open(p, fl)) \/ Stat(p) \/ Mkdir(p)
  \/ \E f \in Fd : \/ \E n \in Counts : Read(f, n)
                   \/ \E n \in Counts, v \in Tags : Write(f, n, v)
                   \/ Seek(f) \/ Close(f) \/ FStat(f)
  \/ NextProgram

Spec == Init /\ [][Next]_vars
=============================================================================
