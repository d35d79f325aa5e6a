------------------------ MODULE TilckRingbuf_proofs ------------------------
EXTENDS TilckRingbuf, SequenceTheorems, TLAPS

USE RingbufAssumption DEF RingbufAssumption

(* The inductive invariant.  A call that has loaded the word knows it as it *)
(* is or as it was with fewer elements: the calls above it only write, so   *)
(* the word never comes back to what it was.                                *)

Sound(t) == t.full => t.read_pos = t.write_pos

\* u is t, or t with elements added.
More(t, u) ==
  /\ t.read_pos = u.read_pos
  /\ Count(t) <= Count(u)
  /\ Count(t) = Count(u) => t = u

Writes(f)  == f.op = "write" /\ f.pc \in {"again", "cas"}
Reads(f)   == f.op = "read" /\ f.pc \in {"again", "copy", "cas"}
Fills(f)   == f.op = "write" /\ f.pc = "copy"
HasNext(f) == f.pc = "cas" \/ (f.op = "read" /\ f.pc = "copy")

\* What holds of a call f while the word is u and the buffer b.
LoadedOK(f, u) == Writes(f) \/ Reads(f) =>
  /\ Sound(f.cs) /\ More(f.cs, u)
  /\ Writes(f) => ~f.cs.full
  /\ Reads(f) => ~IsEmpty(f.cs)
NextOK(f, u) == HasNext(f) =>
  /\ Sound(f.ns) /\ More(f.cs, f.ns) /\ More(f.ns, u)
  /\ f.op = "write" => f.part = 1
FilledOK(f, u, b) == Fills(f) =>
  /\ Dist(u.read_pos, f.cs.write_pos) < Count(u)
  /\ \A k \in Part : k < f.part => b[f.cs.write_pos][k] = f.elem[k]
ReadOK(f, b) == Reads(f) /\ f.pc # "again" =>
  \A k \in Part : f.pc = "cas" \/ k < f.part => b[f.cs.read_pos][k] = f.elem[k]

Good(f, u, b) == LoadedOK(f, u) /\ NextOK(f, u) /\ FilledOK(f, u, b) /\ ReadOK(f, b)

\* Two calls, f at another depth than g, use different places.
Apart(f, g) == Fills(g) =>
  /\ Fills(f) => f.cs.write_pos # g.cs.write_pos
  /\ Reads(f) => f.cs.read_pos # g.cs.write_pos

RingInv ==
  /\ TypeOK
  /\ Sound(s)
  /\ \A i \in 1 .. Len(calls) : Good(calls[i], s, buf)
  /\ \A i, j \in 1 .. Len(calls) : i # j => Apart(calls[i], calls[j])

-----------------------------------------------------------------------------
(* Positions.                                                              *)

LEMMA UpIs ==
  ASSUME NEW i \in Slot
  PROVE  Up(i) = (IF i = max_elems - 1 THEN 0 ELSE i + 1) /\ Up(i) \in Slot
<1>1. CASE i = max_elems - 1
  <2>1. i + 1 = max_elems
    BY <1>1 DEF Slot
  <2>2. max_elems % max_elems = 0
    OBVIOUS
  <2>. QED  BY <1>1, <2>1, <2>2 DEF Up, Slot
<1>2. CASE i # max_elems - 1
  <2>1. i + 1 \in 0 .. max_elems - 1
    BY <1>2 DEF Slot
  <2>2. (i + 1) % max_elems = i + 1
    BY <2>1
  <2>. QED  BY <1>2, <2>1, <2>2 DEF Up, Slot
<1>. QED  BY <1>1, <1>2

LEMMA CountIs ==
  ASSUME NEW t \in Stat, Sound(t)
  PROVE  /\ Count(t) \in 0 .. max_elems
         /\ t.full <=> Count(t) = max_elems
         /\ IsEmpty(t) <=> Count(t) = 0
         /\ ~t.full => Dist(t.read_pos, t.write_pos) = Count(t)
BY DEF Stat, Slot, Sound, Count, Dist, IsEmpty

\* What one more element and one less do to the distance.
LEMMA DistUp ==
  ASSUME NEW r \in Slot, NEW w \in Slot
  PROVE  /\ Dist(r, w) \in 0 .. max_elems - 1
         /\ Up(w) = r => Dist(r, w) = max_elems - 1
         /\ Up(w) # r => Dist(r, Up(w)) = Dist(r, w) + 1
         /\ r = w => Dist(Up(r), w) = max_elems - 1
         /\ r # w => Dist(Up(r), w) = Dist(r, w) - 1
<1>1. Up(w) = IF w = max_elems - 1 THEN 0 ELSE w + 1
  BY UpIs
<1>2. Up(r) = IF r = max_elems - 1 THEN 0 ELSE r + 1
  BY UpIs
<1>. QED  BY <1>1, <1>2 DEF Dist, Slot

LEMMA WrittenIs ==
  ASSUME NEW t \in Stat, Sound(t), ~t.full
  PROVE  /\ Written(t) \in Stat /\ Sound(Written(t))
         /\ Written(t).read_pos = t.read_pos
         /\ Count(Written(t)) = Count(t) + 1
         /\ Dist(t.read_pos, t.write_pos) = Count(t)
<1>1. t.write_pos \in Slot /\ t.read_pos \in Slot /\ t.full = FALSE
  BY DEF Stat
<1>2. Up(t.write_pos) \in Slot
  BY <1>1, UpIs
<1>3. PICK w \in Slot : w = Up(t.write_pos)
  BY <1>2
<1>4. PICK x \in BOOLEAN : x = (t.full \/ w = t.read_pos)
  OBVIOUS
<1>5. Written(t) = [t EXCEPT !.write_pos = w, !.full = x]
  BY <1>3, <1>4 DEF Written
<1>6. /\ Written(t).read_pos = t.read_pos /\ Written(t).write_pos = w
      /\ Written(t).full = x /\ Written(t) \in Stat
  BY <1>1, <1>5 DEF Stat
<1>7. Dist(t.read_pos, t.write_pos) = Count(t)
  BY <1>1 DEF Count
<1>8. Sound(Written(t))
  BY <1>1, <1>4, <1>6 DEF Sound
<1>9. Count(Written(t)) = IF x THEN max_elems ELSE Dist(t.read_pos, w)
  BY <1>6 DEF Count
<1>10. Count(Written(t)) = Count(t) + 1
  <2>1. Dist(t.read_pos, t.write_pos) \in Int
    BY <1>1, DistUp
  <2>2. CASE x
    <3>1. Up(t.write_pos) = t.read_pos
      BY <1>1, <1>3, <1>4, <2>2
    <3>2. Dist(t.read_pos, t.write_pos) = max_elems - 1
      BY <1>1, <3>1, DistUp
    <3>. QED  BY <1>7, <1>9, <2>1, <2>2, <3>2
  <2>3. CASE ~x
    <3>1. Up(t.write_pos) # t.read_pos
      BY <1>3, <1>4, <2>3
    <3>2. Dist(t.read_pos, w) = Dist(t.read_pos, t.write_pos) + 1
      BY <1>1, <1>3, <3>1, DistUp
    <3>. QED  BY <1>7, <1>9, <2>1, <2>3, <3>2
  <2>. QED  BY <2>2, <2>3
<1>. QED  BY <1>6, <1>7, <1>8, <1>10

LEMMA ConsumedIs ==
  ASSUME NEW t \in Stat, Sound(t), ~IsEmpty(t)
  PROVE  /\ Consumed(t) \in Stat /\ Sound(Consumed(t))
         /\ Consumed(t).read_pos = Up(t.read_pos)
         /\ Count(Consumed(t)) = Count(t) - 1
<1>1. t.write_pos \in Slot /\ t.read_pos \in Slot /\ t.full \in BOOLEAN
  BY DEF Stat
<1>2. PICK r \in Slot : r = Up(t.read_pos)
  BY <1>1, UpIs
<1>3. Consumed(t) = [t EXCEPT !.read_pos = r, !.full = FALSE]
  BY <1>2 DEF Consumed
<1>4. /\ Consumed(t).read_pos = r /\ Consumed(t).write_pos = t.write_pos
      /\ Consumed(t).full = FALSE /\ Consumed(t) \in Stat
  BY <1>1, <1>3 DEF Stat
<1>5. Count(Consumed(t)) = Dist(r, t.write_pos)
  BY <1>4 DEF Count
<1>6. CASE t.full
  <2>1. t.read_pos = t.write_pos /\ Count(t) = max_elems
    BY <1>6 DEF Sound, Count
  <2>. QED  BY <1>1, <1>2, <1>4, <1>5, <2>1, DistUp DEF Sound
<1>7. CASE ~t.full
  <2>1. t.read_pos # t.write_pos /\ Count(t) = Dist(t.read_pos, t.write_pos)
    BY <1>7 DEF IsEmpty, Count
  <2>. QED  BY <1>1, <1>2, <1>4, <1>5, <2>1, DistUp DEF Sound
<1>. QED  BY <1>6, <1>7

\* The word after a write is later than whatever was known of it before.
LEMMA MoreWritten ==
  ASSUME NEW t \in Stat, NEW u \in Stat, Sound(t), Sound(u), ~u.full, More(t, u)
  PROVE  More(t, Written(u))
<1>1. Count(t) \in Int /\ Count(u) \in Int
  BY CountIs
<1>2. Count(Written(u)) = Count(u) + 1 /\ Written(u).read_pos = u.read_pos
  BY WrittenIs
<1>. QED  BY <1>1, <1>2 DEF More

LEMMA MoreSame ==
  ASSUME NEW t \in Stat, Sound(t)
  PROVE  More(t, t)
BY CountIs DEF More

\* Two words with nothing between them.
LEMMA MoreEqual ==
  ASSUME NEW t \in Stat, NEW u \in Stat, Sound(t), Sound(u), More(t, u), More(u, t)
  PROVE  t = u
BY CountIs DEF More

\* A call that is interrupted by a successful write.
LEMMA GoodWritten ==
  ASSUME NEW f \in Call, NEW u \in Stat, NEW b, Sound(u), ~u.full, Good(f, u, b)
  PROVE  Good(f, Written(u), b)
<1>1. f.cs \in Stat /\ f.ns \in Stat
  BY DEF Call
<1>2. LoadedOK(f, Written(u))
  BY <1>1, MoreWritten DEF Good, LoadedOK
<1>3. NextOK(f, Written(u))
  BY <1>1, MoreWritten DEF Good, NextOK
<1>4. FilledOK(f, Written(u), b)
  <2>1. Written(u).read_pos = u.read_pos /\ Count(Written(u)) = Count(u) + 1
    BY WrittenIs
  <2>2. Count(u) \in Int
    BY CountIs
  <2>3. u.read_pos \in Slot /\ f.cs.write_pos \in Slot
    BY <1>1 DEF Stat
  <2>4. Dist(u.read_pos, f.cs.write_pos) \in Int
    BY <2>3, DistUp
  <2>. QED  BY <2>1, <2>2, <2>4 DEF Good, FilledOK
<1>. QED  BY <1>2, <1>3, <1>4 DEF Good

\* A call that is interrupted by the copy of a part to a place of another.
LEMMA GoodCopied ==
  ASSUME NEW f \in Call, NEW u, NEW b \in [Slot -> Elem], NEW p \in Slot, NEW k \in Part,
         NEW v \in Val, Good(f, u, b),
         Fills(f) => f.cs.write_pos # p, Reads(f) => f.cs.read_pos # p
  PROVE  Good(f, u, [b EXCEPT ![p][k] = v])
<1>. DEFINE c == [b EXCEPT ![p][k] = v]
<1>1. \A q \in Slot : q # p => c[q] = b[q]
  OBVIOUS
<1>2. f.cs.write_pos \in Slot /\ f.cs.read_pos \in Slot
  BY DEF Call, Stat
<1>. HIDE DEF c
<1>3. FilledOK(f, u, c)
  BY <1>1, <1>2 DEF Good, FilledOK
<1>4. ReadOK(f, c)
  BY <1>1, <1>2 DEF Good, ReadOK
<1>. QED  BY <1>3, <1>4 DEF Good, c

-----------------------------------------------------------------------------
(* The stack of calls.                                                     *)

LEMMA Shape ==
  ASSUME TypeOK, calls # <<>>
  PROVE  /\ Len(calls) \in Nat \ {0}
         /\ \A i \in 1 .. Len(calls) : calls[i] \in Call
         /\ Top \in Call
BY DEF TypeOK, Top

LEMMA ContinueIs ==
  ASSUME TypeOK, calls # <<>>, NEW f \in Call, Continue(f)
  PROVE  /\ calls' \in Seq(Call) /\ Len(calls') = Len(calls)
         /\ calls'[Len(calls)] = f
         /\ \A i \in 1 .. Len(calls) : i # Len(calls) => calls'[i] = calls[i]
BY Shape DEF TypeOK, Continue

LEMMA ReturnIs ==
  ASSUME TypeOK, calls # <<>>, Return
  PROVE  /\ calls' \in Seq(Call) /\ Len(calls') = Len(calls) - 1
         /\ \A i \in 1 .. Len(calls') : calls'[i] = calls[i] /\ i \in 1 .. Len(calls) - 1
<1>1. PICK n \in Nat : n = Len(calls) - 1 /\ \A i \in 1 .. n : calls[i] \in Call
  BY Shape
<1>2. calls \in Seq(Call) /\ n <= Len(calls) /\ Len(calls) \in Nat
  BY <1>1, Shape DEF TypeOK
<1>3. Len(SubSeq(calls, 1, n)) = n
  BY <1>1, <1>2
<1>4. \A i \in 1 .. n : SubSeq(calls, 1, n)[i] = calls[i]
  BY <1>1, <1>2
<1>5. SubSeq(calls, 1, n) \in Seq(Call)
  BY <1>1, <1>2
<1>. QED  BY <1>1, <1>3, <1>4, <1>5 DEF Return

LEMMA PushIs ==
  ASSUME TypeOK, NEW f \in Call, calls' = Append(calls, f)
  PROVE  /\ calls' \in Seq(Call) /\ Len(calls') = Len(calls) + 1
         /\ calls'[Len(calls) + 1] = f
         /\ \A i \in 1 .. Len(calls) : calls'[i] = calls[i]
BY DEF TypeOK

-----------------------------------------------------------------------------
(* What a step has to show, by what it does to the stack.                  *)

LEMMA PushKeeps ==
  ASSUME RingInv, NEW f \in Call, calls' = Append(calls, f), UNCHANGED <<s, buf>>,
         Len(calls) < Depth, f.pc = "load", calls # <<>> => f.op = "write"
  PROVE  RingInv'
<1>. DEFINE n == Len(calls)
<1>1. TypeOK /\ n \in Nat
  BY DEF RingInv, TypeOK
<1>2. /\ calls' \in Seq(Call) /\ Len(calls') = n + 1 /\ calls'[n + 1] = f
      /\ \A i \in 1 .. n : calls'[i] = calls[i]
  BY <1>1, PushIs
<1>. HIDE DEF n
<1>3. TypeOK'
  <2>1. calls # <<>> \/ n = 0
    BY DEF n
  <2>2. \A i \in 2 .. n + 1 : calls'[i].op = "write"
    BY <1>1, <1>2, <2>1 DEF TypeOK, n
  <2>. QED  BY <1>1, <1>2, <2>2 DEF TypeOK, n
<1>4. Good(f, s, buf)
  BY DEF Good, LoadedOK, NextOK, FilledOK, ReadOK, Writes, Reads, Fills, HasNext
<1>5. \A i \in 1 .. n + 1 : Good(calls'[i], s', buf')
  BY <1>1, <1>2, <1>4 DEF RingInv, n
<1>6. \A g \in Call : Apart(f, g) /\ Apart(g, f)
  BY DEF Apart, Fills, Reads
<1>7. \A i, j \in 1 .. n + 1 : i # j => Apart(calls'[i], calls'[j])
  <2>1. \A i \in 1 .. n + 1 : calls'[i] \in Call /\ (i = n + 1 \/ i \in 1 .. n)
    BY <1>1, <1>2
  <2>2. \A i, j \in 1 .. n : i # j => Apart(calls'[i], calls'[j])
    BY <1>2 DEF RingInv, n
  <2>. QED  BY <1>2, <1>6, <2>1, <2>2
<1>. QED  BY <1>2, <1>3, <1>5, <1>7 DEF RingInv

LEMMA ContinueKeeps ==
  ASSUME RingInv, calls # <<>>, NEW f \in Call, Continue(f), f.op = Top.op,
         s' \in Stat, Sound(s)', buf' \in [Slot -> Elem], Good(f, s', buf'),
         \A i \in 1 .. Len(calls) - 1 :
           Good(calls[i], s', buf') /\ Apart(calls[i], f) /\ Apart(f, calls[i])
  PROVE  RingInv'
<1>. DEFINE n == Len(calls)
<1>1. TypeOK /\ n \in Nat \ {0}
  BY Shape DEF RingInv
<1>2. /\ calls' \in Seq(Call) /\ Len(calls') = n /\ calls'[n] = f
      /\ \A i \in 1 .. n - 1 : calls'[i] = calls[i]
  BY <1>1, ContinueIs
<1>3. \A i \in 1 .. n : i = n \/ i \in 1 .. n - 1
  BY <1>1
<1>4. TypeOK'
  <2>1. \A i \in 2 .. n : calls'[i].op = "write"
    <3>1. \A i \in 2 .. n : i \in 1 .. n /\ calls[i].op = "write"
      BY <1>1 DEF TypeOK
    <3>. QED  BY <1>2, <1>3, <3>1 DEF Top
  <2>. QED  BY <1>1, <1>2, <2>1 DEF TypeOK
<1>5. \A i, j \in 1 .. n - 1 : i # j => Apart(calls[i], calls[j])
  BY <1>1 DEF RingInv
<1>. HIDE DEF n
<1>6. \A i \in 1 .. n : Good(calls'[i], s', buf')
  BY <1>2, <1>3 DEF n
<1>7. \A i, j \in 1 .. n : i # j => Apart(calls'[i], calls'[j])
  BY <1>2, <1>3, <1>5 DEF n
<1>. QED  BY <1>2, <1>4, <1>6, <1>7 DEF RingInv

LEMMA ReturnKeeps ==
  ASSUME RingInv, calls # <<>>, Return,
         s' \in Stat, Sound(s)', buf' \in [Slot -> Elem],
         \A i \in 1 .. Len(calls) - 1 : Good(calls[i], s', buf')
  PROVE  RingInv'
<1>. DEFINE n == Len(calls)
<1>1. TypeOK /\ n \in Nat \ {0}
  BY Shape DEF RingInv
<1>2. /\ calls' \in Seq(Call) /\ Len(calls') = n - 1
      /\ \A i \in 1 .. n - 1 : calls'[i] = calls[i] /\ i \in 1 .. n
  BY <1>1, ReturnIs
<1>3. TypeOK'
  <2>1. \A i \in 2 .. n - 1 : calls'[i].op = "write"
    BY <1>1, <1>2 DEF TypeOK
  <2>. QED  BY <1>1, <1>2, <2>1 DEF TypeOK
<1>4. \A i, j \in 1 .. n - 1 : i # j => Apart(calls[i], calls[j])
  BY <1>1 DEF RingInv
<1>. QED  BY <1>2, <1>3, <1>4 DEF RingInv

\* A call on top can be seen as it stands by those below.
LEMMA Parts1 ==
  ASSUME RingInv, calls # <<>>
  PROVE  /\ TypeOK /\ Sound(s) /\ s \in Stat /\ buf \in [Slot -> Elem]
         /\ Top \in Call /\ Good(Top, s, buf)
         /\ Len(calls) \in Nat \ {0}
         /\ \A i \in 1 .. Len(calls) - 1 :
              /\ i \in 1 .. Len(calls)
              /\ calls[i] \in Call /\ Good(calls[i], s, buf)
              /\ Apart(calls[i], Top) /\ Apart(Top, calls[i])
<1>1. TypeOK
  BY DEF RingInv
<1>2. Len(calls) \in Nat \ {0} /\ Top \in Call /\ \A i \in 1 .. Len(calls) : calls[i] \in Call
  BY <1>1, Shape
<1>3. Len(calls) \in 1 .. Len(calls)
  BY <1>2
<1>4. \A i \in 1 .. Len(calls) - 1 : i \in 1 .. Len(calls) /\ i # Len(calls)
  BY <1>2
<1>. QED  BY <1>1, <1>2, <1>3, <1>4 DEF RingInv, TypeOK, Top

-----------------------------------------------------------------------------
(* The steps keep the invariant.                                           *)

LEMMA InitInv == Init => RingInv
<1>. SUFFICES ASSUME Init
              PROVE  RingInv
  OBVIOUS
<1>1. s \in Stat /\ Sound(s)
  BY DEF Init, Zero, Stat, Slot, Sound
<1>2. \A v \in Val : Filled(v) \in Elem
  BY DEF Filled, Elem
<1>3. buf \in [Slot -> Elem]
  BY <1>2 DEF Init
<1>4. calls \in Seq(Call) /\ Len(calls) = 0
  BY DEF Init
<1>. QED  BY <1>1, <1>3, <1>4 DEF RingInv, TypeOK

LEMMA BegunIs ==
  ASSUME NEW op \in {"write", "read"}, NEW v \in Val
  PROVE  Begun(op, v) \in Call /\ Begun(op, v).pc = "load" /\ Begun(op, v).op = op
<1>1. Filled(v) \in Elem
  BY DEF Filled, Elem
<1>2. 1 \in Part /\ Zero \in Stat
  BY DEF Part, Zero, Stat, Slot
<1>. QED  BY <1>1, <1>2 DEF Begun, Call, Pcs

LEMMA BeginKeeps ==
  ASSUME RingInv, NEW v \in Val, BeginWrite(v) \/ BeginRead(v)
  PROVE  RingInv'
<1>1. CASE BeginWrite(v)
  BY <1>1, BegunIs, PushKeeps DEF BeginWrite
<1>2. CASE BeginRead(v)
  <2>1. calls' = Append(calls, Begun("read", v)) /\ Len(calls) < Depth
    BY <1>2 DEF BeginRead
  <2>. QED  BY <1>2, <2>1, BegunIs, PushKeeps DEF BeginRead
<1>. QED  BY <1>1, <1>2

\* A step that changes the running call only, which does not fill a place.
LEMMA ThinkKeeps ==
  ASSUME RingInv, calls # <<>>, NEW f \in Call, Continue(f), f.op = Top.op,
         UNCHANGED <<s, buf>>, Good(f, s, buf), ~Fills(f),
         Reads(f) => Len(calls) = 1
  PROVE  RingInv'
<1>1. ASSUME NEW i \in 1 .. Len(calls) - 1
      PROVE  Apart(f, calls[i]) /\ Apart(calls[i], f)
  <2>1. ~Reads(f)
    BY <1>1, Parts1
  <2>. QED  BY <2>1 DEF Apart
<1>. QED  BY <1>1, Parts1, ContinueKeeps

\* Only the lowest call reads.
LEMMA ReadAlone ==
  ASSUME RingInv, calls # <<>>, Top.op = "read"
  PROVE  Len(calls) = 1
<1>1. Len(calls) \in Nat \ {0} /\ \A i \in 2 .. Len(calls) : calls[i].op = "write"
  BY Parts1 DEF TypeOK
<1>2. \A n \in Nat \ {0} : n # 1 => n \in 2 .. n
  OBVIOUS
<1>. QED  BY <1>1, <1>2 DEF Top

LEMMA LoadKeeps ==
  ASSUME RingInv, NEW op \in {"write", "read"}, Load(op)
  PROVE  RingInv'
<1>1. calls # <<>> /\ UNCHANGED <<s, buf>> /\ Top.op = op /\ Top.pc = "load"
  BY DEF Load, Running
<1>2. CASE (op = "write" /\ s.full) \/ (op = "read" /\ IsEmpty(s))
  <2>1. Return
    BY <1>2 DEF Load
  <2>. QED  BY <1>1, <2>1, Parts1, ReturnKeeps
<1>3. CASE ~((op = "write" /\ s.full) \/ (op = "read" /\ IsEmpty(s)))
  <2>. DEFINE f == [Top EXCEPT !.cs = s, !.pc = "again"]
  <2>1. Continue(f)
    BY <1>3 DEF Load
  <2>2. f \in Call /\ f.op = op /\ f.pc = "again" /\ f.cs = s
    BY <1>1, Parts1 DEF Call, Pcs
  <2>. HIDE DEF f
  <2>3. More(s, s) /\ Sound(s)
    BY <1>1, Parts1, MoreSame
  <2>4. Good(f, s, buf)
    BY <1>1, <1>3, <2>2, <2>3
       DEF Good, LoadedOK, NextOK, FilledOK, ReadOK, Writes, Reads, Fills, HasNext
  <2>5. ~Fills(f) /\ (Reads(f) => Len(calls) = 1)
    BY <1>1, <2>2, ReadAlone DEF Fills, Reads
  <2>. QED  BY <1>1, <2>1, <2>2, <2>4, <2>5, ThinkKeeps
<1>. QED  BY <1>2, <1>3

LEMMA LoadAgainKeeps ==
  ASSUME RingInv, NEW op \in {"write", "read"}, LoadAgain(op)
  PROVE  RingInv'
<1>1. calls # <<>> /\ UNCHANGED <<s, buf>> /\ Top.op = op /\ Top.pc = "again"
  BY DEF LoadAgain, Running
<1>. DEFINE pc == IF op = "write" THEN "cas" ELSE "copy"
            f  == [Top EXCEPT !.ns = s, !.part = 1, !.pc = pc]
<1>2. Continue(f)
  BY <1>1 DEF LoadAgain
<1>3. 1 \in Part
  BY DEF Part
<1>4. /\ f \in Call /\ f.op = op /\ f.pc = pc /\ f.cs = Top.cs /\ f.ns = s
      /\ f.part = 1
  BY <1>1, <1>3, Parts1 DEF Call, Pcs
<1>. HIDE DEF f
<1>5. LoadedOK(Top, s) /\ (Writes(Top) \/ Reads(Top))
  BY <1>1, Parts1 DEF Good, Writes, Reads
<1>6. LoadedOK(f, s)
  BY <1>1, <1>4, <1>5 DEF LoadedOK, Writes, Reads
<1>7. NextOK(f, s)
  BY <1>1, <1>4, <1>5, Parts1, MoreSame DEF NextOK, LoadedOK
<1>8. FilledOK(f, s, buf) /\ ~Fills(f)
  BY <1>4 DEF FilledOK, Fills
<1>9. ReadOK(f, buf)
  BY <1>4 DEF ReadOK, Reads, Part
<1>10. Reads(f) => Len(calls) = 1
  BY <1>1, <1>4, ReadAlone DEF Reads
<1>. QED  BY <1>1, <1>2, <1>4, <1>6, <1>7, <1>8, <1>9, <1>10, ThinkKeeps DEF Good

LEMMA CasFailsKeeps ==
  ASSUME RingInv, NEW op \in {"write", "read"}, CasFails(op)
  PROVE  RingInv'
<1>1. calls # <<>> /\ UNCHANGED <<s, buf>>
  BY DEF CasFails, Running
<1>. DEFINE f == [Top EXCEPT !.pc = "load", !.cs = Zero, !.ns = Zero]
<1>2. Continue(f)
  BY DEF CasFails
<1>3. Zero \in Stat
  BY DEF Zero, Stat, Slot
<1>4. f \in Call /\ f.op = Top.op /\ f.pc = "load"
  BY <1>1, <1>3, Parts1 DEF Call, Pcs
<1>. HIDE DEF f
<1>5. Good(f, s, buf) /\ ~Fills(f) /\ ~Reads(f)
  BY <1>4 DEF Good, LoadedOK, NextOK, FilledOK, ReadOK, Writes, Reads, Fills, HasNext
<1>. QED  BY <1>1, <1>2, <1>4, <1>5, ThinkKeeps

\* An exchange that succeeds has loaded the same word twice.
LEMMA SameWord ==
  ASSUME RingInv, calls # <<>>, Top.pc = "cas", Wins(Top)
  PROVE  Top.cs = s /\ Top.ns = s
<1>1. Top.op \in {"write", "read"} /\ Top.cs \in Stat /\ Top.ns \in Stat
  BY Parts1 DEF Call
<1>2. Top.cs = s
  BY DEF Wins
<1>3. Sound(Top.ns) /\ More(Top.cs, Top.ns) /\ More(Top.ns, s)
  BY Parts1 DEF Good, NextOK, HasNext
<1>. QED  BY <1>1, <1>2, <1>3, Parts1, MoreEqual

LEMMA CasWriteKeeps ==
  ASSUME RingInv, CasWrite
  PROVE  RingInv'
<1>1. calls # <<>> /\ Top.op = "write" /\ Top.pc = "cas" /\ Wins(Top) /\ buf' = buf
  BY DEF CasWrite, Running
<1>2. Top.cs = s /\ Top.ns = s /\ ~s.full
  <2>1. Top.cs = s /\ Top.ns = s
    BY <1>1, SameWord
  <2>2. ~Top.cs.full
    BY <1>1, Parts1 DEF Good, LoadedOK, Writes
  <2>. QED  BY <2>1, <2>2
<1>3. s' = Written(s)
  BY <1>2 DEF CasWrite
<1>4. s' \in Stat /\ Sound(s)'
  BY <1>1, <1>2, <1>3, Parts1, WrittenIs DEF Sound
<1>. DEFINE f == [Top EXCEPT !.pc = "copy", !.ns = Zero]
<1>5. Continue(f)
  BY DEF CasWrite
<1>6. Zero \in Stat
  BY DEF Zero, Stat, Slot
<1>7. /\ f \in Call /\ f.op = "write" /\ f.pc = "copy" /\ f.cs = s /\ f.part = Top.part
      /\ f.elem = Top.elem
  BY <1>1, <1>2, <1>6, Parts1 DEF Call, Pcs
<1>. HIDE DEF f
<1>8. Top.part = 1
  BY <1>1, Parts1 DEF Good, NextOK, HasNext
<1>9. Good(f, s', buf')
  <2>1. ~Writes(f) /\ ~Reads(f) /\ ~HasNext(f)
    BY <1>7 DEF Writes, Reads, HasNext
  <2>2. FilledOK(f, s', buf')
    <3>1. s'.read_pos = s.read_pos /\ Count(s') = Count(s) + 1
          /\ Dist(s.read_pos, s.write_pos) = Count(s)
      BY <1>1, <1>2, <1>3, Parts1, WrittenIs
    <3>2. Count(s) \in Int
      BY <1>1, Parts1, CountIs
    <3>. QED  BY <1>7, <1>8, <3>1, <3>2 DEF FilledOK, Part
  <2>. QED  BY <2>1, <2>2 DEF Good, LoadedOK, NextOK, ReadOK
<1>10. ASSUME NEW i \in 1 .. Len(calls) - 1
       PROVE  Good(calls[i], s', buf') /\ Apart(calls[i], f) /\ Apart(f, calls[i])
  <2>1. calls[i] \in Call /\ Good(calls[i], s, buf) /\ s \in Stat /\ Sound(s)
    BY <1>1, Parts1
  <2>2. Good(calls[i], s', buf')
    BY <1>1, <1>2, <1>3, <2>1, GoodWritten
  <2>3. Dist(s.read_pos, s.write_pos) = Count(s) /\ Count(s) \in Int
    BY <1>2, <2>1, WrittenIs, CountIs
  <2>4. Fills(calls[i]) => calls[i].cs.write_pos # s.write_pos
    BY <2>1, <2>3 DEF Good, FilledOK
  <2>5. Reads(calls[i]) => calls[i].cs.read_pos # s.write_pos
    <3>1. SUFFICES ASSUME Reads(calls[i])
                   PROVE  s.read_pos # s.write_pos /\ calls[i].cs.read_pos = s.read_pos
      OBVIOUS
    <3>2. /\ Sound(calls[i].cs) /\ More(calls[i].cs, s) /\ ~IsEmpty(calls[i].cs)
          /\ calls[i].cs \in Stat
      BY <2>1, <3>1 DEF Good, LoadedOK, Call
    <3>3. Count(calls[i].cs) # 0 /\ Count(calls[i].cs) \in Nat
      BY <3>2, CountIs
    <3>4. Count(s) > 0 /\ calls[i].cs.read_pos = s.read_pos
      BY <2>3, <3>2, <3>3 DEF More
    <3>5. s.read_pos \in Slot
      BY <2>1 DEF Stat
    <3>6. s.read_pos = s.write_pos => Dist(s.read_pos, s.write_pos) = 0
      BY <3>5 DEF Dist, Slot
    <3>. QED  BY <2>3, <3>4, <3>6
  <2>6. ~Reads(f)
    BY <1>7 DEF Reads
  <2>. QED  BY <1>7, <2>2, <2>4, <2>5, <2>6 DEF Apart
<1>. QED  BY <1>1, <1>4, <1>5, <1>7, <1>9, <1>10, Parts1, ContinueKeeps

LEMMA CasReadKeeps ==
  ASSUME RingInv, CasRead
  PROVE  RingInv'
<1>1. /\ calls # <<>> /\ Top.op = "read" /\ Top.pc = "cas" /\ Wins(Top)
      /\ buf' = buf /\ Return
  BY DEF CasRead, Running
<1>2. Top.cs = s /\ Top.ns = s /\ Len(calls) = 1
  BY <1>1, SameWord, ReadAlone
<1>3. ~IsEmpty(s)
  BY <1>1, <1>2, Parts1 DEF Good, LoadedOK, Reads
<1>4. s' \in Stat /\ Sound(s)'
  BY <1>2, <1>3, Parts1, ConsumedIs DEF CasRead, Sound
<1>. QED  BY <1>1, <1>2, <1>4, Parts1, ReturnKeeps

LEMMA CopyInKeeps ==
  ASSUME RingInv, CopyIn
  PROVE  RingInv'
<1>. DEFINE p == Top.cs.write_pos
            k == Top.part
            v == Top.elem[k]
<1>1. /\ calls # <<>> /\ Top.op = "write" /\ Top.pc = "copy" /\ s' = s
      /\ buf' = [buf EXCEPT ![p][k] = v]
  BY DEF CopyIn, Running
<1>2. p \in Slot /\ k \in Part /\ v \in Val
  BY <1>1, Parts1 DEF Call, Stat, Elem
<1>3. buf' \in [Slot -> Elem]
  <2>1. buf \in [Slot -> [Part -> Val]]
    BY <1>1, Parts1 DEF Elem
  <2>2. [buf[p] EXCEPT ![k] = v] \in [Part -> Val]
    BY <1>2, <2>1
  <2>. QED  BY <1>1, <1>2, <2>1, <2>2 DEF Elem
<1>4. Fills(Top)
  BY <1>1 DEF Fills
<1>5. ASSUME NEW i \in 1 .. Len(calls) - 1
      PROVE  Good(calls[i], s', buf')
  <2>1. /\ calls[i] \in Call /\ Good(calls[i], s, buf) /\ Apart(calls[i], Top)
        /\ buf \in [Slot -> Elem]
    BY <1>1, Parts1
  <2>2. /\ Fills(calls[i]) => calls[i].cs.write_pos # p
        /\ Reads(calls[i]) => calls[i].cs.read_pos # p
    BY <1>4, <2>1 DEF Apart
  <2>3. Good(calls[i], s, [buf EXCEPT ![p][k] = v])
    <3>. HIDE DEF p, k, v
    <3>. QED  BY <1>2, <2>1, <2>2, GoodCopied
  <2>. QED  BY <1>1, <2>3
<1>6. s' \in Stat /\ Sound(s)'
  BY <1>1, Parts1 DEF Sound
<1>7. CASE k = Parts
  <2>1. Return
    BY <1>7 DEF CopyIn
  <2>. QED  BY <1>1, <1>3, <1>5, <1>6, <2>1, ReturnKeeps
<1>8. CASE k # Parts
  <2>. DEFINE f == [Top EXCEPT !.part = k + 1]
  <2>1. Continue(f)
    BY <1>8 DEF CopyIn
  <2>2. k + 1 \in Part
    BY <1>2, <1>8 DEF Part
  <2>3. /\ f \in Call /\ f.op = "write" /\ f.pc = "copy" /\ f.cs = Top.cs
        /\ f.part = k + 1 /\ f.elem = Top.elem
    BY <1>1, <2>2, Parts1 DEF Call
  <2>. HIDE DEF f
  <2>4. Good(f, s', buf')
    <3>1. FilledOK(Top, s, buf) /\ buf \in [Slot -> Elem]
      BY <1>1, Parts1 DEF Good
    <3>2. ASSUME NEW m \in Part, m < k + 1
          PROVE  buf'[p][m] = Top.elem[m]
      <4>1. buf[p] \in [Part -> Val]
        BY <1>2, <3>1 DEF Elem
      <4>2. buf'[p] = [buf[p] EXCEPT ![k] = v]
        BY <1>1, <1>2, <3>1
      <4>3. m = k \/ m < k
        BY <1>2, <3>2 DEF Part
      <4>4. m < k => buf[p][m] = Top.elem[m]
        BY <1>4, <3>1 DEF FilledOK
      <4>. QED  BY <1>2, <4>1, <4>2, <4>3, <4>4
    <3>3. FilledOK(f, s', buf')
      BY <1>1, <1>4, <2>3, <3>1, <3>2 DEF FilledOK
    <3>4. ~Writes(f) /\ ~Reads(f) /\ ~HasNext(f)
      BY <2>3 DEF Writes, Reads, HasNext
    <3>. QED  BY <3>3, <3>4 DEF Good, LoadedOK, NextOK, ReadOK
  <2>5. \A i \in 1 .. Len(calls) - 1 : Apart(calls[i], f) /\ Apart(f, calls[i])
    BY <1>1, <1>4, <2>3, Parts1 DEF Apart, Fills, Reads
  <2>. QED  BY <1>1, <1>3, <1>5, <1>6, <2>1, <2>3, <2>4, <2>5, ContinueKeeps
<1>. QED  BY <1>7, <1>8

LEMMA CopyOutKeeps ==
  ASSUME RingInv, CopyOut
  PROVE  RingInv'
<1>. DEFINE k  == Top.part
            v  == buf[Top.cs.read_pos][k]
            e  == [Top.elem EXCEPT ![k] = v]
            pt == IF k = Parts THEN 1 ELSE k + 1
            pc == IF k = Parts THEN "cas" ELSE "copy"
            f  == [Top EXCEPT !.elem = e, !.part = pt, !.pc = pc]
<1>1. calls # <<>> /\ Top.op = "read" /\ Top.pc = "copy" /\ UNCHANGED <<s, buf>>
  BY DEF CopyOut, Running
<1>2. /\ k \in Part /\ Top.cs.read_pos \in Slot /\ buf \in [Slot -> [Part -> Val]]
      /\ Top.elem \in [Part -> Val] /\ Len(calls) = 1
  BY <1>1, Parts1, ReadAlone DEF Call, Stat, Elem
<1>3. Continue(f)
  BY DEF CopyOut
<1>4. e \in Elem /\ pt \in Part
  BY <1>2 DEF Elem, Part
<1>5. /\ f \in Call /\ f.op = "read" /\ f.pc = pc /\ f.cs = Top.cs /\ f.ns = Top.ns
      /\ f.part = pt /\ f.elem = e
  <2>. HIDE DEF e, pt
  <2>. QED  BY <1>1, <1>4, Parts1 DEF Call, Pcs
<1>. HIDE DEF f
<1>6. LoadedOK(f, s) /\ NextOK(f, s) /\ FilledOK(f, s, buf) /\ ~Fills(f)
  <2>1. LoadedOK(Top, s) /\ NextOK(Top, s) /\ Reads(Top) /\ HasNext(Top)
    BY <1>1, Parts1 DEF Good, Reads, HasNext
  <2>. QED  BY <1>1, <1>5, <2>1
       DEF LoadedOK, NextOK, FilledOK, Writes, Reads, Fills, HasNext
<1>7. ReadOK(f, buf)
  <2>1. \A m \in Part : m < k => buf[Top.cs.read_pos][m] = Top.elem[m]
    BY <1>1, Parts1 DEF Good, ReadOK, Reads
  <2>2. \A m \in Part : m <= k => buf[Top.cs.read_pos][m] = e[m]
    BY <1>2, <2>1 DEF Part
  <2>3. ASSUME NEW m \in Part, f.pc = "cas" \/ m < f.part
        PROVE  m <= k
    BY <1>2, <1>5, <2>3 DEF Part
  <2>. HIDE DEF e
  <2>. QED  BY <1>5, <2>2, <2>3 DEF ReadOK
<1>. QED  BY <1>1, <1>2, <1>3, <1>5, <1>6, <1>7, ThinkKeeps DEF Good

LEMMA NextKeeps == RingInv /\ [Next]_vars => RingInv'
<1>. SUFFICES ASSUME RingInv, [Next]_vars
              PROVE  RingInv'
  OBVIOUS
<1>1. CASE \E v \in Val : BeginWrite(v) \/ BeginRead(v)
  BY <1>1, BeginKeeps
<1>2. CASE Step
  BY <1>2, LoadKeeps, LoadAgainKeeps, CasFailsKeeps, CasWriteKeeps, CasReadKeeps,
     CopyInKeeps, CopyOutKeeps DEF Step
<1>3. CASE UNCHANGED vars
  BY <1>3 DEF vars, RingInv, TypeOK, Sound, Good, LoadedOK, NextOK, FilledOK, ReadOK,
              Apart, More, Count, Dist
<1>. QED  BY <1>1, <1>2, <1>3 DEF Next

\* The inductive invariant of the ring buffer, for any capacity, any size of
\* the elements and any depth of interrupts.
THEOREM RingAlways == Spec => []RingInv
<1>. QED  BY InitInv, NextKeeps, PTL DEF Spec

\* Types: the positions stay in the buffer; a read is never on top of another
\* call.
THEOREM TypesAlways == Spec => []TypeOK
<1>1. RingInv => TypeOK
  BY DEF RingInv
<1>. QED  BY <1>1, RingAlways, PTL

\* For any depth of interrupts the calls that have been interrupted copy to
\* and from different places.
THEOREM PlacesAlways == Spec => []PlacesApart
<1>1. RingInv => PlacesApart
  <2>. SUFFICES ASSUME RingInv, NEW i \in DOMAIN calls, NEW j \in DOMAIN calls, i # j,
                       HasPlace(calls[i]), HasPlace(calls[j])
                PROVE  Place(calls[i]) # Place(calls[j])
    BY DEF PlacesApart
  <2>1. calls \in Seq(Call) /\ \A k \in 2 .. Len(calls) : calls[k].op = "write"
    BY DEF RingInv, TypeOK
  <2>2. i \in 1 .. Len(calls) /\ j \in 1 .. Len(calls) /\ Len(calls) \in Nat
    BY <2>1
  <2>3. Apart(calls[i], calls[j]) /\ Apart(calls[j], calls[i])
    BY <2>2 DEF RingInv
  <2>4. i = 1 \/ i \in 2 .. Len(calls)
    BY <2>2
  <2>5. j = 1 \/ j \in 2 .. Len(calls)
    BY <2>2
  <2>6. calls[i].op \in {"read", "write"} /\ calls[j].op \in {"read", "write"}
    <3>1. calls[i] \in Call /\ calls[j] \in Call
      BY <2>1, <2>2
    <3>. QED  BY <3>1 DEF Call
  <2>7. calls[i].op = "write" \/ calls[j].op = "write"
    BY <2>1, <2>4, <2>5
  <2>. QED  BY <2>3, <2>6, <2>7 DEF HasPlace, Place, Apart, Fills, Reads
<1>. QED  BY <1>1, RingAlways, PTL

-----------------------------------------------------------------------------
(* The queue that the buffer, the word and the copies that are going on    *)
(* stand for.                                                              *)

FillsAt(i, p) == i \in 1 .. Len(calls) /\ Fills(calls[i]) /\ calls[i].cs.write_pos = p

\* A place that is being filled has one element.
Spelled == \A p \in Slot :
  /\ \A i \in 1 .. Len(calls) : FillsAt(i, p) => Content(p) = calls[i].elem
  /\ (\A i \in 1 .. Len(calls) : ~FillsAt(i, p)) => Content(p) = buf[p]
  /\ Content(p) \in Elem

LEMMA SpelledAlways == RingInv => Spelled
<1>. SUFFICES ASSUME RingInv, NEW p \in Slot
              PROVE  /\ \A i \in 1 .. Len(calls) : FillsAt(i, p) => Content(p) = calls[i].elem
                     /\ (\A i \in 1 .. Len(calls) : ~FillsAt(i, p)) => Content(p) = buf[p]
                     /\ Content(p) \in Elem
  BY DEF Spelled
<1>1. calls \in Seq(Call) /\ buf \in [Slot -> Elem]
  BY DEF RingInv, TypeOK
<1>2. DOMAIN calls = 1 .. Len(calls) /\ \A i \in 1 .. Len(calls) : calls[i] \in Call
  BY <1>1
<1>3. Copying(p) = {i \in 1 .. Len(calls) : FillsAt(i, p)}
  BY <1>2 DEF Copying, Copies, Place, FillsAt, Fills
<1>4. ASSUME NEW i \in 1 .. Len(calls), FillsAt(i, p)
      PROVE  Content(p) = calls[i].elem
  <2>1. \A j \in 1 .. Len(calls) : FillsAt(j, p) => j = i
    BY <1>4 DEF RingInv, Apart, FillsAt
  <2>2. Copying(p) = {i}
    BY <1>3, <1>4, <2>1
  <2>. QED  BY <2>2 DEF Content
<1>5. (\A i \in 1 .. Len(calls) : ~FillsAt(i, p)) => Content(p) = buf[p]
  BY <1>3 DEF Content
<1>6. Content(p) \in Elem
  <2>1. CASE \E i \in 1 .. Len(calls) : FillsAt(i, p)
    <3>1. PICK i \in 1 .. Len(calls) : FillsAt(i, p)
      BY <2>1
    <3>. QED  BY <1>2, <1>4, <3>1 DEF Call
  <2>2. CASE \A i \in 1 .. Len(calls) : ~FillsAt(i, p)
    BY <1>1, <1>5, <2>2
  <2>. QED  BY <2>1, <2>2
<1>. QED  BY <1>4, <1>5, <1>6

LEMMA SpelledNext == RingInv' => Spelled'
BY SpelledAlways, PTL

\* The i-th place is i - 1 places from the first, and no other is.
LEMMA NthIs ==
  ASSUME NEW r \in Slot, NEW i \in 1 .. max_elems,
         NEW p, p = IF r + i - 1 < max_elems THEN r + i - 1 ELSE r + i - 1 - max_elems
  PROVE  /\ p \in Slot /\ Dist(r, p) = i - 1
         /\ \A q \in Slot : Dist(r, q) = i - 1 => q = p
BY DEF Slot, Dist

QueueOK ==
  /\ Count(s) \in 0 .. max_elems /\ s.read_pos \in Slot
  /\ Queue \in Seq(Elem) /\ Len(Queue) = Count(s)
  /\ \A i \in 1 .. Count(s) :
       /\ i \in 1 .. max_elems
       /\ Nth(i) \in Slot /\ Dist(s.read_pos, Nth(i)) = i - 1
       /\ Queue[i] = Content(Nth(i))

LEMMA QueueAlways == RingInv => QueueOK
<1>. SUFFICES ASSUME RingInv
              PROVE  QueueOK
  OBVIOUS
<1>1. s \in Stat /\ Sound(s)
  BY DEF RingInv, TypeOK
<1>2. Count(s) \in 0 .. max_elems /\ s.read_pos \in Slot
  BY <1>1, CountIs DEF Stat
<1>3. \A i \in 1 .. Count(s) : i \in 1 .. max_elems
  BY <1>2
<1>4. \A i \in 1 .. Count(s) : Nth(i) \in Slot /\ Dist(s.read_pos, Nth(i)) = i - 1
  BY <1>2, <1>3, NthIs DEF Nth
<1>5. \A i \in 1 .. Count(s) : Content(Nth(i)) \in Elem
  BY <1>4, SpelledAlways DEF Spelled
<1>6. Queue \in Seq(Elem) /\ Len(Queue) = Count(s)
  <2>. DEFINE n == Count(s)
              c(i) == Content(Nth(i))
  <2>1. n \in Nat /\ \A i \in 1 .. n : c(i) \in Elem
    BY <1>2, <1>5
  <2>. HIDE DEF n, c
  <2>2. [i \in 1 .. n |-> c(i)] \in Seq(Elem) /\ Len([i \in 1 .. n |-> c(i)]) = n
    BY <2>1
  <2>. QED  BY <2>2 DEF Queue, n, c
<1>7. \A i \in 1 .. Count(s) : Queue[i] = Content(Nth(i))
  BY DEF Queue
<1>. QED  BY <1>2, <1>3, <1>4, <1>6, <1>7 DEF QueueOK

LEMMA QueueNext == RingInv' => QueueOK'
BY QueueAlways, PTL

\* What leaves a place as its users see it: the same copy goes on there, or
\* none before and after.
LEMMA ContentSame ==
  ASSUME RingInv, RingInv', NEW p \in Slot,
         \/ \E i : FillsAt(i, p) /\ FillsAt(i, p)' /\ calls'[i].elem = calls[i].elem
         \/ (\A i : ~FillsAt(i, p) /\ ~FillsAt(i, p)') /\ buf'[p] = buf[p]
  PROVE  Content(p)' = Content(p)
<1>1. Spelled /\ Spelled'
  BY SpelledAlways, SpelledNext
<1>2. CASE \E i : FillsAt(i, p) /\ FillsAt(i, p)' /\ calls'[i].elem = calls[i].elem
  <2>1. PICK i : FillsAt(i, p) /\ FillsAt(i, p)' /\ calls'[i].elem = calls[i].elem
    BY <1>2
  <2>2. i \in 1 .. Len(calls) /\ i \in 1 .. Len(calls')
    BY <2>1 DEF FillsAt
  <2>3. Content(p) = calls[i].elem
    BY <1>1, <2>1, <2>2 DEF Spelled
  <2>4. Content(p)' = calls'[i].elem
    BY <1>1, <2>1, <2>2 DEF Spelled
  <2>. QED  BY <2>1, <2>3, <2>4
<1>3. CASE (\A i : ~FillsAt(i, p) /\ ~FillsAt(i, p)') /\ buf'[p] = buf[p]
  <2>1. Content(p) = buf[p]
    BY <1>1, <1>3 DEF Spelled
  <2>2. Content(p)' = buf'[p]
    BY <1>1, <1>3 DEF Spelled
  <2>. QED  BY <1>3, <2>1, <2>2
<1>. QED  BY <1>2, <1>3

LEMMA QueueSame ==
  ASSUME RingInv, RingInv', s' = s, \A p \in Slot : Content(p)' = Content(p)
  PROVE  Queue' = Queue
<1>1. Count(s') = Count(s) /\ \A i : Nth(i)' = Nth(i)
  BY DEF Nth
<1>2. \A i \in 1 .. Count(s) : Nth(i) \in Slot
  BY QueueAlways DEF QueueOK
<1>3. \A i \in 1 .. Count(s) : Content(Nth(i))' = Content(Nth(i))
  BY <1>1, <1>2
<1>. QED  BY <1>1, <1>3 DEF Queue

-----------------------------------------------------------------------------
(* What the steps do to the queue.                                         *)

\* The same copies are going on, and no part has been copied.
LEMMA FillersSame ==
  ASSUME RingInv, RingInv', UNCHANGED <<s, buf>>,
         \A i : \A p \in Slot : FillsAt(i, p)' <=> FillsAt(i, p),
         \A i : \A p \in Slot : FillsAt(i, p) => calls'[i].elem = calls[i].elem
  PROVE  Queue' = Queue
<1>1. ASSUME NEW p \in Slot
      PROVE  Content(p)' = Content(p)
  BY ContentSame
<1>. QED  BY <1>1, QueueSame

LEMMA PushSame ==
  ASSUME RingInv, RingInv', NEW f \in Call, calls' = Append(calls, f), f.pc = "load",
         UNCHANGED <<s, buf>>
  PROVE  Queue' = Queue
<1>1. TypeOK /\ Len(calls) \in Nat
  BY DEF RingInv, TypeOK
<1>2. PICK n \in Nat : n = Len(calls)
  BY <1>1
<1>3. /\ Len(calls') = n + 1 /\ calls'[n + 1] = f
      /\ \A i \in 1 .. n : calls'[i] = calls[i]
  BY <1>1, <1>2, PushIs
<1>4. ~Fills(calls'[n + 1])
  BY <1>3 DEF Fills
<1>5. \A i : i \in 1 .. n + 1 <=> (i \in 1 .. n \/ i = n + 1)
  BY <1>2
<1>6. \A i : \A p \in Slot : FillsAt(i, p)' <=> FillsAt(i, p)
  BY <1>2, <1>3, <1>4, <1>5 DEF FillsAt, Fills
<1>7. \A i : \A p \in Slot : FillsAt(i, p) => calls'[i].elem = calls[i].elem
  BY <1>2, <1>3 DEF FillsAt
<1>. QED  BY <1>6, <1>7, FillersSame

LEMMA ContinueSame ==
  ASSUME RingInv, RingInv', calls # <<>>, NEW f \in Call, Continue(f),
         ~Fills(Top), ~Fills(f), UNCHANGED <<s, buf>>
  PROVE  Queue' = Queue
<1>1. TypeOK /\ Len(calls) \in Nat
  BY DEF RingInv, TypeOK
<1>2. PICK n \in Nat : n = Len(calls)
  BY <1>1
<1>3. /\ Len(calls') = n /\ calls'[n] = f /\ calls[n] = Top
      /\ \A i \in 1 .. n : i # n => calls'[i] = calls[i]
  BY <1>1, <1>2, ContinueIs DEF Top
<1>4. ~Fills(calls'[n]) /\ ~Fills(calls[n])
  BY <1>3
<1>6. \A i : \A p \in Slot : FillsAt(i, p)' <=> FillsAt(i, p)
  BY <1>2, <1>3, <1>4 DEF FillsAt, Fills
<1>7. \A i : \A p \in Slot : FillsAt(i, p) => calls'[i].elem = calls[i].elem
  BY <1>2, <1>3, <1>4 DEF FillsAt
<1>. QED  BY <1>6, <1>7, FillersSame

LEMMA ReturnSame ==
  ASSUME RingInv, RingInv', calls # <<>>, Return, ~Fills(Top), UNCHANGED <<s, buf>>
  PROVE  Queue' = Queue
<1>1. Len(calls) - 1 \in Nat /\ TypeOK
  BY Parts1
<1>2. PICK n \in Nat : n = Len(calls) - 1
  BY <1>1
<1>3. /\ Len(calls') = n /\ Len(calls) = n + 1 /\ calls[n + 1] = Top
      /\ \A i \in 1 .. n : calls'[i] = calls[i]
  BY <1>1, <1>2, ReturnIs DEF Top
<1>4. ~Fills(calls[n + 1])
  BY <1>3
<1>5. \A i : i \in 1 .. n + 1 <=> (i \in 1 .. n \/ i = n + 1)
  BY <1>2
<1>6. \A i : \A p \in Slot : FillsAt(i, p)' <=> FillsAt(i, p)
  BY <1>3, <1>4, <1>5 DEF FillsAt, Fills
<1>7. \A i : \A p \in Slot : FillsAt(i, p) => calls'[i].elem = calls[i].elem
  BY <1>3, <1>4, <1>5 DEF FillsAt
<1>. QED  BY <1>6, <1>7, FillersSame

LEMMA BeginQuiet ==
  ASSUME RingInv, RingInv', NEW v \in Val, BeginWrite(v) \/ BeginRead(v)
  PROVE  Queue' = Queue /\ ret' = ret
<1>1. CASE BeginWrite(v)
  BY <1>1, BegunIs, PushSame DEF BeginWrite
<1>2. CASE BeginRead(v)
  <2>1. calls' = Append(calls, Begun("read", v))
    BY <1>2 DEF BeginRead
  <2>. QED  BY <1>2, <2>1, BegunIs, PushSame DEF BeginRead
<1>. QED  BY <1>1, <1>2

\* A load that finds the buffer full or empty ends its call there.
LEMMA LoadRing ==
  ASSUME RingInv, RingInv', NEW op \in {"write", "read"}, Load(op)
  PROVE  [Ring!Next]_<<Queue, ret>>
<1>1. /\ calls # <<>> /\ UNCHANGED <<s, buf>> /\ Top.op = op /\ Top.pc = "load"
      /\ ~Fills(Top)
  BY DEF Load, Running, Fills
<1>2. CASE (op = "write" /\ s.full) \/ (op = "read" /\ IsEmpty(s))
  <2>1. Return /\ ret' = Failed(op)
    BY <1>2 DEF Load
  <2>2. Queue' = Queue
    BY <1>1, <2>1, ReturnSame
  <2>3. /\ s.full => Len(Queue) = max_elems
        /\ IsEmpty(s) => Len(Queue) = 0
        /\ Queue \in Seq(Elem)
    <3>1. s \in Stat /\ Sound(s)
      BY <1>1, Parts1
    <3>. QED  BY <3>1, CountIs, QueueAlways DEF QueueOK
  <2>4. CASE op = "write"
    <3>1. Top.elem \in Elem
      BY <1>1, Parts1 DEF Call
    <3>2. Ring!Write(Top.elem)
      BY <1>2, <2>1, <2>2, <2>3, <2>4 DEF Ring!Write, Failed
    <3>. QED  BY <3>1, <3>2 DEF Ring!Next
  <2>5. CASE op = "read"
    <3>1. Queue = <<>>
      BY <1>2, <2>3, <2>5
    <3>. QED  BY <2>1, <2>2, <2>5, <3>1 DEF Ring!Next, Ring!Read, Failed
  <2>. QED  BY <2>4, <2>5
<1>3. CASE ~((op = "write" /\ s.full) \/ (op = "read" /\ IsEmpty(s)))
  <2>. DEFINE f == [Top EXCEPT !.cs = s, !.pc = "again"]
  <2>1. Continue(f) /\ ret' = ret
    BY <1>3 DEF Load
  <2>2. f \in Call /\ f.pc = "again"
    BY <1>1, Parts1 DEF Call, Pcs
  <2>. HIDE DEF f
  <2>. QED  BY <1>1, <2>1, <2>2, ContinueSame DEF Fills
<1>. QED  BY <1>2, <1>3

LEMMA LoadAgainQuiet ==
  ASSUME RingInv, RingInv', NEW op \in {"write", "read"}, LoadAgain(op)
  PROVE  Queue' = Queue /\ ret' = ret
<1>1. /\ calls # <<>> /\ UNCHANGED <<s, buf, ret>> /\ Top.op = op /\ Top.pc = "again"
      /\ ~Fills(Top)
  BY DEF LoadAgain, Running, Fills
<1>. DEFINE pc == IF op = "write" THEN "cas" ELSE "copy"
            f  == [Top EXCEPT !.ns = s, !.part = 1, !.pc = pc]
<1>2. Continue(f)
  BY <1>1 DEF LoadAgain
<1>3. f \in Call /\ f.op = op /\ f.pc = pc
  <2>1. 1 \in Part
    BY DEF Part
  <2>. QED  BY <1>1, <2>1, Parts1 DEF Call, Pcs
<1>. HIDE DEF f
<1>. QED  BY <1>1, <1>2, <1>3, ContinueSame DEF Fills

LEMMA CasFailsQuiet ==
  ASSUME RingInv, RingInv', NEW op \in {"write", "read"}, CasFails(op)
  PROVE  Queue' = Queue /\ ret' = ret
<1>1. calls # <<>> /\ UNCHANGED <<s, buf, ret>> /\ ~Fills(Top)
  BY DEF CasFails, Running, Fills
<1>. DEFINE f == [Top EXCEPT !.pc = "load", !.cs = Zero, !.ns = Zero]
<1>2. Continue(f)
  BY DEF CasFails
<1>3. Zero \in Stat
  BY DEF Zero, Stat, Slot
<1>4. f \in Call /\ f.pc = "load"
  BY <1>1, <1>3, Parts1 DEF Call, Pcs
<1>. HIDE DEF f
<1>. QED  BY <1>1, <1>2, <1>4, ContinueSame DEF Fills

LEMMA CopyOutQuiet ==
  ASSUME RingInv, RingInv', CopyOut
  PROVE  Queue' = Queue /\ ret' = ret
<1>. DEFINE k  == Top.part
            e  == [Top.elem EXCEPT ![k] = buf[Top.cs.read_pos][k]]
            pt == IF k = Parts THEN 1 ELSE k + 1
            pc == IF k = Parts THEN "cas" ELSE "copy"
            f  == [Top EXCEPT !.elem = e, !.part = pt, !.pc = pc]
<1>1. /\ calls # <<>> /\ Top.op = "read" /\ UNCHANGED <<s, buf, ret>>
      /\ ~Fills(Top) /\ Continue(f)
  BY DEF CopyOut, Running, Fills
<1>2. /\ k \in Part /\ Top.cs.read_pos \in Slot /\ buf \in [Slot -> [Part -> Val]]
      /\ Top.elem \in [Part -> Val]
  BY <1>1, Parts1 DEF Call, Stat, Elem
<1>3. e \in Elem /\ pt \in Part
  BY <1>2 DEF Elem, Part
<1>4. f \in Call /\ f.op = "read"
  <2>. HIDE DEF e, pt
  <2>. QED  BY <1>1, <1>3, Parts1 DEF Call, Pcs
<1>. HIDE DEF f
<1>. QED  BY <1>1, <1>4, ContinueSame DEF Fills

\* A copy that goes on, or that leaves its place as its users saw it.
LEMMA CopyInQuiet ==
  ASSUME RingInv, RingInv', CopyIn
  PROVE  Queue' = Queue /\ ret' = ret
<1>. DEFINE k == Top.part
            v == Top.elem[k]
<1>0. PICK p \in Slot : p = Top.cs.write_pos
  <2>1. calls # <<>>
    BY DEF CopyIn, Running
  <2>. QED  BY <2>1, Parts1 DEF Call, Stat
<1>1. /\ calls # <<>> /\ Top.op = "write" /\ Top.pc = "copy" /\ s' = s /\ ret' = ret
      /\ buf' = [buf EXCEPT ![p][k] = v] /\ Fills(Top)
  BY <1>0 DEF CopyIn, Running, Fills
<1>2. PICK n \in Nat : n = Len(calls) - 1
  BY <1>1, Parts1
<1>3. /\ Len(calls) = n + 1 /\ calls[n + 1] = Top /\ TypeOK
      /\ p \in Slot /\ k \in Part /\ v \in Val /\ Top.elem \in [Part -> Val]
      /\ buf \in [Slot -> [Part -> Val]]
  BY <1>1, <1>2, Parts1 DEF Top, Call, Stat, Elem
<1>4. \A q \in Slot : q # p => buf'[q] = buf[q]
  <2>. HIDE DEF k, v
  <2>. QED  BY <1>1, <1>3
<1>5. FillsAt(n + 1, p) /\ \A i : \A q \in Slot : FillsAt(i, q) /\ i = n + 1 => q = p
  BY <1>0, <1>1, <1>2, <1>3 DEF FillsAt
<1>6. \A i : i \in 1 .. n + 1 <=> (i \in 1 .. n \/ i = n + 1)
  BY <1>2
<1>7. ~(n + 1 \in 1 .. n)
  BY <1>2
<1>8. CASE k = Parts
  <2>1. Return
    BY <1>8 DEF CopyIn
  <2>2. Len(calls') = n /\ \A i \in 1 .. n : calls'[i] = calls[i]
    BY <1>1, <1>2, <1>3, <2>1, ReturnIs
  <2>3. \A i : \A q \in Slot : FillsAt(i, q)' <=> FillsAt(i, q) /\ i # n + 1
    BY <1>3, <1>6, <1>7, <2>2 DEF FillsAt, Fills
  <2>4. ASSUME NEW q \in Slot, q # p
        PROVE  Content(q)' = Content(q)
    <3>1. \A i : FillsAt(i, q)' <=> FillsAt(i, q)
      BY <1>5, <2>3, <2>4
    <3>2. \A i : FillsAt(i, q) => calls'[i].elem = calls[i].elem
      BY <1>3, <1>5, <1>6, <2>2, <2>4 DEF FillsAt
    <3>. QED  BY <1>4, <2>4, <3>1, <3>2, ContentSame
  <2>5. Content(p)' = Content(p)
    <3>1. Content(p) = Top.elem
      BY <1>2, <1>3, <1>5, <1>6, SpelledAlways DEF Spelled
    <3>2. \A i : ~FillsAt(i, p)'
      <4>1. \A i \in 1 .. n : ~FillsAt(i, p)
        BY <1>0, <1>1, <1>2, <1>3, <1>6, <1>7, Parts1 DEF Apart, FillsAt
      <4>. QED  BY <1>3, <1>6, <2>3, <4>1 DEF FillsAt
    <3>3. Content(p)' = buf'[p]
      BY <1>3, <3>2, SpelledNext DEF Spelled
    <3>4. buf'[p] = [buf[p] EXCEPT ![k] = v] /\ buf[p] \in [Part -> Val]
      <4>. HIDE DEF k, v
      <4>. QED  BY <1>1, <1>3
    <3>5. \A m \in Part : m < k => buf[p][m] = Top.elem[m]
      BY <1>0, <1>1, Parts1 DEF Good, FilledOK
    <3>6. \A m \in Part : m = k \/ m < k
      BY <1>8 DEF Part
    <3>7. \A m \in Part : buf'[p][m] = Top.elem[m]
      BY <1>3, <3>4, <3>5, <3>6
    <3>8. buf'[p] \in [Part -> Val]
      BY <1>3, <3>4
    <3>9. buf'[p] = Top.elem
      BY <1>3, <3>7, <3>8
    <3>. QED  BY <3>1, <3>3, <3>9
  <2>. QED  BY <1>1, <2>4, <2>5, QueueSame
<1>9. CASE k # Parts
  <2>. DEFINE f == [Top EXCEPT !.part = k + 1]
  <2>1. Continue(f)
    BY <1>9 DEF CopyIn
  <2>2. k + 1 \in Part
    BY <1>3, <1>9 DEF Part
  <2>3. /\ f \in Call /\ f.op = "write" /\ f.pc = "copy" /\ f.cs = Top.cs
        /\ f.elem = Top.elem
    BY <1>1, <2>2, Parts1 DEF Call
  <2>. HIDE DEF f
  <2>4. /\ Len(calls') = n + 1 /\ calls'[n + 1] = f
        /\ \A i \in 1 .. n : calls'[i] = calls[i]
    BY <1>1, <1>2, <1>3, <1>6, <1>7, <2>1, <2>3, ContinueIs
  <2>5. Fills(f)
    BY <2>3 DEF Fills
  <2>6. \A i : \A q \in Slot : FillsAt(i, q)' <=> FillsAt(i, q)
    BY <1>1, <1>3, <1>6, <2>3, <2>4, <2>5 DEF FillsAt, Fills
  <2>7. \A i : \A q \in Slot : FillsAt(i, q) => calls'[i].elem = calls[i].elem
    BY <1>3, <1>6, <2>3, <2>4 DEF FillsAt
  <2>8. ASSUME NEW q \in Slot
        PROVE  Content(q)' = Content(q)
    <3>1. CASE \E i : FillsAt(i, q)
      BY <2>6, <2>7, <3>1, ContentSame
    <3>2. CASE \A i : ~FillsAt(i, q)
      BY <1>4, <1>5, <2>6, <3>2, ContentSame
    <3>. QED  BY <3>1, <3>2
  <2>. QED  BY <1>1, <2>8, QueueSame
<1>. QED  BY <1>8, <1>9

\* An exchange of a write adds its element to the queue.
LEMMA CasWriteRing ==
  ASSUME RingInv, RingInv', CasWrite
  PROVE  Top.elem \in Elem /\ Ring!Write(Top.elem)
<1>1. calls # <<>> /\ Top.op = "write" /\ Top.pc = "cas" /\ Wins(Top) /\ buf' = buf
  BY DEF CasWrite, Running
<1>2. Top.cs = s /\ Top.ns = s /\ ~s.full
  <2>1. Top.cs = s /\ Top.ns = s
    BY <1>1, SameWord
  <2>2. ~Top.cs.full
    BY <1>1, Parts1 DEF Good, LoadedOK, Writes
  <2>. QED  BY <2>1, <2>2
<1>3. s' = Written(s) /\ ret' = [call |-> "write", ok |-> TRUE, was_empty |-> IsEmpty(s)]
  BY <1>2 DEF CasWrite
<1>. PICK e \in Elem, w \in Slot : e = Top.elem /\ w = s.write_pos
  BY <1>1, Parts1 DEF Call, Stat
<1>4. s.read_pos \in Slot /\ s \in Stat /\ Sound(s)
  BY <1>1, Parts1 DEF Stat
<1>5. PICK c \in Nat : c = Count(s) /\ c < max_elems
  BY <1>2, <1>4, CountIs
<1>6. s'.read_pos = s.read_pos /\ Count(s') = c + 1 /\ Dist(s.read_pos, w) = c
  BY <1>2, <1>3, <1>4, <1>5, WrittenIs
<1>. DEFINE f == [Top EXCEPT !.pc = "copy", !.ns = Zero]
<1>7. Zero \in Stat
  BY DEF Zero, Stat, Slot
<1>8. f \in Call /\ f.op = "write" /\ f.pc = "copy" /\ f.cs = s /\ f.elem = e /\ Continue(f)
  BY <1>1, <1>2, <1>7, Parts1 DEF Call, Pcs, CasWrite
<1>. HIDE DEF f
<1>9. PICK n \in Nat : n = Len(calls) /\ n \in 1 .. n
  BY <1>1, Parts1
<1>10. /\ Len(calls') = n /\ calls'[n] = f /\ calls[n] = Top
       /\ \A i \in 1 .. n : i # n => calls'[i] = calls[i]
  BY <1>1, <1>8, <1>9, Parts1, ContinueIs DEF Top
<1>11. Fills(f) /\ ~Fills(Top)
  BY <1>1, <1>8 DEF Fills
<1>12. Content(w)' = e
  <2>1. FillsAt(n, w)'
    BY <1>8, <1>9, <1>10, <1>11 DEF FillsAt, Fills
  <2>. QED  BY <1>4, <1>8, <1>9, <1>10, <2>1, SpelledNext DEF Spelled
<1>13. ASSUME NEW p \in Slot, p # w
       PROVE  Content(p)' = Content(p)
  <2>1. \A i : FillsAt(i, p)' <=> FillsAt(i, p)
    BY <1>8, <1>9, <1>10, <1>11, <1>13 DEF FillsAt, Fills
  <2>2. \A i : FillsAt(i, p) => calls'[i].elem = calls[i].elem
    BY <1>9, <1>10, <1>11 DEF FillsAt
  <2>. QED  BY <1>1, <2>1, <2>2, ContentSame
<1>14. /\ Queue \in Seq(Elem) /\ Len(Queue) = c
       /\ \A i \in 1 .. c : /\ i \in 1 .. max_elems
                            /\ Nth(i) \in Slot /\ Dist(s.read_pos, Nth(i)) = i - 1
                            /\ Queue[i] = Content(Nth(i))
  BY <1>5, QueueAlways DEF QueueOK
<1>15. /\ Queue' \in Seq(Elem) /\ Len(Queue') = c + 1
       /\ \A i \in 1 .. c + 1 : Queue'[i] = Content(Nth(i))'
  BY <1>6, QueueNext DEF QueueOK
<1>16. \A i : Nth(i)' = Nth(i)
  BY <1>6 DEF Nth
<1>17. Nth(c + 1) = w
  <2>1. PICK r \in Slot, i \in 1 .. max_elems : r = s.read_pos /\ i = c + 1
    BY <1>4, <1>5
  <2>2. PICK p : p = IF r + i - 1 < max_elems THEN r + i - 1 ELSE r + i - 1 - max_elems
    OBVIOUS
  <2>3. p = Nth(c + 1)
    BY <2>1, <2>2 DEF Nth
  <2>4. \A q \in Slot : Dist(r, q) = i - 1 => q = p
    BY <2>2, NthIs
  <2>5. Dist(r, w) = i - 1
    BY <1>6, <2>1
  <2>. QED  BY <2>3, <2>4, <2>5
<1>18. \A i \in 1 .. c : Queue'[i] = Queue[i]
  <2>. TAKE i \in 1 .. c
  <2>1. Nth(i) \in Slot /\ Nth(i) # w
    BY <1>5, <1>6, <1>14
  <2>2. Content(Nth(i))' = Content(Nth(i))
    BY <1>13, <1>16, <2>1
  <2>3. i \in 1 .. c + 1
    BY <1>5
  <2>. QED  BY <1>14, <1>15, <2>2, <2>3
<1>19. Queue'[c + 1] = e
  <2>1. c + 1 \in 1 .. c + 1
    BY <1>5
  <2>2. Content(Nth(c + 1))' = Content(w)'
    BY <1>16, <1>17
  <2>. QED  BY <1>12, <1>15, <2>1, <2>2
<1>20. Queue' = Append(Queue, e)
  <2>. DEFINE q == Queue
              r == Queue'
  <2>1. /\ q \in Seq(Elem) /\ Len(q) = c /\ r \in Seq(Elem) /\ Len(r) = c + 1
        /\ \A i \in 1 .. c : r[i] = q[i]
        /\ r[c + 1] = e
    BY <1>14, <1>15, <1>18, <1>19
  <2>. HIDE DEF q, r
  <2>2. r = Append(q, e)
    <3>1. \A i \in 1 .. c + 1 : i \in 1 .. c \/ i = c + 1
      BY <1>5
    <3>2. /\ Append(q, e) \in Seq(Elem) /\ Len(Append(q, e)) = c + 1
          /\ Append(q, e)[c + 1] = e /\ \A i \in 1 .. c : Append(q, e)[i] = q[i]
      BY <1>4, <2>1
    <3>3. \A i \in 1 .. c + 1 : r[i] = Append(q, e)[i]
      BY <2>1, <3>1, <3>2
    <3>. QED  BY <2>1, <3>2, <3>3, SeqEqual
  <2>. QED  BY <2>2 DEF q, r
<1>21. IsEmpty(s) <=> Queue = <<>>
  <2>1. IsEmpty(s) <=> c = 0
    BY <1>4, <1>5, CountIs
  <2>2. Queue = <<>> <=> Len(Queue) = 0
    BY <1>14
  <2>. QED  BY <1>14, <2>1, <2>2
<1>22. Ring!Write(e)
  <2>1. IsEmpty(s) = (Queue = <<>>)
    BY <1>21 DEF IsEmpty
  <2>2. Len(Queue) < max_elems
    BY <1>5, <1>14
  <2>. QED  BY <1>3, <1>20, <2>1, <2>2 DEF Ring!Write
<1>. QED  BY <1>4, <1>22

\* An exchange of a read takes the oldest element, and the caller has it.
LEMMA CasReadRing ==
  ASSUME RingInv, RingInv', CasRead
  PROVE  Ring!Read
<1>1. /\ calls # <<>> /\ Top.op = "read" /\ Top.pc = "cas" /\ Wins(Top)
      /\ buf' = buf /\ Return
  BY DEF CasRead, Running
<1>2. Top.cs = s /\ Top.ns = s /\ Len(calls) = 1
  BY <1>1, SameWord, ReadAlone
<1>3. ~IsEmpty(s) /\ s \in Stat /\ Sound(s) /\ Top.elem \in [Part -> Val]
      /\ buf \in [Slot -> [Part -> Val]]
  BY <1>1, <1>2, Parts1 DEF Good, LoadedOK, Reads, Call, Elem
<1>4. s' = Consumed(s) /\ ret' = [call |-> "read", ok |-> TRUE, elem |-> Top.elem]
  BY <1>2 DEF CasRead
<1>5. PICK c \in Nat : c + 1 = Count(s) /\ c + 1 <= max_elems
  <2>1. Count(s) \in 0 .. max_elems /\ Count(s) # 0
    BY <1>3, CountIs
  <2>2. Count(s) - 1 \in Nat /\ (Count(s) - 1) + 1 = Count(s)
    BY <2>1
  <2>. QED  BY <2>1, <2>2
<1>6. s'.read_pos = Up(s.read_pos) /\ Count(s') = c /\ s.read_pos \in Slot
  <2>1. Count(s') = Count(s) - 1 /\ s'.read_pos = Up(s.read_pos)
    BY <1>3, <1>4, ConsumedIs
  <2>. QED  BY <1>3, <1>5, <2>1 DEF Stat
<1>7. Len(calls') = 0
  BY <1>1, <1>2, Parts1, ReturnIs
<1>8. \A i : \A p \in Slot : ~FillsAt(i, p) /\ ~FillsAt(i, p)'
  <2>1. calls[1] = Top
    BY <1>2 DEF Top
  <2>2. ~Fills(calls[1])
    BY <1>1, <2>1 DEF Fills
  <2>. QED  BY <1>2, <1>7, <2>2 DEF FillsAt
<1>9. \A p \in Slot : Content(p) = buf[p] /\ Content(p)' = buf[p]
  BY <1>1, <1>8, SpelledAlways, SpelledNext DEF Spelled
<1>10. /\ Queue \in Seq(Elem) /\ Len(Queue) = c + 1
       /\ \A i \in 1 .. c + 1 : Nth(i) \in Slot /\ Queue[i] = Content(Nth(i))
  BY <1>5, QueueAlways DEF QueueOK
<1>11. /\ Queue' \in Seq(Elem) /\ Len(Queue') = c
       /\ \A i \in 1 .. c : Nth(i)' \in Slot /\ Queue'[i] = Content(Nth(i))'
  BY <1>6, QueueNext DEF QueueOK
<1>12. Nth(1) = s.read_pos
  BY <1>6 DEF Nth, Slot
<1>13. \A i \in 1 .. c : Nth(i)' = Nth(i + 1)
  <2>. TAKE i \in 1 .. c
  <2>1. s'.read_pos = IF s.read_pos = max_elems - 1 THEN 0 ELSE s.read_pos + 1
    BY <1>6, UpIs
  <2>. QED  BY <1>5, <1>6, <2>1 DEF Nth, Slot
<1>14. Queue[1] = Top.elem
  <2>1. 1 \in 1 .. c + 1
    BY <1>5
  <2>2. Queue[1] = buf[s.read_pos]
    BY <1>6, <1>9, <1>10, <1>12, <2>1
  <2>3. \A k \in Part : buf[s.read_pos][k] = Top.elem[k]
    BY <1>1, <1>2, Parts1 DEF Good, ReadOK, Reads
  <2>4. buf[s.read_pos] \in [Part -> Val]
    BY <1>3, <1>6
  <2>5. buf[s.read_pos] = Top.elem
    BY <1>3, <2>3, <2>4
  <2>. QED  BY <2>2, <2>5
<1>15. \A i \in 1 .. c : Queue'[i] = Queue[i + 1]
  <2>. TAKE i \in 1 .. c
  <2>1. i + 1 \in 1 .. c + 1
    BY <1>5
  <2>2. Content(Nth(i))' = buf[Nth(i)']
    BY <1>9, <1>11
  <2>3. Content(Nth(i + 1)) = buf[Nth(i + 1)]
    BY <1>9, <1>10, <2>1
  <2>. QED  BY <1>10, <1>11, <1>13, <2>1, <2>2, <2>3
<1>16. Queue' = Tail(Queue) /\ Queue # <<>> /\ Head(Queue) = Top.elem
  <2>. DEFINE q == Queue
              r == Queue'
  <2>1. /\ q \in Seq(Elem) /\ Len(q) = c + 1 /\ r \in Seq(Elem) /\ Len(r) = c
        /\ \A i \in 1 .. c : r[i] = q[i + 1]
        /\ q[1] = Top.elem
    BY <1>10, <1>11, <1>14, <1>15
  <2>. HIDE DEF q, r
  <2>2. q # <<>> /\ Head(q) = Top.elem
    BY <1>5, <2>1
  <2>3. /\ Tail(q) \in Seq(Elem) /\ Len(Tail(q)) = c
        /\ \A i \in 1 .. c : Tail(q)[i] = q[i + 1]
    BY <1>5, <2>1, <2>2
  <2>4. r = Tail(q)
    BY <2>1, <2>3, SeqEqual
  <2>. QED  BY <2>2, <2>4 DEF q, r
<1>. QED  BY <1>4, <1>16 DEF Ring!Read

LEMMA InitImplements == Init => Ring!Init
<1>. SUFFICES ASSUME Init
              PROVE  Ring!Init
  OBVIOUS
<1>1. RingInv
  BY InitInv
<1>2. Count(s) = 0
  BY DEF Init, Zero, Count, Dist
<1>3. Queue \in Seq(Elem) /\ Len(Queue) = 0
  BY <1>1, <1>2, QueueAlways DEF QueueOK
<1>. QED  BY <1>3 DEF Init, Ring!Init

LEMMA StepImplements ==
  ASSUME RingInv, RingInv', [Next]_vars
  PROVE  [Ring!Next]_<<Queue, ret>>
<1>1. CASE \E v \in Val : BeginWrite(v) \/ BeginRead(v)
  BY <1>1, BeginQuiet
<1>2. CASE \E op \in {"write", "read"} : Load(op)
  BY <1>2, LoadRing
<1>3. CASE \E op \in {"write", "read"} : LoadAgain(op) \/ CasFails(op)
  BY <1>3, LoadAgainQuiet, CasFailsQuiet
<1>4. CASE CopyIn \/ CopyOut
  BY <1>4, CopyInQuiet, CopyOutQuiet
<1>5. CASE CasWrite
  BY <1>5, CasWriteRing DEF Ring!Next
<1>6. CASE CasRead
  BY <1>6, CasReadRing DEF Ring!Next
<1>7. CASE UNCHANGED vars
  <2>1. UNCHANGED <<s, buf, calls, ret>>
    BY <1>7 DEF vars
  <2>2. \A i : \A p \in Slot : FillsAt(i, p)' <=> FillsAt(i, p)
    BY <2>1 DEF FillsAt, Fills
  <2>. QED  BY <2>1, <2>2, FillersSame
<1>. QED  BY <1>1, <1>2, <1>3, <1>4, <1>5, <1>6, <1>7 DEF Next, Step

\* The ring buffer is a queue whose calls take effect at once: no element is
\* lost, torn, read twice or out of order, whatever interrupts whatever.
THEOREM RingImplements == Spec => ImplementsRingQueue
<1>1. RingInv /\ RingInv' /\ [Next]_vars => [Ring!Next]_<<Queue, ret>>
  BY StepImplements
<1>. QED  BY <1>1, InitImplements, RingAlways, PTL DEF Spec, ImplementsRingQueue, Ring!Spec
=============================================================================
