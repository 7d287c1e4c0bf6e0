---------------------------- MODULE RepairProofs ----------------------------
(***************************************************************************)
(* Proofs about Repair: no document is ever without a file                 *)
(* (DocumentsKept), and no name of a stray file goes unreported            *)
(* (OutsideReported), for any directory, any number of deaths and any      *)
(* short ids the plans choose.                                             *)
(*                                                                         *)
(* The new short ids come out of folds over the files, and nothing is      *)
(* assumed of them: Apply refuses to write over other bytes, and that is   *)
(* all the two properties need of the names a plan picks.  What they do    *)
(* need, and what IInv says, is that an operation carries the document of  *)
(* the file it removes, that no file is removed by two operations, and     *)
(* that the ids of a stray file are known before it is removed.            *)
(***************************************************************************)
EXTENDS Repair, FiniteSetTheorems, SequenceTheorems, TLAPS

(* The operations that wait to be applied.  One whose new name is None has  *)
(* written its file and has still to remove the old one.                    *)
Waits == stage \in DOMAIN Batch \cup {"report"}
Numbered(s) == \E S : s \in Seq(S)

(* An operation that has not been started carries the document of its file. *)
Carries(op) ==
  /\ op = Op(op.old, op.new, op.content)
  /\ IsPath(op.new) /\ IsFile(op.content) /\ op.content.doc \in Docs(disk0)
  /\ op.old # None => op.old \in DOMAIN disk /\ disk[op.old].doc = op.content.doc
(* One that has written its file has left another file with that document.  *)
Written(op) ==
  /\ op.old # None
  /\ op.old \in DOMAIN disk =>
       \E q \in DOMAIN disk \ {op.old} : disk[q].doc = disk[op.old].doc
(* The foreign ids of a stray file are known when it is to be removed; one  *)
(* that is rewritten in place keeps its own.                                *)
Known == reported \cup (IF stage \in {"plant", "report"} THEN repaired ELSE {})
Names(op) ==
  op.old \in PrefixMismatches(disk0) =>
    IF op.old = op.new
    THEN op.old \in DOMAIN disk => op.content.ok = disk[op.old].ok /\ op.content.id = disk[op.old].id
    ELSE ForeignIDs(disk0, op.old) \ Held \subseteq Known

OnDisk == AreFiles(disk) /\ AreFiles(disk0) /\ Docs(disk) = Docs(disk0)
Waiting ==
  Waits =>
    /\ Numbered(ops)
    /\ \A i \in 1..Len(ops) :
         /\ Names(ops[i])
         /\ IF ops[i].new = None THEN i = 1 /\ Written(ops[i]) ELSE Carries(ops[i])
    /\ \A i, j \in 1..Len(ops) : i # j /\ ops[i].old = ops[j].old => ops[i].old = None
(* A layout move takes its file out of the rows that are still to be moved. *)
Moves ==
  /\ stage \in {"archive1", "archive2", "move1", "move2"} => queue \subseteq Tickets(disk)
  /\ stage \in {"move1", "move2"} => \A i \in 1..Len(ops) : ops[i].old \notin queue
(* A stray file of the first directory is there, or its ids are reported.   *)
Bears(p) == p \in DOMAIN disk /\ disk[p].ok = disk0[p].ok /\ disk[p].id = disk0[p].id
Strays ==
  \A p \in PrefixMismatches(disk0) : Bears(p) \/ ForeignIDs(disk0, p) \ Held \subseteq reported
IInv == OnDisk /\ Waiting /\ Moves /\ Strays

-----------------------------------------------------------------------------
(* Sequences. *)

(* An enumeration of a finite set names elements of it, none of them twice.   *)
LEMMA Enumeration ==
  ASSUME NEW S, IsFiniteSet(S), NEW f \in SetToSeqs(S)
  PROVE  /\ f \in Seq(S) /\ Len(f) \in Nat /\ DOMAIN f = 1..Len(f)
         /\ \A i \in 1..Len(f) : f[i] \in S
         /\ \A i, j \in 1..Len(f) : i # j => f[i] # f[j]
<1>1. Cardinality(S) \in Nat
  BY FS_CardinalityType
<1>2. f \in [1..Cardinality(S) -> S] /\ \A i, j \in 1..Cardinality(S) : i # j => f[i] # f[j]
  BY DEF SetToSeqs
<1> QED BY <1>1, <1>2

(* Concatenation and Tail keep sequences numbered, and move their elements.   *)
Joins(s, t, u) ==
  /\ Numbered(u) /\ Len(u) = Len(s) + Len(t) /\ Len(s) \in Nat /\ Len(t) \in Nat
  /\ \A i \in 1..Len(u) : \/ i \in 1..Len(s) /\ u[i] = s[i]
                          \/ i - Len(s) \in 1..Len(t) /\ u[i] = t[i - Len(s)]
LEMMA Concatenation ==
  ASSUME NEW s, Numbered(s), NEW t, Numbered(t)
  PROVE  Joins(s, t, s \o t)
<1> PICK S, T : s \in Seq(S) /\ t \in Seq(T)
  BY DEF Numbered
<1>1. s \in Seq(S \cup T) /\ t \in Seq(S \cup T)
  OBVIOUS
<1>2. s \o t \in Seq(S \cup T)
  BY <1>1
<1> QED BY <1>1, <1>2 DEF Numbered, Joins

LEMMA Rest ==
  ASSUME NEW S, NEW s \in Seq(S), s # << >>
  PROVE  /\ Numbered(Tail(s)) /\ Len(Tail(s)) = Len(s) - 1 /\ Head(s) = s[1] /\ 1 \in 1..Len(s)
         /\ \A i \in 1..Len(Tail(s)) : i + 1 \in 2..Len(s) /\ Tail(s)[i] = s[i + 1]
<1>1. Tail(s) \in Seq(S) /\ Len(Tail(s)) = Len(s) - 1 /\ Len(s) >= 1
  OBVIOUS
<1> QED BY <1>1 DEF Numbered

(* Marking the first operation as written.                                    *)
Marks(s, m) ==
  /\ Numbered(m) /\ Len(m) = Len(s) /\ m[1] = Op(s[1].old, None, s[1].content)
  /\ \A i \in 2..Len(s) : m[i] = s[i]
LEMMA Mark ==
  ASSUME NEW s, Numbered(s), s # << >>, s[1] = Op(s[1].old, s[1].new, s[1].content)
  PROVE  Marks(s, [s EXCEPT ![1].new = None])
<1> PICK S : s \in Seq(S)
  BY DEF Numbered
<1> PICK m : m = [s EXCEPT ![1].new = None]
  OBVIOUS
<1>1. PICK o : o = s[1]
  OBVIOUS
<1>2. [o EXCEPT !.new = None] = Op(o.old, None, o.content)
  BY <1>1 DEF Op
<1>3. m = [s EXCEPT ![1] = Op(o.old, None, o.content)]
  BY <1>1, <1>2
<1>4. m \in Seq(S \cup {Op(o.old, None, o.content)}) /\ 1 \in 1..Len(s)
  BY <1>3
<1>5. Marks(s, m)
  BY <1>1, <1>3, <1>4 DEF Numbered, Marks
<1> QED BY <1>5

(* A function on 1..n is a numbered sequence.                                 *)
LEMMA Listed ==
  ASSUME NEW n \in Nat, NEW f, f = [i \in 1..n |-> f[i]]
  PROVE  Numbered(f) /\ Len(f) = n /\ DOMAIN f = 1..n
<1>1. f \in [1..n -> {f[i] : i \in 1..n}]
  OBVIOUS
<1>2. f \in Seq({f[i] : i \in 1..n}) /\ Len(f) = n /\ DOMAIN f = 1..n
  BY <1>1
<1> QED BY <1>2 DEF Numbered

-----------------------------------------------------------------------------
(* What the plans do to a file: it keeps its document. *)

(* One id replaced by another.                                                *)
LEMMA RetargetKeeps ==
  ASSUME NEW c, IsFile(c), NEW old, NEW new
  PROVE  /\ IsFile(Retarget(c, old, new)) /\ Retarget(c, old, new).doc = c.doc
         /\ Retarget(c, old, new).ok = c.ok /\ Retarget(c, old, new).id = c.id
BY DEF IsFile, Retarget

(* Several ids replaced.                                                      *)
LEMMA MappedKeeps ==
  ASSUME NEW c, IsFile(c), NEW map
  PROVE  /\ IsFile(Mapped(c, map)) /\ Mapped(c, map).doc = c.doc
         /\ Mapped(c, map).ok = c.ok /\ Mapped(c, map).id = c.id
BY DEF IsFile, Mapped

(* The bytes of an extended file.                                             *)
LEMMA RenderKeeps ==
  ASSUME NEW c, IsFile(c), NEW new, NEW old, NEW dest
  PROVE  IsFile(RenderLoser(c, new, old, dest)) /\ RenderLoser(c, new, old, dest).doc = c.doc
<1> DEFINE renamed == [c EXCEPT !.id = new]
<1>1. IsFile(renamed) /\ renamed.doc = c.doc
  BY DEF IsFile
<1> HIDE DEF renamed
<1>2. \A d : IsFile(Retarget(renamed, old, d)) /\ Retarget(renamed, old, d).doc = c.doc
  BY <1>1, RetargetKeeps
<1> QED BY <1>1, <1>2 DEF RenderLoser, renamed

(* The bytes of an adopted file.                                              *)
LEMMA AdoptKeeps ==
  ASSUME NEW d, NEW p \in DOMAIN d, IsFile(d[p]), NEW new
  PROVE  IsFile(AdoptContent(d, p, new)) /\ AdoptContent(d, p, new).doc = d[p].doc
<1> DEFINE renamed == [d[p] EXCEPT !.id = NameID(new[p])]
<1>1. IsFile(renamed) /\ renamed.doc = d[p].doc
  BY DEF IsFile
<1> HIDE DEF renamed
<1>2. \A map : IsFile(Mapped(renamed, map)) /\ Mapped(renamed, map).doc = d[p].doc
  BY <1>1, MappedKeeps
<1>3. \A map : IsFile(Mapped(d[p], map)) /\ Mapped(d[p], map).doc = d[p].doc
  BY MappedKeeps
<1> QED BY <1>2, <1>3 DEF AdoptContent, renamed

-----------------------------------------------------------------------------
(* The files. *)

(* A path is not None.                                                        *)
LEMMA PathIsSome == \A p : IsPath(p) => p # None
<1>1. \A a, b, c : <<a, b, c>> # << >>
  OBVIOUS
<1> QED BY <1>1 DEF IsPath, None

(* Writing a file of a known document loses none, removing one that is not    *)
(* the only one neither.                                                      *)
LEMMA WithKeeps ==
  ASSUME NEW d, AreFiles(d), NEW p, IsPath(p), NEW c, IsFile(c), c.doc \in Docs(d),
         p \in DOMAIN d => d[p].doc = c.doc
  PROVE  AreFiles(With(d, p, c)) /\ Docs(With(d, p, c)) = Docs(d)
<1>1. DOMAIN With(d, p, c) = DOMAIN d \cup {p} /\ IsFiniteSet(DOMAIN d \cup {p})
  BY FS_AddElement DEF With, AreFiles
<1>2. \A q \in DOMAIN d \cup {p} : With(d, p, c)[q] = IF q = p THEN c ELSE d[q]
  BY DEF With
<1>3. AreFiles(With(d, p, c))
  BY <1>1, <1>2 DEF AreFiles
<1>4. \A q \in DOMAIN d : With(d, p, c)[q].doc = d[q].doc
  BY <1>2
<1>5. With(d, p, c)[p].doc = c.doc
  BY <1>2
<1>6. Docs(With(d, p, c)) = Docs(d)
  BY <1>1, <1>4, <1>5 DEF Docs
<1> QED BY <1>3, <1>6

LEMMA WithoutKeeps ==
  ASSUME NEW d, AreFiles(d), NEW p,
         p \in DOMAIN d => \E q \in DOMAIN d \ {p} : d[q].doc = d[p].doc
  PROVE  AreFiles(Without(d, p)) /\ Docs(Without(d, p)) = Docs(d)
<1>1. DOMAIN Without(d, p) = DOMAIN d \ {p} /\ IsFiniteSet(DOMAIN d \ {p})
  BY FS_RemoveElement DEF Without, AreFiles
<1>2. \A q \in DOMAIN d \ {p} : Without(d, p)[q] = d[q]
  BY DEF Without
<1>3. AreFiles(Without(d, p))
  BY <1>1, <1>2 DEF AreFiles
<1>4. Docs(Without(d, p)) = Docs(d)
  BY <1>1, <1>2 DEF Docs
<1> QED BY <1>3, <1>4

(* Whether a file is one of the scope depends on its name alone.              *)
LEMMA OwnByName ==
  \A d, p : /\ p \in Own(d) <=> p \in DOMAIN d /\ ScopeOf(NameID(p)) = Scope
            /\ p \in PrefixMismatches(d) <=> p \in DOMAIN d /\ ScopeOf(NameID(p)) # Scope
            /\ p \in Tickets(d) <=> p \in Own(d) /\ Dir(p) # Design
BY DEF Own, PrefixMismatches, Tickets

(* A step that leaves the files alone and forgets no report.                  *)
LEMMA Quiet ==
  ASSUME IInv, disk' = disk, disk0' = disk0, reported \subseteq reported'
  PROVE  OnDisk' /\ Strays'
<1>1. OnDisk'
  BY DEF IInv, OnDisk
<1>2. Strays'
  BY DEF IInv, Strays, Bears
<1> QED BY <1>1, <1>2

-----------------------------------------------------------------------------
(* rewrite.Apply. *)

(* The operation at the head is written.                                      *)
LEMMA WriteKeeps ==
  ASSUME IInv, Applying, ~Applied, Head(ops).new # None, FreeDestination(Head(ops)),
         disk' = With(disk, Head(ops).new, Head(ops).content),
         ops' = IF Moved(Head(ops)) THEN [ops EXCEPT ![1].new = None] ELSE Tail(ops),
         stage' = stage, queue' = queue, repaired' = repaired, reported' = reported, disk0' = disk0
  PROVE  IInv'
<1> DEFINE op == ops[1]
<1>1. OnDisk /\ Waiting /\ Moves /\ Strays /\ Waits /\ ops # << >>
  BY DEF IInv, Applying, Applied, Waits
<1>2. PICK S : ops \in Seq(S)
  BY <1>1 DEF Waiting, Numbered
<1>3. /\ Head(ops) = op /\ 1 \in 1..Len(ops) /\ Len(ops) \in Nat
      /\ Numbered(Tail(ops)) /\ Len(Tail(ops)) = Len(ops) - 1
      /\ \A i \in 1..Len(Tail(ops)) : i + 1 \in 2..Len(ops) /\ Tail(ops)[i] = ops[i + 1]
  BY <1>1, <1>2, Rest
<1>4. Carries(op) /\ Names(op) /\ op.new # None
  BY <1>1, <1>3 DEF Waiting
<1>5. op.new \in DOMAIN disk => IF op.old = op.new THEN disk[op.new].doc = op.content.doc
                                                   ELSE disk[op.new] = op.content
  BY <1>3, <1>4 DEF FreeDestination, Carries
<1>6. OnDisk'
  BY <1>1, <1>3, <1>4, <1>5, WithKeeps DEF OnDisk, Carries
<1>7. /\ DOMAIN disk' = DOMAIN disk \cup {op.new}
      /\ \A q \in DOMAIN disk : q # op.old \/ op.old # op.new => disk'[q] = disk[q]
      /\ disk'[op.new] = op.content
  BY <1>3, <1>5 DEF With
<1>8. ASSUME NEW i \in 2..Len(ops), NEW o, o = ops[i]
      PROVE  Names(o)' /\ o.new # None /\ Carries(o)'
  <2>1. Names(o) /\ o.new # None /\ Carries(o) /\ (o.old = op.old => o.old = None)
    BY <1>1, <1>3, <1>8 DEF Waiting
  <2>2. o.old # None => o.old \in DOMAIN disk /\ disk'[o.old] = disk[o.old]
    BY <1>7, <2>1 DEF Carries
  <2>3. Carries(o)'
    BY <1>7, <2>1, <2>2 DEF Carries
  <2>4. o.old = o.new => o.old # None
    BY <2>1
  <2>5. Names(o)'
    BY <2>1, <2>2, <2>4 DEF Names, Known
  <2> QED BY <2>1, <2>3, <2>5
<1>9. Moved(op) => Marks(ops, ops')
  <2>1. op = Op(op.old, op.new, op.content) /\ Numbered(ops)
    BY <1>1, <1>4 DEF Carries, Waiting
  <2>2. Marks(ops, [ops EXCEPT ![1].new = None])
    BY <1>1, <2>1, Mark
  <2> QED BY <1>3, <2>2
<1>10. Waiting'
  <2>1. CASE Moved(op)
    <3>1. op.old # None /\ op.old # op.new
      BY <2>1 DEF Moved
    <3>2. PICK m : m = ops'
      OBVIOUS
    <3>3. ops' = m
      BY <3>2
    <3>4. /\ Numbered(m) /\ Len(m) = Len(ops) /\ m[1] = Op(op.old, None, op.content)
          /\ \A i \in 2..Len(ops) : m[i] = ops[i]
      BY <1>9, <2>1, <3>2 DEF Marks
    <3>5. PICK o : o = m[1]
      OBVIOUS
    <3>6. o.old = op.old /\ o.new = None
      BY <3>4, <3>5 DEF Op
    <3>7. Names(o)'
      BY <1>4, <3>1, <3>6 DEF Names, Known
    <3>8. Written(o)'
      <4>1. op.old \in DOMAIN disk /\ disk[op.old].doc = op.content.doc /\ disk'[op.old] = disk[op.old]
        BY <1>4, <1>7, <3>1 DEF Carries
      <4> QED BY <1>7, <3>1, <3>6, <4>1 DEF Written
    <3>9. \A i \in 1..Len(ops) : m[i].old = ops[i].old
      BY <3>4, <3>5, <3>6
    <3>10. ASSUME NEW i \in 1..Len(m)
           PROVE  Names(m[i])' /\ IF m[i].new = None THEN i = 1 /\ Written(m[i])' ELSE Carries(m[i])'
      <4>1. CASE i = 1
        BY <3>5, <3>6, <3>7, <3>8, <4>1
      <4>2. CASE i # 1
        BY <1>8, <3>4, <4>2
      <4> QED BY <4>1, <4>2
    <3>11. \A i, j \in 1..Len(m) : i # j /\ m[i].old = m[j].old => m[i].old = None
      BY <1>1, <3>4, <3>9 DEF Waiting
    <3> QED BY <3>3, <3>4, <3>10, <3>11 DEF Waiting
  <2>2. CASE ~Moved(op)
    <3>1. PICK m : m = Tail(ops)
      OBVIOUS
    <3>2. ops' = m
      BY <1>3, <2>2, <3>1
    <3>3. ASSUME NEW i \in 1..Len(m)
          PROVE  Names(m[i])' /\ m[i].new # None /\ Carries(m[i])'
      BY <1>3, <1>8, <3>1
    <3>4. \A i, j \in 1..Len(m) : i # j /\ m[i].old = m[j].old => m[i].old = None
      BY <1>1, <1>3, <3>1 DEF Waiting
    <3> QED BY <1>3, <3>1, <3>2, <3>3, <3>4 DEF Waiting
  <2> QED BY <2>1, <2>2
<1>11. Moves'
  <2>1. Tickets(disk) \subseteq Tickets(disk')
    BY <1>7, OwnByName
  <2>2. stage \in {"move1", "move2"} => \A i \in 1..Len(ops') : ops'[i].old \notin queue
    <3>1. CASE Moved(op)
      <4>1. \A i \in 1..Len(ops') : i \in 1..Len(ops) /\ ops'[i].old = ops[i].old
        <5>1. /\ Len(ops') = Len(ops) /\ ops'[1] = Op(op.old, None, op.content)
              /\ \A i \in 2..Len(ops) : ops'[i] = ops[i]
          BY <1>9, <3>1 DEF Marks
        <5> QED BY <1>3, <5>1 DEF Op
      <4> QED BY <1>1, <4>1 DEF Moves
    <3>2. CASE ~Moved(op)
      BY <1>1, <1>3, <3>2 DEF Moves
    <3> QED BY <3>1, <3>2
  <2> QED BY <1>1, <2>1, <2>2 DEF Moves
<1>12. Strays'
  <2> SUFFICES ASSUME NEW p \in PrefixMismatches(disk0), Bears(p)
               PROVE  Bears(p)' \/ ForeignIDs(disk0, p) \ Held \subseteq reported
    BY <1>1 DEF Strays
  <2>1. CASE p # op.old \/ op.old # op.new
    BY <1>7, <2>1 DEF Bears
  <2>2. CASE p = op.old /\ op.old = op.new
    BY <1>4, <1>7, <2>2 DEF Bears, Names
  <2> QED BY <2>1, <2>2
<1> QED BY <1>6, <1>10, <1>11, <1>12 DEF IInv

(* The old file of the operation at the head is removed.                      *)
LEMMA RemoveKeeps ==
  ASSUME IInv, RemoveOld
  PROVE  IInv'
<1> DEFINE op == ops[1]
<1>1. OnDisk /\ Waiting /\ Moves /\ Strays /\ Waits /\ ops # << >>
  BY DEF IInv, RemoveOld, Applying, Applied, Waits
<1>2. PICK S : ops \in Seq(S)
  BY <1>1 DEF Waiting, Numbered
<1>3. PICK m : m = Tail(ops)
  OBVIOUS
<1>4. /\ Head(ops) = op /\ 1 \in 1..Len(ops) /\ Len(ops) \in Nat
      /\ Numbered(m) /\ Len(m) = Len(ops) - 1
      /\ \A i \in 1..Len(m) : i + 1 \in 2..Len(ops) /\ m[i] = ops[i + 1]
  BY <1>1, <1>2, <1>3, Rest
<1>5. /\ disk' = Without(disk, op.old) /\ ops' = m /\ op.new = None
      /\ stage' = stage /\ queue' = queue /\ repaired' = repaired /\ reported' = reported /\ disk0' = disk0
  BY <1>3, <1>4 DEF RemoveOld
<1>6. Written(op) /\ Names(op)
  BY <1>1, <1>4, <1>5 DEF Waiting
<1>7. OnDisk'
  BY <1>1, <1>5, <1>6, WithoutKeeps DEF OnDisk, Written
<1>8. DOMAIN disk' = DOMAIN disk \ {op.old} /\ \A q \in DOMAIN disk \ {op.old} : disk'[q] = disk[q]
  BY <1>5 DEF Without
<1>9. ASSUME NEW i \in 1..Len(m), NEW o, o = m[i]
      PROVE  Names(o)' /\ o.new # None /\ Carries(o)'
  <2>1. Names(o) /\ o.new # None /\ Carries(o) /\ (o.old = op.old => o.old = None)
    BY <1>1, <1>4, <1>9 DEF Waiting
  <2>2. o.old # None => o.old \in DOMAIN disk' /\ disk'[o.old] = disk[o.old]
    BY <1>6, <1>8, <2>1 DEF Carries, Written
  <2>3. Carries(o)'
    BY <1>5, <2>1, <2>2 DEF Carries
  <2>4. o.old = o.new => o.old # None
    BY <2>1
  <2>5. Known' = Known
    BY <1>5 DEF Known
  <2>6. o.old \in PrefixMismatches(disk0) /\ o.old = o.new
          => o.content.ok = disk'[o.old].ok /\ o.content.id = disk'[o.old].id
    BY <2>1, <2>2, <2>4 DEF Names, Carries
  <2>7. Names(o)'
    BY <1>5, <2>1, <2>5, <2>6 DEF Names
  <2> QED BY <2>1, <2>3, <2>7
<1>10. Waiting'
  <2>1. \A i, j \in 1..Len(m) : i # j /\ m[i].old = m[j].old => m[i].old = None
    BY <1>1, <1>4 DEF Waiting
  <2> QED BY <1>4, <1>5, <1>9, <2>1 DEF Waiting
<1>11. Moves'
  <2>1. stage \in {"move1", "move2"} => op.old \notin queue
    BY <1>1, <1>4 DEF Moves
  <2>2. \A x : x \in Tickets(disk) /\ x # op.old => x \in Tickets(disk')
    BY <1>8, OwnByName
  <2>3. stage \notin {"archive1", "archive2"}
    BY DEF RemoveOld, Applying, Batch
  <2> QED BY <1>1, <1>4, <1>5, <2>1, <2>2, <2>3 DEF Moves
<1>12. Strays'
  <2>1. stage \notin {"plant", "report"}
    BY <1>4, <1>5, <1>6 DEF RemoveOld, Applying, Applied, Batch, Moved, Written
  <2>2. ASSUME NEW p \in PrefixMismatches(disk0), p # op.old, Bears(p)
        PROVE  Bears(p)'
    BY <1>5, <1>8, <2>2 DEF Bears
  <2>3. op.old \in PrefixMismatches(disk0) => ForeignIDs(disk0, op.old) \ Held \subseteq reported
    BY <1>5, <1>6, <2>1 DEF Names, Known, Written
  <2> QED BY <1>1, <1>5, <2>2, <2>3 DEF Strays
<1> QED BY <1>7, <1>10, <1>11, <1>12 DEF IInv

-----------------------------------------------------------------------------
(* The plans. *)

(* The fields of an operation.                                                *)
LEMMA OpFields ==
  \A a, b, c : /\ Op(a, b, c).old = a /\ Op(a, b, c).new = b /\ Op(a, b, c).content = c
BY DEF Op

(* An operation made of a file and bytes with its document carries it.        *)
LEMMA OpCarries ==
  ASSUME OnDisk, NEW p \in DOMAIN disk, NEW q, IsPath(q), NEW c, IsFile(c), c.doc = disk[p].doc
  PROVE  Carries(Op(p, q, c)) /\ Carries(Op(None, q, c))
<1>1. c.doc \in Docs(disk0)
  BY DEF OnDisk, Docs
<1> QED BY <1>1, OpFields DEF Carries

(* A renamed file is one of the scope.                                        *)
LEMMA RenamedIsOwn ==
  ASSUME NEW p, NEW short
  PROVE  IsPath(Renamed(p, <<Scope, short>>)) /\ ScopeOf(NameID(Renamed(p, <<Scope, short>>))) = Scope
BY DEF IsPath, Renamed, Dir, NameID, Slug, ScopeOf

(* A plan whose operations fit the files is a sound one.                      *)
LEMMA PlanFits ==
  ASSUME IInv, disk' = disk, disk0' = disk0, NEW m, ops' = m, Numbered(m),
         \A i \in 1..Len(m) : Names(m[i])' /\ Carries(m[i]),
         \A i, j \in 1..Len(m) : i # j /\ m[i].old = m[j].old => m[i].old = None
  PROVE  Waiting'
<1>1. ASSUME NEW i \in 1..Len(m)
      PROVE  Names(m[i])' /\ m[i].new # None /\ Carries(m[i])'
  <2>1. PICK o : o = m[i]
    OBVIOUS
  <2>2. Names(o)' /\ Carries(o)
    BY <2>1
  <2>3. Carries(o)' /\ o.new # None
    BY <2>2, PathIsSome DEF Carries
  <2> QED BY <2>1, <2>2, <2>3
<1> QED BY <1>1 DEF Waiting

(* The plan of an adoption: new files, then references, then removals.        *)
LEMMA PrefixFits ==
  ASSUME IInv, disk' = disk, disk0' = disk0, reported' = reported,
         NEW new, DOMAIN new = PrefixMismatches(disk),
         \A p \in DOMAIN new : IsPath(new[p]) /\ ScopeOf(NameID(new[p])) = Scope,
         NEW map, DOMAIN map = (UNION {ForeignIDs(disk, p) : p \in DOMAIN new}) \ Held,
         NEW sorted \in SetToSeqs(DOMAIN new),
         NEW referrers \in SetToSeqs(EdgeReferrers(disk, DOMAIN new, map)),
         stage' = "plant", repaired' = DOMAIN map,
         ops' = PrefixOps(disk, new, sorted, referrers, map)
  PROVE  Waiting'
<1> PICK content : content = [p \in DOMAIN new |-> AdoptContent(disk, p, new)]
  OBVIOUS
<1> PICK mapped : mapped = [p \in DOMAIN disk |-> Mapped(disk[p], map)]
  OBVIOUS
<1>1. OnDisk /\ Strays
  BY DEF IInv
<1>2. /\ DOMAIN new \subseteq DOMAIN disk
      /\ EdgeReferrers(disk, DOMAIN new, map) \subseteq DOMAIN disk \ DOMAIN new
      /\ IsFiniteSet(DOMAIN new) /\ IsFiniteSet(EdgeReferrers(disk, DOMAIN new, map))
  <2>1. /\ DOMAIN new \subseteq DOMAIN disk
        /\ EdgeReferrers(disk, DOMAIN new, map) \subseteq DOMAIN disk \ DOMAIN new
    BY OwnByName DEF EdgeReferrers
  <2> QED BY <1>1, <2>1, FS_Subset DEF OnDisk, AreFiles
<1>3. /\ Len(sorted) \in Nat /\ DOMAIN sorted = 1..Len(sorted)
      /\ \A i \in 1..Len(sorted) : sorted[i] \in DOMAIN new
      /\ \A i, j \in 1..Len(sorted) : i # j => sorted[i] # sorted[j]
  BY <1>2, Enumeration
<1>4. /\ Len(referrers) \in Nat /\ DOMAIN referrers = 1..Len(referrers)
      /\ \A i \in 1..Len(referrers) : referrers[i] \in DOMAIN disk \ DOMAIN new
      /\ \A i, j \in 1..Len(referrers) : i # j => referrers[i] # referrers[j]
  BY <1>2, Enumeration
<1>5. \A p \in DOMAIN disk : IsPath(p) /\ IsFile(disk[p])
  BY <1>1 DEF OnDisk, AreFiles
<1>6. \A p \in DOMAIN new : /\ IsFile(content[p]) /\ content[p].doc = disk[p].doc
                            /\ Carries(Op(None, new[p], content[p])) /\ Names(Op(None, new[p], content[p]))'
                            /\ Carries(Op(p, new[p], content[p])) /\ Names(Op(p, new[p], content[p]))'
  <2> TAKE p \in DOMAIN new
  <2>1. IsFile(content[p]) /\ content[p].doc = disk[p].doc
    BY <1>2, <1>5, AdoptKeeps
  <2>2. Carries(Op(None, new[p], content[p])) /\ Carries(Op(p, new[p], content[p]))
    BY <1>1, <1>2, <2>1, OpCarries
  <2>3. None \notin PrefixMismatches(disk0)
    BY <1>1, OwnByName, PathIsSome DEF OnDisk, AreFiles
  <2>4. Names(Op(None, new[p], content[p]))'
    BY <2>3, OpFields DEF Names
  <2>5. p # new[p]
    BY OwnByName
  <2>6. ForeignIDs(disk, p) \ Held \subseteq DOMAIN map
    OBVIOUS
  <2>7. p \in PrefixMismatches(disk0) => ForeignIDs(disk0, p) \ Held \subseteq reported \cup DOMAIN map
    <3>1. Bears(p) => ForeignIDs(disk0, p) = ForeignIDs(disk, p)
      BY DEF Bears, ForeignIDs
    <3> QED BY <1>1, <2>6, <3>1 DEF Strays
  <2>8. Names(Op(p, new[p], content[p]))'
    BY <2>5, <2>7, OpFields DEF Names, Known
  <2> QED BY <2>1, <2>2, <2>4, <2>8
<1>7. \A p \in DOMAIN disk : /\ Carries(Op(p, p, mapped[p]))
                             /\ Names(Op(p, p, mapped[p]))'
  <2> TAKE p \in DOMAIN disk
  <2>1. /\ IsFile(mapped[p]) /\ mapped[p].doc = disk[p].doc
        /\ mapped[p].ok = disk[p].ok /\ mapped[p].id = disk[p].id
    BY <1>5, MappedKeeps
  <2>2. Carries(Op(p, p, mapped[p]))
    BY <1>1, <1>5, <2>1, OpCarries
  <2>3. Names(Op(p, p, mapped[p]))'
    BY <2>1, OpFields DEF Names
  <2> QED BY <2>2, <2>3
<1>8. PICK plants : plants = [i \in 1..Len(sorted) |-> Op(None, new[sorted[i]], content[sorted[i]])]
  OBVIOUS
<1>9. PICK edges : edges = [i \in 1..Len(referrers) |-> Op(referrers[i], referrers[i], mapped[referrers[i]])]
  OBVIOUS
<1>10. PICK unlinks : unlinks = [i \in 1..Len(sorted) |-> Op(sorted[i], new[sorted[i]], content[sorted[i]])]
  OBVIOUS
<1>11. /\ Numbered(plants) /\ Len(plants) = Len(sorted)
       /\ Numbered(edges) /\ Len(edges) = Len(referrers)
       /\ Numbered(unlinks) /\ Len(unlinks) = Len(sorted)
  BY <1>3, <1>4, <1>8, <1>9, <1>10, Listed
<1>12. ops' = (plants \o edges) \o unlinks
  <2>1. plants = [i \in DOMAIN sorted |-> Op(None, new[sorted[i]], AdoptContent(disk, sorted[i], new))]
    BY <1>3, <1>8
  <2>2. edges = [i \in DOMAIN referrers |-> Op(referrers[i], referrers[i], Mapped(disk[referrers[i]], map))]
    BY <1>4, <1>9
  <2>3. unlinks = [i \in DOMAIN sorted |-> Op(sorted[i], new[sorted[i]], AdoptContent(disk, sorted[i], new))]
    BY <1>3, <1>10
  <2> QED BY <2>1, <2>2, <2>3 DEF PrefixOps
<1>13. PICK u : u = plants \o edges
  OBVIOUS
<1>14. /\ Numbered(u) /\ Len(u) = Len(sorted) + Len(referrers)
       /\ \A i \in 1..Len(u) : \/ i \in 1..Len(sorted) /\ u[i] = plants[i]
                               \/ /\ i - Len(sorted) \in 1..Len(referrers)
                                  /\ u[i] = edges[i - Len(sorted)]
  <2>1. Joins(plants, edges, u)
    BY <1>11, <1>13, Concatenation
  <2> QED BY <1>11, <2>1 DEF Joins
<1>15. PICK m : m = u \o unlinks
  OBVIOUS
<1>16. /\ Numbered(m) /\ Len(m) = Len(u) + Len(sorted)
       /\ \A i \in 1..Len(m) : \/ i \in 1..Len(u) /\ m[i] = u[i]
                               \/ i - Len(u) \in 1..Len(sorted) /\ m[i] = unlinks[i - Len(u)]
  <2>1. Joins(u, unlinks, m)
    BY <1>11, <1>14, <1>15, Concatenation
  <2> QED BY <1>11, <2>1 DEF Joins
<1>17. ASSUME NEW i \in 1..Len(m)
       PROVE  \/ \E p \in DOMAIN new : m[i] = Op(None, new[p], content[p])
              \/ /\ i - Len(sorted) \in 1..Len(referrers)
                 /\ \E p \in DOMAIN disk : /\ p = referrers[i - Len(sorted)]
                                           /\ m[i] = Op(p, p, mapped[p])
              \/ /\ i - Len(u) \in 1..Len(sorted)
                 /\ \E p \in DOMAIN new : p = sorted[i - Len(u)] /\ m[i] = Op(p, new[p], content[p])
  <2>1. CASE i \in 1..Len(sorted) /\ m[i] = plants[i]
    BY <1>3, <1>8, <2>1
  <2>2. CASE i - Len(sorted) \in 1..Len(referrers) /\ m[i] = edges[i - Len(sorted)]
    BY <1>4, <1>9, <2>2
  <2>3. CASE i - Len(u) \in 1..Len(sorted) /\ m[i] = unlinks[i - Len(u)]
    BY <1>3, <1>10, <2>3
  <2> QED BY <1>14, <1>16, <2>1, <2>2, <2>3
<1>18. ASSUME NEW i \in 1..Len(m)
       PROVE  Names(m[i])' /\ Carries(m[i])
  <2> PICK o : o = m[i]
    OBVIOUS
  <2>1. CASE \E p \in DOMAIN new : o = Op(None, new[p], content[p])
    BY <1>6, <2>1
  <2>2. CASE \E p \in DOMAIN disk : o = Op(p, p, mapped[p])
    BY <1>7, <2>2
  <2>3. CASE \E p \in DOMAIN new : o = Op(p, new[p], content[p])
    BY <1>6, <2>3
  <2>4. Names(o)' /\ Carries(o)
    BY <1>17, <2>1, <2>2, <2>3
  <2> QED BY <2>4
<1>19. ASSUME NEW i \in 1..Len(m), NEW j \in 1..Len(m), i # j, m[i].old = m[j].old
       PROVE  m[i].old = None
  <2>1. ASSUME NEW k \in 1..Len(m)
        PROVE  \/ m[k].old = None
               \/ k - Len(sorted) \in 1..Len(referrers) /\ m[k].old = referrers[k - Len(sorted)]
               \/ k - Len(u) \in 1..Len(sorted) /\ m[k].old = sorted[k - Len(u)]
    BY <1>17, OpFields
  <2>2. \A k, l \in 1..Len(m) : k # l => k - Len(sorted) # l - Len(sorted) /\ k - Len(u) # l - Len(u)
    BY <1>3, <1>4, <1>14
  <2> QED BY <1>3, <1>4, <1>19, <2>1, <2>2
<1> QED BY <1>12, <1>13, <1>15, <1>16, <1>18, <1>19, PlanFits

(* The plan of a group: its losers, then the files that follow a moved id.    *)
LEMMA ExtendFits ==
  ASSUME IInv, disk' = disk, disk0' = disk0,
         NEW losers, losers \subseteq Own(disk), NEW order \in SetToSeqs(losers),
         NEW id, NEW retargets, NEW planned, planned.ok,
         NEW moves, moves = LoserOps(disk, order, id, retargets, planned),
         NEW referrers \in SetToSeqs(ToRetarget(disk, order, id, retargets, planned, moves)),
         ops' = moves \o RetargetOps(disk, referrers, id, planned)
  PROVE  Waiting'
<1> PICK rest : rest = RetargetOps(disk, referrers, id, planned)
  OBVIOUS
<1>1. OnDisk /\ \A p \in DOMAIN disk : IsPath(p) /\ IsFile(disk[p])
  BY DEF IInv, OnDisk, AreFiles
<1>2. /\ losers \subseteq DOMAIN disk /\ ToRetarget(disk, order, id, retargets, planned, moves) \subseteq DOMAIN disk
      /\ IsFiniteSet(losers) /\ IsFiniteSet(ToRetarget(disk, order, id, retargets, planned, moves))
  <2>1. /\ losers \subseteq DOMAIN disk
        /\ ToRetarget(disk, order, id, retargets, planned, moves) \subseteq DOMAIN disk
    BY OwnByName DEF ToRetarget, Referrers
  <2> QED BY <1>1, <2>1, FS_Subset DEF OnDisk, AreFiles
<1>3. /\ Len(order) \in Nat /\ DOMAIN order = 1..Len(order)
      /\ \A i \in 1..Len(order) : order[i] \in losers
      /\ \A i, j \in 1..Len(order) : i # j => order[i] # order[j]
  BY <1>2, Enumeration
<1>4. /\ Len(referrers) \in Nat /\ DOMAIN referrers = 1..Len(referrers)
      /\ \A i \in 1..Len(referrers) : referrers[i] \in ToRetarget(disk, order, id, retargets, planned, moves)
      /\ \A i, j \in 1..Len(referrers) : i # j => referrers[i] # referrers[j]
  BY <1>2, Enumeration
<1>5. \A i \in 1..Len(referrers), j \in 1..Len(order) : referrers[i] # order[j]
  <2>1. \A j \in 1..Len(order) : order[j] \in ToSet(order)
    BY <1>3 DEF ToSet
  <2>2. \A p \in ToRetarget(disk, order, id, retargets, planned, moves) : p \notin ToSet(order)
    BY DEF ToRetarget, Referrers
  <2> QED BY <1>4, <2>1, <2>2
<1>6. Numbered(moves) /\ Len(moves) = Len(order)
      /\ \A i \in 1..Len(order) : \E q, c : /\ moves[i] = Op(order[i], q, c) /\ IsPath(q)
                                            /\ IsFile(c) /\ c.doc = disk[order[i]].doc
  <2> DEFINE path(i) == ExtendedPath(disk, order[i], planned.shorts[i])
             bytes(i) == RenderLoser(disk[order[i]], <<Scope, planned.shorts[i]>>, id,
                                     LinkDest(disk, order[i], id, retargets, planned.shorts))
  <2>1. moves = [i \in 1..Len(order) |-> Op(order[i], path(i), bytes(i))]
    BY <1>3 DEF LoserOps
  <2>2. \A i \in 1..Len(order) : IsPath(path(i))
    BY <1>1, RenamedIsOwn DEF ExtendedPath, Readable
  <2>3. \A i \in 1..Len(order) : IsFile(bytes(i)) /\ bytes(i).doc = disk[order[i]].doc
    <3> TAKE i \in 1..Len(order)
    <3>1. IsFile(disk[order[i]])
      BY <1>1, <1>2, <1>3
    <3> QED BY <3>1, RenderKeeps
  <2> HIDE DEF path, bytes
  <2>4. moves = [i \in 1..Len(order) |-> moves[i]] /\ \A i \in 1..Len(order) : moves[i] = Op(order[i], path(i), bytes(i))
    BY <2>1
  <2> QED BY <1>3, <2>2, <2>3, <2>4, Listed
<1>7. Numbered(rest) /\ Len(rest) = Len(referrers)
      /\ \A i \in 1..Len(referrers) : \E c : /\ rest[i] = Op(referrers[i], referrers[i], c) /\ IsFile(c)
                                             /\ c.doc = disk[referrers[i]].doc /\ c.ok = disk[referrers[i]].ok
                                             /\ c.id = disk[referrers[i]].id
  <2> DEFINE bytes(i) == Retarget(disk[referrers[i]], id, <<Scope, Head(planned.shorts)>>)
  <2>1. rest = [i \in 1..Len(referrers) |-> Op(referrers[i], referrers[i], bytes(i))]
    BY <1>4 DEF RetargetOps
  <2>2. \A i \in 1..Len(referrers) : /\ IsFile(bytes(i)) /\ bytes(i).doc = disk[referrers[i]].doc
                                     /\ bytes(i).ok = disk[referrers[i]].ok /\ bytes(i).id = disk[referrers[i]].id
    <3> TAKE i \in 1..Len(referrers)
    <3>1. IsFile(disk[referrers[i]])
      BY <1>1, <1>2, <1>4
    <3> QED BY <3>1, RetargetKeeps
  <2> HIDE DEF bytes
  <2>3. rest = [i \in 1..Len(referrers) |-> rest[i]]
        /\ \A i \in 1..Len(referrers) : rest[i] = Op(referrers[i], referrers[i], bytes(i))
    BY <2>1
  <2> QED BY <1>4, <2>2, <2>3, Listed
<1>8. PICK m : m = moves \o rest
  OBVIOUS
<1>9. Joins(moves, rest, m)
  BY <1>6, <1>7, <1>8, Concatenation
<1>10. ASSUME NEW i \in 1..Len(order)
       PROVE  Names(moves[i])' /\ Carries(moves[i]) /\ moves[i].old = order[i]
  <2> PICK q, c : /\ moves[i] = Op(order[i], q, c) /\ IsPath(q)
                  /\ IsFile(c) /\ c.doc = disk[order[i]].doc
    BY <1>6
  <2> PICK o : o = moves[i]
    OBVIOUS
  <2>1. o = Op(order[i], q, c) /\ order[i] \in Own(disk)
    BY <1>3
  <2>2. Carries(o)
    BY <1>1, <1>2, <1>3, <2>1, OpCarries
  <2>3. Names(o)'
    BY <2>1, OwnByName, OpFields DEF Names
  <2> QED BY <2>1, <2>2, <2>3, OpFields
<1>11. ASSUME NEW i \in 1..Len(referrers)
       PROVE  Names(rest[i])' /\ Carries(rest[i]) /\ rest[i].old = referrers[i]
  <2> PICK c : /\ rest[i] = Op(referrers[i], referrers[i], c) /\ IsFile(c)
               /\ c.doc = disk[referrers[i]].doc /\ c.ok = disk[referrers[i]].ok
               /\ c.id = disk[referrers[i]].id
    BY <1>7
  <2> PICK o : o = rest[i]
    OBVIOUS
  <2>1. o = Op(referrers[i], referrers[i], c) /\ referrers[i] \in DOMAIN disk
    BY <1>2, <1>4
  <2>2. Carries(o)
    BY <1>1, <2>1, OpCarries
  <2>3. Names(o)'
    BY <2>1, OpFields DEF Names
  <2> QED BY <2>1, <2>2, <2>3, OpFields
<1>12. \A i \in 1..Len(m) : \/ i \in 1..Len(order) /\ m[i] = moves[i]
                            \/ i - Len(order) \in 1..Len(referrers) /\ m[i] = rest[i - Len(order)]
  BY <1>6, <1>7, <1>9 DEF Joins
<1>13. ASSUME NEW i \in 1..Len(m)
       PROVE  Names(m[i])' /\ Carries(m[i])
  BY <1>10, <1>11, <1>12
<1>14. ASSUME NEW i \in 1..Len(m), NEW j \in 1..Len(m), i # j
       PROVE  m[i].old # m[j].old
  <2>1. \A k \in 1..Len(m) :
          \/ k \in 1..Len(order) /\ m[k].old = order[k]
          \/ k - Len(order) \in 1..Len(referrers) /\ m[k].old = referrers[k - Len(order)]
    BY <1>10, <1>11, <1>12, ZenonT(60)
  <2>2. i - Len(order) # j - Len(order)
    BY <1>3, <1>6, <1>7, <1>9, <1>14 DEF Joins
  <2> QED BY <1>3, <1>4, <1>5, <1>14, <2>1, <2>2, ZenonT(60)
<1>15. Numbered(m) /\ ops' = m
  BY <1>8, <1>9 DEF Joins
<1>16. \A i, j \in 1..Len(m) : i # j /\ m[i].old = m[j].old => m[i].old = None
  BY <1>14
<1> QED BY <1>13, <1>15, <1>16, PlanFits


(* A layout move.                                                             *)
LEMMA MoveFits ==
  ASSUME IInv, disk' = disk, disk0' = disk0,
         NEW p \in Tickets(disk), ops' = <<ArchiveMove(disk, p)>>
  PROVE  Waiting' /\ Len(ops') = 1 /\ ops'[1].old = p
<1> PICK q : q = <<IF disk[p].terminal THEN Archive ELSE Root, NameID(p), Slug(p)>>
  OBVIOUS
<1> PICK o : o = Op(p, q, disk[p])
  OBVIOUS
<1> PICK m : m = <<o>>
  OBVIOUS
<1>1. ops' = m
  BY DEF ArchiveMove
<1>2. Numbered(m) /\ Len(m) = 1 /\ m[1] = o
  <2>1. m \in Seq({o}) /\ Len(m) = 1 /\ m[1] = o
    OBVIOUS
  <2> QED BY <2>1 DEF Numbered
<1>3. OnDisk /\ p \in DOMAIN disk /\ p \in Own(disk)
  BY OwnByName DEF IInv
<1>4. IsPath(q) /\ IsFile(disk[p])
  BY <1>3 DEF IsPath, Dir, NameID, Slug, OnDisk, AreFiles
<1>5. Carries(o)
  BY <1>3, <1>4, OpCarries
<1>6. Names(o)'
  BY <1>3, OwnByName, OpFields DEF Names
<1>7. Waiting'
  BY <1>1, <1>2, <1>5, <1>6, PlanFits
<1> QED BY <1>1, <1>2, <1>7, OpFields

-----------------------------------------------------------------------------
(* The steps. *)

(* The rows of an archive pass are tickets.                                   *)
LEMMA RowsAreTickets ==
  \A next : next \in {"archive1", "archive2"} => Rows(disk, next) \subseteq Tickets(disk)
BY DEF Rows

(* A run that is not applying a batch has nothing to be kept.                 *)
LEMMA Idle ==
  ASSUME stage' \in {"idle", "dead", "done", "prefix", "shared", "dups"}
  PROVE  Waiting' /\ Moves'
BY DEF Waiting, Moves, Waits, Batch

(* An archive pass begins with its rows and no operation.                     *)
LEMMA ArchiveBegins ==
  ASSUME NEW next \in {"archive1", "archive2"}, Goto(next), disk' = disk
  PROVE  Waiting' /\ Moves'
BY RowsAreTickets DEF Waiting, Moves, Waits, Batch, Goto, Tickets, Own

(* The directories a run may start from satisfy the invariant: nothing waits,  *)
(* and every stray file is there with its ids.                                *)
THEOREM Initial == Init => IInv
<1> SUFFICES ASSUME Init
             PROVE  IInv
  OBVIOUS
<1>1. OnDisk
  BY WorldsAreFiles DEF Init, OnDisk
<1>2. Waiting /\ Moves
  BY DEF Init, Waiting, Moves, Waits, Batch
<1>3. Strays
  BY DEF Init, Strays, Bears, PrefixMismatches
<1> QED BY <1>1, <1>2, <1>3 DEF IInv

(* repairPrefixes: the plan of an adoption, or none is needed, or it fails.    *)
LEMMA PlanPrefixKeeps ==
  ASSUME IInv, PlanPrefix
  PROVE  IInv'
<1>1. OnDisk' /\ Strays'
  BY Quiet DEF PlanPrefix
<1>2. Waiting' /\ Moves'
  <2>1. CASE PrefixMismatches(disk) = {}
    BY <2>1, ArchiveBegins DEF PlanPrefix
  <2>2. CASE Adopt(AdoptPrefix(disk))
    <3> PICK assigned : assigned = AdoptPrefix(disk)
      OBVIOUS
    <3> PICK new : new = assigned.new
      OBVIOUS
    <3> PICK map : map = ClaimKeptIDs(disk, new)
      OBVIOUS
    <3>1. DOMAIN new = PrefixMismatches(disk) /\ \A p \in DOMAIN new : \E short : new[p] = Renamed(p, <<Scope, short>>)
      <4>1. \A pins : /\ DOMAIN AssignPinned(disk, PrefixMismatches(disk), pins, {}).new = PrefixMismatches(disk)
                      /\ \A p \in PrefixMismatches(disk) : \E short :
                           AssignPinned(disk, PrefixMismatches(disk), pins, {}).new[p] = Renamed(p, <<Scope, short>>)
        BY DEF AssignPinned
      <4> QED BY <4>1, ZenonT(60) DEF AdoptPrefix
    <3>2. \A p \in DOMAIN new : IsPath(new[p]) /\ ScopeOf(NameID(new[p])) = Scope
      <4> TAKE p \in DOMAIN new
      <4>1. PICK short : new[p] = Renamed(p, <<Scope, short>>)
        BY <3>1
      <4> QED BY <4>1, RenamedIsOwn
    <3>3. DOMAIN map = (UNION {ForeignIDs(disk, p) : p \in DOMAIN new}) \ Held
      BY DEF ClaimKeptIDs
    <3>4. AdoptWith(assigned, map)
      BY <2>2 DEF Adopt
    <3>5. CASE Fail
      BY <3>5, Idle DEF Fail
    <3>6. CASE ~Fail
      <4>1. PICK sorted \in InOrder(DOMAIN new, PathLess) :
            \E referrers \in InOrder(EdgeReferrers(disk, DOMAIN new, map), PathLess) :
              /\ stage' = "plant" /\ repaired' = DOMAIN map
              /\ ops' = PrefixOps(disk, new, sorted, referrers, map)
        BY <3>4, <3>6 DEF AdoptWith
      <4>2. PICK referrers \in InOrder(EdgeReferrers(disk, DOMAIN new, map), PathLess) :
              /\ stage' = "plant" /\ repaired' = DOMAIN map
              /\ ops' = PrefixOps(disk, new, sorted, referrers, map)
        BY <4>1
      <4>3. sorted \in SetToSeqs(DOMAIN new) /\ referrers \in SetToSeqs(EdgeReferrers(disk, DOMAIN new, map))
        BY DEF InOrder
      <4>4. disk' = disk /\ disk0' = disk0 /\ reported' = reported
        BY DEF PlanPrefix
      <4>5. Waiting'
        BY <3>1, <3>2, <3>3, <4>2, <4>3, <4>4, PrefixFits
      <4>6. Moves'
        BY <4>2 DEF Moves
      <4> QED BY <4>5, <4>6
    <3> QED BY <3>5, <3>6
  <2> QED BY <2>1, <2>2 DEF PlanPrefix
<1> QED BY <1>1, <1>2 DEF IInv

(* repairArchive: the next layout move.                                       *)
LEMMA PlanMoveKeeps ==
  ASSUME IInv, PlanMove
  PROVE  IInv'
<1>1. OnDisk' /\ Strays'
  BY Quiet DEF PlanMove
<1>2. queue \subseteq Tickets(disk)
  BY DEF IInv, Moves, PlanMove
<1>3. PICK p \in queue : ops' = <<ArchiveMove(disk, p)>> /\ queue' = queue \ {p}
  BY DEF PlanMove
<1>4. disk' = disk /\ disk0' = disk0 /\ stage' \in {"move1", "move2"}
  BY DEF PlanMove
<1>5. Waiting' /\ Len(ops') = 1 /\ ops'[1].old = p
  BY <1>2, <1>3, <1>4, MoveFits
<1>6. Moves'
  BY <1>2, <1>3, <1>4, <1>5 DEF Moves, Tickets, Own
<1> QED BY <1>1, <1>5, <1>6 DEF IInv

(* repairCollisions: the next group is left alone, extended or refused.        *)
LEMMA PlanCollisionKeeps ==
  ASSUME IInv, PlanCollision
  PROVE  IInv'
<1>1. OnDisk' /\ Strays'
  BY Quiet DEF PlanCollision
<1>2. PICK id \in queue : PlanGroup(id, Members(id))
  BY DEF PlanCollision
<1>3. stage \in {"shared", "dups"} /\ disk' = disk /\ disk0' = disk0
  BY DEF PlanCollision
<1> PICK rows : rows = Members(id)
  OBVIOUS
<1>4. rows \subseteq Own(disk)
  BY DEF Members, Holders, RowsOf, Tickets
<1>5. CASE LeftAlone(rows)
  <2>1. stage' = stage
    BY <1>2, <1>5 DEF PlanGroup
  <2> QED BY <1>1, <1>3, <2>1, Idle DEF IInv
<1>6. CASE ~LeftAlone(rows)
  <2>1. ExtendLosers(id, rows)
    BY <1>2, <1>6 DEF PlanGroup
  <2>2. PICK keeper \in rows : ExtendAll(id, rows \ {keeper}, Retargets(disk, keeper, rows \ {keeper}))
    BY <2>1 DEF ExtendLosers
  <2> PICK losers : losers = rows \ {keeper}
    OBVIOUS
  <2> PICK retargets : retargets = Retargets(disk, keeper, losers)
    OBVIOUS
  <2>3. PICK order \in SetToSeqs(losers) :
          PlanWith(id, order, retargets, PlanShorts(disk, order, id, retargets))
    BY <2>2 DEF ExtendAll, InOrder
  <2> PICK planned : planned = PlanShorts(disk, order, id, retargets)
    OBVIOUS
  <2> PICK moves : moves = LoserOps(disk, order, id, retargets, planned)
    OBVIOUS
  <2>4. RetargetWith(id, order, retargets, planned, moves)
    BY <2>3 DEF PlanWith
  <2>5. PICK referrers \in SetToSeqs(ToRetarget(disk, order, id, retargets, planned, moves)) :
          ExtendWith(id, planned, moves \o RetargetOps(disk, referrers, id, planned))
    BY <2>4 DEF RetargetWith, InOrder
  <2>6. CASE ~planned.ok
    <3>1. stage' = "done"
      BY <2>5, <2>6 DEF ExtendWith
    <3> QED BY <1>1, <3>1, Idle DEF IInv
  <2>7. CASE planned.ok
    <3>1. /\ stage' \in {"extend", "fork"}
          /\ ops' = moves \o RetargetOps(disk, referrers, id, planned)
      BY <2>5, <2>7 DEF ExtendWith
    <3>2. losers \subseteq Own(disk)
      BY <1>4
    <3>3. Waiting'
      BY <1>3, <2>7, <3>1, <3>2, ExtendFits
    <3>4. Moves'
      BY <3>1 DEF Moves
    <3> QED BY <1>1, <3>3, <3>4 DEF IInv
  <2> QED BY <2>6, <2>7
<1> QED BY <1>5, <1>6

(* finishRepairBatch: the next stage starts with nothing or with its rows; an  *)
(* adoption goes on with its removals, which reportPrefixEdges precedes.       *)
LEMMA FinishKeeps ==
  ASSUME IInv, Finish
  PROVE  IInv'
<1>1. OnDisk' /\ Strays'
  BY Quiet DEF Finish
<1>2. /\ stage \in DOMAIN Batch /\ stage' = Batch[stage] /\ disk' = disk /\ disk0' = disk0
      /\ ops' = ops /\ reported' = reported /\ repaired' = repaired
      /\ queue' = IF stage = "unlink" THEN Rows(disk, "archive1") ELSE queue
  BY DEF Finish, Applying
<1>3. stage \in {"plant", "unlink", "move1", "extend", "fork", "move2"}
  BY <1>2 DEF Batch
<1>4. CASE stage = "plant"
  <2>1. stage' = "report"
    BY <1>2, <1>4 DEF Batch
  <2>2. Known' = Known
    BY <1>2, <1>4, <2>1 DEF Known
  <2>3. Waits /\ Waiting
    BY <1>3 DEF IInv, Waits, Batch
  <2>4. Waiting'
    BY <1>2, <2>2, <2>3 DEF Waiting, Names, Written, Carries
  <2> QED BY <1>1, <2>1, <2>4 DEF IInv, Moves
<1>5. CASE stage \in {"unlink", "move1", "move2"}
  <2>1. stage' \in {"archive1", "archive2"}
    BY <1>2, <1>5 DEF Batch
  <2>2. queue' \subseteq Tickets(disk)
    BY <1>2, <1>5, RowsAreTickets DEF IInv, Moves
  <2>3. Waiting' /\ Moves'
    BY <1>2, <2>1, <2>2 DEF Waiting, Waits, Batch, Moves, Tickets, Own
  <2> QED BY <1>1, <2>3 DEF IInv
<1>6. CASE stage \in {"extend", "fork"}
  <2>1. stage' \in {"shared", "dups"}
    BY <1>2, <1>6 DEF Batch
  <2> QED BY <1>1, <2>1, Idle DEF IInv
<1> QED BY <1>3, <1>4, <1>5, <1>6

(* reportPrefixEdges: what was known is reported.                             *)
LEMMA ReportKeeps ==
  ASSUME IInv, ReportPrefixEdges
  PROVE  IInv'
<1>1. /\ stage = "report" /\ stage' = "unlink" /\ reported' = reported \cup repaired
      /\ disk' = disk /\ disk0' = disk0 /\ ops' = ops
  BY DEF ReportPrefixEdges
<1>2. OnDisk' /\ Strays'
  BY <1>1, Quiet
<1>3. Known \subseteq Known'
  BY <1>1 DEF Known
<1>4. Waiting
  BY DEF IInv
<1>5. Waiting'
  BY <1>1, <1>3, <1>4 DEF Waiting, Waits, Names, Written, Carries
<1> QED BY <1>1, <1>2, <1>5 DEF IInv, Moves

(* rewrite.Apply writes, or refuses a destination with other bytes.            *)
LEMMA WriteFileKeeps ==
  ASSUME IInv, WriteFile
  PROVE  IInv'
<1>1. CASE /\ FreeDestination(Head(ops))
           /\ disk' = With(disk, Head(ops).new, Head(ops).content)
           /\ ops' = IF Moved(Head(ops)) THEN [ops EXCEPT ![1].new = None] ELSE Tail(ops)
           /\ UNCHANGED <<stage, queue, repaired>>
  BY <1>1, WriteKeeps DEF WriteFile
<1>2. CASE Fail /\ UNCHANGED disk
  <2>1. stage' = "done"
    BY <1>2 DEF Fail
  <2>2. OnDisk' /\ Strays'
    BY <1>2, Quiet DEF WriteFile
  <2> QED BY <2>1, <2>2, Idle DEF IInv
<1> QED BY <1>1, <1>2 DEF WriteFile

(* Steps that plan and write nothing. *)
LEMMA OtherKeeps ==
  ASSUME IInv, \/ RepairBegin \/ ReportFails \/ EndArchive \/ EndShared
               \/ ReportEdgeVerify \/ Die \/ UNCHANGED vars
  PROVE  IInv'
<1>1. OnDisk' /\ Strays'
  <2>1. disk' = disk /\ disk0' = disk0 /\ reported \subseteq reported'
    BY DEF RepairBegin, ReportFails, EndArchive, EndShared, ReportEdgeVerify, Die, vars
  <2> QED BY <2>1, Quiet
<1>2. Waiting' /\ Moves'
  <2>1. CASE stage' \in {"prefix", "done", "shared", "dups", "dead"}
    BY <2>1, Idle
  <2>2. CASE ReportEdgeVerify
    BY <2>2, ArchiveBegins DEF ReportEdgeVerify
  <2>3. CASE UNCHANGED vars
    <3>1. /\ stage' = stage /\ ops' = ops /\ queue' = queue /\ repaired' = repaired
          /\ disk' = disk /\ disk0' = disk0 /\ reported' = reported
      BY <2>3 DEF vars, run
    <3>2. Waiting /\ Moves
      BY DEF IInv
    <3> QED BY <3>1, <3>2 DEF Waiting, Moves, Waits, Names, Known, Written, Carries, Tickets, Own
  <2> QED BY <2>1, <2>2, <2>3 DEF RepairBegin, ReportFails, Fail, EndArchive, EndShared, Die, Goto
<1> QED BY <1>1, <1>2 DEF IInv

(* Every step of a run, a death among them, keeps the invariant.               *)
THEOREM Step == IInv /\ [Next]_vars => IInv'
<1> SUFFICES ASSUME IInv, [Next]_vars
             PROVE  IInv'
  OBVIOUS
<1>1. CASE PlanPrefix
  BY <1>1, PlanPrefixKeeps
<1>2. CASE ReportPrefixEdges
  BY <1>2, ReportKeeps
<1>3. CASE PlanMove
  BY <1>3, PlanMoveKeeps
<1>4. CASE PlanCollision
  BY <1>4, PlanCollisionKeeps
<1>5. CASE WriteFile
  BY <1>5, WriteFileKeeps
<1>6. CASE RemoveOld
  BY <1>6, RemoveKeeps
<1>7. CASE Finish
  BY <1>7, FinishKeeps
<1>8. CASE \/ RepairBegin \/ ReportFails \/ EndArchive \/ EndShared
           \/ ReportEdgeVerify \/ Die \/ UNCHANGED vars
  BY <1>8, OtherKeeps
<1> QED BY <1>1, <1>2, <1>3, <1>4, <1>5, <1>6, <1>7, <1>8 DEF Next

(* In every run, from any directories: the operations that wait, the rows of  *)
(* the layout moves and the names of the stray files are as IInv says.        *)
THEOREM Invariance == Spec => []IInv
BY Initial, Step, PTL DEF Spec

(* No document is ever without a file: rewrite.Apply writes the new path      *)
(* before it removes the old one, and refuses a destination with other bytes. *)
THEOREM NoDocumentLost == Spec => []DocumentsKept
<1>1. IInv => DocumentsKept
  BY DEF IInv, OnDisk, DocumentsKept
<1> QED BY <1>1, Invariance, PTL

(* The last file that bears a claimed foreign id goes only after the id has   *)
(* been reported: the removals of an adoption follow reportPrefixEdges.       *)
THEOREM StraysReported == Spec => []OutsideReported
<1>1. IInv => OutsideReported
  <2> SUFFICES ASSUME IInv, NEW p \in PrefixMismatches(disk0), NEW id \in ForeignIDs(disk0, p) \ Held
               PROVE  id \in reported \/ \E q \in PrefixMismatches(disk) : id \in ForeignIDs(disk, q)
    BY DEF OutsideReported
  <2>1. CASE Bears(p)
    <3>1. p \in PrefixMismatches(disk)
      BY <2>1, OwnByName DEF Bears
    <3>2. ForeignIDs(disk, p) = ForeignIDs(disk0, p)
      BY <2>1 DEF Bears, ForeignIDs
    <3> QED BY <3>1, <3>2
  <2>2. CASE ForeignIDs(disk0, p) \ Held \subseteq reported
    BY <2>2
  <2> QED BY <2>1, <2>2 DEF IInv, Strays
<1> QED BY <1>1, Invariance, PTL
=============================================================================
