----------------------------- MODULE RehomeProofs -----------------------------
(***************************************************************************)
(* Proofs about Rehome: it implements Custody (CopiesKept), a design       *)
(* command that takes itself back has not happened (FailedUndone), and a   *)
(* move that succeeds is whole (MovedWhole), for any number of processes,  *)
(* scopes, documents and commands and any deaths and failures.             *)
(***************************************************************************)
EXTENDS Rehome, FiniteSetTheorems, SequenceTheorems, FunctionTheorems, TLAPS

-----------------------------------------------------------------------------
(* The inductive invariant.                                                  *)

Fields == {"pc", "cmd", "src", "dst", "content", "ops", "prior", "was", "roots", "done", "touched"}
Ops == [path : Paths, file : File \cup {NoFile}]
Tree(files) == DOMAIN files \subseteq Paths /\ IsFiniteSet(DOMAIN files) /\ files \in [DOMAIN files -> File]
Typed ==
  /\ mode \in Modes
  /\ Tree(disk) /\ Tree(head)
  /\ flock \in [Scopes -> Procs \cup {NoProc}]
  /\ DOMAIN proc = Procs
  /\ \A p \in Procs : DOMAIN proc[p] = Fields

(* A file that cannot be parsed stays where it is.                           *)
BrokenStays == mode.broken \subseteq DOMAIN disk

Working == {"apply", "index", "commit", "restore", "undo"}
ScopesOf(c) == IF c.verb = "rehome" THEN {c.scope, c.to} ELSE {c.scope}
Mine(r) == {x \in Paths : x.scope \in ScopesOf(r.cmd)}
Was(r, x) == At(r.was.disk, x)
WasHead(r, x) == At(r.was.head, x)
Elements(s) == {s[i] : i \in DOMAIN s}
SameDoc(f, g) == f.doc = g.doc /\ f # NoFile

(* A process at work holds the flocks of its scopes, and all it writes is     *)
(* in them.                                                                  *)
Owned(p) ==
  LET r == proc[p] IN
  /\ r.cmd \in mode.commands
  /\ \A s \in ScopesOf(r.cmd) : flock[s] = p
  /\ r.src \in Mine(r) /\ r.dst \in Mine(r)
  /\ r.ops \in Seq(Ops) /\ r.prior \in Seq(Ops)
  /\ r.roots \in Seq(Nat) /\ r.done \in Seq(Nat)
  /\ r.touched \subseteq Mine(r)
  /\ r.pc = "apply" => r.ops # << >>
  /\ r.pc \in {"restore", "undo"} => Undoes(r)
  /\ r.pc = "restore" => r.prior # << >>
  /\ r.pc \in {"apply", "index"} => r.done = << >>

(* A move: what it has planned, and what it has written of it.               *)
Planned(r) ==
  /\ r.src = Source(r.cmd) /\ r.dst.scope = r.cmd.to /\ r.dst.kind = r.cmd.kind
  /\ r.src \notin mode.broken /\ r.dst \notin mode.broken /\ ShortInFamily(r.dst.short, r.src.short)
  /\ r.content \in File /\ Was(r, r.src) \in File
  /\ r.content.doc = Was(r, r.src).doc /\ r.content.ver = Was(r, r.src).ver
  /\ Was(r, r.dst) = NoFile \/ SameDoc(Was(r, r.dst), r.content)
  /\ \/ CopiesOf(r, r.was.disk) \subseteq mode.broken /\ Was(r, r.dst) = NoFile
     \/ r.dst \in CopiesOf(r, r.was.disk)
  /\ DOMAIN r.was.disk \subseteq Paths /\ \A x \in Mine(r) : Was(r, x) \in File \cup {NoFile}
(* An operation that writes a file: the destination, or a file that is there. *)
Writes(r, op) ==
  /\ op.file \in File /\ op.path \in Mine(r) \ {r.src}
  /\ op.path = r.dst => /\ op.file.doc = r.content.doc /\ op.file.ver \in {r.content.ver, Was(r, r.dst).ver}
                        /\ At(disk, r.dst) = NoFile => op.file = r.content
  /\ op.path # r.dst => SameDoc(op.file, At(disk, op.path)) /\ op.file.ver = At(disk, op.path).ver
Pending(r) ==
  /\ r.ops[Len(r.ops)] = Op(r.src, NoFile)
  /\ \A i \in 1..Len(r.ops) - 1 : Writes(r, r.ops[i])
  /\ At(disk, r.src) = Was(r, r.src)
  /\ \/ At(disk, r.dst) = NoFile
     \/ SameDoc(At(disk, r.dst), r.content) /\ At(disk, r.dst).ver \in {r.content.ver, Was(r, r.dst).ver}
Takes(r) ==
  /\ r.prior # << >>
  /\ \/ Len(r.prior) = 2 /\ r.prior[1] = Op(r.src, Was(r, r.src)) /\ r.prior[2] = Op(r.dst, Was(r, r.dst))
        /\ At(disk, r.src) = NoFile
     \/ Len(r.prior) = 1 /\ r.prior[1] = Op(r.dst, Was(r, r.dst)) /\ At(disk, r.src) = Was(r, r.src)
  /\ At(disk, r.dst) = r.content
Moving(r) ==
  /\ Planned(r)
  /\ r.pc = "apply" => Pending(r)
  /\ r.pc \in {"apply", "index", "commit"} => Len(r.prior) = 2
       /\ r.prior[1] = Op(r.src, Was(r, r.src)) /\ r.prior[2] = Op(r.dst, Was(r, r.dst))
  /\ r.pc \in {"index", "commit"} => At(disk, r.src) = NoFile /\ At(disk, r.dst) = r.content
  /\ r.pc = "restore" => Takes(r)
  /\ r.pc = "undo" => At(disk, r.src) = Was(r, r.src) /\ At(disk, r.dst) = Was(r, r.dst)

(* The links of a moved ticket: each that is still there is about to follow.  *)
Linking(r) ==
  r.cmd.kind = "ticket" /\ r.pc \in {"apply", "index", "commit"} =>
    /\ \A x \in Mine(r) :
         x.kind = "ticket" /\ x # r.src /\ Id(r.src) \in At(disk, x).links =>
           r.pc = "apply" /\ \E i \in 1..Len(r.ops) : r.ops[i].path = x
    /\ r.pc = "apply" => \A i \in 1..Len(r.ops) : Id(r.src) \notin r.ops[i].file.links

(* The other documents of the two scopes stay where they are, and the roots   *)
(* that commit are those of the scopes.                                      *)
Following(r) ==
  /\ r.pc \in {"apply", "index", "commit"} =>
       \A x \in Mine(r) \ {r.src, r.dst} : At(disk, x).doc = Was(r, x).doc
  /\ r.pc \in {"apply", "index", "commit"} => \A x \in {r.src, r.dst} :
       \/ x \in r.touched
       \/ r.pc = "apply" /\ \E i \in 1..Len(r.ops) : r.ops[i].path = x
  /\ r.pc \in {"apply", "index", "commit"} => \A s \in ScopesOf(r.cmd) :
       Commits(s) => Root(s) \in Elements(r.roots) \cup Elements(r.done)
  /\ r.pc = "commit" => \A x \in {r.src, r.dst} :
       Root(x.scope) \in Elements(r.done) => At(head, x) = At(disk, x)

(* A change of one file, and a new design.                                    *)
Marked(f, g) == SameDoc(f, g) /\ f.ver \in {g.ver, g.ver + 1}
Changing(r) ==
  /\ r.dst = r.src /\ r.src = Source(r.cmd) /\ r.src \notin mode.broken
  /\ Was(r, r.src) \in File
  /\ Marked(At(disk, r.src), Was(r, r.src))
  /\ r.pc = "apply" => /\ Len(r.ops) = 1 /\ r.ops[1].path = r.src
                       /\ r.ops[1].file \in File /\ Marked(r.ops[1].file, Was(r, r.src))
  /\ r.pc = "apply" => At(disk, r.src) = Was(r, r.src)
  /\ r.pc \in {"apply", "index", "commit", "restore"} => r.prior = <<Op(r.src, Was(r, r.src))>>
  /\ r.pc = "undo" => At(disk, r.src) = Was(r, r.src)
Creating(r) ==
  /\ r.dst = r.src
  /\ r.pc = "apply" =>
       /\ r.ops = <<Op(r.src, [doc |-> r.cmd.doc, ver |-> 1, links |-> {}])>>
       /\ At(disk, r.src) = NoFile
       /\ \A y \in DOMAIN disk : disk[y].doc # r.cmd.doc

(* What the HEADs show of the files of a command that can be taken back.      *)
Showing(r) ==
  Undoes(r) =>
    /\ r.touched \subseteq {r.src, r.dst}
    /\ r.pc = "apply" => \A i \in 1..Len(r.ops) : r.ops[i].path \in {r.src, r.dst}
    /\ \A x \in Mine(r) :
         \/ At(head, x) = WasHead(r, x)
         \/ r.pc \in {"commit", "restore", "undo"} /\ x \in r.touched /\ Root(x.scope) \in Elements(r.done)
         \/ r.pc = "undo" /\ At(head, x) = At(disk, x)

Sound(p) ==
  LET r == proc[p] IN
  r.pc \in Working =>
    /\ Owned(p)
    /\ r.cmd.verb = "rehome" => Moving(r) /\ Linking(r) /\ Following(r)
    /\ r.cmd.verb \in {"mark", "link", "unlink"} => Changing(r)
    /\ r.cmd.verb = "create" => Creating(r)
    /\ Showing(r)
IInv ==
  /\ Typed /\ BrokenStays
  /\ \A p \in Procs : proc[p].pc \in Working \cup Ended \cup {"new"} /\ Sound(p)

-----------------------------------------------------------------------------
(* Files.                                                                   *)

(* No file is a file of a document.                                          *)
LEMMA NoFileIsNone == NoFile \notin File /\ \A f \in File : f.doc \in Docs /\ f.doc # NoDoc /\ f # NoFile
BY NoneIsNone DEF NoFile, File

(* What is at a path of a tree.                                              *)
LEMMA AtTree ==
  ASSUME NEW t, Tree(t), NEW x
  PROVE  /\ x \in DOMAIN t => x \in Paths /\ At(t, x) = t[x] /\ At(t, x) \in File
         /\ x \notin DOMAIN t => At(t, x) = NoFile
         /\ x \in DOMAIN t <=> At(t, x) # NoFile
         /\ At(t, x) \in File \cup {NoFile}
BY NoFileIsNone DEF Tree, At

(* A file that is put is there, and the others stay.                         *)
LEMMA PutAt ==
  ASSUME NEW t, Tree(t), NEW x \in Paths, NEW f \in File \cup {NoFile}
  PROVE  /\ Tree(Put(t, x, f))
         /\ At(Put(t, x, f), x) = f
         /\ x \in DOMAIN Put(t, x, f) <=> f # NoFile
         /\ \A y : y # x => /\ At(Put(t, x, f), y) = At(t, y)
                            /\ y \in DOMAIN Put(t, x, f) <=> y \in DOMAIN t
<1> DEFINE D == IF f = NoFile THEN DOMAIN t \ {x} ELSE DOMAIN t \cup {x}
<1>1. Put(t, x, f) = [y \in D |-> IF y = x THEN f ELSE t[y]]
  BY DEF Put
<1>2. DOMAIN t \subseteq Paths /\ IsFiniteSet(DOMAIN t) /\ \A y \in DOMAIN t : t[y] \in File
  BY DEF Tree
<1>3. IsFiniteSet(D)
  <2>1. IsFiniteSet(DOMAIN t \ {x})
    BY <1>2, FS_Subset
  <2>2. IsFiniteSet(DOMAIN t \cup {x})
    BY <1>2, FS_AddElement
  <2> QED BY <2>1, <2>2
<1>4. DOMAIN Put(t, x, f) = D /\ \A y \in D : Put(t, x, f)[y] = IF y = x THEN f ELSE t[y]
  BY <1>1
<1>5. \A y \in D : Put(t, x, f)[y] \in File
  BY <1>2, <1>4
<1>6. Put(t, x, f) \in [D -> File]
  BY <1>1, <1>4, <1>5
<1>7. Tree(Put(t, x, f))
  BY <1>2, <1>3, <1>4, <1>6 DEF Tree
<1> HIDE DEF D
<1>8. At(Put(t, x, f), x) = f
  BY <1>4 DEF D, At
<1>9. \A y : y # x => At(Put(t, x, f), y) = At(t, y)
  BY <1>4 DEF D, At
<1>10. /\ x \in DOMAIN Put(t, x, f) <=> f # NoFile
       /\ \A y : y # x => (y \in DOMAIN Put(t, x, f) <=> y \in DOMAIN t)
  BY <1>4 DEF D
<1> QED BY <1>7, <1>8, <1>9, <1>10

(* A commit of paths of a root shows them as they are on disk.               *)
LEMMA CommittedAt ==
  ASSUME Tree(disk), Tree(head), NEW root, NEW paths
  PROVE  /\ Tree(Committed(root, paths))
         /\ \A x : At(Committed(root, paths), x) =
              IF x \in paths /\ Root(x.scope) = root THEN At(disk, x) ELSE At(head, x)
<1> DEFINE here == {x \in paths : Root(x.scope) = root}
           D == (DOMAIN head \ here) \cup (DOMAIN disk \cap here)
<1>1. Committed(root, paths) = [x \in D |-> IF x \in here THEN disk[x] ELSE head[x]]
  BY DEF Committed
<1>2. DOMAIN Committed(root, paths) = D
      /\ \A x \in D : Committed(root, paths)[x] = IF x \in here THEN disk[x] ELSE head[x]
  BY <1>1
<1>3. D \subseteq Paths /\ \A x \in D : Committed(root, paths)[x] \in File
  BY <1>2 DEF Tree
<1>4. IsFiniteSet(D)
  BY FS_Subset, FS_Union DEF Tree
<1>5. Tree(Committed(root, paths))
  BY <1>1, <1>2, <1>3, <1>4 DEF Tree
<1>6. \A x : At(Committed(root, paths), x) =
               IF x \in here THEN At(disk, x) ELSE At(head, x)
  <2> HIDE DEF here
  <2> QED BY <1>2 DEF At
<1> QED BY <1>5, <1>6

(* A sequence of a finite set has its elements.                              *)
LEMMA SetToSeqElements ==
  ASSUME NEW S, IsFiniteSet(S)
  PROVE  /\ SetToSeq(S) \in Seq(S)
         /\ \A x \in S : \E i \in 1..Len(SetToSeq(S)) : SetToSeq(S)[i] = x
<1> DEFINE D == 1..Cardinality(S)
<1>1. Cardinality(S) \in Nat /\ ExistsBijection(D, S)
  BY FS_CardinalityType
<1>2. PICK g : g \in [D -> S] /\ IsInjective(g)
  BY <1>1 DEF ExistsBijection, Bijection, Injection, IsInjective
<1>3. SetToSeq(S) \in [D -> S] /\ IsInjective(SetToSeq(S))
  BY <1>2 DEF SetToSeq
<1>4. SetToSeq(S) \in Injection(D, S)
  BY <1>3 DEF Injection, IsInjective
<1>5. IsFiniteSet(D) /\ Cardinality(D) = Cardinality(S)
  BY <1>1, FS_Interval
<1>6. SetToSeq(S) \in Surjection(D, S)
  BY <1>4, <1>5, FS_Injection
<1>7. SetToSeq(S) \in Seq(S) /\ Len(SetToSeq(S)) = Cardinality(S)
  BY <1>1, <1>3
<1> QED BY <1>6, <1>7 DEF Surjection

-----------------------------------------------------------------------------
(* The plan of a move.                                                      *)

(* Once a link follows, it is to the new id.                                 *)
LEMMA Followers ==
  ASSUME NEW links \in SUBSET Ids, NEW old, NEW new \in Ids, old # new
  PROVE  Follow(links, old, new) \in SUBSET Ids /\ old \notin Follow(links, old, new)
BY DEF Follow

(* What is parsed is a file of the instance's documents.                     *)
LEMMA ModeIsSane == Typed => Sane(mode) /\ \A c \in mode.commands : WellFormed(c)
BY ModesAreSane DEF Typed, Sane

LEMMA SourceIsThere ==
  ASSUME Typed, NEW c \in mode.commands, c.verb # "create", Parsed(Source(c))
  PROVE  /\ Source(c) \in Paths /\ Source(c).scope = c.scope /\ Source(c).kind = c.kind /\ Source(c).short = c.short
         /\ disk[Source(c)] \in File /\ At(disk, Source(c)) = disk[Source(c)] /\ Source(c) \notin mode.broken
<1>1. WellFormed(c)
  BY ModeIsSane
<1>2. Source(c) \in Paths
  BY <1>1 DEF Source, WellFormed, Paths
<1>3. Source(c) \in DOMAIN disk /\ Source(c) \notin mode.broken
  BY DEF Parsed
<1>4. disk[Source(c)] \in File
  BY <1>3 DEF Typed, Tree
<1> QED BY <1>2, <1>3, <1>4 DEF Source, At

(* The destination is a copy that can be read, or it is free and there is no  *)
(* such copy.                                                                *)
LEMMA Destination ==
  ASSUME Typed, BrokenStays, NEW c \in mode.commands, c.verb = "rehome", ~RefusedRehome(c),
         NEW y \in Paths, Dest(c, y)
  PROVE  /\ Parsed(Source(c))
         /\ y.scope = c.to /\ y.kind = c.kind /\ c.to \in Scopes /\ c.to # c.scope /\ y # Source(c)
         /\ Id(y) \in Ids /\ Id(y) # Id(Source(c))
         /\ y \notin mode.broken /\ ShortInFamily(y.short, c.short)
         /\ \/ Leftovers(c) = {} /\ y \notin DOMAIN disk
            \/ y \in Leftovers(c)
<1>1. WellFormed(c) /\ c.short \in Shorts
  BY ModeIsSane DEF WellFormed
<1>2. Parsed(Source(c))
  BY DEF RefusedRehome
<1>3. y.scope = c.to /\ y.kind = c.kind /\ c.to \in Scopes /\ c.to # c.scope
  BY <1>1 DEF WellFormed, Dest
<1>4. y # Source(c) /\ Id(y) \in Ids /\ Id(y) # Id(Source(c))
  BY <1>3 DEF Source, Id, Ids, Paths
<1>5. CASE Leftovers(c) = {}
  <2>1. y.short \in NewShorts(c)
    BY <1>5 DEF Dest, First
  <2>2. y.short \notin OccupiedShortIDs(c.to)
    BY <2>1 DEF NewShorts, FreeShorts, Extensions
  <2>3. y \notin DOMAIN disk
    BY <2>2, <1>3 DEF OccupiedShortIDs, InScope
  <2>4. ShortInFamily(c.short, c.short)
    <3>1. c.short \in Seq(Letters)
      BY <1>1 DEF Shorts
    <3> QED BY <3>1, SubSeqFull DEF ShortInFamily, IsPrefix
  <2>5. ShortInFamily(y.short, c.short)
    BY <2>1, <2>4 DEF NewShorts, FreeShorts, Extensions
  <2> QED BY <1>2, <1>3, <1>4, <1>5, <2>3, <2>5 DEF BrokenStays
<1>6. CASE Leftovers(c) # {}
  <2>1. y \in Leftovers(c)
    BY <1>6 DEF Dest
  <2> QED BY <1>2, <1>3, <1>4, <2>1 DEF Leftovers, Parsed
<1> QED BY <1>5, <1>6

(* What a move writes to the destination is the source, with its links to     *)
(* itself following.                                                         *)
LEMMA Reconstructed ==
  ASSUME Typed, BrokenStays, NEW c \in mode.commands, c.verb = "rehome", ~RefusedRehome(c),
         NEW y \in Paths, Dest(c, y)
  PROVE  /\ Reconstruct(c, y) \in File
         /\ Reconstruct(c, y).doc = disk[Source(c)].doc /\ Reconstruct(c, y).ver = disk[Source(c)].ver
         /\ c.kind = "ticket" => Id(Source(c)) \notin Reconstruct(c, y).links
         /\ y \in DOMAIN disk => disk[y].doc = Reconstruct(c, y).doc
<1>1. disk[Source(c)] \in File
  BY Destination, SourceIsThere
<1>2. Id(y) \in Ids /\ Id(y) # Id(Source(c))
  BY Destination
<1>3. disk[Source(c)].links \in SUBSET Ids
  BY <1>1 DEF File
<1> DEFINE L == Follow(disk[Source(c)].links, Id(Source(c)), Id(y))
<1>4. L \in SUBSET Ids /\ Id(Source(c)) \notin L
  BY <1>2, <1>3, Followers
<1>5. Reconstruct(c, y) = [disk[Source(c)] EXCEPT !.links = IF c.kind = "ticket" THEN L ELSE @]
  BY DEF Reconstruct
<1> HIDE DEF L
<1>6. /\ Reconstruct(c, y) \in File
      /\ Reconstruct(c, y).doc = disk[Source(c)].doc /\ Reconstruct(c, y).ver = disk[Source(c)].ver
      /\ c.kind = "ticket" => Id(Source(c)) \notin Reconstruct(c, y).links
  BY <1>1, <1>4, <1>5 DEF File
<1>7. y \in DOMAIN disk => disk[y].doc = disk[Source(c)].doc
  BY Destination DEF Leftovers
<1> QED BY <1>6, <1>7

(* The links of a file follow.                                               *)
LEMMA FollowedFile ==
  ASSUME Typed, BrokenStays, NEW c \in mode.commands, c.verb = "rehome", ~RefusedRehome(c),
         NEW y \in Paths, Dest(c, y), NEW x \in Referring(c)
  PROVE  /\ c.kind = "ticket" /\ x \in Paths /\ x \in DOMAIN disk /\ x # Source(c) /\ x.scope \in {c.scope, c.to}
         /\ Followed(c, y, x).path = x /\ Followed(c, y, x).file \in File /\ Followed(c, y, x) \in Ops
         /\ SameDoc(Followed(c, y, x).file, At(disk, x)) /\ Followed(c, y, x).file.ver = At(disk, x).ver
         /\ Id(Source(c)) \notin Followed(c, y, x).file.links
<1>1. c.kind = "ticket" /\ x \in DOMAIN disk /\ x # Source(c) /\ x.scope \in {c.scope, c.to}
  BY ModeIsSane DEF Referring, TicketsIn, InScope, Kinds, WellFormed
<1>2. x \in Paths /\ disk[x] \in File /\ At(disk, x) = disk[x]
  BY <1>1 DEF Typed, Tree, At
<1>3. Id(y) \in Ids /\ Id(y) # Id(Source(c))
  BY Destination
<1> DEFINE L == Follow(disk[x].links, Id(Source(c)), Id(y))
<1>4. L \in SUBSET Ids /\ Id(Source(c)) \notin L
  BY <1>2, <1>3, Followers DEF File
<1>5. Followed(c, y, x) = [path |-> x, file |-> [disk[x] EXCEPT !.links = L]]
  BY DEF Followed, Op
<1> HIDE DEF L
<1>6. [disk[x] EXCEPT !.links = L] \in File /\ [disk[x] EXCEPT !.links = L].doc = disk[x].doc
      /\ Id(Source(c)) \notin [disk[x] EXCEPT !.links = L].links
      /\ [disk[x] EXCEPT !.links = L].ver = disk[x].ver
  BY <1>2, <1>4 DEF File
<1>7. [disk[x] EXCEPT !.links = L] # NoFile
  BY <1>6, NoFileIsNone
<1> DEFINE g == [disk[x] EXCEPT !.links = L]
<1>8. Followed(c, y, x).path = x /\ Followed(c, y, x).file = g
  BY <1>5
<1>9. Followed(c, y, x) \in Ops
  BY <1>2, <1>5, <1>6 DEF Ops
<1>10. SameDoc(g, At(disk, x))
  BY <1>2, <1>6, <1>7 DEF SameDoc
<1> HIDE DEF g
<1> QED BY <1>1, <1>2, <1>6, <1>8, <1>9, <1>10 DEF g

(* The operations of a move, in their order.                                 *)
LEMMA Operations ==
  ASSUME Typed, BrokenStays, NEW c \in mode.commands, c.verb = "rehome", ~RefusedRehome(c),
         NEW y \in Paths, Dest(c, y), NEW ops, ops = RehomeOps(c, y)
  PROVE  /\ ops \in Seq(Ops) /\ Len(ops) >= 2
         /\ ops[1] = Op(y, Reconstruct(c, y)) /\ ops[Len(ops)] = Op(Source(c), NoFile)
         /\ \A i \in 2..Len(ops) - 1 : \E x \in Referring(c) : ops[i] = Followed(c, y, x)
         /\ \A x \in Referring(c) : \E i \in 2..Len(ops) - 1 : ops[i].path = x
<1> DEFINE F == {Followed(c, y, x) : x \in Referring(c)}
           m == SetToSeq(F)
           a == <<Op(y, Reconstruct(c, y))>>
           b == <<Op(Source(c), NoFile)>>
<1>1. IsFiniteSet(Referring(c))
  <2>1. Referring(c) \subseteq DOMAIN disk
    BY DEF Referring, TicketsIn, InScope
  <2> QED BY <2>1, FS_Subset DEF Typed, Tree
<1>2. IsFiniteSet(F)
  <2> DEFINE f == [x \in Referring(c) |-> Followed(c, y, x)]
  <2>1. f \in Surjection(Referring(c), F)
    BY DEF Surjection
  <2> HIDE DEF f, F
  <2> QED BY <1>1, <2>1, FS_Surjection
<1>3. m \in Seq(F) /\ \A e \in F : \E i \in 1..Len(m) : m[i] = e
  BY <1>2, SetToSeqElements
<1>4. F \subseteq Ops
  BY FollowedFile
<1>5. Op(y, Reconstruct(c, y)) \in Ops /\ Op(Source(c), NoFile) \in Ops
  BY Reconstructed, Destination, SourceIsThere DEF Op, Ops
<1>6. a \in Seq(Ops) /\ b \in Seq(Ops) /\ m \in Seq(Ops) /\ Len(a) = 1 /\ Len(b) = 1 /\ Len(m) \in Nat
  BY <1>3, <1>4, <1>5, SeqMonotonic
<1>7. ops = a \o m \o b
  BY DEF RehomeOps
<1> HIDE DEF F, m
<1>8. /\ a \o m \in Seq(Ops) /\ Len(a \o m) = 1 + Len(m)
      /\ \A i \in 1..Len(m) + 1 : (a \o m)[i] = IF i <= 1 THEN a[i] ELSE m[i - 1]
  BY <1>6, ConcatProperties
<1>9. /\ ops \in Seq(Ops) /\ Len(ops) = 2 + Len(m)
      /\ \A i \in 1..Len(m) + 2 : ops[i] = IF i <= 1 + Len(m) THEN (a \o m)[i] ELSE b[i - (1 + Len(m))]
  BY <1>6, <1>7, <1>8, ConcatProperties
<1>10. ops[1] = a[1] /\ ops[Len(m) + 2] = b[1] /\ \A i \in 2..Len(m) + 1 : ops[i] = m[i - 1]
  <2>1. PICK k \in Nat : k = Len(m)
    BY <1>6
  <2>2. \A i \in 1..k + 1 : (a \o m)[i] = IF i <= 1 THEN a[i] ELSE m[i - 1]
    BY <1>8, <2>1
  <2>3. \A i \in 1..k + 2 : ops[i] = IF i <= 1 + k THEN (a \o m)[i] ELSE b[i - (1 + k)]
    BY <1>9, <2>1
  <2>4. \A i \in 2..k + 1 : ops[i] = m[i - 1]
    <3> TAKE i \in 2..k + 1
    <3>1. i \in 1..k + 1 /\ i \in 1..k + 2 /\ i <= 1 + k /\ ~(i <= 1)
      OBVIOUS
    <3>2. (a \o m)[i] = m[i - 1]
      BY <2>2, <3>1
    <3>3. ops[i] = (a \o m)[i]
      BY <2>3, <3>1
    <3> QED BY <3>2, <3>3
  <2>5. ops[1] = a[1]
    BY <2>2, <2>3
  <2>6. (k + 2) - (1 + k) = 1 /\ ops[k + 2] = b[(k + 2) - (1 + k)]
    BY <2>3
  <2> QED BY <2>1, <2>4, <2>5, <2>6
<1>11. \A i \in 2..Len(m) + 1 : ops[i] \in F
  <2> TAKE i \in 2..Len(m) + 1
  <2>1. i - 1 \in 1..Len(m)
    BY <1>6
  <2> QED BY <1>3, <1>10, <2>1, ElementOfSeq
<1>12. \A x \in Referring(c) : \E i \in 2..Len(m) + 1 : ops[i].path = x
  <2> TAKE x \in Referring(c)
  <2>1. Followed(c, y, x) \in F /\ Followed(c, y, x).path = x
    BY FollowedFile DEF F
  <2>2. PICK i \in 1..Len(m) : m[i] = Followed(c, y, x)
    BY <1>3, <2>1
  <2>3. i + 1 \in 2..Len(m) + 1 /\ ops[i + 1] = m[i]
    BY <1>6, <1>10
  <2> QED BY <2>1, <2>2, <2>3
<1>13. Len(ops) - 1 = Len(m) + 1 /\ Len(ops) >= 2
  BY <1>6, <1>9
<1>14. ops[1] = Op(y, Reconstruct(c, y)) /\ ops[Len(ops)] = Op(Source(c), NoFile)
  BY <1>9, <1>10
<1>15. \A i \in 2..Len(ops) - 1 : \E x \in Referring(c) : ops[i] = Followed(c, y, x)
  BY <1>11, <1>13 DEF F
<1>16. \A x \in Referring(c) : \E i \in 2..Len(ops) - 1 : ops[i].path = x
  BY <1>12, <1>13
<1> QED BY <1>9, <1>13, <1>14, <1>15, <1>16

-----------------------------------------------------------------------------
(* Steps of others, and of the snapshot.                                    *)

LEMMA MineInScopes ==
  ASSUME Typed, NEW p \in Procs, proc[p].pc \in Working, Sound(p)
  PROVE  /\ WellFormed(proc[p].cmd) /\ ScopesOf(proc[p].cmd) \subseteq Scopes
         /\ proc[p].src \in Mine(proc[p]) /\ proc[p].dst \in Mine(proc[p]) /\ proc[p].touched \subseteq Mine(proc[p])
         /\ \A x \in Mine(proc[p]) : x \in Paths /\ x.scope \in Scopes /\ flock[x.scope] = p
BY ModeIsSane DEF Sound, Owned, WellFormed, ScopesOf, Mine

(* What the move was planned from does not change while it is carried out.    *)
LEMMA PlanKept ==
  ASSUME mode' = mode, NEW r, NEW s, Planned(r),
         s.cmd = r.cmd, s.src = r.src, s.dst = r.dst, s.content = r.content, s.was = r.was
  PROVE  Planned(s)'
<1>1. Mine(s)' = Mine(r) /\ ScopesOf(s.cmd) = ScopesOf(r.cmd)
  BY DEF Mine
<1>2. \A x : Was(s, x)' = Was(r, x)
  BY DEF Was
<1>3. CopiesOf(s, s.was.disk)' = CopiesOf(r, r.was.disk)
  BY DEF CopiesOf
<1>4. /\ s.src = Source(s.cmd) /\ s.dst.scope = s.cmd.to /\ s.dst.kind = s.cmd.kind
      /\ s.src \notin mode'.broken /\ s.dst \notin mode'.broken /\ ShortInFamily(s.dst.short, s.src.short)
  BY DEF Planned
<1>5. /\ s.content \in File /\ Was(s, s.src)' \in File
      /\ s.content.doc = Was(s, s.src)'.doc /\ s.content.ver = Was(s, s.src)'.ver
      /\ Was(s, s.dst)' = NoFile \/ SameDoc(Was(s, s.dst)', s.content)
  BY <1>2 DEF Planned
<1>6. \/ CopiesOf(s, s.was.disk)' \subseteq mode'.broken /\ Was(s, s.dst)' = NoFile
      \/ s.dst \in CopiesOf(s, s.was.disk)'
  BY <1>2, <1>3 DEF Planned
<1>7. DOMAIN s.was.disk \subseteq Paths /\ \A x \in Mine(s)' : Was(s, x)' \in File \cup {NoFile}
  BY <1>1, <1>2 DEF Planned
<1> QED BY <1>4, <1>5, <1>6, <1>7 DEF Planned

(* A process at work stays sound while the files and the HEADs of its scopes  *)
(* stay as they are.                                                         *)
LEMMA Undisturbed ==
  ASSUME Typed, NEW p \in Procs, Sound(p), proc'[p] = proc[p], mode' = mode,
         \A s \in Scopes : flock[s] = p => flock'[s] = p,
         \A x \in Mine(proc[p]) : At(disk', x) = At(disk, x) /\ At(head', x) = At(head, x),
         proc[p].cmd.verb = "create" /\ proc[p].pc = "apply"
           => \A y \in DOMAIN disk' : disk'[y].doc # proc[p].cmd.doc
  PROVE  Sound(p)'
<1> SUFFICES ASSUME proc[p].pc \in Working
             PROVE  Sound(p)'
  BY DEF Sound
<1>1. ScopesOf(proc[p].cmd) \subseteq Scopes /\ proc[p].src \in Mine(proc[p]) /\ proc[p].dst \in Mine(proc[p])
  BY MineInScopes
<1>2. Owned(p)'
  BY <1>1 DEF Sound, Owned, Mine, Undoes
<1>3. proc[p].cmd.verb = "rehome" => Moving(proc[p])'
  <2> SUFFICES ASSUME Moving(proc[p]), Owned(p) PROVE Moving(proc[p])'
    BY DEF Sound
  <2>1. Planned(proc[p])'
    BY PlanKept DEF Moving
  <2>2. proc[p].pc = "apply" => Pending(proc[p])'
    <3> SUFFICES ASSUME proc[p].pc = "apply", Pending(proc[p]) PROVE Pending(proc[p])'
      BY DEF Moving
    <3>1. \A i \in 1..Len(proc[p].ops) - 1 : Writes(proc[p], proc[p].ops[i])'
      <4> TAKE i \in 1..Len(proc[p].ops) - 1
      <4>1. Writes(proc[p], proc[p].ops[i])
        BY DEF Pending
      <4> QED BY <1>1, <4>1 DEF Writes, Mine, Was
    <3> QED BY <1>1, <3>1 DEF Pending, Was
  <2>3. proc[p].pc = "restore" => Takes(proc[p])'
    BY <1>1 DEF Moving, Takes, Was
  <2> QED BY <1>1, <2>1, <2>2, <2>3 DEF Moving, Was
<1>4. proc[p].cmd.verb = "rehome" => Linking(proc[p])'
  BY <1>1 DEF Sound, Linking, Mine
<1>5. proc[p].cmd.verb = "rehome" => Following(proc[p])'
  BY <1>1 DEF Sound, Following, Mine, Was, Elements, Commits, Root
<1>6. proc[p].cmd.verb \in {"mark", "link", "unlink"} => Changing(proc[p])'
  BY <1>1 DEF Sound, Changing, Was
<1>7. proc[p].cmd.verb = "create" => Creating(proc[p])'
  BY <1>1 DEF Sound, Creating
<1>8. Showing(proc[p])'
  BY <1>1 DEF Sound, Showing, Undoes, Mine, WasHead, Elements, Root
<1> QED BY <1>2, <1>3, <1>4, <1>5, <1>6, <1>7, <1>8 DEF Sound

LEMMA InitInv == Init => IInv
<1> SUFFICES ASSUME Init PROVE IInv
  OBVIOUS
<1>1. Sane(mode)
  BY ModesAreSane DEF Init
<1>2. Tree(disk)
  BY <1>1 DEF Init, Sane, Tree
<1>3. Tree(head)
  <2> DEFINE D == {y \in DOMAIN mode.files : Commits(y.scope)}
  <2>1. head = [x \in D |-> mode.files[x]]
    BY DEF Init
  <2>2. IsFiniteSet(D)
    BY <1>1, FS_Subset DEF Sane
  <2>3. D \subseteq Paths /\ \A x \in D : mode.files[x] \in File
    BY <1>1 DEF Sane
  <2> HIDE DEF D
  <2> QED BY <2>1, <2>2, <2>3 DEF Tree
<1>4. Typed
  BY <1>2, <1>3 DEF Init, Typed, Fresh, Fields
<1>5. BrokenStays
  BY <1>1 DEF Init, Sane, BrokenStays
<1>6. \A p \in Procs : proc[p].pc = "new"
  BY DEF Init, Fresh
<1> QED BY <1>4, <1>5, <1>6 DEF IInv, Sound, Working

-----------------------------------------------------------------------------
(* What a step does to the files: it edits one, writes what another copy has, *)
(* gives back an old copy beside another, removes one of two copies, or begins *)
(* a document.                                                               *)
Edits(x, f) ==
  /\ f \in File /\ x \in DOMAIN disk /\ f.doc = disk[x].doc
  /\ f.ver \in {disk[x].ver - 1, disk[x].ver, disk[x].ver + 1}
Copies(x, f) ==
  /\ f \in File /\ (x \in DOMAIN disk => f.doc = disk[x].doc)
  /\ \E y \in DOMAIN disk : disk[y].doc = f.doc /\ disk[y].ver = f.ver
Returns(x, f) ==
  /\ f \in File /\ x \in DOMAIN disk /\ f.doc = disk[x].doc
  /\ \E y \in DOMAIN disk \ {x} : disk[y].doc = disk[x].doc /\ disk[y].ver = disk[x].ver
Drops(x, f) ==
  /\ f = NoFile /\ x \in DOMAIN disk /\ x \notin mode.broken
  /\ \E y \in DOMAIN disk \ {x} : disk[y].doc = disk[x].doc /\ disk[y].ver = disk[x].ver
Begins(p, x, f) ==
  /\ f \in File /\ x \notin DOMAIN disk /\ \A y \in DOMAIN disk : disk[y].doc # f.doc
  /\ proc[p].pc = "apply" /\ proc[p].cmd.verb = "create" /\ f.doc = proc[p].cmd.doc
Wrote(p) ==
  \E x \in Mine(proc[p]), f \in File \cup {NoFile} :
    /\ disk' = Put(disk, x, f)
    /\ Edits(x, f) \/ Copies(x, f) \/ Returns(x, f) \/ Drops(x, f) \/ Begins(p, x, f)

(* The next operation of a move.                                             *)
LEMMA NextOperation ==
  ASSUME Typed, NEW p \in Procs, Sound(p), proc[p].pc = "apply", proc[p].cmd.verb = "rehome",
         FreeDestination(proc[p]), NEW op, op = Head(proc[p].ops)
  PROVE  /\ Len(proc[p].ops) # 1 =>
              /\ Writes(proc[p], op)
              /\ Edits(op.path, op.file) \/ Copies(op.path, op.file) \/ Returns(op.path, op.file)
         /\ Len(proc[p].ops) = 1 =>
              op = Op(proc[p].src, NoFile) /\ Drops(op.path, op.file) /\ At(disk, proc[p].dst) = proc[p].content
<1> DEFINE r == proc[p]
<1>1. /\ Owned(p) /\ Moving(r) /\ Planned(r) /\ Pending(r)
  BY DEF Sound, Moving, Working
<1>2. r.ops \in Seq(Ops) /\ r.ops # << >> /\ op = r.ops[1] /\ Len(r.ops) \in Nat \ {0}
  BY <1>1 DEF Owned
<1>3. At(disk, r.src) \in File /\ At(disk, r.src).doc = r.content.doc /\ At(disk, r.src).ver = r.content.ver
  BY <1>1 DEF Planned, Pending
<1>4. r.src \in DOMAIN disk /\ disk[r.src] = At(disk, r.src)
  BY <1>3, AtTree, NoFileIsNone DEF Typed
<1>5. ASSUME Len(r.ops) # 1
      PROVE  Writes(r, op) /\ (Edits(op.path, op.file) \/ Copies(op.path, op.file) \/ Returns(op.path, op.file))
  <2>1. Writes(r, op)
    <3>1. \A n \in Nat \ {0} : n # 1 => 1 \in 1..n - 1
      OBVIOUS
    <3>2. 1 \in 1..Len(r.ops) - 1
      BY <1>2, <1>5, <3>1
    <3> QED BY <1>1, <1>2, <3>2 DEF Pending
  <2>2. CASE op.path # r.dst
    <3>1. SameDoc(op.file, At(disk, op.path)) /\ op.file.ver = At(disk, op.path).ver /\ op.file \in File
      BY <2>1, <2>2 DEF Writes
    <3>2. At(disk, op.path) # NoFile
      BY <3>1, NoFileIsNone DEF SameDoc, NoFile
    <3>3. op.path \in DOMAIN disk /\ disk[op.path] = At(disk, op.path)
      BY <3>2 DEF At
    <3> QED BY <2>1, <3>1, <3>3 DEF Edits, SameDoc
  <2>3. CASE op.path = r.dst
    <3>1. /\ op.file.doc = r.content.doc /\ op.file.ver \in {r.content.ver, Was(r, r.dst).ver} /\ op.file \in File
          /\ At(disk, r.dst) = NoFile => op.file = r.content
      BY <2>1, <2>3 DEF Writes
    <3>2. r.dst \in DOMAIN disk =>
            disk[r.dst].doc = r.content.doc /\ disk[r.dst].ver \in {r.content.ver, Was(r, r.dst).ver}
      BY <1>1, AtTree DEF Pending, SameDoc, Typed
    <3>3. CASE op.file.ver = r.content.ver
      BY <1>3, <1>4, <2>1, <2>3, <3>1, <3>2, <3>3 DEF Copies
    <3>4. CASE op.file.ver # r.content.ver
      <4>1. r.dst \in DOMAIN disk /\ r.dst # r.src
        BY SMTT(40), <2>1, <2>3, <3>1, <3>4, AtTree DEF Typed, Writes
      <4>2. CASE disk[r.dst].ver = r.content.ver
        BY <1>3, <1>4, <2>1, <2>3, <3>1, <3>2, <4>1, <4>2, SMTT(40) DEF Returns
      <4>3. CASE disk[r.dst].ver # r.content.ver
        BY <2>1, <2>3, <3>1, <3>2, <3>4, <4>1, <4>3 DEF Edits
      <4> QED BY <4>2, <4>3
    <3> QED BY <3>3, <3>4
  <2> QED BY <2>1, <2>2, <2>3
<1>6. ASSUME Len(r.ops) = 1
      PROVE  op = Op(r.src, NoFile) /\ Drops(op.path, op.file) /\ At(disk, r.dst) = r.content
  <2>1. op = Op(r.src, NoFile) /\ op.path = r.src /\ op.file = NoFile
    BY <1>1, <1>2, <1>6 DEF Pending, Op
  <2>2. At(disk, r.dst) = r.content
    BY <2>1 DEF FreeDestination
  <2>3. r.dst \in DOMAIN disk /\ disk[r.dst] = r.content /\ r.dst # r.src /\ r.src \notin mode.broken
    <3>1. r.content \in File /\ r.dst.scope = r.cmd.to /\ r.src = Source(r.cmd) /\ r.src \notin mode.broken
      BY <1>1 DEF Planned
    <3>2. r.cmd.to # r.cmd.scope
      BY <1>1, ModeIsSane DEF Owned, WellFormed
    <3> QED BY <2>2, <3>1, <3>2, AtTree, NoFileIsNone DEF Typed, Source
  <2> QED BY <1>3, <1>4, <2>1, <2>2, <2>3 DEF Drops
<1> QED BY <1>5, <1>6

(* What a write does, a step that applies an operation or takes one back.     *)
LEMMA Writing ==
  ASSUME Typed, NEW p \in Procs, Sound(p), Apply(p) \/ Restore(p), disk' # disk
  PROVE  Wrote(p)
<1> DEFINE r == proc[p]
<1>1. r.pc \in {"apply", "restore"} /\ r.pc \in Working
  BY DEF Apply, Restore, Working
<1>2. Owned(p) /\ r.cmd \in mode.commands /\ WellFormed(r.cmd)
  BY <1>1, ModeIsSane DEF Sound, Owned
<1>3. CASE Apply(p) /\ r.pc = "apply"
  <2> DEFINE op == Head(r.ops)
  <2>1. FreeDestination(r) /\ disk' = Put(disk, op.path, op.file)
    BY <1>3 DEF Apply
  <2>2. op \in Ops /\ op.file \in File \cup {NoFile} /\ op = r.ops[1] /\ op.path \in Paths
    <3>1. r.ops \in Seq(Ops) /\ r.ops # << >>
      BY <1>2, <1>3 DEF Owned
    <3>2. op \in Ops /\ op = r.ops[1]
      BY <3>1
    <3> QED BY <3>2 DEF Ops
  <2>3. CASE r.cmd.verb = "rehome"
    <3> HIDE DEF op
    <3>5. /\ Len(r.ops) # 1 =>
               Writes(r, op) /\ (Edits(op.path, op.file) \/ Copies(op.path, op.file) \/ Returns(op.path, op.file))
          /\ Len(r.ops) = 1 => op = Op(r.src, NoFile) /\ Drops(op.path, op.file)
      BY <1>3, <2>1, <2>3, NextOperation DEF op
    <3>1. Writes(r, op) \/ op = Op(r.src, NoFile)
      BY <3>5
    <3>2. op.path \in Mine(r)
      BY <1>2, <3>1 DEF Writes, Op, Owned
    <3>3. Edits(op.path, op.file) \/ Copies(op.path, op.file) \/ Returns(op.path, op.file) \/ Drops(op.path, op.file)
      BY <3>5
    <3> QED BY <2>1, <2>2, <3>2, <3>3 DEF Wrote
  <2>4. CASE r.cmd.verb \in {"mark", "link", "unlink"}
    <3>1. op.path = r.src /\ Marked(op.file, Was(r, r.src)) /\ op.file \in File /\ At(disk, r.src) = Was(r, r.src)
          /\ Was(r, r.src) \in File
      BY <1>1, <1>3, <2>2, <2>4 DEF Sound, Changing
    <3>2. r.src \in DOMAIN disk /\ disk[r.src] = Was(r, r.src)
      BY SMTT(40), <3>1, AtTree, NoFileIsNone DEF Typed
    <3>3. Edits(op.path, op.file)
      BY <3>1, <3>2 DEF Edits, Marked, SameDoc
    <3> QED BY <1>2, <2>1, <2>2, <3>1, <3>3 DEF Wrote, Owned
  <2>5. CASE r.cmd.verb = "create"
    <3>1. /\ op = Op(r.src, [doc |-> r.cmd.doc, ver |-> 1, links |-> {}])
          /\ At(disk, r.src) = NoFile /\ \A y \in DOMAIN disk : disk[y].doc # r.cmd.doc
      BY <1>1, <1>3, <2>2, <2>5 DEF Sound, Creating
    <3>2. op.path = r.src /\ op.file.doc = r.cmd.doc /\ r.cmd.doc \in Docs
      BY <1>2, <2>5, <3>1 DEF Op, WellFormed
    <3>3. op.file \in File
      BY <2>2, <3>2, NoFileIsNone, NoneIsNone DEF NoFile
    <3>4. r.src \notin DOMAIN disk
      BY <3>1, AtTree DEF Typed
    <3>5. Begins(p, op.path, op.file)
      BY <1>3, <2>5, <3>1, <3>2, <3>3, <3>4 DEF Begins
    <3> QED BY <1>2, <2>1, <2>2, <3>2, <3>5 DEF Wrote, Owned
  <2> QED BY <1>2, <2>3, <2>4, <2>5 DEF WellFormed
<1>4. CASE Restore(p) /\ r.pc = "restore"
  <2> DEFINE op == Head(r.prior)
  <2>1. disk' = Put(disk, op.path, op.file)
    BY <1>4 DEF Restore
  <2>2. op \in Ops /\ op.path \in Paths /\ op.file \in File \cup {NoFile} /\ op = r.prior[1] /\ Undoes(r)
    <3>1. r.prior \in Seq(Ops) /\ r.prior # << >> /\ Undoes(r)
      BY <1>2, <1>4 DEF Owned
    <3>2. op \in Ops /\ op = r.prior[1]
      BY <3>1
    <3> QED BY <3>1, <3>2 DEF Ops
  <2>3. CASE r.cmd.verb = "rehome"
    <3>1. Takes(r) /\ Planned(r)
      BY <1>1, <1>4, <2>3 DEF Sound, Moving
    <3>2. r.src # r.dst /\ r.content \in File
      BY <1>2, <2>3, <3>1 DEF Planned, Source, WellFormed
    <3>3. r.dst \in DOMAIN disk /\ disk[r.dst] = r.content
      BY <3>1, <3>2, AtTree, NoFileIsNone DEF Takes, Typed
    <3>4. CASE op = Op(r.src, Was(r, r.src)) /\ At(disk, r.src) = NoFile
      <4>1. op.path = r.src /\ op.file = Was(r, r.src)
        BY <3>4 DEF Op
      <4>2. r.src \notin DOMAIN disk
        BY <3>4, AtTree DEF Typed
      <4>3. Copies(op.path, op.file)
        BY <3>1, <3>3, <4>1, <4>2 DEF Planned, Copies
      <4> QED BY <1>2, <2>1, <2>2, <4>1, <4>3 DEF Wrote, Owned
    <3>5. CASE op = Op(r.dst, Was(r, r.dst)) /\ At(disk, r.src) = Was(r, r.src)
      <4>1. op.path = r.dst /\ op.file = Was(r, r.dst)
        BY <3>5 DEF Op
      <4>2. r.src \in DOMAIN disk /\ disk[r.src] = Was(r, r.src)
        BY <3>1, <3>5, AtTree, NoFileIsNone DEF Planned, Typed
      <4>3. CASE Was(r, r.dst) = NoFile
        <5>1. Drops(op.path, op.file)
          BY <3>1, <3>2, <3>3, <4>1, <4>2, <4>3 DEF Planned, Drops
        <5> QED BY <1>2, <2>1, <2>2, <4>1, <5>1 DEF Wrote, Owned
      <4>4. CASE Was(r, r.dst) # NoFile
        <5>1. op.file.doc = r.content.doc /\ op.file \in File
          BY <1>2, <2>2, <3>1, <4>1, <4>4 DEF Planned, SameDoc
        <5>2. Returns(op.path, op.file)
          BY <3>1, <3>2, <3>3, <4>1, <4>2, <5>1 DEF Planned, Returns
        <5> QED BY <1>2, <2>1, <2>2, <4>1, <5>2 DEF Wrote, Owned
      <4> QED BY <4>3, <4>4
    <3> QED BY <2>2, <3>1, <3>4, <3>5 DEF Takes
  <2>4. CASE r.cmd.verb \in {"mark", "link", "unlink"}
    <3>1. /\ op = Op(r.src, Was(r, r.src)) /\ Was(r, r.src) \in File
          /\ Marked(At(disk, r.src), Was(r, r.src))
      BY <1>1, <1>4, <2>2, <2>4 DEF Sound, Changing
    <3>2. op.path = r.src /\ op.file = Was(r, r.src) /\ r.src \in DOMAIN disk /\ disk[r.src] = At(disk, r.src)
      BY <3>1, AtTree DEF Op, Marked, SameDoc, Typed
    <3>3. op.file.ver \in {disk[r.src].ver - 1, disk[r.src].ver}
      <4>1. Was(r, r.src).ver \in Int
        BY SMTT(40), <3>1 DEF File
      <4> QED BY <3>1, <3>2, <4>1 DEF Marked
    <3>4. Edits(op.path, op.file)
      BY <3>1, <3>2, <3>3 DEF Edits, Marked, SameDoc
    <3> QED BY <1>2, <2>1, <2>2, <3>2, <3>4 DEF Wrote, Owned
  <2> QED BY <1>2, <2>2, <2>3, <2>4 DEF WellFormed, Undoes
<1> QED BY <1>3, <1>4 DEF Apply, Restore

(* The files after a write.                                                  *)
LEMMA FilesWritten ==
  ASSUME Typed, BrokenStays, NEW p \in Procs, Wrote(p)
  PROVE  /\ Tree(disk') /\ mode.broken \subseteq DOMAIN disk'
         /\ \A x : x \notin Mine(proc[p]) => At(disk', x) = At(disk, x)
         /\ \A d : (\E y \in DOMAIN disk' : disk'[y].doc = d) =>
              \/ \E y \in DOMAIN disk : disk[y].doc = d
              \/ proc[p].pc = "apply" /\ proc[p].cmd.verb = "create" /\ d = proc[p].cmd.doc
<1>1. PICK x \in Mine(proc[p]), f \in File \cup {NoFile} :
        /\ disk' = Put(disk, x, f)
        /\ Edits(x, f) \/ Copies(x, f) \/ Returns(x, f) \/ Drops(x, f) \/ Begins(p, x, f)
  BY DEF Wrote
<1>2. /\ Tree(disk') /\ At(disk', x) = f
      /\ \A y : y # x => At(disk', y) = At(disk, y)
      /\ x \in DOMAIN disk' <=> f # NoFile
      /\ \A y : y # x => (y \in DOMAIN disk' <=> y \in DOMAIN disk)
  <2>1. x \in Paths /\ Tree(disk)
    BY DEF Typed, Mine
  <2>2. disk' = Put(disk, x, f)
    BY <1>1
  <2>3. /\ Tree(Put(disk, x, f)) /\ At(Put(disk, x, f), x) = f
        /\ \A y : y # x => At(Put(disk, x, f), y) = At(disk, y)
        /\ x \in DOMAIN Put(disk, x, f) <=> f # NoFile
        /\ \A y : y # x => (y \in DOMAIN Put(disk, x, f) <=> y \in DOMAIN disk)
    BY <2>1, PutAt
  <2> QED BY <2>2, <2>3
<1>3. mode.broken \subseteq DOMAIN disk'
  BY <1>1, <1>2, NoFileIsNone DEF BrokenStays, Edits, Copies, Returns, Drops, Begins
<1>4. ASSUME NEW d, NEW y \in DOMAIN disk', disk'[y].doc = d
      PROVE  \/ \E z \in DOMAIN disk : disk[z].doc = d
             \/ proc[p].pc = "apply" /\ proc[p].cmd.verb = "create" /\ d = proc[p].cmd.doc
  <2>1. CASE y # x
    <3>1. y \in DOMAIN disk
      BY <1>2, <1>4, <2>1
    <3>2. disk[y] = disk'[y]
      BY <1>2, <1>4, <2>1, <3>1 DEF At
    <3> QED BY <1>4, <3>1, <3>2
  <2>2. CASE y = x
    <3>1. f # NoFile /\ disk'[x] = f
      BY <1>2, <1>4, <2>2 DEF At
    <3>2. CASE Edits(x, f)
      BY <1>4, <2>2, <3>1, <3>2 DEF Edits
    <3>3. CASE Copies(x, f)
      BY <1>4, <2>2, <3>1, <3>3 DEF Copies
    <3>4. CASE Drops(x, f)
      BY <3>1, <3>4 DEF Drops
    <3>5. CASE Begins(p, x, f)
      BY <1>4, <2>2, <3>1, <3>5 DEF Begins
    <3>6. CASE Returns(x, f)
      BY <1>4, <2>2, <3>1, <3>6 DEF Returns
    <3> QED BY <1>1, <3>2, <3>3, <3>4, <3>5, <3>6
  <2> QED BY <2>1, <2>2
<1> QED BY <1>1, <1>2, <1>3, <1>4

(* A step of one process leaves the others sound: what it changes is in the   *)
(* scopes whose flocks it holds, and it begins no document that another is    *)
(* about to begin.                                                           *)
LEMMA OthersStay ==
  ASSUME Typed, BrokenStays, NEW p \in Procs, Sound(p), NEW q \in Procs \ {p}, Sound(q),
         mode' = mode, proc'[q] = proc[q], \A s \in Scopes : flock[s] = q => flock'[s] = q,
         disk' = disk \/ (proc[p].pc \in Working /\ Wrote(p)),
         head' = head \/ (proc[p].pc \in Working /\ \A x : x \notin Mine(proc[p]) => At(head', x) = At(head, x))
  PROVE  Sound(q)'
<1> SUFFICES ASSUME proc[q].pc \in Working
             PROVE  Sound(q)'
  BY DEF Sound
<1>1. \A x \in Mine(proc[q]) : x.scope \in Scopes /\ flock[x.scope] = q
  BY MineInScopes
<1>2. ASSUME proc[p].pc \in Working, NEW x \in Mine(proc[q])
      PROVE  x \notin Mine(proc[p])
  BY <1>1, <1>2, MineInScopes
<1>3. \A x \in Mine(proc[q]) : At(disk', x) = At(disk, x) /\ At(head', x) = At(head, x)
  BY <1>2, FilesWritten
<1>4. ASSUME proc[q].cmd.verb = "create", proc[q].pc = "apply"
      PROVE  \A y \in DOMAIN disk' : disk'[y].doc # proc[q].cmd.doc
  <2>1. \A y \in DOMAIN disk : disk[y].doc # proc[q].cmd.doc
    BY <1>4 DEF Sound, Creating, Working
  <2>2. CASE disk' = disk
    BY <2>1, <2>2
  <2>3. CASE proc[p].pc \in Working /\ Wrote(p)
    <3> SUFFICES ASSUME NEW y \in DOMAIN disk', disk'[y].doc = proc[q].cmd.doc
                 PROVE  FALSE
      OBVIOUS
    <3>1. proc[p].cmd.verb = "create" /\ proc[p].cmd.doc = proc[q].cmd.doc
      BY <2>1, <2>3, FilesWritten
    <3>2. proc[p].cmd \in mode.commands /\ proc[q].cmd \in mode.commands
      BY <2>3 DEF Sound, Owned
    <3>3. proc[p].cmd = proc[q].cmd
      BY <1>4, <3>1, <3>2, ModeIsSane DEF Sane
    <3>4. proc[q].cmd.scope \in Scopes /\ flock[proc[q].cmd.scope] = q /\ flock[proc[q].cmd.scope] = p
      BY <2>3, <3>2, <3>3, ModeIsSane DEF Sound, Owned, ScopesOf, WellFormed
    <3> QED BY <3>4
  <2> QED BY <2>2, <2>3
<1> QED BY <1>3, <1>4, Undisturbed

-----------------------------------------------------------------------------
(* The start of a command.                                                  *)

(* The elements of sequences of roots.                                       *)
LEMMA ElementsOfConcat ==
  ASSUME NEW a \in Seq(Nat), NEW b \in Seq(Nat)
  PROVE  a \o b \in Seq(Nat) /\ Elements(a) \cup Elements(b) \subseteq Elements(a \o b)
<1>1. /\ a \o b \in Seq(Nat) /\ Len(a \o b) = Len(a) + Len(b) /\ Len(a) \in Nat /\ Len(b) \in Nat
      /\ \A i \in 1..Len(a) + Len(b) : (a \o b)[i] = IF i <= Len(a) THEN a[i] ELSE b[i - Len(a)]
  BY ConcatProperties
<1>2. PICK m \in Nat, n \in Nat : m = Len(a) /\ n = Len(b)
  BY <1>1
<1>3. DOMAIN a = 1..m /\ DOMAIN b = 1..n /\ DOMAIN (a \o b) = 1..m + n
  BY <1>1, <1>2, LenProperties
<1>4. ASSUME NEW i \in 1..m PROVE a[i] \in Elements(a \o b)
  <2>1. i \in 1..m + n /\ i <= m
    OBVIOUS
  <2>2. (a \o b)[i] = a[i]
    BY <1>1, <1>2, <2>1
  <2> QED BY <1>3, <2>1, <2>2 DEF Elements
<1>5. ASSUME NEW i \in 1..n PROVE b[i] \in Elements(a \o b)
  <2>1. i + m \in 1..m + n /\ ~(i + m <= m) /\ (i + m) - m = i
    OBVIOUS
  <2>2. (a \o b)[i + m] = b[i]
    BY <1>1, <1>2, <2>1
  <2> QED BY <1>3, <2>1, <2>2 DEF Elements
<1> QED BY <1>1, <1>3, <1>4, <1>5 DEF Elements

LEMMA ElementsOfAppend ==
  ASSUME NEW a \in Seq(Nat), NEW e \in Nat
  PROVE  Append(a, e) \in Seq(Nat) /\ Elements(Append(a, e)) = Elements(a) \cup {e}
<1>1. PICK n \in Nat : n = Len(a)
  OBVIOUS
<1>2. /\ Append(a, e) \in Seq(Nat) /\ DOMAIN a = 1..n /\ DOMAIN Append(a, e) = 1..n + 1
      /\ Append(a, e)[n + 1] = e /\ \A i \in 1..n : Append(a, e)[i] = a[i]
  BY <1>1, AppendProperties, LenProperties
<1>3. 1..n + 1 = (1..n) \cup {n + 1}
  OBVIOUS
<1> QED BY <1>2, <1>3 DEF Elements

LEMMA ElementsOfTail ==
  ASSUME NEW a \in Seq(Nat), a # << >>
  PROVE  Tail(a) \in Seq(Nat) /\ Head(a) \in Nat /\ Elements(a) = {Head(a)} \cup Elements(Tail(a))
<1>1. PICK n \in Nat : n + 1 = Len(a)
  BY EmptySeq
<1>2. /\ Tail(a) \in Seq(Nat) /\ Head(a) \in Nat /\ Head(a) = a[1]
      /\ DOMAIN a = 1..n + 1 /\ DOMAIN Tail(a) = 1..n /\ \A i \in 1..n : Tail(a)[i] = a[i + 1]
  BY <1>1, HeadTailProperties, LenProperties
<1>3. \A i \in 1..n + 1 : i = 1 \/ i - 1 \in 1..n
  OBVIOUS
<1>4. \A i \in 1..n : i + 1 \in 1..n + 1
  OBVIOUS
<1>5. 1 \in 1..n + 1
  OBVIOUS
<1>6. ASSUME NEW i \in 1..n + 1 PROVE a[i] \in {Head(a)} \cup Elements(Tail(a))
  <2>1. CASE i - 1 \in 1..n
    <3>1. Tail(a)[i - 1] = a[i]
      BY <1>2, <2>1
    <3> QED BY <1>2, <2>1, <3>1 DEF Elements
  <2> QED BY <1>2, <1>3, <2>1
<1>7. ASSUME NEW i \in 1..n PROVE Tail(a)[i] \in Elements(a)
  BY <1>2, <1>4 DEF Elements
<1> QED BY <1>2, <1>5, <1>6, <1>7, ZenonT(60) DEF Elements

(* The roots a command commits are those of its scopes that commit.          *)
LEMMA RootsCommit ==
  ASSUME Typed, NEW a \in Scopes, NEW b \in Scopes
  PROVE  /\ RootsOf(a) \in Seq(Nat) /\ RootsOfBoth(a, b) \in Seq(Nat)
         /\ \A s \in {a, b} : Commits(s) => Root(s) \in Elements(RootsOfBoth(a, b))
<1>1. ASSUME NEW s \in Scopes
      PROVE  RootsOf(s) \in Seq(Nat) /\ (Commits(s) => Root(s) \in Elements(RootsOf(s)))
  <2>1. Root(s) \in Nat
    BY ModeIsSane DEF Root, Sane
  <2>2. CASE Commits(s)
    <3>1. RootsOf(s) = <<Root(s)>>
      BY <2>2 DEF RootsOf
    <3>2. DOMAIN <<Root(s)>> = 1..1 /\ <<Root(s)>>[1] = Root(s) /\ 1 \in 1..1
      OBVIOUS
    <3>3. Root(s) \in Elements(<<Root(s)>>)
      BY <3>2 DEF Elements
    <3> QED BY <2>1, <3>1, <3>3
  <2>3. CASE ~Commits(s)
    BY <2>3 DEF RootsOf
  <2> QED BY <2>2, <2>3
<1> DEFINE low == IF a < b THEN a ELSE b
           high == IF a < b THEN b ELSE a
<1>2. low \in Scopes /\ high \in Scopes /\ {a, b} = {low, high}
  OBVIOUS
<1>3. RootsOfBoth(a, b) =
        IF RootsOf(low) = RootsOf(high) THEN RootsOf(low) ELSE RootsOf(low) \o RootsOf(high)
  BY DEF RootsOfBoth
<1> HIDE DEF low, high
<1>4. RootsOf(low) \o RootsOf(high) \in Seq(Nat)
      /\ Elements(RootsOf(low)) \cup Elements(RootsOf(high)) \subseteq Elements(RootsOf(low) \o RootsOf(high))
  BY <1>1, <1>2, ElementsOfConcat
<1>5. \A s \in {low, high} : Commits(s) => Root(s) \in Elements(RootsOfBoth(a, b))
  <2>1. CASE RootsOf(low) = RootsOf(high)
    BY <1>1, <1>2, <1>3, <2>1
  <2>2. CASE RootsOf(low) # RootsOf(high)
    BY <1>1, <1>2, <1>3, <1>4, <2>2
  <2> QED BY <2>1, <2>2
<1> QED BY <1>1, <1>2, <1>3, <1>4, <1>5

LEMMA PriorOf ==
  ASSUME Typed, NEW x \in Paths, NEW y \in Paths
  PROVE  /\ Prior(<<x, y>>) \in Seq(Ops) /\ Prior(<<x, y>>) # << >> /\ Len(Prior(<<x, y>>)) = 2
         /\ Prior(<<x, y>>)[1] = Op(x, At(disk, x)) /\ Prior(<<x, y>>)[2] = Op(y, At(disk, y))
         /\ Prior(<<x>>) = <<Op(x, At(disk, x))>> /\ Prior(<<x>>) \in Seq(Ops) /\ Prior(<<x>>) # << >>
<1>1. \A z \in Paths : Op(z, At(disk, z)) \in Ops
  BY AtTree DEF Typed, Op, Ops
<1>2. Prior(<<x, y>>) = <<Op(x, At(disk, x)), Op(y, At(disk, y))>>
  BY DEF Prior
<1>3. Prior(<<x>>) = <<Op(x, At(disk, x))>>
  BY DEF Prior
<1>4. PICK a \in Ops, b \in Ops : a = Op(x, At(disk, x)) /\ b = Op(y, At(disk, y))
  BY <1>1
<1>5. <<a, b>> \in Seq(Ops) /\ <<a, b>> # << >> /\ Len(<<a, b>>) = 2 /\ <<a, b>>[1] = a /\ <<a, b>>[2] = b
  OBVIOUS
<1>6. <<a>> \in Seq(Ops) /\ <<a>> # << >>
  OBVIOUS
<1>7. Prior(<<x, y>>) = <<a, b>> /\ Prior(<<x>>) = <<a>>
  BY <1>2, <1>3, <1>4
<1> QED BY <1>4, <1>5, <1>6, <1>7

(* A move that starts.                                                       *)
LEMMA RehomeStarts ==
  ASSUME Typed, BrokenStays, NEW p \in Procs, NEW c \in mode.commands, c.verb = "rehome",
         ~RefusedRehome(c), NEW y \in Paths, Dest(c, y), NEW r,
         r = [Fresh EXCEPT !.cmd = c, !.pc = "apply", !.src = Source(c), !.dst = y,
                !.content = Reconstruct(c, y), !.ops = RehomeOps(c, y), !.prior = Prior(<<Source(c), y>>),
                !.was = Files, !.roots = RootsOfBoth(c.scope, c.to)],
         proc'[p] = r, UNCHANGED <<mode, disk, head>>, \A s \in {c.scope, c.to} : flock'[s] = p
  PROVE  Sound(p)'
<1>1. /\ r.cmd = c /\ r.pc = "apply" /\ r.src = Source(c) /\ r.dst = y /\ r.content = Reconstruct(c, y)
      /\ r.ops = RehomeOps(c, y) /\ r.prior = Prior(<<Source(c), y>>) /\ r.was.disk = disk /\ r.was.head = head
      /\ r.roots = RootsOfBoth(c.scope, c.to) /\ r.done = << >> /\ r.touched = {}
  BY DEF Fresh, Files
<1>2. WellFormed(c) /\ c.scope \in Scopes /\ c.to \in Scopes /\ c.kind \in Kinds /\ ScopesOf(c) = {c.scope, c.to}
  BY ModeIsSane DEF WellFormed, ScopesOf
<1>3. /\ Parsed(Source(c)) /\ y.scope = c.to /\ y.kind = c.kind /\ y # Source(c) /\ y \notin mode.broken
      /\ ShortInFamily(y.short, c.short) /\ ((Leftovers(c) = {} /\ y \notin DOMAIN disk) \/ y \in Leftovers(c))
  BY Destination
<1>4. /\ Source(c) \in Paths /\ Source(c).scope = c.scope /\ Source(c).kind = c.kind /\ Source(c).short = c.short
      /\ disk[Source(c)] \in File /\ At(disk, Source(c)) = disk[Source(c)] /\ Source(c) \notin mode.broken
  BY <1>3, SourceIsThere
<1>5. Source(c) \in Mine(r) /\ y \in Mine(r)
  BY <1>1, <1>2, <1>3, <1>4 DEF Mine
<1>6. /\ r.content \in File /\ r.content.doc = disk[Source(c)].doc /\ r.content.ver = disk[Source(c)].ver
      /\ c.kind = "ticket" => Id(r.src) \notin r.content.links
      /\ y \in DOMAIN disk => disk[y].doc = r.content.doc
  BY <1>1, Reconstructed
<1>7. /\ r.ops \in Seq(Ops) /\ Len(r.ops) >= 2 /\ Len(r.ops) \in Nat
      /\ r.ops[1] = Op(y, r.content) /\ r.ops[Len(r.ops)] = Op(r.src, NoFile)
      /\ \A i \in 2..Len(r.ops) - 1 : \E x \in Referring(c) : r.ops[i] = Followed(c, y, x)
      /\ \A x \in Referring(c) : \E i \in 2..Len(r.ops) - 1 : r.ops[i].path = x
  BY <1>1, Operations
<1>8. /\ r.prior \in Seq(Ops) /\ r.prior # << >> /\ Len(r.prior) = 2
      /\ r.prior[1] = Op(r.src, At(disk, r.src)) /\ r.prior[2] = Op(r.dst, At(disk, r.dst))
  <2>1. r.prior = Prior(<<Source(c), y>>) /\ r.src = Source(c) /\ r.dst = y
    BY <1>1
  <2>2. /\ Prior(<<Source(c), y>>) \in Seq(Ops) /\ Prior(<<Source(c), y>>) # << >> /\ Len(Prior(<<Source(c), y>>)) = 2
        /\ Prior(<<Source(c), y>>)[1] = Op(Source(c), At(disk, Source(c)))
        /\ Prior(<<Source(c), y>>)[2] = Op(y, At(disk, y))
    BY <1>4, PriorOf
  <2> QED BY <2>1, <2>2
<1>9. r.ops # << >> /\ r.roots \in Seq(Nat)
  <2>1. r.ops # << >>
    BY <1>7
  <2>2. r.roots \in Seq(Nat)
    BY <1>1, <1>2, RootsCommit
  <2> QED BY <2>1, <2>2
<1>10. Owned(p)'
  <2>1. r.done \in Seq(Nat) /\ r.touched \subseteq Mine(r)
    <3>1. << >> \in Seq(Nat)
      BY EmptySeq
    <3> QED BY <1>1, <3>1
  <2>2. r.cmd \in mode'.commands /\ \A s \in ScopesOf(r.cmd) : flock'[s] = p
    BY <1>1, <1>2
  <2> QED BY <1>1, <1>5, <1>7, <1>8, <1>9, <2>1, <2>2 DEF Owned
<1>11. Planned(r)
  <2>1. At(disk, y) = NoFile \/ SameDoc(At(disk, y), r.content)
    BY <1>6, AtTree DEF SameDoc, Typed
  <2>2. /\ CopiesOf(r, disk) \subseteq mode.broken \/ y \in CopiesOf(r, disk)
        /\ At(disk, y) = NoFile \/ y \in CopiesOf(r, disk)
    <3>1. CASE y \in Leftovers(c)
      BY <1>1, <1>3, <1>4, <1>6, <3>1 DEF Leftovers, InScope, Parsed, CopiesOf
    <3>2. CASE Leftovers(c) = {} /\ y \notin DOMAIN disk
      <4>1. CopiesOf(r, disk) \subseteq mode.broken
        BY <1>1, <1>4, <1>6, <3>2 DEF Leftovers, InScope, Parsed, CopiesOf
      <4> QED BY <3>2, <4>1, AtTree DEF Typed
    <3> QED BY <1>3, <3>1, <3>2
  <2>3. DOMAIN disk \subseteq Paths /\ \A x \in Mine(r) : At(disk, x) \in File \cup {NoFile}
    BY AtTree DEF Typed, Tree
  <2> QED BY <1>1, <1>3, <1>4, <1>6, <2>1, <2>2, <2>3 DEF Planned, Was
<1>12. ASSUME NEW i \in 1..Len(r.ops) - 1
       PROVE  Writes(r, r.ops[i]) /\ (c.kind = "ticket" => Id(r.src) \notin r.ops[i].file.links)
  <2>1. CASE i = 1
    <3>1. r.ops[i].path = y /\ r.ops[i].file = r.content
      BY <1>7, <2>1 DEF Op
    <3> QED BY <1>1, <1>3, <1>5, <1>6, <3>1, NoFileIsNone DEF Writes
  <2>2. CASE i # 1
    <3>1. i \in 2..Len(r.ops) - 1
      BY <1>7, <2>2
    <3>2. PICK x \in Referring(c) : r.ops[i] = Followed(c, y, x)
      BY <1>7, <3>1
    <3>3. /\ x \in Paths /\ x \in DOMAIN disk /\ x # Source(c) /\ x.scope \in {c.scope, c.to}
          /\ r.ops[i].path = x /\ r.ops[i].file \in File
          /\ SameDoc(r.ops[i].file, At(disk, x)) /\ r.ops[i].file.ver = At(disk, x).ver
          /\ Id(Source(c)) \notin r.ops[i].file.links
      BY <3>2, FollowedFile
    <3>4. At(disk, x) # NoFile
      BY <3>3, AtTree DEF Typed
    <3>5. x \in Mine(r)
      BY <1>1, <1>2, <3>3 DEF Mine
    <3>6. x = r.dst => r.ops[i].file.doc = r.content.doc /\ r.ops[i].file.ver = Was(r, r.dst).ver
      BY <1>1, <1>6, <3>3 DEF SameDoc, Was, At
    <3> QED BY <1>1, <3>3, <3>4, <3>5, <3>6 DEF Writes
  <2> QED BY <2>1, <2>2
<1>13. Pending(r)
  BY <1>1, <1>7, <1>11, <1>12 DEF Pending, Planned, Was
<1>14. Planned(r)' /\ Pending(r)'
  <2>1. Planned(r)'
    BY <1>11 DEF Planned, Was, CopiesOf
  <2>2. ASSUME NEW i \in 1..Len(r.ops) - 1 PROVE Writes(r, r.ops[i])'
    BY <1>12 DEF Writes, Was
  <2> QED BY <1>13, <2>1, <2>2 DEF Pending, Was
<1>15. Moving(proc[p])'
  BY <1>1, <1>8, <1>14 DEF Moving, Was
<1>16. Linking(proc[p])'
  <2> SUFFICES ASSUME c.kind = "ticket" PROVE Linking(proc[p])'
    BY <1>1 DEF Linking
  <2>1. ASSUME NEW x \in Mine(r), x.kind = "ticket", x # r.src, Id(r.src) \in At(disk, x).links
        PROVE  \E i \in 1..Len(r.ops) : r.ops[i].path = x
    <3>1. x \in DOMAIN disk
      BY <2>1 DEF At, NoFile
    <3>2. x \in Referring(c)
      BY <1>1, <1>2, <2>1, <3>1 DEF Referring, TicketsIn, InScope, Mine, At
    <3>3. PICK i \in 2..Len(r.ops) - 1 : r.ops[i].path = x
      BY <1>7, <3>2
    <3>4. i \in 1..Len(r.ops)
      BY <1>7
    <3> QED BY <3>3, <3>4
  <2>2. ASSUME NEW i \in 1..Len(r.ops) PROVE Id(r.src) \notin r.ops[i].file.links
    <3>1. CASE i = Len(r.ops)
      BY <1>7, <3>1 DEF Op, NoFile
    <3>2. CASE i # Len(r.ops)
      BY <1>7, <1>12, <3>2
    <3> QED BY <3>1, <3>2
  <2> QED BY <1>1, <2>1, <2>2 DEF Linking, Mine
<1>17. Following(proc[p])'
  <2>1. \A x \in {r.src, r.dst} : \E i \in 1..Len(r.ops) : r.ops[i].path = x
    BY <1>1, <1>7 DEF Op
  <2>2. \A s \in ScopesOf(c) : Commits(s) => Root(s) \in Elements(r.roots)
    BY <1>1, <1>2, RootsCommit
  <2> QED BY <1>1, <2>1, <2>2 DEF Following, Was, Commits, Root, Elements
<1>18. Showing(proc[p])'
  <2>1. ASSUME c.kind = "design", NEW i \in 1..Len(r.ops)
        PROVE  r.ops[i].path \in {r.src, r.dst}
    <3>1. Referring(c) = {}
      BY <2>1 DEF Referring
    <3>2. i = 1 \/ i = Len(r.ops)
      BY <1>7, <3>1
    <3> QED BY <1>1, <1>7, <3>2 DEF Op
  <2> QED BY <1>1, <2>1 DEF Showing, Undoes, WasHead
<1> QED BY <1>1, <1>10, <1>15, <1>16, <1>17, <1>18 DEF Sound

(* A verb changes a file of a document into another of it.                    *)
LEMMA ChangedFile ==
  ASSUME Typed, NEW c \in mode.commands, c.verb \in {"mark", "link", "unlink"}, ~RefusedChange(c)
  PROVE  /\ Parsed(Source(c)) /\ Changed(c, disk[Source(c)]) \in File
         /\ Marked(Changed(c, disk[Source(c)]), disk[Source(c)])
<1> DEFINE f == disk[Source(c)]
<1>1. Parsed(Source(c)) /\ f.ver # MaxVersion /\ WellFormed(c)
  BY ModeIsSane DEF RefusedChange
<1>2. f \in File
  BY <1>1, SourceIsThere
<1>3. f.doc \in Docs /\ f.ver \in 1..MaxVersion /\ f.links \in SUBSET Ids
      /\ f = [doc |-> f.doc, ver |-> f.ver, links |-> f.links]
  BY <1>2 DEF File
<1> HIDE DEF f
<1>4. CASE c.verb = "mark"
  <2>1. Changed(c, f) = [f EXCEPT !.ver = f.ver + 1]
    BY <1>4 DEF Changed
  <2>2. f.ver + 1 \in 1..MaxVersion
    BY <1>1, <1>3, VersionsAreCounted
  <2> QED BY <1>1, <1>2, <2>1, <2>2, NoFileIsNone DEF File, Marked, SameDoc, f
<1>5. CASE c.verb = "link"
  <2>1. Changed(c, f) = [f EXCEPT !.links = f.links \cup {c.link}]
    BY <1>5 DEF Changed
  <2>2. f.links \cup {c.link} \in SUBSET Ids
    BY <1>1, <1>3, <1>5 DEF WellFormed
  <2> QED BY <1>1, <1>2, <2>1, <2>2, NoFileIsNone DEF File, Marked, SameDoc, f
<1>6. CASE c.verb = "unlink"
  <2>1. Changed(c, f) = [f EXCEPT !.links = f.links \ {c.link}]
    BY <1>6 DEF Changed
  <2>2. f.links \ {c.link} \in SUBSET Ids
    BY <1>3
  <2> QED BY <1>1, <1>2, <2>1, <2>2, NoFileIsNone DEF File, Marked, SameDoc, f
<1> QED BY <1>4, <1>5, <1>6

(* A change that starts.                                                     *)
LEMMA ChangeStarts ==
  ASSUME Typed, NEW p \in Procs, NEW c \in mode.commands, c.verb \in {"mark", "link", "unlink"},
         ~RefusedChange(c), NEW r,
         r = [Fresh EXCEPT !.cmd = c, !.pc = "apply", !.src = Source(c), !.dst = Source(c),
                !.ops = <<Op(Source(c), Changed(c, disk[Source(c)]))>>,
                !.prior = Prior(<<Source(c)>>), !.was = Files, !.roots = RootsOf(c.scope)],
         proc'[p] = r, UNCHANGED <<mode, disk, head>>, flock'[c.scope] = p
  PROVE  Sound(p)'
<1> DEFINE f == Changed(c, disk[Source(c)])
<1>1. /\ r.cmd = c /\ r.pc = "apply" /\ r.src = Source(c) /\ r.dst = Source(c)
      /\ r.ops = <<Op(Source(c), f)>> /\ r.prior = Prior(<<Source(c)>>)
      /\ r.was.disk = disk /\ r.was.head = head
      /\ r.roots = RootsOf(c.scope) /\ r.done = << >> /\ r.touched = {}
  BY DEF Fresh, Files
<1>2. WellFormed(c) /\ c.scope \in Scopes /\ ScopesOf(c) = {c.scope}
  BY ModeIsSane DEF WellFormed, ScopesOf
<1>3. f \in File /\ Marked(f, disk[Source(c)]) /\ Parsed(Source(c))
  BY ChangedFile
<1>4. /\ Source(c) \in Paths /\ Source(c).scope = c.scope
      /\ disk[Source(c)] \in File /\ At(disk, Source(c)) = disk[Source(c)] /\ Source(c) \notin mode.broken
  BY <1>3, SourceIsThere
<1> HIDE DEF f
<1>5. Source(c) \in Mine(r) /\ Op(Source(c), f) \in Ops
  BY <1>1, <1>2, <1>3, <1>4 DEF Mine, Op, Ops
<1>6. r.ops \in Seq(Ops) /\ Len(r.ops) = 1 /\ r.ops # << >> /\ r.ops[1] = Op(Source(c), f)
  BY <1>1, <1>5
<1>7. r.prior \in Seq(Ops) /\ r.prior # << >> /\ r.prior = <<Op(Source(c), At(disk, Source(c)))>>
  <2>1. Prior(<<Source(c)>>) = <<Op(Source(c), At(disk, Source(c)))>> /\ Prior(<<Source(c)>>) \in Seq(Ops)
        /\ Prior(<<Source(c)>>) # << >>
    BY <1>4, PriorOf
  <2> QED BY <1>1, <2>1
<1>8. r.roots \in Seq(Nat) /\ r.done \in Seq(Nat)
  <2>1. RootsOf(c.scope) \in Seq(Nat)
    BY <1>2, RootsCommit
  <2>2. << >> \in Seq(Nat)
    BY EmptySeq
  <2> QED BY <1>1, <2>1, <2>2
<1>9. Owned(p)'
  BY <1>1, <1>2, <1>5, <1>6, <1>7, <1>8 DEF Owned
<1>10. Changing(proc[p])'
  <2>1. r.ops[1].path = Source(c) /\ r.ops[1].file = f
    BY <1>6 DEF Op
  <2>2. Marked(disk[Source(c)], disk[Source(c)])
    BY <1>4, NoFileIsNone DEF Marked, SameDoc
  <2> QED BY <1>1, <1>3, <1>4, <1>6, <1>7, <2>1, <2>2 DEF Changing, Was
<1>11. Showing(proc[p])'
  <2>1. \A i \in 1..Len(r.ops) : r.ops[i].path = r.src
    BY <1>1, <1>6 DEF Op
  <2> QED BY <1>1, <2>1 DEF Showing, Undoes, WasHead
<1> QED BY <1>1, <1>9, <1>10, <1>11 DEF Sound

(* A new design that starts.                                                 *)
LEMMA CreateStarts ==
  ASSUME Typed, NEW p \in Procs, NEW c \in mode.commands, c.verb = "create", NEW x \in Paths, x.scope = c.scope,
         x.short \notin OccupiedShortIDs(c.scope), \A y \in DOMAIN disk : disk[y].doc # c.doc, NEW r,
         r = [Fresh EXCEPT !.cmd = c, !.pc = "apply", !.src = x, !.dst = x,
                !.ops = <<Op(x, [doc |-> c.doc, ver |-> 1, links |-> {}])>>],
         proc'[p] = r, UNCHANGED <<mode, disk, head>>, flock'[c.scope] = p
  PROVE  Sound(p)'
<1> DEFINE f == [doc |-> c.doc, ver |-> 1, links |-> {}]
<1>1. /\ r.cmd = c /\ r.pc = "apply" /\ r.src = x /\ r.dst = x /\ r.ops = <<Op(x, f)>>
      /\ r.prior = << >> /\ r.roots = << >> /\ r.done = << >> /\ r.touched = {}
  BY DEF Fresh
<1>2. WellFormed(c) /\ c.scope \in Scopes /\ c.doc \in Docs /\ ScopesOf(c) = {c.scope}
  BY ModeIsSane DEF WellFormed, ScopesOf
<1>3. f \in File
  BY <1>2, VersionsAreCounted DEF File
<1>4. x \in Mine(r) /\ Op(x, f) \in Ops
  BY <1>1, <1>2, <1>3 DEF Mine, Op, Ops
<1>5. At(disk, x) = NoFile
  BY DEF OccupiedShortIDs, InScope, At
<1> HIDE DEF f
<1>6. r.ops \in Seq(Ops) /\ r.ops # << >>
  <2>1. \A e \in Ops : <<e>> \in Seq(Ops) /\ <<e>> # << >>
    OBVIOUS
  <2> QED BY <1>1, <1>4, <2>1, ZenonT(60)
<1>7. << >> \in Seq(Nat) /\ << >> \in Seq(Ops)
  BY EmptySeq
<1>8. Owned(p)'
  BY <1>1, <1>2, <1>4, <1>6, <1>7, ZenonT(60) DEF Owned
<1>9. Creating(proc[p])'
  BY <1>1, <1>5 DEF Creating, f
<1>10. Showing(proc[p])'
  BY <1>1 DEF Showing, Undoes
<1> QED BY <1>1, <1>8, <1>9, <1>10 DEF Sound

-----------------------------------------------------------------------------
(* The writes.                                                              *)

(* The operations that are left once the first one is done.                   *)
LEMMA TailOps ==
  ASSUME NEW S, NEW ops \in Seq(S), ops # << >>
  PROVE  /\ Head(ops) \in S /\ Head(ops) = ops[1] /\ Tail(ops) \in Seq(S)
         /\ Len(ops) \in Nat /\ Len(ops) >= 1 /\ Len(Tail(ops)) = Len(ops) - 1
         /\ \A i \in 1..Len(Tail(ops)) : Tail(ops)[i] = ops[i + 1] /\ i + 1 \in 2..Len(ops)
         /\ \A i \in 2..Len(ops) : i - 1 \in 1..Len(Tail(ops)) /\ ops[i] = Tail(ops)[i - 1]
         /\ Len(ops) = 1 => Tail(ops) = << >>
         /\ Len(ops) # 1 => Tail(ops) # << >>
<1>1. /\ Head(ops) \in S /\ Head(ops) = ops[1] /\ Tail(ops) \in Seq(S)
      /\ Len(Tail(ops)) = Len(ops) - 1 /\ \A i \in 1..Len(Tail(ops)) : Tail(ops)[i] = ops[i + 1]
  BY HeadTailProperties
<1>2. Len(ops) \in Nat /\ Len(ops) # 0
  BY EmptySeq, LenProperties
<1>3. PICK n \in Nat : Len(ops) = n + 1
  <2>1. \A k \in Nat : k # 0 => k - 1 \in Nat /\ k = (k - 1) + 1
    OBVIOUS
  <2> QED BY <1>2, <2>1
<1>4. Len(Tail(ops)) = n
  BY <1>1, <1>3
<1>5. \A i \in 1..n : i + 1 \in 2..n + 1
  OBVIOUS
<1>6. ASSUME NEW i \in 2..n + 1 PROVE i - 1 \in 1..n /\ ops[i] = Tail(ops)[i - 1]
  <2>1. i - 1 \in 1..n /\ (i - 1) + 1 = i
    OBVIOUS
  <2> QED BY <1>1, <1>4, <2>1
<1>7. n + 1 = 1 => Tail(ops) = << >>
  BY <1>1, <1>4
<1>8. n + 1 # 1 => Tail(ops) # << >>
  <2> SUFFICES ASSUME Tail(ops) = << >> PROVE n = 0
    OBVIOUS
  <2>1. Len(<< >>) = 0
    BY EmptySeq
  <2> QED BY <1>4, <2>1
<1> QED BY <1>1, <1>2, <1>3, <1>4, <1>5, <1>6, <1>7, <1>8

(* What a process at work needs to stay the owner of what it writes.          *)
LEMMA StaysOwner ==
  ASSUME Typed, NEW p \in Procs, Owned(p), NEW s, proc'[p] = s, mode' = mode,
         \A n \in Scopes : flock[n] = p => flock'[n] = p,
         s.cmd = proc[p].cmd, s.src = proc[p].src, s.dst = proc[p].dst,
         s.ops \in Seq(Ops), s.prior \in Seq(Ops), s.roots \in Seq(Nat), s.done \in Seq(Nat),
         s.touched \subseteq Mine(proc[p]),
         s.pc = "apply" => s.ops # << >>, s.pc \in {"restore", "undo"} => Undoes(proc[p]),
         s.pc = "restore" => s.prior # << >>, s.pc \in {"apply", "index"} => s.done = << >>
  PROVE  Owned(p)'
<1>1. ScopesOf(proc[p].cmd) \subseteq Scopes
  BY ModeIsSane DEF Owned, ScopesOf, WellFormed
<1>2. Mine(s) = Mine(proc[p]) /\ (Undoes(s) <=> Undoes(proc[p]))
  BY DEF Mine, Undoes
<1>3. \A n \in ScopesOf(s.cmd) : flock'[n] = p
  BY <1>1 DEF Owned
<1> QED BY <1>2, <1>3 DEF Owned

(* An operation that writes a file leaves the plan of the move to be done.    *)
LEMMA WriteMoves ==
  ASSUME Typed, NEW p \in Procs, Sound(p), proc[p].pc = "apply", proc[p].cmd.verb = "rehome", mode' = mode,
         Len(proc[p].ops) # 1, Writes(proc[p], Head(proc[p].ops)),
         At(disk', Head(proc[p].ops).path) = Head(proc[p].ops).file,
         \A y : y # Head(proc[p].ops).path => At(disk', y) = At(disk, y), head' = head,
         NEW s, proc'[p] = s, s.pc = "apply", s.cmd = proc[p].cmd, s.src = proc[p].src, s.dst = proc[p].dst,
         s.content = proc[p].content, s.was = proc[p].was, s.ops = Tail(proc[p].ops), s.prior = proc[p].prior,
         s.roots = proc[p].roots, s.done = proc[p].done, s.touched = proc[p].touched \cup {Head(proc[p].ops).path}
  PROVE  Moving(s)' /\ Linking(s)' /\ Following(s)'
<1> DEFINE r == proc[p]
<1> PICK op : op = Head(r.ops)
  OBVIOUS
<1>1. Owned(p) /\ Moving(r) /\ Planned(r) /\ Pending(r) /\ Linking(r) /\ Following(r)
  BY DEF Sound, Moving, Working
<1>2. /\ op = r.ops[1] /\ Len(r.ops) \in Nat /\ Len(s.ops) = Len(r.ops) - 1
      /\ \A i \in 1..Len(s.ops) : s.ops[i] = r.ops[i + 1] /\ i + 1 \in 2..Len(r.ops)
      /\ \A i \in 2..Len(r.ops) : i - 1 \in 1..Len(s.ops) /\ r.ops[i] = s.ops[i - 1]
  BY <1>1, TailOps DEF Owned
<1>3. /\ Mine(s) = Mine(r) /\ Mine(s)' = Mine(r)
      /\ r.src \in Mine(r) /\ r.dst \in Mine(r) /\ op.path \in Mine(r) \ {r.src}
  BY <1>1 DEF Mine, Owned, Writes
<1>4. op.file \in File /\ op.file # NoFile
  BY NoFileIsNone DEF Writes
<1>5. Planned(s)'
  BY <1>1, PlanKept
<1>6. op.path = r.dst => op.file.doc = r.content.doc /\ op.file.ver \in {r.content.ver, Was(r, r.dst).ver}
  BY DEF Writes
<1>7. At(disk', r.src) = Was(r, r.src)
  BY <1>1, <1>3 DEF Pending
<1>8. \/ At(disk', r.dst) = NoFile
      \/ SameDoc(At(disk', r.dst), r.content) /\ At(disk', r.dst).ver \in {r.content.ver, Was(r, r.dst).ver}
  BY <1>1, <1>4, <1>6, SMTT(40) DEF Pending, SameDoc
<1>9. ASSUME NEW i \in 1..Len(s.ops) - 1
      PROVE  Writes(s, s.ops[i])'
  <2>1. PICK e : e = s.ops[i]
    OBVIOUS
  <2>2. i + 1 \in 1..Len(r.ops) - 1 /\ i \in 1..Len(s.ops)
    BY <1>2
  <2>3. Writes(r, e)
    BY <1>1, <1>2, <2>1, <2>2 DEF Pending
  <2>4. e.path # r.dst => SameDoc(e.file, At(disk', e.path)) /\ e.file.ver = At(disk', e.path).ver
    <3>1. CASE e.path # op.path
      BY <2>3, <3>1 DEF Writes
    <3>2. CASE e.path = op.path
      BY <2>3, <3>2 DEF Writes, SameDoc
    <3> QED BY <3>1, <3>2
  <2>5. e.path = r.dst => /\ e.file.doc = r.content.doc /\ e.file.ver \in {r.content.ver, Was(r, r.dst).ver}
                          /\ At(disk', r.dst) = NoFile => e.file = r.content
    BY <1>4, <2>3 DEF Writes
  <2> QED BY <1>3, <2>1, <2>3, <2>4, <2>5, ZenonT(60) DEF Writes, Was
<1>10. s.ops[Len(s.ops)] = Op(s.src, NoFile)
  <2>1. Len(s.ops) \in 1..Len(s.ops) /\ Len(s.ops) + 1 = Len(r.ops)
    <3>1. \A n \in Nat : n >= 1 /\ n # 1 => n - 1 \in 1..n - 1 /\ (n - 1) + 1 = n
      OBVIOUS
    <3>2. Len(r.ops) >= 1
      BY <1>1, TailOps DEF Owned
    <3> QED BY <1>2, <3>1, <3>2
  <2> QED BY <1>1, <1>2, <2>1 DEF Pending
<1>11. Pending(s)'
  BY <1>7, <1>8, <1>9, <1>10 DEF Pending, Was
<1>12. Moving(s)'
  BY <1>1, <1>5, <1>11 DEF Moving, Was
<1>13. Linking(s)'
  <2> SUFFICES ASSUME r.cmd.kind = "ticket" PROVE Linking(s)'
    BY DEF Linking
  <2>1. /\ \A x \in Mine(r) : x.kind = "ticket" /\ x # r.src /\ Id(r.src) \in At(disk, x).links =>
             \E i \in 1..Len(r.ops) : r.ops[i].path = x
        /\ \A i \in 1..Len(r.ops) : Id(r.src) \notin r.ops[i].file.links
    BY <1>1 DEF Linking
  <2>2. \A i \in 1..Len(s.ops) : Id(r.src) \notin s.ops[i].file.links
    BY <1>2, <2>1
  <2>3. ASSUME NEW x \in Mine(r), x.kind = "ticket", x # r.src, Id(r.src) \in At(disk', x).links
        PROVE  \E i \in 1..Len(s.ops) : s.ops[i].path = x
    <3>1. Id(r.src) \notin op.file.links
      BY <1>2, <2>1
    <3>2. x # op.path /\ At(disk', x) = At(disk, x)
      BY <2>3, <3>1
    <3>3. PICK i \in 1..Len(r.ops) : r.ops[i].path = x
      BY <2>1, <2>3, <3>2
    <3>4. i \in 2..Len(r.ops)
      BY <1>2, <3>2, <3>3, SMTT(40)
    <3> QED BY <1>2, <3>3, <3>4
  <2> QED BY <1>3, <2>2, <2>3 DEF Linking
<1>14. Following(s)'
  <2>1. \A x \in Mine(r) \ {r.src, r.dst} : At(disk', x).doc = Was(r, x).doc
    BY <1>1 DEF Following, Writes, SameDoc
  <2>2. ASSUME NEW x \in {r.src, r.dst}
        PROVE  x \in s.touched \/ \E i \in 1..Len(s.ops) : s.ops[i].path = x
    <3>1. x \in r.touched \/ \E i \in 1..Len(r.ops) : r.ops[i].path = x
      BY <1>1 DEF Following
    <3>2. ASSUME NEW i \in 1..Len(r.ops), r.ops[i].path = x
          PROVE  x = op.path \/ \E j \in 1..Len(s.ops) : s.ops[j].path = x
      <4>1. CASE i = 1
        BY <1>2, <3>2, <4>1
      <4>2. CASE i # 1
        <5>1. i \in 2..Len(r.ops)
          BY <1>2, <4>2
        <5> QED BY <1>2, <3>2, <5>1
      <4> QED BY <4>1, <4>2
    <3> QED BY <3>1, <3>2
  <2>3. \A n \in ScopesOf(r.cmd) : Commits(n)' => Root(n)' \in Elements(r.roots) \cup Elements(r.done)
    BY <1>1 DEF Following, Commits, Root
  <2> QED BY <1>3, <2>1, <2>2, <2>3 DEF Following, Was, Elements
<1> QED BY <1>12, <1>13, <1>14

(* The last operation removes the source, and the move is on disk.            *)
LEMMA RemovalMoves ==
  ASSUME Typed, NEW p \in Procs, Sound(p), proc[p].pc = "apply", proc[p].cmd.verb = "rehome", mode' = mode,
         Len(proc[p].ops) = 1, Head(proc[p].ops) = Op(proc[p].src, NoFile), At(disk, proc[p].dst) = proc[p].content,
         At(disk', proc[p].src) = NoFile, \A y : y # proc[p].src => At(disk', y) = At(disk, y), head' = head,
         NEW s, proc'[p] = s, s.pc = "index", s.cmd = proc[p].cmd, s.src = proc[p].src, s.dst = proc[p].dst,
         s.content = proc[p].content, s.was = proc[p].was, s.prior = proc[p].prior,
         s.roots = proc[p].roots, s.done = proc[p].done, s.touched = proc[p].touched \cup {proc[p].src}
  PROVE  Moving(s)' /\ Linking(s)' /\ Following(s)'
<1> DEFINE r == proc[p]
<1>1. Owned(p) /\ Moving(r) /\ Planned(r) /\ Pending(r) /\ Linking(r) /\ Following(r)
  BY DEF Sound, Moving, Working
<1>2. r.ops[1] = Op(r.src, NoFile) /\ \A i \in 1..Len(r.ops) : i = 1
  BY <1>1 DEF Pending
<1>3. r.src # r.dst
  BY <1>1, ModeIsSane DEF Planned, Owned, WellFormed, Source
<1>4. Mine(s)' = Mine(r)
  BY DEF Mine
<1>5. Planned(s)'
  BY <1>1, PlanKept
<1>6. Moving(s)'
  BY <1>1, <1>3, <1>5 DEF Moving, Was
<1>7. Linking(s)'
  <2> SUFFICES ASSUME r.cmd.kind = "ticket" PROVE Linking(s)'
    BY DEF Linking
  <2>1. \A x \in Mine(r) : x.kind = "ticket" /\ x # r.src => Id(r.src) \notin At(disk, x).links
    BY <1>1, <1>2 DEF Linking, Op
  <2> QED BY <1>4, <2>1 DEF Linking
<1>8. Following(s)'
  <2>1. \A x \in {r.src, r.dst} : x \in s.touched
    BY <1>1, <1>2 DEF Following, Op
  <2>2. \A x \in Mine(r) \ {r.src, r.dst} : At(disk', x).doc = Was(r, x).doc
    BY <1>1 DEF Following
  <2> QED BY <1>1, <1>4, <2>1, <2>2 DEF Following, Was, Commits, Root, Elements
<1> QED BY <1>6, <1>7, <1>8

(* A write that is done.                                                     *)
LEMMA ApplyKeeps ==
  ASSUME Typed, NEW p \in Procs, Sound(p), proc[p].pc = "apply", mode' = mode, flock' = flock, head' = head,
         FreeDestination(proc[p]), NEW op, op = Head(proc[p].ops), disk' = Put(disk, op.path, op.file),
         NEW s, proc'[p] = s,
         s = [proc[p] EXCEPT !.ops = Tail(@), !.touched = @ \cup {op.path},
                             !.pc = IF Len(proc[p].ops) = 1 THEN "index" ELSE @]
  PROVE  Sound(p)'
<1> DEFINE r == proc[p]
<1>1. /\ s.pc = IF Len(r.ops) = 1 THEN "index" ELSE "apply"
      /\ s.cmd = r.cmd /\ s.src = r.src /\ s.dst = r.dst /\ s.content = r.content /\ s.was = r.was
      /\ s.ops = Tail(r.ops) /\ s.prior = r.prior /\ s.roots = r.roots /\ s.done = r.done
      /\ s.touched = r.touched \cup {op.path}
  BY DEF Typed, Fields
<1>2. Owned(p) /\ WellFormed(r.cmd) /\ r.cmd.verb \in {"rehome", "mark", "link", "unlink", "create"}
  BY ModeIsSane DEF Sound, Owned, WellFormed, Working
<1>3. /\ op \in Ops /\ op = r.ops[1] /\ s.ops \in Seq(Ops) /\ Len(r.ops) \in Nat /\ Len(r.ops) >= 1
      /\ \A i \in 1..Len(s.ops) : s.ops[i] = r.ops[i + 1] /\ i + 1 \in 2..Len(r.ops)
      /\ Len(r.ops) # 1 => s.ops # << >>
  <2>1. r.ops \in Seq(Ops) /\ r.ops # << >>
    BY <1>2 DEF Owned
  <2>2. /\ Head(r.ops) \in Ops /\ Head(r.ops) = r.ops[1] /\ Tail(r.ops) \in Seq(Ops)
        /\ Len(r.ops) \in Nat /\ Len(r.ops) >= 1
        /\ \A i \in 1..Len(Tail(r.ops)) : Tail(r.ops)[i] = r.ops[i + 1] /\ i + 1 \in 2..Len(r.ops)
        /\ Len(r.ops) # 1 => Tail(r.ops) # << >>
    BY <2>1, TailOps
  <2> QED BY <1>1, <2>2
<1>4. op.path \in Paths /\ op.file \in File \cup {NoFile}
  BY <1>3 DEF Ops
<1>5. At(disk', op.path) = op.file /\ \A y : y # op.path => At(disk', y) = At(disk, y)
  BY <1>4, PutAt DEF Typed
<1>7. op.path \in Mine(r) /\ (r.cmd.verb = "rehome" => (Moving(s)' /\ Linking(s)' /\ Following(s)'))
  <2>1. CASE r.cmd.verb = "rehome" /\ Len(r.ops) # 1
    <3>1. Writes(r, op)
      BY SMTT(40), <2>1, NextOperation
    <3>2. op.path \in Mine(r)
      BY <3>1 DEF Writes
    <3>4. s.pc = "apply"
      BY SMTT(40), <1>1, <2>1
    <3>5. Moving(s)' /\ Linking(s)' /\ Following(s)'
      BY <1>1, <1>5, <2>1, <3>1, <3>4, WriteMoves
    <3> QED BY <3>2, <3>5
  <2>2. CASE r.cmd.verb = "rehome" /\ Len(r.ops) = 1
    <3>1. op = Op(r.src, NoFile) /\ At(disk, r.dst) = r.content
      BY <2>2, NextOperation
    <3>2. op.path = r.src /\ op.file = NoFile
      BY <3>1 DEF Op
    <3>3. op.path \in Mine(r)
      BY <1>2, <3>2 DEF Owned
    <3> QED BY <1>1, <1>5, <2>2, <3>1, <3>2, <3>3, RemovalMoves, ZenonT(60)
  <2>3. CASE r.cmd.verb \in {"mark", "link", "unlink"}
    BY <1>2, <1>3, <2>3 DEF Sound, Changing, Owned, Working
  <2>4. CASE r.cmd.verb = "create"
    <3>1. op.path = r.src
      BY SMTT(40), <1>3, <2>4 DEF Sound, Creating, Working, Op
    <3> QED BY <1>2, <2>4, <3>1 DEF Owned
  <2> QED BY <1>2, <2>1, <2>2, <2>3, <2>4
<1>8. Owned(p)'
  <2>1. s.touched \subseteq Mine(r)
    BY <1>1, <1>2, <1>7 DEF Owned
  <2>2. s.pc \in {"apply", "index"} => s.done = << >>
    BY <1>1, <1>2 DEF Owned
  <2>3. s.pc = "apply" => s.ops # << >>
    BY <1>1, <1>3
  <2>4. s.pc \notin {"restore", "undo"}
    BY SMTT(40), <1>1
  <2> QED BY <1>1, <1>2, <1>3, <2>1, <2>2, <2>3, <2>4, StaysOwner DEF Owned
<1>9. s.cmd.verb \in {"mark", "link", "unlink"} => Changing(s)'
  <2> SUFFICES ASSUME r.cmd.verb \in {"mark", "link", "unlink"} PROVE Changing(s)'
    BY <1>1
  <2>1. Changing(r) /\ Len(r.ops) = 1 /\ r.ops[1].path = r.src /\ Marked(r.ops[1].file, Was(r, r.src))
    BY DEF Sound, Changing, Working
  <2>2. At(disk', r.src) = op.file /\ Marked(op.file, Was(r, r.src))
    BY <1>3, <1>5, <2>1
  <2> QED BY <1>1, <2>1, <2>2 DEF Changing, Was
<1>10. s.cmd.verb = "create" => Creating(s)'
  <2> SUFFICES ASSUME r.cmd.verb = "create" PROVE Creating(s)'
    BY <1>1
  <2>1. r.dst = r.src /\ Len(r.ops) = 1
    BY DEF Sound, Creating, Working
  <2> QED BY <1>1, <2>1 DEF Creating
<1>11. Showing(s)'
  <2> SUFFICES ASSUME Undoes(r) PROVE Showing(s)'
    BY <1>1 DEF Showing, Undoes
  <2>1. /\ r.touched \subseteq {r.src, r.dst} /\ \A i \in 1..Len(r.ops) : r.ops[i].path \in {r.src, r.dst}
        /\ \A x \in Mine(r) : At(head, x) = WasHead(r, x)
    BY DEF Sound, Showing, Working
  <2>2. s.touched \subseteq {r.src, r.dst} /\ \A i \in 1..Len(s.ops) : s.ops[i].path \in {r.src, r.dst}
    BY <1>1, <1>3, <2>1, SMTT(40)
  <2> QED BY <1>1, <2>1, <2>2 DEF Showing, Mine, WasHead
<1> QED BY <1>1, <1>7, <1>8, <1>9, <1>10, <1>11 DEF Sound

-----------------------------------------------------------------------------
(* The index, the commits, and taking back.                                  *)

(* The index is written, or a command turns to taking itself back.            *)
LEMMA ProceedsKeeps ==
  ASSUME Typed, NEW p \in Procs, Sound(p), UNCHANGED <<mode, disk, head, flock>>, NEW pc,
         \/ proc[p].pc = "index" /\ pc = "commit"
         \/ proc[p].pc \in {"index", "commit"} /\ pc = "restore" /\ Undoes(proc[p]),
         NEW s, proc'[p] = s, s = [proc[p] EXCEPT !.pc = pc]
  PROVE  Sound(p)'
<1> DEFINE r == proc[p]
<1>1. /\ s.pc = pc /\ s.cmd = r.cmd /\ s.src = r.src /\ s.dst = r.dst /\ s.content = r.content /\ s.was = r.was
      /\ s.ops = r.ops /\ s.prior = r.prior /\ s.roots = r.roots /\ s.done = r.done /\ s.touched = r.touched
  BY DEF Typed, Fields
<1>2. r.pc \in Working /\ Owned(p) /\ WellFormed(r.cmd) /\ Showing(r) /\ r.pc # "apply"
      /\ (Undoes(r) => r.cmd.verb # "create") /\ pc \in {"commit", "restore"}
      /\ (Undoes(r)' <=> Undoes(r)) /\ (Undoes(s) <=> Undoes(r)) /\ Mine(s) = Mine(r)
  BY <1>1, ModeIsSane DEF Sound, Owned, Working, Undoes, Mine
<1>3. s.cmd.verb = "rehome" => (Moving(s)' /\ Linking(s)' /\ Following(s)' /\ s.prior # << >>)
  <2> SUFFICES ASSUME r.cmd.verb = "rehome" PROVE Moving(s)' /\ Linking(s)' /\ Following(s)' /\ s.prior # << >>
    BY <1>1
  <2>1. Moving(r) /\ Planned(r) /\ Linking(r) /\ Following(r)
    BY <1>2 DEF Sound, Moving
  <2>2. Planned(s)'
    BY <1>1, <2>1, PlanKept
  <2>3. /\ At(disk, r.src) = NoFile /\ At(disk, r.dst) = r.content /\ Len(r.prior) = 2
        /\ r.prior[1] = Op(r.src, Was(r, r.src)) /\ r.prior[2] = Op(r.dst, Was(r, r.dst))
    BY <2>1 DEF Moving
  <2>4. s.prior # << >>
    <3>1. Len(<< >>) # 2
      BY EmptySeq
    <3> QED BY <1>1, <2>3, <3>1
  <2>5. Moving(s)'
    BY <1>1, <1>2, <2>2, <2>3, <2>4 DEF Moving, Takes, Was
  <2>6. Linking(s)'
    BY <1>1, <1>2, <2>1 DEF Linking, Mine
  <2>7. Following(s)'
    <3> SUFFICES ASSUME pc = "commit", r.pc = "index" PROVE Following(s)'
      BY <1>1, <1>2 DEF Following
    <3>1. Elements(s.done) = {}
      BY <1>1, <1>2 DEF Owned, Elements
    <3>2. /\ \A x \in Mine(r) \ {r.src, r.dst} : At(disk', x).doc = Was(r, x).doc
          /\ \A x \in {r.src, r.dst} : x \in r.touched
          /\ \A n \in ScopesOf(r.cmd) : Commits(n)' => Root(n)' \in Elements(s.roots) \cup Elements(s.done)
      BY <1>1, <2>1 DEF Following, Commits, Root
    <3>3. Mine(s)' = Mine(r) /\ \A x : Was(s, x)' = Was(r, x)
      BY <1>1 DEF Mine, Was
    <3>4. \A x : Root(x.scope)' \notin Elements(s.done)
      BY <3>1
    <3> QED BY <1>1, <3>2, <3>3, <3>4 DEF Following
  <2> QED BY <2>4, <2>5, <2>6, <2>7
<1>4. s.cmd.verb \in {"mark", "link", "unlink"} => (Changing(s)' /\ s.prior # << >>)
  <2> SUFFICES ASSUME r.cmd.verb \in {"mark", "link", "unlink"} PROVE Changing(s)' /\ s.prior # << >>
    BY <1>1
  <2>1. Changing(r)
    BY <1>2 DEF Sound
  <2>2. s.prior # << >>
    <3>1. \A e : <<e>> # << >>
      OBVIOUS
    <3>2. s.prior = <<Op(r.src, Was(r, r.src))>>
      BY <1>1, <1>2, <2>1 DEF Changing
    <3> QED BY <3>1, <3>2
  <2> QED BY <1>1, <1>2, <2>1, <2>2 DEF Changing, Was
<1>5. s.cmd.verb = "create" => Creating(s)'
  BY <1>1, <1>2 DEF Sound, Creating
<1>6. Owned(p)'
  <2>1. s.pc = "restore" => s.prior # << >>
    BY <1>1, <1>2, <1>3, <1>4 DEF WellFormed
  <2>2. s.pc \in {"restore", "undo"} => Undoes(r)
    BY <1>1
  <2>3. s.pc \notin {"apply", "index"}
    BY <1>1, <1>2
  <2> QED BY <1>1, <1>2, <2>1, <2>2, <2>3, StaysOwner DEF Owned
<1>7. Showing(s)'
  BY <1>1, <1>2 DEF Showing, Mine, WasHead, Elements, Root, Undoes
<1> QED BY <1>1, <1>3, <1>4, <1>5, <1>6, <1>7 DEF Sound

(* A commit of a root.                                                       *)
LEMMA CommitKeeps ==
  ASSUME Typed, NEW p \in Procs, Sound(p), UNCHANGED <<mode, disk, flock>>, proc[p].pc = "commit",
         proc[p].roots # << >>, head' = Committed(Head(proc[p].roots), proc[p].touched),
         NEW s, proc'[p] = s, s = [proc[p] EXCEPT !.roots = Tail(@), !.done = Append(@, Head(proc[p].roots))]
  PROVE  Sound(p)'
<1> DEFINE r == proc[p]
<1>1. /\ s.pc = "commit" /\ s.cmd = r.cmd /\ s.src = r.src /\ s.dst = r.dst /\ s.content = r.content /\ s.was = r.was
      /\ s.ops = r.ops /\ s.prior = r.prior /\ s.touched = r.touched
      /\ s.roots = Tail(r.roots) /\ s.done = Append(r.done, Head(r.roots))
  BY DEF Typed, Fields
<1>2. Owned(p) /\ WellFormed(r.cmd) /\ Showing(r) /\ Mine(s) = Mine(r)
  BY <1>1, ModeIsSane DEF Sound, Owned, Working, Mine
<1>3. /\ s.roots \in Seq(Nat) /\ Head(r.roots) \in Nat
      /\ Elements(r.roots) = {Head(r.roots)} \cup Elements(s.roots)
  BY <1>1, <1>2, ElementsOfTail DEF Owned
<1>4. s.done \in Seq(Nat) /\ Elements(s.done) = Elements(r.done) \cup {Head(r.roots)}
  BY <1>1, <1>2, <1>3, ElementsOfAppend DEF Owned
<1>5. \A x : At(head', x) =
               IF x \in r.touched /\ Root(x.scope) = Head(r.roots) THEN At(disk, x) ELSE At(head, x)
  BY CommittedAt DEF Typed
<1>6. s.cmd.verb = "rehome" => (Moving(s)' /\ Linking(s)' /\ Following(s)')
  <2> SUFFICES ASSUME r.cmd.verb = "rehome" PROVE Moving(s)' /\ Linking(s)' /\ Following(s)'
    BY <1>1
  <2>1. Moving(r) /\ Planned(r) /\ Linking(r) /\ Following(r)
    BY <1>2 DEF Sound, Moving, Working
  <2>2. Planned(s)'
    BY <1>1, <2>1, PlanKept
  <2>3. Moving(s)'
    BY <1>1, <2>1, <2>2 DEF Moving, Was
  <2>4. Linking(s)'
    BY <1>1, <2>1 DEF Linking, Mine
  <2>5. /\ \A x \in Mine(r) \ {r.src, r.dst} : At(disk, x).doc = Was(r, x).doc
        /\ \A x \in {r.src, r.dst} : x \in r.touched
        /\ \A n \in ScopesOf(r.cmd) : Commits(n) => Root(n) \in Elements(r.roots) \cup Elements(r.done)
        /\ \A x \in {r.src, r.dst} : Root(x.scope) \in Elements(r.done) => At(head, x) = At(disk, x)
    BY <2>1 DEF Following
  <2>6. \A x \in {r.src, r.dst} : Root(x.scope) \in Elements(s.done) => At(head', x) = At(disk, x)
    BY <1>4, <1>5, <2>5
  <2>7. \A n \in ScopesOf(r.cmd) : Commits(n)' => Root(n)' \in Elements(s.roots) \cup Elements(s.done)
    BY <1>3, <1>4, <2>5 DEF Commits, Root
  <2>8. Following(s)'
    <3>1. Mine(s)' = Mine(r) /\ (\A x : Was(s, x)' = Was(r, x)) /\ \A x : Root(x.scope)' = Root(x.scope)
      BY <1>1 DEF Mine, Was, Root
    <3> QED BY <1>1, <2>5, <2>6, <2>7, <3>1 DEF Following
  <2> QED BY <2>3, <2>4, <2>8
<1>7. s.cmd.verb \in {"mark", "link", "unlink"} => Changing(s)'
  BY <1>1 DEF Sound, Changing, Was, Working
<1>8. s.cmd.verb = "create" => Creating(s)'
  BY <1>1 DEF Sound, Creating, Working
<1>9. Owned(p)'
  BY <1>1, <1>2, <1>3, <1>4, StaysOwner, SMTT(40) DEF Owned
<1>10. Showing(s)'
  <2> SUFFICES ASSUME Undoes(r) PROVE Showing(s)'
    BY <1>1 DEF Showing, Undoes
  <2>1. /\ r.touched \subseteq {r.src, r.dst}
        /\ \A x \in Mine(r) : At(head, x) = WasHead(r, x) \/ (x \in r.touched /\ Root(x.scope) \in Elements(r.done))
    BY <1>2 DEF Showing
  <2>2. \A x \in Mine(r) : At(head', x) = WasHead(r, x) \/ (x \in r.touched /\ Root(x.scope) \in Elements(s.done))
    BY <1>4, <1>5, <2>1
  <2> QED BY <1>1, <2>1, <2>2 DEF Showing, Mine, WasHead, Elements, Root
<1> QED BY <1>1, <1>6, <1>7, <1>8, <1>9, <1>10 DEF Sound

(* An old file that comes back.                                              *)
LEMMA RestoreKeeps ==
  ASSUME Typed, NEW p \in Procs, Sound(p), UNCHANGED <<mode, head, flock>>, proc[p].pc = "restore",
         NEW op, op = Head(proc[p].prior), disk' = Put(disk, op.path, op.file),
         NEW s, proc'[p] = s,
         s = [proc[p] EXCEPT !.prior = Tail(@), !.pc = IF Len(proc[p].prior) = 1 THEN "undo" ELSE @]
  PROVE  Sound(p)'
<1> DEFINE r == proc[p]
<1>1. /\ s.pc = IF Len(r.prior) = 1 THEN "undo" ELSE "restore"
      /\ s.cmd = r.cmd /\ s.src = r.src /\ s.dst = r.dst /\ s.content = r.content /\ s.was = r.was
      /\ s.ops = r.ops /\ s.prior = Tail(r.prior) /\ s.roots = r.roots /\ s.done = r.done /\ s.touched = r.touched
  BY DEF Typed, Fields
<1>2. Owned(p) /\ WellFormed(r.cmd) /\ Showing(r) /\ Undoes(r) /\ r.cmd.verb # "create" /\ Mine(s) = Mine(r)
  BY <1>1, ModeIsSane DEF Sound, Owned, Working, Mine, Undoes
<1>3. /\ op \in Ops /\ op = r.prior[1] /\ s.prior \in Seq(Ops) /\ Len(s.prior) = Len(r.prior) - 1
      /\ \A i \in 1..Len(s.prior) : s.prior[i] = r.prior[i + 1]
      /\ Len(r.prior) # 1 => s.prior # << >>
  <2>1. r.prior \in Seq(Ops) /\ r.prior # << >>
    BY <1>2 DEF Owned
  <2>2. /\ Head(r.prior) \in Ops /\ Head(r.prior) = r.prior[1] /\ Tail(r.prior) \in Seq(Ops)
        /\ Len(Tail(r.prior)) = Len(r.prior) - 1
        /\ \A i \in 1..Len(Tail(r.prior)) : Tail(r.prior)[i] = r.prior[i + 1]
        /\ Len(r.prior) # 1 => Tail(r.prior) # << >>
    BY <2>1, TailOps
  <2> QED BY <1>1, <2>2
<1>4. op.path \in Paths /\ op.file \in File \cup {NoFile}
  BY <1>3 DEF Ops
<1>5. At(disk', op.path) = op.file /\ \A y : y # op.path => At(disk', y) = At(disk, y)
  BY <1>4, PutAt DEF Typed
<1>6. s.cmd.verb = "rehome" => (Moving(s)' /\ Linking(s)' /\ Following(s)')
  <2> SUFFICES ASSUME r.cmd.verb = "rehome" PROVE Moving(s)' /\ Linking(s)' /\ Following(s)'
    BY <1>1
  <2>1. Planned(r) /\ Takes(r)
    BY <1>2 DEF Sound, Moving, Working
  <2>2. Planned(s)'
    BY <1>1, <2>1, PlanKept
  <2>3. r.src # r.dst
    BY <1>2, <2>1 DEF Planned, WellFormed, Source
  <2>4. CASE Len(r.prior) = 2 /\ r.prior[1] = Op(r.src, Was(r, r.src)) /\ r.prior[2] = Op(r.dst, Was(r, r.dst))
    <3>1. op.path = r.src /\ op.file = Was(r, r.src)
      BY <1>3, <2>4 DEF Op
    <3>2. At(disk', r.src) = Was(r, r.src) /\ At(disk', r.dst) = r.content
      BY <1>5, <2>1, <2>3, <3>1 DEF Takes
    <3>3. Len(s.prior) = 1 /\ s.prior[1] = Op(r.dst, Was(r, r.dst)) /\ s.prior # << >>
      BY <1>3, <2>4
    <3> QED BY <1>1, <2>2, <2>4, <3>2, <3>3 DEF Moving, Takes, Was, Linking, Following
  <2>5. CASE Len(r.prior) = 1 /\ r.prior[1] = Op(r.dst, Was(r, r.dst)) /\ At(disk, r.src) = Was(r, r.src)
    <3>1. op.path = r.dst /\ op.file = Was(r, r.dst)
      BY <1>3, <2>5 DEF Op
    <3>2. At(disk', r.src) = Was(r, r.src) /\ At(disk', r.dst) = Was(r, r.dst)
      BY SMTT(40), <1>5, <2>3, <2>5, <3>1
    <3> QED BY <1>1, <2>2, <2>5, <3>2 DEF Moving, Was, Linking, Following
  <2> QED BY <2>1, <2>4, <2>5 DEF Takes
<1>7. s.cmd.verb \in {"mark", "link", "unlink"} => (Changing(s)' /\ Len(r.prior) = 1)
  <2> SUFFICES ASSUME r.cmd.verb \in {"mark", "link", "unlink"} PROVE Changing(s)' /\ Len(r.prior) = 1
    BY <1>1
  <2>1. Changing(r) /\ r.prior = <<Op(r.src, Was(r, r.src))>> /\ Was(r, r.src) \in File
    BY <1>2 DEF Sound, Changing, Working
  <2>2. Len(r.prior) = 1 /\ r.prior[1] = Op(r.src, Was(r, r.src))
    BY <2>1
  <2>3. At(disk', r.src) = Was(r, r.src)
    BY <1>3, <1>5, <2>2 DEF Op
  <2>4. Marked(Was(r, r.src), Was(r, r.src))
    BY <2>1, NoFileIsNone DEF Marked, SameDoc
  <2> QED BY <1>1, <2>1, <2>2, <2>3, <2>4 DEF Changing, Was
<1>8. Owned(p)'
  BY <1>1, <1>2, <1>3, StaysOwner, ZenonT(60) DEF Owned
<1>9. Showing(s)'
  <2>1. /\ r.touched \subseteq {r.src, r.dst}
        /\ \A x \in Mine(r) : At(head, x) = WasHead(r, x) \/ (x \in r.touched /\ Root(x.scope) \in Elements(r.done))
    BY <1>2 DEF Showing
  <2> QED BY <1>1, <2>1 DEF Showing, Mine, WasHead, Elements, Root
<1> QED BY <1>1, <1>2, <1>6, <1>7, <1>8, <1>9 DEF Sound

(* A root commits what has come back.                                        *)
LEMMA UndoKeeps ==
  ASSUME Typed, NEW p \in Procs, Sound(p), UNCHANGED <<mode, disk, flock>>, proc[p].pc = "undo",
         proc[p].done # << >>, head' = Committed(Head(proc[p].done), proc[p].touched),
         NEW s, proc'[p] = s, s = [proc[p] EXCEPT !.done = Tail(@)]
  PROVE  Sound(p)'
<1> DEFINE r == proc[p]
<1>1. /\ s.pc = "undo" /\ s.cmd = r.cmd /\ s.src = r.src /\ s.dst = r.dst /\ s.content = r.content /\ s.was = r.was
      /\ s.ops = r.ops /\ s.prior = r.prior /\ s.touched = r.touched
      /\ s.roots = r.roots /\ s.done = Tail(r.done)
  BY DEF Typed, Fields
<1>2. Owned(p) /\ Showing(r) /\ Undoes(r) /\ r.cmd.verb # "create" /\ Mine(s) = Mine(r)
  BY <1>1 DEF Sound, Owned, Working, Mine, Undoes
<1>3. s.done \in Seq(Nat) /\ Elements(r.done) = {Head(r.done)} \cup Elements(s.done)
  BY <1>1, <1>2, ElementsOfTail DEF Owned
<1>4. \A x : At(head', x) =
               IF x \in r.touched /\ Root(x.scope) = Head(r.done) THEN At(disk, x) ELSE At(head, x)
  BY CommittedAt DEF Typed
<1>5. s.cmd.verb = "rehome" => (Moving(s)' /\ Linking(s)' /\ Following(s)')
  <2> SUFFICES ASSUME r.cmd.verb = "rehome" PROVE Moving(s)' /\ Linking(s)' /\ Following(s)'
    BY <1>1
  <2>1. Moving(r) /\ Planned(r)
    BY DEF Sound, Moving, Working
  <2>2. Planned(s)'
    BY <1>1, <2>1, PlanKept
  <2> QED BY <1>1, <2>1, <2>2 DEF Moving, Was, Linking, Following
<1>6. s.cmd.verb \in {"mark", "link", "unlink"} => Changing(s)'
  BY <1>1 DEF Sound, Changing, Was, Working
<1>7. Owned(p)'
  BY <1>1, <1>2, <1>3, StaysOwner DEF Owned
<1>8. Showing(s)'
  <2>1. /\ r.touched \subseteq {r.src, r.dst}
        /\ \A x \in Mine(r) : \/ At(head, x) = WasHead(r, x)
                              \/ x \in r.touched /\ Root(x.scope) \in Elements(r.done)
                              \/ At(head, x) = At(disk, x)
    BY <1>2 DEF Showing
  <2>2. \A x \in Mine(r) : \/ At(head', x) = WasHead(r, x)
                           \/ x \in r.touched /\ Root(x.scope) \in Elements(s.done)
                           \/ At(head', x) = At(disk, x)
    BY <1>3, <1>4, <2>1
  <2> QED BY <1>1, <2>1, <2>2 DEF Showing, Mine, WasHead, Elements, Root
<1> QED BY <1>1, <1>2, <1>5, <1>6, <1>7, <1>8 DEF Sound

-----------------------------------------------------------------------------
(* The invariant holds after every step.                                     *)

(* A step of a process keeps the invariant if it leaves that process sound,   *)
(* writes in the scopes whose flocks it has, and takes no flock from another. *)
LEMMA StepInv ==
  ASSUME IInv, NEW p \in Procs, NEW s, Set(p, s), DOMAIN s = Fields,
         s.pc \in Working \cup Ended, s.pc \in Working => Sound(p)', mode' = mode,
         \/ flock' = flock \/ Unlocks(p)
         \/ \E S \in SUBSET Scopes : Free(S) /\ Locks(p, S),
         disk' = disk \/ (proc[p].pc \in Working /\ Wrote(p)),
         \/ head' = head
         \/ proc[p].pc \in Working /\ Tree(head') /\ \A x : x \notin Mine(proc[p]) => At(head', x) = At(head, x)
  PROVE  IInv'
<1>1. Typed /\ BrokenStays /\ \A q \in Procs : proc[q].pc \in Working \cup Ended \cup {"new"} /\ Sound(q)
  BY DEF IInv
<1>2. DOMAIN proc' = Procs /\ proc'[p] = s /\ \A q \in Procs \ {p} : proc'[q] = proc[q]
  BY <1>1 DEF Typed, Set
<1>3. flock' \in [Scopes -> Procs \cup {NoProc}] /\ \A q \in Procs \ {p}, n \in Scopes : flock[n] = q => flock'[n] = q
  <2>1. flock \in [Scopes -> Procs \cup {NoProc}] /\ NoProc \notin Procs
    BY <1>1, NoneIsNone DEF Typed
  <2>2. CASE flock' = flock
    BY <2>1, <2>2
  <2>3. CASE Unlocks(p)
    BY <2>1, <2>3 DEF Unlocks
  <2>4. ASSUME NEW S \in SUBSET Scopes, Free(S), Locks(p, S)
        PROVE  /\ flock' \in [Scopes -> Procs \cup {NoProc}]
               /\ \A q \in Procs \ {p}, n \in Scopes : flock[n] = q => flock'[n] = q
    BY <2>1, <2>4 DEF Locks, Free
  <2> QED BY <2>2, <2>3, <2>4
<1>4. Tree(disk') /\ mode.broken \subseteq DOMAIN disk'
  BY <1>1, FilesWritten DEF Typed, BrokenStays
<1>5. Tree(head')
  BY <1>1 DEF Typed
<1>6. Typed'
  <2>1. \A q \in Procs : DOMAIN proc'[q] = Fields
    BY <1>1, <1>2 DEF Typed
  <2>2. mode \in Modes
    BY <1>1 DEF Typed
  <2> QED BY <1>2, <1>3, <1>4, <1>5, <2>1, <2>2 DEF Typed, Tree
<1>7. BrokenStays'
  BY <1>4 DEF BrokenStays
<1>8. Sound(p)'
  BY <1>2 DEF Sound
<1>9. ASSUME NEW q \in Procs \ {p} PROVE Sound(q)'
  <2>1. proc'[q] = proc[q] /\ Sound(p) /\ Sound(q) /\ \A n \in Scopes : flock[n] = q => flock'[n] = q
    BY <1>1, <1>2, <1>3
  <2> QED BY <1>1, <2>1, OthersStay
<1>10. \A q \in Procs : proc'[q].pc \in Working \cup Ended \cup {"new"}
  BY <1>1, <1>2
<1> QED BY <1>6, <1>7, <1>8, <1>9, <1>10 DEF IInv

(* A process that ends.                                                      *)
LEMMA EndInv ==
  ASSUME IInv, NEW p \in Procs, NEW pc \in Ended, End(p, pc), UNCHANGED <<mode, disk, head>>
  PROVE  IInv'
<1> DEFINE s == [proc[p] EXCEPT !.pc = pc]
<1>1. Set(p, s) /\ Unlocks(p)
  BY DEF End
<1>2. DOMAIN s = Fields /\ s.pc = pc
  BY DEF IInv, Typed, Fields
<1>3. s.pc \in Working \cup Ended /\ s.pc \notin Working
  BY <1>2 DEF Working, Ended
<1> HIDE DEF s
<1> QED BY <1>1, <1>2, <1>3, StepInv

(* A command is refused, or it has its flocks and a sound plan.               *)
Started(p) ==
  \E s :
    /\ Set(p, s) /\ DOMAIN s = Fields
    /\ \/ s.pc = "failed" /\ UNCHANGED flock
       \/ s.pc = "apply" /\ Sound(p)' /\ \E S \in SUBSET Scopes : Free(S) /\ Locks(p, S)
LEMMA Starts ==
  ASSUME IInv, NEW p \in Procs, Rehome(p) \/ Change(p) \/ CreateDesign(p)
  PROVE  Started(p)
<1>1. Typed /\ BrokenStays /\ DOMAIN Fresh = Fields /\ UNCHANGED <<mode, disk, head>>
  BY DEF IInv, Fresh, Fields, Rehome, Change, CreateDesign
<1>2. ASSUME NEW c \in mode.commands, Set(p, [Fresh EXCEPT !.cmd = c, !.pc = "failed"]), UNCHANGED flock
      PROVE  Started(p)
  <2> DEFINE s == [Fresh EXCEPT !.cmd = c, !.pc = "failed"]
  <2>1. DOMAIN s = Fields /\ s.pc = "failed"
    BY DEF Fresh, Fields
  <2>2. Set(p, s)
    BY <1>2
  <2> HIDE DEF s
  <2> QED BY <1>2, <2>1, <2>2 DEF Started
<1>3. ASSUME NEW s, Set(p, s), DOMAIN s = Fields, s.pc = "apply", Sound(p)',
             NEW S \in SUBSET Scopes, Free(S), Locks(p, S)
      PROVE  Started(p)
  BY <1>3 DEF Started
<1>4. \A s : Set(p, s) => proc'[p] = s
  BY <1>1 DEF Typed, Set
<1>5. \A S \in SUBSET Scopes : Locks(p, S) => \A n \in S : flock'[n] = p
  BY DEF Locks
<1>6. CASE Rehome(p)
  <2>1. PICK c \in mode.commands :
          /\ c.verb = "rehome" /\ Free({c.scope, c.to})
          /\ IF RefusedRehome(c)
             THEN Set(p, [Fresh EXCEPT !.cmd = c, !.pc = "failed"]) /\ UNCHANGED flock
             ELSE \E y \in Paths :
                    /\ Dest(c, y) /\ Locks(p, {c.scope, c.to})
                    /\ Set(p, [Fresh EXCEPT !.cmd = c, !.pc = "apply", !.src = Source(c), !.dst = y,
                                 !.content = Reconstruct(c, y), !.ops = RehomeOps(c, y), !.prior = Prior(<<Source(c), y>>),
                                 !.was = Files, !.roots = RootsOfBoth(c.scope, c.to)])
    BY <1>6 DEF Rehome
  <2>2. {c.scope, c.to} \in SUBSET Scopes
    BY <1>1, <2>1, ModeIsSane DEF WellFormed
  <2>3. CASE ~RefusedRehome(c)
    <3>1. PICK y \in Paths :
            /\ Dest(c, y) /\ Locks(p, {c.scope, c.to})
            /\ Set(p, [Fresh EXCEPT !.cmd = c, !.pc = "apply", !.src = Source(c), !.dst = y,
                         !.content = Reconstruct(c, y), !.ops = RehomeOps(c, y), !.prior = Prior(<<Source(c), y>>),
                         !.was = Files, !.roots = RootsOfBoth(c.scope, c.to)])
      BY <2>1, <2>3
    <3> DEFINE s == [Fresh EXCEPT !.cmd = c, !.pc = "apply", !.src = Source(c), !.dst = y,
                       !.content = Reconstruct(c, y), !.ops = RehomeOps(c, y), !.prior = Prior(<<Source(c), y>>),
                       !.was = Files, !.roots = RootsOfBoth(c.scope, c.to)]
    <3>2. DOMAIN s = Fields /\ s.pc = "apply"
      BY DEF Fresh, Fields
    <3>3. Set(p, s) /\ proc'[p] = s /\ \A n \in {c.scope, c.to} : flock'[n] = p
      BY <1>4, <1>5, <2>2, <3>1
    <3>4. Sound(p)'
      BY <1>1, <2>1, <2>3, <3>1, <3>3, RehomeStarts
    <3> HIDE DEF s
    <3> QED BY <1>3, <2>1, <2>2, <3>1, <3>2, <3>3, <3>4
  <2> QED BY <1>2, <2>1, <2>3
<1>7. CASE Change(p)
  <2>1. PICK c \in mode.commands :
          /\ c.verb \in {"mark", "link", "unlink"} /\ Free({c.scope})
          /\ IF RefusedChange(c)
             THEN Set(p, [Fresh EXCEPT !.cmd = c, !.pc = "failed"]) /\ UNCHANGED flock
             ELSE /\ Locks(p, {c.scope})
                  /\ Set(p, [Fresh EXCEPT !.cmd = c, !.pc = "apply", !.src = Source(c), !.dst = Source(c),
                               !.ops = <<Op(Source(c), Changed(c, disk[Source(c)]))>>,
                               !.prior = Prior(<<Source(c)>>), !.was = Files, !.roots = RootsOf(c.scope)])
    BY <1>7 DEF Change
  <2>2. {c.scope} \in SUBSET Scopes
    BY <1>1, <2>1, ModeIsSane DEF WellFormed
  <2>3. CASE ~RefusedChange(c)
    <3> DEFINE s == [Fresh EXCEPT !.cmd = c, !.pc = "apply", !.src = Source(c), !.dst = Source(c),
                       !.ops = <<Op(Source(c), Changed(c, disk[Source(c)]))>>,
                       !.prior = Prior(<<Source(c)>>), !.was = Files, !.roots = RootsOf(c.scope)]
    <3>1. Locks(p, {c.scope}) /\ Set(p, s)
      BY <2>1, <2>3
    <3>2. DOMAIN s = Fields /\ s.pc = "apply"
      BY DEF Fresh, Fields
    <3>3. proc'[p] = s /\ flock'[c.scope] = p
      BY <1>4, <1>5, <2>2, <3>1
    <3>4. Sound(p)'
      BY <1>1, <2>1, <2>3, <3>3, ChangeStarts
    <3> HIDE DEF s
    <3> QED BY <1>3, <2>1, <2>2, <3>1, <3>2, <3>4
  <2> QED BY <1>2, <2>1, <2>3, ZenonT(60)
<1>8. CASE CreateDesign(p)
  <2>1. PICK c \in mode.commands, short \in Shorts :
          LET x == [scope |-> c.scope, kind |-> "design", short |-> short] IN
          /\ c.verb = "create" /\ Free({c.scope})
          /\ short \notin OccupiedShortIDs(c.scope) /\ \A y \in DOMAIN disk : disk[y].doc # c.doc
          /\ Locks(p, {c.scope})
          /\ Set(p, [Fresh EXCEPT !.cmd = c, !.pc = "apply", !.src = x, !.dst = x,
                                  !.ops = <<Op(x, [doc |-> c.doc, ver |-> 1, links |-> {}])>>])
    BY <1>8 DEF CreateDesign
  <2> DEFINE x == [scope |-> c.scope, kind |-> "design", short |-> short]
             s == [Fresh EXCEPT !.cmd = c, !.pc = "apply", !.src = x, !.dst = x,
                                !.ops = <<Op(x, [doc |-> c.doc, ver |-> 1, links |-> {}])>>]
  <2>2. {c.scope} \in SUBSET Scopes /\ x \in Paths
    BY <1>1, ModeIsSane DEF WellFormed, Paths, Kinds
  <2>3. DOMAIN s = Fields /\ s.pc = "apply"
    BY DEF Fresh, Fields
  <2>4. Set(p, s) /\ proc'[p] = s /\ flock'[c.scope] = p
    BY <1>4, <1>5, <2>1, <2>2
  <2>5. x.scope = c.scope /\ x.short \notin OccupiedShortIDs(c.scope)
    BY <2>1
  <2> HIDE DEF x
  <2>6. Sound(p)'
    BY <1>1, <2>1, <2>2, <2>4, <2>5, CreateStarts
  <2> HIDE DEF s
  <2> QED BY <1>3, <2>1, <2>2, <2>3, <2>4, <2>6
<1> QED BY <1>6, <1>7, <1>8, ZenonT(60)

LEMMA StartInv ==
  ASSUME IInv, NEW p \in Procs, Rehome(p) \/ Change(p) \/ CreateDesign(p)
  PROVE  IInv'
<1>1. UNCHANGED <<mode, disk, head>>
  BY DEF Rehome, Change, CreateDesign
<1>2. PICK s : /\ Set(p, s) /\ DOMAIN s = Fields
               /\ \/ s.pc = "failed" /\ UNCHANGED flock
                  \/ s.pc = "apply" /\ Sound(p)' /\ \E S \in SUBSET Scopes : Free(S) /\ Locks(p, S)
  BY Starts DEF Started
<1>3. s.pc \in Working \cup Ended /\ ("failed" \notin Working)
  BY <1>2 DEF Working, Ended
<1> QED BY <1>1, <1>2, <1>3, StepInv, ZenonT(60)

(* A process at work that goes on.                                           *)
LEMMA WorkInv ==
  ASSUME IInv, NEW p \in Procs, proc[p].pc \in Working, NEW s, Set(p, s), DOMAIN s = Fields, s.pc \in Working,
         Sound(p)', UNCHANGED <<mode, flock>>, disk' = disk \/ Wrote(p),
         \/ head' = head
         \/ \E root : head' = Committed(root, proc[p].touched)
  PROVE  IInv'
<1>1. Typed /\ Sound(p)
  BY DEF IInv
<1>2. ASSUME NEW root, head' = Committed(root, proc[p].touched)
      PROVE  Tree(head') /\ \A x : x \notin Mine(proc[p]) => At(head', x) = At(head, x)
  <2>1. proc[p].touched \subseteq Mine(proc[p])
    BY <1>1 DEF Sound, Owned
  <2> QED BY <1>1, <1>2, <2>1, CommittedAt DEF Typed
<1>3. s.pc \in Working \cup Ended
  OBVIOUS
<1> QED BY <1>2, <1>3, StepInv

LEMMA ApplyInv == ASSUME IInv, NEW p \in Procs, Apply(p) PROVE IInv'
<1>1. Typed /\ Sound(p) /\ proc[p].pc = "apply" /\ proc[p].pc \in Working /\ UNCHANGED <<mode, head>>
  BY DEF IInv, Apply, Working
<1> DEFINE op == Head(proc[p].ops)
           s == [proc[p] EXCEPT !.ops = Tail(@), !.touched = @ \cup {op.path},
                                !.pc = IF Len(proc[p].ops) = 1 THEN "index" ELSE @]
<1>2. CASE End(p, "failed") /\ UNCHANGED disk
  BY <1>1, <1>2, EndInv DEF Ended
<1>3. CASE FreeDestination(proc[p]) /\ disk' = Put(disk, op.path, op.file) /\ Set(p, s) /\ UNCHANGED flock
  <2>1. DOMAIN s = Fields /\ s.pc \in Working /\ proc'[p] = s
    BY <1>1, <1>3, SMTT(40) DEF Typed, Fields, Working, Set
  <2>2. Sound(p)'
    BY <1>1, <1>3, <2>1, ApplyKeeps
  <2>3. disk' = disk \/ Wrote(p)
    BY <1>1, Writing
  <2> HIDE DEF s
  <2> QED BY <1>1, <1>3, <2>1, <2>2, <2>3, WorkInv
<1> QED BY <1>2, <1>3 DEF Apply

(* What failed is taken back, or the process ends.                            *)
LEMMA FailsInv ==
  ASSUME IInv, NEW p \in Procs, Fails(p), proc[p].pc \in {"index", "commit"}, UNCHANGED <<mode, disk, head>>
  PROVE  IInv'
<1>1. Typed /\ Sound(p) /\ proc[p].pc \in Working
  BY DEF IInv, Working
<1> DEFINE s == [proc[p] EXCEPT !.pc = "restore"]
<1>2. CASE Undoes(proc[p]) /\ Set(p, s) /\ UNCHANGED flock
  <2>1. DOMAIN s = Fields /\ s.pc \in Working /\ proc'[p] = s
    BY <1>1, <1>2 DEF Typed, Fields, Working, Set
  <2>2. Sound(p)'
    BY <1>1, <1>2, <2>1, ProceedsKeeps
  <2> HIDE DEF s
  <2> QED BY <1>1, <1>2, <2>1, <2>2, WorkInv
<1>3. CASE End(p, "failed")
  BY <1>3, EndInv DEF Ended
<1> QED BY <1>2, <1>3 DEF Fails

LEMMA SyncPathsInv == ASSUME IInv, NEW p \in Procs, SyncPaths(p) PROVE IInv'
<1>1. Typed /\ Sound(p) /\ proc[p].pc = "index" /\ proc[p].pc \in Working /\ UNCHANGED <<mode, disk, head>>
  BY DEF IInv, SyncPaths, Working
<1> DEFINE s == [proc[p] EXCEPT !.pc = "commit"]
<1>2. CASE Set(p, s) /\ UNCHANGED flock
  <2>1. DOMAIN s = Fields /\ s.pc \in Working /\ proc'[p] = s
    BY <1>1, <1>2 DEF Typed, Fields, Working, Set
  <2>2. Sound(p)'
    BY <1>1, <1>2, <2>1, ProceedsKeeps
  <2> HIDE DEF s
  <2> QED BY <1>1, <1>2, <2>1, <2>2, WorkInv
<1>3. CASE Fails(p)
  BY <1>1, <1>3, FailsInv
<1> QED BY <1>2, <1>3 DEF SyncPaths

LEMMA CommitPathsInv == ASSUME IInv, NEW p \in Procs, CommitPaths(p) PROVE IInv'
<1>1. Typed /\ Sound(p) /\ proc[p].pc = "commit" /\ proc[p].pc \in Working /\ UNCHANGED <<mode, disk>>
  BY DEF IInv, CommitPaths, Working
<1> DEFINE s == [proc[p] EXCEPT !.roots = Tail(@), !.done = Append(@, Head(proc[p].roots))]
<1>2. CASE End(p, "done") /\ UNCHANGED head
  BY <1>1, <1>2, EndInv DEF Ended
<1>3. CASE /\ proc[p].roots # << >> /\ head' = Committed(Head(proc[p].roots), proc[p].touched)
           /\ Set(p, s) /\ UNCHANGED flock
  <2>1. DOMAIN s = Fields /\ s.pc \in Working /\ proc'[p] = s
    BY <1>1, <1>3 DEF Typed, Fields, Set
  <2>2. Sound(p)'
    BY <1>1, <1>3, <2>1, CommitKeeps
  <2> HIDE DEF s
  <2> QED BY SMTT(40), <1>1, <1>3, <2>1, <2>2, WorkInv
<1>4. CASE Fails(p) /\ UNCHANGED head
  BY <1>1, <1>4, FailsInv
<1> QED BY <1>2, <1>3, <1>4 DEF CommitPaths

LEMMA RestoreInv == ASSUME IInv, NEW p \in Procs, Restore(p) PROVE IInv'
<1>1. Typed /\ Sound(p) /\ proc[p].pc = "restore" /\ proc[p].pc \in Working /\ UNCHANGED <<mode, head>>
  BY DEF IInv, Restore, Working
<1> DEFINE op == Head(proc[p].prior)
           s == [proc[p] EXCEPT !.prior = Tail(@), !.pc = IF Len(proc[p].prior) = 1 THEN "undo" ELSE @]
<1>2. CASE End(p, "failed") /\ UNCHANGED disk
  BY <1>1, <1>2, EndInv DEF Ended
<1>3. CASE disk' = Put(disk, op.path, op.file) /\ Set(p, s) /\ UNCHANGED flock
  <2>1. DOMAIN s = Fields /\ s.pc \in Working /\ proc'[p] = s
    BY <1>1, <1>3, SMTT(40) DEF Typed, Fields, Working, Set
  <2>2. Sound(p)'
    BY <1>1, <1>3, <2>1, RestoreKeeps
  <2>3. disk' = disk \/ Wrote(p)
    BY <1>1, Writing
  <2> HIDE DEF s
  <2> QED BY <1>1, <1>3, <2>1, <2>2, <2>3, WorkInv
<1> QED BY <1>2, <1>3 DEF Restore

LEMMA CommitUndoInv == ASSUME IInv, NEW p \in Procs, CommitUndo(p) PROVE IInv'
<1>1. Typed /\ Sound(p) /\ proc[p].pc = "undo" /\ proc[p].pc \in Working /\ UNCHANGED <<mode, disk>>
  BY DEF IInv, CommitUndo, Working
<1> DEFINE s == [proc[p] EXCEPT !.done = Tail(@)]
<1>2. CASE (End(p, "undone") \/ End(p, "failed")) /\ UNCHANGED head
  BY <1>1, <1>2, EndInv DEF Ended
<1>3. CASE /\ proc[p].done # << >> /\ head' = Committed(Head(proc[p].done), proc[p].touched)
           /\ Set(p, s) /\ UNCHANGED flock
  <2>1. DOMAIN s = Fields /\ s.pc \in Working /\ proc'[p] = s
    BY <1>1, <1>3 DEF Typed, Fields, Set
  <2>2. Sound(p)'
    BY <1>1, <1>3, <2>1, UndoKeeps
  <2> HIDE DEF s
  <2> QED BY <1>1, <1>3, <2>1, <2>2, WorkInv
<1> QED BY <1>2, <1>3 DEF CommitUndo, UndoRoots

(* A snapshot takes the flocks of all the scopes of its root, so it commits    *)
(* nothing of a process at work.                                             *)
LEMMA SnapshotInv == ASSUME IInv, Snapshot PROVE IInv'
<1>1. Typed /\ BrokenStays /\ \A p \in Procs : proc[p].pc \in Working \cup Ended \cup {"new"} /\ Sound(p)
  BY DEF IInv
<1>2. PICK root : /\ Free({s \in Scopes : Root(s) = root})
                  /\ head' = Committed(root, DOMAIN disk \cup DOMAIN head)
                  /\ UNCHANGED <<mode, disk, flock, proc, deaths, fails>>
  BY DEF Snapshot
<1>3. Tree(head')
      /\ \A x : Root(x.scope) # root => At(head', x) = At(head, x)
  BY <1>1, <1>2, CommittedAt DEF Typed
<1>4. ASSUME NEW p \in Procs PROVE Sound(p)'
  <2> SUFFICES ASSUME proc[p].pc \in Working PROVE Sound(p)'
    BY <1>2 DEF Sound
  <2>1. \A x \in Mine(proc[p]) : x.scope \in Scopes /\ flock[x.scope] = p
    BY <1>1, MineInScopes
  <2>2. \A x \in Mine(proc[p]) : Root(x.scope) # root
    BY <1>2, <2>1, NoneIsNone DEF Free
  <2>3. \A x \in Mine(proc[p]) : At(head', x) = At(head, x)
    BY <1>3, <2>2
  <2>4. proc[p].cmd.verb = "create" /\ proc[p].pc = "apply" => \A y \in DOMAIN disk : disk[y].doc # proc[p].cmd.doc
    BY <1>1 DEF Sound, Creating
  <2> QED BY <1>1, <1>2, <2>3, <2>4, Undisturbed
<1>5. Typed' /\ BrokenStays'
  BY <1>1, <1>2, <1>3 DEF Typed, BrokenStays, Tree
<1> QED BY <1>1, <1>2, <1>4, <1>5 DEF IInv

LEMMA InvStep == IInv /\ [Next]_vars => IInv'
<1> SUFFICES ASSUME IInv, [Next]_vars PROVE IInv'
  OBVIOUS
<1>1. CASE UNCHANGED vars
  <2>1. UNCHANGED <<mode, disk, head, flock, proc>>
    BY <1>1 DEF vars
  <2>2. ASSUME NEW p \in Procs PROVE Sound(p)'
    BY <2>1, Undisturbed DEF IInv, Sound, Creating
  <2>3. Typed' /\ BrokenStays'
    BY <2>1 DEF IInv, Typed, BrokenStays, Tree
  <2> QED BY <2>1, <2>2, <2>3 DEF IInv
<1>2. ASSUME NEW p \in Procs, Rehome(p) \/ Change(p) \/ CreateDesign(p) PROVE IInv'
  BY <1>2, StartInv
<1>3. ASSUME NEW p \in Procs, Apply(p) PROVE IInv'
  BY <1>3, ApplyInv
<1>4. ASSUME NEW p \in Procs, SyncPaths(p) PROVE IInv'
  BY <1>4, SyncPathsInv
<1>5. ASSUME NEW p \in Procs, CommitPaths(p) PROVE IInv'
  BY <1>5, CommitPathsInv
<1>6. ASSUME NEW p \in Procs, Restore(p) PROVE IInv'
  BY <1>6, RestoreInv
<1>7. ASSUME NEW p \in Procs, CommitUndo(p) PROVE IInv'
  BY <1>7, CommitUndoInv
<1>8. ASSUME NEW p \in Procs, Die(p) PROVE IInv'
  BY <1>8, EndInv DEF Die, Ended
<1>9. CASE Snapshot
  BY <1>9, SnapshotInv
<1> QED BY <1>1, <1>2, <1>3, <1>4, <1>5, <1>6, <1>7, <1>8, <1>9 DEF Next

(* The strengthened invariant: a process at work holds the flocks of its       *)
(* scopes and writes in them alone, and what it has planned, what is on disk   *)
(* and what the HEADs show fit each other at every step of applyRehome, of the *)
(* commits and of the way back.                                              *)
THEOREM Invariance == Spec => []IInv
BY InitInv, InvStep, PTL DEF Spec

-----------------------------------------------------------------------------
(* The files implement Custody.                                              *)

Copy(x, f) == [at |-> x, ver |-> f.ver]

(* A file that is written is a copy of its document.                         *)
LEMMA HoldsWritten ==
  ASSUME Typed, NEW x \in Paths, NEW f \in File, disk' = Put(disk, x, f), x \notin DOMAIN disk \/ disk[x].doc = f.doc
  PROVE  \A d \in Docs : Holds(d)' = IF d = f.doc THEN {k \in Holds(d) : k.at # x} \cup {Copy(x, f)} ELSE Holds(d)
<1>1. DOMAIN disk' = DOMAIN disk \cup {x} /\ \A y \in DOMAIN disk' : disk'[y] = IF y = x THEN f ELSE disk[y]
  BY NoFileIsNone DEF Put
<1> TAKE d \in Docs
<1>2. CASE d = f.doc
  <2>1. \A y : y \in DOMAIN disk' /\ disk'[y].doc = d <=> y = x \/ (y # x /\ y \in DOMAIN disk /\ disk[y].doc = d)
    BY <1>1, <1>2
  <2> QED BY <1>1, <1>2, <2>1 DEF Holds, Copy
<1>3. CASE d # f.doc
  <2>1. \A y : y \in DOMAIN disk' /\ disk'[y].doc = d <=> y \in DOMAIN disk /\ disk[y].doc = d
    BY <1>1, <1>3
  <2>2. \A y \in DOMAIN disk : disk[y].doc = d => disk'[y] = disk[y]
    BY <1>1, <1>3
  <2> QED BY <1>3, <2>1, <2>2 DEF Holds
<1> QED BY <1>2, <1>3

(* A file that is removed is a copy less.                                    *)
LEMMA HoldsRemoved ==
  ASSUME Typed, NEW x \in DOMAIN disk, disk' = Put(disk, x, NoFile)
  PROVE  \A d \in Docs : Holds(d)' = IF d = disk[x].doc THEN Holds(d) \ {Copy(x, disk[x])} ELSE Holds(d)
<1>1. DOMAIN disk' = DOMAIN disk \ {x} /\ \A y \in DOMAIN disk' : disk'[y] = disk[y]
  BY DEF Put
<1> TAKE d \in Docs
<1>2. \A y : y \in DOMAIN disk' /\ disk'[y].doc = d <=> y # x /\ y \in DOMAIN disk /\ disk[y].doc = d
  BY <1>1
<1>3. CASE d = disk[x].doc
  BY <1>1, <1>2, <1>3 DEF Holds, Copy
<1>4. CASE d # disk[x].doc
  BY <1>1, <1>2, <1>4 DEF Holds
<1> QED BY <1>3, <1>4

LEMMA CopiesTyped ==
  ASSUME Typed
  PROVE  /\ \A d \in Docs : Holds(d) \subseteq Kept!Copies
         /\ \A x \in Paths, f \in File : Copy(x, f) \in Kept!Copies /\ Copy(x, f).at = x /\ Copy(x, f).ver = f.ver
         /\ \A y \in DOMAIN disk : disk[y].doc \in Docs /\ Copy(y, disk[y]) \in Holds(disk[y].doc)
<1>1. \A x \in Paths, f \in File : Copy(x, f) \in Kept!Copies /\ Copy(x, f).at = x /\ Copy(x, f).ver = f.ver
  BY DEF Copy, Kept!Copies, File
<1>2. \A y \in DOMAIN disk : y \in Paths /\ disk[y] \in File
  BY DEF Typed, Tree
<1>3. \A d \in Docs : \A k \in Holds(d) : \E y \in DOMAIN disk : k = Copy(y, disk[y])
  BY DEF Holds, Copy
<1>4. \A y \in DOMAIN disk : disk[y].doc \in Docs /\ Copy(y, disk[y]) \in Holds(disk[y].doc)
  BY <1>2 DEF Holds, Copy, File
<1> QED BY <1>1, <1>2, <1>3, <1>4

(* A write is a step of Custody.                                             *)
LEMMA WroteKeeps ==
  ASSUME Typed, NEW p \in Procs, Wrote(p)
  PROVE  Kept!Next
<1>1. PICK x \in Mine(proc[p]), f \in File \cup {NoFile} :
        /\ disk' = Put(disk, x, f)
        /\ Edits(x, f) \/ Copies(x, f) \/ Returns(x, f) \/ Drops(x, f) \/ Begins(p, x, f)
  BY DEF Wrote
<1>2. x \in Paths
  BY DEF Mine
<1>3. ASSUME NEW d \in Docs, NEW S, \A e \in Docs : Holds(e)' = IF e = d THEN S ELSE Holds(e)
      PROVE  [e \in Docs |-> Holds(e)]' = [[e \in Docs |-> Holds(e)] EXCEPT ![d] = S]
  <2>1. \A e \in Docs : Holds(e)' = [[g \in Docs |-> Holds(g)] EXCEPT ![d] = S][e]
    BY <1>3
  <2> QED BY <2>1
<1>4. ASSUME f \in File, x \notin DOMAIN disk \/ disk[x].doc = f.doc
      PROVE  /\ f.doc \in Docs /\ Copy(x, f) \in Kept!Copies
             /\ [e \in Docs |-> Holds(e)]' =
                  [[e \in Docs |-> Holds(e)] EXCEPT ![f.doc] = {k \in Holds(f.doc) : k.at # x} \cup {Copy(x, f)}]
  <2>1. f.doc \in Docs
    BY <1>4, NoFileIsNone
  <2>2. \A d \in Docs : Holds(d)' = IF d = f.doc THEN {k \in Holds(f.doc) : k.at # x} \cup {Copy(x, f)} ELSE Holds(d)
    BY <1>1, <1>2, <1>4, HoldsWritten
  <2> QED BY <1>2, <1>3, <1>4, <2>1, <2>2, CopiesTyped
<1> DEFINE d == f.doc
           c == Copy(x, f)
<1>5. ASSUME f \in File
      PROVE  /\ Kept!Beside(Holds(d), c) = {k \in Holds(d) : k.at # x}
             /\ [e \in Docs |-> Holds(e)][d] = Holds(d)
             /\ c.at = x /\ c.ver = f.ver
  BY <1>2, <1>5, CopiesTyped, NoFileIsNone DEF Kept!Beside
<1>6. CASE Edits(x, f)
  <2>1. f \in File /\ x \in DOMAIN disk /\ disk[x].doc = f.doc
    BY <1>6 DEF Edits
  <2>2. Copy(x, disk[x]) \in Holds(d) /\ Copy(x, disk[x]).at = x /\ Copy(x, disk[x]).ver = disk[x].ver
    BY <2>1, CopiesTyped DEF Copy
  <2>3. \E k \in Holds(d) : k.at = c.at /\ c.ver \in {k.ver - 1, k.ver, k.ver + 1}
    BY <1>5, <1>6, <2>1, <2>2 DEF Edits
  <2>4. Kept!Edit(d, c)
    BY <1>4, <1>5, <2>1, <2>3 DEF Kept!Edit, Kept!Put
  <2> QED BY <1>4, <2>1, <2>4 DEF Kept!Next
<1>7. CASE Copies(x, f)
  <2>1. PICK y \in DOMAIN disk : /\ disk[y].doc = f.doc /\ disk[y].ver = f.ver /\ f \in File
                                 /\ x \notin DOMAIN disk \/ disk[x].doc = f.doc
    BY <1>7 DEF Copies
  <2>2. Copy(y, disk[y]) \in Holds(d) /\ Copy(y, disk[y]).ver = f.ver
    BY <2>1, CopiesTyped DEF Copy
  <2>3. c.ver \in {k.ver : k \in Holds(d)}
    BY <1>5, <2>1, <2>2
  <2>4. Kept!Copy(d, c)
    BY <1>4, <1>5, <2>1, <2>3 DEF Kept!Copy, Kept!Put
  <2> QED BY <1>4, <2>1, <2>4 DEF Kept!Next
<1>8. CASE Returns(x, f)
  <2>1. PICK y \in DOMAIN disk \ {x} : /\ disk[y].doc = disk[x].doc /\ disk[y].ver = disk[x].ver
                                       /\ f \in File /\ x \in DOMAIN disk /\ disk[x].doc = f.doc
    BY <1>8 DEF Returns
  <2>2. /\ Copy(x, disk[x]) \in Holds(d) /\ Copy(x, disk[x]).at = x
        /\ Copy(y, disk[y]) \in Holds(d) /\ Copy(y, disk[y]).at # x
        /\ Copy(y, disk[y]).ver = Copy(x, disk[x]).ver /\ Copy(x, disk[x]).ver \in Int
    BY <2>1, CopiesTyped DEF Copy, Typed, Tree, File
  <2>3. \E k \in Holds(d) : k.at = c.at /\ \E b \in Kept!Beside(Holds(d), c) : b.ver >= k.ver
    <3>1. Copy(y, disk[y]) \in Kept!Beside(Holds(d), c) /\ Copy(y, disk[y]).ver >= Copy(x, disk[x]).ver
      BY <1>5, <2>1, <2>2
    <3> QED BY <1>5, <2>1, <2>2, <3>1
  <2>4. Kept!Return(d, c)
    BY <1>4, <1>5, <2>1, <2>3 DEF Kept!Return, Kept!Put
  <2> QED BY <1>4, <2>1, <2>4 DEF Kept!Next
<1>9. CASE Begins(p, x, f)
  <2>1. f \in File /\ x \notin DOMAIN disk /\ \A y \in DOMAIN disk : disk[y].doc # f.doc
    BY <1>9 DEF Begins
  <2>2. Holds(d) = {}
    BY <2>1 DEF Holds
  <2>3. Kept!Begin(d, c)
    BY <1>4, <2>1, <2>2 DEF Kept!Begin
  <2> QED BY <1>4, <2>1, <2>3 DEF Kept!Next
<1>10. CASE Drops(x, f)
  <2>1. PICK y \in DOMAIN disk \ {x} : disk[y].doc = disk[x].doc /\ disk[y].ver = disk[x].ver
                                        /\ f = NoFile /\ x \in DOMAIN disk
    BY <1>10 DEF Drops
  <2>2. disk[x].doc \in Docs /\ Copy(x, disk[x]) \in Holds(disk[x].doc) /\ Copy(y, disk[y]) \in Holds(disk[x].doc)
    BY <2>1, CopiesTyped
  <2>3. Copy(x, disk[x]) \in Kept!Copies /\ disk[x].ver \in 1..MaxVersion
    BY <2>1, CopiesTyped DEF Typed, Tree, File
  <2>4. Copy(y, disk[y]).at # Copy(x, disk[x]).at /\ Copy(y, disk[y]).ver >= Copy(x, disk[x]).ver
    BY <2>1, <2>3 DEF Copy
  <2>5. [e \in Docs |-> Holds(e)]' =
          [[e \in Docs |-> Holds(e)] EXCEPT ![disk[x].doc] = Holds(disk[x].doc) \ {Copy(x, disk[x])}]
    <3>1. \A e \in Docs : Holds(e)' = IF e = disk[x].doc THEN Holds(disk[x].doc) \ {Copy(x, disk[x])} ELSE Holds(e)
      BY <1>1, <2>1, HoldsRemoved
    <3> QED BY <1>3, <2>2, <3>1
  <2>6. Kept!Drop(disk[x].doc, Copy(x, disk[x]))
    BY <2>2, <2>4, <2>5 DEF Kept!Drop, Kept!Beside
  <2> QED BY <2>2, <2>3, <2>6 DEF Kept!Next
<1> QED BY <1>1, <1>6, <1>7, <1>8, <1>9, <1>10

(* Whatever a step does, the files are as they were or were written.         *)
LEMMA DiskSteps == ASSUME IInv, [Next]_vars PROVE disk' = disk \/ \E p \in Procs : Wrote(p)
<1>1. Typed /\ \A p \in Procs : Sound(p)
  BY DEF IInv
<1>2. ASSUME NEW p \in Procs, Apply(p) \/ Restore(p) PROVE disk' = disk \/ Wrote(p)
  BY <1>1, <1>2, Writing
<1> QED BY <1>2, ZenonT(60) DEF Next, vars, Rehome, Change, CreateDesign, SyncPaths, CommitPaths, CommitUndo, Die, Snapshot

(* Moves and changes of documents implement Custody: whatever fails, dies, is  *)
(* taken back by a design command or run again, applyRehome removes a source   *)
(* only beside a copy with its version, no write puts a document where another *)
(* is, what comes back loses one change or is with another copy, and a design  *)
(* that was created is begun once.                                           *)
THEOREM ImplementsCustody == Spec => CopiesKept
<1>1. Init => Kept!Init
  <2> SUFFICES ASSUME Init PROVE Kept!Init
    OBVIOUS
  <2>1. Typed
    BY InitInv DEF IInv
  <2> QED BY <2>1, CopiesTyped DEF Kept!Init
<1>2. IInv /\ [Next]_vars => [Kept!Next]_([d \in Docs |-> Holds(d)])
  <2> SUFFICES ASSUME IInv, [Next]_vars, [d \in Docs |-> Holds(d)]' # [d \in Docs |-> Holds(d)] PROVE Kept!Next
    OBVIOUS
  <2>1. disk' # disk
    BY DEF Holds
  <2> QED BY <2>1, DiskSteps, WroteKeeps DEF IInv
<1> QED BY <1>1, <1>2, Invariance, PTL DEF Spec, CopiesKept, Kept!Spec

-----------------------------------------------------------------------------
(* How commands end.                                                         *)

(* A command is done when its last root has been committed, and undone when    *)
(* the last one has committed the way back.                                  *)
LEMMA Endings ==
  ASSUME IInv, [Next]_vars, NEW p \in Procs, NEW pc \in {"done", "undone"}, proc[p].pc # pc, proc'[p].pc = pc
  PROVE  /\ UNCHANGED <<mode, disk, head>>
         /\ pc = "done" => proc[p].pc = "commit" /\ proc[p].roots = << >>
         /\ pc = "undone" => proc[p].pc = "undo" /\ proc[p].done = << >>
<1>1. DOMAIN proc = Procs /\ \A q \in Procs : DOMAIN proc[q] = Fields
  BY DEF IInv, Typed
<1>2. \A q \in Procs : \A s : Set(q, s) => proc'[q] = s /\ (q # p => proc'[p] = proc[p])
  BY <1>1 DEF Set
<1>3. \A q \in Procs : \A e : End(q, e) => (q # p => proc'[p] = proc[p]) /\ (q = p => proc'[p].pc = e)
  <2> TAKE q \in Procs
  <2> TAKE e
  <2>1. [proc[q] EXCEPT !.pc = e].pc = e
    BY <1>1 DEF Fields
  <2> QED BY <1>2, <2>1 DEF End
<1>4. ASSUME NEW q \in Procs, Rehome(q) \/ Change(q) \/ CreateDesign(q) PROVE FALSE
  <2>1. PICK s : Set(q, s) /\ s.pc \in {"failed", "apply"}
    BY <1>4, Starts DEF Started
  <2> QED BY <1>2, <2>1
<1>5. ASSUME NEW q \in Procs, Apply(q) PROVE FALSE
  <2>1. CASE End(q, "failed")
    BY <1>3, <2>1
  <2> DEFINE op == Head(proc[q].ops)
             s == [proc[q] EXCEPT !.ops = Tail(@), !.touched = @ \cup {op.path},
                                  !.pc = IF Len(proc[q].ops) = 1 THEN "index" ELSE @]
  <2>2. CASE Set(q, s) /\ proc[q].pc = "apply"
    <3>1. s.pc \in {"index", "apply"}
      BY <1>1, <2>2 DEF Fields
    <3> HIDE DEF s
    <3> QED BY <1>2, <2>2, <3>1
  <2> QED BY <1>5, <2>1, <2>2 DEF Apply
<1>6. ASSUME NEW q \in Procs, Fails(q) PROVE FALSE
  <2> DEFINE s == [proc[q] EXCEPT !.pc = "restore"]
  <2>1. s.pc = "restore"
    BY <1>1 DEF Fields
  <2>2. Set(q, s) \/ End(q, "failed")
    BY <1>6 DEF Fails
  <2> HIDE DEF s
  <2>3. CASE Set(q, s)
    BY <1>2, <2>1, <2>3
  <2>4. CASE End(q, "failed")
    BY <1>3, <2>4
  <2> QED BY <2>2, <2>3, <2>4
<1>7. ASSUME NEW q \in Procs, SyncPaths(q) PROVE FALSE
  <2>1. [proc[q] EXCEPT !.pc = "commit"].pc = "commit"
    BY <1>1 DEF Fields
  <2> QED BY <1>2, <1>6, <1>7, <2>1 DEF SyncPaths
<1>8. ASSUME NEW q \in Procs, Restore(q) PROVE FALSE
  <2>1. CASE End(q, "failed")
    BY <1>3, <2>1
  <2> DEFINE s == [proc[q] EXCEPT !.prior = Tail(@), !.pc = IF Len(proc[q].prior) = 1 THEN "undo" ELSE @]
  <2>2. CASE Set(q, s) /\ proc[q].pc = "restore"
    <3>1. s.pc \in {"undo", "restore"}
      BY <1>1, <2>2 DEF Fields
    <3> HIDE DEF s
    <3> QED BY <1>2, <2>2, <3>1
  <2> QED BY <1>8, <2>1, <2>2 DEF Restore
<1>9. ASSUME NEW q \in Procs, CommitPaths(q)
      PROVE  q = p /\ pc = "done" /\ proc[q].pc = "commit" /\ proc[q].roots = << >> /\ UNCHANGED <<mode, disk, head>>
  <2>1. CASE proc[q].roots = << >> /\ End(q, "done") /\ UNCHANGED <<head, fails>>
    BY <1>3, <1>9, <2>1 DEF CommitPaths
  <2>2. CASE Set(q, [proc[q] EXCEPT !.roots = Tail(@), !.done = Append(@, Head(proc[q].roots))])
    <3>1. [proc[q] EXCEPT !.roots = Tail(@), !.done = Append(@, Head(proc[q].roots))].pc = proc[q].pc
      BY <1>1 DEF Fields
    <3>2. proc[q].pc = "commit"
      BY <1>9 DEF CommitPaths
    <3> QED BY <1>2, <2>2, <3>1, <3>2
  <2> QED BY <1>6, <1>9, <2>1, <2>2 DEF CommitPaths
<1>10. ASSUME NEW q \in Procs, CommitUndo(q)
       PROVE  q = p /\ pc = "undone" /\ proc[q].pc = "undo" /\ proc[q].done = << >> /\ UNCHANGED <<mode, disk, head>>
  <2>1. CASE proc[q].done = << >> /\ End(q, "undone") /\ UNCHANGED <<head, fails>>
    BY <1>3, <1>10, <2>1 DEF CommitUndo
  <2>2. CASE Set(q, [proc[q] EXCEPT !.done = Tail(@)])
    <3>1. [proc[q] EXCEPT !.done = Tail(@)].pc = proc[q].pc
      BY <1>1 DEF Fields
    <3>2. proc[q].pc = "undo"
      BY <1>10 DEF CommitUndo
    <3> QED BY <1>2, <2>2, <3>1, <3>2
  <2>3. CASE End(q, "failed")
    BY <1>3, <2>3
  <2> QED BY <1>10, <2>1, <2>2, <2>3 DEF CommitUndo, UndoRoots
<1>11. ASSUME NEW q \in Procs, Die(q) PROVE FALSE
  BY <1>3, <1>11 DEF Die
<1>12. proc' # proc
  OBVIOUS
<1> QED BY <1>4, <1>5, <1>7, <1>8, <1>9, <1>10, <1>11, <1>12 DEF Next, vars, Snapshot

(* A design command that reports it has taken itself back (applyRehome's and   *)
(* the design verbs' rollback) leaves every file it touched as it was, and     *)
(* every HEAD as it was or showing the files.                                *)
THEOREM FailuresUndone == Spec => FailedUndone
<1>1. IInv /\ [Next]_vars =>
        [\A p \in Procs :
           LET r == proc[p] IN
           r.pc # "undone" /\ proc'[p].pc = "undone"
           => \A x \in r.touched : /\ At(disk', x) = At(r.was.disk, x)
                                   /\ At(head', x) \in {At(r.was.head, x), At(disk', x)}]_vars
  <2> SUFFICES ASSUME IInv, [Next]_vars, NEW p \in Procs, proc[p].pc # "undone", proc'[p].pc = "undone",
                      NEW x \in proc[p].touched
               PROVE  /\ At(disk', x) = At(proc[p].was.disk, x)
                      /\ At(head', x) \in {At(proc[p].was.head, x), At(disk', x)}
    OBVIOUS
  <2> DEFINE r == proc[p]
  <2>1. r.pc = "undo" /\ r.done = << >> /\ UNCHANGED <<disk, head>>
    BY Endings
  <2>2. Owned(p) /\ Undoes(r) /\ Showing(r) /\ WellFormed(r.cmd)
    BY <2>1, ModeIsSane DEF IInv, Sound, Owned, Working
  <2>3. x \in {r.src, r.dst} /\ x \in Mine(r)
    BY <2>2 DEF Showing, Owned
  <2>4. At(disk, x) = Was(r, x)
    <3>1. r.cmd.verb = "rehome" => Moving(r)
      BY <2>1 DEF IInv, Sound, Working
    <3>2. r.cmd.verb \in {"mark", "link", "unlink"} => Changing(r)
      BY <2>1 DEF IInv, Sound, Working
    <3> QED BY <2>1, <2>2, <2>3, <3>1, <3>2 DEF Moving, Changing, Undoes, WellFormed
  <2>5. Elements(r.done) = {}
    BY <2>1 DEF Elements
  <2>6. At(head, x) = WasHead(r, x) \/ At(head, x) = At(disk, x)
    BY <2>1, <2>2, <2>3, <2>5 DEF Showing
  <2> QED BY <2>1, <2>4, <2>6 DEF Was, WasHead
<1> QED BY <1>1, Invariance, PTL DEF Spec, FailedUndone

(* A move that succeeds, the first time or after runs that failed or died, is  *)
(* whole: applyRehome has removed the source and written one copy at most, the *)
(* links to the old id follow, and the HEADs of the scopes that commit show it.*)
THEOREM MovesWhole == Spec => MovedWhole
<1>1. ASSUME IInv, [Next]_vars, NEW p \in Procs,
             proc[p].cmd.verb = "rehome", proc[p].pc # "done", proc'[p].pc = "done"
      PROVE  Moved(proc[p])
  <2> DEFINE r == proc[p]
             before == CopiesOf(r, r.was.disk)
  <2>1. r.pc = "commit" /\ r.roots = << >> /\ UNCHANGED <<mode, disk, head>>
    BY <1>1, Endings
  <2>2. Typed /\ Owned(p) /\ Moving(r) /\ Planned(r) /\ Linking(r) /\ Following(r) /\ WellFormed(r.cmd)
    BY SMTT(40), <1>1, <2>1, ModeIsSane DEF IInv, Sound, Owned, Moving, Working
  <2>3. /\ At(disk, r.src) = NoFile /\ At(disk, r.dst) = r.content /\ r.content \in File
        /\ r.src = Source(r.cmd) /\ r.dst.scope = r.cmd.to /\ r.dst.kind = r.cmd.kind
        /\ ShortInFamily(r.dst.short, r.src.short) /\ ScopesOf(r.cmd) = {r.cmd.scope, r.cmd.to}
        /\ r.src.scope = r.cmd.scope /\ r.cmd.to # r.cmd.scope /\ r.src # r.dst
    BY <1>1, <2>1, <2>2 DEF Moving, Planned, WellFormed, Source, ScopesOf
  <2>4. r.src \notin DOMAIN disk /\ r.dst \in DOMAIN disk /\ disk[r.dst] = r.content
    BY <2>2, <2>3, AtTree, NoFileIsNone DEF Typed
  <2>5. \A x \in Mine(r) \ {r.src, r.dst} : At(disk, x).doc = Was(r, x).doc
    BY <2>1, <2>2 DEF Following
  <2>6. \A x \in Paths : x.scope = r.cmd.to => x \in Mine(r) /\ x # r.src
    BY <2>3 DEF Mine
  <2>7. CopiesOf(r, disk) = before \cup {r.dst}
    <3>1. ASSUME NEW x \in CopiesOf(r, disk) PROVE x \in before \cup {r.dst}
      <4>1. x \in DOMAIN disk /\ x \in Paths /\ x.scope = r.cmd.to /\ disk[x].doc = r.content.doc
        BY <2>2, <3>1 DEF CopiesOf, Typed, Tree
      <4>2. CASE x # r.dst
        <5>1. Was(r, x).doc = r.content.doc
          BY <2>5, <2>6, <4>1, <4>2 DEF At
        <5>2. Was(r, x) # NoFile
          BY <2>3, <5>1, NoFileIsNone DEF NoFile
        <5>3. x \in DOMAIN r.was.disk /\ r.was.disk[x] = Was(r, x)
          BY <5>2 DEF Was, At
        <5> QED BY <3>1, <5>1, <5>3 DEF CopiesOf
      <4> QED BY <4>2
    <3>2. ASSUME NEW x \in before PROVE x \in CopiesOf(r, disk)
      <4>1. x \in DOMAIN r.was.disk /\ x \in Paths /\ x.scope = r.cmd.to /\ r.was.disk[x].doc = r.content.doc
        BY <2>2, <3>2 DEF CopiesOf, Planned
      <4>2. CASE x # r.dst
        <5>1. At(disk, x).doc = r.content.doc
          BY <2>5, <2>6, <4>1, <4>2 DEF Was, At
        <5>2. At(disk, x) # NoFile
          BY <2>3, <5>1, NoFileIsNone DEF NoFile
        <5>3. x \in DOMAIN disk /\ disk[x] = At(disk, x)
          BY <5>2 DEF At
        <5> QED BY <3>2, <5>1, <5>3 DEF CopiesOf
      <4>3. CASE x = r.dst
        BY <2>4, <3>2, <4>3 DEF CopiesOf
      <4> QED BY <4>2, <4>3
    <3>3. r.dst \in CopiesOf(r, disk)
      BY <2>3, <2>4 DEF CopiesOf
    <3> QED BY <3>1, <3>2, <3>3
  <2>8. before \subseteq mode.broken \/ r.dst \in before
    BY <2>2 DEF Planned
  <2>9. ASSUME r.cmd.kind = "ticket", NEW x \in TicketsIn(r.cmd.scope) \cup TicketsIn(r.cmd.to)
        PROVE  Id(r.src) \notin disk[x].links
    <3>1. x \in DOMAIN disk /\ x \in Paths /\ x.kind = "ticket" /\ x.scope \in {r.cmd.scope, r.cmd.to}
      BY <2>2 DEF TicketsIn, InScope, Typed, Tree
    <3>2. x \in Mine(r) /\ x # r.src /\ At(disk, x) = disk[x]
      BY <2>3, <2>4, <3>1 DEF Mine, At
    <3> QED BY <2>1, <2>2, <2>9, <3>1, <3>2 DEF Linking
  <2>10. ASSUME NEW x \in {r.src, r.dst}, Commits(x.scope) PROVE At(head, x) = At(disk, x)
    <3>1. Elements(r.roots) = {}
      BY <2>1 DEF Elements
    <3>2. x.scope \in ScopesOf(r.cmd)
      BY <2>3
    <3>3. Root(x.scope) \in Elements(r.done)
      BY <2>1, <2>2, <2>10, <3>1, <3>2 DEF Following
    <3> QED BY <2>1, <2>2, <3>3 DEF Following
  <2>11. Commits(r.cmd.scope) => r.src \notin DOMAIN head
    <3>1. Commits(r.cmd.scope) => At(head, r.src) = NoFile
      BY <2>3, <2>10
    <3> QED BY <2>2, <3>1, AtTree DEF Typed
  <2>12. Commits(r.cmd.to) => At(head, r.dst) = disk[r.dst]
    BY <2>3, <2>4, <2>10
  <2> QED BY <2>1, <2>4, <2>7, <2>8, <2>9, <2>11, <2>12 DEF Moved
<1>2. IInv /\ [Next]_vars =>
        [\A p \in Procs :
           proc[p].cmd.verb = "rehome" /\ proc[p].pc # "done" /\ proc'[p].pc = "done" => Moved(proc[p])]_vars
  BY <1>1
<1> QED BY <1>2, Invariance, PTL DEF Spec, MovedWhole
=============================================================================
