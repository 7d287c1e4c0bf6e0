--------------------------- MODULE IndexCacheProofs ---------------------------
(***************************************************************************)
(* Proofs about IndexCache, for any number of paths, passes, writes and    *)
(* ticks.                                                                  *)
(*                                                                         *)
(* Two arguments.  Where no two writes share a tick, whatever carries the  *)
(* mtime of the last write is a copy of what it wrote: neither a slow pass *)
(* nor a verb can bring anything else with that mtime.  Where they do, one *)
(* pass over one directory at a time is right by the watermark: if the     *)
(* file's mtime is below the start of a pass, and the last write was not   *)
(* one the skip rule may miss, then at every stage either the pass holds   *)
(* the file or the row that looks like it is right already.                *)
(***************************************************************************)
EXTENDS IndexCache, SequenceTheorems, TLAPS

-----------------------------------------------------------------------------
(* The inductive invariant. *)

\* A pass lists and applies as one of the mode's readers, from a time that has
\* been; a verb reads a file that it has found.
Busy(r) == pass[r].at \in {"list", "rows", "parse"}
Started ==
  /\ lastIndex <= clock /\ (verb.at = "read" => verb.stat # NoFile)
  /\ \A r \in Readers : /\ Busy(r) => r \in mode.readers
                        /\ pass[r].now <= clock
                        /\ pass[r].at # "parse" => (pass[r].dirty = {} /\ pass[r].upserts = Nothing)

\* The file is where the last write put it, and nothing is newer.
Place ==
  \A p \in Paths : files[p] # NoFile =>
    /\ files[p].mtime = wrote /\ p \in Present
    /\ \A q \in Paths : q # p => files[q] = NoFile
NothingNewer ==
  /\ \A p \in Paths : rows[p].mtime <= wrote
  /\ \A r \in Readers, p \in Paths : /\ pass[r].listed[p].mtime <= wrote
                                     /\ pass[r].upserts[p].mtime <= wrote
  /\ verb.stat.mtime <= wrote

Base == TypeOK /\ Started /\ Place /\ NothingNewer

\* What carries the mtime of the last write is what it wrote.
Copy(x, w) == (x # NoFile /\ x.mtime = wrote) => x = w
Copies(w) ==
  /\ \A p \in Paths : Copy(files[p], w) /\ Copy(rows[p], w)
  /\ \A r \in Readers, p \in Paths : Copy(pass[r].listed[p], w) /\ Copy(pass[r].upserts[p], w)
  /\ Copy(verb.stat, w)
OneTickOneFile == ~mode.sameTick => \E w : Copies(w)

\* Writes may share a tick: one pass at a time, over one directory, whose reads
\* do not fail.
Calm ==
  mode.sameTick => /\ ~mode.faults /\ Len(mode.dirs) = 1
                   /\ \A r, s \in mode.readers : r = s

\* What looks like the file has its content.
Right(x, p) ==
  (x # NoFile /\ x.mtime = files[p].mtime /\ x.size = files[p].size) => x.ver = files[p].ver
RowRight(p) == Right(rows[p], p)

\* What a pass holds of a file whose mtime is below its start.
Older(r, p) == files[p] # NoFile /\ files[p].mtime < pass[r].now
HoldsListed(r, p) == pass[r].listed[p] = files[p] \/ RowRight(p)
HoldsParsed(r, p) ==
  \/ p \in pass[r].dirty /\ HoldsListed(r, p)
  \/ p \notin pass[r].dirty /\ pass[r].upserts[p] = files[p]
  \/ p \notin pass[r].dirty /\ Right(pass[r].upserts[p], p) /\ RowRight(p)
Holds(r, p) ==
  /\ (pass[r].at = "list" /\ pass[r].dirs = <<>>) => HoldsListed(r, p)
  /\ pass[r].at = "rows" => /\ HoldsListed(r, p)
                            /\ files[p].mtime < pass[r].last => RowRight(p)
  /\ pass[r].at = "parse" => HoldsParsed(r, p)

\* The parts of the watermark's soundness.
ListsAll == \A r \in Readers : pass[r].at = "list" => pass[r].dirs \in {mode.dirs, <<>>}
Held == \A r \in Readers, p \in Paths : Older(r, p) => Holds(r, p)
Marked == \A p \in Paths : (files[p] # NoFile /\ files[p].mtime < lastIndex) => RowRight(p)
Stores == (verb.at = "store" /\ files[verb.path] # NoFile) => Right(verb.stat, verb.path)
Watermark ==
  (mode.sameTick /\ Calm) => ListsAll /\ (~raced => Held /\ Marked /\ Stores)

IInv == Base /\ OneTickOneFile /\ Watermark

-----------------------------------------------------------------------------
(* What the steps do. *)

\* The parts of the type invariant.
LEMMA Types ==
    ASSUME TypeOK
    PROVE  /\ mode \in Modes /\ mode.writes \in Nat /\ mode.dirs \in Seq(Paths) /\ MaxClock \in Nat
           /\ mode.until \in 1..MaxClock /\ mode.readers \subseteq Readers /\ mode.sameTick \in BOOLEAN
           /\ clock \in 1..MaxClock /\ tick \in 1..clock /\ tick \in 1..MaxClock /\ wrote \in 0..tick
           /\ writes \in 0..mode.writes /\ raced \in BOOLEAN
           /\ files \in [Paths -> File] /\ rows \in [Paths -> File]
           /\ lastIndex \in 0..MaxClock /\ known \in BOOLEAN
           /\ pass \in [Readers -> Pass] /\ verb \in Verb
           /\ NoFile \in File /\ Nothing \in [Paths -> File]
           /\ \A p \in Paths : Nothing[p] = NoFile
           /\ NoFile.mtime = 0 /\ NoFile.ver = 0 /\ NoFile.size = 0
  BY BoundsAssumption DEF TypeOK, NoFile, Nothing, File

LEMMA RecordType ==
    ASSUME TypeOK, NEW x \in File
    PROVE  x.mtime \in Nat /\ x.mtime <= MaxClock
  BY Types DEF File

\* A version of a file that is written.
LEMMA WrittenType ==
    ASSUME TypeOK, NEW size \in Sizes, writes < mode.writes
    PROVE  /\ Written(size, tick) \in File /\ Written(size, tick) # NoFile
           /\ Written(size, tick).mtime = tick
<1>1. writes + 1 \in 1..mode.writes /\ tick \in 0..MaxClock
  BY Types
<1>2. Written(size, tick) \in File /\ Written(size, tick).ver = writes + 1
  BY <1>1 DEF Written, File
<1> QED
  BY <1>1, <1>2, Types DEF Written

\* Reading the content of a file under the mtime and the size of a stat.
LEMMA ParsedType ==
    ASSUME TypeOK, NEW s \in File, NEW x \in File
    PROVE  /\ Parsed(s, x) \in File /\ Parsed(s, x).mtime = s.mtime
           /\ Parsed(s, x).size = s.size /\ Parsed(s, x).ver = x.ver
           /\ s = x => Parsed(s, x) = x
  BY DEF Parsed, File

LEMMA IdleType ==
    ASSUME TypeOK
    PROVE  /\ Idle \in Pass /\ NoVerb \in Verb /\ NoVerb.stat = NoFile /\ NoVerb.at = "idle"
           /\ Idle.at = "idle" /\ Idle.now = 0 /\ Idle.listed = Nothing /\ Idle.upserts = Nothing
           /\ Idle.dirty = {}
<1>1. (CHOOSE p \in Paths : TRUE) \in Paths
  BY PathsAssumption
<1>2. <<>> \in Seq(Paths)
  BY EmptySeq
<1> QED
  BY <1>1, <1>2, Types DEF Idle, NoVerb, Pass, Verb

\* A step of a pass leaves the other passes alone.
Others(r) == pass' \in [Readers -> Pass] /\ \A s \in Readers : s # r => pass'[s] = pass[s]
LEMMA StepIs ==
    ASSUME TypeOK, NEW r \in Readers, NEW from, NEW to \in Pass, Step(r, from, to)
    PROVE  Others(r) /\ pass'[r] = to /\ pass[r].at = from
  BY Types DEF Step, Others

\* The steps of a pass, field by field.
Same(r, x) == x.now = pass[r].now /\ x.gone = pass[r].gone
LEMMA BeginFields ==
    ASSUME TypeOK, NEW r \in Readers, Begin(r)
    PROVE  /\ Others(r) /\ pass[r].at = "idle" /\ pass'[r].at = "list" /\ pass'[r].now = clock
           /\ pass'[r].dirs = mode.dirs /\ pass'[r].listed = Nothing /\ pass'[r].upserts = Nothing
           /\ pass'[r].dirty = {}
<1> DEFINE to == [Idle EXCEPT !.at = "list", !.now = clock, !.dirs = mode.dirs]
<1>0. clock \in 0..MaxClock /\ mode.dirs \in Seq(Paths) /\ Idle \in Pass
  BY IdleType, Types
<1>1. to \in Pass
  BY <1>0 DEF Pass
<1>2. Step(r, "idle", to)
  BY DEF Begin
<1>3. /\ to.at = "list" /\ to.now = clock /\ to.dirs = mode.dirs /\ to.listed = Nothing
      /\ to.upserts = Nothing /\ to.dirty = {}
  BY IdleType DEF Pass
<1> HIDE DEF to
<1> QED
  BY <1>1, <1>2, <1>3, StepIs

LEMMA ForgottenFields ==
    ASSUME TypeOK, NEW r \in Readers, ReadForgotten(r) \/ PruneForgotten(r)
    PROVE  /\ Others(r) /\ pass'[r].at \in {"idle", "prune"} /\ pass'[r].now = 0
           /\ pass'[r].listed = Nothing /\ pass'[r].upserts = Nothing /\ pass'[r].dirty = {}
<1>1. CASE ReadForgotten(r)
  <2> DEFINE to == [Idle EXCEPT !.at = "prune"]
  <2>1. to \in Pass
    BY IdleType, Types DEF Pass
  <2>2. Step(r, "idle", to)
    BY <1>1 DEF ReadForgotten
  <2>3. to.at = "prune" /\ to.now = 0 /\ to.listed = Nothing /\ to.upserts = Nothing /\ to.dirty = {}
    BY IdleType DEF Pass
  <2> HIDE DEF to
  <2> QED
    BY <2>1, <2>2, <2>3, StepIs
<1>2. CASE PruneForgotten(r)
  BY <1>2, IdleType, StepIs DEF PruneForgotten
<1> QED
  BY <1>1, <1>2

LEMMA ListFields ==
    ASSUME TypeOK, NEW r \in Readers, List(r)
    PROVE  \E p \in Paths :
             /\ p = Head(pass[r].dirs) /\ pass[r].dirs # <<>> /\ pass[r].at = "list"
             /\ Others(r) /\ Same(r, pass'[r]) /\ pass'[r].at = "list"
             /\ pass'[r].dirs = Tail(pass[r].dirs)
             /\ pass'[r].listed = [pass[r].listed EXCEPT ![p] = files[p]]
             /\ pass'[r].dirty = pass[r].dirty /\ pass'[r].upserts = pass[r].upserts
<1>1. pass[r] \in Pass
  BY Types
<1>2. pass[r].dirs \in Seq(Paths) /\ pass[r].dirs # <<>>
  BY <1>1 DEF Pass, List
<1>3. PICK p : p = Head(pass[r].dirs)
  OBVIOUS
<1>4. p \in Paths /\ Tail(pass[r].dirs) \in Seq(Paths)
  BY <1>2, <1>3, HeadTailProperties
<1> DEFINE to == [pass[r] EXCEPT !.dirs = Tail(@), !.listed[p] = files[p]]
<1>5. Step(r, "list", to)
  BY <1>3 DEF List
<1>6. /\ to \in Pass /\ Same(r, to) /\ to.at = pass[r].at /\ to.dirs = Tail(pass[r].dirs)
      /\ to.listed = [pass[r].listed EXCEPT ![p] = files[p]]
      /\ to.dirty = pass[r].dirty /\ to.upserts = pass[r].upserts
  BY <1>1, <1>4, Types DEF Pass, Same
<1> HIDE DEF to
<1>7. Others(r) /\ pass'[r] = to /\ pass[r].at = "list"
  BY <1>5, <1>6, StepIs
<1> QED
  BY <1>2, <1>3, <1>4, <1>6, <1>7

LEMMA ListFailsFields ==
    ASSUME TypeOK, NEW r \in Readers, ListFails(r)
    PROVE  /\ Others(r) /\ mode.faults
           /\ \/ pass'[r] = Idle
              \/ /\ Same(r, pass'[r]) /\ pass[r].at = "list" /\ pass'[r].at = "list"
                 /\ pass'[r].dirs = Tail(pass[r].dirs) /\ pass'[r].listed = pass[r].listed
                 /\ pass'[r].dirty = pass[r].dirty /\ pass'[r].upserts = pass[r].upserts
<1>1. pass[r] \in Pass /\ mode.faults
  BY Types DEF ListFails
<1>2. pass[r].dirs \in Seq(Paths) /\ pass[r].dirs # <<>>
  BY <1>1 DEF Pass, ListFails
<1>3. Tail(pass[r].dirs) \in Seq(Paths)
  BY <1>2, HeadTailProperties
<1> DEFINE to == [pass[r] EXCEPT !.dirs = Tail(@)]
<1>4. /\ to \in Pass /\ Same(r, to) /\ to.at = pass[r].at /\ to.dirs = Tail(pass[r].dirs)
      /\ to.listed = pass[r].listed /\ to.dirty = pass[r].dirty /\ to.upserts = pass[r].upserts
  BY <1>1, <1>3 DEF Pass, Same
<1>5. Step(r, "list", Idle) \/ Step(r, "list", to)
  BY DEF ListFails
<1> HIDE DEF to
<1>6. Others(r) /\ pass'[r] \in {Idle, to} /\ pass[r].at = "list"
  BY <1>4, <1>5, StepIs, IdleType
<1> QED
  BY <1>1, <1>4, <1>6

LEMMA ReadLastFields ==
    ASSUME TypeOK, NEW r \in Readers, ReadLast(r)
    PROVE  /\ Others(r) /\ Same(r, pass'[r]) /\ pass[r].at = "list" /\ pass[r].dirs = <<>>
           /\ pass'[r].at = "rows" /\ pass'[r].last = lastIndex
           /\ pass'[r].dirs = <<>> /\ pass'[r].listed = pass[r].listed
           /\ pass'[r].dirty = pass[r].dirty /\ pass'[r].upserts = pass[r].upserts
<1>1. pass[r] \in Pass /\ lastIndex \in 0..MaxClock /\ pass[r].dirs = <<>>
  BY Types DEF ReadLast
<1> DEFINE to == [pass[r] EXCEPT !.at = "rows", !.last = lastIndex]
<1>2. /\ to \in Pass /\ Same(r, to) /\ to.at = "rows" /\ to.last = lastIndex /\ to.dirs = pass[r].dirs
      /\ to.listed = pass[r].listed /\ to.dirty = pass[r].dirty /\ to.upserts = pass[r].upserts
  BY <1>1 DEF Pass, Same
<1>3. Step(r, "list", to)
  BY DEF ReadLast
<1> HIDE DEF to
<1>4. Others(r) /\ pass'[r] = to /\ pass[r].at = "list"
  BY <1>2, <1>3, StepIs
<1> QED
  BY <1>1, <1>2, <1>4

LEMMA ReadRowsFields ==
    ASSUME TypeOK, NEW r \in Readers, ReadRows(r)
    PROVE  LET dirty == Dirty(pass[r].listed, rows, pass[r].last)
           IN  /\ Others(r) /\ pass'[r].now = pass[r].now /\ pass[r].at = "rows" /\ pass'[r].at = "parse"
               /\ pass'[r].dirty = dirty /\ dirty \subseteq Paths
               /\ pass'[r].listed = [p \in Paths |-> IF p \in dirty THEN pass[r].listed[p] ELSE NoFile]
               /\ pass'[r].upserts = pass[r].upserts
<1> DEFINE listed == pass[r].listed
           dirty == Dirty(listed, rows, pass[r].last)
           gone == {p \in Paths : rows[p] # NoFile /\ listed[p] = NoFile}
           kept == [p \in Paths |-> IF p \in dirty THEN listed[p] ELSE NoFile]
           to == [pass[r] EXCEPT !.at = "parse", !.last = 0, !.dirty = dirty, !.gone = gone, !.listed = kept]
<1>1. pass[r] \in Pass /\ 0 \in 0..MaxClock /\ NoFile \in File
  BY Types
<1>2. dirty \subseteq Paths /\ gone \subseteq Paths
  BY DEF Dirty
<1>3. kept \in [Paths -> File]
  BY <1>1 DEF Pass
<1>4. Step(r, "rows", to)
  BY DEF ReadRows
<1> HIDE DEF kept, gone, dirty
<1>5. /\ to \in Pass /\ to.now = pass[r].now /\ to.at = "parse" /\ to.dirty = dirty
      /\ to.listed = kept /\ to.upserts = pass[r].upserts
  BY <1>1, <1>2, <1>3 DEF Pass
<1> HIDE DEF to
<1>6. Others(r) /\ pass'[r] = to /\ pass[r].at = "rows"
  BY <1>4, <1>5, StepIs
<1>7. kept = [p \in Paths |-> IF p \in dirty THEN pass[r].listed[p] ELSE NoFile]
  BY DEF kept
<1> QED
  BY <1>2, <1>5, <1>6, <1>7 DEF dirty

\* A file of the pass that has been read, or left out.
Reads(r, p, u) ==
  /\ p \in pass[r].dirty /\ pass[r].at = "parse"
  /\ Others(r) /\ Same(r, pass'[r]) /\ pass'[r].at = "parse" /\ pass'[r].dirty = pass[r].dirty \ {p}
  /\ pass'[r].listed = [pass[r].listed EXCEPT ![p] = NoFile]
  /\ pass'[r].upserts = [pass[r].upserts EXCEPT ![p] = u]

LEMMA ParseFields ==
    ASSUME TypeOK, NEW r \in Readers, Parse(r)
    PROVE  \E p \in Paths :
             Reads(r, p, IF files[p] = NoFile THEN NoFile ELSE Parsed(pass[r].listed[p], files[p]))
<1>1. PICK p \in pass[r].dirty :
        Step(r, "parse",
         [pass[r] EXCEPT !.dirty = @ \ {p}, !.listed[p] = NoFile,
            !.upserts[p] = IF files[p] = NoFile THEN NoFile ELSE Parsed(pass[r].listed[p], files[p])])
  BY DEF Parse
<1>2. pass[r] \in Pass /\ NoFile \in File /\ files \in [Paths -> File]
  BY Types
<1>3. p \in Paths /\ pass[r].dirty \ {p} \subseteq Paths
  BY <1>2 DEF Pass
<1> DEFINE u == IF files[p] = NoFile THEN NoFile ELSE Parsed(pass[r].listed[p], files[p])
           to == [pass[r] EXCEPT !.dirty = @ \ {p}, !.listed[p] = NoFile, !.upserts[p] = u]
<1>4. u \in File
  BY <1>2, <1>3, ParsedType DEF Pass
<1>5. Step(r, "parse", to)
  BY <1>1
<1> HIDE DEF u
<1>6. /\ to \in Pass /\ Same(r, to) /\ to.at = pass[r].at /\ to.dirty = pass[r].dirty \ {p}
      /\ to.listed = [pass[r].listed EXCEPT ![p] = NoFile]
      /\ to.upserts = [pass[r].upserts EXCEPT ![p] = u]
  BY <1>2, <1>3, <1>4 DEF Pass, Same
<1> HIDE DEF to
<1>7. Others(r) /\ pass'[r] = to /\ pass[r].at = "parse"
  BY <1>5, <1>6, StepIs
<1>8. Reads(r, p, u)
  BY <1>6, <1>7 DEF Reads
<1> QED
  BY <1>3, <1>8 DEF u

LEMMA ParseFailsFields ==
    ASSUME TypeOK, NEW r \in Readers, ParseFails(r)
    PROVE  \E p \in Paths : Reads(r, p, pass[r].upserts[p]) /\ mode.faults
<1>1. PICK p \in pass[r].dirty :
        /\ mode.faults
        /\ Step(r, "parse", [pass[r] EXCEPT !.dirty = @ \ {p}, !.listed[p] = NoFile])
  BY DEF ParseFails
<1>2. pass[r] \in Pass /\ NoFile \in File
  BY Types
<1>3. p \in Paths /\ pass[r].dirty \ {p} \subseteq Paths
  BY <1>2 DEF Pass
<1> DEFINE to == [pass[r] EXCEPT !.dirty = @ \ {p}, !.listed[p] = NoFile]
<1>4. /\ to \in Pass /\ Same(r, to) /\ to.at = pass[r].at /\ to.dirty = pass[r].dirty \ {p}
      /\ to.listed = [pass[r].listed EXCEPT ![p] = NoFile]
      /\ to.upserts = pass[r].upserts
  BY <1>2, <1>3 DEF Pass, Same
<1>5. Step(r, "parse", to)
  BY <1>1
<1> HIDE DEF to
<1>6. Others(r) /\ pass'[r] = to /\ pass[r].at = "parse"
  BY <1>4, <1>5, StepIs
<1>7. pass[r].upserts = [pass[r].upserts EXCEPT ![p] = pass[r].upserts[p]]
  BY <1>2, <1>3 DEF Pass
<1>8. Reads(r, p, pass[r].upserts[p])
  BY <1>4, <1>6, <1>7 DEF Reads
<1> QED
  BY <1>1, <1>3, <1>8

\* What a transaction makes of a row.
Outcome(r, p) ==
  LET u == pass[r].upserts[p]
  IN  \/ rows'[p] = rows[p] /\ (u = NoFile \/ rows[p].mtime > u.mtime)
      \/ rows'[p] = u /\ u # NoFile /\ ~(rows[p].mtime > u.mtime)
      \/ rows'[p] = NoFile /\ files[p] = NoFile

LEMMA CommitFields ==
    ASSUME TypeOK, NEW r \in Readers, Commit(r)
    PROVE  /\ Others(r) /\ pass'[r] = Idle /\ pass[r].at = "parse" /\ pass[r].dirty = {}
           /\ rows' \in [Paths -> File] /\ lastIndex' = pass[r].now /\ lastIndex' \in 0..MaxClock
           /\ \A p \in Paths : Outcome(r, p)
<1>1. pass[r] \in Pass /\ rows \in [Paths -> File] /\ NoFile \in File
  BY Types
<1>2. Others(r) /\ pass'[r] = Idle /\ pass[r].at = "parse" /\ pass[r].dirty = {}
  BY StepIs, IdleType DEF Commit
<1>3. rows' = [p \in Paths |-> Applied(p, pass[r].gone, pass[r].upserts[p])] /\ lastIndex' = pass[r].now
  BY DEF Commit
<1>4. ASSUME NEW p \in Paths
      PROVE  Applied(p, pass[r].gone, pass[r].upserts[p]) \in File
  BY <1>1 DEF Applied, Upserted, Pass
<1>5. ASSUME NEW p \in Paths
      PROVE  Outcome(r, p)
  BY <1>3 DEF Outcome, Applied, Upserted, StoredNewer
<1> QED
  BY <1>1, <1>2, <1>3, <1>4, <1>5 DEF Pass

\* The steps of a verb.
LEMMA VerbFields ==
    ASSUME TypeOK, NEW p \in Paths, NEW q \in Paths, VerbWrite(p) \/ VerbMove(p, q)
    PROVE  verb' \in Verb /\ verb'.stat \in {NoFile, verb.stat} /\ verb'.at \in {"wrote", "stat"}
<1>1. CASE VerbWrite(p)
  <2>1. verb' = [NoVerb EXCEPT !.at = "wrote", !.todo = {p}]
    BY <1>1 DEF VerbWrite
  <2> QED
    BY <2>1, IdleType DEF Verb
<1>2. CASE VerbMove(p, q)
  <2>1. verb' = [verb EXCEPT !.at = "stat", !.todo = {p, q}] /\ verb \in Verb
    BY <1>2, Types DEF VerbMove
  <2> QED
    BY <2>1 DEF Verb
<1> QED
  BY <1>1, <1>2

LEMMA SyncStatFields ==
    ASSUME TypeOK, SyncStat
    PROVE  /\ verb' \in Verb /\ \E p \in Paths : verb'.stat = files[p]
           /\ verb'.at = "read" => verb'.stat # NoFile
           /\ verb'.at = "store" => verb'.stat = NoFile
<1>1. verb \in Verb /\ files \in [Paths -> File]
  BY Types
<1>2. PICK p \in verb.todo :
        verb' = [verb EXCEPT !.at = IF files[p] = NoFile THEN "store" ELSE "read",
                             !.todo = @ \ {p}, !.path = p, !.stat = files[p]]
  BY DEF SyncStat
<1>3. p \in Paths /\ verb.todo \ {p} \subseteq Paths
  BY <1>1 DEF Verb
<1>4. CASE files[p] = NoFile
  BY <1>1, <1>2, <1>3, <1>4 DEF Verb
<1>5. CASE files[p] # NoFile
  BY <1>1, <1>2, <1>3, <1>5 DEF Verb
<1> QED
  BY <1>4, <1>5

\* The content that a verb has read, under the mtime and the size of its stat.
HasRead(p) ==
  /\ p = verb.path /\ verb'.at = "store" /\ verb'.path = p /\ files[p] # NoFile
  /\ verb'.stat = Parsed(verb.stat, files[p])
LEMMA SyncReadFields ==
    ASSUME TypeOK, SyncRead
    PROVE  verb' \in Verb /\ verb.at = "read" /\ (verb' = NoVerb \/ \E p \in Paths : HasRead(p))
<1>1. verb \in Verb /\ files \in [Paths -> File] /\ NoVerb \in Verb /\ verb.at = "read"
  BY Types, IdleType DEF SyncRead
<1>2. PICK p : p = verb.path
  OBVIOUS
<1>3. p \in Paths /\ verb.stat \in File /\ files[p] \in File
  BY <1>1, <1>2 DEF Verb
<1>4. CASE files[p] = NoFile
  BY <1>1, <1>2, <1>4 DEF SyncRead
<1>5. CASE files[p] # NoFile
  <2>1. PICK x : x = Parsed(verb.stat, files[p])
    OBVIOUS
  <2>2. x \in File
    BY <1>3, <2>1, ParsedType
  <2>3. verb' = [verb EXCEPT !.at = "store", !.stat = x]
    BY <1>2, <1>5, <2>1 DEF SyncRead
  <2>4. verb' \in Verb /\ verb'.at = "store" /\ verb'.path = p /\ verb'.stat = x
    BY <1>1, <1>2, <2>2, <2>3 DEF Verb
  <2> QED
    BY <1>1, <1>2, <1>3, <1>5, <2>1, <2>4 DEF HasRead
<1> QED
  BY <1>4, <1>5

\* The row of the path that a verb writes through.
Through(p) ==
  /\ p = verb.path /\ verb.at = "store"
  /\ \A q \in Paths : q # p => rows'[q] = rows[q]
  /\ \/ rows'[p] = rows[p] /\ rows[p].mtime > verb.stat.mtime
     \/ rows'[p] = NoFile /\ verb.stat = NoFile
     \/ rows'[p] = verb.stat /\ verb.stat # NoFile

LEMMA SyncStoreFields ==
    ASSUME TypeOK, SyncStore
    PROVE  /\ verb' \in Verb /\ verb'.stat = NoFile /\ verb'.at \in {"idle", "stat"} /\ verb' # verb
           /\ rows' \in [Paths -> File] /\ \E p \in Paths : Through(p)
<1>1. verb \in Verb /\ files \in [Paths -> File] /\ rows \in [Paths -> File] /\ NoFile \in File
  BY Types
<1>2. PICK p : p = verb.path
  OBVIOUS
<1>3. p \in Paths /\ verb.stat \in File
  BY <1>1, <1>2 DEF Verb
<1> DEFINE on == [verb EXCEPT !.at = "stat", !.stat = NoFile]
<1>4. on \in Verb /\ on.stat = NoFile /\ on.at = "stat"
  BY <1>1 DEF Verb
<1>5. NoVerb \in Verb /\ NoVerb.stat = NoFile /\ NoVerb.at = "idle"
  BY IdleType
<1>6. verb' \in {NoVerb, on} /\ verb.at = "store"
  BY DEF SyncStore
<1> HIDE DEF on
<1>7. verb' \in Verb /\ verb'.stat = NoFile /\ verb'.at \in {"idle", "stat"} /\ verb' # verb
  BY <1>4, <1>5, <1>6
<1>8. PICK x : x = SyncRow(rows[p], verb.stat)
  OBVIOUS
<1>9. rows' = [rows EXCEPT ![p] = x]
  BY <1>2, <1>8 DEF SyncStore
<1>10. \/ x = NoFile /\ verb.stat = NoFile
       \/ verb.stat # NoFile /\ (x = verb.stat \/ (x = rows[p] /\ rows[p].mtime > verb.stat.mtime))
  BY <1>8 DEF SyncRow, Upserted, StoredNewer
<1>11. x \in File
  BY <1>1, <1>3, <1>10
<1>12. rows' \in [Paths -> File] /\ rows'[p] = x /\ \A q \in Paths : q # p => rows'[q] = rows[q]
  BY <1>1, <1>3, <1>9, <1>11
<1> QED
  BY <1>2, <1>3, <1>6, <1>7, <1>10, <1>12 DEF Through

\* A write puts one file in place.
Puts(p, x) ==
  /\ CanWrite(p) /\ x \in File /\ x # NoFile /\ x.mtime = tick
  /\ files' = [files EXCEPT ![p] = x] /\ wrote' = tick /\ writes' = writes + 1 /\ raced' = Races(p)
LEMMA WriteFields ==
    ASSUME TypeOK, NEW p \in Paths, Edit(p) \/ VerbWrite(p)
    PROVE  \E x : Puts(p, x)
<1>1. /\ CanWrite(p) /\ writes < mode.writes /\ wrote' = tick /\ writes' = writes + 1
      /\ raced' = Races(p)
  BY DEF Edit, VerbWrite, Save, CanWrite
<1>2. PICK size \in Sizes : files' = [files EXCEPT ![p] = Written(size, tick)]
  BY DEF Edit, VerbWrite, Save
<1> QED
  BY <1>1, <1>2, WrittenType DEF Puts

\* The steps of passes.
PassStep(r) == ReaderStep(r) \/ ListFails(r) \/ ParseFails(r)
LEMMA PassFrame ==
    ASSUME TypeOK, NEW r \in Readers, PassStep(r)
    PROVE  /\ UNCHANGED <<mode, clock, tick, files, wrote, raced, known, verb>> /\ Others(r)
           /\ writes' \in 0..mode.writes
           /\ UNCHANGED rows \/ (PruneForgotten(r) /\ rows' = Nothing) \/ Commit(r)
           /\ UNCHANGED lastIndex \/ (PruneForgotten(r) /\ lastIndex' = 0) \/ Commit(r)
<1>0. writes \in 0..mode.writes /\ mode.writes \in Nat
  BY Types
<1>1. CASE Begin(r)
  BY <1>0, <1>1, BeginFields DEF Begin
<1>2. CASE ReadForgotten(r) \/ PruneForgotten(r)
  BY SMTT(40), <1>0, <1>2, ForgottenFields DEF ReadForgotten, PruneForgotten
<1>3. CASE List(r)
  BY <1>0, <1>3, ListFields DEF List
<1>4. CASE ListFails(r)
  <2>1. Others(r)
    BY <1>4, ListFailsFields
  <2>2. /\ UNCHANGED <<mode, clock, tick, files, wrote, raced, known, verb, rows, lastIndex>>
        /\ writes < mode.writes /\ writes' = writes + 1
    BY <1>4 DEF ListFails
  <2> QED
    BY <1>0, <2>1, <2>2
<1>5. CASE ReadLast(r)
  BY <1>0, <1>5, ReadLastFields DEF ReadLast
<1>6. CASE ReadRows(r)
  BY <1>0, <1>6, ReadRowsFields DEF ReadRows
<1>7. CASE Parse(r)
  BY <1>0, <1>7, ParseFields DEF Parse, Reads
<1>8. CASE ParseFails(r)
  <2>1. Others(r)
    BY <1>8, ParseFailsFields DEF Reads
  <2>2. /\ UNCHANGED <<mode, clock, tick, files, wrote, raced, known, verb, rows, lastIndex>>
        /\ writes < mode.writes /\ writes' = writes + 1
    BY <1>8 DEF ParseFails
  <2> QED
    BY <1>0, <2>1, <2>2
<1>9. CASE Commit(r)
  BY <1>0, <1>9, CommitFields DEF Commit
<1> QED
  BY <1>1, <1>2, <1>3, <1>4, <1>5, <1>6, <1>7, <1>8, <1>9 DEF PassStep, ReaderStep

LEMMA PresentPaths ==
    ASSUME TypeOK
    PROVE  Present \subseteq Paths
<1>1. \A i \in DOMAIN mode.dirs : mode.dirs[i] \in Paths
  BY Types, ElementOfSeq, LenProperties
<1> QED
  BY <1>1 DEF Present

-----------------------------------------------------------------------------
(* Types, ticks and places. *)

\* The types from those of what a step has changed.
LEMMA TypeAgain ==
    ASSUME TypeOK, mode' = mode, clock' \in 1..MaxClock, tick' \in 1..clock', wrote' \in 0..tick',
           writes' \in 0..mode.writes, raced' \in BOOLEAN,
           files' \in [Paths -> File], rows' \in [Paths -> File], lastIndex' \in 0..MaxClock,
           known' \in BOOLEAN, pass' \in [Readers -> Pass], verb' \in Verb,
           \A r \in Readers : \A p \in pass'[r].dirty : pass'[r].listed[p] # NoFile
    PROVE  TypeOK'
<1>1. File' = File
  BY DEF File
<1>2. Pass' = Pass /\ Verb' = Verb
  BY <1>1 DEF Pass, Verb
<1>3. mode \in Modes
  BY Types
<1> QED
  BY <1>1, <1>2, <1>3 DEF TypeOK

\* What a pass is to parse it has listed.
LEMMA ListedStep ==
    ASSUME TypeOK, Started, NEW r \in Readers, PassStep(r), NEW p \in pass'[r].dirty
    PROVE  pass'[r].listed[p] # NoFile
<1>0. \A q \in pass[r].dirty : pass[r].listed[q] # NoFile /\ q \in Paths
  BY Types DEF TypeOK, Pass
<1>1. CASE Begin(r) \/ ReadForgotten(r) \/ PruneForgotten(r) \/ Commit(r)
  BY <1>1, BeginFields, ForgottenFields, CommitFields, IdleType
<1>2. CASE List(r)
  <2>1. PICK q \in Paths : /\ q = Head(pass[r].dirs) /\ pass[r].dirs # <<>> /\ pass[r].at = "list"
                           /\ pass'[r].listed = [pass[r].listed EXCEPT ![q] = files[q]]
                           /\ pass'[r].dirty = pass[r].dirty
    BY <1>2, ListFields
  <2>2. pass[r].dirty = {}
    BY <2>1 DEF Started
  <2> QED
    BY <2>1, <2>2
<1>3. CASE ListFails(r) \/ ReadLast(r)
  BY <1>0, <1>3, ListFailsFields, ReadLastFields, IdleType
<1>4. CASE ReadRows(r)
  <2>1. PICK dirty : dirty = Dirty(pass[r].listed, rows, pass[r].last)
    OBVIOUS
  <2>2. /\ pass'[r].dirty = dirty
        /\ pass'[r].listed = [q \in Paths |-> IF q \in dirty THEN pass[r].listed[q] ELSE NoFile]
    BY <1>4, <2>1, ReadRowsFields
  <2>3. p \in Paths /\ pass[r].listed[p] # NoFile
    BY <2>1, <2>2 DEF Dirty
  <2> QED
    BY <2>2, <2>3
<1>5. CASE Parse(r) \/ ParseFails(r)
  <2>1. PICK q \in Paths : \E u : Reads(r, q, u)
    BY <1>5, ParseFields, ParseFailsFields
  <2>2. pass[r].listed \in [Paths -> File]
    BY Types DEF Pass
  <2> QED
    BY <1>0, <2>1, <2>2 DEF Reads
<1> QED
  BY <1>1, <1>2, <1>3, <1>4, <1>5 DEF PassStep, ReaderStep

LEMMA TypeStep ==
    ASSUME TypeOK, Started, [Next]_vars
    PROVE  TypeOK'
<1>0. /\ mode \in Modes /\ clock \in 1..MaxClock /\ tick \in 1..clock /\ wrote \in 0..tick
      /\ writes \in 0..mode.writes /\ raced \in BOOLEAN
      /\ files \in [Paths -> File] /\ rows \in [Paths -> File]
      /\ lastIndex \in 0..MaxClock /\ known \in BOOLEAN
      /\ pass \in [Readers -> Pass] /\ verb \in Verb /\ MaxClock \in Nat /\ mode.writes \in Nat
      /\ \A r \in Readers : \A p \in pass[r].dirty : pass[r].listed[p] # NoFile
      /\ NoFile \in File /\ Nothing \in [Paths -> File]
  BY Types DEF TypeOK
<1>1. CASE UNCHANGED vars
  BY <1>0, <1>1, TypeAgain DEF vars
<1>2. CASE Tick \/ Register \/ Rebuild \/ VerbDies
  <2>1. CASE Tick
    <3>1. mode.until \in 1..MaxClock
      BY Types
    <3>2. clock' \in 1..MaxClock /\ tick' \in 1..clock' /\ wrote' \in 0..tick'
      BY <1>0, <2>1, <3>1 DEF Tick
    <3> QED
      BY <1>0, <2>1, <3>2, TypeAgain DEF Tick
  <2>2. CASE Register
    <3>1. known' \in BOOLEAN
      BY <2>2, Zenon DEF Register
    <3> QED
      BY <1>0, <2>2, <3>1, TypeAgain DEF Register
  <2>3. CASE Rebuild
    BY <1>0, <2>3, TypeAgain DEF Rebuild
  <2>4. CASE VerbDies
    BY <1>0, <2>4, TypeAgain, IdleType DEF VerbDies
  <2> QED
    BY <1>2, <2>1, <2>2, <2>3, <2>4
<1>3. CASE SyncStat
  BY <1>0, <1>3, TypeAgain, SyncStatFields DEF SyncStat
<1>4. CASE SyncRead \/ SyncStore
  <2>1. CASE SyncRead
    BY <1>0, <2>1, TypeAgain, SyncReadFields DEF SyncRead
  <2>2. CASE SyncStore
    <3>1. raced' \in BOOLEAN
      BY <2>2, Zenon DEF SyncStore
    <3> QED
      BY <1>0, <2>2, <3>1, TypeAgain, SyncStoreFields DEF SyncStore
  <2> QED
    BY <1>4, <2>1, <2>2
<1>5. ASSUME NEW p \in Paths, Edit(p) \/ VerbWrite(p)
      PROVE  TypeOK'
  <2>1. PICK x : Puts(p, x)
    BY <1>5, WriteFields
  <2>2. /\ files' \in [Paths -> File] /\ wrote' = tick /\ writes' = writes + 1 /\ writes < mode.writes
    BY <1>0, <2>1 DEF Puts, CanWrite
  <2>3. UNCHANGED <<mode, clock, tick, rows, lastIndex, known, pass>> /\ verb' \in Verb
    BY <1>0, <1>5, VerbFields DEF Edit, VerbWrite
  <2>4. raced' \in BOOLEAN
    BY <2>1, Zenon DEF Puts, Races
  <2> QED
    BY <1>0, <2>2, <2>3, <2>4, TypeAgain
<1>6. ASSUME NEW p \in Paths, Delete(p)
      PROVE  TypeOK'
  BY <1>0, <1>6, TypeAgain DEF Delete
<1>7. ASSUME NEW p \in Paths, NEW q \in Paths, VerbMove(p, q)
      PROVE  TypeOK'
  <2>1. files' \in [Paths -> File] /\ verb' \in Verb
    BY <1>0, <1>7, VerbFields DEF VerbMove
  <2> QED
    BY <1>0, <1>7, <2>1, TypeAgain DEF VerbMove
<1>8. ASSUME NEW r \in Readers, PassStep(r)
      PROVE  TypeOK'
  <2>1. /\ UNCHANGED <<mode, clock, tick, files, wrote, raced, known, verb>> /\ Others(r)
        /\ writes' \in 0..mode.writes
    BY <1>8, PassFrame
  <2>2. rows' \in [Paths -> File] /\ lastIndex' \in 0..MaxClock
    BY <1>0, <1>8, PassFrame, CommitFields
  <2>3. \A s \in Readers : \A p \in pass'[s].dirty : pass'[s].listed[p] # NoFile
    BY <1>0, <1>8, <2>1, ListedStep DEF Others
  <2> QED
    BY <1>0, <2>1, <2>2, <2>3, TypeAgain DEF Others
<1> QED
  BY <1>1, <1>2, <1>3, <1>4, <1>5, <1>6, <1>7, <1>8, PresentPaths DEF Next, VerbStep, PassStep

\* Passes start in a tick that has been, and hold nothing before they parse.
LEMMA StartedStep ==
    ASSUME TypeOK, Started, [Next]_vars
    PROVE  Started'
<1>0. /\ clock \in Nat /\ lastIndex \in Nat /\ lastIndex <= clock /\ MaxClock \in Nat
      /\ pass \in [Readers -> Pass]
      /\ \A r \in Readers : /\ Busy(r) => r \in mode.readers
                            /\ pass[r].now <= clock /\ pass[r].now \in Nat
                            /\ pass[r].at # "parse" => (pass[r].dirty = {} /\ pass[r].upserts = Nothing)
  BY Types DEF Started, Pass
<1>1. ASSUME UNCHANGED <<mode, pass>>, clock' \in {clock, clock + 1}, lastIndex' \in {lastIndex, 0},
             verb'.at = "read" => verb'.stat # NoFile
      PROVE  Started'
  BY <1>0, <1>1 DEF Started, Busy
<1>2. CASE UNCHANGED vars \/ Tick \/ Register \/ Rebuild \/ VerbDies
  <2>1. verb' \in {verb, NoVerb} /\ lastIndex' \in {lastIndex, 0} /\ clock' \in {clock, clock + 1}
        /\ UNCHANGED <<mode, pass>>
    BY <1>2 DEF vars, Tick, Register, Rebuild, VerbDies
  <2> QED
    BY <1>1, <2>1, IdleType DEF Started
<1>3. CASE SyncStat \/ SyncRead \/ SyncStore
  <2>1. verb'.at = "read" => verb'.stat # NoFile
    BY <1>3, IdleType, SyncStatFields, SyncReadFields, SyncStoreFields DEF HasRead
  <2> QED
    BY <1>1, <1>3, <2>1 DEF SyncStat, SyncRead, SyncStore
<1>5. CASE \E p \in Present : Edit(p) \/ Delete(p) \/ VerbWrite(p) \/ \E q \in Present : VerbMove(p, q)
  <2>1. verb'.at = "read" => verb'.stat # NoFile
    BY <1>5, PresentPaths, VerbFields DEF Edit, Delete, Started
  <2> QED
    BY <1>1, <1>5, <2>1 DEF Edit, Delete, VerbWrite, VerbMove
<1>4. ASSUME NEW r \in Readers, PassStep(r)
      PROVE  Started'
  <2>1. UNCHANGED <<mode, clock, verb>> /\ Others(r) /\ lastIndex' <= clock
    BY <1>0, <1>4, PassFrame, CommitFields
  <2>2. /\ pass'[r].at \in {"list", "rows", "parse"} => r \in mode.readers
        /\ pass'[r].now <= clock
        /\ pass'[r].at # "parse" => (pass'[r].dirty = {} /\ pass'[r].upserts = Nothing)
    <3>1. CASE Begin(r)
      BY <1>0, <3>1, BeginFields DEF Begin
    <3>2. CASE ReadForgotten(r) \/ PruneForgotten(r)
      BY <1>0, <3>2, ForgottenFields
    <3>3. CASE Commit(r)
      BY <1>0, <3>3, CommitFields, IdleType
    <3>4. CASE List(r)
      BY <1>0, <3>4, ListFields DEF Same, Busy
    <3>5. CASE ListFails(r) \/ ReadLast(r)
      BY <1>0, <3>5, ListFailsFields, ReadLastFields, IdleType DEF Same, Busy
    <3>6. CASE ReadRows(r)
      BY <1>0, <3>6, ReadRowsFields DEF Busy
    <3>7. CASE Parse(r) \/ ParseFails(r)
      BY <1>0, <3>7, ParseFields, ParseFailsFields DEF Reads, Same, Busy
    <3> QED
      BY <1>4, <3>1, <3>2, <3>3, <3>4, <3>5, <3>6, <3>7 DEF PassStep, ReaderStep
  <2> QED
    BY <1>0, <2>1, <2>2 DEF Started, Busy, Others
<1> QED
  BY <1>2, <1>3, <1>4, <1>5 DEF Next, VerbStep, PassStep

LEMMA ModeStays ==
    ASSUME TypeOK, [Next]_vars
    PROVE  mode' = mode
<1>1. CASE \E r \in Readers : PassStep(r)
  BY <1>1, PassFrame
<1>2. CASE UNCHANGED vars \/ Tick \/ Register \/ Rebuild \/ VerbDies \/ VerbStep
  BY <1>2 DEF vars, Tick, Register, Rebuild, VerbDies, VerbStep, SyncStat, SyncRead, SyncStore
<1>3. CASE \E p \in Present : Edit(p) \/ Delete(p) \/ VerbWrite(p) \/ \E q \in Present : VerbMove(p, q)
  BY <1>3 DEF Edit, Delete, VerbWrite, VerbMove
<1> QED
  BY <1>1, <1>2, <1>3 DEF Next, PassStep

\* Where what a pass holds and what it stores comes from.
From(r, p) ==
  /\ pass'[r].listed[p] \in {NoFile, pass[r].listed[p], files[p]}
  /\ \/ pass'[r].upserts[p] \in {NoFile, pass[r].upserts[p]}
     \/ /\ pass'[r].upserts[p] = Parsed(pass[r].listed[p], files[p])
        /\ files[p] # NoFile /\ pass[r].listed[p] # NoFile
  /\ rows'[p] \in {NoFile, rows[p], pass[r].upserts[p]}

LEMMA Sources ==
    ASSUME TypeOK, NEW r \in Readers, PassStep(r), NEW p \in Paths
    PROVE  From(r, p)
<1>0. /\ pass[r].listed \in [Paths -> File] /\ pass[r].upserts \in [Paths -> File]
      /\ \A q \in pass[r].dirty : pass[r].listed[q] # NoFile
      /\ Nothing[p] = NoFile
  BY Types DEF Pass, TypeOK
<1>1. rows'[p] \in {NoFile, rows[p], pass[r].upserts[p]}
  <2>1. UNCHANGED rows \/ rows' = Nothing \/ Commit(r)
    BY PassFrame
  <2>2. CASE Commit(r)
    BY <2>2, CommitFields DEF Outcome
  <2> QED
    BY <1>0, <2>1, <2>2
<1>2. CASE Begin(r) \/ ReadForgotten(r) \/ PruneForgotten(r) \/ Commit(r)
  <2>1. pass'[r].listed = Nothing /\ pass'[r].upserts = Nothing
    BY <1>2, BeginFields, ForgottenFields, CommitFields, IdleType
  <2> QED
    BY <1>0, <1>1, <2>1 DEF From
<1>3. CASE List(r)
  <2>1. PICK q \in Paths : /\ pass'[r].listed = [pass[r].listed EXCEPT ![q] = files[q]]
                           /\ pass'[r].upserts = pass[r].upserts
    BY <1>3, ListFields
  <2> QED
    BY <1>0, <1>1, <2>1 DEF From
<1>4. CASE ListFails(r) \/ ReadLast(r)
  <2>1. \/ pass'[r].listed = Nothing /\ pass'[r].upserts = Nothing
        \/ pass'[r].listed = pass[r].listed /\ pass'[r].upserts = pass[r].upserts
    BY <1>4, ListFailsFields, ReadLastFields, IdleType
  <2> QED
    BY <1>0, <1>1, <2>1 DEF From
<1>5. CASE ReadRows(r)
  <2>1. PICK dirty : dirty = Dirty(pass[r].listed, rows, pass[r].last)
    OBVIOUS
  <2>2. /\ pass'[r].listed = [q \in Paths |-> IF q \in dirty THEN pass[r].listed[q] ELSE NoFile]
        /\ pass'[r].upserts = pass[r].upserts
    BY <1>5, <2>1, ReadRowsFields
  <2> QED
    BY <1>0, <1>1, <2>2 DEF From
<1>6. CASE Parse(r)
  <2>1. PICK q \in Paths :
          Reads(r, q, IF files[q] = NoFile THEN NoFile ELSE Parsed(pass[r].listed[q], files[q]))
    BY <1>6, ParseFields
  <2>2. /\ q \in pass[r].dirty
        /\ pass'[r].listed[p] \in {NoFile, pass[r].listed[p]}
        /\ p # q => pass'[r].upserts[p] = pass[r].upserts[p]
        /\ p = q => pass'[r].upserts[p] = IF files[p] = NoFile THEN NoFile ELSE Parsed(pass[r].listed[p], files[p])
    BY <1>0, <2>1 DEF Reads
  <2> QED
    BY <1>0, <1>1, <2>2 DEF From
<1>7. CASE ParseFails(r)
  <2>1. PICK q \in Paths : Reads(r, q, pass[r].upserts[q])
    BY <1>7, ParseFailsFields
  <2>2. /\ pass'[r].listed[p] \in {NoFile, pass[r].listed[p]}
        /\ pass'[r].upserts[p] = pass[r].upserts[p]
    BY <1>0, <2>1 DEF Reads
  <2> QED
    BY <1>1, <2>2 DEF From
<1> QED
  BY <1>2, <1>3, <1>4, <1>5, <1>6, <1>7 DEF PassStep, ReaderStep

\* The ticket stays at one place, with the mtime of its last write.
LEMMA PlaceStep ==
    ASSUME Base, [Next]_vars
    PROVE  Place'
<1>0. /\ TypeOK /\ Place /\ files \in [Paths -> File] /\ Present \subseteq Paths
  BY PresentPaths, Types DEF Base
<1>1. ASSUME UNCHANGED <<mode, files, wrote>>
      PROVE  Place'
  BY <1>0, <1>1 DEF Place, Present
<1>2. CASE UNCHANGED vars \/ Tick \/ Register \/ Rebuild \/ VerbDies \/ VerbStep
  BY <1>1, <1>2 DEF vars, Tick, Register, Rebuild, VerbDies, VerbStep, SyncStat, SyncRead, SyncStore
<1>3. ASSUME NEW p \in Present, Edit(p) \/ VerbWrite(p)
      PROVE  Place'
  <2>1. PICK x : Puts(p, x)
    BY <1>0, <1>3, WriteFields
  <2>2. mode' = mode
    BY <1>3 DEF Edit, VerbWrite
  <2> QED
    BY <1>0, <1>3, <2>1, <2>2 DEF Place, Present, Puts, CanWrite
<1>4. ASSUME NEW p \in Present, Delete(p)
      PROVE  Place'
  BY <1>0, <1>4 DEF Delete, Place, Present
<1>5. ASSUME NEW p \in Present, NEW q \in Present, VerbMove(p, q)
      PROVE  Place'
  <2>1. /\ files' = [files EXCEPT ![q] = files[p], ![p] = NoFile] /\ p # q
        /\ files[p] # NoFile /\ UNCHANGED <<mode, wrote>>
    BY <1>5 DEF VerbMove
  <2>2. \A s \in Paths : s # p => files[s] = NoFile
    BY <1>0, <1>5, <2>1 DEF Place
  <2>3. \A s \in Paths : files'[s] = IF s = q THEN files[p] ELSE NoFile
    BY <1>0, <1>5, <2>1, <2>2
  <2> QED
    BY <1>0, <1>5, <2>1, <2>3 DEF Place, Present
<1>6. ASSUME NEW r \in Readers, PassStep(r)
      PROVE  Place'
  BY <1>0, <1>1, <1>6, PassFrame
<1> QED
  BY <1>2, <1>3, <1>4, <1>5, <1>6 DEF Next, PassStep

\* Nothing that is held or stored has an mtime after the last write.
LEMMA NewerStep ==
    ASSUME Base, [Next]_vars
    PROVE  NothingNewer'
<1>0. /\ TypeOK /\ Place /\ files \in [Paths -> File] /\ Present \subseteq Paths /\ wrote \in Nat /\ tick \in Nat
      /\ wrote <= tick /\ verb \in Verb /\ verb.stat \in File /\ pass \in [Readers -> Pass]
      /\ NoFile.mtime = 0 /\ \A p \in Paths : Nothing[p] = NoFile
  BY PresentPaths, Types DEF Base, Verb
<1>1. /\ \A p \in Paths : /\ rows[p].mtime <= wrote /\ rows[p].mtime \in Nat
                          /\ files[p].mtime <= wrote /\ files[p].mtime \in Nat
      /\ \A r \in Readers, p \in Paths : /\ pass[r].listed[p].mtime <= wrote /\ pass[r].listed[p].mtime \in Nat
                                         /\ pass[r].upserts[p].mtime <= wrote /\ pass[r].upserts[p].mtime \in Nat
      /\ verb.stat.mtime <= wrote /\ verb.stat.mtime \in Nat
  <2>1. /\ \A p \in Paths : rows[p] \in File /\ files[p] \in File
        /\ \A r \in Readers, p \in Paths : pass[r].listed[p] \in File /\ pass[r].upserts[p] \in File
    BY <1>0, Types DEF Pass
  <2>2. \A p \in Paths : files[p].mtime <= wrote
    BY <1>0 DEF Place
  <2> QED
    BY <1>0, <2>1, <2>2, RecordType DEF Base, NothingNewer
<1>2. ASSUME UNCHANGED pass, wrote' \in {wrote, tick}, \A p \in Paths : rows'[p] \in {NoFile, rows[p]},
             verb'.stat \in {NoFile, verb.stat}
      PROVE  NothingNewer'
  BY <1>0, <1>1, <1>2 DEF NothingNewer
<1>3. CASE UNCHANGED vars \/ Tick \/ Register \/ Rebuild \/ VerbDies
  BY <1>0, <1>2, <1>3, IdleType DEF vars, Tick, Register, Rebuild, VerbDies
<1>4. ASSUME NEW p \in Present, NEW q \in Present, Edit(p) \/ Delete(p) \/ VerbWrite(p) \/ VerbMove(p, q)
      PROVE  NothingNewer'
  <2>1. UNCHANGED <<pass, rows>> /\ wrote' \in {wrote, tick}
    BY <1>4 DEF Edit, Save, Delete, VerbWrite, VerbMove
  <2>2. verb'.stat \in {NoFile, verb.stat}
    BY <1>0, <1>4, VerbFields DEF Edit, Delete
  <2> QED
    BY <1>2, <2>1, <2>2
<1>5. CASE SyncStat
  <2>1. PICK p \in Paths : verb'.stat = files[p]
    BY <1>0, <1>5, SyncStatFields
  <2>2. UNCHANGED <<pass, rows, wrote>>
    BY <1>5 DEF SyncStat
  <2> QED
    BY <1>0, <1>1, <2>1, <2>2 DEF NothingNewer
<1>6. CASE SyncRead \/ SyncStore
  <2>1. UNCHANGED <<pass, wrote>>
    BY <1>6 DEF SyncRead, SyncStore
  <2>2. \A p \in Paths : Parsed(verb.stat, files[p]).mtime = verb.stat.mtime
    BY <1>0, ParsedType
  <2>3. CASE SyncRead
    <3>1. rows' = rows
      BY <2>3 DEF SyncRead
    <3>2. verb'.stat = NoFile \/ \E p \in Paths : verb'.stat = Parsed(verb.stat, files[p])
      BY <1>0, <2>3, SyncReadFields, IdleType DEF HasRead
    <3>3. verb'.stat.mtime <= wrote
      BY <1>0, <1>1, <2>2, <3>2
    <3> QED
      BY <1>0, <1>1, <2>1, <3>1, <3>3 DEF NothingNewer
  <2>4. CASE SyncStore
    <3>1. verb'.stat = NoFile /\ \E p \in Paths : Through(p)
      BY <1>0, <2>4, SyncStoreFields
    <3>2. \A q \in Paths : rows'[q].mtime <= wrote
      BY <1>0, <1>1, <3>1 DEF Through
    <3> QED
      BY <1>0, <1>1, <2>1, <3>1, <3>2 DEF NothingNewer
  <2> QED
    BY <1>6, <2>3, <2>4
<1>7. ASSUME NEW r \in Readers, PassStep(r)
      PROVE  NothingNewer'
  <2>1. UNCHANGED <<wrote, verb>> /\ Others(r)
    BY <1>0, <1>7, PassFrame
  <2>2. ASSUME NEW p \in Paths
        PROVE  /\ pass'[r].listed[p].mtime <= wrote /\ pass'[r].upserts[p].mtime <= wrote
               /\ rows'[p].mtime <= wrote
    <3>1. From(r, p)
      BY <1>0, <1>7, Sources
    <3>2. Parsed(pass[r].listed[p], files[p]).mtime = pass[r].listed[p].mtime
      BY <1>0, ParsedType DEF Pass
    <3> QED
      BY <1>0, <1>1, <3>1, <3>2 DEF From
  <2> QED
    BY <1>1, <2>1, <2>2 DEF NothingNewer, Others
<1> QED
  BY <1>3, <1>4, <1>5, <1>6, <1>7 DEF Next, VerbStep, PassStep

-----------------------------------------------------------------------------
(* No two writes in one tick. *)

\* The content of the file under the mtime of the last write is the file.
LEMMA CopyParsed ==
    ASSUME Base, NEW w, Copies(w), NEW p \in Paths, NEW x \in File, Copy(x, w), x # NoFile, files[p] # NoFile
    PROVE  Copy(Parsed(x, files[p]), w)
<1>1. files[p] = w /\ files[p] \in File /\ TypeOK
  BY Types DEF Base, Place, Copies, Copy
<1>2. Parsed(x, files[p]).mtime = x.mtime /\ (x = files[p] => Parsed(x, files[p]) = files[p])
  BY <1>1, ParsedType
<1> QED
  BY <1>1, <1>2 DEF Copy

LEMMA OneTickStep ==
    ASSUME Base, OneTickOneFile, [Next]_vars
    PROVE  OneTickOneFile'
<1>0. /\ TypeOK /\ Present \subseteq Paths /\ wrote \in Nat /\ tick \in Nat /\ files \in [Paths -> File]
      /\ verb.stat \in File /\ pass \in [Readers -> Pass] /\ \A p \in Paths : Nothing[p] = NoFile
  BY PresentPaths, Types DEF Base, Verb
<1>1. mode' = mode
  BY <1>0, ModeStays
<1> SUFFICES ASSUME ~mode.sameTick
             PROVE  \E w : Copies(w)'
  BY <1>1 DEF OneTickOneFile
<1>2. PICK w : Copies(w)
  BY DEF OneTickOneFile
<1>3. /\ \A p \in Paths : Copy(files[p], w) /\ Copy(rows[p], w)
      /\ \A r \in Readers, p \in Paths : Copy(pass[r].listed[p], w) /\ Copy(pass[r].upserts[p], w)
      /\ Copy(verb.stat, w) /\ Copy(NoFile, w)
  BY <1>2 DEF Copies, Copy
<1>4. ASSUME wrote' = wrote, NEW x, Copy(x, w)
      PROVE  (x # NoFile /\ x.mtime = wrote') => x = w
  BY <1>4 DEF Copy
<1>5. ASSUME UNCHANGED <<pass, wrote>>, Copy(verb'.stat, w),
             \A p \in Paths : Copy(rows'[p], w) /\ Copy(files'[p], w)
      PROVE  Copies(w)'
  BY <1>3, <1>5 DEF Copies, Copy
<1>6. CASE UNCHANGED vars \/ Tick \/ Register \/ Rebuild \/ VerbDies
  <2>1. UNCHANGED <<pass, wrote, files>> /\ rows' \in {rows, Nothing} /\ verb' \in {verb, NoVerb}
    BY <1>6 DEF vars, Tick, Register, Rebuild, VerbDies
  <2> QED
    BY <1>0, <1>3, <1>5, <2>1, IdleType
<1>7. ASSUME NEW p \in Present, Edit(p) \/ VerbWrite(p)
      PROVE  \E v : Copies(v)'
  <2>1. PICK x : Puts(p, x)
    BY <1>0, <1>7, WriteFields
  <2>2. wrote' = tick /\ wrote < tick /\ files' = [files EXCEPT ![p] = x]
    BY <2>1 DEF Puts, CanWrite
  <2>3. UNCHANGED <<pass, rows>> /\ verb'.stat \in {NoFile, verb.stat}
    BY <1>0, <1>7, VerbFields DEF Edit, VerbWrite
  <2>4. /\ \A q \in Paths : rows[q].mtime # wrote' /\ (files[q] # NoFile => files[q].mtime # wrote')
        /\ \A r \in Readers, q \in Paths : /\ pass[r].listed[q].mtime # wrote'
                                           /\ pass[r].upserts[q].mtime # wrote'
        /\ verb.stat.mtime # wrote'
    <3>1. ASSUME NEW t \in Nat, t <= wrote
          PROVE  t # wrote'
      BY <1>0, <2>2, <3>1
    <3>2. /\ \A q \in Paths : rows[q].mtime \in Nat /\ files[q].mtime \in Nat
          /\ \A r \in Readers, q \in Paths : /\ pass[r].listed[q].mtime \in Nat
                                             /\ pass[r].upserts[q].mtime \in Nat
          /\ verb.stat.mtime \in Nat
      BY <1>0, Types, RecordType DEF Pass
    <3>3. \A q \in Paths : files[q] # NoFile => files[q].mtime = wrote
      BY DEF Base, Place
    <3>4. wrote # wrote'
      BY <1>0, <2>2
    <3> QED
      BY <3>1, <3>2, <3>3, <3>4 DEF Base, NothingNewer
  <2>5. Copies(x)'
    BY <1>0, <2>2, <2>3, <2>4 DEF Copies, Copy
  <2> QED
    BY <2>5
<1>8. ASSUME NEW p \in Present, NEW q \in Present, Delete(p) \/ VerbMove(p, q)
      PROVE  Copies(w)'
  <2>1. UNCHANGED <<pass, rows, wrote>> /\ verb'.stat \in {NoFile, verb.stat}
    BY <1>0, <1>8, VerbFields DEF Delete, VerbMove
  <2>2. \A s \in Paths : files'[s] \in {NoFile, files[s], files[p]}
    BY <1>0, <1>8 DEF Delete, VerbMove
  <2>3. \A s \in Paths : Copy(files'[s], w)
    BY <1>0, <1>3, <2>2
  <2> QED
    BY <1>3, <1>5, <2>1, <2>3
<1>9. CASE SyncStat
  <2>1. PICK p \in Paths : verb'.stat = files[p]
    BY <1>0, <1>9, SyncStatFields
  <2>2. UNCHANGED <<pass, rows, wrote, files>>
    BY <1>9 DEF SyncStat
  <2> QED
    BY <1>3, <1>5, <2>1, <2>2
<1>10. CASE SyncRead
  <2>1. UNCHANGED <<pass, wrote, files, rows>> /\ verb.at = "read" /\ verb.stat # NoFile
    BY <1>0, <1>10 DEF SyncRead, Base, Started
  <2>2. CASE verb' = NoVerb
    BY <1>0, <1>3, <1>5, <2>1, <2>2, IdleType
  <2>3. ASSUME NEW p \in Paths, HasRead(p)
        PROVE  Copy(verb'.stat, w)
    BY <1>0, <1>2, <1>3, <2>1, <2>3, CopyParsed DEF HasRead
  <2> QED
    BY <1>0, <1>3, <1>5, <1>10, <2>1, <2>2, <2>3, SyncReadFields
<1>12. CASE SyncStore
  <2>1. UNCHANGED <<pass, wrote, files>> /\ verb'.stat = NoFile
    BY <1>0, <1>12, SyncStoreFields DEF SyncStore
  <2>2. PICK p \in Paths : Through(p)
    BY <1>0, <1>12, SyncStoreFields
  <2>3. \A q \in Paths : Copy(rows'[q], w)
    BY <1>3, <2>2 DEF Through
  <2> QED
    BY <1>3, <1>5, <2>1, <2>3
<1>11. ASSUME NEW r \in Readers, PassStep(r)
       PROVE  Copies(w)'
  <2>1. UNCHANGED <<wrote, verb, files>> /\ Others(r)
    BY <1>0, <1>11, PassFrame
  <2>2. ASSUME NEW p \in Paths
        PROVE  Copy(pass'[r].listed[p], w) /\ Copy(pass'[r].upserts[p], w) /\ Copy(rows'[p], w)
    <3>1. From(r, p)
      BY <1>0, <1>11, Sources
    <3>2. pass[r].listed[p] \in File
      BY <1>0 DEF Pass
    <3>3. (pass[r].listed[p] # NoFile /\ files[p] # NoFile) => Copy(Parsed(pass[r].listed[p], files[p]), w)
      BY <1>2, <1>3, <3>2, CopyParsed
    <3> QED
      BY <1>3, <3>1, <3>3 DEF From
  <2>3. \A s \in Readers, p \in Paths : Copy(pass'[s].listed[p], w) /\ Copy(pass'[s].upserts[p], w)
    BY <1>3, <2>1, <2>2 DEF Others
  <2> QED
    BY <1>3, <2>1, <2>2, <2>3 DEF Copies, Copy
<1> QED
  BY <1>6, <1>7, <1>8, <1>9, <1>10, <1>11, <1>12 DEF Next, VerbStep, PassStep

-----------------------------------------------------------------------------
(* Several writes in one tick, and one pass at a time. *)

\* The one directory.
LEMMA OneDir ==
    ASSUME TypeOK, Len(mode.dirs) = 1
    PROVE  Present = {Head(mode.dirs)} /\ mode.dirs # <<>> /\ Tail(mode.dirs) = <<>>
<1>1. mode.dirs \in Seq(Paths)
  BY Types
<1>2. DOMAIN mode.dirs = {1} /\ Head(mode.dirs) = mode.dirs[1] /\ mode.dirs # <<>>
  BY <1>1
<1>3. Tail(mode.dirs) \in Seq(Paths) /\ Len(Tail(mode.dirs)) = 0
  BY <1>1, <1>2, HeadTailProperties
<1>4. Tail(mode.dirs) = <<>>
  BY <1>3, EmptySeq
<1> QED
  BY <1>2, <1>4 DEF Present

\* A step that leaves the passes alone, the files that are there too, and a row
\* that is right right.
LEMMA WatermarkKept ==
    ASSUME Held, Marked, TypeOK,
           UNCHANGED pass, lastIndex' \in {lastIndex, 0},
           \A p \in Paths : files'[p] # NoFile => (files'[p] = files[p] /\ (RowRight(p) => RowRight(p)'))
    PROVE  (Held /\ Marked)'
<1>1. Held'
  <2> SUFFICES ASSUME NEW r \in Readers, NEW p \in Paths, Older(r, p)'
               PROVE  Holds(r, p)'
    BY DEF Held
  <2>1. files'[p] = files[p] /\ (RowRight(p) => RowRight(p)')
    BY DEF Older
  <2>2. Holds(r, p)
    BY <2>1 DEF Held, Older
  <2>3. Right(pass[r].upserts[p], p) => Right(pass[r].upserts[p], p)'
    BY <2>1 DEF Right
  <2> QED
    BY <2>1, <2>2, <2>3 DEF Holds, HoldsListed, HoldsParsed
<1>2. Marked'
  <2> SUFFICES ASSUME NEW p \in Paths, files'[p] # NoFile, files'[p].mtime < lastIndex'
               PROVE  RowRight(p)'
    BY DEF Marked
  <2>1. files'[p] = files[p] /\ (RowRight(p) => RowRight(p)')
    OBVIOUS
  <2>2. files[p] \in File /\ files[p].mtime \in Nat
    BY Types, RecordType
  <2>3. lastIndex' = lastIndex
    BY <2>1, <2>2
  <2> QED
    BY <2>1, <2>3 DEF Marked
<1> QED
  BY <1>1, <1>2

\* The first write in a tick looks like nothing that was there before.
LEMMA FirstInTick ==
    ASSUME Base, NEW p \in Paths, NEW x, Puts(p, x), wrote < tick, UNCHANGED <<pass, rows, lastIndex>>
    PROVE  /\ (Held /\ Marked)'
           /\ \A q \in Paths : files'[q] # NoFile => verb.stat.mtime # files'[q].mtime
<1>0. TypeOK /\ wrote \in Nat /\ tick \in Nat /\ files \in [Paths -> File]
  BY Types DEF Base
<1>1. \A q \in Paths : files'[q] # NoFile => files'[q].mtime = tick
  BY <1>0 DEF Puts, CanWrite
<1>2. ASSUME NEW y \in File, y.mtime <= wrote, NEW q \in Paths, files'[q] # NoFile
      PROVE  y.mtime # files'[q].mtime
  BY <1>0, <1>1, <1>2, RecordType
<1>4. ASSUME NEW q \in Paths, files'[q] # NoFile
      PROVE  /\ RowRight(q)'
             /\ \A r \in Readers : (pass[r].upserts[q].mtime # files'[q].mtime)
             /\ verb.stat.mtime # files'[q].mtime
  <2>1. /\ rows[q] \in File /\ rows[q].mtime <= wrote /\ verb.stat \in File /\ verb.stat.mtime <= wrote
        /\ \A r \in Readers : pass[r].upserts[q] \in File /\ pass[r].upserts[q].mtime <= wrote
    BY <1>0, Types DEF Base, NothingNewer, Pass, Verb
  <2>2. rows[q].mtime # files'[q].mtime
    BY <1>2, <1>4, <2>1
  <2> QED
    BY <1>2, <1>4, <2>1, <2>2 DEF Right, RowRight
<1>5. Held'
  <2> SUFFICES ASSUME NEW r \in Readers, NEW q \in Paths, Older(r, q)'
               PROVE  Holds(r, q)'
    BY DEF Held
  <2>1. RowRight(q)' /\ Right(pass[r].upserts[q], q)'
    BY <1>4 DEF Older, Right
  <2> QED
    BY <2>1 DEF Holds, HoldsListed, HoldsParsed
<1>6. Marked'
  BY <1>4 DEF Marked
<1> QED
  BY <1>4, <1>5, <1>6

\* The passes list their one directory at once.
LEMMA ListsStep ==
    ASSUME Base, ListsAll, Len(mode.dirs) = 1, ~mode.faults, [Next]_vars
    PROVE  ListsAll'
<1>0. TypeOK /\ mode' = mode /\ pass \in [Readers -> Pass]
  BY ModeStays, Types DEF Base
<1>1. CASE UNCHANGED pass
  BY <1>0, <1>1 DEF ListsAll
<1>2. ASSUME NEW r \in Readers, PassStep(r)
      PROVE  ListsAll'
  <2>1. Others(r)
    BY <1>0, <1>2, PassFrame
  <2>2. pass'[r].at = "list" => pass'[r].dirs \in {mode.dirs, <<>>}
    <3>1. CASE Begin(r) \/ ReadForgotten(r) \/ PruneForgotten(r) \/ Commit(r)
      BY <1>0, <3>1, BeginFields, ForgottenFields, CommitFields, IdleType
    <3>2. CASE List(r)
      <4>1. pass[r].at = "list" /\ pass[r].dirs # <<>> /\ pass'[r].dirs = Tail(pass[r].dirs)
        BY <1>0, <3>2, ListFields
      <4> QED
        BY <1>0, <4>1, OneDir DEF ListsAll
    <3>3. CASE ReadLast(r) \/ ReadRows(r)
      BY <1>0, <3>3, ReadLastFields, ReadRowsFields
    <3>4. CASE Parse(r)
      BY <1>0, <3>4, ParseFields DEF Reads
    <3>5. ~ListFails(r) /\ ~ParseFails(r)
      BY DEF ListFails, ParseFails
    <3> QED
      BY <1>2, <3>1, <3>2, <3>3, <3>4, <3>5 DEF PassStep, ReaderStep
  <2> QED
    BY <1>0, <2>1, <2>2 DEF ListsAll, Others
<1>3. UNCHANGED pass \/ \E r \in Readers : PassStep(r)
  BY DEF Next, PassStep, VerbStep, vars, Tick, Register, Rebuild, VerbDies, SyncStat, SyncRead, SyncStore,
         Edit, Delete, VerbWrite, VerbMove
<1> QED
  BY <1>1, <1>2, <1>3

\* What the pass r holds after its step.
LEMMA PassHolds ==
    ASSUME Base, ListsAll, Held, Marked, Len(mode.dirs) = 1, ~mode.faults,
           NEW r \in Readers, PassStep(r)
    PROVE  \A p \in Paths : Older(r, p)' => Holds(r, p)'
<1>0. /\ TypeOK /\ Started /\ files' = files /\ Others(r) /\ pass[r] \in Pass
  BY PassFrame, Types DEF Base
<1>1. \A p \in Paths : files[p] # NoFile => p = Head(mode.dirs)
  BY <1>0, OneDir DEF Base, Place
<1>2. CASE Begin(r) \/ ReadForgotten(r) \/ PruneForgotten(r) \/ Commit(r)
  <2>1. \/ pass'[r].at \in {"idle", "prune"}
        \/ pass'[r].at = "list" /\ pass'[r].dirs = mode.dirs
    BY <1>0, <1>2, BeginFields, ForgottenFields, CommitFields, IdleType
  <2> QED
    BY <1>0, <2>1, OneDir DEF Holds
<1>3. CASE List(r)
  <2>1. PICK q \in Paths :
             /\ q = Head(pass[r].dirs) /\ pass[r].dirs # <<>> /\ pass[r].at = "list"
             /\ pass'[r].at = "list" /\ pass'[r].dirs = Tail(pass[r].dirs)
             /\ pass'[r].listed = [pass[r].listed EXCEPT ![q] = files[q]]
    BY <1>0, <1>3, ListFields
  <2>2. pass[r].dirs = mode.dirs
    BY <2>1 DEF ListsAll
  <2>3. pass'[r].dirs = <<>> /\ pass'[r].listed[q] = files[q] /\ q = Head(mode.dirs)
    BY <1>0, <2>1, <2>2, OneDir DEF Pass
  <2>4. ASSUME NEW p \in Paths, Older(r, p)'
        PROVE  Holds(r, p)'
    <3>1. p = q
      BY <1>0, <1>1, <2>3, <2>4 DEF Older
    <3> QED
      BY <1>0, <2>1, <2>3, <3>1 DEF Holds, HoldsListed
  <2> QED
    BY <2>3, <2>4
<1>4. CASE ReadLast(r)
  <2>1. /\ pass[r].at = "list" /\ pass[r].dirs = <<>> /\ pass'[r].at = "rows" /\ pass'[r].last = lastIndex
        /\ pass'[r].now = pass[r].now /\ pass'[r].listed = pass[r].listed /\ rows' = rows
    BY <1>0, <1>4, ReadLastFields DEF Same, ReadLast
  <2>2. ASSUME NEW p \in Paths, Older(r, p)'
        PROVE  Holds(r, p)'
    <3>1. Older(r, p)
      BY <1>0, <2>1, <2>2 DEF Older
    <3>2. HoldsListed(r, p) /\ (files[p].mtime < lastIndex => RowRight(p))
      BY <2>1, <3>1 DEF Held, Holds, Marked, Older
    <3>3. HoldsListed(r, p)' /\ (RowRight(p) => RowRight(p)')
      BY <1>0, <2>1, <3>2 DEF HoldsListed, RowRight, Right
    <3> QED
      BY <1>0, <2>1, <3>2, <3>3 DEF Holds
  <2> QED
    BY SMTT(40), <2>1, <2>2
<1>5. CASE ReadRows(r)
  <2>1. PICK dirty : dirty = Dirty(pass[r].listed, rows, pass[r].last)
    BY SMTT(40)
  <2>2. /\ pass'[r].now = pass[r].now /\ pass[r].at = "rows" /\ pass'[r].at = "parse"
        /\ pass'[r].dirty = dirty /\ rows' = rows
        /\ pass'[r].listed = [p \in Paths |-> IF p \in dirty THEN pass[r].listed[p] ELSE NoFile]
        /\ pass'[r].upserts = pass[r].upserts
    BY <1>0, <1>5, <2>1, ReadRowsFields DEF ReadRows
  <2>3. pass[r].upserts = Nothing
    BY <1>0, <2>2 DEF Started
  <2>4. ASSUME NEW p \in Paths, Older(r, p)'
        PROVE  Holds(r, p)'
    <3>1. Older(r, p) /\ files[p] # NoFile
      BY <1>0, <2>2, <2>4 DEF Older
    <3>2. HoldsListed(r, p) /\ (files[p].mtime < pass[r].last => RowRight(p))
      BY <2>2, <3>1 DEF Held, Holds
    <3>3. CASE p \in dirty
      BY <1>0, <2>2, <3>2, <3>3 DEF Holds, HoldsParsed, HoldsListed, RowRight, Right
    <3>4. CASE p \notin dirty
      <4>1. RowRight(p)
        <5>1. CASE pass[r].listed[p] = files[p]
          <6>1. Skips(files[p], rows[p], pass[r].last)
            BY <2>1, <3>1, <3>4, <5>1 DEF Dirty
          <6> QED
            BY <3>2, <6>1 DEF Skips
        <5> QED
          BY <3>2, <5>1 DEF HoldsListed
      <4>2. RowRight(p)' /\ pass'[r].upserts[p] = NoFile
        BY <1>0, <2>2, <2>3, <4>1, Types DEF RowRight, Right
      <4> QED
        BY <2>2, <3>4, <4>2 DEF Holds, HoldsParsed, Right
    <3> QED
      BY <3>3, <3>4
  <2> QED
    BY <2>2, <2>4
<1>6. CASE Parse(r)
  <2>1. PICK q \in Paths :
          Reads(r, q, IF files[q] = NoFile THEN NoFile ELSE Parsed(pass[r].listed[q], files[q]))
    BY <1>0, <1>6, ParseFields
  <2>2. /\ q \in pass[r].dirty /\ pass[r].at = "parse" /\ pass'[r].at = "parse"
        /\ pass'[r].now = pass[r].now /\ pass'[r].dirty = pass[r].dirty \ {q}
        /\ pass'[r].listed = [pass[r].listed EXCEPT ![q] = NoFile]
        /\ pass'[r].upserts = [pass[r].upserts EXCEPT ![q] = IF files[q] = NoFile THEN NoFile
                                                             ELSE Parsed(pass[r].listed[q], files[q])]
    BY <2>1 DEF Reads, Same
  <2>3. rows' = rows
    BY <1>6 DEF Parse
  <2>4. ASSUME NEW p \in Paths, Older(r, p)'
        PROVE  Holds(r, p)'
    <3>1. Older(r, p) /\ files[p] # NoFile /\ files[p] \in File
      BY <1>0, <2>2, <2>4, Types DEF Older
    <3>2. HoldsParsed(r, p)
      BY <2>2, <3>1 DEF Held, Holds
    <3>3. CASE p = q
      <4>1. HoldsListed(r, p) /\ pass[r].listed[p] \in File
        BY <1>0, <2>2, <3>2, <3>3 DEF HoldsParsed, Pass
      <4>2. pass'[r].upserts[p] = Parsed(pass[r].listed[p], files[p]) /\ p \notin pass'[r].dirty
        BY <1>0, <2>2, <3>1, <3>3 DEF Pass
      <4>3. /\ Parsed(pass[r].listed[p], files[p]).ver = files[p].ver
            /\ pass[r].listed[p] = files[p] => Parsed(pass[r].listed[p], files[p]) = files[p]
        BY <1>0, <3>1, <4>1, ParsedType
      <4>4. pass'[r].upserts[p] = files[p] \/ (RowRight(p) /\ Right(pass'[r].upserts[p], p))
        BY <4>1, <4>2, <4>3 DEF HoldsListed, Right
      <4>5. HoldsParsed(r, p)'
        BY <1>0, <2>3, <4>2, <4>4 DEF HoldsParsed, RowRight, Right
      <4> QED
        BY <2>2, <4>5 DEF Holds
    <3>4. CASE p # q
      <4>1. /\ pass'[r].listed[p] = pass[r].listed[p] /\ pass'[r].upserts[p] = pass[r].upserts[p]
            /\ p \in pass'[r].dirty <=> p \in pass[r].dirty
        BY <1>0, <2>2, <3>4 DEF Pass
      <4>2. HoldsParsed(r, p)'
        BY <1>0, <2>3, <3>2, <4>1 DEF HoldsParsed, HoldsListed, RowRight, Right
      <4> QED
        BY <2>2, <4>2 DEF Holds
    <3> QED
      BY <3>3, <3>4
  <2> QED
    BY <2>2, <2>4
<1>7. ~ListFails(r) /\ ~ParseFails(r)
  BY DEF ListFails, ParseFails
<1> QED
  BY <1>2, <1>3, <1>4, <1>5, <1>6, <1>7 DEF PassStep, ReaderStep

\* The watermark stays sound: only a pass of its own brings it past the tick of
\* the last write, and that one stores what the file holds.
LEMMA WatermarkStep ==
    ASSUME Base, Watermark, [Next]_vars
    PROVE  Watermark'
<1>0. /\ TypeOK /\ Started /\ Place /\ Present \subseteq Paths /\ wrote \in Nat /\ tick \in Nat /\ wrote <= tick
      /\ lastIndex \in Nat /\ files \in [Paths -> File] /\ verb.stat \in File /\ pass \in [Readers -> Pass]
      /\ \A p \in Paths : Nothing[p] = NoFile /\ files[p].mtime \in Nat
  BY PresentPaths, Types, RecordType DEF Base, Verb
<1>1. mode' = mode
  BY <1>0, ModeStays
<1> SUFFICES ASSUME mode.sameTick, Calm
             PROVE  ListsAll' /\ (~raced' => (Held /\ Marked /\ Stores)')
  BY <1>1 DEF Watermark, Calm
<1>2. /\ ListsAll /\ ~mode.faults /\ Len(mode.dirs) = 1 /\ \A r, s \in mode.readers : r = s
      /\ ~raced => Held /\ Marked /\ Stores
  BY DEF Watermark, Calm
<1>3. ListsAll'
  BY <1>2, ListsStep
<1> SUFFICES ASSUME ~raced'
             PROVE  (Held /\ Marked /\ Stores)'
  BY <1>3
<1>4. CASE UNCHANGED vars \/ Tick \/ Register \/ VerbDies \/ Rebuild
  <2>1. /\ UNCHANGED <<files, pass, raced>> /\ verb' \in {verb, NoVerb}
        /\ UNCHANGED <<rows, lastIndex>> \/ (rows' = Nothing /\ lastIndex' = 0)
    BY <1>4 DEF vars, Tick, Register, VerbDies, Rebuild
  <2>2. \A p \in Paths : RowRight(p) => RowRight(p)'
    BY <1>0, <2>1 DEF RowRight, Right
  <2>3. (Held /\ Marked)'
    BY <1>0, <1>2, <2>1, <2>2, WatermarkKept
  <2>4. Stores'
    BY <1>0, <1>2, <2>1, IdleType DEF Stores, Right
  <2> QED
    BY <2>3, <2>4
<1>5. CASE SyncStat \/ SyncRead
  <2>1. UNCHANGED <<files, rows, pass, lastIndex, raced>>
    BY <1>5 DEF SyncStat, SyncRead
  <2>2. (Held /\ Marked)'
    BY <1>0, <1>2, <2>1, WatermarkKept DEF RowRight, Right
  <2>3. ASSUME SyncStat
        PROVE  Stores'
    BY <1>0, <2>3, SyncStatFields DEF Stores, Right
  <2>4. ASSUME SyncRead
        PROVE  Stores'
    <3>1. ASSUME verb' = NoVerb
          PROVE  Stores'
      BY <1>0, <3>1, IdleType DEF Stores
    <3>2. ASSUME NEW p \in Paths, HasRead(p)
          PROVE  Stores'
      <4>1. Parsed(verb.stat, files[p]).ver = files[p].ver
        BY <1>0, ParsedType
      <4> QED
        BY <2>1, <3>2, <4>1 DEF HasRead, Stores, Right
    <3> QED
      BY <1>0, <2>4, <3>1, <3>2, SyncReadFields
  <2> QED
    BY <1>5, <2>2, <2>3, <2>4
<1>6. CASE SyncStore
  <2>1. UNCHANGED <<files, pass, lastIndex>> /\ raced' = (raced /\ ~WrittenThrough)
    BY <1>6 DEF SyncStore
  <2>2. PICK p \in Paths : Through(p)
    BY <1>0, <1>6, SyncStoreFields
  <2>3. Stores'
    BY <1>0, <1>6, SyncStoreFields DEF Stores
  <2>4. CASE ~raced
    <3>1. \A q \in Paths : files[q] # NoFile => (RowRight(q) => RowRight(q)')
      BY <1>2, <2>1, <2>2, <2>4 DEF Through, Stores, RowRight, Right
    <3> QED
      BY <1>0, <1>2, <2>1, <2>3, <2>4, <3>1, WatermarkKept
  <2>5. CASE WrittenThrough
    <3>1. verb.stat = files[p] /\ files[p] # NoFile /\ \A r \in Readers : pass[r].at = "idle"
      BY <2>2, <2>5 DEF Through, WrittenThrough
    <3>2. rows'[p] = files[p]
      <4>1. verb.stat.mtime = wrote /\ rows[p].mtime <= wrote /\ rows[p].mtime \in Nat
        BY <1>0, <3>1, Types, RecordType DEF Base, Place, NothingNewer
      <4> QED
        BY <1>0, <2>2, <3>1, <4>1 DEF Through
    <3>3. Held'
      BY <2>1, <3>1 DEF Held, Holds
    <3>4. Marked'
      BY <1>0, <2>1, <3>1, <3>2 DEF Marked, Place, RowRight, Right
    <3> QED
      BY <2>3, <3>3, <3>4
  <2> QED
    BY <2>1, <2>4, <2>5
<1>7. ASSUME NEW p \in Present, NEW q \in Present, Delete(p) \/ VerbMove(p, q)
      PROVE  (Held /\ Marked /\ Stores)'
  <2>1. ~VerbMove(p, q)
    BY <1>0, <1>2, OneDir DEF VerbMove
  <2>2. /\ UNCHANGED <<rows, pass, lastIndex, verb, raced>>
        /\ \A s \in Paths : files'[s] # NoFile => files'[s] = files[s]
    BY <1>0, <1>7, <2>1 DEF Delete
  <2>3. \A s \in Paths : files'[s] # NoFile => (RowRight(s) => RowRight(s)')
    BY <2>2 DEF RowRight, Right
  <2>4. Stores'
    <3>1. verb.path \in Paths
      BY <1>0, Types DEF Verb
    <3> QED
      BY <1>2, <2>2, <3>1 DEF Stores, Right
  <2> QED
    BY <1>0, <1>2, <2>2, <2>3, <2>4, WatermarkKept
<1>8. ASSUME NEW p \in Present, Edit(p) \/ VerbWrite(p)
      PROVE  (Held /\ Marked /\ Stores)'
  <2>1. PICK x : Puts(p, x)
    BY <1>0, <1>8, WriteFields
  <2>2. UNCHANGED <<pass, rows, lastIndex>> /\ (UNCHANGED verb \/ verb'.at = "wrote")
    <3>1. UNCHANGED <<pass, rows, lastIndex>> /\ (UNCHANGED verb \/ VerbWrite(p))
      BY <1>8 DEF Edit, VerbWrite
    <3>2. VerbWrite(p) => verb'.at = "wrote"
      BY <1>0, IdleType DEF VerbWrite, Verb
    <3> QED
      BY <3>1, <3>2
  <2>3. /\ \A q \in Paths : files'[q] # NoFile => (q = p /\ files'[q].mtime = tick)
        /\ verb.path \in Paths
    BY <1>0, <1>8, <2>1, Types DEF Puts, CanWrite, Verb
  <2>4. CASE wrote < tick
    <3>1. /\ (Held /\ Marked)'
          /\ \A q \in Paths : files'[q] # NoFile => verb.stat.mtime # files'[q].mtime
      BY <1>0, <1>8, <2>1, <2>2, <2>4, FirstInTick
    <3>2. Stores'
      BY <2>2, <2>3, <3>1 DEF Stores, Right
    <3> QED
      BY <3>1, <3>2
  <2>5. CASE wrote = tick
    <3>1. /\ ~(lastIndex > tick) /\ \A r \in Readers : ~(pass[r].now > tick)
          /\ ~(verb.at = "store" /\ verb.path = p /\ verb.stat.mtime = tick)
      BY <2>1, <2>5 DEF Puts, Races
    <3>2. \A r \in Readers : pass[r].now \in Nat
      BY <1>0 DEF Pass
    <3>3. Held'
      BY <1>0, <2>2, <2>3, <3>1, <3>2 DEF Held, Older
    <3>4. Marked'
      BY <1>0, <2>2, <2>3, <3>1 DEF Marked
    <3>5. Stores'
      BY <2>2, <2>3, <3>1 DEF Stores, Right
    <3> QED
      BY <3>3, <3>4, <3>5
  <2> QED
    BY <1>0, <2>4, <2>5
<1>9. ASSUME NEW r \in Readers, PassStep(r)
      PROVE  (Held /\ Marked /\ Stores)'
  <2>1. UNCHANGED <<files, verb, raced>> /\ Others(r)
    BY <1>0, <1>9, PassFrame
  <2>2. Held /\ Marked /\ \A p \in Paths : Older(r, p)' => Holds(r, p)'
    BY <1>2, <1>9, <2>1, PassHolds
  <2>3. Stores'
    BY <1>2, <2>1 DEF Stores, Right
  <2>4. CASE Commit(r)
    <3>1. pass[r].at = "parse" /\ pass[r].dirty = {} /\ lastIndex' = pass[r].now
      BY <1>0, <2>4, CommitFields
    <3>2. \A s \in Readers : s # r => ~Busy(s)
      BY <1>0, <1>2, <3>1 DEF Started, Busy
    <3>3. Held'
      <4>1. \A s \in Readers : s # r => pass'[s].at \notin {"list", "rows", "parse"}
        BY <2>1, <3>2 DEF Others, Busy
      <4>2. \A s \in Readers, p \in Paths : s # r => Holds(s, p)'
        BY <4>1 DEF Holds
      <4> QED
        BY <2>2, <4>2 DEF Held
    <3>4. Marked'
      <4> SUFFICES ASSUME NEW p \in Paths, files[p] # NoFile, files[p].mtime < pass[r].now
                   PROVE  RowRight(p)'
        BY <2>1, <3>1 DEF Marked
      <4>1. Outcome(r, p) /\ HoldsParsed(r, p)
        BY <1>0, <2>2, <2>4, <3>1, CommitFields DEF Held, Older, Holds
      <4>2. files[p].mtime = wrote /\ rows[p].mtime <= wrote /\ rows[p].mtime \in Nat
        BY <1>0, Types, RecordType DEF Base, Place, NothingNewer
      <4>3. CASE pass[r].upserts[p] = files[p]
        <5>1. rows'[p] = files[p]
          BY <1>0, <4>1, <4>2, <4>3 DEF Outcome
        <5> QED
          BY <2>1, <5>1 DEF RowRight, Right
      <4>4. CASE Right(pass[r].upserts[p], p) /\ RowRight(p)
        BY <2>1, <4>1, <4>4 DEF Outcome, RowRight, Right
      <4> QED
        BY <3>1, <4>1, <4>3, <4>4 DEF HoldsParsed
    <3> QED
      BY <2>3, <3>3, <3>4
  <2>5. CASE ~Commit(r)
    <3>1. /\ rows' = rows \/ rows' = Nothing
          /\ lastIndex' = lastIndex \/ (lastIndex' = 0 /\ rows' = Nothing)
      BY <1>0, <1>9, <2>5, PassFrame DEF PruneForgotten
    <3>2. \A p \in Paths : RowRight(p) => RowRight(p)'
      BY <1>0, <2>1, <3>1 DEF RowRight, Right
    <3>3. Held'
      <4>1. ASSUME NEW s \in Readers, s # r, NEW p \in Paths, Older(s, p)'
            PROVE  Holds(s, p)'
        <5>1. pass'[s] = pass[s] /\ Older(s, p)
          BY <2>1, <4>1 DEF Others, Older
        <5>2. Holds(s, p) /\ (RowRight(p) => RowRight(p)')
          BY <2>2, <3>2, <5>1 DEF Held
        <5> QED
          BY <2>1, <5>1, <5>2 DEF Holds, HoldsListed, HoldsParsed, Right
      <4> QED
        BY <2>2, <4>1 DEF Held
    <3>4. Marked'
      <4>1. ASSUME NEW p \in Paths, rows' = Nothing
            PROVE  RowRight(p)'
        BY <1>0, <4>1 DEF RowRight, Right
      <4> QED
        BY <2>1, <2>2, <3>1, <3>2, <4>1 DEF Marked
    <3> QED
      BY <2>3, <3>3, <3>4
  <2> QED
    BY <2>4, <2>5
<1> QED
  BY <1>4, <1>5, <1>6, <1>7, <1>8, <1>9 DEF Next, VerbStep, PassStep

-----------------------------------------------------------------------------
(* Theorems. *)

LEMMA InitInv ==
    ASSUME Init
    PROVE  IInv
<1>1. mode \in Modes /\ mode.writes \in Nat /\ MaxClock \in Nat \ {0} /\ mode.sameTick \in BOOLEAN
  BY BoundsAssumption DEF Init
<1>2. NoFile \in File /\ Nothing \in [Paths -> File] /\ NoFile.mtime = 0
      /\ \A p \in Paths : Nothing[p] = NoFile
  BY <1>1 DEF NoFile, Nothing, File
<1>3. Idle \in Pass /\ NoVerb \in Verb /\ NoVerb.stat = NoFile /\ NoVerb.at = "idle"
      /\ Idle.at = "idle" /\ Idle.now = 0 /\ Idle.listed = Nothing /\ Idle.upserts = Nothing /\ Idle.dirty = {}
  <2>1. (CHOOSE p \in Paths : TRUE) \in Paths
    BY PathsAssumption
  <2>2. <<>> \in Seq(Paths)
    BY EmptySeq
  <2> QED
    BY <1>1, <1>2, <2>1, <2>2 DEF Idle, NoVerb, Pass, Verb
<1>4. /\ pass \in [Readers -> Pass] /\ \A r \in Readers : pass[r] = Idle
      /\ files = Nothing /\ rows = Nothing /\ verb = NoVerb /\ clock = 1 /\ tick = 1
      /\ wrote = 0 /\ writes = 0 /\ raced = FALSE /\ lastIndex = 0 /\ known = TRUE
  BY <1>3 DEF Init
<1>5. TypeOK
  <2>1. raced \in BOOLEAN /\ known \in BOOLEAN
    BY <1>4, Zenon
  <2> QED
    BY <1>1, <1>2, <1>3, <1>4, <2>1 DEF TypeOK
<1>6. Started /\ Place /\ NothingNewer
  BY <1>2, <1>3, <1>4 DEF Started, Busy, Place, NothingNewer
<1>7. Copies(NoFile)
  BY <1>2, <1>3, <1>4 DEF Copies, Copy
<1>8. Watermark
  BY <1>2, <1>3, <1>4 DEF Watermark, ListsAll, Held, Marked, Stores, Older
<1> QED
  BY <1>5, <1>6, <1>7, <1>8 DEF IInv, Base, OneTickOneFile

\* Every variable of the index and of its passes keeps its type, and the
\* inductive invariant holds of every reachable state.
THEOREM Invariance == Spec => [](TypeOK /\ IInv)
<1>1. Init => IInv
  BY InitInv
<1>2. IInv /\ [Next]_vars => IInv'
  <2> SUFFICES ASSUME IInv, [Next]_vars
               PROVE  IInv'
    OBVIOUS
  <2>1. Base /\ OneTickOneFile /\ Watermark /\ TypeOK /\ Started
    BY DEF IInv, Base
  <2>2. TypeOK' /\ Started' /\ Place' /\ NothingNewer'
    BY <2>1, TypeStep, StartedStep, PlaceStep, NewerStep
  <2>3. OneTickOneFile' /\ Watermark'
    BY <2>1, OneTickStep, WatermarkStep
  <2> QED
    BY <2>2, <2>3 DEF IInv, Base
<1>3. IInv => TypeOK /\ IInv
  BY DEF IInv, Base
<1> QED
  BY <1>1, <1>2, <1>3, PTL DEF Spec

\* Reconcile's skip (mtime and size equal, mtime below the watermark) never
\* passes over a row whose content is not the file's: for any number of passes,
\* verbs and editors if no two writes share a tick; otherwise for one pass at a
\* time over one directory that it can read, unless the last write came in the
\* tick of the one before it after a pass had begun or a write-through had read
\* in that tick, and no verb has written it through since.
THEOREM SkipsAreSound == Spec => [](Calm => SkipSound)
<1>1. IInv => (Calm => SkipSound)
  <2> SUFFICES ASSUME IInv, Calm, ~Missable, NEW p \in Paths, files[p] # NoFile, rows[p] # NoFile,
                      Skips(files[p], rows[p], lastIndex)
               PROVE  rows[p].ver = files[p].ver
    BY DEF SkipSound
  <2>1. CASE mode.sameTick
    BY <2>1 DEF IInv, Missable, Watermark, Marked, RowRight, Right, Skips
  <2>2. CASE ~mode.sameTick
    <3>1. PICK w : Copies(w)
      BY <2>2 DEF IInv, OneTickOneFile
    <3>2. files[p].mtime = wrote /\ rows[p].mtime = wrote
      BY DEF IInv, Base, Place, Skips
    <3>3. files[p] = w /\ rows[p] = w
      BY <3>1, <3>2 DEF Copies, Copy
    <3> QED
      BY <3>3
  <2> QED
    BY <2>1, <2>2
<1> QED
  BY <1>1, Invariance, PTL

\* upsertTicketWithEdgesTx and the checks under the writer lock: a pass that has
\* read an older content or missed the file leaves a right row as it is.
THEOREM RightRowsStay == Spec => RightRowStays
<1>1. ASSUME IInv, [Next]_vars, NEW p \in Paths,
             ~mode.sameTick, verb' = verb, rows[p] # NoFile, rows[p] = files[p], files'[p] = files[p]
      PROVE  rows'[p] = files[p] \/ lastIndex' = 0
  <2>0. TypeOK /\ Base
    BY <1>1 DEF IInv, Base
  <2>1. CASE UNCHANGED vars \/ Tick \/ Register \/ Rebuild \/ VerbDies \/ SyncStat \/ SyncRead
    BY <1>1, <2>1 DEF vars, Tick, Register, Rebuild, VerbDies, SyncStat, SyncRead
  <2>2. CASE \E q \in Present : Edit(q) \/ Delete(q) \/ VerbWrite(q) \/ \E s \in Present : VerbMove(q, s)
    BY <1>1, <2>2 DEF Edit, Delete, VerbWrite, VerbMove
  <2>3. CASE SyncStore
    BY <1>1, <2>0, <2>3, SyncStoreFields
  <2>4. ASSUME NEW r \in Readers, PassStep(r)
        PROVE  rows'[p] = files[p] \/ lastIndex' = 0
    <3>1. CASE ~Commit(r)
      BY <1>1, <2>0, <2>4, <3>1, PassFrame DEF PruneForgotten
    <3>2. CASE Commit(r)
      <4>1. Outcome(r, p)
        BY <2>0, <3>2, CommitFields
      <4>2. PICK w : Copies(w)
        BY <1>1 DEF IInv, OneTickOneFile
      <4>3. PICK u : u = pass[r].upserts[p]
        OBVIOUS
      <4>4. /\ rows[p].mtime = wrote /\ files[p] = w /\ u.mtime <= wrote /\ u.mtime \in Nat /\ wrote \in Nat
            /\ Copy(u, w)
        <5>1. u \in File
          BY <2>0, <4>3, Types DEF Pass
        <5>2. rows[p].mtime = wrote /\ files[p] = w
          BY <1>1, <2>0, <4>2 DEF Base, Place, Copies, Copy
        <5>3. u.mtime <= wrote /\ Copy(u, w)
          BY <2>0, <4>2, <4>3 DEF Base, NothingNewer, Copies
        <5> QED
          BY <2>0, <5>1, <5>2, <5>3, RecordType, Types
      <4>5. CASE rows'[p] = u /\ u # NoFile /\ ~(rows[p].mtime > u.mtime)
        BY <4>4, <4>5 DEF Copy
      <4> QED
        BY <1>1, <4>1, <4>3, <4>5 DEF Outcome
    <3> QED
      BY <3>1, <3>2
  <2> QED
    BY <1>1, <2>1, <2>2, <2>3, <2>4 DEF Next, VerbStep, PassStep
<1>2. IInv /\ [Next]_vars =>
        [\A p \in Paths :
           ~mode.sameTick /\ verb' = verb /\ rows[p] # NoFile /\ rows[p] = files[p] /\ files'[p] = files[p]
             => rows'[p] = files[p] \/ lastIndex' = 0]_vars
  BY <1>1
<1> QED
  BY <1>2, Invariance, PTL DEF Spec, RightRowStays
===============================================================================
