----------------------------- MODULE IndexCache -----------------------------
(***************************************************************************)
(* The derived index of one scope (internal/index) and the passes that     *)
(* keep it in agreement with the files (internal/reconcile).  Commands of  *)
(* several processes reconcile at the same time and without a lock: a pass *)
(* lists the files, reads the watermark and the rows, parses what looks    *)
(* changed, and only then takes the writer lock of the database for one    *)
(* transaction.  A write verb, which holds the scope flock, and a user     *)
(* with an editor change the files meanwhile; the verb then writes the     *)
(* rows of its own paths through (SyncPaths).                              *)
(*                                                                         *)
(* A file is its content (a version number, larger for later writes), its  *)
(* size and its mtime; a row is the same, and stands for everything one    *)
(* transaction stores for a path: the ticket or design row, its tags, its  *)
(* edges and its search entry.                                             *)
(*                                                                         *)
(* There are two clocks.  A pass takes its watermark from time.Now(), in   *)
(* nanoseconds; an mtime comes from the clock of the file system, which    *)
(* only catches up with it from tick to tick and is behind in between.     *)
(***************************************************************************)
EXTENDS Integers, Sequences

CONSTANTS
  Paths,      \* one path in each directory: the root, archive/, design/
  Archive,    \* the path in archive/
  Design,     \* the path in design/
  Readers,    \* processes that reconcile
  Modes,      \* [dirs, readers, sameTick, faults, writes, until]: the directories
              \*   in the order of their listing, who reconciles, whether two writes
              \*   may fall into one tick, whether reads may fail, and the bounds on
              \*   writes, faults and the like, and on the clock
  Sizes,      \* file sizes
  MaxClock    \* bound on the clock of every mode

ASSUME PathsAssumption == {Archive, Design} \subseteq Paths
ASSUME BoundsAssumption ==
  /\ MaxClock \in Nat \ {0}
  /\ Modes \subseteq [dirs : Seq(Paths), readers : SUBSET Readers, sameTick : BOOLEAN,
                     faults : BOOLEAN, writes : Nat, until : 1..MaxClock]

VARIABLES
  mode,
  clock, tick,                  \* time.Now(), and the mtime a write gets now
  files,                        \* the file system
  writes, wrote,                \* how many writes, and the mtime of the last
  raced,                        \* history: the last write may be missed (Races)
  rows, lastIndex,              \* the database
  known,                        \* the registry holds the scope
  pass,                         \* pass[r]: where the pass of r is
  verb                          \* the write verb under the flock

vars == <<mode, clock, tick, files, writes, wrote, raced, rows, lastIndex, known, pass, verb>>

NoFile == [ver |-> 0, size |-> 0, mtime |-> 0]
Nothing == [p \in Paths |-> NoFile]
Idle == [at |-> "idle", now |-> 0, dirs |-> <<>>, listed |-> Nothing, last |-> 0,
         dirty |-> {}, gone |-> {}, upserts |-> Nothing]
NoVerb == [at |-> "idle", todo |-> {}, path |-> CHOOSE p \in Paths : TRUE, stat |-> NoFile]

-----------------------------------------------------------------------------
(* The file system.  The paths are the places of one document, which is   *)
(* only ever at one of them; writers that may not share a tick wait for the *)
(* next.                                                                    *)

CanWrite(p) ==
  /\ writes < mode.writes
  /\ mode.sameTick \/ wrote < tick
  /\ \A q \in Paths \ {p} : files[q] = NoFile
Written(size, mtime) == [ver |-> writes + 1, size |-> size, mtime |-> mtime]

(* What SyncPaths says of the skip rule, "can miss same-second same-size    *)
(* rewrites", is so for a second write in one tick when a pass has already  *)
(* begun in the middle of that tick: its watermark is above their mtime.  A *)
(* write-through that has read the first of them would store it after the   *)
(* pass that sees the second.                                               *)
Races(p) ==
  /\ wrote = tick
  /\ \/ lastIndex > tick
     \/ \E r \in Readers : pass[r].now > tick
     \/ verb.at = "store" /\ verb.path = p /\ verb.stat.mtime = tick
Save(p) ==
  /\ CanWrite(p)
  /\ \E size \in Sizes : files' = [files EXCEPT ![p] = Written(size, tick)]
  /\ writes' = writes + 1 /\ wrote' = tick /\ raced' = Races(p)

(* Time goes on, and the clock of the file system waits or catches up. *)
Tick ==
  /\ clock' \in {clock, clock + 1} /\ clock' <= mode.until /\ tick' \in {tick, clock'}
  /\ UNCHANGED <<mode, wrote, raced, files, writes, rows, lastIndex, known, pass, verb>>

(* A user or a git checkout saves, creates or deletes a file.  A file that  *)
(* is put in place with an old mtime (cp -p) and the size of the one before *)
(* is not told apart by the code, and not in the model.                     *)
Edit(p) ==
  /\ Save(p)
  /\ UNCHANGED <<mode, clock, tick, rows, lastIndex, known, pass, verb>>
Delete(p) ==
  /\ writes < mode.writes /\ files[p] # NoFile
  /\ files' = [files EXCEPT ![p] = NoFile] /\ writes' = writes + 1
  /\ UNCHANGED <<mode, clock, tick, wrote, raced, rows, lastIndex, known, pass, verb>>

-----------------------------------------------------------------------------
(* The database: upsertTicketWithEdgesTx and DeleteByPath.                  *)

(* Mutant: the later transaction wins. *)
NeverNewer(row, incoming) == FALSE
StoredNewer(row, incoming) == row.mtime > incoming.mtime
Upserted(row, incoming) == IF StoredNewer(row, incoming) THEN row ELSE incoming

(* tk reindex and a new schema version drop everything that is stored. *)
Rebuild ==
  /\ writes < mode.writes /\ writes' = writes + 1
  /\ rows' = Nothing /\ lastIndex' = 0
  /\ UNCHANGED <<mode, clock, tick, wrote, raced, files, known, pass, verb>>

(* The scope is forgotten or registered again. *)
Register ==
  /\ writes < mode.writes /\ writes' = writes + 1
  /\ known' = ~known
  /\ UNCHANGED <<mode, clock, tick, wrote, raced, files, rows, lastIndex, pass, verb>>

-----------------------------------------------------------------------------
(* A pass of one process.                                                   *)

Step(r, from, to) == pass[r].at = from /\ pass' = [pass EXCEPT ![r] = to]

(* The command has read time.Now() and the registry.  pruneForgotten drops  *)
(* a scope the registry does not hold; there is nothing to reconcile then.  *)
Begin(r) ==
  /\ r \in mode.readers /\ known
  /\ Step(r, "idle", [Idle EXCEPT !.at = "list", !.now = clock, !.dirs = mode.dirs])
  /\ UNCHANGED <<mode, clock, tick, wrote, raced, files, writes, rows, lastIndex, known, verb>>
ReadForgotten(r) ==
  /\ r \in mode.readers /\ ~known
  /\ Step(r, "idle", [Idle EXCEPT !.at = "prune"])
  /\ UNCHANGED <<mode, clock, tick, wrote, raced, files, writes, rows, lastIndex, known, verb>>
PruneForgotten(r) ==
  /\ Step(r, "prune", Idle)
  /\ rows' = Nothing /\ lastIndex' = 0
  /\ UNCHANGED <<mode, clock, tick, wrote, raced, files, writes, known, verb>>

(* statScope, statDesigns: the directories are read one after another.      *)
List(r) ==
  /\ pass[r].dirs # <<>>
  /\ LET p == Head(pass[r].dirs)
     IN Step(r, "list", [pass[r] EXCEPT !.dirs = Tail(@), !.listed[p] = files[p]])
  /\ UNCHANGED <<mode, clock, tick, wrote, raced, files, writes, rows, lastIndex, known, verb>>

(* A directory that cannot be read: without archive/ the pass goes on; when *)
(* it is the root the scope is unreachable, and an error of design/ ends    *)
(* the pass.  Either way the rows and the watermark stay.                   *)
ListFails(r) ==
  /\ mode.faults /\ writes < mode.writes /\ writes' = writes + 1
  /\ pass[r].dirs # <<>>
  /\ Step(r, "list", IF Head(pass[r].dirs) # Archive THEN Idle
                  ELSE [pass[r] EXCEPT !.dirs = Tail(@)])
  /\ UNCHANGED <<mode, clock, tick, wrote, raced, files, rows, lastIndex, known, verb>>

(* LastIndex and ScopeRows are two queries outside a transaction. *)
ReadLast(r) ==
  /\ pass[r].dirs = <<>>
  /\ Step(r, "list", [pass[r] EXCEPT !.at = "rows", !.last = lastIndex])
  /\ UNCHANGED <<mode, clock, tick, wrote, raced, files, writes, rows, lastIndex, known, verb>>

(* Mutant: a file that was written in the tick of the last pass is skipped. *)
SkipsRacy(file, row, last) == file.mtime = row.mtime /\ file.size = row.size
(* Unchanged and older than the watermark: not parsed again. *)
Skips(file, row, last) ==
  file.mtime = row.mtime /\ file.size = row.size /\ file.mtime < last
Dirty(listed, row, last) ==
  {p \in Paths : listed[p] # NoFile /\ (row[p] = NoFile \/ ~Skips(listed[p], row[p], last))}

ReadRows(r) ==
  /\ LET listed == pass[r].listed
         dirty == Dirty(listed, rows, pass[r].last)
     IN Step(r, "rows",
          [pass[r] EXCEPT !.at = "parse", !.last = 0, !.dirty = dirty,
             !.gone = {p \in Paths : rows[p] # NoFile /\ listed[p] = NoFile},
             !.listed = [p \in Paths |-> IF p \in dirty THEN listed[p] ELSE NoFile]])
  /\ UNCHANGED <<mode, clock, tick, wrote, raced, files, writes, rows, lastIndex, known, verb>>

(* parseFile reads the content; mtime and size are those of the listing.  A *)
(* file that cannot be read, or has gone, is left out of this pass.         *)
Parsed(stat, file) == [stat EXCEPT !.ver = file.ver]
Parse(r) ==
  \E p \in pass[r].dirty :
    /\ Step(r, "parse",
         [pass[r] EXCEPT !.dirty = @ \ {p}, !.listed[p] = NoFile,
            !.upserts[p] = IF files[p] = NoFile THEN NoFile ELSE Parsed(pass[r].listed[p], files[p])])
    /\ UNCHANGED <<mode, clock, tick, wrote, raced, files, writes, rows, lastIndex, known, verb>>
ParseFails(r) ==
  \E p \in pass[r].dirty :
    /\ mode.faults /\ writes < mode.writes /\ writes' = writes + 1
    /\ Step(r, "parse", [pass[r] EXCEPT !.dirty = @ \ {p}, !.listed[p] = NoFile])
    /\ UNCHANGED <<mode, clock, tick, wrote, raced, files, rows, lastIndex, known, verb>>

(* applyDesignWrite and applyScopeWrite in one transaction: what is on disk *)
(* after the writer lock is taken decides whether a path may have a row.    *)
Applied(p, gone, upsert) ==
  IF files[p] = NoFile /\ (upsert # NoFile \/ p \in gone) THEN NoFile
  ELSE IF upsert # NoFile THEN Upserted(rows[p], upsert)
  ELSE rows[p]
Commit(r) ==
  /\ pass[r].dirty = {}
  /\ Step(r, "parse", Idle)
  /\ rows' = [p \in Paths |-> Applied(p, pass[r].gone, pass[r].upserts[p])]
  /\ lastIndex' = pass[r].now
  /\ UNCHANGED <<mode, clock, tick, wrote, raced, files, writes, known, verb>>

-----------------------------------------------------------------------------
(* A write verb: it writes a file in place, may rename it across the        *)
(* archive boundary (the mtime stays), and then writes its paths through,   *)
(* one after another: a stat, the content, and a transaction, with no lock  *)
(* that an editor or a pass would wait for.  It may die in between.         *)

VerbWrite(p) ==
  /\ verb.at = "idle" /\ Save(p)
  /\ verb' = [NoVerb EXCEPT !.at = "wrote", !.todo = {p}]
  /\ UNCHANGED <<mode, clock, tick, rows, lastIndex, known, pass>>

VerbMove(p, q) ==
  /\ verb.at = "wrote" /\ verb.todo = {p} /\ p # q /\ Design \notin {p, q}
  /\ files[p] # NoFile /\ files[q] = NoFile
  /\ files' = [files EXCEPT ![q] = files[p], ![p] = NoFile]
  /\ verb' = [verb EXCEPT !.at = "stat", !.todo = {p, q}]
  /\ UNCHANGED <<mode, clock, tick, wrote, raced, writes, rows, lastIndex, known, pass>>

(* SyncPaths: os.Stat; a path that has gone has nothing to be read. *)
SyncStat ==
  /\ verb.at \in {"wrote", "stat"}
  /\ \E p \in verb.todo :
       verb' = [verb EXCEPT !.at = IF files[p] = NoFile THEN "store" ELSE "read",
                            !.todo = @ \ {p}, !.path = p, !.stat = files[p]]
  /\ UNCHANGED <<mode, clock, tick, wrote, raced, files, writes, rows, lastIndex, known, pass>>

(* parseFile: a file that goes after the stat ends SyncPaths with an error. *)
SyncRead ==
  /\ verb.at = "read"
  /\ verb' = IF files[verb.path] = NoFile THEN NoVerb
             ELSE [verb EXCEPT !.at = "store", !.stat = Parsed(@, files[verb.path])]
  /\ UNCHANGED <<mode, clock, tick, wrote, raced, files, writes, rows, lastIndex, known, pass>>

(* Mutant: the write-through skips what looks unchanged. *)
SyncUnlessSame(row, stat) ==
  IF row.mtime = stat.mtime /\ row.size = stat.size THEN row
  ELSE IF stat = NoFile THEN NoFile ELSE Upserted(row, stat)
(* DeleteByPath or UpsertTicketWithEdges, "with no mtime skip": for the     *)
(* sake of what the skip rule may miss.  Once the file has been written     *)
(* through, and no pass is under way that could bring an older content of   *)
(* the same tick back, nothing is missed any more.                          *)
SyncRow(row, stat) == IF stat = NoFile THEN NoFile ELSE Upserted(row, stat)
WrittenThrough ==
  /\ verb.stat # NoFile /\ verb.stat = files[verb.path]
  /\ \A r \in Readers : pass[r].at = "idle"
SyncStore ==
  /\ verb.at = "store"
  /\ rows' = [rows EXCEPT ![verb.path] = SyncRow(@, verb.stat)]
  /\ verb' = IF verb.todo = {} THEN NoVerb ELSE [verb EXCEPT !.at = "stat", !.stat = NoFile]
  /\ raced' = (raced /\ ~WrittenThrough)
  /\ UNCHANGED <<mode, clock, tick, wrote, files, writes, lastIndex, known, pass>>

VerbDies ==
  /\ verb.at # "idle" /\ verb' = NoVerb
  /\ UNCHANGED <<mode, clock, tick, wrote, raced, files, writes, rows, lastIndex, known, pass>>

-----------------------------------------------------------------------------
Init ==
  /\ mode \in Modes /\ clock = 1 /\ tick = 1
  /\ writes = 0 /\ wrote = 0 /\ raced = FALSE
  /\ files = Nothing
  /\ rows = Nothing /\ lastIndex = 0 /\ known = TRUE
  /\ pass = [r \in Readers |-> Idle] /\ verb = NoVerb

ReaderStep(r) ==
  \/ Begin(r) \/ ReadForgotten(r) \/ PruneForgotten(r) \/ List(r) \/ ReadLast(r) \/ ReadRows(r)
  \/ Parse(r) \/ Commit(r)
VerbStep == SyncStat \/ SyncRead \/ SyncStore

Present == {mode.dirs[i] : i \in DOMAIN mode.dirs}
Next ==
  \/ Tick \/ Rebuild \/ Register \/ VerbStep \/ VerbDies
  \/ \E p \in Present : Edit(p) \/ Delete(p) \/ VerbWrite(p) \/ \E q \in Present : VerbMove(p, q)
  \/ \E r \in Readers : ReaderStep(r) \/ ListFails(r) \/ ParseFails(r)

Spec == Init /\ [][Next]_vars

(* A process goes on with its pass or its verb, and commands keep coming.   *)
Fairness == (\A r \in Readers : WF_vars(ReaderStep(r))) /\ WF_vars(VerbStep)
FairSpec == Spec /\ Fairness

-----------------------------------------------------------------------------
(* Types; what a pass is to parse it has listed.                            *)
File == [ver : 0..mode.writes, size : Sizes \cup {0}, mtime : 0..MaxClock]
Pass == [at : {"idle", "prune", "list", "rows", "parse"}, now : 0..MaxClock, dirs : Seq(Paths),
         listed : [Paths -> File], last : 0..MaxClock, dirty : SUBSET Paths,
         gone : SUBSET Paths, upserts : [Paths -> File]]
Verb == [at : {"idle", "wrote", "stat", "read", "store"}, todo : SUBSET Paths, path : Paths, stat : File]
TypeOK ==
  /\ mode \in Modes /\ clock \in 1..MaxClock /\ tick \in 1..clock /\ wrote \in 0..tick
  /\ writes \in 0..mode.writes /\ raced \in BOOLEAN
  /\ files \in [Paths -> File] /\ rows \in [Paths -> File]
  /\ lastIndex \in 0..MaxClock /\ known \in BOOLEAN
  /\ pass \in [Readers -> Pass] /\ verb \in Verb
  /\ \A r \in Readers : \A p \in pass[r].dirty : pass[r].listed[p] # NoFile

(* A row that the next pass would not look at again is right: whatever      *)
(* passes, verbs and editors have done to one another, a row with the       *)
(* file's mtime and size and an mtime below the watermark has its content.  *)
(* Where writes share a tick the code keeps this for one pass at a time     *)
(* over one directory whose files can all be read, and not for a second     *)
(* write in a tick in which a pass has begun or a write-through has read.   *)
Missable == mode.sameTick /\ raced
SkipSound ==
  ~Missable =>
    \A p \in Paths :
      files[p] # NoFile /\ rows[p] # NoFile /\ Skips(files[p], rows[p], lastIndex)
        => rows[p].ver = files[p].ver

(* A right row stays right until its file changes: a slow pass that has     *)
(* parsed an older content never takes it back below what a verb or a       *)
(* faster pass has stored, and one whose listing missed the file never      *)
(* drops its row, as long as no file is written twice in a tick.  (A verb   *)
(* whose stat missed the file does drop it, for the next pass to restore;   *)
(* rebuilding and forgetting drop everything.)                              *)
RightRowStays ==
  [][\A p \in Paths :
       ~mode.sameTick /\ verb' = verb /\ rows[p] # NoFile /\ rows[p] = files[p] /\ files'[p] = files[p]
         => rows'[p] = files[p] \/ lastIndex' = 0]_vars

(* When nobody writes any more, the index comes to hold exactly the files,  *)
(* and keeps to them, unless the last write is one the skip rule may miss:  *)
(* no pass that is still under way brings an old content or a removed path  *)
(* back for good, and a same-size rewrite in the tick of the write before   *)
(* it is seen when no pass has begun in that tick, or when a verb has       *)
(* written it through.                                                      *)
Agrees ==
  /\ known => \A p \in Paths : rows[p].ver = files[p].ver
  /\ ~known => \A p \in Paths : rows[p] = NoFile
IndexConverges == <>[](Missable \/ Agrees)
=============================================================================
