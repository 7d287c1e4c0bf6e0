-------------------------------- MODULE Rehome --------------------------------
(***************************************************************************)
(* Moving a ticket or a design to another scope, and the design verbs that *)
(* change the same files: the flocks of the scopes are taken, everything   *)
(* is planned, the files are written one after the other, the index is     *)
(* brought up to date and every git-root that was touched gets a commit.   *)
(* A design command takes itself back when the index or a commit fails; a  *)
(* ticket is left where it is, and running the command again finishes it.  *)
(*                                                                         *)
(* A document is known by its creation time (and slug), which a copy       *)
(* keeps.  Left out: statuses, order keys, bodies, which locks wait for    *)
(* which (ScopeAdmin), and edits by hand between the plan and the writes.  *)
(***************************************************************************)
EXTENDS Integers, FiniteSets, Sequences, SequencesExt

CONSTANTS
  Procs, NoProc,  \* processes of tk, each of one command; no process
  Scopes,         \* scope names, in their order
  Letters,        \* characters of short ids
  MaxShort,       \* length of the longest short id
  Docs, NoDoc,    \* documents; no document
  MaxVersion,     \* how often a document is changed
  Modes,          \* instances: commands, scopes and files
  MaxDeaths,      \* how often a process is killed
  MaxFails        \* how often a write, the index or a commit fails

ASSUME ScopesAreOrdered == Scopes \subseteq Nat
ASSUME NoneIsNone == NoProc \notin Procs /\ NoDoc \notin Docs
ASSUME VersionsAreCounted == MaxVersion \in Nat \ {0}

VARIABLES
  mode,    \* the instance
  disk,    \* path -> [doc, ver, links], the files that are there
  head,    \* the same for the HEADs of the git-roots
  flock,   \* holder of a scope's flock
  proc,    \* the processes
  deaths, fails

vars == <<mode, disk, head, flock, proc, deaths, fails>>

Shorts == UNION {[1..n -> Letters] : n \in 1..MaxShort}
Kinds == {"ticket", "design"}
Paths == [scope : Scopes, kind : Kinds, short : Shorts]
Id(x) == <<x.scope, x.short>>
Ids == Scopes \X Shorts
File == [doc : Docs, ver : 1..MaxVersion, links : SUBSET Ids]
NoFile == [doc |-> NoDoc, ver |-> 0, links |-> {}]
NoRoot == 0

Fresh == [pc |-> "new", cmd |-> [verb |-> "none"], src |-> << >>, dst |-> << >>, content |-> NoFile, ops |-> << >>,
          prior |-> << >>, was |-> << >>, roots |-> << >>, done |-> << >>, touched |-> {}]

(* The instances: a move is to another scope, and a document that is created  *)
(* is no other's.                                                            *)
WellFormed(c) ==
  /\ c.verb \in {"rehome", "mark", "link", "unlink", "create"} /\ c.scope \in Scopes /\ c.kind \in Kinds
  /\ c.verb # "create" => c.short \in Shorts
  /\ c.verb = "rehome" => c.to \in Scopes \ {c.scope}
  /\ c.verb \in {"link", "unlink"} => c.link \in Ids
  /\ c.verb = "create" => c.doc \in Docs
Sane(m) ==
  /\ m.files \in [DOMAIN m.files -> File] /\ DOMAIN m.files \subseteq Paths /\ IsFiniteSet(DOMAIN m.files)
  /\ m.root \in [Scopes -> Nat] /\ m.broken \subseteq DOMAIN m.files
  /\ \A c \in m.commands : WellFormed(c)
  /\ \A c, d \in m.commands : c.verb = "create" /\ d.verb = "create" /\ c.doc = d.doc => c = d
ASSUME ModesAreSane == \A m \in Modes : Sane(m)

-----------------------------------------------------------------------------
(* Files.                                                                   *)

At(files, x) == IF x \in DOMAIN files THEN files[x] ELSE NoFile
Put(files, x, f) ==
  [y \in IF f = NoFile THEN DOMAIN files \ {x} ELSE DOMAIN files \cup {x} |-> IF y = x THEN f ELSE files[y]]
InScope(s) == {x \in DOMAIN disk : x.scope = s}
TicketsIn(s) == {x \in InScope(s) : x.kind = "ticket"}

(* Short ids: what is taken in a scope, by tickets and by designs, and the   *)
(* first free extension.                                                     *)
OccupiedShortIDs(s) == {x.short : x \in InScope(s)}
ShortInFamily(short, base) == IsPrefix(base, short)
Shorter(a, b) ==
  \/ Len(a) < Len(b)
  \/ Len(a) = Len(b) /\ \E i \in 1..Len(a) : SubSeq(a, 1, i - 1) = SubSeq(b, 1, i - 1) /\ a[i] < b[i]
First(shorts, a) == a \in shorts /\ \A b \in shorts \ {a} : Shorter(a, b)
Extensions(short, taken) == {x \in Shorts \ taken : ShortInFamily(x, short) /\ x # short}
FreeShorts(short, taken) == IF short \in taken THEN Extensions(short, taken) ELSE {short}

-----------------------------------------------------------------------------
(* The plan.                                                                *)

Root(s) == mode.root[s]
Commits(s) == mode.auto[s] /\ Root(s) # NoRoot
Refuses(s) == s \in mode.hard \/ (Commits(s) /\ Root(s) \in mode.paused)
Source(c) == [scope |-> c.scope, kind |-> c.kind, short |-> c.short]
Parsed(x) == x \in DOMAIN disk /\ x \notin mode.broken

(* A copy an interrupted run has left: in the family, the same document.     *)
(* Mutant: only under the source's own short id. *)
LeftoversSameShort(c) ==
  {x \in InScope(c.to) : x.kind = c.kind /\ Parsed(x) /\ x.short = c.short /\ disk[x].doc = disk[Source(c)].doc}
Leftovers(c) ==
  {x \in InScope(c.to) : /\ x.kind = c.kind /\ Parsed(x) /\ ShortInFamily(x.short, c.short)
                         /\ disk[x].doc = disk[Source(c)].doc}
(* The first leftover there is: the shortest design, any of the tickets (they *)
(* are found in the order of their file names).                              *)
NewShorts(c) == FreeShorts(c.short, OccupiedShortIDs(c.to))
Dest(c, y) ==
  /\ y.scope = c.to /\ y.kind = c.kind
  /\ IF Leftovers(c) = {} THEN First(NewShorts(c), y.short)
     ELSE y \in Leftovers(c) /\ (c.kind = "design" => First({x.short : x \in Leftovers(c)}, y.short))

(* Links to the old id in the tickets of both scopes follow; one in a file    *)
(* that cannot be parsed refuses the command.                                *)
Follow(links, old, new) == IF old \in links THEN (links \ {old}) \cup {new} ELSE links
Referring(c) ==
  IF c.kind = "design" THEN {}
  ELSE {x \in (TicketsIn(c.scope) \cup TicketsIn(c.to)) \ {Source(c)} : Id(Source(c)) \in disk[x].links}
RefusedRehome(c) ==
  \/ Refuses(c.scope) \/ Refuses(c.to)
  \/ Root(c.scope) = Root(c.to) /\ Root(c.to) # NoRoot /\ mode.auto[c.scope] # mode.auto[c.to]
  \/ ~Parsed(Source(c))
  \/ Leftovers(c) = {} /\ NewShorts(c) = {}
  \/ Referring(c) \cap mode.broken # {}

(* Mutant: what an interrupted run has left stays as it is. *)
ReconstructLeft(c, y) ==
  IF y \in DOMAIN disk THEN disk[y] ELSE [disk[Source(c)] EXCEPT !.links = Follow(@, Id(Source(c)), Id(y))]
Reconstruct(c, y) ==
  [disk[Source(c)] EXCEPT !.links = IF c.kind = "ticket" THEN Follow(@, Id(Source(c)), Id(y)) ELSE @]

Op(x, f) == [path |-> x, file |-> f]
Followed(c, y, x) == Op(x, [disk[x] EXCEPT !.links = Follow(@, Id(Source(c)), Id(y))])
(* The destination is written, then the links, then the source is removed.   *)
RehomeOps(c, y) ==
  <<Op(y, Reconstruct(c, y))>> \o SetToSeq({Followed(c, y, x) : x \in Referring(c)}) \o <<Op(Source(c), NoFile)>>
RootsOf(s) == IF Commits(s) THEN <<Root(s)>> ELSE << >>
RootsOfBoth(a, b) ==
  LET low == IF a < b THEN a ELSE b
      high == IF a < b THEN b ELSE a IN
  IF RootsOf(low) = RootsOf(high) THEN RootsOf(low) ELSE RootsOf(low) \o RootsOf(high)
Files == [disk |-> disk, head |-> head]
Prior(xs) == [i \in DOMAIN xs |-> Op(xs[i], At(disk, xs[i]))]

Set(p, r) == proc' = [proc EXCEPT ![p] = r]
Locks(p, S) == flock' = [s \in Scopes |-> IF s \in S THEN p ELSE flock[s]]
Unlocks(p) == flock' = [s \in Scopes |-> IF flock[s] = p THEN NoProc ELSE flock[s]]
Free(S) == \A s \in S : flock[s] = NoProc

Rehome(p) ==
  \E c \in mode.commands :
    /\ proc[p].pc = "new" /\ c.verb = "rehome" /\ Free({c.scope, c.to})
    /\ IF RefusedRehome(c)
       THEN Set(p, [Fresh EXCEPT !.cmd = c, !.pc = "failed"]) /\ UNCHANGED flock
       ELSE \E y \in Paths :
              /\ Dest(c, y) /\ Locks(p, {c.scope, c.to})
              /\ Set(p, [Fresh EXCEPT !.cmd = c, !.pc = "apply", !.src = Source(c), !.dst = y,
                           !.content = Reconstruct(c, y), !.ops = RehomeOps(c, y), !.prior = Prior(<<Source(c), y>>),
                           !.was = Files, !.roots = RootsOfBoth(c.scope, c.to)])
    /\ UNCHANGED <<mode, disk, head, deaths, fails>>

(* The verbs of one file: a mark, a link (produces entry or edge) that is     *)
(* added, and then its ticket must be there, or removed.                     *)
Changed(c, f) ==
  CASE c.verb = "mark" -> [f EXCEPT !.ver = @ + 1]
    [] c.verb = "link" -> [f EXCEPT !.links = @ \cup {c.link}]
    [] c.verb = "unlink" -> [f EXCEPT !.links = @ \ {c.link}]
TicketResolves(id) == \E x \in DOMAIN disk : x.kind = "ticket" /\ Id(x) = id
RefusedChange(c) ==
  \/ Refuses(c.scope) \/ ~Parsed(Source(c))
  \/ Changed(c, disk[Source(c)]) = disk[Source(c)] \/ disk[Source(c)].ver = MaxVersion
  \/ c.verb = "link" /\ ~TicketResolves(c.link)
Change(p) ==
  \E c \in mode.commands :
    /\ proc[p].pc = "new" /\ c.verb \in {"mark", "link", "unlink"} /\ Free({c.scope})
    /\ IF RefusedChange(c)
       THEN Set(p, [Fresh EXCEPT !.cmd = c, !.pc = "failed"]) /\ UNCHANGED flock
       ELSE /\ Locks(p, {c.scope})
            /\ Set(p, [Fresh EXCEPT !.cmd = c, !.pc = "apply", !.src = Source(c), !.dst = Source(c),
                         !.ops = <<Op(Source(c), Changed(c, disk[Source(c)]))>>,
                         !.prior = Prior(<<Source(c)>>), !.was = Files, !.roots = RootsOf(c.scope)])
    /\ UNCHANGED <<mode, disk, head, deaths, fails>>

(* A new design under a short id nobody has; it is not committed.            *)
CreateDesign(p) ==
  \E c \in mode.commands, short \in Shorts :
    LET x == [scope |-> c.scope, kind |-> "design", short |-> short] IN
    /\ proc[p].pc = "new" /\ c.verb = "create" /\ Free({c.scope}) /\ ~Refuses(c.scope)
    /\ short \notin OccupiedShortIDs(c.scope) /\ \A y \in DOMAIN disk : disk[y].doc # c.doc
    /\ Locks(p, {c.scope})
    /\ Set(p, [Fresh EXCEPT !.cmd = c, !.pc = "apply", !.src = x, !.dst = x,
                            !.ops = <<Op(x, [doc |-> c.doc, ver |-> 1, links |-> {}])>>])
    /\ UNCHANGED <<mode, disk, head, deaths, fails>>

-----------------------------------------------------------------------------
(* The writes, the index, the commits.                                      *)

End(p, pc) == Set(p, [proc[p] EXCEPT !.pc = pc]) /\ Unlocks(p)
Fail == fails < MaxFails /\ fails' = fails + 1

(* A source is removed only when the destination holds what was planned.       *)
FreeDestination(r) == Head(r.ops).file = NoFile => At(disk, r.dst) = r.content
Apply(p) ==
  LET r == proc[p]
      op == Head(r.ops) IN
  /\ r.pc = "apply"
  /\ \/ /\ FreeDestination(r)
        /\ disk' = Put(disk, op.path, op.file)
        /\ Set(p, [r EXCEPT !.ops = Tail(@), !.touched = @ \cup {op.path},
                            !.pc = IF Len(r.ops) = 1 THEN "index" ELSE @])
        /\ UNCHANGED <<flock, fails>>
     \/ ~FreeDestination(r) /\ End(p, "failed") /\ UNCHANGED <<disk, fails>>
     \/ Fail /\ End(p, "failed") /\ UNCHANGED disk
  /\ UNCHANGED <<mode, head, deaths>>

(* A design command that fails after its writes takes them back.             *)
Undoes(r) == r.cmd.kind = "design" /\ r.cmd.verb # "create"
Fails(p) ==
  /\ Fail
  /\ IF Undoes(proc[p]) THEN Set(p, [proc[p] EXCEPT !.pc = "restore"]) /\ UNCHANGED flock ELSE End(p, "failed")

(* Only a rehome writes through to the index.                                 *)
SyncPaths(p) ==
  /\ proc[p].pc = "index"
  /\ \/ Set(p, [proc[p] EXCEPT !.pc = "commit"]) /\ UNCHANGED <<flock, fails>>
     \/ proc[p].cmd.verb = "rehome" /\ Fails(p)
  /\ UNCHANGED <<mode, disk, head, deaths>>

Committed(root, paths) ==
  LET here == {x \in paths : Root(x.scope) = root} IN
  [x \in (DOMAIN head \ here) \cup (DOMAIN disk \cap here) |-> IF x \in here THEN disk[x] ELSE head[x]]
CommitPaths(p) ==
  LET r == proc[p] IN
  /\ r.pc = "commit"
  /\ \/ r.roots = << >> /\ End(p, "done") /\ UNCHANGED <<head, fails>>
     \/ /\ r.roots # << >>
        /\ head' = Committed(Head(r.roots), r.touched)
        /\ Set(p, [r EXCEPT !.roots = Tail(@), !.done = Append(@, Head(r.roots))])
        /\ UNCHANGED <<flock, fails>>
     \/ r.roots # << >> /\ Fails(p) /\ UNCHANGED head
  /\ UNCHANGED <<mode, disk, deaths>>

(* The old files come back, the source first; the roots that had committed    *)
(* the move commit that.                                                      *)
Restore(p) ==
  LET r == proc[p]
      op == Head(r.prior) IN
  /\ r.pc = "restore"
  /\ \/ /\ disk' = Put(disk, op.path, op.file)
        /\ Set(p, [r EXCEPT !.prior = Tail(@), !.pc = IF Len(r.prior) = 1 THEN "undo" ELSE @])
        /\ UNCHANGED <<flock, fails>>
     \/ Fail /\ End(p, "failed") /\ UNCHANGED disk
  /\ UNCHANGED <<mode, head, deaths>>
(* Mutant: nothing to commit once the files are back. *)
UndoRootsNone(r) == << >>
UndoRoots(r) == r.done
CommitUndo(p) ==
  LET r == proc[p] IN
  /\ r.pc = "undo"
  /\ \/ UndoRoots(r) = << >> /\ End(p, "undone") /\ UNCHANGED <<head, fails>>
     \/ /\ UndoRoots(r) # << >>
        /\ head' = Committed(Head(r.done), r.touched)
        /\ Set(p, [r EXCEPT !.done = Tail(@)])
        /\ UNCHANGED <<flock, fails>>
     \/ UndoRoots(r) # << >> /\ Fail /\ End(p, "failed") /\ UNCHANGED head
  /\ UNCHANGED <<mode, disk, deaths>>

(* The snapshot of a sync commits what is there in a git-root.                *)
Snapshot ==
  \E root \in mode.synced :
    /\ Free({s \in Scopes : Root(s) = root})
    /\ head' = Committed(root, DOMAIN disk \cup DOMAIN head)
    /\ UNCHANGED <<mode, disk, flock, proc, deaths, fails>>

Ended == {"done", "failed", "undone", "dead"}
Die(p) ==
  /\ proc[p].pc \notin Ended \cup {"new"} /\ deaths < MaxDeaths
  /\ deaths' = deaths + 1
  /\ End(p, "dead")
  /\ UNCHANGED <<mode, disk, head, fails>>

-----------------------------------------------------------------------------
Init ==
  /\ mode \in Modes
  /\ disk = mode.files /\ head = [x \in {y \in DOMAIN mode.files : Commits(y.scope)} |-> mode.files[x]]
  /\ flock = [s \in Scopes |-> NoProc]
  /\ proc = [p \in Procs |-> Fresh]
  /\ deaths = 0 /\ fails = 0

Next ==
  \/ \E p \in Procs :
       \/ Rehome(p) \/ Change(p) \/ CreateDesign(p)
       \/ Apply(p) \/ SyncPaths(p) \/ CommitPaths(p) \/ Restore(p) \/ CommitUndo(p) \/ Die(p)
  \/ Snapshot
Spec == Init /\ [][Next]_vars

-----------------------------------------------------------------------------
(* Every step on the files is a step of Custody: whatever fails, dies, is      *)
(* taken back or run again, a file goes away only while another copy of its    *)
(* document has at least its version, no file is replaced by another document, *)
(* and what a file loses is one change that is taken back, or is with another  *)
(* copy.  A move that is run again replaces what the first left by the source, *)
(* also where that was changed since.                                         *)
Holds(d) == {[at |-> x, ver |-> disk[x].ver] : x \in {y \in DOMAIN disk : disk[y].doc = d}}
Kept == INSTANCE Custody WITH Places <- Paths, Versions <- 1..MaxVersion, held <- [d \in Docs |-> Holds(d)]
CopiesKept == Kept!Spec

(* A rehome that succeeds, the first time or after runs that failed or died,   *)
(* is whole: the source is gone, the move has added a copy to its family in    *)
(* the destination only if none was there that could be read (else it has      *)
(* taken one of them), no ticket of the two scopes links to the old id, and    *)
(* the HEADs of committed scopes show the move.                                *)
CopiesOf(r, files) ==
  {x \in DOMAIN files : /\ x.scope = r.cmd.to /\ x.kind = r.cmd.kind /\ ShortInFamily(x.short, r.src.short)
                        /\ files[x].doc = r.content.doc}
Moved(r) ==
  LET before == CopiesOf(r, r.was.disk) IN
  /\ r.src \notin DOMAIN disk' /\ r.dst \in DOMAIN disk'
  /\ CopiesOf(r, disk') = before \cup {r.dst}
  /\ before \subseteq mode.broken \/ r.dst \in before
  /\ r.cmd.kind = "ticket" => \A x \in TicketsIn(r.cmd.scope) \cup TicketsIn(r.cmd.to) : Id(r.src) \notin disk[x].links
  /\ Commits(r.cmd.scope) => r.src \notin DOMAIN head'
  /\ Commits(r.cmd.to) => At(head', r.dst) = disk'[r.dst]
MovedWhole == [][
  \A p \in Procs :
    proc[p].cmd.verb = "rehome" /\ proc[p].pc # "done" /\ proc'[p].pc = "done" => Moved(proc[p])]_vars

(* A design command that fails and could take itself back has not happened:    *)
(* its files are as they were, and so is every HEAD, unless it had to commit   *)
(* the restoration, and then it shows the files.                               *)
FailedUndone == [][
  \A p \in Procs :
    LET r == proc[p] IN
    r.pc # "undone" /\ proc'[p].pc = "undone"
    => \A x \in r.touched : /\ At(disk', x) = At(r.was.disk, x)
                            /\ At(head', x) \in {At(r.was.head, x), At(disk', x)}]_vars
=============================================================================
