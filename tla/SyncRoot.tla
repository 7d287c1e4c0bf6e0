------------------------------ MODULE SyncRoot ------------------------------
(***************************************************************************)
(* tk sync on several machines that share one remote: fetch, classify HEAD *)
(* against @{u}, fast-forward or merge in place, drive the conflicts, hand *)
(* the rest to a human, resume, commit, push, retry once.                  *)
(*                                                                         *)
(* A member of Clones is one checkout of the git-root.  The sync locks     *)
(* make the runs of one checkout follow each other, so a checkout has at   *)
(* most one run under way; its user edits, deletes, resolves and stages    *)
(* files at any moment, without any lock.  A step of the model is one git  *)
(* command or one check of the work tree: a crash and the user come in     *)
(* between.                                                                *)
(*                                                                         *)
(* A file's text is the set of the edits folded into it, and whether       *)
(* conflict markers are left in it.  git is external: its three-way merge  *)
(* is described by what it does to one file.                               *)
(***************************************************************************)
EXTENDS Integers, FiniteSets

CONSTANTS
    Clones,     \* the checkouts
    Files,      \* the allowlisted paths of the git-root
    Scopes,     \* its scopes
    NoScope,    \* the snapshot scope of tk sync --all
    ScopeOf,    \* the scope of a file
    Kind,       \* the conflictKind of a file
    Commands,   \* the runs that are started: an operation, a snapshot scope
    Moves,      \* what the users and the write verbs do
    MaxEdits,   \* bound on the edits and deletions made in all
    MaxFaults   \* bound on network faults and deaths

\* A ticket is field-merged; a note, like a design or .gitignore, is always
\* resolved by a human; the schema is tk.cue.
Kinds == {"ticket", "note", "schema"}

ASSUME ScopeAssumption == NoScope \notin Scopes /\ ScopeOf \in [Files -> Scopes]
ASSUME KindAssumption == Kind \in [Files -> Kinds]
ASSUME CommandsAssumption ==
    Commands \subseteq [op : {"sync", "refresh", "push"},
                        scope : Scopes \cup {NoScope}]
ASSUME MovesAssumption == Moves \subseteq {"edit", "delete", "write", "repair"}
ASSUME EditAssumption == MaxEdits \in Nat
ASSUME FaultAssumption == MaxFaults \in Nat

-----------------------------------------------------------------------------
(* Texts. *)

\* Markers in the frontmatter fence, markers (or a status_conflict) outside it.
Marks == {"none", "body", "fence"}

Text == [edits : SUBSET Nat, marks : Marks]

Plain(E) == [edits |-> E, marks |-> "none"]

Gone == Plain({})

-----------------------------------------------------------------------------
(* Commits.  Each checkout's own commits are linear, so a commit is         *)
(* identified by how many commits of every checkout it descends from.      *)

Stamp == [Clones -> Nat]

Commits == [at : Stamp, files : [Files -> Text]]

\* IsAncestor: equal revisions count as ancestors.
IsAncestor(a, b) == \A c \in Clones : a.at[c] <= b.at[c]

Later(m, n) == IF m < n THEN n ELSE m

\* The commit checkout c makes on top of a and b.
Child(c, a, b, files) ==
    [at |-> [d \in Clones |-> Later(a.at[d], b.at[d]) + IF d = c THEN 1 ELSE 0],
     files |-> files]

-----------------------------------------------------------------------------
VARIABLES
    log,        \* all commits
    remote,     \* the branch on the remote
    head,       \* HEAD of each checkout
    track,      \* @{u} of each checkout
    tree,       \* its work tree
    index,      \* its index while a merge is in progress
    unmerged,   \* the files with conflict stages in that index
    mergeHead,  \* MERGE_HEAD, as a set of at most one commit
    marker,     \* last-push-error is recorded
    pc,         \* where its run is
    run,        \* the arguments and local variables of that run
    made,       \* the number of edits made so far
    faults,     \* the number of faults so far
    erased      \* history: the files some user has deleted

checkouts == <<head, track, tree, index, unmerged, mergeHead>>

vars == <<log, remote, checkouts, marker, pc, run, made, faults, erased>>

Rest == {"ok", "failed"}

Points == Rest \cup {"fetch", "snapFirst", "snapLast", "ffCheck", "ff",
                     "mergeCheck", "merge", "drive", "resume", "integrity",
                     "push"}

\* op: tk sync, the refresh of a claim, the push of a claim; the snapshot scope;
\* whether a push was refused in this run; the conflicts still to look at; and,
\* as history, the deletions the check before the integrate let pass.
Run == [op : {"sync", "refresh", "push"}, scope : Scopes \cup {NoScope},
        retry : BOOLEAN, todo : SUBSET Files, passed : SUBSET Files]

Idle == [op |-> "sync", scope |-> NoScope, retry |-> FALSE, todo |-> {},
         passed |-> {}]

Root == [at |-> [c \in Clones |-> 0], files |-> [f \in Files |-> Plain({0})]]

Init ==
    /\ log = {Root}
    /\ remote = Root
    /\ head = [c \in Clones |-> Root]
    /\ track = [c \in Clones |-> Root]
    /\ tree = [c \in Clones |-> Root.files]
    /\ index = [c \in Clones |-> Root.files]
    /\ unmerged = [c \in Clones |-> {}]
    /\ mergeHead = [c \in Clones |-> {}]
    /\ marker = [c \in Clones |-> FALSE]
    /\ pc = [c \in Clones |-> "ok"]
    /\ run = [c \in Clones |-> Idle]
    /\ made = 0
    /\ faults = 0
    /\ erased = {}

-----------------------------------------------------------------------------
(* What a run reads. *)

MidMerge(c) == mergeHead[c] # {}

Theirs(c) == CHOOSE m \in mergeHead[c] : TRUE

\* The best common ancestors of two commits, of which git merge-base prints
\* one.
MergeBases(a, b) ==
    LET common == {x \in log : IsAncestor(x, a) /\ IsAncestor(x, b)}
    IN {x \in common : \A y \in common : IsAncestor(x, y) => y = x}

MergeBase(a, b) == CHOOSE x \in MergeBases(a, b) : TRUE

Dirty(c, f) == tree[c][f] # head[c].files[f]

\* syncPreflight: a tk.cue that is missing or holds markers does not evaluate.
Preflight(c) ==
    \A f \in Files : Kind[f] = "schema" =>
        tree[c][f] # Gone /\ tree[c][f].marks = "none"

Goto(c, l) == pc' = [pc EXCEPT ![c] = l]

\* The run ends without success; in the retry of a push that is recorded.
Fail(c) ==
    /\ Goto(c, "failed")
    /\ marker' = [marker EXCEPT ![c] = marker[c] \/ run[c].retry]
    /\ run' = [run EXCEPT ![c] = [Idle EXCEPT !.op = run[c].op]]

Succeed(c) ==
    /\ Goto(c, "ok")
    /\ run' = [run EXCEPT ![c] = [Idle EXCEPT !.op = run[c].op]]

Fault == faults < MaxFaults /\ faults' = faults + 1

-----------------------------------------------------------------------------
(* The start of a run. *)

\* Mutant: a merge in progress is not looked for.
SyncBeginFetches(c) ==
    /\ pc[c] \in Rest /\ Preflight(c)
    /\ \E k \in Commands : k.op = "sync" /\
          run' = [run EXCEPT ![c] = [Idle EXCEPT !.scope = k.scope]]
    /\ Goto(c, "fetch")
    /\ UNCHANGED <<log, remote, checkouts, marker, made, faults, erased>>

\* syncRoot: a merge left in progress is resumed before anything else.
SyncBegin(c) ==
    /\ pc[c] \in Rest /\ Preflight(c)
    /\ \E k \in Commands :
          /\ k.op = "sync"
          /\ run' = [run EXCEPT ![c] = [Idle EXCEPT !.scope = k.scope,
                                                   !.todo = unmerged[c]]]
    /\ Goto(c, IF MidMerge(c) THEN "resume" ELSE "fetch")
    /\ UNCHANGED <<log, remote, checkouts, marker, made, faults, erased>>

\* RefreshRoot refuses a merge in progress.
RefreshBegin(c) ==
    /\ pc[c] \in Rest /\ Preflight(c) /\ ~MidMerge(c)
    /\ \E k \in Commands : k.op = "refresh"
    /\ run' = [run EXCEPT ![c] = [Idle EXCEPT !.op = "refresh"]]
    /\ Goto(c, "fetch")
    /\ UNCHANGED <<log, remote, checkouts, marker, made, faults, erased>>

\* PushRootIfAhead runs no preflight and does not look for a merge in progress.
PushBegin(c) ==
    /\ pc[c] \in Rest
    /\ \E k \in Commands : k.op = "push"
    /\ run' = [run EXCEPT ![c] = [Idle EXCEPT !.op = "push"]]
    /\ Goto(c, "push")
    /\ UNCHANGED <<log, remote, checkouts, marker, made, faults, erased>>

-----------------------------------------------------------------------------
(* fetchAndIntegrate. *)

\* CompareUpstream: based on upstream, strictly behind it, or diverged.  Only a
\* diverged checkout takes its snapshot before it integrates.
CompareUpstream(h, u) ==
    IF IsAncestor(u, h) THEN "snapLast"
    ELSE IF IsAncestor(h, u) THEN "ffCheck" ELSE "snapFirst"

Fetch(c) ==
    /\ pc[c] = "fetch"
    /\ track' = [track EXCEPT ![c] = remote]
    /\ Goto(c, CompareUpstream(head[c], remote))
    /\ UNCHANGED <<log, remote, head, tree, index, unmerged, mergeHead, marker,
                   run, made, faults, erased>>

FetchFails(c) ==
    /\ pc[c] = "fetch" /\ Fault /\ Fail(c)
    /\ UNCHANGED <<log, remote, checkouts, made, erased>>

\* snapshot commits the dirty files of the snapshot scope; a refresh and a
\* retry commit nothing.
SnapshotFiles(c) ==
    {f \in Files : Dirty(c, f) /\ run[c].op = "sync" /\ ~run[c].retry
                               /\ ScopeOf[f] = run[c].scope}

\* One commit of the named paths as the work tree has them.
CommitPaths(c, F, t) ==
    LET x == Child(c, head[c], head[c],
                   [f \in Files |-> IF f \in F THEN t[f] ELSE head[c].files[f]])
    IN IF \A f \in F : t[f] = head[c].files[f]
       THEN UNCHANGED <<head, log>>
       ELSE head' = [head EXCEPT ![c] = x] /\ log' = log \cup {x}

\* What follows an integrate: the integrity step, and after a retry the push.
AfterIntegrate(c) == IF run[c].retry THEN "push" ELSE "integrity"

Snapshot(c) ==
    /\ pc[c] \in {"snapFirst", "snapLast"}
    /\ CommitPaths(c, SnapshotFiles(c), tree[c])
    /\ Goto(c, IF pc[c] = "snapFirst" THEN "mergeCheck" ELSE AfterIntegrate(c))
    /\ UNCHANGED <<remote, track, tree, index, unmerged, mergeHead, marker, run,
                   made, faults, erased>>

\* Mutant: the check before the integrate is missing.
NoDeletionCheck(c) == {}

\* Deleted here and changed upstream: git would write the file back.
DeletionsUpstreamWouldRestore(c) ==
    LET base == MergeBase(head[c], track[c])
    IN {f \in Files : /\ tree[c][f] = Gone /\ Dirty(c, f)
                      /\ track[c].files[f] # Gone
                      /\ track[c].files[f] # base.files[f]
                      /\ track[c].files[f] # head[c].files[f]}

DeletionCheck(c) ==
    /\ pc[c] \in {"ffCheck", "mergeCheck"}
    /\ IF DeletionsUpstreamWouldRestore(c) # {}
       THEN Fail(c)
       ELSE /\ Goto(c, IF pc[c] = "ffCheck" THEN "ff" ELSE "merge")
            /\ run' = [run EXCEPT ![c].passed =
                         {f \in Files : tree[c][f] = Gone /\ Dirty(c, f)}]
            /\ UNCHANGED marker
    /\ UNCHANGED <<log, remote, checkouts, made, faults, erased>>

\* git refuses to replace a dirty file; a missing one it writes back.
Overwrites(c, F) == \E f \in F : Dirty(c, f) /\ tree[c][f] # Gone

FastForward(c) ==
    LET changed == {f \in Files : track[c].files[f] # head[c].files[f]}
    IN /\ pc[c] = "ff" /\ ~MidMerge(c) /\ ~Overwrites(c, changed)
       /\ head' = [head EXCEPT ![c] = track[c]]
       /\ tree' = [tree EXCEPT ![c] = [f \in Files |->
                     IF f \in changed THEN track[c].files[f] ELSE tree[c][f]]]
       /\ Goto(c, "snapLast")
       /\ run' = [run EXCEPT ![c].passed = {}]
       /\ UNCHANGED <<log, remote, track, index, unmerged, mergeHead, marker,
                      made, faults, erased>>

FastForwardRefused(c) ==
    /\ pc[c] = "ff"
    /\ \/ MidMerge(c)
       \/ Overwrites(c, {f \in Files : track[c].files[f] # head[c].files[f]})
    /\ Fail(c)
    /\ UNCHANGED <<log, remote, checkouts, made, faults, erased>>

-----------------------------------------------------------------------------
(* The merge.  b, o and t are a file in the merge base, in HEAD (stage 2)   *)
(* and in the fetched upstream (stage 3).                                  *)

Sides(c, f, theirs) ==
    [b |-> MergeBase(head[c], theirs).files[f], o |-> head[c].files[f],
     t |-> theirs.files[f]]

Contested(s) == s.o # s.t /\ s.o # s.b /\ s.t # s.b

\* isDeleteEditStages: a base, and exactly one side.
DeleteEdit(s) == s.b # Gone /\ (s.o = Gone) # (s.t = Gone)

Survivor(s) == IF s.o = Gone THEN s.t ELSE s.o

\* What git merge leaves of a file, the marks of an unmerged one included.  A
\* work tree file that is missing stays missing where HEAD's side survives.
GitResults(c, f, s) ==
    IF ~Contested(s) THEN {IF s.o = s.b THEN s.t ELSE s.o}
    ELSE IF DeleteEdit(s) THEN {IF s.t = Gone THEN tree[c][f] ELSE s.t}
    ELSE {[edits |-> s.o.edits \cup s.t.edits, marks |-> m] :
            m \in IF Kind[f] = "ticket" THEN Marks ELSE {"none", "body"}}

\* The files a merge writes.
Touched(c) ==
    {f \in Files : LET s == Sides(c, f, track[c]) IN s.t # s.b /\ s.t # s.o}

\* git merge --no-ff: refused as a whole, or started with an index and its
\* unmerged paths.
Merge(c) ==
    LET side == [f \in Files |-> Sides(c, f, track[c])]
        res == [f \in Files |-> IF f \in Touched(c) THEN GitResults(c, f, side[f])
                                ELSE {head[c].files[f]}]
    IN /\ pc[c] = "merge" /\ ~MidMerge(c) /\ ~Overwrites(c, Touched(c))
       /\ \E r \in {g \in [Files -> UNION {res[f] : f \in Files}] :
                      \A f \in Files : g[f] \in res[f]} :
            LET stuck == {f \in Touched(c) : Contested(side[f])
                            /\ (DeleteEdit(side[f]) \/ r[f].marks # "none")}
            IN /\ tree' = [tree EXCEPT ![c] = [f \in Files |->
                             IF f \in Touched(c) THEN r[f] ELSE tree[c][f]]]
               /\ index' = [index EXCEPT ![c] = r]
               /\ unmerged' = [unmerged EXCEPT ![c] = stuck]
               /\ run' = [run EXCEPT ![c].todo = stuck, ![c].passed = {}]
       /\ mergeHead' = [mergeHead EXCEPT ![c] = {track[c]}]
       /\ Goto(c, "drive")
       /\ UNCHANGED <<log, remote, head, track, marker, made, faults, erased>>

MergeRefused(c) ==
    /\ pc[c] = "merge" /\ (MidMerge(c) \/ Overwrites(c, Touched(c))) /\ Fail(c)
    /\ UNCHANGED <<log, remote, checkouts, made, faults, erased>>

-----------------------------------------------------------------------------
(* driveStop and resolveResumeStop: one unmerged file at a time, the        *)
(* human-resolved kinds first.                                             *)

Next1(c, f) ==
    /\ f \in run[c].todo
    /\ Kind[f] = "ticket" => \A g \in run[c].todo : Kind[g] = "ticket"

\* A conflicted tk.cue fail-closes the tickets of its scope.
Blocked(c, f) ==
    \E g \in unmerged[c] : Kind[g] = "schema" /\ ScopeOf[g] = ScopeOf[f]

Staged(c, f, text) ==
    /\ index' = [index EXCEPT ![c][f] = text]
    /\ unmerged' = [unmerged EXCEPT ![c] = @ \ {f}]

\* Reported, and left as it is.
Keep == UNCHANGED <<tree, index, unmerged>>

\* Mutant: the upstream side is taken where both changed the file.
DriveTakesTheirs(c, f) ==
    LET s == Sides(c, f, Theirs(c))
    IN IF DeleteEdit(s) THEN Keep
       ELSE /\ tree' = [tree EXCEPT ![c][f] = s.t]
            /\ Staged(c, f, s.t)

\* Driver.Resolve composes the file from the stage blobs, never from the work
\* tree: merged and staged; or the fence merged, the body in conflict or the
\* status disputed; or, fail-closed and for a delete/edit, nothing.
Drive(c, f) ==
    LET s == Sides(c, f, Theirs(c))
        merged == [edits |-> s.o.edits \cup s.t.edits, marks |-> "none"]
    IN IF DeleteEdit(s) THEN Keep
       ELSE \/ /\ tree' = [tree EXCEPT ![c][f] = merged]
               /\ Staged(c, f, merged)
            \/ /\ tree' = [tree EXCEPT ![c][f] = [merged EXCEPT !.marks = "body"]]
               /\ UNCHANGED <<index, unmerged>>
            \/ Keep

\* Mutant: only the fence is searched for markers.
ActedFenceOnly(c, f) ==
    LET s == Sides(c, f, Theirs(c))
    IN IF DeleteEdit(s) THEN tree[c][f] # Survivor(s)
       ELSE tree[c][f].marks # "fence"

\* A file without markers is taken as resolved; a delete/edit is acted on when
\* the work tree no longer holds the surviving blob.
Acted(c, f) ==
    LET s == Sides(c, f, Theirs(c))
    IN IF DeleteEdit(s) THEN tree[c][f] # Survivor(s)
       ELSE tree[c][f].marks = "none"

\* Mutant: a file the driver has merged is driven again.
RedrivenAlways(c, f) == Kind[f] = "ticket"

\* The body is the human's: only a file whose fence has markers is driven again.
Redriven(c, f) ==
    /\ Kind[f] = "ticket"
    /\ ~DeleteEdit(Sides(c, f, Theirs(c))) => tree[c][f].marks = "fence"

\* The driver gets the file.
Driven(c, f) ==
    /\ Kind[f] = "ticket" /\ ~Blocked(c, f)
    /\ pc[c] = "resume" => ~Acted(c, f) /\ Redriven(c, f)

\* The file is staged as the human left it.
TakenAsResolved(c, f) ==
    /\ pc[c] = "resume" /\ Acted(c, f)
    /\ Kind[f] = "ticket" => ~Blocked(c, f)

Stop(c, f) ==
    /\ Next1(c, f)
    /\ IF Driven(c, f) THEN Drive(c, f)
       ELSE IF TakenAsResolved(c, f) THEN Staged(c, f, tree[c][f]) /\ UNCHANGED tree
       ELSE Keep
    /\ run' = [run EXCEPT ![c].todo = @ \ {f}]

DriveStop(c, f) ==
    /\ pc[c] \in {"drive", "resume"} /\ Stop(c, f)
    /\ UNCHANGED <<log, remote, head, track, mergeHead, marker, pc, made,
                   faults, erased>>

\* The driver wrote the merged file and the process died before git add.
DriveDies(c, f) ==
    /\ pc[c] \in {"drive", "resume"} /\ Next1(c, f) /\ Driven(c, f) /\ Fault
    /\ LET s == Sides(c, f, Theirs(c))
       IN /\ ~DeleteEdit(s)
          /\ tree' = [tree EXCEPT ![c][f] = Plain(s.o.edits \cup s.t.edits)]
    /\ Goto(c, "failed")
    /\ run' = [run EXCEPT ![c] = [Idle EXCEPT !.op = run[c].op]]
    /\ UNCHANGED <<log, remote, head, track, index, unmerged, mergeHead, marker,
                   made, erased>>

\* Something is left for a human.
Paused(c) ==
    /\ pc[c] \in {"drive", "resume"} /\ run[c].todo = {} /\ unmerged[c] # {}
    /\ Fail(c)
    /\ UNCHANGED <<log, remote, checkouts, made, faults, erased>>

\* MergeCommit commits the index, whatever the work tree holds by now.
MergeCommit(c) ==
    LET x == Child(c, head[c], Theirs(c), index[c])
    IN /\ pc[c] \in {"drive", "resume"} /\ run[c].todo = {} /\ unmerged[c] = {}
       /\ head' = [head EXCEPT ![c] = x]
       /\ log' = log \cup {x}
       /\ mergeHead' = [mergeHead EXCEPT ![c] = {}]
       /\ index' = [index EXCEPT ![c] = Root.files]
       /\ Goto(c, IF pc[c] = "resume" THEN "snapLast" ELSE AfterIntegrate(c))
       /\ UNCHANGED <<remote, track, tree, unmerged, marker, run, made,
                      faults, erased>>

MergeCommitFails(c) ==
    /\ pc[c] \in {"drive", "resume"} /\ run[c].todo = {} /\ unmerged[c] = {}
    /\ Fault /\ Fail(c)
    /\ UNCHANGED <<log, remote, checkouts, made, erased>>

-----------------------------------------------------------------------------
(* Integrity and push. *)

AfterIntegrity(c) == IF run[c].op = "refresh" THEN Succeed(c)
                     ELSE Goto(c, "push") /\ UNCHANGED run

\* syncIntegrity over a tree that needs no repair.
Integrity(c) ==
    /\ pc[c] = "integrity" /\ AfterIntegrity(c)
    /\ UNCHANGED <<log, remote, checkouts, marker, made, faults, erased>>

Retext(c, f) == [tree[c][f] EXCEPT !.edits = @ \cup {made + 1}]

\* A repair rewrites a file of the merged tree and commits that path.
IntegrityRepairs(c, f) ==
    /\ "repair" \in Moves /\ made < MaxEdits
    /\ pc[c] = "integrity" /\ tree[c][f] # Gone /\ Kind[f] = "ticket"
    /\ tree' = [tree EXCEPT ![c][f] = Retext(c, f)]
    /\ CommitPaths(c, {f}, [tree[c] EXCEPT ![f] = Retext(c, f)])
    /\ made' = made + 1
    /\ AfterIntegrity(c)
    /\ UNCHANGED <<remote, track, index, unmerged, mergeHead, marker, faults,
                   erased>>

\* UnpushedCount against the tracking ref.
Ahead(c) == ~IsAncestor(head[c], track[c])

NothingToPush(c) ==
    /\ pc[c] = "push" /\ ~run[c].retry /\ ~Ahead(c) /\ Succeed(c)
    /\ UNCHANGED <<log, remote, checkouts, marker, made, faults, erased>>

Pushing(c) == pc[c] = "push" /\ (run[c].retry \/ Ahead(c))

\* Mutant: git push --force.
ForcePush(c) ==
    /\ Pushing(c)
    /\ remote' = head[c]
    /\ track' = [track EXCEPT ![c] = head[c]]
    /\ marker' = [marker EXCEPT ![c] = FALSE]
    /\ Succeed(c)
    /\ UNCHANGED <<log, head, tree, index, unmerged, mergeHead, made, faults,
                   erased>>

Push(c) ==
    /\ Pushing(c) /\ IsAncestor(remote, head[c])
    /\ remote' = head[c]
    /\ track' = [track EXCEPT ![c] = head[c]]
    /\ marker' = [marker EXCEPT ![c] = FALSE]
    /\ Succeed(c)
    /\ UNCHANGED <<log, head, tree, index, unmerged, mergeHead, made, faults,
                   erased>>

\* A first refusal fetches and integrates once more, without a snapshot.
PushError(c) ==
    IF run[c].retry THEN Fail(c)
    ELSE /\ run' = [run EXCEPT ![c].retry = TRUE]
         /\ Goto(c, "fetch")
         /\ UNCHANGED marker

PushRejected(c) ==
    /\ Pushing(c) /\ ~IsAncestor(remote, head[c]) /\ PushError(c)
    /\ UNCHANGED <<log, remote, checkouts, made, faults, erased>>

\* The network fails; the push may have landed all the same.
PushFails(c) ==
    /\ Pushing(c) /\ Fault /\ PushError(c)
    /\ \/ UNCHANGED remote
       \/ IsAncestor(remote, head[c]) /\ remote' = head[c]
    /\ UNCHANGED <<log, checkouts, made, erased>>

\* The process is killed: nothing is recorded, the merge stays as it is.
Die(c) ==
    /\ pc[c] \notin Rest /\ Fault
    /\ Goto(c, "failed")
    /\ run' = [run EXCEPT ![c] = [Idle EXCEPT !.op = run[c].op]]
    /\ UNCHANGED <<log, remote, checkouts, marker, made, erased>>

-----------------------------------------------------------------------------
(* The user of a checkout, and tk's own write verbs. *)

\* One turn of a user or an agent, over some files.
Edit(c, F) ==
    /\ "edit" \in Moves /\ made < MaxEdits
    /\ tree' = [tree EXCEPT ![c] = [f \in Files |->
                  IF f \in F THEN Retext(c, f) ELSE tree[c][f]]]
    /\ made' = made + 1
    /\ UNCHANGED <<log, remote, head, track, index, unmerged, mergeHead, marker,
                   pc, run, faults, erased>>

Delete(c, f) ==
    /\ "delete" \in Moves /\ made < MaxEdits /\ tree[c][f] # Gone
    /\ tree' = [tree EXCEPT ![c][f] = Gone]
    /\ made' = made + 1
    /\ erased' = erased \cup {f}
    /\ UNCHANGED <<log, remote, head, track, index, unmerged, mergeHead, marker,
                   pc, run, faults>>

\* The user removes the markers and keeps what both sides wrote.
Resolve(c, f) ==
    /\ f \in unmerged[c] /\ tree[c][f].marks # "none"
    /\ tree' = [tree EXCEPT ![c][f].marks = "none"]
    /\ UNCHANGED <<log, remote, head, track, index, unmerged, mergeHead, marker,
                   pc, run, made, faults, erased>>

\* git add of a resolved file, or of the survivor of a delete/edit.
GitAdd(c, f) ==
    /\ pc[c] \in Rest /\ f \in unmerged[c] /\ tree[c][f].marks = "none"
    /\ Staged(c, f, tree[c][f])
    /\ UNCHANGED <<log, remote, head, track, tree, mergeHead, marker, pc, run,
                   made, faults, erased>>

\* A write verb rewrites one ticket and commits it, under the same locks; it is
\* refused while a merge is in progress.
WriteVerb(c, f) ==
    /\ "write" \in Moves /\ made < MaxEdits
    /\ pc[c] \in Rest /\ ~MidMerge(c) /\ Kind[f] = "ticket" /\ tree[c][f] # Gone
    /\ tree' = [tree EXCEPT ![c][f] = Retext(c, f)]
    /\ CommitPaths(c, {f}, [tree[c] EXCEPT ![f] = Retext(c, f)])
    /\ made' = made + 1
    /\ UNCHANGED <<remote, track, index, unmerged, mergeHead, marker, pc, run,
                   faults, erased>>

-----------------------------------------------------------------------------
Begin(c) == SyncBegin(c) \/ RefreshBegin(c) \/ PushBegin(c)

\* The steps a run takes when nothing goes wrong around it.
Work(c) ==
    \/ Fetch(c) \/ Snapshot(c) \/ DeletionCheck(c)
    \/ FastForward(c) \/ FastForwardRefused(c) \/ Merge(c) \/ MergeRefused(c)
    \/ \E f \in Files : DriveStop(c, f)
    \/ Paused(c) \/ MergeCommit(c) \/ Integrity(c)
    \/ \E f \in Files : IntegrityRepairs(c, f)
    \/ NothingToPush(c) \/ Push(c) \/ PushRejected(c)

Faults(c) ==
    \/ FetchFails(c) \/ MergeCommitFails(c) \/ PushFails(c) \/ Die(c)
    \/ \E f \in Files : DriveDies(c, f)

User(c) ==
    \/ \E F \in (SUBSET Files) \ {{}} : Edit(c, F)
    \/ \E f \in Files : Delete(c, f) \/ Resolve(c, f) \/ GitAdd(c, f)
                           \/ WriteVerb(c, f)

Next == \E c \in Clones : Begin(c) \/ Work(c) \/ Faults(c) \/ User(c)

Spec == Init /\ [][Next]_vars

-----------------------------------------------------------------------------
(* Properties. *)

\* Every variable has its type, refs name commits that exist, and only a merge
\* in progress has unmerged paths: a run looks at those and at no other.
TypeOK ==
    /\ log \subseteq Commits
    /\ remote \in log
    /\ head \in [Clones -> log]
    /\ track \in [Clones -> log]
    /\ mergeHead \in [Clones -> {{}} \cup {{x} : x \in log}]
    /\ tree \in [Clones -> [Files -> Text]]
    /\ index \in [Clones -> [Files -> Text]]
    /\ unmerged \in [Clones -> SUBSET Files]
    /\ marker \in [Clones -> BOOLEAN]
    /\ pc \in [Clones -> Points]
    /\ run \in [Clones -> Run]
    /\ made \in 0..MaxEdits
    /\ faults \in 0..MaxFaults
    /\ erased \subseteq Files
    /\ \A c \in Clones : run[c].todo \subseteq unmerged[c]
                         /\ (unmerged[c] # {} => MidMerge(c))

\* deletionsUpstreamWouldRestore and the drivers take the one commit that
\* git merge-base prints.  There is never a second candidate: with one remote,
\* fast-forward pushes and a merge before every retry, histories never cross.
OneMergeBase ==
    \A c \in Clones : \A t \in {track[c]} \cup mergeHead[c] :
        Cardinality(MergeBases(head[c], t)) = 1

\* No integrate, resume, repair or snapshot commits a file without the edits a
\* commit below it already had, unless some user deleted that file.
CommittedWorkKept ==
    \A x, y \in log : IsAncestor(x, y) =>
        \A f \in Files \ erased : x.files[f].edits \subseteq y.files[f].edits

\* No commit records conflict markers or a status_conflict, however often a
\* merge is paused, interrupted and resumed.
NoMarkersCommitted ==
    \A x \in log : \A f \in Files : x.files[f].marks = "none"

RunStep(c) == pc'[c] # pc[c] \/ run'[c] # run[c]

\* What a run may replace: a conflict it merges itself from the stage blobs.
Replaceable(c, f) ==
    f \in unmerged[c] /\ (pc[c] = "drive" \/ tree[c][f].marks = "fence")

\* A run never takes an uncommitted edit out of the work tree.
UncommittedWorkKept ==
    [][\A c \in Clones : RunStep(c) =>
         \A f \in Files :
            Dirty(c, f) /\ ~Replaceable(c, f)
               => tree[c][f].edits \subseteq tree'[c][f].edits]_vars

\* An uncommitted deletion made before the integrate looked at the work tree is
\* not undone by it.
DeletionsStand ==
    [][\A c \in Clones : RunStep(c) /\ pc[c] \in {"ff", "merge"} =>
         \A f \in run[c].passed : tree[c][f] = Gone => tree'[c][f] = Gone]_vars

-----------------------------------------------------------------------------
(* Convergence. *)

\* Only a human can go on: a delete/edit nobody decided, or uncommitted work in
\* a file that upstream changed.
Waits(c) ==
    IF MidMerge(c)
    THEN \E f \in unmerged[c] : ~Acted(c, f)
    ELSE \E f \in Files : Dirty(c, f) /\ remote.files[f] # head[c].files[f]

Fairness ==
    \A c \in Clones :
        /\ WF_vars(SyncBegin(c))
        /\ WF_vars(Work(c))
        /\ \A f \in Files : WF_vars(Resolve(c, f))

FairSpec == Spec /\ Fairness

\* When the users stop and every checkout keeps syncing, each checkout arrives at
\* the remote's commit or waits for its human.
Converges ==
    \A c \in Clones : <>[](head[c] = remote \/ Waits(c))

=============================================================================
