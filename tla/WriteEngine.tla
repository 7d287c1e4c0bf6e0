---------------------------- MODULE WriteEngine ----------------------------
(***************************************************************************)
(* The write engine of tk on one machine: one scope in one git-root, and   *)
(* any number of tk commands running at the same time.  A member of Procs  *)
(* is ONE command (one operating-system process, or one request of the tkv *)
(* viewer), from its start to its exit.                                    *)
(*                                                                         *)
(* Every write verb takes the scope flock and re-reads the scope under it; *)
(* a claim additionally reads the configuration BEFORE the lock, talks to  *)
(* the network without it, then locks and re-checks.  The module keeps     *)
(* those windows: a step of the model is a stretch of code between two     *)
(* points where another command, or a crash, can be observed.              *)
(*                                                                         *)
(* A ticket file is abstracted to its status and to the directory that     *)
(* holds it (the scope root or archive/).  The remote is an environment:   *)
(* an integrate may bring one change of one file that is clean here.  The  *)
(* git-root commit lock is not a variable: with one scope it only wraps    *)
(* single steps of this model.                                             *)
(***************************************************************************)
EXTENDS Integers, FiniteSets

CONSTANTS
    Procs,      \* the commands
    NoProc,     \* the owner of a free flock
    Tickets,    \* ticket ids
    Commands,   \* the argument vectors a command may have been started with
    Board,      \* statuses of the tickets at the start and of remote changes
    Repos       \* kinds of git-root considered (a subset of RepoKinds)

\* The nine built-in statuses; the terminal ones are those of category done.
Statuses == {"draft", "triaged", "backlog", "todo", "in-progress", "review",
             "blocked", "done", "cancelled"}

Terminal == {"done", "cancelled"}

Holds == {"off", "soft", "hard"}

\* The part of tk.cue the engine reads.
Config == [hold : Holds, autoCommit : BOOLEAN]

\* No git repository, a repository without an upstream, one with an upstream.
RepoKinds == {"none", "local", "upstream"}

Ops == {"mark", "claim", "next", "create", "hold", "auto", "sync", "repair"}

CommandSet == [op : Ops, ids : SUBSET Tickets, to : Statuses, hold : Holds,
               auto : BOOLEAN]

ASSUME NoProcAssumption == NoProc \notin Procs
ASSUME CommandsAssumption ==
    /\ Commands \subseteq CommandSet
    /\ \A c \in Commands : c.op = "claim" => c.ids # {}
ASSUME BoardAssumption == Board \subseteq Statuses
ASSUME ReposAssumption == Repos \subseteq RepoKinds

-----------------------------------------------------------------------------
(* Ticket files. *)

Absent == "absent"

Locs == {"root", "archive"}

\* The files that carry one ticket id, by directory.
Copies == [Locs -> Statuses \cup {Absent}]

Nowhere == [l \in Locs |-> Absent]

\* TerminalLocation: archive/ holds exactly the terminal tickets.
TerminalLocation(s) == IF s \in Terminal THEN "archive" ELSE "root"

Placed(s) == [l \in Locs |-> IF l = TerminalLocation(s) THEN s ELSE Absent]

\* ResolveRow: exactly one row, neither unknown nor duplicate_id.
Single(c) == (c["root"] = Absent) # (c["archive"] = Absent)

LocOf(c) == IF c["root"] # Absent THEN "root" ELSE "archive"

StatusOf(c) == c[LocOf(c)]

LaidOut(c) == \A l \in Locs : c[l] # Absent => TerminalLocation(c[l]) = l

-----------------------------------------------------------------------------
VARIABLES
    lock,     \* owner of the scope flock
    cfg,      \* tk.cue in the work tree
    tree,     \* ticket files in the work tree
    headCfg,  \* tk.cue in HEAD
    head,     \* ticket files in HEAD
    mid,      \* the git-root is mid-rebase or mid-merge
    repo,     \* the kind of git-root
    pc,       \* where each command is
    cmd,      \* what each command was asked to do
    mem,      \* each command's local variables
    claims,   \* history: successful claims of a ticket since it last left
              \* in-progress
    bare      \* history: an integrate has run without the scope flock

store == <<cfg, tree, headCfg, head, mid, claims, bare>>

vars == <<lock, store, repo, pc, cmd, mem>>

\* "torn": ended between the two halves of moving one file.
Ended == {"ok", "failed", "torn"}

Points == {"start", "claim", "select", "lockRoot", "integrate", "claimLock",
           "write", "move", "commit", "pushSelect", "pushLock", "push",
           "create", "config", "repair", "repairRemove", "repairCommit"}
              \cup Ended

\* autoCommit as the command read it; whether the sync target has participants;
\* members of a mark that were todo; tickets of the command, those still to
\* write, the one being moved; the files as preflightMarks read them; tk.cue
\* before a rewrite.
Mem == [auto : BOOLEAN, parts : BOOLEAN, wasTodo : SUBSET Tickets,
        targets : SUBSET Tickets, left : SUBSET Tickets, cur : SUBSET Tickets,
        seen : [Tickets -> Copies], saved : Config]

Fresh == [auto |-> FALSE, parts |-> FALSE, wasTodo |-> {}, targets |-> {},
          left |-> {}, cur |-> {}, seen |-> [t \in Tickets |-> Nowhere],
          saved |-> [hold |-> "off", autoCommit |-> FALSE]]

Init ==
    /\ lock = NoProc
    /\ cfg \in [hold : {"off"}, autoCommit : BOOLEAN]
    /\ tree \in [Tickets -> {Nowhere} \cup {Placed(s) : s \in Board}]
    /\ headCfg = cfg
    /\ head = tree
    /\ mid = FALSE
    /\ repo \in Repos
    /\ cmd \in [Procs -> Commands]
    /\ pc = [p \in Procs |->
               IF cmd[p].op \in {"claim", "next"} THEN "claim" ELSE "start"]
    /\ mem = [p \in Procs |-> Fresh]
    /\ claims = [t \in Tickets |-> 0]
    /\ bare = FALSE

-----------------------------------------------------------------------------
(* Guards shared by the verbs. *)

\* RefuseHard and RefuseStart: a hard hold refuses every ticket write, either
\* hold refuses entry into in-progress.
HoldAllows(s) ==
    /\ cfg.hold # "hard"
    /\ s = "in-progress" => cfg.hold = "off"

\* CheckMidRebase: only an auto-commit write is refused on a paused git-root.
MidBlocks(auto) == auto /\ repo # "none" /\ mid

Resolvable(ids) == \A t \in ids : Single(tree[t])

\* Variant: the flock is taken shared.
LockShared == TRUE

\* AcquireLock blocks until the scope flock is free.
LockFree == lock = NoProc

At(p, point, ops) == pc[p] = point /\ cmd[p].op \in ops

Goto(p, point) == pc' = [pc EXCEPT ![p] = point]

Remember(p, m) == mem' = [mem EXCEPT ![p] = m]

\* The command exits: deferred unlocks run and its memory goes.
End(p, how) ==
    /\ Goto(p, how)
    /\ Remember(p, Fresh)
    /\ lock' = IF lock = p THEN NoProc ELSE lock

\* A ticket with no in-progress file is claimed by nobody.
ClaimsIn(tr) ==
    [t \in Tickets |->
        IF \E l \in Locs : tr[t][l] = "in-progress" THEN claims[t] ELSE 0]

-----------------------------------------------------------------------------
(* tk mark *)

MarkAllowed(p) ==
    /\ HoldAllows(cmd[p].to)
    /\ ~MidBlocks(cfg.autoCommit)
    /\ cmd[p].ids # {}
    /\ Resolvable(cmd[p].ids)

TodoMembers(ids) == {t \in ids : StatusOf(tree[t]) = "todo"}

\* todo -> in-progress of any member is the claim workflow.
IsClaim(p) ==
    cmd[p].to = "in-progress" /\ TodoMembers(cmd[p].ids) # {}

MarkRefused(p) ==
    /\ At(p, "start", {"mark"})
    /\ LockFree
    /\ ~MarkAllowed(p)
    /\ End(p, "failed")
    /\ UNCHANGED <<store, repo, cmd>>

\* Variant: Mark delegates to claimMarks without releasing its session.
MarkAsClaimLocked(p) ==
    /\ At(p, "start", {"mark"})
    /\ LockFree
    /\ MarkAllowed(p)
    /\ IsClaim(p)
    /\ Remember(p, [mem[p] EXCEPT !.wasTodo = TodoMembers(cmd[p].ids)])
    /\ lock' = p
    /\ Goto(p, "claim")
    /\ UNCHANGED <<store, repo, cmd>>

\* The session is released before claimMarks locks again.
MarkAsClaim(p) ==
    /\ At(p, "start", {"mark"})
    /\ LockFree
    /\ MarkAllowed(p)
    /\ IsClaim(p)
    /\ Remember(p, [mem[p] EXCEPT !.wasTodo = TodoMembers(cmd[p].ids)])
    /\ Goto(p, "claim")
    /\ UNCHANGED <<lock, store, repo, cmd>>

MarkBegin(p) ==
    /\ At(p, "start", {"mark"})
    /\ LockFree
    /\ MarkAllowed(p)
    /\ ~IsClaim(p)
    /\ lock' = p
    /\ Remember(p, [mem[p] EXCEPT !.auto = cfg.autoCommit, !.seen = tree,
                                  !.targets = cmd[p].ids, !.left = cmd[p].ids])
    /\ Goto(p, "write")
    /\ UNCHANGED <<store, repo, cmd>>

-----------------------------------------------------------------------------
(* Claims: tk next --claim, the viewer's claim of one id, and tk mark       *)
(* in-progress of a todo.                                                   *)

Claiming(p) == cmd[p].op \in {"claim", "next"} \/ mem[p].wasTodo # {}

Network(p) == Claiming(p) /\ mem[p].auto /\ repo = "upstream"

\* NoLongerTodoError is raised for these members.
MustBeTodo(p) == IF cmd[p].op = "claim" THEN cmd[p].ids ELSE mem[p].wasTodo

\* The tickets this command reports as claimed.
Taken(p) == IF cmd[p].op = "next" THEN mem[p].targets ELSE MustBeTodo(p)

\* runNetworkClaim up to the refresh, without a lock.
ClaimStart(p) ==
    /\ pc[p] = "claim"
    /\ cfg.hold = "off"
    /\ cfg.autoCommit /\ repo = "upstream" => ~mid
    /\ Remember(p, [mem[p] EXCEPT !.auto = cfg.autoCommit])
    /\ Goto(p, IF cfg.autoCommit /\ repo = "upstream"
                 THEN "select" ELSE "claimLock")
    /\ UNCHANGED <<lock, store, repo, cmd>>

ClaimNotStarted(p) ==
    /\ pc[p] = "claim"
    /\ cfg.hold # "off" \/ (cfg.autoCommit /\ repo = "upstream" /\ mid)
    /\ End(p, "failed")
    /\ UNCHANGED <<store, repo, cmd>>

\* NextCandidates less duplicate ids; the depends gate and the lens may drop
\* any of them.
NextCandidates ==
    {t \in Tickets : Single(tree[t]) /\ tree[t]["root"] = "todo"}

\* Variant: the hold is not read again under the lock.
ClaimAllowedStale(p) == ~MidBlocks(mem[p].auto)

\* The checks runNetworkClaim and claimMarksUnderLock make under the lock.  The
\* hold is read again; autoCommit is the value read before the lock.
ClaimAllowed(p) ==
    /\ cfg.hold = "off"
    /\ ~MidBlocks(mem[p].auto)

\* Variant: claimMarksUnderLock trusts the statuses read before the lock.
StillTodoUnchecked(p) == TRUE

\* No member that was todo before the lock has been taken meanwhile.
StillTodo(p) == \A t \in MustBeTodo(p) : StatusOf(tree[t]) = "todo"

ClaimNamed(p) ==
    /\ At(p, "claimLock", {"mark", "claim"})
    /\ LockFree
    /\ ClaimAllowed(p)
    /\ Resolvable(cmd[p].ids)
    /\ StillTodo(p)
    /\ lock' = p
    /\ Remember(p, [mem[p] EXCEPT !.seen = tree, !.targets = cmd[p].ids,
                                  !.left = cmd[p].ids])
    /\ Goto(p, "write")
    /\ UNCHANGED <<store, repo, cmd>>

ClaimNext(p) ==
    /\ At(p, "claimLock", {"next"})
    /\ LockFree
    /\ ClaimAllowed(p)
    /\ \E t \in NextCandidates :
         Remember(p, [mem[p] EXCEPT !.seen = tree, !.targets = {t},
                                    !.left = {t}])
    /\ lock' = p
    /\ Goto(p, "write")
    /\ UNCHANGED <<store, repo, cmd>>

\* Hold, paused git-root, unknown or duplicate id, no longer todo, empty queue.
ClaimRefused(p) ==
    /\ pc[p] = "claimLock"
    /\ LockFree
    /\ \/ ~ClaimAllowed(p)
       \/ cmd[p].op = "next"
       \/ ~Resolvable(cmd[p].ids)
       \/ ~StillTodo(p)
    /\ End(p, "failed")
    /\ UNCHANGED <<store, repo, cmd>>

-----------------------------------------------------------------------------
(* Writing the prepared files, then the self-commit. *)

NewStatus(p) ==
    IF cmd[p].op \in {"claim", "next"} THEN "in-progress" ELSE cmd[p].to

\* The path relocateAndWrite was given, and the one it ends at: a file moves
\* only when its status crosses the terminal boundary.
OldLoc(p, t) == LocOf(mem[p].seen[t])

NewLoc(p, t) ==
    IF (StatusOf(mem[p].seen[t]) \in Terminal) = (NewStatus(p) \in Terminal)
      THEN OldLoc(p, t)
      ELSE TerminalLocation(NewStatus(p))

\* One file is finished; the last one leads to the commit.
FileDone(p, t) ==
    /\ Remember(p, [mem[p] EXCEPT !.left = @ \ {t}, !.cur = {}])
    /\ Goto(p, IF mem[p].left = {t} THEN "commit" ELSE "write")

\* WriteTicketFile: an atomic replace of the path read in the preflight.  The
\* file is re-created when it has vanished meanwhile.
WriteFile(p, t) ==
    /\ pc[p] = "write"
    /\ t \in mem[p].left
    /\ tree' = [tree EXCEPT ![t][OldLoc(p, t)] = NewStatus(p)]
    /\ claims' = [ClaimsIn(tree') EXCEPT
                    ![t] = IF t \in Taken(p) THEN @ + 1 ELSE @]
    /\ IF NewLoc(p, t) = OldLoc(p, t)
         THEN FileDone(p, t)
         ELSE /\ Remember(p, [mem[p] EXCEPT !.cur = {t}])
              /\ Goto(p, "move")
    /\ UNCHANGED <<lock, cfg, headCfg, head, mid, bare, repo, cmd>>

\* Variant: the file is copied and the old one stays.
MovedByCopy(p, t) ==
    [tree[t] EXCEPT ![NewLoc(p, t)] = tree[t][OldLoc(p, t)]]

\* os.Rename across the terminal boundary; it replaces a file at the new path.
\* A rename of a file that has vanished fails: Die.
Moved(p, t) == [tree[t] EXCEPT ![NewLoc(p, t)] = tree[t][OldLoc(p, t)],
                               ![OldLoc(p, t)] = Absent]

Rename(p, t) ==
    /\ pc[p] = "move"
    /\ t \in mem[p].cur
    /\ tree[t][OldLoc(p, t)] # Absent
    /\ tree' = [tree EXCEPT ![t] = Moved(p, t)]
    /\ claims' = ClaimsIn(tree')
    /\ FileDone(p, t)
    /\ UNCHANGED <<lock, cfg, headCfg, head, mid, bare, repo, cmd>>

\* WrittenPaths of the command: the new path, and the old one after a move.
WrittenPaths(p, t) == {NewLoc(p, t), OldLoc(p, t)}

Committed(p) ==
    [t \in Tickets |-> [l \in Locs |->
        IF t \in mem[p].targets /\ l \in WrittenPaths(p, t)
          THEN tree[t][l] ELSE head[t][l]]]

SelfCommits(p) == mem[p].auto /\ repo # "none"

\* completePaths, or the commit of a network claim, and the unlock.
Commit(p) ==
    /\ pc[p] = "commit"
    /\ SelfCommits(p) => ~mid
    /\ head' = IF SelfCommits(p) THEN Committed(p) ELSE head
    /\ IF Network(p)
         THEN /\ Goto(p, "pushSelect")
              /\ lock' = NoProc
              /\ Remember(p, [mem[p] EXCEPT !.seen = Fresh.seen, !.targets = {}])
         ELSE End(p, "ok")
    /\ UNCHANGED <<cfg, tree, headCfg, mid, claims, bare, repo, cmd>>

\* git refuses a commit of named paths during a merge: the files stay written.
CommitRefused(p) ==
    /\ pc[p] = "commit"
    /\ SelfCommits(p) /\ mid
    /\ End(p, "failed")
    /\ UNCHANGED <<store, repo, cmd>>

-----------------------------------------------------------------------------
(* tk create: never self-commits. *)

CreateAllowed(p) == HoldAllows(cmd[p].to) /\ ~MidBlocks(cfg.autoCommit)

\* mintUnusedID draws an id no file of the scope occupies.
CreateBegin(p) ==
    /\ At(p, "start", {"create"})
    /\ LockFree
    /\ CreateAllowed(p)
    /\ \E t \in Tickets :
         /\ tree[t] = Nowhere
         /\ Remember(p, [mem[p] EXCEPT !.targets = {t}])
    /\ lock' = p
    /\ Goto(p, "create")
    /\ UNCHANGED <<store, repo, cmd>>

\* Tickets is a bound on the id space: a full one refuses here.
CreateRefused(p) ==
    /\ At(p, "start", {"create"})
    /\ LockFree
    /\ ~CreateAllowed(p) \/ \A t \in Tickets : tree[t] # Nowhere
    /\ End(p, "failed")
    /\ UNCHANGED <<store, repo, cmd>>

CreateFile(p, t) ==
    /\ pc[p] = "create"
    /\ t \in mem[p].targets
    /\ tree' = [tree EXCEPT ![t][TerminalLocation(cmd[p].to)] = cmd[p].to]
    /\ claims' = ClaimsIn(tree')
    /\ End(p, "ok")
    /\ UNCHANGED <<cfg, headCfg, head, mid, bare, repo, cmd>>

-----------------------------------------------------------------------------
(* tk scope hold and tk scope auto-commit *)

Wanted(p, c) == IF cmd[p].op = "hold" THEN [c EXCEPT !.hold = cmd[p].hold]
                                      ELSE [c EXCEPT !.autoCommit = cmd[p].auto]

\* A hold set is refused like any auto-commit write; an auto-commit set also on
\* a repo-driven root, so that it cannot become tk-driven onto a paused merge.
ConfigBlocked(p) ==
    MidBlocks(IF cmd[p].op = "hold" THEN cfg.autoCommit ELSE TRUE)

ConfigUnchanged(p) ==
    /\ At(p, "start", {"hold", "auto"})
    /\ LockFree
    /\ \/ Wanted(p, cfg) = cfg /\ End(p, "ok")
       \/ Wanted(p, cfg) # cfg /\ ConfigBlocked(p) /\ End(p, "failed")
    /\ UNCHANGED <<store, repo, cmd>>

\* Variant: a failed set restores tk.cue from HEAD.
PrevBytesCommitted == headCfg

\* What a failed set writes back: tk.cue as read under the lock.
PrevBytes == cfg

ConfigRewrite(p) ==
    /\ At(p, "start", {"hold", "auto"})
    /\ LockFree
    /\ Wanted(p, cfg) # cfg
    /\ ~ConfigBlocked(p)
    /\ lock' = p
    /\ Remember(p, [mem[p] EXCEPT !.saved = PrevBytes, !.auto = cfg.autoCommit])
    /\ cfg' = Wanted(p, cfg)
    /\ Goto(p, "config")
    /\ UNCHANGED <<tree, headCfg, head, mid, claims, bare, repo, cmd>>

ConfigCommits(p) == repo # "none" /\ (cmd[p].op = "auto" \/ mem[p].auto)

\* A false flip takes every dirty ticket file along.
ConfigDone(p) ==
    /\ pc[p] = "config"
    /\ ConfigCommits(p) => ~mid
    /\ headCfg' = IF ConfigCommits(p) THEN cfg ELSE headCfg
    /\ head' = IF ConfigCommits(p) /\ cmd[p].op = "auto" /\ ~cmd[p].auto
                 THEN tree ELSE head
    /\ End(p, "ok")
    /\ UNCHANGED <<cfg, tree, mid, claims, bare, repo, cmd>>

\* The confirm or the commit failed: the bytes read before are written back.
ConfigRestore(p) ==
    /\ pc[p] = "config"
    /\ cfg' = mem[p].saved
    /\ End(p, "failed")
    /\ UNCHANGED <<tree, headCfg, head, mid, claims, bare, repo, cmd>>

-----------------------------------------------------------------------------
(* tk sync, and the refresh and push of a network claim. *)

Image == [tree |-> tree, head |-> head, cfg |-> cfg, headCfg |-> headCfg]

\* fetchAndIntegrate: upstream brings nothing, one ticket whose file is clean
\* here, or a hold; git refuses to overwrite a dirty file.  Peers are assumed
\* to have committed one well-placed file per id.
WithTicket(w, t, s) == [w EXCEPT !.tree[t] = Placed(s), !.head[t] = Placed(s)]

WithHold(w, h) == [w EXCEPT !.cfg.hold = h, !.headCfg.hold = h]

Clean(w) == {t \in Tickets : w.tree[t] = w.head[t]}

Arrivals(w) ==
    {w} \cup {WithTicket(w, t, s) : t \in Clean(w), s \in Board}
        \cup {WithHold(w, h) : h \in IF w.cfg = w.headCfg THEN Holds ELSE {}}

\* snapshot: every allowlisted dirty path of the scope in one commit.
Snapshot(w) == [w EXCEPT !.head = w.tree, !.headCfg = w.cfg]

\* What a refresh and a sync may leave behind before syncIntegrity.  A strictly
\* behind checkout is fast-forwarded and then snapshot; a diverged one is
\* snapshot and then merged.
Synced == {Snapshot(v) : v \in Arrivals(Image)} \cup Arrivals(Snapshot(Image))

Becomes(w) ==
    /\ tree' = w.tree
    /\ head' = w.head
    /\ cfg' = w.cfg
    /\ headCfg' = w.headCfg
    /\ claims' = ClaimsIn(w.tree)

IsSync(p) == cmd[p].op = "sync"

\* ambientSelection
SyncStart(p) ==
    /\ At(p, "start", {"sync"})
    /\ cfg.autoCommit /\ repo # "none"
    /\ Goto(p, "select")
    /\ UNCHANGED <<lock, store, repo, cmd, mem>>

SyncNotStarted(p) ==
    /\ At(p, "start", {"sync"})
    /\ ~cfg.autoCommit \/ repo = "none"
    /\ End(p, IF cfg.autoCommit THEN "ok" ELSE "failed")
    /\ UNCHANGED <<store, repo, cmd>>

\* autoCommitParticipants reads tk.cue again, still without the lock.
RootTarget(p) ==
    /\ pc[p] \in {"select", "pushSelect"}
    /\ Remember(p, [mem[p] EXCEPT !.parts = cfg.autoCommit])
    /\ Goto(p, IF pc[p] = "select" THEN "lockRoot" ELSE "pushLock")
    /\ UNCHANGED <<lock, store, repo, cmd>>

\* acquireSyncLocks takes the flock of each participant, so of none without one.
AcquireSyncLocks(p) ==
    /\ pc[p] \in {"lockRoot", "pushLock"}
    /\ mem[p].parts => LockFree
    /\ lock' = IF mem[p].parts THEN p ELSE lock
    /\ Goto(p, IF pc[p] = "lockRoot" THEN "integrate" ELSE "push")
    /\ UNCHANGED <<store, repo, cmd, mem>>

\* syncIntegrity runs on the participants, so not at all without one.
AfterIntegrate(p) ==
    /\ Goto(p, IF mem[p].parts THEN "repair" ELSE "claimLock")
    /\ UNCHANGED <<lock, mem>>

\* RefreshRoot, or syncRoot without a paused integrate.
Integrate(p) ==
    /\ pc[p] = "integrate"
    /\ ~mid /\ repo = "upstream"
    /\ mem[p].parts \/ ~IsSync(p)
    /\ \E w \in IF IsSync(p) THEN Synced ELSE Arrivals(Image) : Becomes(w)
    /\ bare' = (bare \/ ~mem[p].parts)
    /\ AfterIntegrate(p)
    /\ UNCHANGED <<mid, repo, cmd>>

\* resumeMerge or resumeRebase after the human's resolution, then the snapshot.
ResumeIntegrate(p) ==
    /\ pc[p] = "integrate"
    /\ IsSync(p) /\ mid /\ mem[p].parts
    /\ \E w \in Synced : Becomes(w)
    /\ mid' = FALSE
    /\ AfterIntegrate(p)
    /\ UNCHANGED <<bare, repo, cmd>>

\* A conflict is handed to a human: MERGE_HEAD stays.  The conflicted file is
\* taken to be one outside Tickets.
IntegratePauses(p) ==
    /\ pc[p] = "integrate"
    /\ ~mid /\ repo = "upstream"
    /\ \/ IsSync(p) /\ mem[p].parts /\ Becomes(Snapshot(Image))
       \/ ~IsSync(p) /\ Becomes(Image)
    /\ mid' = TRUE
    /\ bare' = (bare \/ ~mem[p].parts)
    /\ End(p, "failed")
    /\ UNCHANGED <<repo, cmd>>

\* Offline, no upstream, still paused; a merge refused after the snapshot; a
\* sync without its participant, which fails at the snapshot, after a
\* fast-forward or a resumed merge.
IntegrateFails(p) ==
    /\ pc[p] = "integrate"
    /\ \/ Becomes(Image) /\ UNCHANGED <<mid, bare>>
       \/ /\ IsSync(p) /\ mem[p].parts /\ ~mid /\ repo = "upstream"
          /\ Becomes(Snapshot(Image))
          /\ UNCHANGED <<mid, bare>>
       \/ /\ IsSync(p) /\ ~mem[p].parts
          /\ mid \/ repo = "upstream"
          /\ \E w \in Arrivals(Image) : Becomes(w)
          /\ mid' = FALSE
          /\ bare' = TRUE
    /\ End(p, "failed")
    /\ UNCHANGED <<repo, cmd>>

\* pushIfAhead: nothing to push, pushed, or rejected and re-integrated once
\* without snapshot and integrity; the claim itself stands either way.
Push(p) ==
    /\ pc[p] = "push"
    /\ \/ Becomes(Image) /\ UNCHANGED <<mid, bare>>
       \/ /\ ~mid /\ repo = "upstream"
          /\ \E w \in Arrivals(Image) : Becomes(w)
          /\ mid' \in BOOLEAN
          /\ mid' => tree' = tree /\ cfg' = cfg
          /\ bare' = (bare \/ ~mem[p].parts)
    /\ \E how \in {"ok", "failed"} : End(p, how)
    /\ UNCHANGED <<repo, cmd>>

-----------------------------------------------------------------------------
(* Archive-layout repair: tk repair, and syncIntegrity of a sync or refresh. *)

\* repairPreflight; no hold refuses a repair.
RepairBegin(p) ==
    /\ At(p, "start", {"repair"})
    /\ LockFree
    /\ ~MidBlocks(cfg.autoCommit)
    /\ lock' = p
    /\ Goto(p, "repair")
    /\ UNCHANGED <<store, repo, cmd, mem>>

RepairRefused(p) ==
    /\ At(p, "start", {"repair"})
    /\ LockFree
    /\ MidBlocks(cfg.autoCommit)
    /\ End(p, "failed")
    /\ UNCHANGED <<store, repo, cmd>>

Twins(c) == \A l \in Locs : c[l] # Absent

\* InterruptedMove: two identical files, one in each directory.
InterruptedMove(c) == Twins(c) /\ c["root"] = c["archive"]

\* Variant: every duplicate id is deferred as a collision.
GenuineCollisionAny(c) == Twins(c)

\* genuineCollisionIDs: repairArchive leaves these alone.
GenuineCollision(c) == Twins(c) /\ ~InterruptedMove(c)

\* The files repairArchive moves: their directory does not fit their status.
Drifted(c) ==
    {l \in Locs : /\ c[l] # Absent
                  /\ TerminalLocation(c[l]) # l
                  /\ ~GenuineCollision(c)}

\* The file ArchiveMove read, alone.
Only(l, s) == [k \in Locs |-> IF k = l THEN s ELSE Absent]

\* rewrite.Apply, first half: the file is written at its new path.
RepairWrite(p, t) ==
    /\ pc[p] = "repair"
    /\ \E l \in Drifted(tree[t]) :
         /\ tree' = [tree EXCEPT ![t][TerminalLocation(tree[t][l])] = tree[t][l]]
         /\ Remember(p, [mem[p] EXCEPT !.cur = {t},
                                       !.seen[t] = Only(l, tree[t][l])])
    /\ claims' = ClaimsIn(tree')
    /\ Goto(p, "repairRemove")
    /\ UNCHANGED <<lock, cfg, headCfg, head, mid, bare, repo, cmd>>

\* The second half: the file at the old path is removed.
RepairRemove(p, t) ==
    /\ pc[p] = "repairRemove"
    /\ t \in mem[p].cur
    /\ tree' = [tree EXCEPT ![t][OldLoc(p, t)] = Absent]
    /\ claims' = ClaimsIn(tree')
    /\ Goto(p, "repairCommit")
    /\ UNCHANGED <<lock, cfg, headCfg, head, mid, bare, repo, cmd, mem>>

\* finishRepairBatch: both paths are committed on an auto-commit root.  A commit
\* that git refuses fails: Die.
RepairCommit(p, t) ==
    /\ pc[p] = "repairCommit"
    /\ t \in mem[p].cur
    /\ IF cfg.autoCommit /\ repo # "none"
         THEN ~mid /\ head' = [head EXCEPT ![t] = tree[t]]
         ELSE UNCHANGED head
    /\ Remember(p, [mem[p] EXCEPT !.cur = {}, !.seen = Fresh.seen])
    /\ Goto(p, "repair")
    /\ UNCHANGED <<lock, cfg, tree, headCfg, mid, claims, bare, repo, cmd>>

\* Where a finished repair leads: a sync keeps its locks and pushes, a claim
\* unlocks and locks again to write.
RepairDone(p) ==
    /\ pc[p] = "repair"
    /\ \A t \in Tickets : Drifted(tree[t]) = {}
    /\ \/ IsSync(p) /\ Goto(p, "push") /\ UNCHANGED <<lock, mem>>
       \/ cmd[p].op = "repair" /\ End(p, "ok")
       \/ /\ Claiming(p)
          /\ Goto(p, "claimLock")
          /\ lock' = NoProc
          /\ UNCHANGED mem
    /\ UNCHANGED <<store, repo, cmd>>

-----------------------------------------------------------------------------
\* A kill, an I/O error or a failed git command: the flock goes with the process,
\* the files stay.
Die(p) ==
    /\ pc[p] \notin Ended \cup {"start"}
    /\ End(p, IF pc[p] \in {"move", "repairRemove"} THEN "torn" ELSE "failed")
    /\ UNCHANGED <<store, repo, cmd>>

\* One step of a command that is left to run.
Step(p) ==
    \/ MarkRefused(p) \/ MarkAsClaim(p) \/ MarkBegin(p)
    \/ ClaimStart(p) \/ ClaimNotStarted(p)
    \/ ClaimNamed(p) \/ ClaimNext(p) \/ ClaimRefused(p)
    \/ \E t \in Tickets : WriteFile(p, t) \/ Rename(p, t)
    \/ Commit(p) \/ CommitRefused(p)
    \/ CreateBegin(p) \/ CreateRefused(p)
    \/ \E t \in Tickets : CreateFile(p, t)
    \/ ConfigUnchanged(p) \/ ConfigRewrite(p)
    \/ ConfigDone(p) \/ ConfigRestore(p)
    \/ SyncStart(p) \/ SyncNotStarted(p)
    \/ RootTarget(p) \/ AcquireSyncLocks(p)
    \/ Integrate(p) \/ ResumeIntegrate(p)
    \/ IntegratePauses(p) \/ IntegrateFails(p)
    \/ Push(p)
    \/ RepairBegin(p) \/ RepairRefused(p)
    \/ \E t \in Tickets : RepairWrite(p, t) \/ RepairRemove(p, t) \/ RepairCommit(p, t)
    \/ RepairDone(p)

Next == \E p \in Procs : Step(p) \/ Die(p)

Spec == Init /\ [][Next]_vars

\* The operating system keeps running a command that can run; flock(2) blocks
\* only while another command owns the lock.
FairSpec == Spec /\ \A p \in Procs : WF_vars(Step(p))

-----------------------------------------------------------------------------
(* Properties. *)

\* Every variable has its type: what one scope, its HEAD and the commands'
\* local variables can hold.
TypeOK ==
    /\ lock \in Procs \cup {NoProc}
    /\ cfg \in Config
    /\ tree \in [Tickets -> Copies]
    /\ headCfg \in Config
    /\ head \in [Tickets -> Copies]
    /\ mid \in BOOLEAN
    /\ repo \in RepoKinds
    /\ pc \in [Procs -> Points]
    /\ cmd \in [Procs -> Commands]
    /\ mem \in [Procs -> Mem]
    /\ claims \in [Tickets -> Nat]
    /\ bare \in BOOLEAN

Critical == {"write", "move", "commit", "create", "config", "repair",
             "repairRemove", "repairCommit"}

\* Flock discipline: a command that writes, commits or rewrites tk.cue owns the
\* scope flock, so does exactly an integrate with a participant, and no flock is left
\* with a command that has moved on (session.go, claim.go, root.go).
FlockHeld ==
    \A p \in Procs :
       /\ pc[p] \in Critical => lock = p
       /\ pc[p] \in {"integrate", "push"} /\ mem[p].parts => lock = p
       /\ pc[p] = "integrate" /\ lock = p => mem[p].parts
       /\ lock = p => pc[p] \in Critical \cup {"integrate", "push"}

\* Two commands never both claim the same todo: between two claims of a ticket
\* it has left in-progress (claim.go: the pre-lock todo is checked again under
\* the lock, NoLongerTodoError).
ClaimExclusive == \A t \in Tickets : claims[t] <= 1

\* Two files of one id in the work tree are always the identical halves of a
\* layout repair that is under way or was torn, never two versions of a ticket
\* that repair would fork into two ids (mark.go, relocateAndWrite: "crash never
\* leaves two same-id files"; repair.go, InterruptedMove), as long as no
\* integrate has run without the flock.
NoTwins ==
    ~bare => \A t \in Tickets :
       Twins(tree[t]) =>
          /\ InterruptedMove(tree[t])
          /\ \E p \in Procs : pc[p] \in {"repairRemove", "torn"}

\* A repair that has run to its end leaves every ticket with one file, in the
\* directory of its status, whatever was torn before it.
RepairHeals ==
    [][(~bare /\ \E p \in Procs :
            pc[p] = "repair" /\ pc'[p] \in {"ok", "push", "claimLock"})
          => \A t \in Tickets : \/ tree'[t] = Nowhere
                                \/ Single(tree'[t]) /\ LaidOut(tree'[t])]_vars

\* A command that reports on a status write saw the file it overwrote: nothing
\* changes a prepared file between preflightMarks and its rewrite.
NoLostUpdate ==
    ~bare => \A p \in Procs : pc[p] = "write" =>
               \A t \in mem[p].left : tree[t] = mem[p].seen[t]

\* With the flock free, archive/ holds exactly the terminal tickets, unless a
\* command ended between the in-place write and the rename (layout drift).
Layout ==
    (lock = NoProc /\ ~bare /\ \A p \in Procs : pc[p] # "torn") =>
        \A t \in Tickets : LaidOut(tree[t])

\* No local step writes a ticket against the hold in force at the moment of the
\* write, although a claim first reads the hold before it has the flock
\* (claim.go: "Setting hold takes this same scope lock, so it can finish during
\* the refresh").
HoldRespected ==
    [][\A p \in Procs :
         (pc[p] \in {"write", "create"} /\ lock = p /\ tree' # tree /\ ~bare)
            => HoldAllows(NewStatus(p))]_vars

\* A failed hold or auto-commit set undoes its own change only: the bytes it
\* restores differ from tk.cue by exactly what it rewrote.
RestoresOwnChange ==
    ~bare => \A p \in Procs :
               pc[p] = "config" => cfg = Wanted(p, mem[p].saved)

\* Every command ends: none waits forever for a flock, its own included.
CommandsEnd == <>(\A p \in Procs : pc[p] \in Ended)

-----------------------------------------------------------------------------
(* The parts of the inductive invariant that is behind the properties above. *)

\* Only a rename in progress has a current file, one; a command that has not
\* begun has found no todo, and only a mark in-progress looks for some.
LocalsOK ==
    \A p \in Procs :
       /\ IF pc[p] \in {"move", "repairRemove", "repairCommit"}
            THEN \E t \in Tickets : mem[p].cur = {t}
            ELSE mem[p].cur = {}
       /\ pc[p] = "start" => mem[p].wasTodo = {}
       /\ mem[p].wasTodo # {} => cmd[p].to = "in-progress"

\* Tickets prepared and not yet rewritten.
Pending(p) == IF pc[p] \in {"write", "move"} THEN mem[p].left \ mem[p].cur ELSE {}

\* A counted claim shows in a file, and a ticket about to be claimed is free.
ClaimsCounted ==
    /\ \A t \in Tickets :
         claims[t] # 0 => \E l \in Locs : tree[t][l] = "in-progress"
    /\ \A p \in Procs : \A t \in Pending(p) \cap Taken(p) : claims[t] = 0

\* What a command checked under the flock is still so when it acts on it.
PreparedBy(p) ==
    /\ \A t \in Pending(p) :
         Single(mem[p].seen[t]) /\ tree[t] = mem[p].seen[t]
    /\ pc[p] = "move" =>
         \A t \in mem[p].cur :
            /\ Single(mem[p].seen[t])
            /\ tree[t] = [mem[p].seen[t] EXCEPT ![OldLoc(p, t)] = NewStatus(p)]
            /\ NewLoc(p, t) # OldLoc(p, t)
    /\ pc[p] = "create" => \A t \in mem[p].targets : tree[t] = Nowhere
    /\ pc[p] \in {"write", "move", "create"} => HoldAllows(NewStatus(p))
    /\ pc[p] = "config" => cfg = Wanted(p, mem[p].saved)

Prepared == ~bare => \A p \in Procs : PreparedBy(p)

Torn == \E p \in Procs : pc[p] = "torn"

Moves(p, t, points) == pc[p] \in points /\ t \in mem[p].cur

\* Two files of one id belong to a repair that is between its halves, or are
\* what a torn command left.
TwinsOwned ==
    ~bare => \A t \in Tickets :
       Twins(tree[t]) =>
          /\ InterruptedMove(tree[t])
          /\ Torn \/ \E p \in Procs : Moves(p, t, {"repairRemove"})

\* A file in the wrong directory is being renamed, or a torn command left it.
DriftOwned ==
    ~bare => \A t \in Tickets :
       ~LaidOut(tree[t]) =>
          Torn \/ \E p \in Procs : Moves(p, t, {"move"})

Inductive ==
    /\ TypeOK
    /\ FlockHeld
    /\ LocalsOK
    /\ ClaimsCounted
    /\ ClaimExclusive
    /\ Prepared
    /\ TwinsOwned
    /\ DriftOwned

=============================================================================
