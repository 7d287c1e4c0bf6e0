------------------------------ MODULE ScopeAdmin ------------------------------
(***************************************************************************)
(* Scope administration on one machine: the registry files under the       *)
(* machine-global lock, the tk.cue and the tickets of the scope            *)
(* directories under their flocks, and the order in which verbs take these *)
(* locks and the git-root lock.  Every verb reads the registry before it   *)
(* holds anything, waits, and goes on with what it has read.               *)
(*                                                                         *)
(* A path is a sequence of path elements, a scope name a number in the     *)
(* order of the names.  Left out: the contents of tickets, the index, what *)
(* a sync does once it has its locks (SyncRoot), what a rehome does        *)
(* (Rehome), symbolic links.                                               *)
(***************************************************************************)
EXTENDS Integers, FiniteSets, Sequences, SequencesExt

CONSTANTS
  Procs, NoProc,  \* processes of tk, each of one command; no process
  Names,          \* scope names
  Dirs,           \* directories that are or may become scopes
  Repos,          \* paths of git repositories
  Tickets,        \* tickets of a scope
  Modes,          \* instances: which processes and commands, from which registry
  MaxDeaths       \* how often a process is killed

NoName == 0
NoPath == <<0>>
ASSUME NamesAreOrdered == Names \subseteq Nat \ {NoName}
ASSUME NoProcIsNone == NoProc \notin Procs
ASSUME PathsAssumption == Dirs \subseteq Seq(Nat) /\ NoPath \notin Dirs

VARIABLES
  mode,    \* the instance
  scopes,  \* registry.cue: name -> [dir, root]
  lens,    \* lens.cue: the names with a lens
  note,    \* note.cue: the names with a default note
  cue,     \* tk.cue of a directory: [name, auto, field], or NoCue
  files,   \* ticket files of a directory: pairs of a ticket and its prefix
  config,  \* holder of the machine-global lock
  flock,   \* holder of a directory's flock
  commit,  \* holder of a git-root's commit lock
  proc,    \* the processes
  deaths

vars == <<mode, scopes, lens, note, cue, files, config, flock, commit, proc, deaths>>
store == <<scopes, lens, note>>

NoCue == [name |-> NoName, auto |-> FALSE, field |-> FALSE]
NoCommand == [verb |-> "none", name |-> NoName, to |-> NoName, dir |-> NoPath,
              root |-> NoPath, cwd |-> NoPath, auto |-> "inherit"]
Fresh == [pc |-> "new", cmd |-> NoCommand, snap |-> << >>, name |-> NoName, dir |-> NoPath,
          todo |-> {}, peers |-> {}, auto |-> FALSE, prev |-> << >>,
          mem |-> << >>, writes |-> << >>]

-----------------------------------------------------------------------------
(* Paths and repositories.                                                  *)

UnderOrEqual(child, ancestor) == IsPrefix(ancestor, child)
Overlap(a, b) == UnderOrEqual(a, b) \/ UnderOrEqual(b, a)

(* The enclosing repository; a directory that is gone has none.             *)
RepoRootForNew(d) ==
  LET around == {r \in Repos : UnderOrEqual(d, r)} IN
  IF around = {} THEN NoPath ELSE CHOOSE r \in around : \A q \in around : Len(q) <= Len(r)
RepoRoot(d) == IF d \in mode.gone THEN NoPath ELSE RepoRootForNew(d)

Usable(d) == d \notin mode.gone /\ cue[d] # NoCue /\ d \notin mode.broken
Paused(d) == RepoRoot(d) \in mode.paused

GitRootScopes(reg, root) == {n \in DOMAIN reg : RepoRoot(reg[n].dir) = root}

(* Ambient resolution: the flag, or the longest code-root around the cwd;    *)
(* NoName when there is none, it is unknown, or its tk.cue disagrees.        *)
LongestPrefix(reg, cwd) ==
  LET around == {n \in DOMAIN reg : UnderOrEqual(cwd, reg[n].root)} IN
  IF around = {} THEN NoName
  ELSE CHOOSE n \in around : \A q \in around : Len(reg[q].root) <= Len(reg[n].root)
Chosen(reg, c) == IF c.name # NoName THEN c.name ELSE LongestPrefix(reg, c.cwd)
Drifts(reg, n) == Usable(reg[n].dir) /\ cue[reg[n].dir].name # n
Resolve(reg, c) ==
  LET n == Chosen(reg, c) IN
  IF n \notin DOMAIN reg THEN NoName ELSE IF Drifts(reg, n) THEN NoName ELSE n

(* What an instance starts from: commands that the command line lets through, *)
(* and a registry as registrations leave it, in which every directory has a   *)
(* tk.cue; it may since have been broken, or the directory be gone.           *)
RegisteredOnce(reg) ==
  \A n \in DOMAIN reg : \A q \in DOMAIN reg \ {n} :
    ~Overlap(reg[n].dir, reg[q].dir) /\ reg[n].root # reg[q].root
WellFormed(c) ==
  /\ c.verb \in {"init", "import", "rebind", "forget", "lens", "note", "rename",
                 "auto", "field", "sync", "rehome"}
  /\ c.verb = "init" => c.name \in Names
  /\ c.verb \in {"init", "import", "rebind"} => c.dir \in Dirs
  /\ c.verb = "rename" => c.to \in Names
Sane(m) ==
  LET reg == m.scopes IN
  /\ DOMAIN reg \subseteq Names /\ DOMAIN m.cue \subseteq Dirs
  /\ m.cue \in [DOMAIN m.cue -> [name : Names, auto : BOOLEAN, field : BOOLEAN]]
  /\ \A n \in DOMAIN reg : reg[n].dir \in DOMAIN m.cue
  /\ RegisteredOnce(reg)
  /\ \A n, q \in DOMAIN reg :
       /\ {reg[n].dir, reg[q].dir} \cap (m.gone \cup m.broken) = {}
       /\ RepoRootForNew(reg[n].dir) = RepoRootForNew(reg[q].dir) /\ RepoRootForNew(reg[n].dir) # NoPath
       => m.cue[reg[n].dir].auto = m.cue[reg[q].dir].auto
  /\ \A c \in m.commands : WellFormed(c)
ASSUME ModesAssumption == \A m \in Modes : Sane(m)

-----------------------------------------------------------------------------
(* The start of a command: what it reads before it holds a lock.             *)

Set(p, r) == proc' = [proc EXCEPT ![p] = r]
Goes(p, pc) == Set(p, [proc[p] EXCEPT !.pc = pc])

Starting(c, d) == [Fresh EXCEPT !.cmd = c, !.snap = scopes, !.dir = d]
Refused(c) == [Fresh EXCEPT !.cmd = c, !.pc = "failed"]

(* init refuses a directory with a tk.cue; import evaluates it.              *)
OpenInit(c) ==
  IF cue[c.dir] # NoCue THEN Refused(c)
  ELSE [Starting(c, c.dir) EXCEPT !.pc = "config", !.name = c.name]
OpenImport(c) ==
  IF ~Usable(c.dir) THEN Refused(c)
  ELSE [Starting(c, c.dir) EXCEPT !.pc = "config", !.name = cue[c.dir].name,
                                  !.auto = cue[c.dir].auto]
OpenRegistered(c) == [Starting(c, c.dir) EXCEPT !.pc = "config", !.name = c.name]

(* lens and note use: the ambient scope, then the machine-global lock.        *)
OpenSession(c) ==
  LET n == Resolve(scopes, c) IN
  IF n = NoName THEN Refused(c)
  ELSE [Starting(c, scopes[n].dir) EXCEPT !.pc = "config", !.name = n]

OpenRename(c) ==
  IF c.name \notin DOMAIN scopes \/ c.to \in DOMAIN scopes \/ c.name = c.to THEN Refused(c)
  ELSE LET d == scopes[c.name].dir IN
       IF ~Usable(d) \/ cue[d].name \notin {c.name, c.to} \/ (cue[d].auto /\ Paused(d)) THEN Refused(c)
       ELSE [Starting(c, d) EXCEPT !.pc = "lock", !.name = cue[d].name, !.auto = cue[d].auto,
                                   !.todo = {c.name}, !.peers = {c.name}]

(* auto-commit: every registered scope of the git-root; a peer that cannot   *)
(* be reached refuses the command.                                           *)
Unreachable(reg, root) ==
  {n \in DOMAIN reg : RepoRoot(reg[n].dir) = NoPath /\ UnderOrEqual(reg[n].dir, root)}
Peers(n) ==
  LET root == RepoRoot(scopes[n].dir) IN
  IF root = NoPath THEN {n} ELSE GitRootScopes(scopes, root)
OpenAuto(c) ==
  LET n == Resolve(scopes, c) IN
  IF n = NoName THEN Refused(c)
  ELSE LET root == RepoRoot(scopes[n].dir) IN
       IF root # NoPath /\ Unreachable(scopes, root) # {} THEN Refused(c)
       ELSE [Starting(c, scopes[n].dir) EXCEPT !.pc = "lock", !.name = n, !.auto = c.auto = "true",
                                               !.todo = Peers(n), !.peers = Peers(n)]

(* field set reads autoCommit before it has the flock.                        *)
OpenField(c) ==
  LET n == Resolve(scopes, c) IN
  IF n = NoName THEN Refused(c)
  ELSE LET d == scopes[n].dir IN
       IF ~Usable(d) \/ (cue[d].auto /\ Paused(d)) THEN Refused(c)
       ELSE [Starting(c, d) EXCEPT !.pc = "lock", !.name = n, !.auto = cue[d].auto,
                                   !.todo = {n}, !.peers = {n}]

(* sync of a root: refused when a sibling drifts, is unusable or disagrees;  *)
(* the auto-commit scopes take part.                                         *)
SyncPreflight(root) ==
  LET peers == GitRootScopes(scopes, root) IN
  /\ \A n \in peers : Usable(scopes[n].dir) /\ ~Drifts(scopes, n)
  /\ \A n, q \in peers : cue[scopes[n].dir].auto = cue[scopes[q].dir].auto
Participants(root) == {n \in GitRootScopes(scopes, root) : cue[scopes[n].dir].auto}
OpenSync(c) ==
  LET names == Participants(c.root) IN
  IF ~SyncPreflight(c.root) \/ names = {} THEN Refused(c)
  ELSE [Starting(c, c.root) EXCEPT !.pc = "lock", !.todo = names, !.peers = names]

OpenRehome(c) ==
  IF {c.name, c.to} \subseteq DOMAIN scopes /\ c.name # c.to
  THEN [Starting(c, scopes[c.name].dir) EXCEPT !.pc = "lock", !.name = c.name,
                                               !.todo = {c.name, c.to}, !.peers = {c.name, c.to}]
  ELSE Refused(c)

Opened(c) ==
  CASE c.verb = "init" -> OpenInit(c)
    [] c.verb = "import" -> OpenImport(c)
    [] c.verb \in {"rebind", "forget"} -> OpenRegistered(c)
    [] c.verb \in {"lens", "note"} -> OpenSession(c)
    [] c.verb = "rename" -> OpenRename(c)
    [] c.verb = "auto" -> OpenAuto(c)
    [] c.verb = "field" -> OpenField(c)
    [] c.verb = "sync" -> OpenSync(c)
    [] c.verb = "rehome" -> OpenRehome(c)

Start(p) ==
  /\ proc[p].pc = "new" /\ p \in mode.procs
  /\ \E c \in mode.commands : Set(p, Opened(c))
  /\ UNCHANGED <<mode, store, cue, files, config, flock, commit, deaths>>

-----------------------------------------------------------------------------
(* Registration, under the machine-global lock.                              *)

With(f, n, e) == [x \in DOMAIN f \cup {n} |-> IF x = n THEN e ELSE f[x]]
Without(f, n) == [x \in DOMAIN f \ {n} |-> f[x]]

NameFree(reg, n) == n \notin DOMAIN reg
CodeRootFree(reg, root, exclude) == \A n \in DOMAIN reg \ {exclude} : reg[n].root # root
DirDisjoint(reg, d, exclude) == \A n \in DOMAIN reg \ {exclude} : ~Overlap(d, reg[n].dir)

(* The autoCommit values of the scopes that share the candidate's root; an    *)
(* unusable sibling refuses the registration, and so do two that disagree.    *)
Siblings(reg, root) == IF root = NoPath THEN {} ELSE GitRootScopes(reg, root)
SiblingValues(reg, root) == {cue[reg[n].dir].auto : n \in Siblings(reg, root)}
Consensus(reg, root) ==
  /\ \A n \in Siblings(reg, root) : Usable(reg[n].dir)
  /\ Cardinality(SiblingValues(reg, root)) <= 1
(* Mutant: a sibling's value is not looked at. *)
AgreesUnasked(reg, root, value) == TRUE
Agrees(reg, root, value) == Consensus(reg, root) /\ SiblingValues(reg, root) \subseteq {value}

ResolveCodeRoot(d, given, repo) == IF given # NoPath THEN given ELSE IF repo # NoPath THEN repo ELSE d
CodeRoot(c) ==
  ResolveCodeRoot(c.dir, c.root, IF c.verb = "init" THEN RepoRootForNew(c.dir) ELSE RepoRoot(c.dir))

(* The value an init gives its tk.cue: its siblings', else the flag's.        *)
InitAutoCommit(reg, c) ==
  LET values == SiblingValues(reg, RepoRootForNew(c.dir)) IN
  IF values # {} THEN CHOOSE v \in values : TRUE ELSE c.auto = "true"
InitRefused(reg, c) ==
  \/ ~NameFree(reg, c.name) \/ ~CodeRootFree(reg, CodeRoot(c), NoName)
  \/ ~DirDisjoint(reg, c.dir, NoName) \/ ~Consensus(reg, RepoRootForNew(c.dir))
  \/ c.auto # "inherit" /\ InitAutoCommit(reg, c) # (c.auto = "true")
ImportRefused(reg, r) ==
  \/ ~NameFree(reg, r.name) \/ ~CodeRootFree(reg, CodeRoot(r.cmd), NoName)
  \/ ~DirDisjoint(reg, r.dir, NoName) \/ ~Agrees(reg, RepoRoot(r.dir), r.auto)

NewRoot(reg, c) == IF c.root = NoPath THEN reg[c.name].root ELSE c.root
RebindRefused(reg, c) ==
  \/ c.name \notin DOMAIN reg \/ ~Usable(c.dir) \/ cue[c.dir].name # c.name
  \/ c.root # NoPath /\ ~CodeRootFree(reg, c.root, c.name)
  \/ ~DirDisjoint(reg, c.dir, c.name)
  \/ reg[c.name] = [dir |-> c.dir, root |-> NewRoot(reg, c)]

ConfigRefused(r) ==
  LET c == r.cmd IN
  CASE c.verb = "init" -> InitRefused(scopes, c)
    [] c.verb = "import" -> ImportRefused(scopes, r)
    [] c.verb = "rebind" -> RebindRefused(scopes, c)
    [] c.verb = "forget" -> c.name \notin DOMAIN scopes
    [] OTHER -> FALSE

(* What the command makes of the registry it has loaded, and the files it     *)
(* writes, in order.                                                          *)
Loaded == [scopes |-> scopes, lens |-> lens, note |-> note]
(* Mutant: the registry loaded before the lock. *)
LoadedEarly(r) == [scopes |-> r.snap, lens |-> lens, note |-> note]
Load(r) == Loaded
Entry(d, root) == [dir |-> d, root |-> root]
Moved(names, old, new) == IF old \in names THEN (names \ {old}) \cup {new} ELSE names
Rekeyed(m, old, new) ==
  [scopes |-> With(Without(m.scopes, old), new, m.scopes[old]),
   lens |-> Moved(m.lens, old, new), note |-> Moved(m.note, old, new)]
Changed(r) ==
  LET c == r.cmd
      m == Load(r) IN
  CASE c.verb \in {"init", "import"} -> [m EXCEPT !.scopes = With(@, r.name, Entry(r.dir, CodeRoot(c)))]
    [] c.verb = "rebind" -> [m EXCEPT !.scopes = With(@, c.name, Entry(c.dir, NewRoot(@, c)))]
    [] c.verb = "forget" -> [scopes |-> Without(m.scopes, c.name), lens |-> m.lens \ {c.name},
                             note |-> m.note \ {c.name}]
    [] c.verb = "lens" -> [m EXCEPT !.lens = IF c.auto = "true" THEN @ \cup {r.name} ELSE @ \ {r.name}]
    [] c.verb = "note" -> [m EXCEPT !.note = IF c.auto = "true" THEN @ \cup {r.name} ELSE @ \ {r.name}]
    [] c.verb = "rename" -> Rekeyed(m, c.name, c.to)
Written(r) ==
  LET sections(name) ==
        <<"scopes">> \o (IF name \in lens THEN <<"lens">> ELSE << >>)
                     \o (IF name \in note THEN <<"note">> ELSE << >>) IN
  CASE r.cmd.verb = "init" -> <<"cue", "scopes">>
    [] r.cmd.verb \in {"import", "rebind"} -> <<"scopes">>
    [] r.cmd.verb \in {"forget", "rename"} -> sections(r.cmd.name)
    [] r.cmd.verb = "lens" -> <<"lens">>
    [] r.cmd.verb = "note" -> <<"note">>

TakeConfig(p) ==
  LET r == proc[p] IN
  /\ r.pc = "config" /\ r.cmd.verb # "rename" /\ config = NoProc
  /\ IF ConfigRefused(r)
     THEN Goes(p, "failed") /\ UNCHANGED config
     ELSE /\ config' = p
          /\ Set(p, [r EXCEPT !.pc = "store", !.mem = Changed(r), !.writes = Written(r),
                              !.auto = IF r.cmd.verb = "init" THEN InitAutoCommit(scopes, r.cmd) ELSE @])
  /\ UNCHANGED <<mode, store, cue, files, flock, commit, deaths>>

Released(locks, p) == [x \in DOMAIN locks |-> IF locks[x] = p THEN NoProc ELSE locks[x]]

(* One file of the registry, or the tk.cue of an init; the last one ends the  *)
(* command and releases what it holds.                                        *)
Store(p) ==
  LET r == proc[p]
      last == Len(r.writes) = 1 IN
  /\ r.pc = "store"
  /\ scopes' = IF Head(r.writes) = "scopes" THEN r.mem.scopes ELSE scopes
  /\ lens' = IF Head(r.writes) = "lens" THEN r.mem.lens ELSE lens
  /\ note' = IF Head(r.writes) = "note" THEN r.mem.note ELSE note
  /\ cue' = IF Head(r.writes) = "cue"
            THEN [cue EXCEPT ![r.dir] = [name |-> r.name, auto |-> r.auto, field |-> FALSE]]
            ELSE cue
  /\ Set(p, [r EXCEPT !.writes = Tail(@), !.pc = IF last THEN "done" ELSE @])
  /\ config' = IF last THEN NoProc ELSE config
  /\ flock' = IF last THEN Released(flock, p) ELSE flock
  /\ UNCHANGED <<mode, files, commit, deaths>>

-----------------------------------------------------------------------------
(* Work under the flocks of scope directories.                               *)

(* Mutant: a rehome takes the flock of its source first, whatever its name.   *)
ForemostSource(r, n) ==
  IF r.cmd.verb = "rehome" /\ r.cmd.name \in r.todo THEN n = r.cmd.name ELSE \A q \in r.todo : n <= q
(* LockScopes: in the order of the names the command has read, waiting for    *)
(* each; a directory that is gone ends the command.                           *)
Foremost(r, n) == \A q \in r.todo : n <= q
DirOf(r, n) == r.snap[n].dir
DirsOf(r) == {DirOf(r, n) : n \in r.peers}
AfterLocks(r) ==
  CASE r.cmd.verb = "rename" -> "plan"
    [] r.cmd.verb \in {"auto", "field"} -> "check"
    [] r.cmd.verb \in {"sync", "rehome"} -> "root"
End(p, pc) == Goes(p, pc) /\ flock' = Released(flock, p)

TakeScope(p) ==
  LET r == proc[p] IN
  /\ r.pc = "lock"
  /\ \E n \in r.todo :
       LET d == DirOf(r, n) IN
       /\ Foremost(r, n)
       /\ IF d \in mode.gone THEN End(p, "failed")
          ELSE /\ flock[d] = NoProc
               /\ flock' = [flock EXCEPT ![d] = p]
               /\ Set(p, [r EXCEPT !.todo = @ \ {n}, !.pc = IF r.todo = {n} THEN AfterLocks(r) ELSE @])
  /\ UNCHANGED <<mode, store, cue, files, config, commit, deaths>>

(* rename: every file with the old prefix is written under the new one and    *)
(* then removed, one after another; the tk.cue comes last.                    *)
(* Mutant: a ticket that is there under the new prefix is done. *)
RenamePlanNewOnly(r) ==
  {t \in Tickets : <<t, r.cmd.name>> \in files[r.dir] /\ <<t, r.cmd.to>> \notin files[r.dir]}
RenamePlan(r) == {t \in Tickets : <<t, r.cmd.name>> \in files[r.dir]}
PlanRename(p) ==
  LET r == proc[p] IN
  /\ r.pc = "plan"
  /\ Set(p, [r EXCEPT !.pc = "tickets", !.todo = RenamePlan(r)])
  /\ UNCHANGED <<mode, store, cue, files, config, flock, commit, deaths>>
RenameTicket(p) ==
  LET r == proc[p] IN
  /\ r.pc = "tickets"
  /\ \E t \in r.todo :
       LET old == <<t, r.cmd.name>>
           new == <<t, r.cmd.to>> IN
       /\ Foremost(r, t)
       /\ IF new \notin files[r.dir]
          THEN files' = [files EXCEPT ![r.dir] = @ \cup {new}] /\ UNCHANGED proc
          ELSE files' = [files EXCEPT ![r.dir] = @ \ {old}] /\ Set(p, [r EXCEPT !.todo = @ \ {t}])
  /\ UNCHANGED <<mode, store, cue, config, flock, commit, deaths>>
RewriteName(p) ==
  LET r == proc[p] IN
  /\ r.pc = "tickets" /\ r.todo = {}
  /\ cue' = IF r.name = r.cmd.to THEN cue ELSE [cue EXCEPT ![r.dir].name = r.cmd.to]
  /\ Goes(p, "commit")
  /\ UNCHANGED <<mode, store, files, config, flock, commit, deaths>>

(* The registry key of a renamed scope: gone means it has been re-keyed, and  *)
(* a new name that was taken meanwhile is left alone.                         *)
RekeyRegistry(p) ==
  LET r == proc[p] IN
  /\ r.pc = "config" /\ r.cmd.verb = "rename" /\ config = NoProc
  /\ \/ r.cmd.name \notin DOMAIN scopes /\ End(p, "done") /\ UNCHANGED config
     \/ r.cmd.name \in DOMAIN scopes /\ r.cmd.to \in DOMAIN scopes /\ End(p, "failed") /\ UNCHANGED config
     \/ /\ r.cmd.name \in DOMAIN scopes /\ r.cmd.to \notin DOMAIN scopes
        /\ config' = p /\ UNCHANGED flock
        /\ Set(p, [r EXCEPT !.pc = "store", !.mem = Changed(r), !.writes = Written(r)])
  /\ UNCHANGED <<mode, store, cue, files, commit, deaths>>

(* auto-commit and field sets: what was there is kept for a restore; a set to *)
(* the value all scopes have ends here, and so does one in a paused rebase.   *)
Ready(r) ==
  CASE r.cmd.verb = "field" -> TRUE
    [] r.cmd.verb = "auto" -> /\ \E d \in DirsOf(r) : cue[d].auto # r.auto
                              /\ ~Paused(r.dir)
CheckSet(p) ==
  LET r == proc[p] IN
  /\ r.pc = "check"
  /\ IF (\A d \in DirsOf(r) : Usable(d)) /\ Ready(r)
     THEN /\ Set(p, [r EXCEPT !.pc = "rewrite", !.todo = r.peers,
                             !.prev = [d \in DirsOf(r) |-> cue[d]]])
          /\ UNCHANGED flock
     ELSE End(p, "failed")
  /\ UNCHANGED <<mode, store, cue, files, config, commit, deaths>>

Rewritten(r, c) ==
  IF r.cmd.verb = "auto" THEN [c EXCEPT !.auto = r.auto] ELSE [c EXCEPT !.field = TRUE]
RewriteCue(p) ==
  LET r == proc[p] IN
  /\ r.pc = "rewrite"
  /\ \E n \in r.todo :
       /\ Foremost(r, n)
       /\ cue' = [cue EXCEPT ![DirOf(r, n)] = Rewritten(r, @)]
       /\ Set(p, [r EXCEPT !.todo = @ \ {n}, !.pc = IF r.todo = {n} THEN "commit" ELSE @])
  /\ UNCHANGED <<mode, store, files, config, flock, commit, deaths>>
(* A file beside tk.cue still pins the old value.                             *)
NotConfirmed(p) ==
  /\ proc[p].pc = "commit" /\ proc[p].cmd.verb # "rename"
  /\ Goes(p, "restore")
  /\ UNCHANGED <<mode, store, cue, files, config, flock, commit, deaths>>
RestoreCue(p) ==
  LET r == proc[p] IN
  /\ r.pc = "restore"
  /\ IF r.prev = << >> THEN End(p, "failed") /\ UNCHANGED cue
     ELSE \E d \in DOMAIN r.prev :
            /\ cue' = [cue EXCEPT ![d] = r.prev[d]]
            /\ Set(p, [r EXCEPT !.prev = Without(@, d)])
            /\ UNCHANGED flock
  /\ UNCHANGED <<mode, store, files, config, commit, deaths>>

(* The self-commit under the git-root's lock, if the scope has one and tk is  *)
(* to commit; only auto-commit puts the old bytes back when it fails.         *)
Commits(r) == RepoRoot(r.dir) # NoPath /\ (r.cmd.verb = "auto" \/ r.auto)
SelfCommit(p) ==
  LET r == proc[p] IN
  /\ r.pc = "commit"
  /\ Commits(r) => commit[RepoRoot(r.dir)] = NoProc
  /\ \/ IF r.cmd.verb = "rename" THEN Goes(p, "config") /\ UNCHANGED flock ELSE End(p, "done")
     \/ /\ Commits(r)
        /\ IF r.cmd.verb = "auto" THEN Goes(p, "restore") /\ UNCHANGED flock ELSE End(p, "failed")
  /\ UNCHANGED <<mode, store, cue, files, config, commit, deaths>>

(* sync takes the git-root's lock after the flocks and keeps it.              *)
TakeRoot(p) ==
  LET r == proc[p] IN
  /\ r.pc = "root" /\ r.cmd.verb = "sync" /\ commit[r.dir] = NoProc
  /\ commit' = [commit EXCEPT ![r.dir] = p]
  /\ Goes(p, "synced")
  /\ UNCHANGED <<mode, store, cue, files, config, flock, deaths>>
SyncEnd(p) ==
  /\ proc[p].pc = "synced"
  /\ End(p, "done") /\ commit' = Released(commit, p)
  /\ UNCHANGED <<mode, store, cue, files, config, deaths>>

(* rehome commits each root it touched, one after the other.                  *)
RehomeRoots(r) ==
  {RepoRoot(d) : d \in {e \in DirsOf(r) : cue[e].auto}} \ {NoPath}
RehomeCommit(p) ==
  LET r == proc[p] IN
  /\ r.pc = "root" /\ r.cmd.verb = "rehome"
  /\ \A root \in RehomeRoots(r) : commit[root] = NoProc
  /\ End(p, "done")
  /\ UNCHANGED <<mode, store, cue, files, config, commit, deaths>>

(* A process is killed: the kernel releases its locks.                        *)
Ended == {"done", "failed", "dead"}
Die(p) ==
  /\ proc[p].pc \notin Ended \cup {"new"} /\ deaths < MaxDeaths
  /\ deaths' = deaths + 1
  /\ Goes(p, "dead")
  /\ config' = IF config = p THEN NoProc ELSE config
  /\ flock' = Released(flock, p) /\ commit' = Released(commit, p)
  /\ UNCHANGED <<mode, store, cue, files>>

-----------------------------------------------------------------------------
Init ==
  /\ mode \in Modes
  /\ scopes = mode.scopes /\ lens = DOMAIN mode.scopes /\ note = DOMAIN mode.scopes
  /\ cue = [d \in Dirs |-> IF d \in DOMAIN mode.cue THEN mode.cue[d] ELSE NoCue]
  /\ files = [d \in Dirs |-> IF d \in DOMAIN mode.cue THEN Tickets \X {mode.cue[d].name} ELSE {}]
  /\ config = NoProc
  /\ flock = [d \in Dirs |-> NoProc] /\ commit = [r \in Repos |-> NoProc]
  /\ proc = [p \in Procs |-> Fresh]
  /\ deaths = 0

Step(p) ==
  \/ TakeConfig(p) \/ Store(p) \/ TakeScope(p)
  \/ PlanRename(p) \/ RenameTicket(p) \/ RewriteName(p) \/ RekeyRegistry(p)
  \/ CheckSet(p) \/ RewriteCue(p) \/ NotConfirmed(p) \/ RestoreCue(p) \/ SelfCommit(p)
  \/ TakeRoot(p) \/ SyncEnd(p) \/ RehomeCommit(p)
Next == \E p \in Procs : Start(p) \/ Step(p) \/ Die(p)
Spec == Init /\ [][Next]_vars

(* A process that can go on does.                                             *)
FairSpec == Spec /\ \A p \in Procs : WF_vars(Step(p))

-----------------------------------------------------------------------------
(* Types, and that a lock is with a process that is using it.                 *)
TypeOK ==
  /\ DOMAIN scopes \subseteq Names
  /\ \A n \in DOMAIN scopes : scopes[n].dir \in Dirs
  /\ lens \subseteq Names /\ note \subseteq Names
  /\ cue \in [Dirs -> [name : Names \cup {NoName}, auto : BOOLEAN, field : BOOLEAN]]
  /\ files \in [Dirs -> SUBSET (Tickets \X Names)]
  /\ config \in Procs \cup {NoProc}
  /\ flock \in [Dirs -> Procs \cup {NoProc}] /\ commit \in [Repos -> Procs \cup {NoProc}]
  /\ \A d \in Dirs : flock[d] # NoProc => proc[flock[d]].pc \notin Ended
  /\ \A r \in Repos : commit[r] # NoProc => proc[commit[r]].pc = "synced"

(* Where the scopes of a root may come to disagree: a set of autoCommit is in *)
(* the middle or has died there; a directory of its root was registered after *)
(* the set read the registry; two inits found the same directory without a    *)
(* tk.cue, and the second one's overwrites what a set has written since; or a *)
(* scope was rebound, which compares it with no sibling.                      *)
InitTwice(d) ==
  \E p \in Procs : \E q \in Procs \ {p} :
    proc[p].cmd.verb = "init" /\ proc[q].cmd.verb = "init" /\ proc[p].dir = d /\ proc[q].dir = d
AgreementOpen ==
  \/ \E d \in Dirs : InitTwice(d)
  \/ \E p \in Procs :
       \/ proc[p].cmd.verb = "rebind"
       \/ /\ proc[p].cmd.verb = "auto" /\ proc[p].peers # {}
          /\ \/ proc[p].pc \notin {"done", "failed"}
             \/ \E n \in GitRootScopes(scopes, RepoRoot(proc[p].dir)) : scopes[n].dir \notin DirsOf(proc[p])
RootsAgree ==
  \A n, q \in DOMAIN scopes :
    /\ Usable(scopes[n].dir) /\ Usable(scopes[q].dir)
    /\ RepoRoot(scopes[n].dir) = RepoRoot(scopes[q].dir) /\ RepoRoot(scopes[n].dir) # NoPath
    => cue[scopes[n].dir].auto = cue[scopes[q].dir].auto

(* Whatever registrations, moves, renames and sets race or die: registered    *)
(* directories are disjoint, no two scopes share a code-root, and the scopes  *)
(* of a git-root agree on autoCommit, except in the cases AgreementOpen names.*)
(* (init, import and rebind check it on a registry that others are changing.) *)
RegistrationsSound ==
  /\ TypeOK
  /\ RegisteredOnce(scopes)
  /\ RootsAgree \/ AgreementOpen

(* No step loses what another command has recorded: a registration, a lens or *)
(* a note changes only by a command about that name that holds the global     *)
(* lock, and a command changes only its own part of a tk.cue whose flock it    *)
(* has, also when it restores old bytes.  (Not in a directory where two inits *)
(* have found no tk.cue: the second one's overwrites the first one's, with no *)
(* flock.)                                                                    *)
At(f, n) == IF n \in DOMAIN f THEN {f[n]} ELSE {}
OwnName(r, n) == n \in {r.name, r.cmd.name, r.cmd.to}
OwnPart(r, old, new) ==
  CASE r.cmd.verb = "rename" -> [new EXCEPT !.name = old.name] = old
    [] r.cmd.verb = "auto" -> [new EXCEPT !.auto = old.auto] = old
    [] r.cmd.verb = "field" -> [new EXCEPT !.field = old.field] = old
    [] r.cmd.verb = "init" -> old = NoCue \/ \A n \in DOMAIN scopes : scopes[n].dir # r.dir
    [] OTHER -> FALSE
OwnEntries == [][
  /\ \A n \in Names :
       \/ At(scopes, n) = At(scopes', n) /\ (n \in lens) = (n \in lens') /\ (n \in note) = (n \in note')
       \/ config # NoProc /\ OwnName(proc[config], n)
  /\ \A d \in Dirs :
       \/ cue[d] = cue'[d]
       \/ \E p \in Procs : /\ proc[p] # proc'[p]
                           /\ flock[d] = p \/ (proc[p].cmd.verb = "init" /\ proc[p].dir = d)
                           /\ OwnPart(proc[p], cue[d], cue'[d]) \/ InitTwice(d)]_vars

(* A rename that succeeds is whole, also when it finishes what an earlier one *)
(* that died had begun: tk.cue and all ticket files have the new name and the *)
(* old one is not registered.  (Not when somebody gives the directory a third *)
(* name meanwhile: the later rename takes the missing key for its own work;   *)
(* and not where two inits raced.)  On the way no ticket is without a file,   *)
(* whoever renames.                                                           *)
OtherName(r) ==
  \E q \in Procs : proc[q].cmd.verb = "rename" /\ proc[q].dir = r.dir /\ proc[q].cmd.to # r.cmd.to
RenameWhole == [][
  /\ \A p \in Procs :
       LET r == proc[p] IN
       r.cmd.verb = "rename" /\ r.pc # "done" /\ proc'[p].pc = "done" /\ ~OtherName(r) /\ ~InitTwice(r.dir)
       => /\ cue'[r.dir].name = r.cmd.to
          /\ \A f \in files'[r.dir] : f[2] = r.cmd.to
          /\ r.cmd.name \notin DOMAIN scopes'
  /\ \A d \in Dirs : {f[1] : f \in files[d]} \subseteq {f[1] : f \in files'[d]}]_vars

(* Every command ends: scope flocks in name order, the git-root's lock after  *)
(* them and the global lock last can never leave commands waiting for each     *)
(* other.  (Without renames, which change the order of the names.)             *)
VerbsEnd ==
  (\A c \in mode.commands : c.verb # "rename")
  => \A p \in Procs : proc[p].pc \notin Ended \cup {"new"} ~> proc[p].pc \in Ended
=============================================================================
