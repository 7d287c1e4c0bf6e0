--------------------------- MODULE ScopeAdminProofs ---------------------------
(***************************************************************************)
(* Proofs about ScopeAdmin: registrations stay disjoint and the scopes of  *)
(* a root agree on autoCommit (RegistrationsSound), commands change only   *)
(* their own entries (OwnEntries), and a rename that succeeds is whole     *)
(* (RenameWhole), for any number of processes, names, directories,         *)
(* repositories and tickets and any deaths.                                *)
(***************************************************************************)
EXTENDS ScopeAdmin, FiniteSetTheorems, SequenceTheorems, TLAPS

-----------------------------------------------------------------------------
(* The inductive invariant.                                                  *)

Fields == {"pc", "cmd", "snap", "name", "dir", "todo", "peers", "auto", "prev", "mem", "writes"}
IsProc(r) == r = [x \in Fields |-> r[x]]
Cues == [name : Names, auto : BOOLEAN, field : BOOLEAN]

Typed ==
  /\ mode \in Modes
  /\ DOMAIN scopes \subseteq Names
  /\ \A n \in DOMAIN scopes : scopes[n].dir \in Dirs
  /\ lens \subseteq Names /\ note \subseteq Names
  /\ cue \in [Dirs -> Cues \cup {NoCue}]
  /\ files \in [Dirs -> SUBSET (Tickets \X Names)]
  /\ config \in Procs \cup {NoProc}
  /\ flock \in [Dirs -> Procs \cup {NoProc}]
  /\ commit \in [Repos -> Procs \cup {NoProc}]
  /\ proc = [p \in Procs |-> proc[p]]
  /\ \A p \in Procs : IsProc(proc[p])

(* A process is where its command goes, with what it read when it started;    *)
(* a command refused at the start has read nothing.                           *)
Places(verb) ==
  CASE verb \in {"init", "import", "rebind", "forget", "lens", "note"} -> {"config", "store"}
    [] verb = "rename" -> {"lock", "plan", "tickets", "commit", "config", "store"}
    [] verb \in {"auto", "field"} -> {"lock", "check", "rewrite", "commit", "restore"}
    [] verb = "sync" -> {"lock", "root", "synced"}
    [] verb = "rehome" -> {"lock", "root"}
Placed(r) ==
  /\ r.pc = "new" => r = Fresh
  /\ r.pc # "new" => WellFormed(r.cmd) /\ r.pc \in Places(r.cmd.verb) \cup Ended
  /\ r.peers \subseteq DOMAIN r.snap
  /\ \A n \in r.peers : DirOf(r, n) \in Dirs /\ cue[DirOf(r, n)] # NoCue
  /\ r.pc \in {"lock", "rewrite"} => r.todo \subseteq r.peers
  /\ r.pc = "tickets" => r.todo \subseteq Tickets
  /\ r.auto \in BOOLEAN
  /\ r.cmd.verb \in {"init", "import"} /\ r.pc \in {"config", "store"} => r.dir = r.cmd.dir
  /\ r.cmd.verb = "import" /\ r.pc \in {"config", "store"} => cue[r.dir] # NoCue
  /\ r.cmd.verb = "init" /\ r.pc \in {"config", "store"} => r.name = r.cmd.name
  /\ r.cmd.verb \in {"import", "lens", "note"} /\ r.pc \in {"config", "store"} => r.name \in Names
  /\ r.cmd.verb \in {"init", "import", "rebind", "forget", "lens", "note"} => r.peers = {}
  /\ r.cmd.verb \in {"rename", "field"} /\ r.pc \notin Ended =>
       r.peers # {} /\ DirsOf(r) = {r.dir}
  /\ r.cmd.verb = "auto" =>
       \A d \in DirsOf(r) : RepoRoot(d) # NoPath => RepoRoot(d) = RepoRoot(r.dir)
Control == \A p \in Procs : Placed(proc[p])

(* Who has which lock.                                                        *)
Locking(p) ==
  LET r == proc[p] IN
  /\ r.pc = "lock" => \A n \in r.peers \ r.todo : flock[DirOf(r, n)] = p
  /\ r.pc \notin Ended \cup {"new", "lock"} => \A d \in DirsOf(r) : flock[d] = p
  /\ \A d \in Dirs : flock[d] = p => r.pc \notin Ended \cup {"new"} /\ d \in DirsOf(r)
  /\ \A g \in Repos : commit[g] = p => r.pc = "synced"
  /\ r.pc = "store" <=> config = p
Locked == \A p \in Procs : Locking(p)

(* A directory in which an init has still to write its tk.cue has none, and   *)
(* no tickets; a registered one has a tk.cue.                                 *)
CuePending(r) ==
  r.cmd.verb = "init" /\ (r.pc = "config" \/ (r.pc = "store" /\ Head(r.writes) = "cue"))
Cued ==
  /\ \A n \in DOMAIN scopes : cue[scopes[n].dir] # NoCue
  /\ \A d \in Dirs : cue[d] = NoCue => files[d] = {}
  /\ \A p \in Procs : CuePending(proc[p]) => cue[proc[p].dir] = NoCue \/ InitTwice(proc[p].dir)

(* What the holder of the machine-global lock is about to store is the        *)
(* registry as it is, but for its own entries, and as sound.                  *)
Storing(r) ==
  /\ r.writes # << >>
  /\ IF r.cmd.verb = "init" THEN r.writes \in {<<"cue", "scopes">>, <<"scopes">>}
     ELSE r.writes \in Seq({"scopes", "lens", "note"})
  /\ \A n \in Names : ~OwnName(r, n) =>
       /\ At(r.mem.scopes, n) = At(scopes, n)
       /\ (n \in r.mem.lens) = (n \in lens) /\ (n \in r.mem.note) = (n \in note)
  /\ DOMAIN r.mem.scopes \subseteq Names /\ r.mem.lens \subseteq Names /\ r.mem.note \subseteq Names
  /\ \A n \in DOMAIN r.mem.scopes : r.mem.scopes[n].dir \in Dirs
  /\ RegisteredOnce(r.mem.scopes)
  /\ r.cmd.verb = "init" =>
       /\ r.name \notin DOMAIN scopes
       /\ r.mem.scopes = With(scopes, r.name, Entry(r.dir, CodeRoot(r.cmd)))
  /\ ~CuePending(r) => \A n \in DOMAIN r.mem.scopes : cue[r.mem.scopes[n].dir] # NoCue
  /\ r.cmd.verb = "rename" =>
       /\ r.cmd.name \notin DOMAIN r.mem.scopes
       /\ Head(r.writes) = "scopes" \/ r.cmd.name \notin DOMAIN scopes
Registry ==
  /\ RegisteredOnce(scopes)
  /\ \A p \in Procs : proc[p].pc = "store" => Storing(proc[p])

(* The bytes a set keeps for a restore differ from the tk.cue in the set's    *)
(* own part.                                                                  *)
OwnDiffers(verb, old, new) ==
  /\ old.name = new.name
  /\ verb = "auto" => old.field = new.field
  /\ verb = "field" => old.auto = new.auto
Keeping(r) ==
  /\ r.pc \in {"rewrite", "commit"} /\ r.cmd.verb # "rename" => DOMAIN r.prev = DirsOf(r)
  /\ r.pc \in {"rewrite", "commit", "restore"} /\ r.cmd.verb # "rename" =>
       /\ DOMAIN r.prev \subseteq DirsOf(r)
       /\ \A d \in DOMAIN r.prev :
            r.prev[d] \in Cues /\ (OwnDiffers(r.cmd.verb, r.prev[d], cue[d]) \/ InitTwice(d))
Kept == \A p \in Procs : Keeping(proc[p])

(* Two directories of a root agree, or there is a reason: a set of autoCommit *)
(* that has only one of them, or that has both and is at work or dead.        *)
Anyway == (\E p \in Procs : proc[p].cmd.verb = "rebind") \/ (\E d \in Dirs : InitTwice(d))
Parts(r, d, e) == r.cmd.verb = "auto" /\ (d \in DirsOf(r)) # (e \in DirsOf(r))
Halfway(r, d, e) ==
  /\ r.cmd.verb = "auto" /\ r.pc \in {"rewrite", "commit", "restore", "dead"}
  /\ d \in DirsOf(r) /\ e \in DirsOf(r)
Excused(d, e) == Anyway \/ \E p \in Procs : Parts(proc[p], d, e) \/ Halfway(proc[p], d, e)
SameRoot(d, e) == RepoRoot(d) = RepoRoot(e) /\ RepoRoot(d) # NoPath
Good(d, e) ==
  SameRoot(d, e) /\ Usable(d) /\ Usable(e) => cue[d].auto = cue[e].auto \/ Excused(d, e)

(* What a set at work would put back, and who else could excuse it.           *)
Back(r, d) == IF d \in DOMAIN r.prev THEN r.prev[d].auto ELSE cue[d].auto
ExcusedElse(p, d, e) ==
  \/ Anyway
  \/ \E q \in Procs \ {p} :
       Parts(proc[q], d, e) \/ (Halfway(proc[q], d, e) /\ proc[q].pc = "dead")
Agreeing(p) ==
  LET r == proc[p] IN
  /\ r.pc = "store" /\ ~CuePending(r) =>
       \A n, q \in DOMAIN r.mem.scopes : Good(r.mem.scopes[n].dir, r.mem.scopes[q].dir)
  /\ r.pc = "store" /\ CuePending(r) =>
       \A n \in DOMAIN scopes :
         SameRoot(scopes[n].dir, r.dir) =>
           cue[scopes[n].dir].auto = r.auto \/ Excused(scopes[n].dir, r.dir)
  /\ r.cmd.verb = "import" /\ r.pc = "config" =>
       \/ cue[r.dir].auto = r.auto \/ Anyway
       \/ \E q \in Procs : proc[q].cmd.verb = "auto" /\ r.dir \in DirsOf(proc[q])
  /\ r.cmd.verb = "auto" => \A d, e \in DirsOf(r) : Good(d, e)
  /\ r.cmd.verb = "auto" /\ r.pc \in {"rewrite", "commit", "restore"} =>
       \A d, e \in DirsOf(r) :
         SameRoot(d, e) => Back(r, d) = Back(r, e) \/ ExcusedElse(p, d, e)
  /\ r.cmd.verb = "auto" /\ r.pc = "rewrite" =>
       \A n \in r.peers \ r.todo : cue[DirOf(r, n)].auto = r.auto \/ Anyway
  /\ r.cmd.verb = "auto" /\ r.pc = "commit" =>
       \A d \in DirsOf(r) : cue[d].auto = r.auto \/ Anyway
Agreement ==
  /\ \A n, q \in DOMAIN scopes : Good(scopes[n].dir, scopes[q].dir)
  /\ \A p \in Procs : Agreeing(p)

(* A ticket file has the name in its tk.cue or one that some rename of the    *)
(* directory gives it.                                                        *)
RenamedTo(d, n) == \E q \in Procs : proc[q].cmd.verb = "rename" /\ proc[q].dir = d /\ proc[q].cmd.to = n
GivesName(r) ==
  /\ r.cmd.verb = "rename" /\ r.pc \notin Ended =>
       /\ r.dir \in Dirs /\ r.cmd.name # r.cmd.to
       /\ \/ InitTwice(r.dir) \/ cue[r.dir].name = r.cmd.to
          \/ cue[r.dir].name = r.cmd.name /\ r.name # r.cmd.to
          \/ RenamedTo(r.dir, cue[r.dir].name)
  /\ r.cmd.verb = "rename" /\ r.pc = "tickets" =>
       \A f \in files[r.dir] : f[2] = r.cmd.name => f[1] \in r.todo
  /\ r.cmd.verb = "rename" /\ r.pc \in {"commit", "config", "store"} =>
       InitTwice(r.dir) \/ cue[r.dir].name = r.cmd.to \/ OtherName(r)
Named ==
  /\ \A d \in Dirs : \A f \in files[d] : f[2] = cue[d].name \/ InitTwice(d) \/ RenamedTo(d, f[2])
  /\ \A p \in Procs : GivesName(proc[p])

IInv == Typed /\ Control /\ Locked /\ Cued /\ Registry /\ Kept /\ Agreement /\ Named

-----------------------------------------------------------------------------
(* Steps in general.                                                         *)

(* What a process keeps from its start on.                                    *)
Keeps(r, s) ==
  s.cmd = r.cmd /\ s.dir = r.dir /\ s.snap = r.snap /\ s.peers = r.peers /\ s.name = r.name

(* A command's record is a record, whatever became of it at its start.        *)
LEMMA FreshIsProc == IsProc(Fresh)
BY DEF IsProc, Fresh, Fields

LEMMA OpenedShape ==
  ASSUME NEW c, WellFormed(c)
  PROVE  /\ IsProc(Opened(c)) /\ Opened(c).cmd = c
         /\ Opened(c).pc \in {"config", "lock", "failed"}
         /\ Opened(c).pc = "failed" => Opened(c) = Refused(c)
<1> DEFINE r == Opened(c)
<1>0. /\ IsProc(Refused(c)) /\ Refused(c).cmd = c /\ Refused(c).pc = "failed"
  BY FreshIsProc DEF IsProc, Fresh, Fields, Refused
<1>1. \A d : IsProc(Starting(c, d)) /\ Starting(c, d).cmd = c
  BY FreshIsProc DEF IsProc, Fresh, Fields, Starting
<1>2. CASE c.verb = "init"
  BY <1>0, <1>1, <1>2 DEF Opened, OpenInit, IsProc, Fields
<1>3. CASE c.verb = "import"
  BY <1>0, <1>1, <1>3 DEF Opened, OpenImport, IsProc, Fields
<1>4. CASE c.verb \in {"rebind", "forget"}
  BY <1>0, <1>1, <1>4 DEF Opened, OpenRegistered, IsProc, Fields
<1>5. CASE c.verb \in {"lens", "note"}
  BY <1>0, <1>1, <1>5 DEF Opened, OpenSession, IsProc, Fields
<1>6. CASE c.verb = "rename"
  BY ZenonT(60), <1>0, <1>1, <1>6 DEF Opened, OpenRename, IsProc, Fields
<1>7. CASE c.verb = "auto"
  BY ZenonT(60), <1>0, <1>1, <1>7 DEF Opened, OpenAuto, IsProc, Fields
<1>8. CASE c.verb = "field"
  BY <1>0, <1>1, <1>8 DEF Opened, OpenField, IsProc, Fields
<1>9. CASE c.verb = "sync"
  BY <1>0, <1>1, <1>9 DEF Opened, OpenSync, IsProc, Fields
<1>10. CASE c.verb = "rehome"
  BY <1>0, <1>1, <1>10 DEF Opened, OpenRehome, IsProc, Fields
<1> QED BY <1>2, <1>3, <1>4, <1>5, <1>6, <1>7, <1>8, <1>9, <1>10 DEF WellFormed

(* A step changes its own process's record only, and nothing that the process *)
(* keeps.                                                                      *)
Alone(p) ==
  /\ mode' = mode
  /\ proc' = [q \in Procs |-> proc'[q]]
  /\ \A q \in Procs \ {p} : proc'[q] = proc[q]
  /\ IsProc(proc'[p])
LEMMA SetAlone ==
  ASSUME Typed, NEW p \in Procs, NEW s, Set(p, s), IsProc(s), mode' = mode
  PROVE  Alone(p) /\ proc'[p] = s
BY DEF Typed, Alone, Set

(* What each step makes of its process: r is its record, s what becomes of it.*)
Ends(r, s, pc) ==
  /\ Keeps(r, s) /\ s.pc = pc
  /\ s.todo = r.todo /\ s.auto = r.auto /\ s.prev = r.prev /\ s.mem = r.mem /\ s.writes = r.writes
LEMMA GoesEnds ==
  ASSUME Typed, NEW p \in Procs, NEW pc, Goes(p, pc), mode' = mode
  PROVE  Alone(p) /\ Ends(proc[p], proc'[p], pc)
<1>1. IsProc(proc[p])
  BY DEF Typed
<1>2. PICK r : r = proc[p]
  OBVIOUS
<1>3. IsProc([r EXCEPT !.pc = pc]) /\ Ends(r, [r EXCEPT !.pc = pc], pc)
  BY <1>1, <1>2 DEF IsProc, Fields, Ends, Keeps
<1> QED BY <1>2, <1>3, SetAlone DEF Goes
LEMMA TakeConfigEffect ==
  ASSUME Typed, NEW p \in Procs, TakeConfig(p)
  PROVE  LET r == proc[p]
             s == proc'[p] IN
         /\ Alone(p) /\ r.pc = "config" /\ r.cmd.verb # "rename" /\ config = NoProc
         /\ \/ Ends(r, s, "failed") /\ config' = config
            \/ /\ config' = p /\ ~ConfigRefused(r) /\ Keeps(r, s)
               /\ s.pc = "store" /\ s.mem = Changed(r) /\ s.writes = Written(r)
               /\ s.auto = IF r.cmd.verb = "init" THEN InitAutoCommit(scopes, r.cmd) ELSE r.auto
         /\ UNCHANGED <<scopes, lens, note, cue, files, flock, commit>>
<1>1. PICK r : r = proc[p] /\ IsProc(r)
  BY DEF Typed
<1>2. /\ r.pc = "config" /\ r.cmd.verb # "rename" /\ config = NoProc /\ mode' = mode
      /\ UNCHANGED <<scopes, lens, note, cue, files, flock, commit>>
  BY <1>1 DEF TakeConfig, store
<1>3. CASE ConfigRefused(r)
  <2>1. Goes(p, "failed") /\ config' = config
    BY <1>1, <1>3 DEF TakeConfig
  <2> QED BY <1>1, <1>2, <2>1, GoesEnds
<1>4. CASE ~ConfigRefused(r)
  <2>1. PICK a : a = IF r.cmd.verb = "init" THEN InitAutoCommit(scopes, r.cmd) ELSE r.auto
    OBVIOUS
  <2>2. PICK m, w : m = Changed(r) /\ w = Written(r)
    OBVIOUS
  <2>3. Set(p, [r EXCEPT !.pc = "store", !.mem = m, !.writes = w, !.auto = a]) /\ config' = p
    BY <1>1, <1>4, <2>1, <2>2 DEF TakeConfig
  <2>4. PICK s : s = [r EXCEPT !.pc = "store", !.mem = m, !.writes = w, !.auto = a]
    OBVIOUS
  <2>5. IsProc(s) /\ Keeps(r, s) /\ s.pc = "store" /\ s.mem = m /\ s.writes = w /\ s.auto = a
    BY <1>1, <2>4 DEF IsProc, Fields, Keeps
  <2>6. Alone(p) /\ proc'[p] = s
    BY <1>2, <2>3, <2>4, <2>5, SetAlone
  <2> QED BY <1>1, <1>2, <1>4, <2>1, <2>2, <2>3, <2>5, <2>6
<1> QED BY <1>3, <1>4

LEMMA StoreEffect ==
  ASSUME Typed, NEW p \in Procs, Store(p)
  PROVE  LET r == proc[p]
             s == proc'[p]
             last == Len(r.writes) = 1 IN
         /\ Alone(p) /\ r.pc = "store" /\ Keeps(r, s)
         /\ s.pc = (IF last THEN "done" ELSE "store") /\ s.writes = Tail(r.writes)
         /\ s.mem = r.mem /\ s.auto = r.auto
         /\ scopes' = IF Head(r.writes) = "scopes" THEN r.mem.scopes ELSE scopes
         /\ lens' = IF Head(r.writes) = "lens" THEN r.mem.lens ELSE lens
         /\ note' = IF Head(r.writes) = "note" THEN r.mem.note ELSE note
         /\ cue' = IF Head(r.writes) = "cue"
                   THEN [cue EXCEPT ![r.dir] = [name |-> r.name, auto |-> r.auto, field |-> FALSE]]
                   ELSE cue
         /\ config' = IF last THEN NoProc ELSE config
         /\ flock' = IF last THEN Released(flock, p) ELSE flock
         /\ UNCHANGED <<files, commit>>
<1>1. PICK r : r = proc[p] /\ IsProc(r)
  BY DEF Typed
<1>2. PICK pc, w : pc = (IF Len(r.writes) = 1 THEN "done" ELSE r.pc) /\ w = Tail(r.writes)
  OBVIOUS
<1>3. PICK s : s = [r EXCEPT !.writes = w, !.pc = pc]
  OBVIOUS
<1>4. IsProc(s) /\ Keeps(r, s) /\ s.pc = pc /\ s.writes = w /\ s.mem = r.mem /\ s.auto = r.auto
  BY <1>1, <1>3 DEF IsProc, Fields, Keeps
<1>5. Set(p, s) /\ mode' = mode /\ r.pc = "store"
  BY <1>1, <1>2, <1>3 DEF Store
<1>6. Alone(p) /\ proc'[p] = s
  BY <1>4, <1>5, SetAlone
<1> QED BY <1>1, <1>2, <1>4, <1>5, <1>6 DEF Store

LEMMA TakeScopeEffect ==
  ASSUME Typed, NEW p \in Procs, TakeScope(p)
  PROVE  LET r == proc[p]
             s == proc'[p] IN
         /\ Alone(p) /\ r.pc = "lock"
         /\ \/ Ends(r, s, "failed") /\ flock' = Released(flock, p)
            \/ \E n \in r.todo :
                 /\ flock[DirOf(r, n)] = NoProc /\ flock' = [flock EXCEPT ![DirOf(r, n)] = p]
                 /\ Keeps(r, s) /\ s.todo = r.todo \ {n}
                 /\ s.pc = IF r.todo = {n} THEN AfterLocks(r) ELSE "lock"
                 /\ s.auto = r.auto
         /\ UNCHANGED <<scopes, lens, note, cue, files, config, commit>>
<1>1. PICK r : r = proc[p] /\ IsProc(r)
  BY DEF Typed
<1>2. r.pc = "lock" /\ mode' = mode /\ UNCHANGED <<scopes, lens, note, cue, files, config, commit>>
  BY <1>1 DEF TakeScope, store
<1>3. PICK n \in r.todo :
        IF DirOf(r, n) \in mode.gone THEN End(p, "failed")
        ELSE /\ flock[DirOf(r, n)] = NoProc /\ flock' = [flock EXCEPT ![DirOf(r, n)] = p]
             /\ Set(p, [r EXCEPT !.todo = @ \ {n}, !.pc = IF r.todo = {n} THEN AfterLocks(r) ELSE @])
  BY <1>1 DEF TakeScope
<1>4. CASE DirOf(r, n) \in mode.gone
  BY <1>1, <1>2, <1>3, <1>4, GoesEnds DEF End
<1>5. CASE DirOf(r, n) \notin mode.gone
  <2>1. PICK todo, pc : todo = r.todo \ {n} /\ pc = IF r.todo = {n} THEN AfterLocks(r) ELSE r.pc
    OBVIOUS
  <2>2. PICK s : s = [r EXCEPT !.todo = todo, !.pc = pc]
    OBVIOUS
  <2>3. Set(p, s)
    BY <1>3, <1>5, <2>1, <2>2
  <2>4. IsProc(s) /\ Keeps(r, s) /\ s.pc = pc /\ s.todo = todo /\ s.auto = r.auto
    BY <1>1, <2>2 DEF IsProc, Fields, Keeps
  <2>5. Alone(p) /\ proc'[p] = s
    BY <1>2, <2>3, <2>4, SetAlone
  <2> QED BY <1>1, <1>2, <1>3, <1>5, <2>1, <2>4, <2>5
<1> QED BY <1>4, <1>5

LEMMA PlanRenameEffect ==
  ASSUME Typed, NEW p \in Procs, PlanRename(p)
  PROVE  LET r == proc[p]
             s == proc'[p] IN
         /\ Alone(p) /\ r.pc = "plan" /\ Keeps(r, s) /\ s.pc = "tickets" /\ s.todo = RenamePlan(r)
         /\ UNCHANGED <<scopes, lens, note, cue, files, config, flock, commit>>
<1>1. PICK r : r = proc[p] /\ IsProc(r)
  BY DEF Typed
<1>2. PICK t : t = RenamePlan(r)
  OBVIOUS
<1>3. PICK s : s = [r EXCEPT !.pc = "tickets", !.todo = t]
  OBVIOUS
<1>4. IsProc(s) /\ Keeps(r, s) /\ s.pc = "tickets" /\ s.todo = t
  BY <1>1, <1>3 DEF IsProc, Fields, Keeps
<1>5. /\ Set(p, s) /\ mode' = mode /\ r.pc = "plan"
      /\ UNCHANGED <<scopes, lens, note, cue, files, config, flock, commit>>
  BY <1>1, <1>2, <1>3 DEF PlanRename, store
<1>6. Alone(p) /\ proc'[p] = s
  BY <1>4, <1>5, SetAlone
<1> QED BY <1>1, <1>2, <1>4, <1>5, <1>6

LEMMA RenameTicketEffect ==
  ASSUME Typed, NEW p \in Procs, RenameTicket(p)
  PROVE  LET r == proc[p]
             s == proc'[p] IN
         /\ Alone(p) /\ r.pc = "tickets" /\ Keeps(r, s) /\ s.pc = "tickets"
         /\ \E t \in r.todo :
              \/ /\ s = r
                 /\ files' = [files EXCEPT ![r.dir] = @ \cup {<<t, r.cmd.to>>}]
              \/ /\ s.todo = r.todo \ {t} /\ <<t, r.cmd.to>> \in files[r.dir]
                 /\ files' = [files EXCEPT ![r.dir] = @ \ {<<t, r.cmd.name>>}]
         /\ UNCHANGED <<scopes, lens, note, cue, config, flock, commit>>
<1>1. PICK r : r = proc[p] /\ IsProc(r) /\ proc = [q \in Procs |-> proc[q]]
  BY DEF Typed
<1>2. r.pc = "tickets" /\ mode' = mode /\ UNCHANGED <<scopes, lens, note, cue, config, flock, commit>>
  BY <1>1 DEF RenameTicket, store
<1>3. PICK t \in r.todo :
        IF <<t, r.cmd.to>> \notin files[r.dir]
        THEN files' = [files EXCEPT ![r.dir] = @ \cup {<<t, r.cmd.to>>}] /\ UNCHANGED proc
        ELSE /\ files' = [files EXCEPT ![r.dir] = @ \ {<<t, r.cmd.name>>}]
             /\ Set(p, [r EXCEPT !.todo = @ \ {t}])
  BY <1>1 DEF RenameTicket
<1>4. CASE <<t, r.cmd.to>> \notin files[r.dir]
  <2>1. Alone(p) /\ Keeps(r, proc'[p]) /\ proc'[p] = r
    BY <1>1, <1>2, <1>3, <1>4 DEF Alone, Keeps
  <2> QED BY <1>1, <1>2, <1>3, <1>4, <2>1
<1>5. CASE <<t, r.cmd.to>> \in files[r.dir]
  <2>1. PICK s : s = [r EXCEPT !.todo = @ \ {t}]
    OBVIOUS
  <2>2. IsProc(s) /\ Keeps(r, s) /\ s.pc = r.pc /\ s.todo = r.todo \ {t}
    BY <1>1, <2>1 DEF IsProc, Fields, Keeps
  <2>3. Alone(p) /\ proc'[p] = s
    BY <1>2, <1>3, <1>5, <2>1, <2>2, SetAlone
  <2> QED BY <1>1, <1>2, <1>3, <1>5, <2>2, <2>3
<1> QED BY <1>4, <1>5

LEMMA RewriteNameEffect ==
  ASSUME Typed, NEW p \in Procs, RewriteName(p)
  PROVE  LET r == proc[p] IN
         /\ Alone(p) /\ r.pc = "tickets" /\ r.todo = {} /\ Ends(r, proc'[p], "commit")
         /\ cue' = IF r.name = r.cmd.to THEN cue ELSE [cue EXCEPT ![r.dir].name = r.cmd.to]
         /\ UNCHANGED <<scopes, lens, note, files, config, flock, commit>>
BY GoesEnds DEF RewriteName, store

LEMMA RekeyRegistryEffect ==
  ASSUME Typed, NEW p \in Procs, RekeyRegistry(p)
  PROVE  LET r == proc[p]
             s == proc'[p] IN
         /\ Alone(p) /\ r.pc = "config" /\ r.cmd.verb = "rename" /\ config = NoProc
         /\ \/ /\ Ends(r, s, "done") /\ r.cmd.name \notin DOMAIN scopes
               /\ config' = config /\ flock' = Released(flock, p)
            \/ Ends(r, s, "failed") /\ config' = config /\ flock' = Released(flock, p)
            \/ /\ config' = p /\ flock' = flock
               /\ r.cmd.name \in DOMAIN scopes /\ r.cmd.to \notin DOMAIN scopes
               /\ Keeps(r, s) /\ s.pc = "store" /\ s.mem = Changed(r) /\ s.writes = Written(r)
         /\ UNCHANGED <<scopes, lens, note, cue, files, commit>>
<1>1. PICK r : r = proc[p] /\ IsProc(r)
  BY DEF Typed
<1>2. /\ r.pc = "config" /\ r.cmd.verb = "rename" /\ config = NoProc /\ mode' = mode
      /\ UNCHANGED <<scopes, lens, note, cue, files, commit>>
  BY <1>1 DEF RekeyRegistry, store
<1>3. CASE r.cmd.name \notin DOMAIN scopes /\ End(p, "done") /\ UNCHANGED config
  BY <1>1, <1>2, <1>3, GoesEnds DEF End
<1>4. CASE End(p, "failed") /\ UNCHANGED config
  BY <1>1, <1>2, <1>4, GoesEnds DEF End
<1>5. CASE /\ r.cmd.name \in DOMAIN scopes /\ r.cmd.to \notin DOMAIN scopes
           /\ config' = p /\ UNCHANGED flock
           /\ Set(p, [r EXCEPT !.pc = "store", !.mem = Changed(r), !.writes = Written(r)])
  <2>1. PICK m, w : m = Changed(r) /\ w = Written(r)
    OBVIOUS
  <2>2. PICK s : s = [r EXCEPT !.pc = "store", !.mem = m, !.writes = w]
    OBVIOUS
  <2>3. IsProc(s) /\ Keeps(r, s) /\ s.pc = "store" /\ s.mem = m /\ s.writes = w
    BY <1>1, <2>2 DEF IsProc, Fields, Keeps
  <2>4. Alone(p) /\ proc'[p] = s
    BY <1>2, <1>5, <2>1, <2>2, <2>3, SetAlone
  <2> QED BY <1>1, <1>2, <1>5, <2>1, <2>3, <2>4
<1>6. \/ r.cmd.name \notin DOMAIN scopes /\ End(p, "done") /\ UNCHANGED config
      \/ End(p, "failed") /\ UNCHANGED config
      \/ /\ r.cmd.name \in DOMAIN scopes /\ r.cmd.to \notin DOMAIN scopes
         /\ config' = p /\ UNCHANGED flock
         /\ Set(p, [r EXCEPT !.pc = "store", !.mem = Changed(r), !.writes = Written(r)])
  BY <1>1 DEF RekeyRegistry
<1> QED BY <1>3, <1>4, <1>5, <1>6

LEMMA CheckSetEffect ==
  ASSUME Typed, NEW p \in Procs, CheckSet(p)
  PROVE  LET r == proc[p]
             s == proc'[p] IN
         /\ Alone(p) /\ r.pc = "check"
         /\ \/ Ends(r, s, "failed") /\ flock' = Released(flock, p)
            \/ /\ \A d \in DirsOf(r) : Usable(d)
               /\ flock' = flock /\ Keeps(r, s) /\ s.pc = "rewrite" /\ s.todo = r.peers
               /\ s.prev = [d \in DirsOf(r) |-> cue[d]] /\ s.auto = r.auto
         /\ UNCHANGED <<scopes, lens, note, cue, files, config, commit>>
<1>1. PICK r : r = proc[p] /\ IsProc(r)
  BY DEF Typed
<1>2. r.pc = "check" /\ mode' = mode /\ UNCHANGED <<scopes, lens, note, cue, files, config, commit>>
  BY <1>1 DEF CheckSet, store
<1>3. CASE (\A d \in DirsOf(r) : Usable(d)) /\ Ready(r)
  <2>1. PICK t, b : t = r.peers /\ b = [d \in DirsOf(r) |-> cue[d]]
    OBVIOUS
  <2>2. PICK s : s = [r EXCEPT !.pc = "rewrite", !.todo = t, !.prev = b]
    OBVIOUS
  <2>3. /\ IsProc(s) /\ Keeps(r, s) /\ s.pc = "rewrite" /\ s.todo = t /\ s.prev = b
        /\ s.auto = r.auto
    BY <1>1, <2>2 DEF IsProc, Fields, Keeps
  <2>4. Set(p, s) /\ flock' = flock
    BY <1>1, <1>3, <2>1, <2>2 DEF CheckSet
  <2>5. Alone(p) /\ proc'[p] = s
    BY <1>2, <2>3, <2>4, SetAlone
  <2> QED BY <1>1, <1>2, <1>3, <2>1, <2>3, <2>4, <2>5
<1>4. CASE ~((\A d \in DirsOf(r) : Usable(d)) /\ Ready(r))
  <2>1. End(p, "failed")
    BY <1>1, <1>4 DEF CheckSet
  <2> QED BY <1>1, <1>2, <2>1, GoesEnds DEF End
<1> QED BY <1>3, <1>4

LEMMA RewriteCueEffect ==
  ASSUME Typed, NEW p \in Procs, RewriteCue(p)
  PROVE  LET r == proc[p]
             s == proc'[p] IN
         /\ Alone(p) /\ r.pc = "rewrite"
         /\ \E n \in r.todo :
              /\ cue' = [cue EXCEPT ![DirOf(r, n)] = Rewritten(r, @)]
              /\ Keeps(r, s) /\ s.todo = r.todo \ {n} /\ s.auto = r.auto /\ s.prev = r.prev
              /\ s.pc = IF r.todo = {n} THEN "commit" ELSE "rewrite"
         /\ UNCHANGED <<scopes, lens, note, files, config, flock, commit>>
<1>1. PICK r : r = proc[p] /\ IsProc(r)
  BY DEF Typed
<1>2. r.pc = "rewrite" /\ mode' = mode /\ UNCHANGED <<scopes, lens, note, files, config, flock, commit>>
  BY <1>1 DEF RewriteCue, store
<1>3. PICK n \in r.todo :
        /\ cue' = [cue EXCEPT ![DirOf(r, n)] = Rewritten(r, @)]
        /\ Set(p, [r EXCEPT !.todo = @ \ {n}, !.pc = IF r.todo = {n} THEN "commit" ELSE @])
  BY <1>1 DEF RewriteCue
<1>4. PICK todo, pc : todo = r.todo \ {n} /\ pc = IF r.todo = {n} THEN "commit" ELSE r.pc
  OBVIOUS
<1>5. PICK s : s = [r EXCEPT !.todo = todo, !.pc = pc]
  OBVIOUS
<1>6. Set(p, s)
  BY <1>3, <1>4, <1>5
<1>7. IsProc(s) /\ Keeps(r, s) /\ s.pc = pc /\ s.todo = todo /\ s.auto = r.auto /\ s.prev = r.prev
  BY <1>1, <1>5 DEF IsProc, Fields, Keeps
<1>8. Alone(p) /\ proc'[p] = s
  BY <1>2, <1>6, <1>7, SetAlone
<1> QED BY <1>1, <1>2, <1>3, <1>4, <1>7, <1>8

LEMMA NotConfirmedEffect ==
  ASSUME Typed, NEW p \in Procs, NotConfirmed(p)
  PROVE  /\ Alone(p) /\ proc[p].pc = "commit" /\ proc[p].cmd.verb # "rename"
         /\ Ends(proc[p], proc'[p], "restore")
         /\ UNCHANGED <<scopes, lens, note, cue, files, config, flock, commit>>
BY GoesEnds DEF NotConfirmed, store

LEMMA RestoreCueEffect ==
  ASSUME Typed, NEW p \in Procs, RestoreCue(p)
  PROVE  LET r == proc[p]
             s == proc'[p] IN
         /\ Alone(p) /\ r.pc = "restore"
         /\ \/ r.prev = << >> /\ Ends(r, s, "failed") /\ flock' = Released(flock, p) /\ cue' = cue
            \/ \E d \in DOMAIN r.prev :
                 /\ cue' = [cue EXCEPT ![d] = r.prev[d]] /\ flock' = flock
                 /\ Keeps(r, s) /\ s.pc = "restore" /\ s.prev = Without(r.prev, d) /\ s.auto = r.auto
         /\ UNCHANGED <<scopes, lens, note, files, config, commit>>
<1>1. PICK r : r = proc[p] /\ IsProc(r)
  BY DEF Typed
<1>2. r.pc = "restore" /\ mode' = mode /\ UNCHANGED <<scopes, lens, note, files, config, commit>>
  BY <1>1 DEF RestoreCue, store
<1>3. CASE r.prev = << >>
  <2>1. End(p, "failed") /\ cue' = cue
    BY <1>1, <1>3 DEF RestoreCue
  <2> QED BY <1>1, <1>2, <1>3, <2>1, GoesEnds DEF End
<1>4. CASE r.prev # << >>
  <2>1. PICK d \in DOMAIN r.prev :
          /\ cue' = [cue EXCEPT ![d] = r.prev[d]] /\ flock' = flock
          /\ Set(p, [r EXCEPT !.prev = Without(@, d)])
    BY <1>1, <1>4 DEF RestoreCue
  <2>2. PICK b : b = Without(r.prev, d)
    OBVIOUS
  <2>3. PICK s : s = [r EXCEPT !.prev = b]
    OBVIOUS
  <2>4. IsProc(s) /\ Keeps(r, s) /\ s.pc = r.pc /\ s.prev = b /\ s.auto = r.auto
    BY <1>1, <2>3 DEF IsProc, Fields, Keeps
  <2>5. Alone(p) /\ proc'[p] = s
    BY <1>2, <2>1, <2>2, <2>3, <2>4, SetAlone
  <2> QED BY <1>1, <1>2, <2>1, <2>2, <2>4, <2>5
<1> QED BY <1>3, <1>4

LEMMA SelfCommitEffect ==
  ASSUME Typed, NEW p \in Procs, SelfCommit(p)
  PROVE  LET r == proc[p]
             s == proc'[p] IN
         /\ Alone(p) /\ r.pc = "commit"
         /\ \/ r.cmd.verb = "rename" /\ Ends(r, s, "config") /\ flock' = flock
            \/ r.cmd.verb # "rename" /\ Ends(r, s, "done") /\ flock' = Released(flock, p)
            \/ r.cmd.verb = "auto" /\ Ends(r, s, "restore") /\ flock' = flock
            \/ r.cmd.verb # "auto" /\ Ends(r, s, "failed") /\ flock' = Released(flock, p)
         /\ UNCHANGED <<scopes, lens, note, cue, files, config, commit>>
<1>1. /\ mode' = mode /\ proc[p].pc = "commit"
      /\ UNCHANGED <<scopes, lens, note, cue, files, config, commit>>
  BY DEF SelfCommit, store
<1>2. \/ proc[p].cmd.verb = "rename" /\ Goes(p, "config") /\ flock' = flock
      \/ proc[p].cmd.verb # "rename" /\ End(p, "done")
      \/ proc[p].cmd.verb = "auto" /\ Goes(p, "restore") /\ flock' = flock
      \/ proc[p].cmd.verb # "auto" /\ End(p, "failed")
  BY DEF SelfCommit
<1>3. CASE proc[p].cmd.verb = "rename" /\ Goes(p, "config") /\ flock' = flock
  BY <1>1, <1>3, GoesEnds
<1>4. CASE proc[p].cmd.verb # "rename" /\ End(p, "done")
  BY <1>1, <1>4, GoesEnds DEF End
<1>5. CASE proc[p].cmd.verb = "auto" /\ Goes(p, "restore") /\ flock' = flock
  BY <1>1, <1>5, GoesEnds
<1>6. CASE proc[p].cmd.verb # "auto" /\ End(p, "failed")
  BY <1>1, <1>6, GoesEnds DEF End
<1> QED BY <1>2, <1>3, <1>4, <1>5, <1>6

LEMMA TakeRootEffect ==
  ASSUME Typed, NEW p \in Procs, TakeRoot(p)
  PROVE  LET r == proc[p] IN
         /\ Alone(p) /\ r.pc = "root" /\ r.cmd.verb = "sync" /\ Ends(r, proc'[p], "synced")
         /\ commit[r.dir] = NoProc /\ commit' = [commit EXCEPT ![r.dir] = p]
         /\ UNCHANGED <<scopes, lens, note, cue, files, config, flock>>
BY GoesEnds DEF TakeRoot, store

LEMMA SyncEndEffect ==
  ASSUME Typed, NEW p \in Procs, SyncEnd(p)
  PROVE  /\ Alone(p) /\ proc[p].pc = "synced" /\ Ends(proc[p], proc'[p], "done")
         /\ flock' = Released(flock, p) /\ commit' = Released(commit, p)
         /\ UNCHANGED <<scopes, lens, note, cue, files, config>>
BY GoesEnds DEF SyncEnd, End, store

LEMMA RehomeCommitEffect ==
  ASSUME Typed, NEW p \in Procs, RehomeCommit(p)
  PROVE  /\ Alone(p) /\ proc[p].pc = "root" /\ Ends(proc[p], proc'[p], "done")
         /\ proc[p].cmd.verb = "rehome"
         /\ flock' = Released(flock, p)
         /\ UNCHANGED <<scopes, lens, note, cue, files, config, commit>>
BY GoesEnds DEF RehomeCommit, End, store

LEMMA DieEffect ==
  ASSUME Typed, NEW p \in Procs, Die(p)
  PROVE  /\ Alone(p) /\ Ends(proc[p], proc'[p], "dead") /\ proc[p].pc \notin Ended \cup {"new"}
         /\ config' = IF config = p THEN NoProc ELSE config
         /\ flock' = Released(flock, p) /\ commit' = Released(commit, p)
         /\ UNCHANGED <<scopes, lens, note, cue, files>>
BY GoesEnds DEF Die, store

LEMMA StepKeeps ==
  ASSUME Typed, NEW p \in Procs, Step(p) \/ Die(p)
  PROVE  Alone(p) /\ Keeps(proc[p], proc'[p]) /\ proc[p].pc \notin Ended \cup {"new"}
<1> USE DEF Ends, Ended
<1>1. CASE TakeConfig(p)
  BY <1>1, TakeConfigEffect
<1>2. CASE Store(p)
  BY <1>2, StoreEffect
<1>3. CASE TakeScope(p)
  BY <1>3, TakeScopeEffect
<1>4. CASE PlanRename(p)
  BY <1>4, PlanRenameEffect
<1>5. CASE RenameTicket(p)
  BY <1>5, RenameTicketEffect
<1>6. CASE RewriteName(p)
  BY <1>6, RewriteNameEffect
<1>7. CASE RekeyRegistry(p)
  BY <1>7, RekeyRegistryEffect
<1>8. CASE CheckSet(p)
  BY <1>8, CheckSetEffect
<1>9. CASE RewriteCue(p)
  BY <1>9, RewriteCueEffect
<1>10. CASE NotConfirmed(p)
  BY <1>10, NotConfirmedEffect
<1>11. CASE RestoreCue(p)
  BY <1>11, RestoreCueEffect
<1>12. CASE SelfCommit(p)
  BY <1>12, SelfCommitEffect
<1>13. CASE TakeRoot(p)
  BY <1>13, TakeRootEffect
<1>14. CASE SyncEnd(p)
  BY <1>14, SyncEndEffect
<1>15. CASE RehomeCommit(p)
  BY <1>15, RehomeCommitEffect
<1>16. CASE Die(p)
  BY <1>16, DieEffect
<1> QED BY <1>1, <1>2, <1>3, <1>4, <1>5, <1>6, <1>7, <1>8, <1>9, <1>10, <1>11, <1>12, <1>13, <1>14, <1>15, <1>16 DEF Step

(* A process that starts was fresh; what it becomes depends on the command.   *)
LEMMA StartOpens ==
  ASSUME Typed, Control, NEW p \in Procs, Start(p)
  PROVE  /\ Alone(p) /\ proc[p] = Fresh
         /\ \E c \in mode.commands : WellFormed(c) /\ proc'[p] = Opened(c)
         /\ UNCHANGED <<mode, scopes, lens, note, cue, files, config, flock, commit>>
<1>0. proc = [q \in Procs |-> proc[q]] /\ mode \in Modes
  BY DEF Typed
<1>1. PICK c \in mode.commands : Set(p, Opened(c))
  BY DEF Start
<1>2. WellFormed(c)
  BY <1>0, ModesAssumption DEF Sane
<1>3. IsProc(Opened(c))
  BY <1>2, OpenedShape
<1>4. proc[p] = Fresh
  BY DEF Start, Control, Placed
<1>5. mode' = mode /\ UNCHANGED <<scopes, lens, note, cue, files, config, flock, commit>>
  BY DEF Start, store
<1> QED BY <1>0, <1>1, <1>2, <1>3, <1>4, <1>5 DEF Set, Alone

(* What holds from then on: reasons to disagree, names given, repositories.   *)
Lasts ==
  /\ mode' = mode
  /\ \A q \in Procs : proc[q].cmd.verb # "none" => Keeps(proc[q], proc'[q])
LEMMA AlwaysLasts ==
  ASSUME Typed, Control, NEW p \in Procs, Start(p) \/ Step(p) \/ Die(p)
  PROVE  Lasts
<1>1. CASE Start(p)
  <2>1. proc[p].cmd.verb = "none"
    BY <1>1, StartOpens DEF Fresh, NoCommand
  <2> QED BY <1>1, <2>1, StartOpens DEF Lasts, Alone, Keeps
<1>2. CASE Step(p) \/ Die(p)
  BY <1>2, StepKeeps DEF Lasts, Alone, Keeps
<1> QED BY <1>1, <1>2

LEMMA ReasonsLast ==
  ASSUME Lasts
  PROVE  /\ \A d : InitTwice(d) => InitTwice(d)'
         /\ Anyway => Anyway'
         /\ \A d, n : RenamedTo(d, n) => RenamedTo(d, n)'
         /\ \A q \in Procs : \A d, e : Parts(proc[q], d, e) => Parts(proc'[q], d, e)
         /\ \A d : RepoRoot(d)' = RepoRoot(d)
<1>1. \A d : InitTwice(d) => InitTwice(d)'
  BY DEF Lasts, Keeps, InitTwice
<1>2. Anyway => Anyway'
  BY <1>1 DEF Lasts, Keeps, Anyway
<1>3. \A d, n : RenamedTo(d, n) => RenamedTo(d, n)'
  BY DEF Lasts, Keeps, RenamedTo
<1>4. \A q \in Procs : \A d, e : Parts(proc[q], d, e) => Parts(proc'[q], d, e)
  BY DEF Lasts, Keeps, Parts, DirsOf, DirOf
<1>5. \A d : RepoRoot(d)' = RepoRoot(d)
  BY DEF Lasts, RepoRoot
<1> QED BY <1>1, <1>2, <1>3, <1>4, <1>5

(* The ways a tk.cue is written: an init authors it, where there was none     *)
(* unless two inits race; a rename relabels it and a set changes its own part *)
(* or puts it back, under the flock.                                          *)
Authors(p, d) ==
  LET r == proc[p] IN
  /\ r.cmd.verb = "init" /\ r.pc = "store" /\ r.writes = <<"cue", "scopes">> /\ d = r.dir
  /\ cue[d] = NoCue \/ InitTwice(d)
  /\ cue'[d] = [name |-> r.name, auto |-> r.auto, field |-> FALSE]
  /\ proc'[p].pc = "store" /\ proc'[p].writes = <<"scopes">> /\ proc'[p].mem = r.mem
Relabels(p, d) ==
  LET r == proc[p] IN
  /\ r.cmd.verb = "rename" /\ r.pc = "tickets" /\ r.todo = {} /\ proc'[p].pc = "commit" /\ d = r.dir
  /\ flock[d] = p /\ cue[d] # NoCue
  /\ cue'[d].name = r.cmd.to /\ cue'[d].auto = cue[d].auto /\ cue'[d].field = cue[d].field
Sets(p, d) ==
  LET r == proc[p] IN
  /\ r.cmd.verb \in {"auto", "field"} /\ r.pc \in {"rewrite", "restore"}
  /\ proc'[p].pc \in {"rewrite", "commit", "restore"}
  /\ d \in DirsOf(r) /\ flock[d] = p /\ cue[d] # NoCue
  /\ OwnDiffers(r.cmd.verb, cue[d], cue'[d]) \/ InitTwice(d)
Touches(p, d) ==
  /\ \A e \in Dirs \ {d} : cue'[e] = cue[e]
  /\ cue'[d] \in Cues
  /\ Authors(p, d) \/ Relabels(p, d) \/ Sets(p, d)

LEMMA CueTypes ==
  /\ \A c \in Cues : c.name \in Names /\ c # NoCue
  /\ NoCue \notin Cues
BY NamesAreOrdered DEF Cues, NoCue, NoName

LEMMA CueAuto == \A x \in Cues \cup {NoCue} : x.auto \in BOOLEAN
<1>1. \A x \in Cues : x.auto \in BOOLEAN
  BY DEF Cues
<1>2. NoCue.auto = FALSE
  BY DEF NoCue
<1> QED BY <1>1, <1>2

LEMMA StoreTouches ==
  ASSUME IInv, NEW p \in Procs, Store(p), cue' # cue
  PROVE  proc[p].dir \in Dirs /\ Touches(p, proc[p].dir)
<1>1. PICK r, s : r = proc[p] /\ s = proc'[p]
  OBVIOUS
<1>2. /\ r.pc = "store" /\ s.writes = Tail(r.writes) /\ s.mem = r.mem
      /\ s.pc = (IF Len(r.writes) = 1 THEN "done" ELSE "store")
      /\ cue' = IF Head(r.writes) = "cue"
                THEN [cue EXCEPT ![r.dir] = [name |-> r.name, auto |-> r.auto, field |-> FALSE]]
                ELSE cue
  BY <1>1, StoreEffect DEF IInv
<1>3. Storing(r) /\ Placed(r)
  BY <1>1, <1>2 DEF IInv, Registry, Control
<1>4. Head(r.writes) = "cue"
  BY <1>2
<1>5. r.cmd.verb = "init" /\ r.writes = <<"cue", "scopes">>
  BY <1>3, <1>4 DEF Storing
<1>6. Head(<<"cue", "scopes">>) = "cue" /\ Len(<<"cue", "scopes">>) = 2 /\ Tail(<<"cue", "scopes">>) = <<"scopes">>
  OBVIOUS
<1>7. r.dir \in Dirs /\ r.name \in Names /\ r.auto \in BOOLEAN
  BY <1>2, <1>3, <1>5 DEF Placed, WellFormed
<1>8. cue[r.dir] = NoCue \/ InitTwice(r.dir)
  BY <1>1, <1>2, <1>4, <1>5 DEF IInv, Cued, CuePending
<1>9. cue'[r.dir] = [name |-> r.name, auto |-> r.auto, field |-> FALSE] /\ \A e \in Dirs \ {r.dir} : cue'[e] = cue[e]
  BY <1>2, <1>4, <1>7 DEF IInv, Typed
<1>10. cue'[r.dir] \in Cues
  BY <1>7, <1>9 DEF Cues
<1>11. Authors(p, r.dir)
  BY <1>1, <1>2, <1>5, <1>6, <1>8, <1>9 DEF Authors
<1> QED BY <1>1, <1>7, <1>9, <1>10, <1>11 DEF Touches

LEMMA RewriteNameTouches ==
  ASSUME IInv, NEW p \in Procs, RewriteName(p), cue' # cue
  PROVE  proc[p].dir \in Dirs /\ Touches(p, proc[p].dir)
<1>1. PICK r, s : r = proc[p] /\ s = proc'[p]
  OBVIOUS
<1>2. /\ r.pc = "tickets" /\ r.todo = {} /\ s.pc = "commit"
      /\ cue' = [cue EXCEPT ![r.dir].name = r.cmd.to]
  BY <1>1, RewriteNameEffect DEF IInv, Ends
<1>3. Placed(r) /\ Locking(p)
  BY <1>1 DEF IInv, Control, Locked
<1>4. r.cmd.verb = "rename" /\ r.cmd.to \in Names
  BY <1>2, <1>3 DEF Placed, WellFormed, Places, Ended
<1>5. r.dir \in Dirs /\ cue[r.dir] # NoCue /\ flock[r.dir] = p
  <2>1. r.dir \in DirsOf(r)
    BY <1>2, <1>3, <1>4 DEF Placed, Ended
  <2>2. r.dir \in Dirs /\ cue[r.dir] # NoCue
    BY <1>3, <2>1 DEF Placed, DirsOf
  <2>3. flock[r.dir] = p
    BY <1>1, <1>2, <1>3, <2>1 DEF Locking, Ended
  <2> QED BY <2>2, <2>3
<1>6. PICK c : c = cue[r.dir] /\ c \in Cues
  BY <1>5 DEF IInv, Typed
<1>7. cue'[r.dir] = [c EXCEPT !.name = r.cmd.to] /\ \A e \in Dirs \ {r.dir} : cue'[e] = cue[e]
  BY <1>2, <1>5, <1>6 DEF IInv, Typed
<1>8. cue'[r.dir] \in Cues /\ cue'[r.dir].name = r.cmd.to /\ cue'[r.dir].auto = c.auto /\ cue'[r.dir].field = c.field
  BY <1>4, <1>6, <1>7 DEF Cues
<1>9. Relabels(p, r.dir)
  BY <1>1, <1>2, <1>4, <1>5, <1>6, <1>8 DEF Relabels
<1> QED BY <1>1, <1>5, <1>7, <1>8, <1>9 DEF Touches

LEMMA RewriteCueTouches ==
  ASSUME IInv, NEW p \in Procs, RewriteCue(p)
  PROVE  \E n \in proc[p].todo :
           LET d == DirOf(proc[p], n) IN
           /\ d \in Dirs /\ Touches(p, d)
           /\ proc[p].cmd.verb = "auto" => cue'[d].auto = proc[p].auto
           /\ Keeps(proc[p], proc'[p]) /\ proc'[p].todo = proc[p].todo \ {n}
           /\ proc'[p].auto = proc[p].auto /\ proc'[p].prev = proc[p].prev
           /\ proc'[p].pc = IF proc[p].todo = {n} THEN "commit" ELSE "rewrite"
<1>1. PICK r, s : r = proc[p] /\ s = proc'[p]
  OBVIOUS
<1>2. PICK n \in r.todo :
        /\ cue' = [cue EXCEPT ![DirOf(r, n)] = Rewritten(r, @)]
        /\ Keeps(r, s) /\ s.todo = r.todo \ {n} /\ s.auto = r.auto /\ s.prev = r.prev
        /\ s.pc = IF r.todo = {n} THEN "commit" ELSE "rewrite"
  BY <1>1, RewriteCueEffect DEF IInv
<1>3. r.pc = "rewrite" /\ Placed(r) /\ Locking(p)
  BY <1>1, RewriteCueEffect DEF IInv, Control, Locked
<1>4. r.cmd.verb \in {"auto", "field"} /\ r.auto \in BOOLEAN /\ n \in r.peers
  BY <1>3, <1>2 DEF Placed, WellFormed, Places, Ended
<1>5. PICK d : d = DirOf(r, n)
  OBVIOUS
<1>6. d \in DirsOf(r) /\ d \in Dirs /\ cue[d] # NoCue /\ flock[d] = p
  BY <1>1, <1>3, <1>4, <1>5 DEF Placed, DirsOf, Locking, Ended
<1>7. PICK c : c = cue[d] /\ c \in Cues
  BY <1>6 DEF IInv, Typed
<1>8. cue'[d] = Rewritten(r, c) /\ \A e \in Dirs \ {d} : cue'[e] = cue[e]
  BY <1>2, <1>5, <1>6, <1>7 DEF IInv, Typed
<1>9. /\ Rewritten(r, c) \in Cues /\ OwnDiffers(r.cmd.verb, c, Rewritten(r, c))
      /\ r.cmd.verb = "auto" => Rewritten(r, c).auto = r.auto
  BY <1>4, <1>7 DEF Rewritten, Cues, OwnDiffers
<1>10. Sets(p, d)
  BY <1>1, <1>2, <1>3, <1>4, <1>6, <1>7, <1>8, <1>9 DEF Sets
<1> QED BY <1>1, <1>2, <1>5, <1>6, <1>8, <1>9, <1>10 DEF Touches

LEMMA RestoreCueTouches ==
  ASSUME IInv, NEW p \in Procs, RestoreCue(p), cue' # cue
  PROVE  \E d \in DOMAIN proc[p].prev :
           /\ d \in Dirs /\ Touches(p, d) /\ cue'[d] = proc[p].prev[d]
           /\ Keeps(proc[p], proc'[p]) /\ proc'[p].pc = "restore" /\ flock' = flock
           /\ proc'[p].prev = Without(proc[p].prev, d) /\ proc'[p].auto = proc[p].auto
<1>1. PICK r, s : r = proc[p] /\ s = proc'[p]
  OBVIOUS
<1>2. PICK d \in DOMAIN r.prev :
        /\ cue' = [cue EXCEPT ![d] = r.prev[d]] /\ flock' = flock
        /\ Keeps(r, s) /\ s.pc = "restore" /\ s.prev = Without(r.prev, d) /\ s.auto = r.auto
  BY <1>1, RestoreCueEffect DEF IInv
<1>3. r.pc = "restore" /\ Placed(r) /\ Locking(p) /\ Keeping(r)
  BY <1>1, RestoreCueEffect DEF IInv, Control, Locked, Kept
<1>4. r.cmd.verb \in {"auto", "field"}
  BY <1>3 DEF Placed, WellFormed, Places, Ended
<1>5. /\ d \in DirsOf(r) /\ r.prev[d] \in Cues
      /\ OwnDiffers(r.cmd.verb, r.prev[d], cue[d]) \/ InitTwice(d)
  BY <1>2, <1>3, <1>4 DEF Keeping
<1>6. d \in Dirs /\ cue[d] # NoCue /\ flock[d] = p
  BY <1>1, <1>3, <1>5 DEF Placed, DirsOf, Locking, Ended
<1>7. cue'[d] = r.prev[d] /\ \A e \in Dirs \ {d} : cue'[e] = cue[e]
  BY <1>2, <1>6 DEF IInv, Typed
<1>8. OwnDiffers(r.cmd.verb, cue[d], cue'[d]) \/ InitTwice(d)
  BY <1>5, <1>7 DEF OwnDiffers
<1>9. Sets(p, d)
  BY <1>1, <1>2, <1>3, <1>4, <1>5, <1>6, <1>8 DEF Sets
<1> QED BY <1>1, <1>2, <1>5, <1>6, <1>7, <1>9 DEF Touches

(* Every step leaves all tk.cue alone or touches one.                          *)
LEMMA CueSteps ==
  ASSUME IInv, NEW p \in Procs, Start(p) \/ Step(p) \/ Die(p)
  PROVE  /\ cue' = cue \/ \E d \in Dirs : Touches(p, d)
         /\ cue' \in [Dirs -> Cues \cup {NoCue}]
         /\ \A d \in Dirs : cue[d] # NoCue => cue'[d] # NoCue
<1>0. Typed /\ Control
  BY DEF IInv
<1>1. cue' = cue \/ \E d \in Dirs : Touches(p, d)
  <2>1. CASE Start(p)
    BY <1>0, <2>1, StartOpens
  <2>2. CASE Store(p)
    BY <2>2, StoreTouches
  <2>3. CASE RewriteName(p)
    BY <2>3, RewriteNameTouches
  <2>4. CASE RewriteCue(p)
    BY <2>4, RewriteCueTouches
  <2>5. CASE RestoreCue(p)
    BY <2>5, RestoreCueTouches
  <2>6. CASE TakeConfig(p) \/ TakeScope(p) \/ PlanRename(p) \/ RenameTicket(p) \/ RekeyRegistry(p)
    BY <1>0, <2>6, TakeConfigEffect, TakeScopeEffect, PlanRenameEffect, RenameTicketEffect, RekeyRegistryEffect
  <2>7. CASE CheckSet(p) \/ NotConfirmed(p) \/ SelfCommit(p)
    BY <1>0, <2>7, CheckSetEffect, NotConfirmedEffect, SelfCommitEffect
  <2>8. CASE TakeRoot(p) \/ SyncEnd(p) \/ RehomeCommit(p) \/ Die(p)
    BY <1>0, <2>8, TakeRootEffect, SyncEndEffect, RehomeCommitEffect, DieEffect
  <2> QED BY <2>1, <2>2, <2>3, <2>4, <2>5, <2>6, <2>7, <2>8 DEF Step
<1>2. DOMAIN cue' = Dirs /\ cue' = [d \in Dirs |-> cue'[d]]
  <2>0. cue \in [Dirs -> Cues \cup {NoCue}]
    BY <1>0 DEF Typed
  <2>1. CASE Start(p)
    BY <1>0, <2>0, <2>1, StartOpens
  <2>2. CASE Store(p)
    BY <1>0, <2>0, <2>2, StoreEffect
  <2>3. CASE RewriteName(p)
    BY <1>0, <2>0, <2>3, RewriteNameEffect
  <2>4. CASE RewriteCue(p)
    BY <1>0, <2>0, <2>4, RewriteCueEffect
  <2>5. CASE RestoreCue(p)
    BY <1>0, <2>0, <2>5, RestoreCueEffect
  <2>6. CASE TakeConfig(p) \/ TakeScope(p) \/ PlanRename(p) \/ RenameTicket(p) \/ RekeyRegistry(p)
    BY <1>0, <2>0, <2>6, TakeConfigEffect, TakeScopeEffect, PlanRenameEffect, RenameTicketEffect, RekeyRegistryEffect
  <2>7. CASE CheckSet(p) \/ NotConfirmed(p) \/ SelfCommit(p)
    BY <1>0, <2>0, <2>7, CheckSetEffect, NotConfirmedEffect, SelfCommitEffect
  <2>8. CASE TakeRoot(p) \/ SyncEnd(p) \/ RehomeCommit(p) \/ Die(p)
    BY <1>0, <2>0, <2>8, TakeRootEffect, SyncEndEffect, RehomeCommitEffect, DieEffect
  <2> QED BY <2>1, <2>2, <2>3, <2>4, <2>5, <2>6, <2>7, <2>8 DEF Step
<1>3. cue' \in [Dirs -> Cues \cup {NoCue}]
  BY <1>0, <1>1, <1>2 DEF Typed, Touches
<1>4. \A d \in Dirs : cue[d] # NoCue => cue'[d] # NoCue
  BY <1>1, CueTypes DEF Touches
<1> QED BY <1>1, <1>3, <1>4

-----------------------------------------------------------------------------
(* Control: processes are where their commands go.                           *)

LEMMA PlacedCarries ==
  ASSUME NEW r, Placed(r), mode' = mode, \A d \in Dirs : cue[d] # NoCue => cue'[d] # NoCue
  PROVE  Placed(r)'
<1>1. \A d : RepoRoot(d)' = RepoRoot(d)
  BY DEF RepoRoot
<1>2. r.pc = "new" => r = Fresh
  BY DEF Placed
<1>3. r.pc # "new" => WellFormed(r.cmd) /\ r.pc \in Places(r.cmd.verb) \cup Ended
  BY DEF Placed
<1>4. \A n \in r.peers : DirOf(r, n) \in Dirs /\ cue'[DirOf(r, n)] # NoCue
  BY DEF Placed
<1>5. r.cmd.verb = "import" /\ r.pc \in {"config", "store"} => cue'[r.dir] # NoCue
  BY DEF Placed, WellFormed
<1>6. r.cmd.verb = "auto" => \A d \in DirsOf(r) : RepoRoot(d)' # NoPath => RepoRoot(d)' = RepoRoot(r.dir)'
  BY <1>1 DEF Placed
<1> QED BY <1>2, <1>3, <1>4, <1>5, <1>6 DEF Placed

LEMMA KeepsDirs ==
  ASSUME NEW r, NEW s, Keeps(r, s)
  PROVE  DirsOf(s) = DirsOf(r) /\ \A n : DirOf(s, n) = DirOf(r, n)
BY DEF Keeps, DirsOf, DirOf

LEMMA PlacedAgain ==
  ASSUME NEW r, NEW s, Placed(r), Keeps(r, s), r.pc \notin Ended \cup {"new"},
         s.pc \in Places(r.cmd.verb) \cup Ended, s.pc # "new", s.auto \in BOOLEAN,
         s.pc \in {"lock", "rewrite"} => s.todo \subseteq r.peers,
         s.pc = "tickets" => s.todo \subseteq Tickets,
         s.pc \in {"config", "store"} => r.pc \in {"config", "store"} \/ r.cmd.verb = "rename"
  PROVE  Placed(s)
<1>1. DirsOf(s) = DirsOf(r) /\ \A n : DirOf(s, n) = DirOf(r, n)
  BY KeepsDirs
<1>2. s.peers = r.peers /\ s.peers \subseteq DOMAIN s.snap
  BY DEF Placed, Keeps
<1>3. \A n \in s.peers : DirOf(s, n) \in Dirs /\ cue[DirOf(s, n)] # NoCue
  BY <1>1, <1>2 DEF Placed
<1>4. s.cmd = r.cmd /\ s.dir = r.dir /\ s.name = r.name /\ WellFormed(s.cmd)
  BY DEF Placed, Keeps
<1>5. s.cmd.verb \in {"init", "import"} /\ s.pc \in {"config", "store"} => s.dir = s.cmd.dir
  BY <1>4 DEF Placed
<1>6. s.cmd.verb = "import" /\ s.pc \in {"config", "store"} => cue[s.dir] # NoCue
  BY <1>4 DEF Placed
<1>7. /\ s.cmd.verb = "init" /\ s.pc \in {"config", "store"} => s.name = s.cmd.name
      /\ s.cmd.verb \in {"import", "lens", "note"} /\ s.pc \in {"config", "store"} => s.name \in Names
  BY <1>4 DEF Placed
<1>8. s.cmd.verb \in {"init", "import", "rebind", "forget", "lens", "note"} => s.peers = {}
  BY <1>2, <1>4 DEF Placed
<1>9. s.cmd.verb \in {"rename", "field"} => s.peers # {} /\ DirsOf(s) = {s.dir}
  BY <1>1, <1>2, <1>4 DEF Placed
<1>10. s.cmd.verb = "auto" =>
         \A d \in DirsOf(s) : RepoRoot(d) # NoPath => RepoRoot(d) = RepoRoot(s.dir)
  BY <1>1, <1>4 DEF Placed
<1> QED BY <1>2, <1>3, <1>4, <1>5, <1>6, <1>7, <1>8, <1>9, <1>10 DEF Placed

LEMMA EndsPlaced ==
  ASSUME NEW r, NEW s, NEW pc, Placed(r), r.pc \notin Ended \cup {"new"}, Ends(r, s, pc),
         pc \in Places(r.cmd.verb) \cup Ended, pc \notin {"new", "lock", "rewrite", "tickets"},
         pc \in {"config", "store"} => r.cmd.verb = "rename"
  PROVE  Placed(s)
<1>1. Keeps(r, s) /\ s.pc = pc /\ s.auto = r.auto /\ r.auto \in BOOLEAN
  BY DEF Ends, Placed
<1> QED BY <1>1, PlacedAgain

(* What a command has once it has started.                                    *)
LEMMA OpenedPlaced ==
  ASSUME IInv, NEW c, WellFormed(c)
  PROVE  Placed(Opened(c))
<1> DEFINE r == Opened(c)
<1>0. /\ \A n \in DOMAIN scopes : scopes[n].dir \in Dirs /\ cue[scopes[n].dir] # NoCue
      /\ \A d \in Dirs : cue[d].auto \in BOOLEAN
  <2>1. \A n \in DOMAIN scopes : scopes[n].dir \in Dirs /\ cue[scopes[n].dir] # NoCue
    BY DEF IInv, Typed, Cued
  <2>2. \A x \in Cues \cup {NoCue} : x.auto \in BOOLEAN
    BY CueAuto
  <2>3. \A d \in Dirs : cue[d] \in Cues \cup {NoCue}
    BY DEF IInv, Typed
  <2> QED BY <2>1, <2>2, <2>3
<1>1. IsProc(Fresh) /\ IsProc(r) /\ r.cmd = c
  BY OpenedShape, FreshIsProc
<1>2. /\ Fresh.peers = {} /\ Fresh.auto = FALSE /\ Fresh.todo = {}
  BY DEF Fresh
<1>3. ASSUME r = Refused(c) PROVE Placed(r)
  <2>1. r.pc = "failed" /\ r.peers = {} /\ r.auto = FALSE
    BY <1>1, <1>2, <1>3 DEF Refused, IsProc, Fields
  <2> QED BY <1>1, <2>1 DEF Placed, Ended, DirsOf
<1>4. \A d : LET s == Starting(c, d) IN
        /\ IsProc(s) /\ s.cmd = c /\ s.snap = scopes /\ s.dir = d /\ s.peers = {} /\ s.auto = FALSE
        /\ s.todo = {}
  BY <1>1, <1>2 DEF Starting, IsProc, Fields
<1>5. CASE c.verb = "init"
  <2>1. CASE cue[c.dir] # NoCue
    BY <1>3, <1>5, <2>1 DEF Opened, OpenInit
  <2>2. CASE cue[c.dir] = NoCue
    <3>1. r = [Starting(c, c.dir) EXCEPT !.pc = "config", !.name = c.name]
      BY <1>5, <2>2 DEF Opened, OpenInit
    <3>2. r.pc = "config" /\ r.name = c.name /\ r.dir = c.dir /\ r.peers = {} /\ r.auto = FALSE
      BY <1>4, <3>1 DEF IsProc, Fields
    <3> QED BY <1>1, <1>5, <3>2 DEF Placed, Ended, DirsOf, Places
  <2> QED BY <2>1, <2>2
<1>6. CASE c.verb = "import"
  <2>1. CASE ~Usable(c.dir)
    BY <1>3, <1>6, <2>1 DEF Opened, OpenImport
  <2>2. CASE Usable(c.dir)
    <3>1. r = [Starting(c, c.dir) EXCEPT !.pc = "config", !.name = cue[c.dir].name, !.auto = cue[c.dir].auto]
      BY <1>6, <2>2 DEF Opened, OpenImport
    <3>2. c.dir \in Dirs /\ cue[c.dir] # NoCue
      BY <1>6, <2>2 DEF WellFormed, Usable
    <3>3. r.pc = "config" /\ r.dir = c.dir /\ r.peers = {} /\ r.auto \in BOOLEAN /\ r.name = cue[c.dir].name
      BY <1>0, <1>4, <3>1, <3>2 DEF IsProc, Fields
    <3>4. r.name \in Names
      BY <3>2, <3>3, CueTypes DEF IInv, Typed
    <3> QED BY <1>1, <1>6, <3>2, <3>3, <3>4 DEF Placed, Ended, DirsOf, Places
  <2> QED BY <2>1, <2>2
<1>7. CASE c.verb \in {"rebind", "forget"}
  <2>1. r = [Starting(c, c.dir) EXCEPT !.pc = "config", !.name = c.name]
    BY <1>7 DEF Opened, OpenRegistered
  <2>2. r.pc = "config" /\ r.peers = {} /\ r.auto = FALSE
    BY <1>4, <2>1 DEF IsProc, Fields
  <2> QED BY <1>1, <1>7, <2>2 DEF Placed, Ended, DirsOf, Places
<1>8. CASE c.verb \in {"lens", "note"}
  <2>1. PICK n : n = Resolve(scopes, c)
    OBVIOUS
  <2>2. CASE n = NoName
    BY <1>3, <1>8, <2>1, <2>2 DEF Opened, OpenSession
  <2>3. CASE n # NoName
    <3>1. r = [Starting(c, scopes[n].dir) EXCEPT !.pc = "config", !.name = n]
      BY <1>8, <2>1, <2>3 DEF Opened, OpenSession
    <3>2. r.pc = "config" /\ r.peers = {} /\ r.auto = FALSE /\ r.name = n
      BY <1>4, <3>1 DEF IsProc, Fields
    <3>3. n \in Names
      BY <2>1, <2>3 DEF Resolve, IInv, Typed
    <3> QED BY <1>1, <1>8, <3>2, <3>3 DEF Placed, Ended, DirsOf, Places
  <2> QED BY <2>2, <2>3
<1>9. CASE c.verb = "rename"
  <2>0. CASE r = Refused(c)
    BY <1>3, <2>0
  <2>1. CASE r # Refused(c)
    <3>1. PICK d : d = scopes[c.name].dir
      OBVIOUS
    <3>2. /\ c.name \in DOMAIN scopes /\ Usable(d)
          /\ r = [Starting(c, d) EXCEPT !.pc = "lock", !.name = cue[d].name, !.auto = cue[d].auto,
                                        !.todo = {c.name}, !.peers = {c.name}]
      BY <1>9, <2>1, <3>1 DEF Opened, OpenRename
    <3>3. d \in Dirs /\ cue[d] # NoCue /\ cue[d].auto \in BOOLEAN
      BY <1>0, <3>1, <3>2
    <3>4. r.pc = "lock" /\ r.peers = {c.name} /\ r.todo = {c.name} /\ r.dir = d /\ r.snap = scopes /\ r.auto \in BOOLEAN
      BY <1>4, <3>2, <3>3 DEF IsProc, Fields
    <3>5. DirsOf(r) = {d} /\ r.peers \subseteq DOMAIN r.snap /\ \A n \in r.peers : DirOf(r, n) = d
      BY <3>1, <3>2, <3>4 DEF DirsOf, DirOf
    <3> QED BY <1>1, <1>9, <3>3, <3>4, <3>5 DEF Placed, Ended, Places
  <2> QED BY <2>0, <2>1
<1>10. CASE c.verb = "auto"
  <2>0. CASE r = Refused(c)
    BY <1>3, <2>0
  <2>1. CASE r # Refused(c)
    <3>1. PICK n : n = Resolve(scopes, c)
      OBVIOUS
    <3>2. PICK d, ps : d = scopes[n].dir /\ ps = Peers(n)
      OBVIOUS
    <3>3. /\ n # NoName
          /\ r = [Starting(c, d) EXCEPT !.pc = "lock", !.name = n, !.auto = c.auto = "true",
                                        !.todo = ps, !.peers = ps]
      BY <1>10, <2>1, <3>1, <3>2 DEF Opened, OpenAuto
    <3>4. n \in DOMAIN scopes
      BY <3>1, <3>3 DEF Resolve
    <3>5. /\ ps \subseteq DOMAIN scopes
          /\ \A q \in ps : RepoRoot(scopes[q].dir) # NoPath => RepoRoot(scopes[q].dir) = RepoRoot(d)
      BY <3>2, <3>4 DEF Peers, GitRootScopes
    <3>6. r.pc = "lock" /\ r.peers = ps /\ r.todo = ps /\ r.dir = d /\ r.snap = scopes /\ r.auto \in BOOLEAN
      BY <1>4, <3>3 DEF IsProc, Fields
    <3> QED BY <1>0, <1>1, <1>10, <3>4, <3>5, <3>6 DEF Placed, Ended, DirsOf, DirOf, Places
  <2> QED BY <2>0, <2>1
<1>11. CASE c.verb = "field"
  <2>0. CASE r = Refused(c)
    BY <1>3, <2>0
  <2>1. CASE r # Refused(c)
    <3>1. PICK n : n = Resolve(scopes, c)
      OBVIOUS
    <3>2. PICK d : d = scopes[n].dir
      OBVIOUS
    <3>3. /\ n # NoName
          /\ r = [Starting(c, d) EXCEPT !.pc = "lock", !.name = n, !.auto = cue[d].auto,
                                        !.todo = {n}, !.peers = {n}]
      BY <1>11, <2>1, <3>1, <3>2 DEF Opened, OpenField
    <3>4. n \in DOMAIN scopes
      BY <3>1, <3>3 DEF Resolve
    <3>5. d \in Dirs /\ cue[d].auto \in BOOLEAN /\ cue[d] # NoCue
      BY <1>0, <3>2, <3>4
    <3>6. r.pc = "lock" /\ r.peers = {n} /\ r.todo = {n} /\ r.dir = d /\ r.snap = scopes /\ r.auto \in BOOLEAN
      BY <1>4, <3>3, <3>5 DEF IsProc, Fields
    <3> QED BY <1>1, <1>11, <3>2, <3>4, <3>5, <3>6 DEF Placed, Ended, DirsOf, DirOf, Places
  <2> QED BY <2>0, <2>1
<1>12. CASE c.verb = "sync"
  <2>0. CASE r = Refused(c)
    BY <1>3, <2>0
  <2>1. CASE r # Refused(c)
    <3>1. PICK ps : ps = Participants(c.root)
      OBVIOUS
    <3>2. r = [Starting(c, c.root) EXCEPT !.pc = "lock", !.todo = ps, !.peers = ps]
      BY <1>12, <2>1, <3>1 DEF Opened, OpenSync
    <3>3. ps \subseteq DOMAIN scopes
      BY <3>1 DEF Participants, GitRootScopes
    <3>4. r.pc = "lock" /\ r.peers = ps /\ r.todo = ps /\ r.snap = scopes /\ r.auto = FALSE
      BY SMTT(40), <1>4, <3>2 DEF IsProc, Fields
    <3> QED BY <1>0, <1>1, <1>12, <3>3, <3>4 DEF Placed, Ended, DirsOf, DirOf, Places
  <2> QED BY <2>0, <2>1
<1>13. CASE c.verb = "rehome"
  <2>0. CASE r = Refused(c)
    BY <1>3, <2>0
  <2>1. CASE r # Refused(c)
    <3>1. PICK ps : ps = {c.name, c.to}
      OBVIOUS
    <3>2. /\ r = [Starting(c, scopes[c.name].dir) EXCEPT !.pc = "lock", !.name = c.name, !.todo = ps, !.peers = ps]
          /\ ps \subseteq DOMAIN scopes
      BY <1>13, <2>1, <3>1 DEF Opened, OpenRehome
    <3>3. r.pc = "lock" /\ r.peers = ps /\ r.todo = ps /\ r.snap = scopes /\ r.auto = FALSE
      BY <1>4, <3>2 DEF IsProc, Fields
    <3> QED BY <1>0, <1>1, <1>13, <3>2, <3>3 DEF Placed, Ended, DirsOf, DirOf, Places
  <2> QED BY <2>0, <2>1
<1> QED BY <1>5, <1>6, <1>7, <1>8, <1>9, <1>10, <1>11, <1>12, <1>13 DEF WellFormed

LEMMA SelfPlaced ==
  ASSUME IInv, NEW p \in Procs, Start(p) \/ Step(p) \/ Die(p)
  PROVE  Placed(proc'[p])
<1>0. Typed /\ Control
  BY DEF IInv
<1>1. PICK r, s : r = proc[p] /\ s = proc'[p]
  OBVIOUS
<1>2. Placed(r)
  BY <1>0, <1>1 DEF Control
<1>3. CASE Start(p)
  BY <1>0, <1>3, StartOpens, OpenedPlaced
<1>4. CASE Step(p) \/ Die(p)
  <2>0. r.pc \notin Ended \cup {"new"} /\ Keeps(r, s) /\ WellFormed(r.cmd) /\ r.pc \in Places(r.cmd.verb)
    BY <1>0, <1>1, <1>2, <1>4, StepKeeps DEF Placed
  <2>1. CASE TakeConfig(p)
    <3>1. r.pc = "config" /\ r.cmd.verb # "rename"
      BY <1>0, <1>1, <2>1, TakeConfigEffect
    <3>2. CASE Ends(r, s, "failed")
      BY <1>1, <1>2, <2>0, <3>2, EndsPlaced DEF Ended
    <3>3. CASE /\ s.pc = "store" /\ ~ConfigRefused(r)
               /\ s.auto = IF r.cmd.verb = "init" THEN InitAutoCommit(scopes, r.cmd) ELSE r.auto
      <4>1. InitAutoCommit(scopes, r.cmd) \in BOOLEAN
        <5>1. \A x \in Cues \cup {NoCue} : x.auto \in BOOLEAN
          BY CueAuto
        <5>2. SiblingValues(scopes, RepoRootForNew(r.cmd.dir)) \subseteq BOOLEAN
          BY <1>0, <5>1 DEF SiblingValues, Siblings, GitRootScopes, Typed
        <5>3. PICK values : values = SiblingValues(scopes, RepoRootForNew(r.cmd.dir))
          OBVIOUS
        <5>4. CASE values # {}
          <6>1. (CHOOSE v \in values : TRUE) \in values
            BY <5>4
          <6> QED BY <5>2, <5>3, <5>4, <6>1 DEF InitAutoCommit
        <5>5. CASE values = {}
          BY <5>3, <5>5 DEF InitAutoCommit
        <5> QED BY <5>4, <5>5
      <4>2. s.auto \in BOOLEAN
        BY <1>2, <3>3, <4>1 DEF Placed
      <4>3. s.pc \in Places(s.cmd.verb)
        BY <2>0, <3>1, <3>3 DEF Keeps, Places, WellFormed
      <4>4. r.cmd.verb \notin {"rename", "field", "auto"}
        BY <2>0, <3>1 DEF Places
      <4> QED BY <1>1, <1>2, <2>0, <3>1, <3>3, <4>2, <4>3, PlacedAgain DEF Keeps
    <3> QED BY <1>0, <1>1, <2>1, <3>2, <3>3, TakeConfigEffect
  <2>2. CASE Store(p)
    <3>1. r.pc = "store" /\ s.auto = r.auto /\ s.pc \in {"done", "store"}
      BY <1>0, <1>1, <2>2, StoreEffect
    <3>2. s.auto \in BOOLEAN /\ s.pc \in Places(r.cmd.verb) \cup Ended /\ s.pc # "new"
      BY <1>2, <2>0, <3>1 DEF Placed, Ended
    <3> QED BY <1>1, <1>2, <2>0, <3>1, <3>2, PlacedAgain
  <2>3. CASE TakeScope(p)
    <3>1. r.pc = "lock"
      BY <1>0, <1>1, <2>3, TakeScopeEffect
    <3>2. CASE Ends(r, s, "failed")
      BY <1>1, <1>2, <2>0, <3>2, EndsPlaced DEF Ended
    <3>3. ASSUME NEW n \in r.todo, s.todo = r.todo \ {n},
                 s.pc = IF r.todo = {n} THEN AfterLocks(r) ELSE "lock", s.auto = r.auto
          PROVE Placed(s)
      <4>1. r.cmd.verb \in {"rename", "auto", "field", "sync", "rehome"}
        BY <2>0, <3>1 DEF Places, WellFormed
      <4>2. /\ AfterLocks(r) \in Places(r.cmd.verb) /\ AfterLocks(r) \in {"plan", "check", "root"}
        BY <4>1 DEF AfterLocks, Places
      <4>3. s.pc \in Places(s.cmd.verb) /\ s.pc \in {"lock", "plan", "check", "root"}
        BY <2>0, <3>1, <3>3, <4>2 DEF Keeps
      <4>4. s.auto \in BOOLEAN /\ s.todo \subseteq r.peers
        BY <1>2, <3>1, <3>3 DEF Placed
      <4> QED BY <1>2, <2>0, <3>1, <3>3, <4>3, <4>4, PlacedAgain DEF Keeps
    <3> QED BY <1>0, <1>1, <2>3, <3>2, <3>3, TakeScopeEffect
  <2>4. CASE PlanRename(p)
    <3>1. r.pc = "plan" /\ s.pc = "tickets" /\ s.todo = RenamePlan(r)
      BY <1>0, <1>1, <2>4, PlanRenameEffect
    <3>2. IsProc(s)
      BY <1>0, <1>1, <2>4, PlanRenameEffect DEF Alone
    <3>3. s.auto \in BOOLEAN
      <4>1. Set(p, [r EXCEPT !.pc = "tickets", !.todo = RenamePlan(r)])
        BY <1>1, <2>4 DEF PlanRename
      <4>2. s = [r EXCEPT !.pc = "tickets", !.todo = RenamePlan(r)] /\ IsProc(r)
        BY <1>0, <1>1, <4>1 DEF Set, Typed
      <4>3. s.auto = r.auto
        BY <4>2 DEF IsProc, Fields
      <4> QED BY <1>2, <4>3 DEF Placed
    <3>4. r.cmd.verb = "rename" /\ s.todo \subseteq Tickets
      BY <2>0, <3>1 DEF Places, WellFormed, RenamePlan
    <3>5. s.pc \in Places(r.cmd.verb)
      BY <3>1, <3>4 DEF Places
    <3> QED BY <1>1, <1>2, <2>0, <3>1, <3>3, <3>4, <3>5, PlacedAgain
  <2>5. CASE RenameTicket(p)
    <3>1. r.pc = "tickets" /\ s.pc = "tickets" /\ \E t \in r.todo : s = r \/ s.todo = r.todo \ {t}
      BY <1>0, <1>1, <2>5, RenameTicketEffect
    <3>2. s.auto \in BOOLEAN
      <4>1. s = r \/ \E t \in r.todo : s = [r EXCEPT !.todo = @ \ {t}]
        BY <1>0, <1>1, <2>5 DEF RenameTicket, Set, Typed
      <4>2. IsProc(r)
        BY <1>0, <1>1 DEF Typed
      <4>3. s.auto = r.auto
        BY <4>1, <4>2 DEF IsProc, Fields
      <4> QED BY <1>2, <4>3 DEF Placed
    <3>3. r.cmd.verb = "rename" /\ s.todo \subseteq Tickets
      BY <1>2, <2>0, <3>1 DEF Places, WellFormed, Placed
    <3>4. s.pc \in Places(r.cmd.verb)
      BY <3>1, <3>3 DEF Places
    <3> QED BY <1>1, <1>2, <2>0, <3>1, <3>2, <3>3, <3>4, PlacedAgain
  <2>6. CASE RewriteName(p)
    <3>1. r.pc = "tickets" /\ Ends(r, s, "commit")
      BY <1>0, <1>1, <2>6, RewriteNameEffect
    <3>2. "commit" \in Places(r.cmd.verb)
      BY <2>0, <3>1 DEF Places, WellFormed
    <3> QED BY <1>1, <1>2, <2>0, <3>1, <3>2, EndsPlaced
  <2>7. CASE RekeyRegistry(p)
    <3>1. r.pc = "config" /\ r.cmd.verb = "rename"
      BY <1>0, <1>1, <2>7, RekeyRegistryEffect
    <3>2. CASE Ends(r, s, "done") \/ Ends(r, s, "failed")
      BY <1>1, <1>2, <2>0, <3>2, EndsPlaced DEF Ended
    <3>3. CASE s.pc = "store"
      <4>1. s.auto \in BOOLEAN
        <5>1. PICK m, w : m = Changed(r) /\ w = Written(r)
          OBVIOUS
        <5>2. s = [r EXCEPT !.pc = "done"] \/ s = [r EXCEPT !.pc = "failed"]
              \/ s = [r EXCEPT !.pc = "store", !.mem = m, !.writes = w]
          BY <1>0, <1>1, <2>7, <5>1 DEF RekeyRegistry, End, Goes, Set, Typed
        <5>3. IsProc(r)
          BY <1>0, <1>1 DEF Typed
        <5>4. s.auto = r.auto
          BY <5>2, <5>3 DEF IsProc, Fields
        <5> QED BY <1>2, <5>4 DEF Placed
      <4>2. s.pc \in Places(r.cmd.verb)
        BY <3>1, <3>3 DEF Places
      <4> QED BY <1>1, <1>2, <2>0, <3>1, <3>3, <4>1, <4>2, PlacedAgain
    <3> QED BY <1>0, <1>1, <2>7, <3>2, <3>3, RekeyRegistryEffect
  <2>8. CASE CheckSet(p)
    <3>1. r.pc = "check"
      BY <1>0, <1>1, <2>8, CheckSetEffect
    <3>2. CASE Ends(r, s, "failed")
      BY <1>1, <1>2, <2>0, <3>2, EndsPlaced DEF Ended
    <3>3. CASE s.pc = "rewrite" /\ s.todo = r.peers /\ s.auto = r.auto
      <4>1. r.cmd.verb \in {"auto", "field"}
        BY <2>0, <3>1 DEF Places, WellFormed
      <4>2. s.pc \in Places(r.cmd.verb) /\ s.auto \in BOOLEAN
        BY <1>2, <3>3, <4>1 DEF Places, Placed
      <4> QED BY <1>1, <1>2, <2>0, <3>3, <4>2, PlacedAgain
    <3> QED BY <1>0, <1>1, <2>8, <3>2, <3>3, CheckSetEffect
  <2>9. CASE RewriteCue(p)
    <3>1. PICK n \in r.todo : /\ s.todo = r.todo \ {n} /\ s.auto = r.auto
                              /\ s.pc \in {"rewrite", "commit"} /\ r.pc = "rewrite"
      BY <1>0, <1>1, <2>9, RewriteCueEffect
    <3>2. r.cmd.verb \in {"auto", "field"}
      BY <2>0, <3>1 DEF Places, WellFormed
    <3>3. s.pc \in Places(r.cmd.verb) /\ s.auto \in BOOLEAN /\ s.todo \subseteq r.peers
      BY <1>2, <3>1, <3>2 DEF Places, Placed
    <3> QED BY <1>1, <1>2, <2>0, <3>1, <3>3, PlacedAgain
  <2>10. CASE NotConfirmed(p)
    <3>1. r.pc = "commit" /\ r.cmd.verb # "rename" /\ Ends(r, s, "restore")
      BY <1>0, <1>1, <2>10, NotConfirmedEffect
    <3>2. "restore" \in Places(r.cmd.verb)
      BY <2>0, <3>1 DEF Places, WellFormed
    <3> QED BY <1>1, <1>2, <2>0, <3>1, <3>2, EndsPlaced
  <2>11. CASE RestoreCue(p)
    <3>1. r.pc = "restore"
      BY <1>0, <1>1, <2>11, RestoreCueEffect
    <3>2. CASE Ends(r, s, "failed")
      BY <1>1, <1>2, <2>0, <3>2, EndsPlaced DEF Ended
    <3>3. CASE s.pc = "restore" /\ s.auto = r.auto
      <4>1. s.pc \in Places(r.cmd.verb) /\ s.auto \in BOOLEAN
        BY <1>2, <2>0, <3>1, <3>3 DEF Placed
      <4> QED BY <1>1, <1>2, <2>0, <3>3, <4>1, PlacedAgain
    <3> QED BY <1>0, <1>1, <2>11, <3>2, <3>3, RestoreCueEffect
  <2>12. CASE SelfCommit(p)
    <3>1. r.pc = "commit"
      BY <1>0, <1>1, <2>12, SelfCommitEffect
    <3>2. CASE r.cmd.verb = "rename" /\ Ends(r, s, "config")
      BY <1>1, <1>2, <2>0, <3>2, EndsPlaced DEF Places
    <3>3. CASE r.cmd.verb = "auto" /\ Ends(r, s, "restore")
      BY <1>1, <1>2, <2>0, <3>3, EndsPlaced DEF Places
    <3>4. CASE Ends(r, s, "done") \/ Ends(r, s, "failed")
      BY <1>1, <1>2, <2>0, <3>4, EndsPlaced DEF Ended
    <3> QED BY <1>0, <1>1, <2>12, <3>2, <3>3, <3>4, SelfCommitEffect
  <2>13. CASE TakeRoot(p)
    <3>1. r.cmd.verb = "sync" /\ Ends(r, s, "synced")
      BY <1>0, <1>1, <2>13, TakeRootEffect
    <3> QED BY <1>1, <1>2, <2>0, <3>1, EndsPlaced DEF Places
  <2>14. CASE SyncEnd(p) \/ RehomeCommit(p) \/ Die(p)
    <3>1. Ends(r, s, "done") \/ Ends(r, s, "dead")
      BY <1>0, <1>1, <2>14, SyncEndEffect, RehomeCommitEffect, DieEffect
    <3> QED BY <1>1, <1>2, <2>0, <3>1, EndsPlaced DEF Ended
  <2> QED BY <1>4, <2>1, <2>2, <2>3, <2>4, <2>5, <2>6, <2>7, <2>8, <2>9, <2>10, <2>11, <2>12, <2>13, <2>14 DEF Step
<1> QED BY <1>3, <1>4

LEMMA ControlStep ==
  ASSUME IInv, NEW p \in Procs, Start(p) \/ Step(p) \/ Die(p)
  PROVE  Control'
<1>0. Typed /\ Control
  BY DEF IInv
<1>1. Alone(p) /\ \A d \in Dirs : cue[d] # NoCue => cue'[d] # NoCue
  BY <1>0, CueSteps, StepKeeps, StartOpens
<1>2. SUFFICES ASSUME NEW q \in Procs PROVE Placed(proc[q])'
  BY DEF Control
<1>3. PICK s : s = proc'[q]
  OBVIOUS
<1>4. Placed(s)
  BY <1>0, <1>1, <1>3, SelfPlaced DEF Alone, Control
<1>5. Placed(s)'
  BY <1>1, <1>4, PlacedCarries DEF Alone
<1> QED BY <1>3, <1>5 DEF Placed, DirsOf, DirOf

-----------------------------------------------------------------------------
(* Locks.                                                                    *)

LEMMA ReleasedLocks ==
  ASSUME NEW D, NEW locks \in [D -> Procs \cup {NoProc}], NEW p \in Procs
  PROVE  /\ Released(locks, p) \in [D -> Procs \cup {NoProc}]
         /\ \A d \in D : Released(locks, p)[d] # p
         /\ \A d \in D : \A q \in Procs \ {p} : Released(locks, p)[d] = q <=> locks[d] = q
BY NoProcIsNone DEF Released

(* A step takes a flock that is free, gives all of its own back as it ends,   *)
(* or leaves them.                                                            *)
LockSteps(p) ==
  /\ \/ /\ flock' = flock /\ proc[p].pc # "lock"
        /\ proc'[p].pc \in Ended => proc[p].peers = {}
        /\ proc'[p].pc = "lock" => proc[p].pc = "new"
     \/ flock' = Released(flock, p) /\ proc'[p].pc \in Ended
     \/ \E n \in proc[p].todo :
          /\ proc[p].pc = "lock" /\ flock[DirOf(proc[p], n)] = NoProc
          /\ flock' = [flock EXCEPT ![DirOf(proc[p], n)] = p]
          /\ proc'[p].todo = proc[p].todo \ {n}
          /\ proc'[p].pc = IF proc[p].todo = {n} THEN AfterLocks(proc[p]) ELSE "lock"
  /\ \/ commit' = commit /\ proc[p].pc # "synced"
     \/ commit' = Released(commit, p)
     \/ \E g : commit[g] = NoProc /\ commit' = [commit EXCEPT ![g] = p] /\ proc'[p].pc = "synced"
  /\ \/ config' = config /\ (proc'[p].pc = "store" <=> proc[p].pc = "store")
     \/ config = p /\ config' = NoProc /\ proc'[p].pc # "store"
     \/ config = NoProc /\ config' = p /\ proc'[p].pc = "store"
LEMMA AlwaysLockSteps ==
  ASSUME IInv, NEW p \in Procs, Start(p) \/ Step(p) \/ Die(p)
  PROVE  LockSteps(p)
<1>0. Typed /\ Control
  BY DEF IInv
<1>00. proc[p].pc = "store" <=> config = p
  BY DEF IInv, Locked, Locking
<1> USE DEF LockSteps, Ends, Ended
<1>1. CASE Start(p)
  <2>1. PICK c : WellFormed(c) /\ proc'[p] = Opened(c)
    BY <1>0, <1>1, StartOpens
  <2>2. proc'[p].pc # "store"
    BY <2>1, OpenedShape
  <2> QED BY <1>0, <1>1, <2>2, StartOpens DEF Fresh
<1>2. CASE TakeConfig(p)
  <2>1. Placed(proc[p])
    BY <1>0 DEF Control
  <2>2. /\ proc[p].pc = "config" /\ proc[p].cmd.verb # "rename" /\ flock' = flock /\ commit' = commit
        /\ proc'[p].pc \in {"failed", "store"}
        /\ (config' = config /\ proc'[p].pc = "failed") \/ (config = NoProc /\ config' = p /\ proc'[p].pc = "store")
    BY <1>0, <1>2, TakeConfigEffect
  <2>3. proc[p].cmd.verb \in {"init", "import", "rebind", "forget", "lens", "note"}
    BY <2>1, <2>2 DEF Placed, WellFormed, Places
  <2>4. proc[p].peers = {}
    BY <2>1, <2>3 DEF Placed
  <2> QED BY <2>2, <2>4
<1>3. CASE Store(p)
  BY <1>0, <1>00, <1>3, StoreEffect
<1>4. CASE TakeScope(p)
  <2>1. Placed(proc[p]) /\ proc[p].pc = "lock"
    BY <1>0, <1>4, TakeScopeEffect DEF Control
  <2>2. AfterLocks(proc[p]) \in {"plan", "check", "root"}
    BY <2>1 DEF Placed, WellFormed, Places, AfterLocks
  <2> QED BY <1>0, <1>4, <2>2, TakeScopeEffect
<1>5. CASE PlanRename(p) \/ RenameTicket(p) \/ RewriteName(p)
  BY <1>0, <1>5, PlanRenameEffect, RenameTicketEffect, RewriteNameEffect
<1>6. CASE RekeyRegistry(p)
  BY <1>0, <1>6, RekeyRegistryEffect
<1>7. CASE CheckSet(p)
  BY <1>0, <1>7, CheckSetEffect
<1>8. CASE RewriteCue(p) \/ NotConfirmed(p)
  BY <1>0, <1>8, RewriteCueEffect, NotConfirmedEffect
<1>9. CASE RestoreCue(p)
  BY <1>0, <1>9, RestoreCueEffect
<1>10. CASE SelfCommit(p)
  BY <1>0, <1>10, SelfCommitEffect
<1>11. CASE TakeRoot(p)
  BY <1>0, <1>11, TakeRootEffect
<1>12. CASE SyncEnd(p) \/ RehomeCommit(p)
  BY <1>0, <1>12, SyncEndEffect, RehomeCommitEffect
<1>13. CASE Die(p)
  BY <1>0, <1>00, <1>13, DieEffect
<1> QED BY <1>1, <1>2, <1>3, <1>4, <1>5, <1>6, <1>7, <1>8, <1>9, <1>10, <1>11, <1>12, <1>13 DEF Step

LEMMA LockTypes ==
  ASSUME IInv, NEW p \in Procs, LockSteps(p)
  PROVE  /\ config' \in Procs \cup {NoProc}
         /\ flock' \in [Dirs -> Procs \cup {NoProc}] /\ commit' \in [Repos -> Procs \cup {NoProc}]
         /\ \A q \in Procs \ {p} :
              /\ \A d \in Dirs : flock'[d] = q <=> flock[d] = q
              /\ \A g \in Repos : commit'[g] = q <=> commit[g] = q
              /\ config' = q <=> config = q
<1>0. /\ config \in Procs \cup {NoProc}
      /\ flock \in [Dirs -> Procs \cup {NoProc}] /\ commit \in [Repos -> Procs \cup {NoProc}]
  BY DEF IInv, Typed
<1>1. /\ config' \in Procs \cup {NoProc}
      /\ \A q \in Procs \ {p} : config' = q <=> config = q
  BY <1>0, NoProcIsNone DEF LockSteps
<1>2. /\ flock' \in [Dirs -> Procs \cup {NoProc}]
      /\ \A q \in Procs \ {p} : \A d \in Dirs : flock'[d] = q <=> flock[d] = q
  <2>1. CASE flock' = flock
    BY <1>0, <2>1
  <2>2. CASE flock' = Released(flock, p)
    BY <1>0, <2>2, ReleasedLocks
  <2>3. ASSUME NEW d, flock[d] = NoProc, flock' = [flock EXCEPT ![d] = p]
        PROVE  /\ flock' \in [Dirs -> Procs \cup {NoProc}]
               /\ \A q \in Procs \ {p} : \A e \in Dirs : flock'[e] = q <=> flock[e] = q
    BY <1>0, <2>3, NoProcIsNone
  <2> QED BY <2>1, <2>2, <2>3 DEF LockSteps
<1>3. /\ commit' \in [Repos -> Procs \cup {NoProc}]
      /\ \A q \in Procs \ {p} : \A g \in Repos : commit'[g] = q <=> commit[g] = q
  <2>1. CASE commit' = commit
    BY <1>0, <2>1
  <2>2. CASE commit' = Released(commit, p)
    BY <1>0, <2>2, ReleasedLocks
  <2>3. ASSUME NEW g, commit[g] = NoProc, commit' = [commit EXCEPT ![g] = p]
        PROVE  /\ commit' \in [Repos -> Procs \cup {NoProc}]
               /\ \A q \in Procs \ {p} : \A e \in Repos : commit'[e] = q <=> commit[e] = q
    BY <1>0, <2>3, NoProcIsNone
  <2> QED BY <2>1, <2>2, <2>3 DEF LockSteps
<1> QED BY <1>1, <1>2, <1>3

LEMMA SelfFlocks ==
  ASSUME IInv, NEW p \in Procs, Start(p) \/ Step(p) \/ Die(p)
  PROVE  LET s == proc'[p] IN
         /\ s.pc = "lock" => \A n \in s.peers \ s.todo : flock'[DirOf(s, n)] = p
         /\ s.pc \notin Ended \cup {"new", "lock"} => \A d \in DirsOf(s) : flock'[d] = p
         /\ \A d \in Dirs : flock'[d] = p => s.pc \notin Ended \cup {"new"} /\ d \in DirsOf(s)
<1>0. Typed /\ Control /\ flock \in [Dirs -> Procs \cup {NoProc}]
  BY DEF IInv, Typed
<1>1. PICK r, s : r = proc[p] /\ s = proc'[p]
  OBVIOUS
<1>2. Placed(r) /\ Placed(s) /\ Locking(p)
  BY <1>0, <1>1, SelfPlaced DEF Control, IInv, Locked
<1>3. CASE Start(p)
  <2>1. PICK c : WellFormed(c) /\ s = Opened(c)
    BY <1>0, <1>1, <1>3, StartOpens
  <2>2. s.cmd = c /\ s.pc \in {"config", "lock", "failed"}
    BY <2>1, OpenedShape
  <2>3. \A d \in Dirs : flock[d] # p
    <3>1. r.pc = "new"
      BY <1>1, <1>3 DEF Start
    <3> QED BY <1>1, <1>2, <3>1 DEF Locking
  <2>4. flock' = flock
    BY <1>0, <1>3, StartOpens
  <2>5. s.pc = "lock" => s.peers = s.todo
    <3>1. \A d : IsProc(Starting(c, d))
      BY FreshIsProc DEF Starting, IsProc, Fields
    <3>2. IsProc(Refused(c)) /\ Refused(c).pc = "failed"
      BY FreshIsProc DEF Refused, IsProc, Fields
    <3>3. CASE c.verb \in {"init", "import", "rebind", "forget", "lens", "note"}
      BY <1>2, <2>1, <2>2, <3>3 DEF Placed, Places, Ended
    <3>4. CASE c.verb = "rename"
      BY <2>1, <3>1, <3>2, <3>4 DEF Opened, OpenRename, IsProc, Fields
    <3>5. CASE c.verb = "auto"
      BY <2>1, <3>1, <3>2, <3>5 DEF Opened, OpenAuto, IsProc, Fields
    <3>6. CASE c.verb = "field"
      BY <2>1, <3>1, <3>2, <3>6 DEF Opened, OpenField, IsProc, Fields
    <3>7. CASE c.verb = "sync"
      BY <2>1, <3>1, <3>2, <3>7 DEF Opened, OpenSync, IsProc, Fields
    <3>8. CASE c.verb = "rehome"
      BY <2>1, <3>1, <3>2, <3>8 DEF Opened, OpenRehome, IsProc, Fields
    <3> QED BY <2>1, <3>3, <3>4, <3>5, <3>6, <3>7, <3>8 DEF WellFormed
  <2>6. s.pc = "config" => s.peers = {}
    <3>1. \A d : IsProc(Starting(c, d)) /\ Starting(c, d).peers = {}
      BY FreshIsProc DEF Starting, IsProc, Fields, Fresh
    <3>2. IsProc(Refused(c)) /\ Refused(c).pc = "failed"
      BY FreshIsProc DEF Refused, IsProc, Fields
    <3>3. CASE c.verb = "init"
      BY <2>1, <3>1, <3>2, <3>3 DEF Opened, OpenInit, IsProc, Fields
    <3>4. CASE c.verb = "import"
      BY <2>1, <3>1, <3>2, <3>4 DEF Opened, OpenImport, IsProc, Fields
    <3>5. CASE c.verb \in {"rebind", "forget"}
      BY <2>1, <3>1, <3>2, <3>5 DEF Opened, OpenRegistered, IsProc, Fields
    <3>6. CASE c.verb \in {"lens", "note"}
      BY <2>1, <3>1, <3>2, <3>6 DEF Opened, OpenSession, IsProc, Fields
    <3>7. CASE c.verb = "rename"
      BY <2>1, <3>1, <3>2, <3>7 DEF Opened, OpenRename, IsProc, Fields
    <3>8. CASE c.verb \in {"auto", "field", "sync", "rehome"}
      BY <1>2, <2>2, <3>8 DEF Placed, Places, Ended
    <3> QED BY <2>1, <3>3, <3>4, <3>5, <3>6, <3>7, <3>8 DEF WellFormed
  <2> QED BY <1>1, <2>2, <2>3, <2>4, <2>5, <2>6 DEF DirsOf, Ended
<1>4. CASE Step(p) \/ Die(p)
  <2>0. Keeps(r, s) /\ r.pc \notin Ended \cup {"new"} /\ LockSteps(p)
    BY <1>0, <1>1, <1>4, StepKeeps, AlwaysLockSteps
  <2>1. CASE flock' = Released(flock, p) /\ s.pc \in Ended
    BY <1>0, <1>1, <2>1, ReleasedLocks DEF Ended
  <2>2. CASE \E n \in r.todo :
               /\ r.pc = "lock" /\ flock[DirOf(r, n)] = NoProc
               /\ flock' = [flock EXCEPT ![DirOf(r, n)] = p]
               /\ s.todo = r.todo \ {n}
               /\ s.pc = IF r.todo = {n} THEN AfterLocks(r) ELSE "lock"
    <3>1. PICK n \in r.todo :
               /\ r.pc = "lock" /\ flock[DirOf(r, n)] = NoProc
               /\ flock' = [flock EXCEPT ![DirOf(r, n)] = p]
               /\ s.todo = r.todo \ {n}
               /\ s.pc = IF r.todo = {n} THEN AfterLocks(r) ELSE "lock"
      BY <2>2
    <3>2. \A m \in r.peers : DirOf(s, m) = DirOf(r, m) /\ DirOf(r, m) \in Dirs
      BY <1>2, <2>0 DEF Keeps, DirOf, Placed
    <3>3. \A m \in r.peers \ s.todo : flock'[DirOf(s, m)] = p
      <4>1. \A m \in r.peers \ r.todo : flock[DirOf(r, m)] = p
        BY <1>1, <1>2, <3>1 DEF Locking
      <4> QED BY <1>0, <3>1, <3>2, <4>1
    <3>4. s.pc \notin Ended \cup {"new"}
      <4>1. r.cmd.verb \in {"rename", "auto", "field", "sync", "rehome"}
        BY <1>2, <3>1 DEF Placed, Places, WellFormed, Ended
      <4>2. AfterLocks(r) \in {"plan", "check", "root"}
        BY <4>1 DEF AfterLocks
      <4> QED BY <3>1, <4>2 DEF Ended
    <3>5. s.pc # "lock" => s.todo = {}
      BY <3>1
    <3>6. \A d \in Dirs : flock'[d] = p => d \in DirsOf(s)
      <4>1. n \in r.peers
        BY <1>2, <3>1 DEF Placed
      <4>2. DirsOf(s) = DirsOf(r) /\ DirOf(r, n) \in DirsOf(r)
        BY <2>0, <4>1 DEF Keeps, DirsOf, DirOf
      <4>3. \A d \in Dirs : flock[d] = p => d \in DirsOf(r)
        BY <1>1, <1>2 DEF Locking
      <4> QED BY <1>0, <3>1, <4>2, <4>3
    <3> QED BY <1>1, <2>0, <3>2, <3>3, <3>4, <3>5, <3>6 DEF DirsOf, Keeps
  <2>3. CASE /\ flock' = flock /\ r.pc # "lock"
             /\ s.pc \in Ended => r.peers = {}
             /\ s.pc = "lock" => r.pc = "new"
    <3>1. s.pc # "lock" /\ r.pc \notin Ended \cup {"new", "lock"} /\ s.pc # "new"
      <4>1. s.pc = "new" => s.cmd.verb = "none"
        BY <1>2 DEF Placed, Fresh, NoCommand
      <4>2. r.cmd.verb # "none"
        BY <1>2, <2>0 DEF Placed, WellFormed
      <4> QED BY <2>0, <2>3, <4>1, <4>2 DEF Keeps
    <3>2. DirsOf(s) = DirsOf(r)
      BY <2>0 DEF Keeps, DirsOf, DirOf
    <3>3. \A d \in DirsOf(r) : flock[d] = p
      BY <1>1, <1>2, <3>1 DEF Locking
    <3>4. \A d \in Dirs : flock[d] = p => d \in DirsOf(r)
      BY <1>1, <1>2 DEF Locking
    <3>5. s.pc \in Ended => DirsOf(r) = {}
      BY <2>3 DEF DirsOf
    <3> QED BY <1>1, <2>3, <3>1, <3>2, <3>3, <3>4, <3>5
  <2> QED BY <1>1, <2>0, <2>1, <2>2, <2>3 DEF LockSteps
<1> QED BY <1>3, <1>4

LEMMA LockedStep ==
  ASSUME IInv, NEW p \in Procs, Start(p) \/ Step(p) \/ Die(p)
  PROVE  Locked'
<1>0. Typed /\ Control /\ LockSteps(p) /\ Alone(p)
  BY AlwaysLockSteps, StartOpens, StepKeeps DEF IInv
<1>1. SUFFICES ASSUME NEW q \in Procs PROVE Locking(q)'
  BY DEF Locked
<1>2. PICK s : s = proc'[q]
  OBVIOUS
<1>3. CASE q # p
  <2>1. s = proc[q] /\ Placed(s) /\ Locking(q)
    BY <1>0, <1>2, <1>3 DEF Alone, Control, IInv, Locked
  <2>2. /\ \A d \in Dirs : flock'[d] = q <=> flock[d] = q
        /\ \A g \in Repos : commit'[g] = q <=> commit[g] = q
        /\ config' = q <=> config = q
    BY <1>0, <1>3, LockTypes
  <2>3. \A d \in DirsOf(s) : d \in Dirs
    BY <2>1 DEF Placed, DirsOf
  <2>4. \A n \in s.peers : DirOf(s, n) \in Dirs
    BY <2>1 DEF Placed
  <2>5. s.pc = "lock" => \A n \in s.peers \ s.todo : flock'[DirOf(s, n)] = q
    BY <2>1, <2>2, <2>4 DEF Locking
  <2>6. s.pc \notin Ended \cup {"new", "lock"} => \A d \in DirsOf(s) : flock'[d] = q
    BY <2>1, <2>2, <2>3 DEF Locking
  <2>7. \A d \in Dirs : flock'[d] = q => s.pc \notin Ended \cup {"new"} /\ d \in DirsOf(s)
    BY <2>1, <2>2 DEF Locking
  <2>8. \A g \in Repos : commit'[g] = q => s.pc = "synced"
    BY <2>1, <2>2 DEF Locking
  <2>9. s.pc = "store" <=> config' = q
    BY <2>1, <2>2 DEF Locking
  <2> QED BY <1>2, <2>5, <2>6, <2>7, <2>8, <2>9 DEF Locking
<1>4. CASE q = p
  <2>1. /\ s.pc = "lock" => \A n \in s.peers \ s.todo : flock'[DirOf(s, n)] = p
        /\ s.pc \notin Ended \cup {"new", "lock"} => \A d \in DirsOf(s) : flock'[d] = p
        /\ \A d \in Dirs : flock'[d] = p => s.pc \notin Ended \cup {"new"} /\ d \in DirsOf(s)
    BY <1>2, <1>4, SelfFlocks
  <2>2. Locking(p) /\ commit \in [Repos -> Procs \cup {NoProc}]
    BY DEF IInv, Locked, Typed
  <2>3. \A g \in Repos : commit'[g] = p => s.pc = "synced"
    <3>1. CASE commit' = commit /\ proc[p].pc # "synced"
      BY <2>2, <3>1 DEF Locking
    <3>2. CASE commit' = Released(commit, p)
      BY <2>2, <3>2, ReleasedLocks
    <3>3. CASE s.pc = "synced"
      BY <3>3
    <3> QED BY <1>0, <1>2, <1>4, <3>1, <3>2, <3>3 DEF LockSteps
  <2>4. s.pc = "store" <=> config' = p
    BY <1>0, <1>2, <1>4, <2>2, NoProcIsNone DEF LockSteps, Locking
  <2> QED BY <1>2, <1>4, <2>1, <2>3, <2>4 DEF Locking
<1> QED BY <1>3, <1>4

-----------------------------------------------------------------------------
(* Types.                                                                    *)

(* The registry files change only by a store of what was made of them.        *)
StoreSteps(p) ==
  \/ UNCHANGED <<scopes, lens, note>>
  \/ /\ proc[p].pc = "store" /\ Store(p)
     /\ scopes' \in {scopes, proc[p].mem.scopes}
     /\ lens' \in {lens, proc[p].mem.lens} /\ note' \in {note, proc[p].mem.note}
LEMMA AlwaysStoreSteps ==
  ASSUME IInv, NEW p \in Procs, Start(p) \/ Step(p) \/ Die(p)
  PROVE  StoreSteps(p)
<1>0. Typed /\ Control
  BY DEF IInv
<1>1. CASE Store(p)
  BY <1>0, <1>1, StoreEffect DEF StoreSteps
<1>2. CASE Start(p) \/ Die(p) \/ (Step(p) /\ ~Store(p))
  <2>1. UNCHANGED <<scopes, lens, note>>
    BY <1>0, <1>2, StartOpens, TakeConfigEffect, TakeScopeEffect, PlanRenameEffect, RenameTicketEffect,
       RewriteNameEffect, RekeyRegistryEffect, CheckSetEffect, RewriteCueEffect, NotConfirmedEffect,
       RestoreCueEffect, SelfCommitEffect, TakeRootEffect, SyncEndEffect, RehomeCommitEffect, DieEffect
       DEF Step
  <2> QED BY <2>1 DEF StoreSteps
<1> QED BY <1>1, <1>2

(* Ticket files change only in a rename under the flock: a copy under the new *)
(* name, or the removal of one that has a copy.                               *)
FileSteps(p) ==
  LET r == proc[p] IN
  \/ files' = files
  \/ /\ r.cmd.verb = "rename" /\ r.pc = "tickets" /\ proc'[p].pc = "tickets"
     /\ r.dir \in Dirs /\ cue[r.dir] # NoCue /\ flock[r.dir] = p
     /\ cue' = cue
     /\ \E t \in r.todo :
          /\ t \in Tickets
          /\ \/ /\ proc'[p] = r
                /\ files' = [files EXCEPT ![r.dir] = @ \cup {<<t, r.cmd.to>>}]
             \/ /\ proc'[p].todo = r.todo \ {t} /\ <<t, r.cmd.to>> \in files[r.dir]
                /\ files' = [files EXCEPT ![r.dir] = @ \ {<<t, r.cmd.name>>}]
LEMMA AlwaysFileSteps ==
  ASSUME IInv, NEW p \in Procs, Start(p) \/ Step(p) \/ Die(p)
  PROVE  FileSteps(p)
<1>0. Typed /\ Control
  BY DEF IInv
<1>1. CASE RenameTicket(p)
  <2>1. PICK r : r = proc[p]
    OBVIOUS
  <2>2. Placed(r) /\ Locking(p) /\ r.pc = "tickets"
    BY <1>0, <1>1, <2>1, RenameTicketEffect DEF Control, IInv, Locked
  <2>3. r.cmd.verb = "rename"
    BY <2>2 DEF Placed, WellFormed, Places, Ended
  <2>4. r.dir \in DirsOf(r) /\ r.todo \subseteq Tickets
    BY <2>2, <2>3 DEF Placed, Ended
  <2>5. r.dir \in Dirs /\ cue[r.dir] # NoCue /\ flock[r.dir] = p
    BY <2>1, <2>2, <2>4 DEF Placed, DirsOf, Locking, Ended
  <2> QED BY <1>0, <1>1, <2>1, <2>3, <2>4, <2>5, RenameTicketEffect DEF FileSteps
<1>2. CASE Start(p) \/ Die(p) \/ (Step(p) /\ ~RenameTicket(p))
  <2>1. files' = files
    BY <1>0, <1>2, StartOpens, TakeConfigEffect, TakeScopeEffect, PlanRenameEffect, StoreEffect,
       RewriteNameEffect, RekeyRegistryEffect, CheckSetEffect, RewriteCueEffect, NotConfirmedEffect,
       RestoreCueEffect, SelfCommitEffect, TakeRootEffect, SyncEndEffect, RehomeCommitEffect, DieEffect
       DEF Step
  <2> QED BY <2>1 DEF FileSteps
<1> QED BY <1>1, <1>2

LEMMA TypedStep ==
  ASSUME IInv, NEW p \in Procs, Start(p) \/ Step(p) \/ Die(p)
  PROVE  Typed'
<1>0. Typed /\ Control /\ LockSteps(p) /\ Alone(p) /\ StoreSteps(p) /\ FileSteps(p)
  BY AlwaysLockSteps, AlwaysStoreSteps, AlwaysFileSteps, StartOpens, StepKeeps DEF IInv
<1>1. /\ DOMAIN scopes' \subseteq Names /\ lens' \subseteq Names /\ note' \subseteq Names
      /\ \A n \in DOMAIN scopes' : scopes'[n].dir \in Dirs
  <2>1. CASE UNCHANGED <<scopes, lens, note>>
    BY <1>0, <2>1 DEF Typed
  <2>2. CASE proc[p].pc = "store"
    <3>1. Storing(proc[p])
      BY <2>2 DEF IInv, Registry
    <3> QED BY <1>0, <2>2, <3>1 DEF Storing, StoreSteps, Typed
  <2> QED BY <1>0, <2>1, <2>2 DEF StoreSteps
<1>2. cue' \in [Dirs -> Cues \cup {NoCue}]
  BY CueSteps
<1>3. files' \in [Dirs -> SUBSET (Tickets \X Names)]
  <2>1. CASE files' = files
    BY <1>0, <2>1 DEF Typed
  <2>2. CASE files' # files
    <3>1. PICK r : r = proc[p]
      OBVIOUS
    <3>2. r.cmd.to \in Names
      BY <1>0, <2>2, <3>1 DEF FileSteps, Control, Placed, WellFormed
    <3>3. PICK t \in Tickets : \/ files' = [files EXCEPT ![r.dir] = @ \cup {<<t, r.cmd.to>>}]
                               \/ files' = [files EXCEPT ![r.dir] = @ \ {<<t, r.cmd.name>>}]
      BY <1>0, <2>2, <3>1 DEF FileSteps
    <3>4. files \in [Dirs -> SUBSET (Tickets \X Names)]
      BY <1>0 DEF Typed
    <3>5. files[r.dir] \cup {<<t, r.cmd.to>>} \in SUBSET (Tickets \X Names) \/ r.dir \notin Dirs
      BY <3>2, <3>4
    <3>6. files[r.dir] \ {<<t, r.cmd.name>>} \in SUBSET (Tickets \X Names) \/ r.dir \notin Dirs
      BY <3>4
    <3> QED BY <3>3, <3>4, <3>5, <3>6
  <2> QED BY <2>1, <2>2
<1>4. /\ config' \in Procs \cup {NoProc}
      /\ flock' \in [Dirs -> Procs \cup {NoProc}] /\ commit' \in [Repos -> Procs \cup {NoProc}]
  BY <1>0, LockTypes
<1>5. mode' \in Modes /\ proc' = [q \in Procs |-> proc'[q]] /\ \A q \in Procs : IsProc(proc'[q])
  BY <1>0 DEF Alone, Typed
<1> QED BY <1>1, <1>2, <1>3, <1>4, <1>5 DEF Typed, IsProc

-----------------------------------------------------------------------------
(* tk.cue and what is kept of it.                                            *)

(* What a step that leaves a process at a place with a pending tk.cue did.     *)
LEMMA PendingFrom ==
  ASSUME IInv, NEW p \in Procs, Step(p) \/ Die(p), CuePending(proc'[p])
  PROVE  TakeConfig(p) /\ CuePending(proc[p]) /\ cue' = cue
<1>0. Typed /\ Control
  BY DEF IInv
<1>1. PICK r, s : r = proc[p] /\ s = proc'[p]
  OBVIOUS
<1>2. /\ Keeps(r, s) /\ r.pc \notin Ended \cup {"new"} /\ Placed(r)
      /\ s.cmd.verb = "init" /\ s.pc \in {"config", "store"}
  BY <1>0, <1>1, StepKeeps DEF CuePending, Control
<1>3. r.cmd.verb = "init" /\ r.pc \in {"config", "store"}
  BY <1>2 DEF Keeps, Placed, Places
<1>4. ~Die(p)
  BY <1>0, <1>1, <1>2, DieEffect DEF Ends
<1>5. Store(p) \/ TakeConfig(p)
  <2>1. ~TakeScope(p) /\ ~PlanRename(p) /\ ~RenameTicket(p) /\ ~RewriteName(p)
    <3>1. ~TakeScope(p)
      BY <1>0, <1>1, <1>3, TakeScopeEffect
    <3>2. ~PlanRename(p)
      BY <1>0, <1>1, <1>3, PlanRenameEffect
    <3>3. ~RenameTicket(p)
      BY <1>0, <1>1, <1>3, RenameTicketEffect
    <3>4. ~RewriteName(p)
      BY <1>0, <1>1, <1>3, RewriteNameEffect
    <3> QED BY <3>1, <3>2, <3>3, <3>4
  <2>2. ~RekeyRegistry(p) /\ ~CheckSet(p) /\ ~RewriteCue(p) /\ ~NotConfirmed(p)
    <3>1. ~RekeyRegistry(p)
      BY <1>0, <1>1, <1>3, RekeyRegistryEffect
    <3>2. ~CheckSet(p)
      BY <1>0, <1>1, <1>3, CheckSetEffect
    <3>3. ~RewriteCue(p)
      BY <1>0, <1>1, <1>3, RewriteCueEffect
    <3>4. ~NotConfirmed(p)
      BY <1>0, <1>1, <1>3, NotConfirmedEffect
    <3> QED BY <3>1, <3>2, <3>3, <3>4
  <2>3. ~RestoreCue(p) /\ ~SelfCommit(p) /\ ~TakeRoot(p) /\ ~SyncEnd(p) /\ ~RehomeCommit(p)
    <3>1. ~RestoreCue(p)
      BY <1>0, <1>1, <1>3, RestoreCueEffect
    <3>2. ~SelfCommit(p)
      BY <1>0, <1>1, <1>3, SelfCommitEffect
    <3>3. ~TakeRoot(p) /\ ~SyncEnd(p) /\ ~RehomeCommit(p)
      BY <1>0, <1>1, <1>3, TakeRootEffect, SyncEndEffect, RehomeCommitEffect
    <3> QED BY <3>1, <3>2, <3>3
  <2> QED BY <1>4, <2>1, <2>2, <2>3 DEF Step
<1>6. ~Store(p)
  <2>1. SUFFICES ASSUME Store(p) PROVE FALSE
    OBVIOUS
  <2>2. r.pc = "store" /\ s.pc = (IF Len(r.writes) = 1 THEN "done" ELSE "store") /\ s.writes = Tail(r.writes)
    BY <1>0, <1>1, <2>1, StoreEffect
  <2>3. Storing(r)
    BY <1>1, <2>2 DEF IInv, Registry
  <2>4. r.writes \in {<<"cue", "scopes">>, <<"scopes">>}
    BY <1>3, <2>3 DEF Storing
  <2>5. /\ Len(<<"scopes">>) = 1 /\ Tail(<<"cue", "scopes">>) = <<"scopes">>
        /\ Head(<<"scopes">>) = "scopes"
    OBVIOUS
  <2>6. s.writes = <<"scopes">> /\ s.pc = "store"
    BY <1>2, <2>2, <2>4, <2>5
  <2> QED BY <1>1, <2>5, <2>6 DEF CuePending
<1>7. r.pc = "config" /\ cue' = cue
  BY <1>0, <1>1, <1>5, <1>6, TakeConfigEffect
<1> QED BY <1>1, <1>3, <1>5, <1>6, <1>7 DEF CuePending

LEMMA CuedStep ==
  ASSUME IInv, NEW p \in Procs, Start(p) \/ Step(p) \/ Die(p)
  PROVE  Cued'
<1>0. Typed /\ Control /\ Cued /\ Alone(p) /\ FileSteps(p) /\ StoreSteps(p) /\ Lasts
  BY AlwaysFileSteps, AlwaysStoreSteps, StartOpens, StepKeeps, AlwaysLasts DEF IInv
<1>1. /\ cue' = cue \/ \E d \in Dirs : Touches(p, d)
      /\ \A d \in Dirs : cue[d] # NoCue => cue'[d] # NoCue
  BY CueSteps
<1>2. \A n \in DOMAIN scopes' : cue'[scopes'[n].dir] # NoCue
  <2>1. CASE scopes' = scopes
    BY <1>0, <1>1, <2>1 DEF Cued, Typed
  <2>2. CASE scopes' # scopes
    <3>1. PICK r : r = proc[p]
      OBVIOUS
    <3>2. r.pc = "store" /\ Head(r.writes) = "scopes" /\ scopes' = r.mem.scopes
      BY <1>0, <2>2, <3>1, StoreEffect DEF StoreSteps
    <3>3. Storing(r) /\ ~CuePending(r)
      BY <3>1, <3>2 DEF IInv, Registry, CuePending
    <3>4. \A n \in DOMAIN r.mem.scopes : r.mem.scopes[n].dir \in Dirs /\ cue[r.mem.scopes[n].dir] # NoCue
      BY <3>3 DEF Storing
    <3> QED BY <1>1, <3>2, <3>4
  <2> QED BY <2>1, <2>2
<1>3. \A d \in Dirs : cue'[d] = NoCue => files'[d] = {}
  BY <1>0, <1>1 DEF Cued, FileSteps, Typed
<1>4. ASSUME NEW q \in Procs, NEW s, s = proc'[q], CuePending(s)
      PROVE  cue'[s.dir] = NoCue \/ InitTwice(s.dir)'
  <2>1. s = proc'[q]
    BY <1>4
  <2>2. InitTwice(s.dir) => InitTwice(s.dir)'
    BY <1>0, ReasonsLast
  <2>3. CASE q # p
    <3>1. proc[q] = s /\ Placed(s) /\ s.cmd.verb = "init" /\ s.pc \in {"config", "store"}
      BY <1>0, <1>4, <2>1, <2>3 DEF Alone, Control, CuePending
    <3>2. s.dir \in Dirs
      BY <3>1 DEF Placed, WellFormed
    <3>3. cue[s.dir] = NoCue \/ InitTwice(s.dir)
      BY <1>0, <1>4, <2>1, <3>1 DEF Cued
    <3>4. CASE cue'[s.dir] # cue[s.dir] /\ cue[s.dir] = NoCue
      <4>1. Authors(p, s.dir)
        BY <1>1, <3>2, <3>4 DEF Touches, Relabels, Sets
      <4>2. InitTwice(s.dir)
        BY <2>3, <3>1, <4>1 DEF Authors, InitTwice
      <4> QED BY <2>1, <2>2, <4>2
    <3> QED BY <2>1, <2>2, <3>3, <3>4
  <2>4. CASE q = p /\ Start(p)
    <3>1. PICK c : WellFormed(c) /\ s = Opened(c)
      BY <1>0, <2>1, <2>4, StartOpens
    <3>2. c.verb = "init" /\ s.pc = "config"
      BY <1>4, <2>1, <3>1, OpenedShape DEF CuePending
    <3>3. s.pc # "failed"
      BY <3>2
    <3>4. Refused(c).pc = "failed"
      BY FreshIsProc DEF Refused, IsProc, Fields
    <3>5. cue[c.dir] = NoCue /\ s = [Starting(c, c.dir) EXCEPT !.pc = "config", !.name = c.name]
      BY <3>1, <3>2, <3>4 DEF Opened, OpenInit
    <3>6. s.dir = c.dir
      BY <3>5, FreshIsProc DEF Starting, IsProc, Fields
    <3>7. cue' = cue
      BY <1>0, <2>4, StartOpens
    <3> QED BY <2>1, <3>5, <3>6, <3>7
  <2>5. CASE q = p /\ (Step(p) \/ Die(p))
    <3>1. CuePending(proc[p]) /\ cue' = cue /\ Keeps(proc[p], s)
      BY <1>0, <1>4, <2>1, <2>5, PendingFrom, StepKeeps
    <3>2. cue[s.dir] = NoCue \/ InitTwice(s.dir)
      BY <1>0, <3>1 DEF Cued, Keeps
    <3> QED BY <2>1, <2>2, <3>1, <3>2
  <2> QED BY <2>3, <2>4, <2>5
<1>5. ASSUME NEW q \in Procs
      PROVE  (CuePending(proc[q]) => cue[proc[q].dir] = NoCue \/ InitTwice(proc[q].dir))'
  <2>1. PICK s : s = proc'[q]
    OBVIOUS
  <2>2. CuePending(s) => cue'[s.dir] = NoCue \/ InitTwice(s.dir)'
    BY <1>4, <2>1
  <2> QED BY <2>1, <2>2 DEF CuePending, InitTwice
<1> QED BY <1>2, <1>3, <1>5 DEF Cued

LEMMA SelfKeeping ==
  ASSUME IInv, NEW p \in Procs, Start(p) \/ Step(p) \/ Die(p), NEW s, s = proc'[p],
         s.pc \in {"rewrite", "commit", "restore"}, s.cmd.verb # "rename"
  PROVE  /\ s.pc \in {"rewrite", "commit"} => DOMAIN s.prev = DirsOf(s)
         /\ DOMAIN s.prev \subseteq DirsOf(s)
         /\ \A d \in DOMAIN s.prev :
              s.prev[d] \in Cues /\ (OwnDiffers(s.cmd.verb, s.prev[d], cue'[d]) \/ InitTwice(d))
<1>0. Typed /\ Control
  BY DEF IInv
<1>1. PICK r : r = proc[p]
  OBVIOUS
<1>2. ~Start(p) /\ ~Die(p)
  <2>1. ~Die(p)
    BY <1>0, DieEffect DEF Ends
  <2>2. ~Start(p)
    BY <1>0, StartOpens, OpenedShape
  <2> QED BY <2>1, <2>2
<1>3. Keeps(r, s) /\ DirsOf(s) = DirsOf(r) /\ Placed(r) /\ Keeping(r)
  BY <1>0, <1>1, <1>2, StepKeeps, KeepsDirs DEF Control, IInv, Kept
<1>4. r.cmd.verb \in {"auto", "field"}
  <2>1. r.pc # "new" /\ WellFormed(r.cmd) /\ Placed(s)
    BY <1>0, <1>1, <1>2, <1>3, StepKeeps, SelfPlaced DEF Placed
  <2> QED BY <1>3, <2>1 DEF Keeps, Placed, Places, WellFormed, Ended
<1>5. CASE CheckSet(p)
  <2>1. s.pc = "rewrite" /\ s.prev = [d \in DirsOf(r) |-> cue[d]] /\ cue' = cue
    BY <1>0, <1>1, <1>5, CheckSetEffect DEF Ends
  <2>2. \A d \in DirsOf(r) : cue[d] \in Cues
    BY <1>0, <1>3 DEF Placed, DirsOf, Typed
  <2> QED BY <1>3, <2>1, <2>2 DEF OwnDiffers
<1>6. CASE RewriteCue(p)
  <2>0. r.pc = "rewrite"
    BY <1>0, <1>1, <1>6, RewriteCueEffect
  <2>1. PICK d \in Dirs : Touches(p, d) /\ s.prev = r.prev /\ s.pc \in {"rewrite", "commit"}
    BY <1>1, <1>6, RewriteCueTouches
  <2>2. Sets(p, d)
    BY <1>1, <1>4, <2>1 DEF Touches, Authors, Relabels
  <2>3. \A e \in DOMAIN r.prev : r.prev[e] \in Cues /\ (OwnDiffers(r.cmd.verb, r.prev[e], cue[e]) \/ InitTwice(e))
    BY <1>3, <1>4, <2>0 DEF Keeping
  <2>4. DOMAIN r.prev = DirsOf(r) /\ DirsOf(r) \subseteq Dirs
    BY <1>3, <1>4, <2>0 DEF Keeping, Placed, DirsOf
  <2>5. \A e \in DOMAIN r.prev : OwnDiffers(r.cmd.verb, r.prev[e], cue'[e]) \/ InitTwice(e)
    BY <1>1, <2>1, <2>2, <2>3, <2>4 DEF Touches, Sets, OwnDiffers
  <2> QED BY <1>3, <2>1, <2>3, <2>4, <2>5 DEF Keeps
<1>7. CASE RestoreCue(p)
  <2>0. r.pc = "restore"
    BY <1>0, <1>1, <1>7, RestoreCueEffect
  <2>1. PICK d \in DOMAIN r.prev :
          cue' = [cue EXCEPT ![d] = r.prev[d]] /\ s.pc = "restore" /\ s.prev = Without(r.prev, d)
    BY <1>0, <1>1, <1>7, RestoreCueEffect DEF Ends
  <2>2. \A e \in DOMAIN r.prev : r.prev[e] \in Cues /\ (OwnDiffers(r.cmd.verb, r.prev[e], cue[e]) \/ InitTwice(e))
    BY <1>3, <1>4, <2>0 DEF Keeping
  <2>3. DOMAIN r.prev \subseteq DirsOf(r) /\ DirsOf(r) \subseteq Dirs
    BY <1>3, <1>4, <2>0 DEF Keeping, Placed, DirsOf
  <2>4. DOMAIN s.prev = DOMAIN r.prev \ {d} /\ \A e \in DOMAIN s.prev : s.prev[e] = r.prev[e] /\ cue'[e] = cue[e]
    BY <1>0, <2>1, <2>3 DEF Without, Typed
  <2> QED BY <1>3, <2>1, <2>2, <2>3, <2>4 DEF Keeps
<1>8. CASE NotConfirmed(p) \/ SelfCommit(p)
  <2>1. r.pc = "commit" /\ s.prev = r.prev /\ s.pc \in {"restore", "done", "failed", "config"} /\ cue' = cue
    BY <1>0, <1>1, <1>8, NotConfirmedEffect, SelfCommitEffect DEF Ends
  <2> QED BY <1>3, <1>4, <2>1 DEF Keeping, Keeps
<1>9. CASE TakeScope(p)
  <2>1. s.pc \in {"failed", "lock", AfterLocks(r)}
    BY <1>0, <1>1, <1>9, TakeScopeEffect DEF Ends
  <2>2. AfterLocks(r) = "check"
    BY <1>4 DEF AfterLocks
  <2> QED BY <2>1, <2>2
<1>10. CASE RewriteName(p)
  <2>1. r.pc = "tickets"
    BY <1>0, <1>1, <1>10, RewriteNameEffect
  <2> QED BY <1>3, <1>4, <2>1 DEF Placed, Places, Ended
<1>11. CASE TakeConfig(p) \/ Store(p) \/ PlanRename(p) \/ RenameTicket(p) \/ RekeyRegistry(p)
            \/ TakeRoot(p) \/ SyncEnd(p) \/ RehomeCommit(p)
  <2>1. s.pc \notin {"rewrite", "commit", "restore"}
    BY ZenonT(60), <1>0, <1>1, <1>11, TakeConfigEffect, StoreEffect, PlanRenameEffect, RenameTicketEffect,
       RekeyRegistryEffect, TakeRootEffect, SyncEndEffect, RehomeCommitEffect DEF Ends
  <2> QED BY <2>1
<1> QED BY <1>2, <1>5, <1>6, <1>7, <1>8, <1>9, <1>10, <1>11 DEF Step

LEMMA KeptStep ==
  ASSUME IInv, NEW p \in Procs, Start(p) \/ Step(p) \/ Die(p)
  PROVE  Kept'
<1>0. Typed /\ Control /\ Alone(p) /\ Lasts
  BY StartOpens, StepKeeps, AlwaysLasts DEF IInv
<1>1. cue' = cue \/ \E d \in Dirs : Touches(p, d)
  BY CueSteps
<1>2. \A d : InitTwice(d) => InitTwice(d)'
  BY <1>0, ReasonsLast
<1>3. SUFFICES ASSUME NEW q \in Procs PROVE Keeping(proc[q])'
  BY DEF Kept
<1>4. PICK s : s = proc'[q]
  OBVIOUS
<1>5. SUFFICES ASSUME s.pc \in {"rewrite", "commit", "restore"}, s.cmd.verb # "rename"
      PROVE /\ s.pc \in {"rewrite", "commit"} => DOMAIN s.prev = DirsOf(s)
            /\ DOMAIN s.prev \subseteq DirsOf(s)
            /\ \A d \in DOMAIN s.prev :
                 s.prev[d] \in Cues /\ (OwnDiffers(s.cmd.verb, s.prev[d], cue'[d]) \/ InitTwice(d)')
  BY <1>4 DEF Keeping
<1>6. CASE q = p
  <2>1. /\ s.pc \in {"rewrite", "commit"} => DOMAIN s.prev = DirsOf(s)
        /\ DOMAIN s.prev \subseteq DirsOf(s)
        /\ \A d \in DOMAIN s.prev :
             s.prev[d] \in Cues /\ (OwnDiffers(s.cmd.verb, s.prev[d], cue'[d]) \/ InitTwice(d))
    BY <1>4, <1>5, <1>6, SelfKeeping
  <2> QED BY <1>2, <2>1
<1>7. CASE q # p
  <2>1. proc[q] = s /\ Keeping(s) /\ Placed(s) /\ Locking(q)
    BY <1>0, <1>4, <1>7 DEF Alone, IInv, Kept, Control, Locked
  <2>2. \A d \in DirsOf(s) : d \in Dirs /\ cue[d] # NoCue /\ flock[d] = q
    BY <1>5, <2>1 DEF Placed, DirsOf, Locking, Ended
  <2>3. ASSUME NEW d \in DOMAIN s.prev
        PROVE  s.prev[d] \in Cues /\ (OwnDiffers(s.cmd.verb, s.prev[d], cue'[d]) \/ InitTwice(d)')
    <3>1. d \in DirsOf(s) /\ s.prev[d] \in Cues /\ (OwnDiffers(s.cmd.verb, s.prev[d], cue[d]) \/ InitTwice(d))
      BY <1>5, <2>1 DEF Keeping
    <3>2. CASE cue'[d] = cue[d]
      BY <1>2, <3>1, <3>2
    <3>3. CASE cue'[d] # cue[d]
      <4>1. Touches(p, d)
        BY <1>1, <2>2, <3>1, <3>3 DEF Touches
      <4>2. Authors(p, d)
        BY <1>7, <2>2, <3>1, <4>1 DEF Touches, Relabels, Sets
      <4> QED BY <1>2, <2>2, <3>1, <4>2 DEF Authors
    <3> QED BY <3>2, <3>3
  <2> QED BY <1>5, <2>1, <2>3 DEF Keeping
<1> QED BY <1>6, <1>7

-----------------------------------------------------------------------------
(* The registry: what is stored is sound.                                    *)

LEMMA OverlapEither == \A a, b : Overlap(a, b) <=> Overlap(b, a)
BY DEF Overlap

LEMMA WithoutOnce ==
  ASSUME NEW reg, RegisteredOnce(reg), NEW n
  PROVE  RegisteredOnce(Without(reg, n))
BY DEF RegisteredOnce, Without

(* An entry whose directory and code-root no other entry has.                 *)
LEMMA WithOnce ==
  ASSUME NEW reg, RegisteredOnce(reg), NEW n, NEW d, NEW root,
         \A x \in DOMAIN reg \ {n} : ~Overlap(d, reg[x].dir) /\ reg[x].root # root
  PROVE  RegisteredOnce(With(reg, n, Entry(d, root)))
<1>1. PICK w : w = With(reg, n, Entry(d, root))
  OBVIOUS
<1>2. /\ DOMAIN w = DOMAIN reg \cup {n} /\ w[n].dir = d /\ w[n].root = root
      /\ \A x \in DOMAIN reg \ {n} : w[x] = reg[x]
  BY <1>1 DEF With, Entry
<1>3. ASSUME NEW x \in DOMAIN w, NEW y \in DOMAIN w \ {x}
      PROVE  ~Overlap(w[x].dir, w[y].dir) /\ w[x].root # w[y].root
  <2>1. CASE x = n
    BY <1>2, <1>3, <2>1
  <2>2. CASE y = n
    BY <1>2, <1>3, <2>2, OverlapEither
  <2>3. CASE x # n /\ y # n
    BY <1>2, <1>3, <2>3 DEF RegisteredOnce
  <2> QED BY <2>1, <2>2, <2>3
<1> QED BY <1>1, <1>3 DEF RegisteredOnce

LEMMA RekeyedOnce ==
  ASSUME NEW reg, RegisteredOnce(reg), NEW old \in DOMAIN reg, NEW new, new \notin DOMAIN reg
  PROVE  LET w == With(Without(reg, old), new, reg[old]) IN
         /\ RegisteredOnce(w) /\ DOMAIN w = (DOMAIN reg \ {old}) \cup {new}
         /\ w[new] = reg[old] /\ \A x \in DOMAIN w \ {new} : w[x] = reg[x]
<1>1. PICK w : w = With(Without(reg, old), new, reg[old])
  OBVIOUS
<1>2. /\ DOMAIN w = (DOMAIN reg \ {old}) \cup {new}
      /\ w[new] = reg[old] /\ \A x \in DOMAIN w \ {new} : w[x] = reg[x]
  BY <1>1 DEF With, Without
<1>3. RegisteredOnce(w)
  BY <1>2 DEF RegisteredOnce
<1> QED BY <1>1, <1>2, <1>3

(* The sections a forget or a rename writes.                                  *)
LEMMA SectionsWritten ==
  ASSUME NEW r, r.cmd.verb \in {"forget", "rename"}
  PROVE  Written(r) \in Seq({"scopes", "lens", "note"}) /\ Written(r) # << >> /\ Head(Written(r)) = "scopes"
<1> DEFINE a == IF r.cmd.name \in lens THEN <<"lens">> ELSE << >>
           b == IF r.cmd.name \in note THEN <<"note">> ELSE << >>
<1>1. Written(r) = <<"scopes">> \o a \o b
  BY DEF Written
<1>2. a \in {<<"lens">>, << >>} /\ b \in {<<"note">>, << >>}
  OBVIOUS
<1> HIDE DEF a, b
<1>3. CASE a = << >> /\ b = << >>
  BY <1>1, <1>3
<1>4. CASE a = <<"lens">> /\ b = << >>
  BY <1>1, <1>4
<1>5. CASE a = << >> /\ b = <<"note">>
  BY <1>1, <1>5
<1>6. CASE a = <<"lens">> /\ b = <<"note">>
  BY <1>1, <1>6
<1> QED BY <1>2, <1>3, <1>4, <1>5, <1>6

(* What a command makes of the registry keeps it sound, and others' entries.  *)
SoundFor(r, m) ==
  /\ \A n \in Names : ~OwnName(r, n) =>
       /\ At(m.scopes, n) = At(scopes, n)
       /\ (n \in m.lens) = (n \in lens) /\ (n \in m.note) = (n \in note)
  /\ DOMAIN m.scopes \subseteq Names /\ m.lens \subseteq Names /\ m.note \subseteq Names
  /\ \A n \in DOMAIN m.scopes : m.scopes[n].dir \in Dirs
  /\ RegisteredOnce(m.scopes)
  /\ r.cmd.verb = "init" =>
       /\ r.name \notin DOMAIN scopes
       /\ m.scopes = With(scopes, r.name, Entry(r.dir, CodeRoot(r.cmd)))
  /\ r.cmd.verb # "init" => \A n \in DOMAIN m.scopes : cue[m.scopes[n].dir] # NoCue
  /\ r.cmd.verb = "rename" => r.cmd.name \notin DOMAIN m.scopes

LEMMA EntrySound ==
  ASSUME IInv, NEW r, NEW m, NEW n \in Names, NEW d \in Dirs, NEW root, OwnName(r, n),
         m.scopes = With(scopes, n, Entry(d, root)), m.lens = lens, m.note = note,
         \A x \in DOMAIN scopes \ {n} : ~Overlap(d, scopes[x].dir) /\ scopes[x].root # root,
         r.cmd.verb # "init" => cue[d] # NoCue, r.cmd.verb # "rename",
         r.cmd.verb = "init" => n = r.name /\ n \notin DOMAIN scopes /\ d = r.dir /\ root = CodeRoot(r.cmd)
  PROVE  SoundFor(r, m)
<1>1. PICK w : w = m.scopes
  OBVIOUS
<1>2. /\ DOMAIN w = DOMAIN scopes \cup {n} /\ w[n].dir = d
      /\ \A x \in DOMAIN scopes \ {n} : w[x] = scopes[x]
  BY <1>1 DEF With, Entry
<1>3. RegisteredOnce(w)
  BY <1>1, WithOnce DEF IInv, Registry
<1>4. /\ DOMAIN scopes \subseteq Names /\ lens \subseteq Names /\ note \subseteq Names
      /\ \A x \in DOMAIN scopes : scopes[x].dir \in Dirs /\ cue[scopes[x].dir] # NoCue
  BY DEF IInv, Typed, Cued
<1>5. \A x \in Names : ~OwnName(r, x) => At(w, x) = At(scopes, x)
  <2>1. SUFFICES ASSUME NEW x \in Names, x # n PROVE At(w, x) = At(scopes, x)
    OBVIOUS
  <2> QED BY <1>2, <2>1 DEF At
<1>6. \A x \in DOMAIN w : w[x].dir \in Dirs
  BY <1>2, <1>4
<1>7. r.cmd.verb # "init" => \A x \in DOMAIN w : cue[w[x].dir] # NoCue
  BY <1>2, <1>4
<1>8. DOMAIN w \subseteq Names
  BY <1>2, <1>4
<1> QED BY <1>1, <1>3, <1>4, <1>5, <1>6, <1>7, <1>8 DEF SoundFor

LEMMA ChangedSound ==
  ASSUME IInv, NEW r, Placed(r), r.pc = "config", r.cmd.verb # "rename", ~ConfigRefused(r)
  PROVE  SoundFor(r, Changed(r))
<1>0. PICK m : m = Changed(r)
  OBVIOUS
<1>1. /\ DOMAIN scopes \subseteq Names /\ lens \subseteq Names /\ note \subseteq Names
      /\ \A x \in DOMAIN scopes : scopes[x].dir \in Dirs /\ cue[scopes[x].dir] # NoCue
      /\ RegisteredOnce(scopes) /\ NoName \notin Names
  BY NamesAreOrdered DEF IInv, Typed, Cued, Registry
<1>2. r.cmd.verb \in {"init", "import", "rebind", "forget", "lens", "note"} /\ WellFormed(r.cmd)
  BY DEF Placed, WellFormed, Places, Ended
<1>3. CASE r.cmd.verb = "init"
  <2>1. r.name = r.cmd.name /\ r.dir = r.cmd.dir /\ r.name \in Names /\ r.dir \in Dirs
    BY <1>3 DEF Placed, WellFormed
  <2>2. m.scopes = With(scopes, r.name, Entry(r.dir, CodeRoot(r.cmd))) /\ m.lens = lens /\ m.note = note
    BY <1>0, <1>3 DEF Changed, Load, Loaded
  <2>3. ~InitRefused(scopes, r.cmd)
    BY <1>3 DEF ConfigRefused
  <2>4. /\ r.name \notin DOMAIN scopes
        /\ \A x \in DOMAIN scopes \ {NoName} : ~Overlap(r.dir, scopes[x].dir) /\ scopes[x].root # CodeRoot(r.cmd)
    BY <2>1, <2>3 DEF InitRefused, NameFree, CodeRootFree, DirDisjoint
  <2>5. \A x \in DOMAIN scopes \ {r.name} : ~Overlap(r.dir, scopes[x].dir) /\ scopes[x].root # CodeRoot(r.cmd)
    BY <1>1, <2>4
  <2>6. OwnName(r, r.name)
    BY DEF OwnName
  <2> QED BY <1>0, <1>3, <2>1, <2>2, <2>4, <2>5, <2>6, EntrySound
<1>4. CASE r.cmd.verb = "import"
  <2>1. r.name \in Names /\ r.dir \in Dirs /\ cue[r.dir] # NoCue
    BY <1>4 DEF Placed, WellFormed
  <2>2. m.scopes = With(scopes, r.name, Entry(r.dir, CodeRoot(r.cmd))) /\ m.lens = lens /\ m.note = note
    BY <1>0, <1>4 DEF Changed, Load, Loaded
  <2>3. ~ImportRefused(scopes, r)
    BY <1>4 DEF ConfigRefused
  <2>4. \A x \in DOMAIN scopes \ {NoName} : ~Overlap(r.dir, scopes[x].dir) /\ scopes[x].root # CodeRoot(r.cmd)
    BY <2>3 DEF ImportRefused, CodeRootFree, DirDisjoint
  <2>5. \A x \in DOMAIN scopes \ {r.name} : ~Overlap(r.dir, scopes[x].dir) /\ scopes[x].root # CodeRoot(r.cmd)
    BY <1>1, <2>4
  <2>6. OwnName(r, r.name)
    BY DEF OwnName
  <2> QED BY <1>0, <1>4, <2>1, <2>2, <2>5, <2>6, EntrySound
<1>5. CASE r.cmd.verb = "rebind"
  <2>0. PICK n, d, root : n = r.cmd.name /\ d = r.cmd.dir /\ root = NewRoot(scopes, r.cmd)
    OBVIOUS
  <2>1. ~RebindRefused(scopes, r.cmd)
    BY <1>5 DEF ConfigRefused
  <2>2. n \in DOMAIN scopes /\ n \in Names /\ d \in Dirs /\ cue[d] # NoCue
    BY <1>1, <1>2, <1>5, <2>0, <2>1 DEF RebindRefused, Usable, WellFormed
  <2>3. m.scopes = With(scopes, n, Entry(d, root)) /\ m.lens = lens /\ m.note = note
    BY <1>0, <1>5, <2>0 DEF Changed, Load, Loaded
  <2>4. \A x \in DOMAIN scopes \ {n} : ~Overlap(d, scopes[x].dir)
    BY <2>0, <2>1 DEF RebindRefused, DirDisjoint
  <2>5. \A x \in DOMAIN scopes \ {n} : scopes[x].root # root
    <3>1. CASE r.cmd.root = NoPath
      BY <1>1, <2>0, <2>2, <3>1 DEF NewRoot, RegisteredOnce
    <3>2. CASE r.cmd.root # NoPath
      BY <2>0, <2>1, <3>2 DEF NewRoot, RebindRefused, CodeRootFree
    <3> QED BY <3>1, <3>2
  <2>6. OwnName(r, n)
    BY <2>0 DEF OwnName
  <2> QED BY <1>0, <1>5, <2>2, <2>3, <2>4, <2>5, <2>6, EntrySound
<1>6. CASE r.cmd.verb = "forget"
  <2>0. PICK n : n = r.cmd.name
    OBVIOUS
  <2>1. m.scopes = Without(scopes, n) /\ m.lens = lens \ {n} /\ m.note = note \ {n}
    BY <1>0, <1>6, <2>0 DEF Changed, Load, Loaded
  <2>2. RegisteredOnce(m.scopes)
    BY <1>1, <2>1, WithoutOnce
  <2>3. DOMAIN m.scopes = DOMAIN scopes \ {n} /\ \A x \in DOMAIN m.scopes : m.scopes[x] = scopes[x]
    BY <2>1 DEF Without
  <2>4. \A x \in Names : ~OwnName(r, x) => /\ At(m.scopes, x) = At(scopes, x)
                                          /\ (x \in m.lens) = (x \in lens) /\ (x \in m.note) = (x \in note)
    BY <2>0, <2>1, <2>3 DEF At, OwnName
  <2> QED BY <1>0, <1>1, <1>6, <2>1, <2>2, <2>3, <2>4 DEF SoundFor
<1>7. CASE r.cmd.verb \in {"lens", "note"}
  <2>0. r.name \in Names
    BY <1>7 DEF Placed
  <2>1. m.scopes = scopes /\ m.lens \in {lens, lens \cup {r.name}, lens \ {r.name}}
        /\ m.note \in {note, note \cup {r.name}, note \ {r.name}}
    BY <1>0, <1>7 DEF Changed, Load, Loaded
  <2>2. \A x \in Names : ~OwnName(r, x) => (x \in m.lens) = (x \in lens) /\ (x \in m.note) = (x \in note)
    BY <2>1 DEF OwnName
  <2> QED BY <1>0, <1>1, <1>7, <2>0, <2>1, <2>2 DEF SoundFor
<1> QED BY <1>2, <1>3, <1>4, <1>5, <1>6, <1>7

LEMMA RekeyedSound ==
  ASSUME IInv, NEW r, WellFormed(r.cmd), r.cmd.verb = "rename",
         r.cmd.name \in DOMAIN scopes, r.cmd.to \notin DOMAIN scopes
  PROVE  SoundFor(r, Changed(r))
<1>0. PICK m, old, new : m = Changed(r) /\ old = r.cmd.name /\ new = r.cmd.to
  OBVIOUS
<1>1. /\ DOMAIN scopes \subseteq Names /\ lens \subseteq Names /\ note \subseteq Names
      /\ \A x \in DOMAIN scopes : scopes[x].dir \in Dirs /\ cue[scopes[x].dir] # NoCue
      /\ RegisteredOnce(scopes) /\ new \in Names
  BY <1>0 DEF IInv, Typed, Cued, Registry, WellFormed
<1>2. /\ m.scopes = With(Without(scopes, old), new, scopes[old])
      /\ m.lens = Moved(lens, old, new) /\ m.note = Moved(note, old, new)
  BY <1>0 DEF Changed, Load, Loaded, Rekeyed
<1>3. /\ RegisteredOnce(m.scopes) /\ DOMAIN m.scopes = (DOMAIN scopes \ {old}) \cup {new}
      /\ m.scopes[new] = scopes[old] /\ \A x \in DOMAIN m.scopes \ {new} : m.scopes[x] = scopes[x]
  <2>1. old \in DOMAIN scopes /\ new \notin DOMAIN scopes
    BY <1>0
  <2>2. PICK reg : reg = scopes
    OBVIOUS
  <2>3. LET w == With(Without(reg, old), new, reg[old]) IN
        /\ RegisteredOnce(w) /\ DOMAIN w = (DOMAIN reg \ {old}) \cup {new}
        /\ w[new] = reg[old] /\ \A x \in DOMAIN w \ {new} : w[x] = reg[x]
    <3>1. RegisteredOnce(reg) /\ old \in DOMAIN reg /\ new \notin DOMAIN reg
      BY <1>1, <2>1, <2>2
    <3> QED BY ONLY <3>1, RekeyedOnce
  <2> QED BY <1>2, <2>2, <2>3
<1>4. \A x \in Names : ~OwnName(r, x) => x # old /\ x # new
  BY <1>0 DEF OwnName
<1>5. ASSUME NEW x \in Names, ~OwnName(r, x)
      PROVE  /\ At(m.scopes, x) = At(scopes, x)
             /\ (x \in m.lens) = (x \in lens) /\ (x \in m.note) = (x \in note)
  BY <1>2, <1>3, <1>4, <1>5 DEF At, Moved
<1>6. m.lens \subseteq Names /\ m.note \subseteq Names
  BY <1>1, <1>2 DEF Moved
<1>7. /\ DOMAIN m.scopes \subseteq Names /\ old \notin DOMAIN m.scopes
      /\ \A x \in DOMAIN m.scopes : m.scopes[x].dir \in Dirs /\ cue[m.scopes[x].dir] # NoCue
  BY <1>0, <1>1, <1>3
<1> QED BY <1>0, <1>3, <1>5, <1>6, <1>7 DEF SoundFor

LEMMA StoringStarts ==
  ASSUME IInv, NEW p \in Procs, NEW r, NEW s, r = proc[p], s = proc'[p], Keeps(r, s),
         Placed(r), s.pc = "store", s.mem = Changed(r), s.writes = Written(r), SoundFor(r, Changed(r)),
         r.cmd.verb \in {"init", "import", "rebind", "forget", "lens", "note", "rename"},
         UNCHANGED <<mode, scopes, lens, note, cue>>
  PROVE  Storing(s)'
<1>1. s.cmd = r.cmd /\ s.dir = r.dir /\ s.name = r.name
  BY DEF Keeps
<1>2. /\ s.writes # << >>
      /\ IF s.cmd.verb = "init" THEN s.writes \in {<<"cue", "scopes">>, <<"scopes">>}
         ELSE s.writes \in Seq({"scopes", "lens", "note"})
      /\ s.cmd.verb = "init" => Head(s.writes) = "cue"
      /\ s.cmd.verb = "rename" => Head(s.writes) = "scopes"
  <2>1. CASE r.cmd.verb \in {"forget", "rename"}
    BY <1>1, <2>1, SectionsWritten
  <2>2. CASE r.cmd.verb = "init"
    <3>1. s.writes = <<"cue", "scopes">>
      BY <2>2 DEF Written
    <3> QED BY <1>1, <2>2, <3>1
  <2>3. CASE r.cmd.verb \in {"import", "rebind"}
    <3>1. s.writes = <<"scopes">>
      BY <2>3 DEF Written
    <3> QED BY <1>1, <2>3, <3>1
  <2>4. CASE r.cmd.verb = "lens"
    <3>1. s.writes = <<"lens">>
      BY <2>4 DEF Written
    <3> QED BY <1>1, <2>4, <3>1
  <2>5. CASE r.cmd.verb = "note"
    <3>1. s.writes = <<"note">>
      BY <2>5 DEF Written
    <3> QED BY <1>1, <2>5, <3>1
  <2> QED BY <2>1, <2>2, <2>3, <2>4, <2>5
<1>3. PICK m : m = s.mem /\ SoundFor(r, m)
  OBVIOUS
<1>4. \A n \in Names : ~OwnName(s, n) =>
        /\ At(m.scopes, n) = At(scopes', n)
        /\ (n \in m.lens) = (n \in lens') /\ (n \in m.note) = (n \in note')
  BY <1>1, <1>3 DEF SoundFor, OwnName
<1>5. /\ DOMAIN m.scopes \subseteq Names /\ m.lens \subseteq Names /\ m.note \subseteq Names
      /\ \A n \in DOMAIN m.scopes : m.scopes[n].dir \in Dirs
      /\ RegisteredOnce(m.scopes)
  BY <1>3 DEF SoundFor
<1>6. CodeRoot(s.cmd)' = CodeRoot(s.cmd)
  BY DEF CodeRoot, RepoRoot
<1>7. s.cmd.verb = "init" =>
       /\ s.name \notin DOMAIN scopes'
       /\ m.scopes = With(scopes', s.name, Entry(s.dir, CodeRoot(s.cmd)'))
  BY <1>1, <1>3, <1>6 DEF SoundFor
<1>8. ~CuePending(s) /\ s.pc = "store" => \A n \in DOMAIN m.scopes : cue'[m.scopes[n].dir] # NoCue
  <2>1. SUFFICES ASSUME ~CuePending(s), s.pc = "store" PROVE s.cmd.verb # "init"
    BY <1>1, <1>3 DEF SoundFor
  <2> QED BY <1>2, <2>1 DEF CuePending
<1>9. s.cmd.verb = "rename" =>
       /\ s.cmd.name \notin DOMAIN m.scopes
       /\ Head(s.writes) = "scopes"
  BY <1>1, <1>2, <1>3 DEF SoundFor
<1> QED BY <1>2, <1>3, <1>4, <1>5, <1>7, <1>8, <1>9 DEF Storing

LEMMA StoringGoesOn ==
  ASSUME IInv, NEW p \in Procs, Store(p), NEW s, s = proc'[p], s.pc = "store"
  PROVE  Storing(s)'
<1>0. Typed /\ Cued /\ Lasts
  BY AlwaysLasts DEF IInv, Step
<1>1. PICK r : r = proc[p]
  OBVIOUS
<1>2. /\ r.pc = "store" /\ Keeps(r, s) /\ Len(r.writes) # 1
      /\ s.writes = Tail(r.writes) /\ s.mem = r.mem
      /\ scopes' = IF Head(r.writes) = "scopes" THEN r.mem.scopes ELSE scopes
      /\ lens' = IF Head(r.writes) = "lens" THEN r.mem.lens ELSE lens
      /\ note' = IF Head(r.writes) = "note" THEN r.mem.note ELSE note
      /\ cue' = IF Head(r.writes) = "cue"
                THEN [cue EXCEPT ![r.dir] = [name |-> r.name, auto |-> r.auto, field |-> FALSE]]
                ELSE cue
  BY <1>0, <1>1, StoreEffect
<1>3. Storing(r) /\ s.cmd = r.cmd /\ s.dir = r.dir /\ s.name = r.name
  BY <1>1, <1>2 DEF IInv, Registry, Keeps
<1>4. PICK m : m = s.mem /\ m = r.mem
  BY <1>2
<1>5. \A n \in Names : ~OwnName(s, n) =>
        /\ At(m.scopes, n) = At(scopes', n)
        /\ (n \in m.lens) = (n \in lens') /\ (n \in m.note) = (n \in note')
  BY <1>2, <1>3, <1>4 DEF Storing, OwnName
<1>6. /\ DOMAIN m.scopes \subseteq Names /\ m.lens \subseteq Names /\ m.note \subseteq Names
      /\ \A n \in DOMAIN m.scopes : m.scopes[n].dir \in Dirs
      /\ RegisteredOnce(m.scopes)
  BY <1>3, <1>4 DEF Storing
<1>7. CodeRoot(s.cmd)' = CodeRoot(s.cmd)
  BY <1>0, ReasonsLast DEF CodeRoot
<1>8. CASE s.cmd.verb = "init"
  <2>1. r.writes = <<"cue", "scopes">>
    BY <1>2, <1>3, <1>8 DEF Storing
  <2>2. s.writes = <<"scopes">> /\ Head(r.writes) = "cue"
    BY <1>2, <2>1
  <2>3. s.name \notin DOMAIN scopes' /\ m.scopes = With(scopes', s.name, Entry(s.dir, CodeRoot(s.cmd)'))
    BY <1>2, <1>3, <1>4, <1>7, <1>8, <2>2 DEF Storing
  <2>4. Touches(p, r.dir) \/ cue' = cue
    BY <1>1, StoreTouches
  <2>5. r.dir \in Dirs /\ cue'[r.dir] # NoCue
    <3>1. Placed(r)
      BY <1>1 DEF IInv, Control
    <3>2. r.dir \in Dirs /\ r.name \in Names
      BY <1>2, <1>3, <1>8, <3>1 DEF Placed, WellFormed
    <3>3. cue'[r.dir] = [name |-> r.name, auto |-> r.auto, field |-> FALSE]
      BY <1>0, <1>2, <2>2, <3>2 DEF Typed
    <3> QED BY <3>2, <3>3, NamesAreOrdered DEF NoCue, NoName
  <2>6. \A n \in DOMAIN scopes : scopes[n].dir \in Dirs /\ cue'[scopes[n].dir] # NoCue
    BY <1>0, CueSteps DEF Cued, Typed, Step
  <2>7. \A n \in DOMAIN m.scopes : cue'[m.scopes[n].dir] # NoCue
    BY <1>2, <1>3, <2>2, <2>3, <2>5, <2>6 DEF With, Entry
  <2>8. /\ s.writes # << >> /\ s.writes \in {<<"cue", "scopes">>, <<"scopes">>}
    BY <2>2
  <2> QED BY <1>4, <1>5, <1>6, <1>8, <2>3, <2>7, <2>8 DEF Storing
<1>9. CASE s.cmd.verb # "init"
  <2>1. r.writes # << >> /\ r.writes \in Seq({"scopes", "lens", "note"})
    BY <1>3, <1>9 DEF Storing
  <2>2. s.writes # << >> /\ s.writes \in Seq({"scopes", "lens", "note"}) /\ Head(r.writes) \in {"scopes", "lens", "note"}
    <3>1. PICK w, S : w = r.writes /\ S = {"scopes", "lens", "note"} /\ w \in Seq(S) /\ w # << >>
      BY <2>1
    <3>2. Head(w) \in S /\ Tail(w) \in Seq(S) /\ Len(Tail(w)) = Len(w) - 1
      BY <3>1, HeadTailProperties
    <3>3. Len(w) \in Nat /\ Len(w) # 1 /\ Len(w) # 0
      BY <1>2, <3>1
    <3>4. Len(<< >>) = 0
      OBVIOUS
    <3>5. Tail(w) # << >>
      BY SMTT(40), <3>2, <3>3, <3>4
    <3> QED BY <1>2, <3>1, <3>2, <3>5
  <2>3. cue' = cue
    BY <1>2, <2>2
  <2>4. \A n \in DOMAIN m.scopes : cue'[m.scopes[n].dir] # NoCue
    BY <1>3, <1>4, <1>9, <2>3 DEF Storing, CuePending
  <2>5. s.cmd.verb = "rename" => s.cmd.name \notin DOMAIN m.scopes /\ s.cmd.name \notin DOMAIN scopes'
    BY <1>2, <1>3, <1>4 DEF Storing
  <2> QED BY <1>4, <1>5, <1>6, <1>9, <2>2, <2>4, <2>5 DEF Storing
<1> QED BY <1>8, <1>9

(* The holder of the machine-global lock, while others step.                  *)
LEMMA StoringCarries ==
  ASSUME IInv, NEW r, Storing(r), Lasts, UNCHANGED <<scopes, lens, note>>,
         \A d \in Dirs : cue[d] # NoCue => cue'[d] # NoCue
  PROVE  Storing(r)'
<1>1. CodeRoot(r.cmd)' = CodeRoot(r.cmd)
  BY ReasonsLast DEF CodeRoot
<1>2. r.cmd.verb = "init" =>
       /\ r.name \notin DOMAIN scopes'
       /\ r.mem.scopes = With(scopes', r.name, Entry(r.dir, CodeRoot(r.cmd)'))
  BY <1>1 DEF Storing
<1>3. ~CuePending(r) => \A n \in DOMAIN r.mem.scopes : cue'[r.mem.scopes[n].dir] # NoCue
  BY DEF Storing
<1>4. /\ r.writes # << >>
      /\ IF r.cmd.verb = "init" THEN r.writes \in {<<"cue", "scopes">>, <<"scopes">>}
         ELSE r.writes \in Seq({"scopes", "lens", "note"})
  BY DEF Storing
<1>5. \A n \in Names : ~OwnName(r, n) =>
       /\ At(r.mem.scopes, n) = At(scopes', n)
       /\ (n \in r.mem.lens) = (n \in lens') /\ (n \in r.mem.note) = (n \in note')
  BY DEF Storing
<1>6. /\ DOMAIN r.mem.scopes \subseteq Names /\ r.mem.lens \subseteq Names /\ r.mem.note \subseteq Names
      /\ \A n \in DOMAIN r.mem.scopes : r.mem.scopes[n].dir \in Dirs
      /\ RegisteredOnce(r.mem.scopes)
      /\ r.cmd.verb = "rename" =>
           /\ r.cmd.name \notin DOMAIN r.mem.scopes
           /\ Head(r.writes) = "scopes" \/ r.cmd.name \notin DOMAIN scopes'
  BY DEF Storing
<1> QED BY <1>2, <1>3, <1>4, <1>5, <1>6 DEF Storing

LEMMA RegistryStep ==
  ASSUME IInv, NEW p \in Procs, Start(p) \/ Step(p) \/ Die(p)
  PROVE  Registry'
<1>0. Typed /\ Control /\ Alone(p) /\ Lasts /\ StoreSteps(p)
  BY StartOpens, StepKeeps, AlwaysLasts, AlwaysStoreSteps DEF IInv
<1>1. RegisteredOnce(scopes')
  <2>1. CASE UNCHANGED <<scopes, lens, note>>
    BY <2>1 DEF IInv, Registry
  <2>2. CASE proc[p].pc = "store" /\ scopes' \in {scopes, proc[p].mem.scopes}
    BY <2>2 DEF IInv, Registry, Storing
  <2> QED BY <1>0, <2>1, <2>2 DEF StoreSteps
<1>2. ASSUME NEW q \in Procs, NEW s, s = proc'[q], s.pc = "store"
      PROVE  Storing(s)'
  <2>1. CASE q # p
    <3>1. s = proc[q] /\ Storing(s) /\ config = q
      BY <1>0, <1>2, <2>1 DEF Alone, IInv, Registry, Locked, Locking
    <3>2. proc[p].pc # "store"
      BY <2>1, <3>1 DEF IInv, Locked, Locking
    <3> QED BY <1>0, <3>1, <3>2, StoringCarries, CueSteps DEF StoreSteps
  <2>2. CASE q = p
    <3>0. PICK r : r = proc[p] /\ Placed(r)
      BY <1>0 DEF Control
    <3>1. CASE Start(p)
      BY <1>0, <1>2, <2>2, <3>1, StartOpens, OpenedShape
    <3>2. CASE Store(p)
      BY <1>2, <2>2, <3>2, StoringGoesOn
    <3>3. CASE TakeConfig(p)
      <4>1. /\ r.pc = "config" /\ r.cmd.verb # "rename" /\ ~ConfigRefused(r) /\ Keeps(r, s)
            /\ s.mem = Changed(r) /\ s.writes = Written(r) /\ UNCHANGED <<mode, scopes, lens, note, cue>>
        BY <1>0, <1>2, <2>2, <3>0, <3>3, TakeConfigEffect DEF Ends, Alone
      <4>2. SoundFor(r, Changed(r))
        BY <3>0, <4>1, ChangedSound
      <4>3. r.cmd.verb \in {"init", "import", "rebind", "forget", "lens", "note"}
        BY <3>0, <4>1 DEF Placed, WellFormed, Places, Ended
      <4> QED BY <1>2, <2>2, <3>0, <4>1, <4>2, <4>3, StoringStarts
    <3>4. CASE RekeyRegistry(p)
      <4>1. /\ r.pc = "config" /\ r.cmd.verb = "rename" /\ Keeps(r, s)
            /\ r.cmd.name \in DOMAIN scopes /\ r.cmd.to \notin DOMAIN scopes
            /\ s.mem = Changed(r) /\ s.writes = Written(r) /\ UNCHANGED <<mode, scopes, lens, note, cue>>
        BY <1>0, <1>2, <2>2, <3>0, <3>4, RekeyRegistryEffect DEF Ends, Alone
      <4>2. WellFormed(r.cmd)
        BY <3>0, <4>1 DEF Placed
      <4>3. SoundFor(r, Changed(r))
        BY <4>1, <4>2, RekeyedSound
      <4> QED BY <1>2, <2>2, <3>0, <4>1, <4>3, StoringStarts
    <3>5. CASE TakeScope(p)
      <4>1. s.pc \in {"failed", "lock", AfterLocks(r)} /\ r.pc = "lock"
        BY <1>0, <1>2, <2>2, <3>0, <3>5, TakeScopeEffect DEF Ends
      <4>2. r.cmd.verb \in {"rename", "auto", "field", "sync", "rehome"}
        BY <3>0, <4>1 DEF Placed, WellFormed, Places, Ended
      <4> QED BY <1>2, <4>1, <4>2 DEF AfterLocks
    <3>6. CASE PlanRename(p) \/ RenameTicket(p) \/ RewriteName(p) \/ CheckSet(p)
      BY <1>0, <1>2, <2>2, <3>6, PlanRenameEffect, RenameTicketEffect, RewriteNameEffect, CheckSetEffect DEF Ends
    <3>7. CASE RewriteCue(p) \/ NotConfirmed(p) \/ RestoreCue(p) \/ SelfCommit(p)
      BY <1>0, <1>2, <2>2, <3>7, RewriteCueEffect, NotConfirmedEffect, RestoreCueEffect, SelfCommitEffect DEF Ends
    <3>8. CASE TakeRoot(p) \/ SyncEnd(p) \/ RehomeCommit(p) \/ Die(p)
      BY <1>0, <1>2, <2>2, <3>8, TakeRootEffect, SyncEndEffect, RehomeCommitEffect, DieEffect DEF Ends
    <3> QED BY <3>1, <3>2, <3>3, <3>4, <3>5, <3>6, <3>7, <3>8 DEF Step
  <2> QED BY <2>1, <2>2
<1>3. ASSUME NEW q \in Procs
      PROVE  (proc[q].pc = "store" => Storing(proc[q]))'
  <2>1. PICK s : s = proc'[q]
    OBVIOUS
  <2>2. s.pc = "store" => Storing(s)'
    BY <1>2, <2>1
  <2> QED BY <2>1, <2>2 DEF Storing
<1> QED BY <1>1, <1>3 DEF Registry

-----------------------------------------------------------------------------
(* Names of ticket files and of tk.cue.                                      *)

LEMMA RenameHas ==
  ASSUME IInv, NEW q \in Procs, NEW r, r = proc[q], r.cmd.verb = "rename", r.pc \notin Ended
  PROVE  /\ r.dir \in Dirs /\ cue[r.dir] # NoCue
         /\ r.pc # "lock" => flock[r.dir] = q
<1>1. Placed(r) /\ Locking(q)
  BY DEF IInv, Control, Locked
<1>2. r.pc # "new"
  BY <1>1 DEF Placed, Fresh, NoCommand
<1>3. r.dir \in DirsOf(r)
  BY <1>1 DEF Placed
<1>4. r.dir \in Dirs /\ cue[r.dir] # NoCue
  BY <1>1, <1>3 DEF Placed, DirsOf
<1>5. r.pc # "lock" => flock[r.dir] = q
  BY <1>1, <1>2, <1>3 DEF Locking
<1> QED BY <1>4, <1>5

LEMMA OtherNameLasts ==
  ASSUME Lasts, NEW r
  PROVE  /\ OtherName(r) => OtherName(r)'
         /\ \A n : RenamedTo(r.dir, n) /\ n # r.cmd.to => OtherName(r)
<1>1. OtherName(r) => OtherName(r)'
  BY DEF Lasts, Keeps, OtherName
<1>2. \A n : RenamedTo(r.dir, n) /\ n # r.cmd.to => OtherName(r)
  BY DEF OtherName, RenamedTo
<1> QED BY <1>1, <1>2

(* Where a tk.cue gets another name.                                          *)
LEMMA NameSteps ==
  ASSUME IInv, NEW p \in Procs, Start(p) \/ Step(p) \/ Die(p), NEW d \in Dirs,
         cue[d] # NoCue, cue'[d].name # cue[d].name
  PROVE  InitTwice(d) \/ (Relabels(p, d) /\ RenamedTo(d, cue'[d].name) /\ proc[p].cmd.to = cue'[d].name)
<1>1. Touches(p, d)
  BY CueSteps DEF Touches
<1>2. CASE Authors(p, d)
  BY <1>2 DEF Authors
<1>3. CASE Relabels(p, d)
  BY <1>3 DEF Relabels, RenamedTo
<1>4. CASE Sets(p, d)
  BY <1>4 DEF Sets, OwnDiffers
<1> QED BY <1>1, <1>2, <1>3, <1>4 DEF Touches

LEMMA FileNames ==
  ASSUME IInv, NEW p \in Procs, Start(p) \/ Step(p) \/ Die(p), NEW d \in Dirs, NEW f \in files'[d]
  PROVE  f[2] = cue'[d].name \/ InitTwice(d)' \/ RenamedTo(d, f[2])'
<1>0. Lasts /\ FileSteps(p) /\ Typed /\ Control
  BY AlwaysLasts, AlwaysFileSteps DEF IInv
<1>1. (InitTwice(d) => InitTwice(d)') /\ (RenamedTo(d, f[2]) => RenamedTo(d, f[2])')
  BY <1>0, ReasonsLast
<1>2. CASE f \notin files[d]
  <2>1. PICK r : r = proc[p]
    OBVIOUS
  <2>2. PICK t : r.cmd.verb = "rename" /\ files' = [files EXCEPT ![r.dir] = @ \cup {<<t, r.cmd.to>>}] /\ r.dir \in Dirs
    <3>1. files' # files
      BY <1>2
    <3>2. PICK t \in r.todo :
            /\ r.cmd.verb = "rename" /\ r.dir \in Dirs
            /\ \/ files' = [files EXCEPT ![r.dir] = @ \cup {<<t, r.cmd.to>>}]
               \/ files' = [files EXCEPT ![r.dir] = @ \ {<<t, r.cmd.name>>}]
      BY <1>0, <2>1, <3>1 DEF FileSteps
    <3>3. files' # [files EXCEPT ![r.dir] = @ \ {<<t, r.cmd.name>>}]
      BY <1>0, <1>2 DEF Typed
    <3> QED BY <3>2, <3>3
  <2>3. d = r.dir /\ f = <<t, r.cmd.to>>
    BY <1>0, <1>2, <2>2 DEF Typed
  <2>4. RenamedTo(d, f[2])
    BY <2>1, <2>2, <2>3 DEF RenamedTo
  <2> QED BY <1>1, <2>4
<1>3. CASE f \in files[d]
  <2>1. f[2] = cue[d].name \/ InitTwice(d) \/ RenamedTo(d, f[2])
    BY <1>3 DEF IInv, Named
  <2>2. cue[d] # NoCue
    BY <1>3 DEF IInv, Cued
  <2>3. CASE f[2] = cue[d].name /\ cue'[d].name # cue[d].name /\ ~InitTwice(d)
    <3>1. PICK r : r = proc[p]
      OBVIOUS
    <3>2. Relabels(p, d) /\ RenamedTo(d, cue'[d].name) /\ r.cmd.to = cue'[d].name
      BY <2>2, <2>3, <3>1, NameSteps
    <3>3. r.cmd.verb = "rename" /\ r.pc = "tickets" /\ r.todo = {} /\ d = r.dir
      BY <3>1, <3>2 DEF Relabels
    <3>4. GivesName(r)
      BY <3>1 DEF IInv, Named
    <3>5. f[2] # r.cmd.name
      BY <1>3, <3>3, <3>4 DEF GivesName
    <3>6. RenamedTo(d, cue[d].name)
      BY <2>3, <3>2, <3>3, <3>4, <3>5 DEF GivesName, Ended
    <3> QED BY <1>1, <2>3, <3>6
  <2> QED BY <1>1, <2>1, <2>3
<1> QED BY <1>2, <1>3

(* What a rename that is under way gives.                                     *)
Giving(r) ==
  \/ InitTwice(r.dir) \/ cue[r.dir].name = r.cmd.to
  \/ cue[r.dir].name = r.cmd.name /\ r.name # r.cmd.to
  \/ RenamedTo(r.dir, cue[r.dir].name)
LEMMA GivingCarries ==
  ASSUME IInv, NEW p \in Procs, Start(p) \/ Step(p) \/ Die(p), NEW q \in Procs, NEW r, r = proc[q],
         r.cmd.verb = "rename", r.pc \notin Ended
  PROVE  r.dir \in Dirs /\ r.cmd.name # r.cmd.to /\ Giving(r)'
<1>0. Lasts /\ Typed /\ Control
  BY AlwaysLasts DEF IInv
<1>1. r.dir \in Dirs /\ r.cmd.name # r.cmd.to /\ Giving(r)
  BY DEF IInv, Named, GivesName, Giving
<1>2. cue[r.dir] # NoCue
  BY RenameHas
<1>3. (InitTwice(r.dir) => InitTwice(r.dir)') /\ \A n : RenamedTo(r.dir, n) => RenamedTo(r.dir, n)'
  BY <1>0, ReasonsLast
<1>4. CASE cue'[r.dir].name = cue[r.dir].name
  BY <1>1, <1>3, <1>4 DEF Giving
<1>5. CASE cue'[r.dir].name # cue[r.dir].name
  <2>1. PICK n : n = cue'[r.dir].name
    OBVIOUS
  <2>2. InitTwice(r.dir) \/ RenamedTo(r.dir, n)
    BY <1>1, <1>2, <1>5, <2>1, NameSteps
  <2>3. InitTwice(r.dir)' \/ RenamedTo(r.dir, n)'
    BY <1>3, <2>2
  <2>4. RenamedTo(r.dir, n)' => (RenamedTo(r.dir, cue[r.dir].name))'
    BY <2>1 DEF RenamedTo
  <2> QED BY <1>1, <2>3, <2>4 DEF Giving
<1> QED BY <1>1, <1>4, <1>5

(* A rename that plans or renames tickets knows all that have the old name;   *)
(* one that is past its tk.cue has given the name.                             *)
LEMMA SelfGives ==
  ASSUME IInv, NEW p \in Procs, Step(p) \/ Die(p), NEW s, s = proc'[p], s.cmd.verb = "rename"
  PROVE  /\ s.pc = "tickets" => \A f \in files'[s.dir] : f[2] = s.cmd.name => f[1] \in s.todo
         /\ s.pc \in {"commit", "config", "store"} =>
              InitTwice(s.dir) \/ cue'[s.dir].name = s.cmd.to \/ OtherName(s)
<1>0. Typed /\ Control /\ Lasts
  BY AlwaysLasts DEF IInv
<1>1. PICK r : r = proc[p]
  OBVIOUS
<1>2. Keeps(r, s) /\ s.cmd = r.cmd /\ s.dir = r.dir /\ r.pc \notin Ended \cup {"new"} /\ Placed(r) /\ GivesName(r)
  BY <1>0, <1>1, StepKeeps DEF Keeps, Control, IInv, Named
<1>3. r.dir \in Dirs /\ r.cmd.name # r.cmd.to /\ Giving(r) /\ r.pc \in Places("rename")
  BY <1>2 DEF GivesName, Giving, Placed
<1>4. OtherName(s) <=> OtherName(r)
  BY <1>2 DEF OtherName
<1>5. CASE PlanRename(p)
  <2>1. s.pc = "tickets" /\ s.todo = RenamePlan(r) /\ files' = files
    BY <1>0, <1>1, <1>5, PlanRenameEffect
  <2>2. ASSUME NEW f \in files[r.dir], f[2] = r.cmd.name PROVE f[1] \in s.todo
    <3>1. f \in Tickets \X Names
      BY <1>0, <1>3 DEF Typed
    <3>2. f = <<f[1], f[2]>> /\ f[1] \in Tickets
      BY <3>1
    <3> QED BY <2>1, <2>2, <3>2 DEF RenamePlan
  <2> QED BY <1>2, <2>1, <2>2
<1>6. CASE RenameTicket(p)
  <2>1. r.pc = "tickets" /\ s.pc = "tickets"
    BY <1>0, <1>1, <1>6, RenameTicketEffect
  <2>2. \A f \in files[r.dir] : f[2] = r.cmd.name => f[1] \in r.todo
    BY <1>2, <2>1 DEF GivesName
  <2>3. PICK t \in r.todo :
          \/ /\ s = r
             /\ files' = [files EXCEPT ![r.dir] = @ \cup {<<t, r.cmd.to>>}]
          \/ /\ s.todo = r.todo \ {t}
             /\ files' = [files EXCEPT ![r.dir] = @ \ {<<t, r.cmd.name>>}]
    BY <1>0, <1>1, <1>6, RenameTicketEffect
  <2>4. CASE s = r /\ files' = [files EXCEPT ![r.dir] = @ \cup {<<t, r.cmd.to>>}]
    <3>1. files'[r.dir] = files[r.dir] \cup {<<t, r.cmd.to>>}
      BY <1>0, <1>3, <2>4 DEF Typed
    <3> QED BY <1>3, <2>1, <2>2, <2>4, <3>1
  <2>5. CASE s.todo = r.todo \ {t} /\ files' = [files EXCEPT ![r.dir] = @ \ {<<t, r.cmd.name>>}]
    <3>1. files'[r.dir] = files[r.dir] \ {<<t, r.cmd.name>>}
      BY <1>0, <1>3, <2>5 DEF Typed
    <3>2. ASSUME NEW f \in files'[r.dir], f[2] = r.cmd.name PROVE f[1] \in s.todo
      <4>1. f \in Tickets \X Names /\ f \in files[r.dir] /\ f # <<t, r.cmd.name>>
        BY <1>0, <1>3, <3>1, <3>2 DEF Typed
      <4>2. f = <<f[1], f[2]>>
        BY <4>1
      <4> QED BY <2>2, <2>5, <3>2, <4>1, <4>2
    <3> QED BY <1>2, <2>1, <3>2
  <2> QED BY <2>3, <2>4, <2>5
<1>7. CASE RewriteName(p)
  <2>1. /\ s.pc = "commit"
        /\ cue' = IF r.name = r.cmd.to THEN cue ELSE [cue EXCEPT ![r.dir].name = r.cmd.to]
    BY <1>0, <1>1, <1>7, RewriteNameEffect DEF Ends
  <2>2. CASE r.name # r.cmd.to
    <3>1. PICK c : c = cue[r.dir] /\ c \in Cues
      BY <1>0, <1>1, <1>2, <1>3, RenameHas DEF Typed
    <3>2. cue'[r.dir] = [c EXCEPT !.name = r.cmd.to]
      BY <1>0, <1>3, <2>1, <2>2, <3>1 DEF Typed
    <3>3. cue'[r.dir].name = r.cmd.to
      BY <3>1, <3>2 DEF Cues
    <3> QED BY <1>2, <2>1, <3>3
  <2>3. CASE r.name = r.cmd.to
    <3>1. InitTwice(r.dir) \/ cue[r.dir].name = r.cmd.to \/ RenamedTo(r.dir, cue[r.dir].name)
      BY <1>3, <2>3 DEF Giving
    <3>2. InitTwice(r.dir) \/ cue[r.dir].name = r.cmd.to \/ OtherName(r)
      BY <1>0, <3>1, OtherNameLasts
    <3> QED BY <1>2, <1>4, <2>1, <2>3, <3>2
  <2> QED BY <2>2, <2>3
<1>8. CASE SelfCommit(p) \/ RekeyRegistry(p)
  <2>1. r.pc \in {"commit", "config"} /\ s.pc \in {"config", "store"} \cup Ended \cup {"restore"} /\ cue' = cue
    BY <1>0, <1>1, <1>8, SelfCommitEffect, RekeyRegistryEffect DEF Ends, Ended
  <2>2. InitTwice(r.dir) \/ cue[r.dir].name = r.cmd.to \/ OtherName(r)
    BY <1>2, <2>1 DEF GivesName
  <2> QED BY <1>2, <1>4, <2>1, <2>2 DEF Ended
<1>9. CASE Store(p)
  <2>1. r.pc = "store" /\ s.pc \in {"done", "store"}
    BY <1>0, <1>1, <1>9, StoreEffect
  <2>2. cue' = cue
    <3>1. ~Touches(p, r.dir)
      BY <1>1, <1>2, <2>1 DEF Touches, Authors, Relabels, Sets
    <3> QED BY <1>1, <1>9, <3>1, StoreTouches
  <2>3. InitTwice(r.dir) \/ cue[r.dir].name = r.cmd.to \/ OtherName(r)
    BY <1>2, <2>1 DEF GivesName
  <2> QED BY <1>2, <1>4, <2>1, <2>2, <2>3
<1>10. CASE TakeScope(p)
  <2>1. s.pc \in {"failed", "lock", AfterLocks(r)}
    BY <1>0, <1>1, <1>10, TakeScopeEffect DEF Ends
  <2> QED BY <1>2, <2>1 DEF AfterLocks
<1>11. CASE TakeConfig(p) \/ CheckSet(p) \/ RewriteCue(p) \/ NotConfirmed(p)
  <2>1. r.cmd.verb # "rename" \/ r.pc \in {"check", "rewrite"}
    BY <1>0, <1>1, <1>11, TakeConfigEffect, CheckSetEffect, RewriteCueEffect, NotConfirmedEffect
  <2> QED BY <1>2, <1>3, <2>1 DEF Places
<1>12. CASE RestoreCue(p) \/ TakeRoot(p) \/ SyncEnd(p) \/ RehomeCommit(p)
  <2>1. r.pc \in {"restore", "root", "synced"}
    BY <1>0, <1>1, <1>12, RestoreCueEffect, TakeRootEffect, SyncEndEffect, RehomeCommitEffect
  <2> QED BY <1>3, <2>1 DEF Places
<1>13. CASE Die(p)
  BY <1>0, <1>1, <1>13, DieEffect DEF Ends
<1> QED BY <1>5, <1>6, <1>7, <1>8, <1>9, <1>10, <1>11, <1>12, <1>13 DEF Step

LEMMA OpenedGives ==
  ASSUME IInv, NEW c, WellFormed(c), c.verb = "rename", NEW s, s = Opened(c), s.pc # "failed"
  PROVE  s.pc = "lock" /\ s.dir \in Dirs /\ c.name # c.to /\ Giving(s)
<1>1. s # Refused(c)
  BY FreshIsProc DEF Refused, IsProc, Fields
<1>2. PICK d : d = scopes[c.name].dir
  OBVIOUS
<1>3. /\ c.name \in DOMAIN scopes /\ cue[d].name \in {c.name, c.to} /\ c.name # c.to
      /\ s = [Starting(c, d) EXCEPT !.pc = "lock", !.name = cue[d].name, !.auto = cue[d].auto,
                                    !.todo = {c.name}, !.peers = {c.name}]
  BY <1>1, <1>2 DEF Opened, OpenRename
<1>4. d \in Dirs
  BY <1>2, <1>3 DEF IInv, Typed
<1>5. s.pc = "lock" /\ s.dir = d /\ s.name = cue[d].name /\ s.cmd = c
  BY <1>3, FreshIsProc DEF Starting, IsProc, Fields
<1> QED BY <1>3, <1>4, <1>5 DEF Giving

LEMMA NamedStep ==
  ASSUME IInv, NEW p \in Procs, Start(p) \/ Step(p) \/ Die(p)
  PROVE  Named'
<1>0. Typed /\ Control /\ Alone(p) /\ Lasts /\ FileSteps(p)
  BY StartOpens, StepKeeps, AlwaysLasts, AlwaysFileSteps DEF IInv
<1>1. ASSUME NEW d \in Dirs, NEW f \in files'[d]
      PROVE  f[2] = cue'[d].name \/ InitTwice(d)' \/ RenamedTo(d, f[2])'
  BY <1>1, FileNames
<1>2. ASSUME NEW q \in Procs, NEW s, s = proc'[q], s.cmd.verb = "rename"
      PROVE  /\ s.pc \notin Ended => s.dir \in Dirs /\ s.cmd.name # s.cmd.to /\ Giving(s)'
             /\ s.pc = "tickets" => \A f \in files'[s.dir] : f[2] = s.cmd.name => f[1] \in s.todo
             /\ s.pc \in {"commit", "config", "store"} =>
                  InitTwice(s.dir)' \/ cue'[s.dir].name = s.cmd.to \/ OtherName(s)'
  <2>1. CASE q = p /\ Start(p)
    <3>1. PICK c : WellFormed(c) /\ s = Opened(c)
      BY <1>0, <1>2, <2>1, StartOpens
    <3>2. s.cmd = c /\ s.pc \in {"config", "lock", "failed"}
      BY <3>1, OpenedShape
    <3>3. CASE s.pc = "failed"
      BY <3>3 DEF Ended
    <3>4. CASE s.pc # "failed"
      <4>1. s.pc = "lock" /\ s.dir \in Dirs /\ c.name # c.to /\ Giving(s)
        BY <1>2, <3>1, <3>2, <3>4, OpenedGives
      <4>2. cue' = cue
        BY <1>0, <2>1, StartOpens
      <4>3. Giving(s)'
        <5>1. (InitTwice(s.dir) => InitTwice(s.dir)') /\ \A n : RenamedTo(s.dir, n) => RenamedTo(s.dir, n)'
          BY <1>0, ReasonsLast
        <5> QED BY <4>1, <4>2, <5>1 DEF Giving
      <4> QED BY <3>2, <4>1, <4>3
    <3> QED BY <3>3, <3>4
  <2>2. CASE q = p /\ (Step(p) \/ Die(p))
    <3>0. PICK r : r = proc[p]
      OBVIOUS
    <3>1. r.cmd = s.cmd /\ r.dir = s.dir /\ r.name = s.name /\ r.pc \notin Ended
      BY <1>0, <1>2, <2>2, <3>0, StepKeeps DEF Keeps
    <3>2. r.dir \in Dirs /\ r.cmd.name # r.cmd.to /\ Giving(r)'
      BY <1>2, <3>0, <3>1, GivingCarries
    <3>3. Giving(s)'
      BY <3>1, <3>2 DEF Giving
    <3>4. /\ s.pc = "tickets" => \A f \in files'[s.dir] : f[2] = s.cmd.name => f[1] \in s.todo
          /\ s.pc \in {"commit", "config", "store"} =>
               InitTwice(s.dir) \/ cue'[s.dir].name = s.cmd.to \/ OtherName(s)
      BY <1>2, <2>2, SelfGives
    <3>5. (InitTwice(s.dir) => InitTwice(s.dir)') /\ (OtherName(s) => OtherName(s)')
      BY <1>0, ReasonsLast, OtherNameLasts
    <3> QED BY <3>1, <3>2, <3>3, <3>4, <3>5
  <2>3. CASE q # p
    <3>1. s = proc[q] /\ GivesName(s)
      BY <1>0, <1>2, <2>3 DEF Alone, IInv, Named
    <3>2. s.pc \notin Ended => s.dir \in Dirs /\ s.cmd.name # s.cmd.to /\ Giving(s)'
      BY <1>2, <3>1, GivingCarries
    <3>3. s.pc \notin Ended /\ s.pc # "lock" => flock[s.dir] = q /\ s.dir \in Dirs /\ cue[s.dir] # NoCue
      BY <1>2, <3>1, RenameHas
    <3>4. s.pc = "tickets" => \A f \in files'[s.dir] : f[2] = s.cmd.name => f[1] \in s.todo
      <4>1. SUFFICES ASSUME s.pc = "tickets" PROVE files'[s.dir] = files[s.dir]
        BY <1>2, <3>1 DEF GivesName
      <4>2. flock[s.dir] = q /\ s.dir \in Dirs
        BY <3>3, <4>1 DEF Ended
      <4>3. CASE files' = files
        BY <4>3
      <4>4. CASE files' # files
        <5>1. PICK r : r = proc[p]
          OBVIOUS
        <5>2. /\ flock[r.dir] = p /\ r.dir \in Dirs
              /\ \E t : \/ files' = [files EXCEPT ![r.dir] = @ \cup {<<t, r.cmd.to>>}]
                        \/ files' = [files EXCEPT ![r.dir] = @ \ {<<t, r.cmd.name>>}]
          BY <1>0, <4>4, <5>1 DEF FileSteps
        <5>3. r.dir # s.dir
          BY <2>3, <4>2, <5>2
        <5> QED BY <1>0, <4>2, <5>2, <5>3 DEF Typed
      <4> QED BY <4>3, <4>4
    <3>5. s.pc \in {"commit", "config", "store"} =>
            InitTwice(s.dir)' \/ cue'[s.dir].name = s.cmd.to \/ OtherName(s)'
      <4>1. SUFFICES ASSUME s.pc \in {"commit", "config", "store"}
            PROVE InitTwice(s.dir)' \/ cue'[s.dir].name = s.cmd.to \/ OtherName(s)'
        OBVIOUS
      <4>2. InitTwice(s.dir) \/ cue[s.dir].name = s.cmd.to \/ OtherName(s)
        BY <1>2, <3>1, <4>1 DEF GivesName
      <4>3. (InitTwice(s.dir) => InitTwice(s.dir)') /\ (OtherName(s) => OtherName(s)')
        BY <1>0, ReasonsLast, OtherNameLasts
      <4>4. flock[s.dir] = q /\ s.dir \in Dirs /\ cue[s.dir] # NoCue
        BY <3>3, <4>1 DEF Ended
      <4>5. ~Relabels(p, s.dir)
        BY <2>3, <4>4 DEF Relabels
      <4>6. cue'[s.dir].name = cue[s.dir].name \/ InitTwice(s.dir)
        BY <4>4, <4>5, NameSteps
      <4> QED BY <4>2, <4>3, <4>6
    <3> QED BY <3>2, <3>4, <3>5
  <2> QED BY <2>1, <2>2, <2>3
<1>3. ASSUME NEW q \in Procs PROVE GivesName(proc[q])'
  <2>1. PICK s : s = proc'[q]
    OBVIOUS
  <2>2. GivesName(s)'
    BY <1>2, <2>1 DEF GivesName, Giving
  <2> QED BY <2>1, <2>2 DEF GivesName
<1> QED BY <1>1, <1>3 DEF Named

-----------------------------------------------------------------------------
(* Agreement on autoCommit.                                                  *)

LEMMA TwiceAnyway == \A d \in Dirs : InitTwice(d) => Anyway
BY DEF Anyway

LEMMA GoodEither == \A d, e : Good(d, e) <=> Good(e, d)
<1>1. \A d, e : Excused(d, e) <=> Excused(e, d)
  BY DEF Excused, Parts, Halfway
<1> QED BY <1>1 DEF Good, SameRoot

(* Only a set of autoCommit changes a value that is there.                    *)
Switches(r, s, d) ==
  /\ r.cmd.verb = "auto" /\ d \in DirsOf(r)
  /\ r.pc \in {"rewrite", "restore"} /\ s.pc \in {"rewrite", "commit", "restore"}
LEMMA AutoSteps ==
  ASSUME IInv, NEW p \in Procs, Start(p) \/ Step(p) \/ Die(p), NEW d \in Dirs,
         cue[d] # NoCue, cue'[d].auto # cue[d].auto
  PROVE  Anyway \/ (Switches(proc[p], proc'[p], d) /\ flock[d] = p /\ Keeps(proc[p], proc'[p]))
<1>1. Touches(p, d)
  BY CueSteps DEF Touches
<1>2. CASE Authors(p, d)
  BY <1>2, TwiceAnyway DEF Authors
<1>3. CASE Relabels(p, d)
  BY <1>3 DEF Relabels
<1>4. CASE Sets(p, d)
  <2>1. CASE InitTwice(d)
    BY <2>1, TwiceAnyway
  <2>2. CASE ~InitTwice(d)
    <3>1. Switches(proc[p], proc'[p], d) /\ flock[d] = p
      BY <1>4, <2>2 DEF Sets, OwnDiffers, Switches
    <3>2. ~Start(p)
      BY <1>4, StartOpens DEF Sets, Fresh, IInv
    <3> QED BY <3>1, <3>2, StepKeeps DEF IInv
  <2> QED BY <2>1, <2>2
<1> QED BY <1>1, <1>2, <1>3, <1>4 DEF Touches

(* A switch is excused.                                                       *)
LEMMA SwitchExcused ==
  ASSUME Typed, NEW p \in Procs, NEW d, NEW e,
         Switches(proc[p], proc'[p], d) \/ Switches(proc[p], proc'[p], e), Keeps(proc[p], proc'[p])
  PROVE  Excused(d, e)'
<1>1. PICK s : s = proc'[p]
  OBVIOUS
<1>2. /\ s.cmd.verb = "auto" /\ s.pc \in {"rewrite", "commit", "restore"}
      /\ d \in DirsOf(s) \/ e \in DirsOf(s)
  BY <1>1, KeepsDirs DEF Switches, Keeps
<1>3. Parts(s, d, e) \/ Halfway(s, d, e)
  BY <1>2 DEF Parts, Halfway
<1>4. (Parts(proc[p], d, e) \/ Halfway(proc[p], d, e))'
  BY <1>1, <1>3 DEF Parts, Halfway
<1> QED BY <1>4 DEF Excused

(* Where a set of autoCommit goes from its middle.                            *)
LEMMA HalfwayGoes ==
  ASSUME IInv, NEW p \in Procs, Step(p) \/ Die(p), NEW r, NEW s, r = proc[p], s = proc'[p],
         r.cmd.verb = "auto", r.pc \in {"rewrite", "commit", "restore"}
  PROVE  \/ s.pc \in {"rewrite", "commit", "restore", "dead"}
         \/ s.pc = "done" /\ r.pc = "commit" /\ cue' = cue
         \/ s.pc = "failed" /\ r.pc = "restore" /\ cue' = cue /\ r.prev = << >>
<1>0. Typed
  BY DEF IInv
<1>1. CASE RewriteCue(p)
  BY <1>0, <1>1, RewriteCueEffect
<1>2. CASE NotConfirmed(p)
  BY <1>0, <1>2, NotConfirmedEffect DEF Ends
<1>3. CASE RestoreCue(p)
  BY <1>0, <1>3, RestoreCueEffect DEF Ends
<1>4. CASE SelfCommit(p)
  BY <1>0, <1>4, SelfCommitEffect DEF Ends
<1>5. CASE Die(p)
  BY <1>0, <1>5, DieEffect DEF Ends
<1>6. CASE TakeConfig(p) \/ Store(p) \/ TakeScope(p) \/ PlanRename(p) \/ RenameTicket(p)
  BY <1>0, <1>6, TakeConfigEffect, StoreEffect, TakeScopeEffect, PlanRenameEffect, RenameTicketEffect
<1>7. CASE RewriteName(p) \/ RekeyRegistry(p) \/ CheckSet(p) \/ TakeRoot(p) \/ SyncEnd(p) \/ RehomeCommit(p)
  BY <1>0, <1>7, RewriteNameEffect, RekeyRegistryEffect, CheckSetEffect, TakeRootEffect, SyncEndEffect, RehomeCommitEffect
<1> QED BY <1>1, <1>2, <1>3, <1>4, <1>5, <1>6, <1>7 DEF Step

(* Excuses by others last.                                                    *)
LEMMA ElseLasts ==
  ASSUME IInv, NEW p \in Procs, Start(p) \/ Step(p) \/ Die(p), NEW q \in Procs, NEW d, NEW e,
         ExcusedElse(q, d, e)
  PROVE  ExcusedElse(q, d, e)' /\ Excused(d, e)'
<1>0. Typed /\ Control /\ Lasts /\ Alone(p)
  BY AlwaysLasts, StartOpens, StepKeeps DEF IInv
<1>1. CASE Anyway
  BY <1>0, <1>1, ReasonsLast DEF ExcusedElse, Excused
<1>2. ASSUME NEW x \in Procs \ {q}, Parts(proc[x], d, e)
      PROVE  ExcusedElse(q, d, e)' /\ Excused(d, e)'
  <2>1. Parts(proc'[x], d, e)
    BY <1>0, <1>2, ReasonsLast
  <2>2. Parts(proc[x], d, e)'
    BY <2>1 DEF Parts
  <2> QED BY <1>2, <2>2 DEF ExcusedElse, Excused
<1>3. ASSUME NEW x \in Procs \ {q}, Halfway(proc[x], d, e), proc[x].pc = "dead"
      PROVE  ExcusedElse(q, d, e)' /\ Excused(d, e)'
  <2>1. x # p
    BY <1>0, <1>3, StartOpens, StepKeeps DEF Fresh, Ended
  <2>2. proc'[x] = proc[x]
    BY <1>0, <1>3, <2>1 DEF Alone
  <2>3. Halfway(proc[x], d, e)' /\ (proc[x].pc = "dead")'
    BY <1>3, <2>2 DEF Halfway
  <2> QED BY <1>3, <2>3 DEF ExcusedElse, Excused
<1> QED BY <1>1, <1>2, <1>3 DEF ExcusedElse

(* An excuse lasts, or the set that gave it has ended with both agreeing.     *)
LEMMA ExcuseLasts ==
  ASSUME IInv, NEW p \in Procs, Start(p) \/ Step(p) \/ Die(p), NEW d, NEW e, Excused(d, e)
  PROVE  \/ Excused(d, e)'
         \/ /\ d \in DirsOf(proc[p]) /\ e \in DirsOf(proc[p]) /\ proc[p].cmd.verb = "auto"
            /\ cue' = cue /\ (SameRoot(d, e) => cue[d].auto = cue[e].auto)
<1>0. Typed /\ Control /\ Lasts /\ Alone(p)
  BY AlwaysLasts, StartOpens, StepKeeps DEF IInv
<1>1. CASE Anyway
  BY <1>0, <1>1, ReasonsLast DEF Excused
<1>2. ASSUME NEW q \in Procs, Parts(proc[q], d, e) PROVE Excused(d, e)'
  <2>1. Parts(proc'[q], d, e)
    BY <1>0, <1>2, ReasonsLast
  <2>2. Parts(proc[q], d, e)'
    BY <2>1 DEF Parts
  <2> QED BY <1>2, <2>2 DEF Excused
<1>3. ASSUME NEW q \in Procs \ {p}, Halfway(proc[q], d, e) PROVE Excused(d, e)'
  <2>1. proc'[q] = proc[q]
    BY <1>0, <1>3 DEF Alone
  <2>2. Halfway(proc[q], d, e)'
    BY <1>3, <2>1 DEF Halfway
  <2> QED BY <1>3, <2>2 DEF Excused
<1>4. CASE Halfway(proc[p], d, e)
  <2>0. PICK r, s : r = proc[p] /\ s = proc'[p]
    OBVIOUS
  <2>1. /\ r.cmd.verb = "auto" /\ d \in DirsOf(r) /\ e \in DirsOf(r) /\ ~Start(p) /\ Keeps(r, s)
        /\ r.pc \in {"rewrite", "commit", "restore"} /\ DirsOf(s) = DirsOf(r)
    <3>1. r.cmd.verb = "auto" /\ d \in DirsOf(r) /\ e \in DirsOf(r) /\ r.pc \in {"rewrite", "commit", "restore", "dead"}
      BY <1>4, <2>0 DEF Halfway
    <3>2. ~Start(p)
      BY <1>0, <2>0, <3>1, StartOpens DEF Fresh
    <3>3. Keeps(r, s) /\ r.pc # "dead"
      BY <1>0, <2>0, <3>2, StepKeeps DEF Ended
    <3> QED BY <3>1, <3>2, <3>3, KeepsDirs
  <2>2. CASE s.pc \in {"rewrite", "commit", "restore", "dead"}
    <3>1. Halfway(s, d, e)
      BY <2>1, <2>2 DEF Halfway, Keeps
    <3>2. Halfway(proc[p], d, e)'
      BY <2>0, <3>1 DEF Halfway
    <3> QED BY <3>2 DEF Excused
  <2>3. CASE s.pc = "done" /\ r.pc = "commit" /\ cue' = cue
    <3>1. Agreeing(p)
      BY DEF IInv, Agreement
    <3>2. Anyway \/ (cue[d].auto = r.auto /\ cue[e].auto = r.auto)
      BY <2>0, <2>1, <2>3, <3>1 DEF Agreeing
    <3> QED BY <1>1, <2>0, <2>1, <2>3, <3>2
  <2>4. CASE s.pc = "failed" /\ r.pc = "restore" /\ cue' = cue /\ r.prev = << >>
    <3>1. Agreeing(p)
      BY DEF IInv, Agreement
    <3>2. SameRoot(d, e) => Back(r, d) = Back(r, e) \/ ExcusedElse(p, d, e)
      BY <2>0, <2>1, <2>4, <3>1 DEF Agreeing
    <3>3. DOMAIN r.prev = {}
      BY <2>4
    <3>4. Back(r, d) = cue[d].auto /\ Back(r, e) = cue[e].auto
      BY <3>3 DEF Back
    <3> QED BY <2>0, <2>1, <2>4, <3>2, <3>4, ElseLasts
  <2> QED BY <2>0, <2>1, <2>2, <2>3, <2>4, HalfwayGoes
<1> QED BY <1>1, <1>2, <1>3, <1>4 DEF Excused

(* Two directories with a tk.cue go on agreeing or being excused.             *)
LEMMA GoodStep ==
  ASSUME IInv, NEW p \in Procs, Start(p) \/ Step(p) \/ Die(p), NEW d \in Dirs, NEW e \in Dirs,
         cue[d] # NoCue, cue[e] # NoCue, Good(d, e)
  PROVE  Good(d, e)'
<1>0. Typed /\ Control /\ Lasts
  BY AlwaysLasts DEF IInv
<1>1. (SameRoot(d, e))' <=> SameRoot(d, e)
  BY <1>0, ReasonsLast DEF SameRoot
<1>2. Usable(d)' => Usable(d)
  BY <1>0 DEF Lasts, Usable
<1>3. Usable(e)' => Usable(e)
  BY <1>0 DEF Lasts, Usable
<1>4. SUFFICES ASSUME SameRoot(d, e), Usable(d), Usable(e)
      PROVE  cue'[d].auto = cue'[e].auto \/ Excused(d, e)'
  BY <1>1, <1>2, <1>3 DEF Good
<1>5. cue[d].auto = cue[e].auto \/ Excused(d, e)
  BY <1>4 DEF Good
<1>6. CASE cue'[d].auto # cue[d].auto \/ cue'[e].auto # cue[e].auto
  <2>1. \/ Anyway
        \/ /\ Switches(proc[p], proc'[p], d) \/ Switches(proc[p], proc'[p], e)
           /\ Keeps(proc[p], proc'[p])
    BY <1>6, AutoSteps
  <2>2. CASE Anyway
    BY <1>0, <2>2, ReasonsLast DEF Excused
  <2> QED BY <1>0, <2>1, <2>2, SwitchExcused
<1>7. CASE cue'[d].auto = cue[d].auto /\ cue'[e].auto = cue[e].auto
  BY <1>4, <1>5, <1>7, ExcuseLasts
<1> QED BY <1>6, <1>7

(* What a registration makes of the registry agrees: an import has compared   *)
(* its value with its siblings', and the value it read is still there unless  *)
(* a set has the directory.                                                   *)
LEMMA ImportGood ==
  ASSUME IInv, NEW p \in Procs, NEW r, r = proc[p], r.pc = "config", r.cmd.verb = "import",
         ~ConfigRefused(r), NEW n \in DOMAIN scopes
  PROVE  Good(scopes[n].dir, r.dir)
<1>1. PICK d, e : d = scopes[n].dir /\ e = r.dir
  OBVIOUS
<1>2. SUFFICES ASSUME SameRoot(d, e), Usable(d), Usable(e)
      PROVE  cue[d].auto = cue[e].auto \/ Excused(d, e)
  BY <1>1 DEF Good
<1>3. Agrees(scopes, RepoRoot(e), r.auto)
  BY <1>1 DEF ConfigRefused, ImportRefused
<1>4. n \in Siblings(scopes, RepoRoot(e))
  BY <1>1, <1>2 DEF Siblings, GitRootScopes, SameRoot
<1>5. cue[d].auto = r.auto
  BY <1>1, <1>3, <1>4 DEF Agrees, SiblingValues
<1>6. \/ cue[e].auto = r.auto \/ Anyway
      \/ \E q \in Procs : proc[q].cmd.verb = "auto" /\ e \in DirsOf(proc[q])
  BY <1>1 DEF IInv, Agreement, Agreeing
<1>7. CASE Anyway
  BY <1>7 DEF Excused
<1>8. ASSUME NEW q \in Procs, proc[q].cmd.verb = "auto", e \in DirsOf(proc[q])
      PROVE  cue[d].auto = cue[e].auto \/ Excused(d, e)
  <2>1. CASE d \in DirsOf(proc[q])
    <3>1. Good(d, e)
      BY <1>8, <2>1 DEF IInv, Agreement, Agreeing
    <3> QED BY <1>2, <3>1 DEF Good
  <2>2. CASE d \notin DirsOf(proc[q])
    BY <1>8, <2>2 DEF Excused, Parts
  <2> QED BY <2>1, <2>2
<1> QED BY <1>5, <1>6, <1>7, <1>8

LEMMA ChangedGood ==
  ASSUME IInv, NEW p \in Procs, NEW r, r = proc[p], Placed(r), r.pc = "config",
         r.cmd.verb # "rename" => ~ConfigRefused(r),
         r.cmd.verb = "rename" => r.cmd.name \in DOMAIN scopes /\ r.cmd.to \notin DOMAIN scopes,
         r.cmd.verb # "init", NEW m, m = Changed(r), NEW x \in DOMAIN m.scopes, NEW y \in DOMAIN m.scopes
  PROVE  Good(m.scopes[x].dir, m.scopes[y].dir)
<1>1. \A n, q \in DOMAIN scopes : Good(scopes[n].dir, scopes[q].dir)
  BY DEF IInv, Agreement
<1>2. r.cmd.verb \in {"import", "rebind", "forget", "lens", "note", "rename"} /\ WellFormed(r.cmd)
  BY DEF Placed, WellFormed, Places, Ended
<1>3. CASE r.cmd.verb = "import"
  <2>1. m.scopes = With(scopes, r.name, Entry(r.dir, CodeRoot(r.cmd)))
    BY <1>3 DEF Changed, Load, Loaded
  <2>2. /\ DOMAIN m.scopes = DOMAIN scopes \cup {r.name} /\ m.scopes[r.name].dir = r.dir
        /\ \A n \in DOMAIN scopes \ {r.name} : m.scopes[n] = scopes[n]
    BY <2>1 DEF With, Entry
  <2>3. \A n \in DOMAIN scopes : Good(scopes[n].dir, r.dir) /\ Good(r.dir, scopes[n].dir)
    BY <1>3, ImportGood, GoodEither
  <2>4. Good(r.dir, r.dir)
    BY DEF Good
  <2>5. CASE x = r.name /\ y = r.name
    BY <2>2, <2>4, <2>5
  <2>6. CASE x = r.name /\ y # r.name
    BY <2>2, <2>3, <2>6
  <2>7. CASE x # r.name /\ y = r.name
    BY <2>2, <2>3, <2>7
  <2>8. CASE x # r.name /\ y # r.name
    BY <1>1, <2>2, <2>8
  <2> QED BY <2>5, <2>6, <2>7, <2>8
<1>4. CASE r.cmd.verb = "rebind"
  <2>1. Anyway
    BY <1>4 DEF Anyway
  <2> QED BY <2>1 DEF Good, Excused
<1>5. CASE r.cmd.verb = "forget"
  <2>1. m.scopes = Without(scopes, r.cmd.name)
    BY <1>5 DEF Changed, Load, Loaded
  <2>2. DOMAIN m.scopes = DOMAIN scopes \ {r.cmd.name} /\ \A n \in DOMAIN m.scopes : m.scopes[n] = scopes[n]
    BY <2>1 DEF Without
  <2> QED BY <1>1, <2>2
<1>6. CASE r.cmd.verb \in {"lens", "note"}
  <2>1. m.scopes = scopes
    BY <1>6 DEF Changed, Load, Loaded
  <2> QED BY <1>1, <2>1
<1>7. CASE r.cmd.verb = "rename"
  <2>0. PICK old, new : old = r.cmd.name /\ new = r.cmd.to
    OBVIOUS
  <2>1. m.scopes = With(Without(scopes, old), new, scopes[old]) /\ old \in DOMAIN scopes
    BY <1>7, <2>0 DEF Changed, Load, Loaded, Rekeyed
  <2>2. /\ DOMAIN m.scopes = (DOMAIN scopes \ {old}) \cup {new}
        /\ m.scopes[new] = scopes[old] /\ \A n \in DOMAIN m.scopes \ {new} : m.scopes[n] = scopes[n]
    BY <2>1 DEF With, Without
  <2>3. \A n \in DOMAIN m.scopes : \E k \in DOMAIN scopes : m.scopes[n] = scopes[k]
    BY <2>1, <2>2
  <2> QED BY <1>1, <2>3
<1> QED BY <1>2, <1>3, <1>4, <1>5, <1>6, <1>7

(* An init takes the value its siblings have.                                 *)
LEMMA InitAgrees ==
  ASSUME IInv, NEW p \in Procs, NEW r, r = proc[p], Placed(r), r.pc = "config", r.cmd.verb = "init",
         ~ConfigRefused(r), NEW n \in DOMAIN scopes, SameRoot(scopes[n].dir, r.dir)
  PROVE  cue[scopes[n].dir].auto = InitAutoCommit(scopes, r.cmd)
<1>1. PICK values : values = SiblingValues(scopes, RepoRootForNew(r.cmd.dir))
  OBVIOUS
<1>2. r.dir = r.cmd.dir /\ RepoRoot(r.dir) # NoPath /\ RepoRoot(r.dir) = RepoRoot(scopes[n].dir)
  BY DEF Placed, SameRoot
<1>3. RepoRootForNew(r.cmd.dir) = RepoRoot(r.dir)
  BY <1>2 DEF RepoRoot
<1>4. n \in Siblings(scopes, RepoRootForNew(r.cmd.dir))
  BY <1>2, <1>3 DEF Siblings, GitRootScopes
<1>5. cue[scopes[n].dir].auto \in values
  BY <1>1, <1>4 DEF SiblingValues
<1>6. values \subseteq BOOLEAN
  <2>1. \A x \in Cues \cup {NoCue} : x.auto \in BOOLEAN
    BY CueAuto
  <2> QED BY <1>1, <2>1 DEF SiblingValues, Siblings, GitRootScopes, IInv, Typed
<1>7. IsFiniteSet(values) /\ Cardinality(values) <= 1
  <2>1. IsFiniteSet({TRUE}) /\ IsFiniteSet({TRUE} \cup {FALSE})
    BY FS_Singleton, FS_AddElement
  <2>2. BOOLEAN = {TRUE} \cup {FALSE}
    OBVIOUS
  <2>3. IsFiniteSet(values)
    BY <1>6, <2>1, <2>2, FS_Subset
  <2>4. Cardinality(values) <= 1
    BY <1>1 DEF ConfigRefused, InitRefused, Consensus
  <2> QED BY <2>3, <2>4
<1>8. PICK v : values = {v}
  <2>1. Cardinality(values) \in Nat /\ Cardinality(values) # 0
    BY <1>5, <1>7, FS_CardinalityType, FS_EmptySet
  <2>2. Cardinality(values) = 1
    BY <1>7, <2>1
  <2> QED BY <1>7, <2>2, FS_Singleton
<1>9. InitAutoCommit(scopes, r.cmd) = v
  <2>1. InitAutoCommit(scopes, r.cmd) = CHOOSE x \in values : TRUE
    BY <1>1, <1>8 DEF InitAutoCommit
  <2>2. (CHOOSE x \in values : TRUE) \in values
    BY <1>8
  <2> QED BY <1>8, <2>1, <2>2
<1> QED BY <1>5, <1>8, <1>9

(* What two processes hold apart: a value under a flock is switched by its     *)
(* holder only.                                                                *)
LEMMA HeldStays ==
  ASSUME IInv, NEW p \in Procs, Start(p) \/ Step(p) \/ Die(p), NEW q \in Procs, q # p,
         NEW d \in DirsOf(proc[q]), proc[q].pc \in {"rewrite", "commit", "restore"}
  PROVE  cue'[d].auto = cue[d].auto \/ Anyway
<1>1. Placed(proc[q]) /\ Locking(q)
  BY DEF IInv, Control, Locked
<1>2. d \in Dirs /\ cue[d] # NoCue /\ flock[d] = q
  BY <1>1 DEF Placed, DirsOf, Locking, Ended
<1> QED BY <1>2, AutoSteps

(* What a set puts back, and what it has written, after a step of its own.     *)
LEMMA SetSteps ==
  ASSUME IInv, NEW p \in Procs, Step(p) \/ Die(p), NEW r, NEW s, r = proc[p], s = proc'[p],
         s.cmd.verb = "auto", s.pc \in {"rewrite", "commit", "restore"}
  PROVE  /\ \A d, e \in DirsOf(r) :
              SameRoot(d, e) => (Back(s, d)' = Back(s, e)') \/ ExcusedElse(p, d, e)
         /\ s.pc = "rewrite" => \A n \in s.peers \ s.todo : cue'[DirOf(s, n)].auto = s.auto \/ Anyway
         /\ s.pc = "commit" => \A d \in DirsOf(s) : cue'[d].auto = s.auto \/ Anyway
<1>0. Typed /\ Control
  BY DEF IInv
<1>1. Keeps(r, s) /\ DirsOf(s) = DirsOf(r) /\ (\A n : DirOf(s, n) = DirOf(r, n)) /\ r.cmd.verb = "auto"
      /\ Placed(r) /\ Keeping(r) /\ Agreeing(p) /\ Locking(p) /\ s.peers = r.peers
  BY <1>0, StepKeeps, KeepsDirs DEF Keeps, Control, IInv, Kept, Agreement, Locked
<1>2. \A d \in DirsOf(r) : d \in Dirs /\ cue[d] # NoCue
  BY <1>1 DEF Placed, DirsOf
<1>3. \/ CheckSet(p) \/ RewriteCue(p) \/ NotConfirmed(p) \/ RestoreCue(p) \/ SelfCommit(p)
  <2>1. ~Die(p)
    BY <1>0, DieEffect DEF Ends
  <2>2. ~TakeConfig(p) /\ ~Store(p) /\ ~PlanRename(p) /\ ~RenameTicket(p)
    BY <1>0, TakeConfigEffect, StoreEffect, PlanRenameEffect, RenameTicketEffect DEF Ends
  <2>3. ~TakeScope(p)
    BY <1>0, <1>1, TakeScopeEffect DEF Ends, AfterLocks
  <2>4. ~RewriteName(p)
    <3>1. r.pc # "tickets"
      BY <1>1 DEF Placed, Places, Ended
    <3> QED BY <1>0, <3>1, RewriteNameEffect
  <2>5. ~RekeyRegistry(p) /\ ~TakeRoot(p) /\ ~SyncEnd(p) /\ ~RehomeCommit(p)
    BY <1>0, RekeyRegistryEffect, TakeRootEffect, SyncEndEffect, RehomeCommitEffect DEF Ends
  <2> QED BY <2>1, <2>2, <2>3, <2>4, <2>5 DEF Step
<1>4. CASE CheckSet(p)
  <2>1. /\ r.pc = "check" /\ s.pc = "rewrite" /\ s.todo = r.peers /\ (\A d \in DirsOf(r) : Usable(d))
        /\ s.prev = [d \in DirsOf(r) |-> cue[d]]
    BY <1>0, <1>4, CheckSetEffect DEF Ends
  <2>2. \A d \in DirsOf(r) : Back(s, d)' = cue[d].auto
    BY <2>1 DEF Back
  <2>3. ASSUME NEW d \in DirsOf(r), NEW e \in DirsOf(r), SameRoot(d, e)
        PROVE  cue[d].auto = cue[e].auto \/ ExcusedElse(p, d, e)
    <3>1. Good(d, e)
      BY <1>1 DEF Agreeing
    <3>2. cue[d].auto = cue[e].auto \/ Excused(d, e)
      BY <2>1, <2>3, <3>1 DEF Good
    <3>3. flock[d] = p
      BY <1>1, <2>1 DEF Locking, Ended
    <3>4. ASSUME NEW q \in Procs, Parts(proc[q], d, e) \/ Halfway(proc[q], d, e)
          PROVE  ExcusedElse(p, d, e)
      <4>1. q # p
        BY <2>1, <3>4 DEF Parts, Halfway
      <4>2. CASE Parts(proc[q], d, e)
        BY <4>1, <4>2 DEF ExcusedElse
      <4>3. CASE Halfway(proc[q], d, e)
        <5>1. Locking(q)
          BY DEF IInv, Locked
        <5>2. proc[q].pc = "dead"
          BY <3>3, <4>1, <4>3, <5>1 DEF Halfway, Locking, Ended
        <5> QED BY <4>1, <4>3, <5>2 DEF ExcusedElse
      <4> QED BY <3>4, <4>2, <4>3
    <3> QED BY <3>2, <3>4 DEF Excused, ExcusedElse
  <2> QED BY <1>1, <2>1, <2>2, <2>3
<1>5. CASE RewriteCue(p) \/ NotConfirmed(p) \/ RestoreCue(p) \/ SelfCommit(p)
  <2>1. r.pc \in {"rewrite", "commit", "restore"}
    BY <1>0, <1>5, RewriteCueEffect, NotConfirmedEffect, RestoreCueEffect, SelfCommitEffect
  <2>2. \A d, e \in DirsOf(r) : SameRoot(d, e) => Back(r, d) = Back(r, e) \/ ExcusedElse(p, d, e)
    BY <1>1, <2>1 DEF Agreeing
  <2>3. \A d \in DirsOf(r) : Back(s, d)' = Back(r, d)
    <3>1. CASE RewriteCue(p)
      <4>1. s.prev = r.prev /\ r.pc = "rewrite"
        BY <1>0, <3>1, RewriteCueEffect
      <4>2. DOMAIN r.prev = DirsOf(r)
        BY <1>1, <4>1 DEF Keeping
      <4> QED BY <4>1, <4>2 DEF Back
    <3>2. CASE NotConfirmed(p) \/ SelfCommit(p)
      <4>1. s.prev = r.prev /\ cue' = cue
        BY <1>0, <3>2, NotConfirmedEffect, SelfCommitEffect DEF Ends
      <4> QED BY <4>1 DEF Back
    <3>3. CASE RestoreCue(p)
      <4>1. PICK d \in DOMAIN r.prev : cue' = [cue EXCEPT ![d] = r.prev[d]] /\ s.prev = Without(r.prev, d)
        BY <1>0, <3>3, RestoreCueEffect DEF Ends
      <4>2. DOMAIN s.prev = DOMAIN r.prev \ {d} /\ \A e \in DOMAIN s.prev : s.prev[e] = r.prev[e]
        BY <4>1 DEF Without
      <4>3. \A e \in Dirs : cue'[e] = IF e = d THEN r.prev[d] ELSE cue[e]
        BY <1>0, <4>1 DEF Typed
      <4> QED BY <1>2, <4>2, <4>3 DEF Back
    <3> QED BY <1>5, <3>1, <3>2, <3>3
  <2>4. /\ s.pc = "rewrite" => \A n \in s.peers \ s.todo : cue'[DirOf(s, n)].auto = s.auto \/ Anyway
        /\ s.pc = "commit" => \A d \in DirsOf(s) : cue'[d].auto = s.auto \/ Anyway
    <3>1. CASE RewriteCue(p)
      <4>1. PICK n \in r.todo :
              /\ DirOf(r, n) \in Dirs /\ Touches(p, DirOf(r, n)) /\ cue'[DirOf(r, n)].auto = r.auto
              /\ s.todo = r.todo \ {n} /\ s.auto = r.auto /\ (s.pc = IF r.todo = {n} THEN "commit" ELSE "rewrite")
        BY <1>1, <3>1, RewriteCueTouches
      <4>2. r.pc = "rewrite"
        BY <1>0, <3>1, RewriteCueEffect
      <4>3. \A k \in r.peers \ r.todo : cue[DirOf(r, k)].auto = r.auto \/ Anyway
        BY <1>1, <4>2 DEF Agreeing
      <4>4. \A k \in r.peers : DirOf(r, k) \in Dirs
        BY <1>2 DEF DirsOf
      <4>5. \A k \in r.peers \ s.todo : cue'[DirOf(r, k)].auto = r.auto \/ Anyway
        BY <4>1, <4>3, <4>4 DEF Touches
      <4>6. s.pc = "commit" => s.todo = {}
        BY <4>1
      <4>7. s.pc = "commit" => \A k \in r.peers : cue'[DirOf(r, k)].auto = r.auto \/ Anyway
        BY <4>5, <4>6
      <4>8. s.pc = "commit" => \A d \in DirsOf(r) : cue'[d].auto = r.auto \/ Anyway
        BY <4>7 DEF DirsOf
      <4> QED BY <1>1, <4>1, <4>5, <4>8
    <3>2. CASE NotConfirmed(p) \/ SelfCommit(p) \/ RestoreCue(p)
      <4>1. s.pc \notin {"rewrite", "commit"}
        BY <1>0, <3>2, NotConfirmedEffect, SelfCommitEffect, RestoreCueEffect DEF Ends
      <4> QED BY <4>1
    <3> QED BY <1>5, <3>1, <3>2
  <2> QED BY <2>2, <2>3, <2>4
<1> QED BY <1>3, <1>4, <1>5

(* What is stored goes on agreeing.                                            *)
LEMMA StoredAgrees ==
  ASSUME IInv, NEW p \in Procs, Start(p) \/ Step(p) \/ Die(p), NEW q \in Procs, NEW s, s = proc'[q],
         s.pc = "store", ~CuePending(s), NEW x \in DOMAIN s.mem.scopes, NEW y \in DOMAIN s.mem.scopes
  PROVE  Good(s.mem.scopes[x].dir, s.mem.scopes[y].dir)'
<1>0. Typed /\ Control /\ Alone(p)
  BY StartOpens, StepKeeps DEF IInv
<1>1. ASSUME NEW r, r = proc[q], r.pc = "store", r.mem = s.mem, ~CuePending(r)
      PROVE  Good(s.mem.scopes[x].dir, s.mem.scopes[y].dir)'
  <2>1. Storing(r) /\ Agreeing(q)
    BY <1>1 DEF IInv, Registry, Agreement
  <2>2. Good(s.mem.scopes[x].dir, s.mem.scopes[y].dir)
    BY <1>1, <2>1 DEF Agreeing
  <2>3. /\ s.mem.scopes[x].dir \in Dirs /\ cue[s.mem.scopes[x].dir] # NoCue
        /\ s.mem.scopes[y].dir \in Dirs /\ cue[s.mem.scopes[y].dir] # NoCue
    BY <1>1, <2>1 DEF Storing
  <2> QED BY <2>2, <2>3, GoodStep
<1>2. CASE q # p
  BY <1>0, <1>1, <1>2 DEF Alone
<1>3. CASE q = p
  <2>0. PICK r : r = proc[p] /\ Placed(r)
    BY <1>0 DEF Control
  <2>1. CASE Store(p)
    <3>1. r.pc = "store" /\ s.mem = r.mem /\ Keeps(r, s)
      BY <1>0, <1>3, <2>0, <2>1, StoreEffect
    <3>2. CASE ~CuePending(r)
      BY <1>1, <1>3, <2>0, <3>1, <3>2
    <3>3. CASE CuePending(r)
      <4>0. Storing(r) /\ Agreeing(p) /\ Cued
        BY <2>0, <3>1 DEF IInv, Registry, Agreement
      <4>1. r.cmd.verb = "init" /\ Head(r.writes) = "cue"
        BY <3>1, <3>3 DEF CuePending
      <4>2. r.dir \in Dirs /\ cue' = [cue EXCEPT ![r.dir] = [name |-> r.name, auto |-> r.auto, field |-> FALSE]]
        BY <1>0, <2>0, <2>1, <3>1, <4>1, StoreEffect DEF Placed, WellFormed
      <4>3. /\ cue'[r.dir].auto = r.auto
            /\ \A d \in Dirs \ {r.dir} : cue'[d] = cue[d]
        BY <1>0, <4>2 DEF Typed
      <4>4. /\ DOMAIN s.mem.scopes = DOMAIN scopes \cup {r.name} /\ s.mem.scopes[r.name].dir = r.dir
            /\ \A n \in DOMAIN scopes : s.mem.scopes[n] = scopes[n]
        BY <3>1, <4>0, <4>1 DEF Storing, With, Entry
      <4>5. \A n \in DOMAIN scopes : scopes[n].dir \in Dirs /\ cue[scopes[n].dir] # NoCue
        BY <1>0, <4>0 DEF Typed, Cued
      <4>6. ASSUME NEW n \in DOMAIN scopes, NEW d, d = scopes[n].dir PROVE Good(d, r.dir)'
        <5>1. d \in Dirs /\ cue[d] # NoCue
          BY <4>5, <4>6
        <5>2. SameRoot(d, r.dir) => cue[d].auto = r.auto \/ Excused(d, r.dir)
          BY <2>0, <3>1, <3>3, <4>0, <4>6 DEF Agreeing
        <5>3. SameRoot(d, r.dir)' <=> SameRoot(d, r.dir)
          BY <1>0, AlwaysLasts, ReasonsLast DEF SameRoot
        <5>4. Excused(d, r.dir) => Excused(d, r.dir)'
          BY <2>0, <4>1, ExcuseLasts
        <5>5. CASE d # r.dir
          BY <4>3, <5>1, <5>2, <5>3, <5>4, <5>5 DEF Good
        <5>6. CASE d = r.dir
          BY <5>6 DEF Good
        <5> QED BY <5>5, <5>6
      <4>7. ASSUME NEW n \in DOMAIN scopes, NEW k \in DOMAIN scopes, NEW d, NEW e,
                   d = scopes[n].dir, e = scopes[k].dir
            PROVE  Good(d, e)'
        <5>1. Good(d, e)
          BY <4>7 DEF IInv, Agreement
        <5> QED BY <4>5, <4>7, <5>1, GoodStep
      <4>8. PICK d, e : d = s.mem.scopes[x].dir /\ e = s.mem.scopes[y].dir
        OBVIOUS
      <4>9. \A a, b : Good(a, b)' <=> Good(b, a)'
        <5>1. \A a, b : Excused(a, b)' <=> Excused(b, a)'
          BY DEF Excused, Parts, Halfway
        <5> QED BY <5>1 DEF Good, SameRoot
      <4>10. CASE x \in DOMAIN scopes /\ y \in DOMAIN scopes
        BY <4>4, <4>7, <4>8, <4>10
      <4>11. CASE x \in DOMAIN scopes /\ y \notin DOMAIN scopes
        <5>1. e = r.dir /\ d = scopes[x].dir
          BY <4>4, <4>8, <4>11
        <5>2. Good(d, r.dir)'
          BY <4>6, <4>11, <5>1
        <5> QED BY <4>8, <5>1, <5>2
      <4>12. CASE x \notin DOMAIN scopes /\ y \in DOMAIN scopes
        <5>1. d = r.dir /\ e = scopes[y].dir
          BY <4>4, <4>8, <4>12
        <5>2. Good(e, r.dir)'
          BY <4>6, <4>12, <5>1
        <5>3. Good(r.dir, e)'
          BY <4>9, <5>2
        <5> QED BY <4>8, <5>1, <5>3
      <4>13. CASE x \notin DOMAIN scopes /\ y \notin DOMAIN scopes
        <5>1. d = e
          BY <4>4, <4>8, <4>13
        <5> QED BY <4>8, <5>1 DEF Good
      <4> QED BY <4>10, <4>11, <4>12, <4>13
    <3> QED BY <3>2, <3>3
  <2>2. CASE TakeConfig(p) \/ RekeyRegistry(p)
    <3>1. /\ r.pc = "config" /\ Keeps(r, s) /\ s.mem = Changed(r) /\ s.writes = Written(r)
          /\ r.cmd.verb # "rename" => ~ConfigRefused(r)
          /\ r.cmd.verb = "rename" => r.cmd.name \in DOMAIN scopes /\ r.cmd.to \notin DOMAIN scopes
      <4>1. CASE TakeConfig(p)
        BY <1>0, <1>3, <2>0, <4>1, TakeConfigEffect DEF Ends
      <4>2. CASE RekeyRegistry(p)
        BY <1>0, <1>3, <2>0, <4>2, RekeyRegistryEffect DEF Ends
      <4> QED BY <2>2, <4>1, <4>2
    <3>2. r.cmd.verb # "init"
      <4>1. SUFFICES ASSUME r.cmd.verb = "init" PROVE FALSE
        OBVIOUS
      <4>2. s.writes = <<"cue", "scopes">>
        BY <3>1, <4>1 DEF Written
      <4>3. Head(s.writes) = "cue"
        BY <4>2
      <4> QED BY <3>1, <4>1, <4>3 DEF CuePending, Keeps
    <3>3. PICK m : m = s.mem
      OBVIOUS
    <3>4. Good(m.scopes[x].dir, m.scopes[y].dir)
      BY <2>0, <3>1, <3>2, <3>3, ChangedGood
    <3>5. SoundFor(r, m)
      <4>1. CASE r.cmd.verb = "rename"
        <5>1. WellFormed(r.cmd)
          BY <2>0, <3>1 DEF Placed
        <5> QED BY <3>1, <3>3, <4>1, <5>1, RekeyedSound
      <4>2. CASE r.cmd.verb # "rename"
        BY <2>0, <3>1, <3>3, <4>2, ChangedSound
      <4> QED BY <4>1, <4>2
    <3>6. /\ m.scopes[x].dir \in Dirs /\ cue[m.scopes[x].dir] # NoCue
          /\ m.scopes[y].dir \in Dirs /\ cue[m.scopes[y].dir] # NoCue
      BY <3>2, <3>3, <3>5 DEF SoundFor
    <3>7. Good(m.scopes[x].dir, m.scopes[y].dir)'
      BY <3>4, <3>6, GoodStep
    <3> QED BY <3>3, <3>7
  <2>3. ~Start(p)
    BY <1>0, <1>3, StartOpens, OpenedShape
  <2>4. ~TakeScope(p)
    <3>1. SUFFICES ASSUME TakeScope(p) PROVE FALSE
      OBVIOUS
    <3>2. r.pc = "lock" /\ AfterLocks(r) = "store"
      BY <1>0, <1>3, <2>0, <3>1, TakeScopeEffect DEF Ends
    <3>3. r.cmd.verb \in {"rename", "auto", "field", "sync", "rehome"}
      BY <2>0, <3>2 DEF Placed, WellFormed, Places, Ended
    <3> QED BY <3>2, <3>3 DEF AfterLocks
  <2>5. ~PlanRename(p) /\ ~RenameTicket(p) /\ ~RewriteName(p) /\ ~CheckSet(p)
    BY <1>0, <1>3, PlanRenameEffect, RenameTicketEffect, RewriteNameEffect, CheckSetEffect DEF Ends
  <2>6. ~RewriteCue(p) /\ ~NotConfirmed(p) /\ ~RestoreCue(p) /\ ~SelfCommit(p)
    BY <1>0, <1>3, RewriteCueEffect, NotConfirmedEffect, RestoreCueEffect, SelfCommitEffect DEF Ends
  <2>7. ~TakeRoot(p) /\ ~SyncEnd(p) /\ ~RehomeCommit(p) /\ ~Die(p)
    BY <1>0, <1>3, TakeRootEffect, SyncEndEffect, RehomeCommitEffect, DieEffect DEF Ends
  <2> QED BY <2>1, <2>2, <2>3, <2>4, <2>5, <2>6, <2>7 DEF Step
<1> QED BY <1>2, <1>3

(* The value an init will write goes on being its siblings'.                  *)
LEMMA PendingAgrees ==
  ASSUME IInv, NEW p \in Procs, Start(p) \/ Step(p) \/ Die(p), NEW q \in Procs, NEW s, s = proc'[q],
         s.pc = "store", CuePending(s), NEW n \in DOMAIN scopes', NEW d, d = scopes'[n].dir,
         SameRoot(d, s.dir)
  PROVE  cue'[d].auto = s.auto \/ Excused(d, s.dir)'
<1>0. Typed /\ Control /\ Alone(p) /\ Lasts /\ Cued /\ StoreSteps(p)
  BY StartOpens, StepKeeps, AlwaysLasts, AlwaysStoreSteps DEF IInv
<1>1. CASE q = p
  <2>1. ~Start(p)
    BY <1>0, <1>1, StartOpens, OpenedShape
  <2>2. TakeConfig(p)
    BY <1>1, <2>1, PendingFrom
  <2>3. PICK r : r = proc[p] /\ Placed(r)
    BY <1>0 DEF Control
  <2>4. /\ r.pc = "config" /\ ~ConfigRefused(r) /\ Keeps(r, s) /\ scopes' = scopes /\ cue' = cue
        /\ s.auto = IF r.cmd.verb = "init" THEN InitAutoCommit(scopes, r.cmd) ELSE r.auto
    BY <1>0, <1>1, <2>2, <2>3, TakeConfigEffect DEF Ends
  <2>5. r.cmd.verb = "init" /\ r.dir = s.dir
    BY <2>4 DEF CuePending, Keeps
  <2>6. cue[d].auto = InitAutoCommit(scopes, r.cmd)
    BY <2>3, <2>4, <2>5, InitAgrees
  <2> QED BY <2>4, <2>5, <2>6
<1>2. CASE q # p
  <2>1. s = proc[q] /\ config = q /\ Agreeing(q) /\ s.cmd.verb = "init"
    BY <1>0, <1>2 DEF Alone, IInv, Locked, Locking, Agreement, CuePending
  <2>2. proc[p].pc # "store"
    BY <1>2, <2>1 DEF IInv, Locked, Locking
  <2>3. scopes' = scopes
    BY <1>0, <2>2 DEF StoreSteps
  <2>4. d \in Dirs /\ cue[d] # NoCue
    BY <1>0, <2>3 DEF Typed, Cued
  <2>5. cue[d].auto = s.auto \/ Excused(d, s.dir)
    BY <2>1, <2>3 DEF Agreeing
  <2>6. CASE cue'[d].auto # cue[d].auto
    <3>1. Anyway \/ (Switches(proc[p], proc'[p], d) /\ Keeps(proc[p], proc'[p]))
      BY <2>4, <2>6, AutoSteps
    <3>2. CASE Anyway
      BY <1>0, <3>2, ReasonsLast DEF Excused
    <3> QED BY <1>0, <3>1, <3>2, SwitchExcused
  <2>7. CASE cue'[d].auto = cue[d].auto /\ Excused(d, s.dir) /\ ~Excused(d, s.dir)'
    <3>1. s.dir \in DirsOf(proc[p])
      BY <2>7, ExcuseLasts
    <3>2. s.dir \in Dirs /\ cue[s.dir] # NoCue
      BY <1>0, <3>1 DEF Control, Placed, DirsOf
    <3>3. InitTwice(s.dir)
      BY <1>0, <2>1, <3>2 DEF Cued
    <3>4. Anyway
      BY <3>2, <3>3, TwiceAnyway
    <3> QED BY <1>0, <2>7, <3>4, ReasonsLast DEF Excused
  <2> QED BY <2>5, <2>6, <2>7
<1> QED BY <1>1, <1>2

(* Only a rename comes back to the machine-global lock.                       *)
LEMMA ConfigAgain ==
  ASSUME IInv, NEW p \in Procs, Step(p) \/ Die(p), NEW s, s = proc'[p], s.pc = "config"
  PROVE  s.cmd.verb = "rename"
<1>0. Typed /\ Control
  BY DEF IInv
<1>1. PICK r : r = proc[p] /\ Placed(r)
  BY <1>0 DEF Control
<1>2. Keeps(r, s)
  BY <1>0, <1>1, StepKeeps
<1>3. ~TakeScope(p)
  <2>1. SUFFICES ASSUME TakeScope(p) PROVE FALSE
    OBVIOUS
  <2>2. r.pc = "lock" /\ AfterLocks(r) = "config"
    BY <1>0, <1>1, <2>1, TakeScopeEffect DEF Ends
  <2>3. r.cmd.verb \in {"rename", "auto", "field", "sync", "rehome"}
    BY <1>1, <2>2 DEF Placed, WellFormed, Places, Ended
  <2> QED BY <2>2, <2>3 DEF AfterLocks
<1>4. CASE SelfCommit(p)
  BY <1>0, <1>1, <1>2, <1>4, SelfCommitEffect DEF Ends, Keeps
<1>5. CASE RekeyRegistry(p)
  BY <1>0, <1>1, <1>2, <1>5, RekeyRegistryEffect DEF Keeps
<1>6. ~TakeConfig(p) /\ ~Store(p) /\ ~PlanRename(p) /\ ~RenameTicket(p) /\ ~RewriteName(p)
  BY <1>0, TakeConfigEffect, StoreEffect, PlanRenameEffect, RenameTicketEffect, RewriteNameEffect DEF Ends
<1>7. ~CheckSet(p) /\ ~RewriteCue(p) /\ ~NotConfirmed(p) /\ ~RestoreCue(p)
  BY <1>0, CheckSetEffect, RewriteCueEffect, NotConfirmedEffect, RestoreCueEffect DEF Ends
<1>8. ~TakeRoot(p) /\ ~SyncEnd(p) /\ ~RehomeCommit(p) /\ ~Die(p)
  BY <1>0, TakeRootEffect, SyncEndEffect, RehomeCommitEffect, DieEffect DEF Ends
<1> QED BY <1>3, <1>4, <1>5, <1>6, <1>7, <1>8 DEF Step

(* The value an import has read is there, or a set has the directory.         *)
LEMMA ImportReads ==
  ASSUME IInv, NEW p \in Procs, Start(p) \/ Step(p) \/ Die(p), NEW q \in Procs, NEW s, s = proc'[q],
         s.cmd.verb = "import", s.pc = "config"
  PROVE  \/ cue'[s.dir].auto = s.auto \/ Anyway'
         \/ \E x \in Procs : proc'[x].cmd.verb = "auto" /\ s.dir \in DirsOf(proc'[x])
<1>0. Typed /\ Control /\ Alone(p) /\ Lasts
  BY StartOpens, StepKeeps, AlwaysLasts DEF IInv
<1>1. CASE q = p /\ Start(p)
  <2>1. PICK c : WellFormed(c) /\ s = Opened(c) /\ s.cmd = c
    BY <1>0, <1>1, StartOpens, OpenedShape
  <2>2. s # Refused(c)
    BY FreshIsProc DEF Refused, IsProc, Fields
  <2>3. s = [Starting(c, c.dir) EXCEPT !.pc = "config", !.name = cue[c.dir].name, !.auto = cue[c.dir].auto]
    BY <2>1, <2>2 DEF Opened, OpenImport
  <2>4. s.dir = c.dir /\ s.auto = cue[c.dir].auto
    BY <2>3, FreshIsProc DEF Starting, IsProc, Fields
  <2>5. cue' = cue
    BY <1>0, <1>1, StartOpens
  <2> QED BY <2>4, <2>5
<1>2. CASE q = p /\ (Step(p) \/ Die(p))
  BY <1>2, ConfigAgain
<1>3. CASE q # p
  <2>1. s = proc[q] /\ Placed(s) /\ Agreeing(q)
    BY <1>0, <1>3 DEF Alone, Control, IInv, Agreement
  <2>2. s.dir \in Dirs /\ cue[s.dir] # NoCue
    BY <2>1 DEF Placed, WellFormed
  <2>3. CASE cue'[s.dir].auto # cue[s.dir].auto
    <3>1. Anyway \/ (Switches(proc[p], proc'[p], s.dir) /\ Keeps(proc[p], proc'[p]))
      BY <2>2, <2>3, AutoSteps
    <3>2. CASE Anyway
      BY <1>0, <3>2, ReasonsLast
    <3>3. CASE Switches(proc[p], proc'[p], s.dir) /\ Keeps(proc[p], proc'[p])
      <4>1. proc'[p].cmd.verb = "auto" /\ s.dir \in DirsOf(proc'[p])
        BY <3>3, KeepsDirs DEF Switches, Keeps
      <4> QED BY <4>1
    <3> QED BY <3>1, <3>2, <3>3
  <2>4. CASE cue'[s.dir].auto = cue[s.dir].auto
    <3>1. \/ cue[s.dir].auto = s.auto \/ Anyway
          \/ \E x \in Procs : proc[x].cmd.verb = "auto" /\ s.dir \in DirsOf(proc[x])
      BY <2>1 DEF Agreeing
    <3>2. ASSUME NEW x \in Procs, proc[x].cmd.verb = "auto", s.dir \in DirsOf(proc[x])
          PROVE  proc'[x].cmd.verb = "auto" /\ s.dir \in DirsOf(proc'[x])
      <4>1. Keeps(proc[x], proc'[x])
        BY <1>0, <3>2 DEF Lasts
      <4> QED BY <3>2, <4>1, KeepsDirs DEF Keeps
    <3> QED BY <1>0, <2>4, <3>1, <3>2, ReasonsLast
  <2> QED BY <2>3, <2>4
<1> QED BY <1>1, <1>2, <1>3

(* The directories of a set agree or are excused.                             *)
LEMMA PeersAgree ==
  ASSUME IInv, NEW p \in Procs, Start(p) \/ Step(p) \/ Die(p), NEW q \in Procs, NEW s, s = proc'[q],
         s.cmd.verb = "auto", NEW d \in DirsOf(s), NEW e \in DirsOf(s)
  PROVE  Good(d, e)'
<1>0. Typed /\ Control /\ Alone(p) /\ Lasts
  BY StartOpens, StepKeeps, AlwaysLasts DEF IInv
<1>1. Good(d, e) /\ d \in Dirs /\ e \in Dirs /\ cue[d] # NoCue /\ cue[e] # NoCue
  <2>1. CASE q = p /\ Start(p)
    <3>1. PICK c : WellFormed(c) /\ s = Opened(c) /\ s.cmd = c /\ Placed(Opened(c))
      BY <1>0, <2>1, StartOpens, OpenedShape, OpenedPlaced
    <3>2. s # Refused(c)
      <4>1. Refused(c).peers = {}
        BY FreshIsProc DEF Refused, IsProc, Fields, Fresh
      <4> QED BY <4>1 DEF DirsOf
    <3>3. PICK n, ps : n = Resolve(scopes, c) /\ ps = Peers(n)
      OBVIOUS
    <3>4. /\ n # NoName
          /\ s = [Starting(c, scopes[n].dir) EXCEPT !.pc = "lock", !.name = n, !.auto = c.auto = "true",
                                        !.todo = ps, !.peers = ps]
      BY <3>1, <3>2, <3>3 DEF Opened, OpenAuto
    <3>5. s.snap = scopes
      BY <3>4, FreshIsProc DEF Starting, IsProc, Fields
    <3>6. \A x \in DirsOf(s) : x \in Dirs /\ cue[x] # NoCue /\ \E k \in DOMAIN scopes : x = scopes[k].dir
      BY <3>1, <3>5 DEF Placed, DirsOf, DirOf
    <3> QED BY <3>6 DEF IInv, Agreement
  <2>2. CASE ~(q = p /\ Start(p))
    <3>1. PICK r : r = proc[q] /\ Keeps(r, s) /\ Placed(r) /\ Agreeing(q)
      BY <1>0, <2>2, StepKeeps DEF Alone, Keeps, Control, IInv, Agreement
    <3>2. DirsOf(r) = DirsOf(s) /\ r.cmd.verb = "auto"
      BY <3>1, KeepsDirs DEF Keeps
    <3> QED BY <3>1, <3>2 DEF Placed, DirsOf, Agreeing
  <2> QED BY <2>1, <2>2
<1> QED BY <1>1, GoodStep

(* What a set puts back, and what it has written, whoever steps.               *)
LEMMA SetsAgree ==
  ASSUME IInv, NEW p \in Procs, Start(p) \/ Step(p) \/ Die(p), NEW q \in Procs, NEW s, s = proc'[q],
         s.cmd.verb = "auto", s.pc \in {"rewrite", "commit", "restore"}
  PROVE  /\ \A d, e \in DirsOf(s) :
              SameRoot(d, e)' => (Back(s, d)' = Back(s, e)') \/ ExcusedElse(q, d, e)'
         /\ s.pc = "rewrite" => \A n \in s.peers \ s.todo : cue'[DirOf(s, n)].auto = s.auto \/ Anyway'
         /\ s.pc = "commit" => \A d \in DirsOf(s) : cue'[d].auto = s.auto \/ Anyway'
<1>0. Typed /\ Control /\ Alone(p) /\ Lasts
  BY StartOpens, StepKeeps, AlwaysLasts DEF IInv
<1>1. (Anyway => Anyway') /\ \A d, e : SameRoot(d, e)' <=> SameRoot(d, e)
  BY <1>0, ReasonsLast DEF SameRoot
<1>2. \A d, e : ExcusedElse(q, d, e) => ExcusedElse(q, d, e)'
  BY ElseLasts
<1>3. CASE q = p
  <2>0. PICK r : r = proc[p]
    OBVIOUS
  <2>1. ~Start(p)
    BY <1>0, <1>3, StartOpens, OpenedShape
  <2>2. DirsOf(s) = DirsOf(r)
    BY <1>0, <1>3, <2>0, <2>1, StepKeeps, KeepsDirs
  <2>3. /\ \A d, e \in DirsOf(r) :
              SameRoot(d, e) => (Back(s, d)' = Back(s, e)') \/ ExcusedElse(p, d, e)
        /\ s.pc = "rewrite" => \A n \in s.peers \ s.todo : cue'[DirOf(s, n)].auto = s.auto \/ Anyway
        /\ s.pc = "commit" => \A d \in DirsOf(s) : cue'[d].auto = s.auto \/ Anyway
    BY <1>3, <2>0, <2>1, SetSteps
  <2> QED BY <1>1, <1>2, <1>3, <2>2, <2>3
<1>4. CASE q # p
  <2>1. s = proc[q] /\ Agreeing(q) /\ Placed(s)
    BY <1>0, <1>4 DEF Alone, IInv, Agreement, Control
  <2>2. \A d \in DirsOf(s) : cue'[d].auto = cue[d].auto \/ Anyway
    BY <1>4, <2>1, HeldStays
  <2>3. ASSUME NEW d \in DirsOf(s), NEW e \in DirsOf(s), SameRoot(d, e)'
        PROVE  (Back(s, d)' = Back(s, e)') \/ ExcusedElse(q, d, e)'
    <3>1. Back(s, d) = Back(s, e) \/ ExcusedElse(q, d, e)
      BY <1>1, <2>1, <2>3 DEF Agreeing
    <3>2. CASE Anyway
      BY <1>1, <3>2 DEF ExcusedElse
    <3>3. CASE ~Anyway
      <4>1. Back(s, d)' = Back(s, d) /\ Back(s, e)' = Back(s, e)
        BY <2>2, <3>3 DEF Back
      <4> QED BY <1>2, <3>1, <4>1
    <3> QED BY <3>2, <3>3
  <2>4. s.pc = "rewrite" => \A n \in s.peers \ s.todo : cue'[DirOf(s, n)].auto = s.auto \/ Anyway'
    <3>1. \A n \in s.peers : DirOf(s, n) \in DirsOf(s)
      BY DEF DirsOf
    <3>2. s.pc = "rewrite" => \A n \in s.peers \ s.todo : cue[DirOf(s, n)].auto = s.auto \/ Anyway
      BY <2>1 DEF Agreeing
    <3> QED BY <1>1, <2>2, <3>1, <3>2
  <2>5. s.pc = "commit" => \A d \in DirsOf(s) : cue'[d].auto = s.auto \/ Anyway'
    <3>1. s.pc = "commit" => \A d \in DirsOf(s) : cue[d].auto = s.auto \/ Anyway
      BY <2>1 DEF Agreeing
    <3> QED BY <1>1, <2>2, <3>1
  <2> QED BY <2>3, <2>4, <2>5
<1> QED BY <1>3, <1>4

LEMMA AgreementStep ==
  ASSUME IInv, NEW p \in Procs, Start(p) \/ Step(p) \/ Die(p)
  PROVE  Agreement'
<1>0. Typed /\ Control /\ Alone(p) /\ Lasts /\ StoreSteps(p) /\ Cued
  BY StartOpens, StepKeeps, AlwaysLasts, AlwaysStoreSteps DEF IInv
<1>1. ASSUME NEW n \in DOMAIN scopes', NEW k \in DOMAIN scopes'
      PROVE  Good(scopes[n].dir, scopes[k].dir)'
  <2>0. PICK d, e : d = scopes'[n].dir /\ e = scopes'[k].dir
    OBVIOUS
  <2>1. Good(d, e) /\ d \in Dirs /\ e \in Dirs /\ cue[d] # NoCue /\ cue[e] # NoCue
    <3>1. CASE scopes' = scopes
      BY <1>0, <1>1, <2>0, <3>1 DEF IInv, Agreement, Typed, Cued
    <3>2. CASE scopes' # scopes
      <4>1. PICK r : r = proc[p]
        OBVIOUS
      <4>2. r.pc = "store" /\ Head(r.writes) = "scopes" /\ scopes' = r.mem.scopes
        BY <1>0, <3>2, <4>1, StoreEffect DEF StoreSteps
      <4>3. Storing(r) /\ Agreeing(p) /\ ~CuePending(r)
        BY <4>1, <4>2 DEF IInv, Registry, Agreement, CuePending
      <4>4. \A x, y \in DOMAIN r.mem.scopes : Good(r.mem.scopes[x].dir, r.mem.scopes[y].dir)
        BY <4>1, <4>2, <4>3 DEF Agreeing
      <4>5. \A x \in DOMAIN r.mem.scopes : r.mem.scopes[x].dir \in Dirs /\ cue[r.mem.scopes[x].dir] # NoCue
        BY <4>3 DEF Storing
      <4> QED BY <1>1, <2>0, <4>2, <4>4, <4>5
    <3> QED BY <3>1, <3>2
  <2>2. Good(d, e)'
    BY <2>1, GoodStep
  <2> QED BY <2>0, <2>2 DEF Good, SameRoot, Usable, Excused, Parts, Halfway, RepoRoot
<1>2. ASSUME NEW q \in Procs PROVE Agreeing(q)'
  <2>0. PICK s : s = proc'[q]
    OBVIOUS
  <2>1. s.pc = "store" /\ ~CuePending(s) =>
          \A x, y \in DOMAIN s.mem.scopes : Good(s.mem.scopes[x].dir, s.mem.scopes[y].dir)'
    BY <2>0, StoredAgrees
  <2>2. ASSUME s.pc = "store", CuePending(s), NEW n \in DOMAIN scopes', SameRoot(scopes[n].dir, s.dir)'
        PROVE  (cue[scopes[n].dir].auto = s.auto \/ Excused(scopes[n].dir, s.dir))'
    <3>1. PICK d : d = scopes'[n].dir
      OBVIOUS
    <3>2. SameRoot(d, s.dir)
      <4>1. SameRoot(d, s.dir)'
        BY <2>2, <3>1 DEF SameRoot, RepoRoot
      <4> QED BY <1>0, <4>1, ReasonsLast DEF SameRoot
    <3>3. cue'[d].auto = s.auto \/ Excused(d, s.dir)'
      BY <2>0, <2>2, <3>1, <3>2, PendingAgrees
    <3> QED BY <3>1, <3>3 DEF Excused, Parts, Halfway
  <2>3. s.cmd.verb = "import" /\ s.pc = "config" =>
          \/ cue'[s.dir].auto = s.auto \/ Anyway'
          \/ \E x \in Procs : proc'[x].cmd.verb = "auto" /\ s.dir \in DirsOf(proc'[x])
    BY <2>0, ImportReads
  <2>4. s.cmd.verb = "auto" => \A d, e \in DirsOf(s) : Good(d, e)'
    BY <2>0, PeersAgree
  <2>5. s.cmd.verb = "auto" /\ s.pc \in {"rewrite", "commit", "restore"} =>
          \A d, e \in DirsOf(s) :
            SameRoot(d, e)' => (Back(s, d)' = Back(s, e)') \/ ExcusedElse(q, d, e)'
    BY <2>0, SetsAgree
  <2>6. /\ s.cmd.verb = "auto" /\ s.pc = "rewrite" =>
             \A n \in s.peers \ s.todo : cue'[DirOf(s, n)].auto = s.auto \/ Anyway'
        /\ s.cmd.verb = "auto" /\ s.pc = "commit" =>
             \A d \in DirsOf(s) : cue'[d].auto = s.auto \/ Anyway'
    BY <2>0, SetsAgree
  <2> QED BY <2>0, <2>1, <2>2, <2>3, <2>4, <2>5, <2>6 DEF Agreeing
<1> QED BY <1>1, <1>2 DEF Agreement

-----------------------------------------------------------------------------
(* The start, and the theorems.                                              *)

LEMMA InitIInv == Init => IInv
<1>0. SUFFICES ASSUME Init PROVE IInv
  OBVIOUS
<1>1. Sane(mode) /\ mode \in Modes
  BY <1>0, ModesAssumption DEF Init
<1>2. \A p \in Procs : proc[p] = Fresh /\ flock = [d \in Dirs |-> NoProc] /\ p # NoProc
  BY <1>0, NoProcIsNone DEF Init
<1>3. Fresh.pc = "new" /\ Fresh.cmd.verb = "none" /\ Fresh.peers = {} /\ Fresh.auto = FALSE /\ IsProc(Fresh)
  BY FreshIsProc DEF Fresh, NoCommand
<1>4. /\ DOMAIN scopes \subseteq Names /\ (\A n \in DOMAIN scopes : scopes[n].dir \in DOMAIN mode.cue)
      /\ DOMAIN mode.cue \subseteq Dirs /\ (\A d \in DOMAIN mode.cue : mode.cue[d] \in Cues)
      /\ RegisteredOnce(scopes)
  BY <1>0, <1>1 DEF Init, Sane, Cues
<1>5. \A d \in Dirs : cue[d] = IF d \in DOMAIN mode.cue THEN mode.cue[d] ELSE NoCue
  BY <1>0 DEF Init
<1>6. \A d \in DOMAIN mode.cue : cue[d] # NoCue
  BY <1>4, <1>5, CueTypes
<1>7. Typed
  <2>1. cue \in [Dirs -> Cues \cup {NoCue}]
    BY <1>0, <1>4 DEF Init
  <2>2. files \in [Dirs -> SUBSET (Tickets \X Names)]
    <3>1. \A d \in DOMAIN mode.cue : mode.cue[d].name \in Names
      BY <1>4, CueTypes
    <3> QED BY <1>0, <3>1 DEF Init
  <2>3. lens \subseteq Names /\ note \subseteq Names
    BY <1>0, <1>4 DEF Init
  <2>4. /\ config \in Procs \cup {NoProc} /\ flock \in [Dirs -> Procs \cup {NoProc}]
        /\ commit \in [Repos -> Procs \cup {NoProc}]
    BY <1>0 DEF Init
  <2>5. proc = [p \in Procs |-> proc[p]] /\ \A p \in Procs : IsProc(proc[p])
    BY <1>0, <1>3 DEF Init
  <2>6. \A n \in DOMAIN scopes : scopes[n].dir \in Dirs
    BY <1>4
  <2> QED BY <1>1, <1>4, <2>1, <2>2, <2>3, <2>4, <2>5, <2>6 DEF Typed
<1>8. Control
  BY <1>2, <1>3 DEF Control, Placed, DirsOf
<1>9. Locked
  <2>1. \A p \in Procs : config # p /\ (\A d \in Dirs : flock[d] # p) /\ \A g \in Repos : commit[g] # p
    BY <1>0, <1>2 DEF Init
  <2> QED BY <1>2, <1>3, <2>1 DEF Locked, Locking
<1>10. Cued
  <2>1. \A n \in DOMAIN scopes : cue[scopes[n].dir] # NoCue
    BY <1>4, <1>6
  <2>2. \A d \in Dirs : cue[d] = NoCue => files[d] = {}
    BY <1>0, <1>6 DEF Init
  <2> QED BY <1>2, <1>3, <2>1, <2>2 DEF Cued, CuePending
<1>11. Registry
  BY <1>2, <1>3, <1>4 DEF Registry
<1>12. Kept
  BY <1>2, <1>3 DEF Kept, Keeping
<1>13. Agreement
  <2>1. ASSUME NEW n \in DOMAIN scopes, NEW q \in DOMAIN scopes PROVE Good(scopes[n].dir, scopes[q].dir)
    <3>1. PICK d, e : d = scopes[n].dir /\ e = scopes[q].dir
      OBVIOUS
    <3>2. SUFFICES ASSUME SameRoot(d, e), Usable(d), Usable(e) PROVE cue[d].auto = cue[e].auto
      BY <3>1 DEF Good
    <3>3. {d, e} \cap (mode.gone \cup mode.broken) = {}
      BY <3>2 DEF Usable
    <3>4. RepoRootForNew(d) = RepoRootForNew(e) /\ RepoRootForNew(d) # NoPath
      BY <3>2, <3>3 DEF SameRoot, RepoRoot
    <3>5. mode.cue[d].auto = mode.cue[e].auto
      BY <1>0, <1>1, <2>1, <3>1, <3>3, <3>4 DEF Sane, Init
    <3>6. d \in DOMAIN mode.cue /\ e \in DOMAIN mode.cue
      BY <1>4, <3>1
    <3> QED BY <1>4, <1>5, <3>5, <3>6
  <2>2. ASSUME NEW p \in Procs PROVE Agreeing(p)
    BY <1>2, <1>3 DEF Agreeing
  <2> QED BY <2>1, <2>2 DEF Agreement
<1>14. Named
  <2>1. ASSUME NEW d \in Dirs, NEW f \in files[d] PROVE f[2] = cue[d].name
    <3>1. d \in DOMAIN mode.cue /\ files[d] = Tickets \X {mode.cue[d].name}
      BY <1>0, <2>1 DEF Init
    <3> QED BY <1>5, <2>1, <3>1
  <2>2. \A p \in Procs : GivesName(proc[p])
    BY <1>2, <1>3 DEF GivesName
  <2> QED BY <2>1, <2>2 DEF Named
<1> QED BY <1>7, <1>8, <1>9, <1>10, <1>11, <1>12, <1>13, <1>14 DEF IInv

(* The invariant is one state's business: a step that changes nothing keeps it.*)
LEMMA StutterIInv == IInv /\ UNCHANGED vars => IInv'
<1>1. SUFFICES ASSUME IInv, UNCHANGED vars PROVE IInv'
  OBVIOUS
<1>2. /\ mode' = mode /\ scopes' = scopes /\ lens' = lens /\ note' = note /\ cue' = cue /\ files' = files
      /\ config' = config /\ flock' = flock /\ commit' = commit /\ proc' = proc
  BY <1>1 DEF vars
<1>3. (\A d : InitTwice(d)' <=> InitTwice(d)) /\ (\A d : RepoRoot(d)' = RepoRoot(d))
  BY <1>2 DEF InitTwice, RepoRoot
<1>4. Typed'
  BY <1>1, <1>2 DEF IInv, Typed
<1>5. Control'
  BY <1>1, <1>2, <1>3 DEF IInv, Control, Placed
<1>6. Locked'
  BY <1>1, <1>2 DEF IInv, Locked, Locking
<1>7. Cued'
  BY <1>1, <1>2, <1>3 DEF IInv, Cued, InitTwice
<1>8. Registry'
  BY <1>1, <1>2, <1>3 DEF IInv, Registry, Storing, CodeRoot
<1>9. Kept'
  BY <1>1, <1>2, <1>3 DEF IInv, Kept, Keeping
<1>10. Agreement'
  <2>1. (Anyway' <=> Anyway) /\ \A d, e : SameRoot(d, e)' <=> SameRoot(d, e)
    BY <1>2, <1>3 DEF Anyway, SameRoot
  <2>2. \A d, e : Excused(d, e)' <=> Excused(d, e)
    BY <1>2, <2>1 DEF Excused
  <2>3. \A d, e : \A q \in Procs : ExcusedElse(q, d, e)' <=> ExcusedElse(q, d, e)
    BY <1>2, <2>1 DEF ExcusedElse
  <2>4. \A d, e : Good(d, e)' <=> Good(d, e)
    BY <1>2, <2>1, <2>2 DEF Good, Usable
  <2>5. \A r, d : Back(r, d)' = Back(r, d)
    BY <1>2 DEF Back
  <2>6. ASSUME NEW n \in DOMAIN scopes', NEW k \in DOMAIN scopes' PROVE Good(scopes[n].dir, scopes[k].dir)'
    <3>1. PICK d, e : d = scopes[n].dir /\ e = scopes[k].dir
      OBVIOUS
    <3>2. Good(d, e)'
      BY <1>1, <1>2, <2>4, <2>6, <3>1 DEF IInv, Agreement
    <3> QED BY <1>2, <3>1, <3>2 DEF Good, SameRoot, Usable, Excused, RepoRoot
  <2>7. ASSUME NEW p \in Procs PROVE Agreeing(p)'
    <3>1. PICK r : r = proc[p]
      OBVIOUS
    <3>2. Agreeing(p)
      BY <1>1 DEF IInv, Agreement
    <3>3. r.pc = "store" /\ ~CuePending(r) =>
            \A n, q \in DOMAIN r.mem.scopes : Good(r.mem.scopes[n].dir, r.mem.scopes[q].dir)'
      BY <2>4, <3>1, <3>2 DEF Agreeing
    <3>4. ASSUME r.pc = "store", CuePending(r), NEW n \in DOMAIN scopes', SameRoot(scopes[n].dir, r.dir)'
          PROVE  (cue[scopes[n].dir].auto = r.auto \/ Excused(scopes[n].dir, r.dir))'
      <4>1. PICK d : d = scopes[n].dir
        OBVIOUS
      <4>2. SameRoot(d, r.dir)
        BY <1>2, <3>4, <4>1 DEF SameRoot, RepoRoot
      <4>3. cue'[d].auto = r.auto \/ Excused(d, r.dir)'
        BY <1>2, <2>2, <3>1, <3>2, <3>4, <4>1, <4>2 DEF Agreeing
      <4> QED BY <1>2, <4>1, <4>3 DEF Excused
    <3>5. r.cmd.verb = "import" /\ r.pc = "config" =>
            \/ cue'[r.dir].auto = r.auto \/ Anyway'
            \/ \E q \in Procs : proc'[q].cmd.verb = "auto" /\ r.dir \in DirsOf(proc'[q])
      BY <1>2, <2>1, <3>1, <3>2 DEF Agreeing
    <3>6. r.cmd.verb = "auto" => \A d, e \in DirsOf(r) : Good(d, e)'
      BY <2>4, <3>1, <3>2 DEF Agreeing
    <3>7. r.cmd.verb = "auto" /\ r.pc \in {"rewrite", "commit", "restore"} =>
            \A d, e \in DirsOf(r) :
              SameRoot(d, e)' => (Back(r, d)' = Back(r, e)') \/ ExcusedElse(p, d, e)'
      BY <2>1, <2>3, <2>5, <3>1, <3>2 DEF Agreeing
    <3>8. /\ r.cmd.verb = "auto" /\ r.pc = "rewrite" =>
               \A n \in r.peers \ r.todo : cue'[DirOf(r, n)].auto = r.auto \/ Anyway'
          /\ r.cmd.verb = "auto" /\ r.pc = "commit" => \A d \in DirsOf(r) : cue'[d].auto = r.auto \/ Anyway'
      BY <1>2, <2>1, <3>1, <3>2 DEF Agreeing
    <3>9. r = proc'[p]
      BY <1>2, <3>1
    <3> QED BY <3>3, <3>4, <3>5, <3>6, <3>7, <3>8, <3>9 DEF Agreeing
  <2> QED BY <2>6, <2>7 DEF Agreement
<1>11. Named'
  BY <1>1, <1>2 DEF IInv, Named, GivesName, RenamedTo, OtherName, InitTwice
<1> QED BY <1>4, <1>5, <1>6, <1>7, <1>8, <1>9, <1>10, <1>11 DEF IInv

(* The inductive invariant holds for every number of processes, names and      *)
(* directories, whatever races or dies: the registry code under the global    *)
(* lock and the verbs under the flocks keep each other's preconditions.        *)
THEOREM Invariance == Spec => []IInv
<1>1. Init => IInv
  BY InitIInv
<1>2. IInv /\ [Next]_vars => IInv'
  <2>1. SUFFICES ASSUME IInv, [Next]_vars PROVE IInv'
    OBVIOUS
  <2>2. ASSUME NEW p \in Procs, Start(p) \/ Step(p) \/ Die(p) PROVE IInv'
    BY <2>1, <2>2, TypedStep, ControlStep, LockedStep, CuedStep, RegistryStep, KeptStep, AgreementStep,
       NamedStep DEF IInv
  <2> QED BY <2>1, <2>2, StutterIInv DEF Next
<1> QED BY <1>1, <1>2, PTL DEF Spec

LEMMA TypesFollow ==
  ASSUME IInv
  PROVE  TypeOK
<1>1. cue \in [Dirs -> [name : Names \cup {NoName}, auto : BOOLEAN, field : BOOLEAN]]
  <2>1. Cues \subseteq [name : Names \cup {NoName}, auto : BOOLEAN, field : BOOLEAN]
    BY DEF Cues
  <2>2. NoCue \in [name : Names \cup {NoName}, auto : BOOLEAN, field : BOOLEAN]
    BY DEF NoCue
  <2> QED BY <2>1, <2>2 DEF IInv, Typed
<1>2. \A d \in Dirs : flock[d] # NoProc => proc[flock[d]].pc \notin Ended
  BY DEF IInv, Typed, Locked, Locking
<1>3. \A r \in Repos : commit[r] # NoProc => proc[commit[r]].pc = "synced"
  BY DEF IInv, Typed, Locked, Locking
<1> QED BY <1>1, <1>2, <1>3 DEF TypeOK, IInv, Typed

(* validateRegistration, checkAutoCommitConsensus and LockScopes: whatever    *)
(* commands race or die, registered directories are disjoint, code-roots are  *)
(* unique and the scopes of a git-root agree on autoCommit, but for the cases *)
(* AgreementOpen names.                                                       *)
THEOREM RegistrationsAlwaysSound == Spec => []RegistrationsSound
<1>1. ASSUME IInv PROVE RegistrationsSound
  <2>1. TypeOK /\ RegisteredOnce(scopes)
    BY <1>1, TypesFollow DEF IInv, Registry
  <2>2. ASSUME ~AgreementOpen, NEW n \in DOMAIN scopes, NEW q \in DOMAIN scopes, NEW d, NEW e,
               d = scopes[n].dir, e = scopes[q].dir, Usable(d), Usable(e), SameRoot(d, e)
        PROVE  cue[d].auto = cue[e].auto
    <3>1. cue[d].auto = cue[e].auto \/ Excused(d, e)
      BY <1>1, <2>2 DEF IInv, Agreement, Good
    <3>2. ~Anyway
      BY <2>2 DEF Anyway, AgreementOpen
    <3>3. ASSUME NEW p \in Procs PROVE ~Halfway(proc[p], d, e)
      <4>1. SUFFICES ASSUME Halfway(proc[p], d, e) PROVE FALSE
        OBVIOUS
      <4>2. proc[p].cmd.verb = "auto" /\ proc[p].peers # {} /\ proc[p].pc \notin {"done", "failed"}
        BY <4>1 DEF Halfway, DirsOf
      <4> QED BY <2>2, <4>2 DEF AgreementOpen
    <3>4. ASSUME NEW p \in Procs PROVE ~Parts(proc[p], d, e)
      <4>1. SUFFICES ASSUME Parts(proc[p], d, e) PROVE FALSE
        OBVIOUS
      <4>2. PICK r : r = proc[p] /\ Placed(r)
        BY <1>1 DEF IInv, Control
      <4>3. r.cmd.verb = "auto" /\ r.peers # {}
        BY <4>1, <4>2 DEF Parts, DirsOf
      <4>4. RepoRoot(d) = RepoRoot(r.dir) /\ RepoRoot(e) = RepoRoot(r.dir)
        BY <2>2, <4>1, <4>2, <4>3 DEF Parts, Placed, SameRoot
      <4>5. \E k \in GitRootScopes(scopes, RepoRoot(r.dir)) : scopes[k].dir \notin DirsOf(r)
        BY <2>2, <4>1, <4>2, <4>4 DEF Parts, GitRootScopes
      <4> QED BY <2>2, <4>2, <4>3, <4>5 DEF AgreementOpen
    <3> QED BY <3>1, <3>2, <3>3, <3>4 DEF Excused
  <2>3. RootsAgree \/ AgreementOpen
    BY <2>2 DEF RootsAgree, SameRoot
  <2> QED BY <2>1, <2>3 DEF RegistrationsSound
<1> QED BY <1>1, Invariance, PTL

(* A step that writes a tk.cue is seen in its process.                        *)
LEMMA CueMoves ==
  ASSUME IInv, NEW p \in Procs, Start(p) \/ Step(p) \/ Die(p), cue' # cue
  PROVE  proc'[p] # proc[p]
<1>0. Typed /\ Control
  BY DEF IInv
<1>1. PICK r, s : r = proc[p] /\ s = proc'[p]
  OBVIOUS
<1>2. CASE Store(p)
  <2>1. Authors(p, r.dir) \/ Relabels(p, r.dir) \/ Sets(p, r.dir)
    BY <1>1, <1>2, StoreTouches DEF Touches
  <2>2. r.pc = "store"
    BY <1>0, <1>1, <1>2, StoreEffect
  <2>3. r.writes = <<"cue", "scopes">> /\ s.writes = <<"scopes">>
    BY <1>1, <2>1, <2>2 DEF Authors, Relabels, Sets
  <2>4. Len(<<"cue", "scopes">>) = 2 /\ Len(<<"scopes">>) = 1
    OBVIOUS
  <2> QED BY <1>1, <2>3, <2>4
<1>3. CASE RewriteName(p)
  <2>1. r.pc = "tickets" /\ s.pc = "commit"
    BY <1>0, <1>1, <1>3, RewriteNameEffect DEF Ends
  <2> QED BY <1>1, <2>1
<1>4. CASE RewriteCue(p)
  <2>1. PICK n \in r.todo : s.todo = r.todo \ {n}
    BY <1>0, <1>1, <1>4, RewriteCueEffect
  <2> QED BY <1>1, <2>1
<1>5. CASE RestoreCue(p)
  <2>1. PICK d \in DOMAIN r.prev : s.prev = Without(r.prev, d)
    BY <1>0, <1>1, <1>5, RestoreCueEffect
  <2>2. d \notin DOMAIN s.prev
    BY <2>1 DEF Without
  <2> QED BY <1>1, <2>1, <2>2
<1>6. CASE Start(p)
  BY <1>0, <1>6, StartOpens
<1>7. CASE TakeConfig(p) \/ TakeScope(p) \/ PlanRename(p) \/ RenameTicket(p) \/ RekeyRegistry(p)
  BY <1>0, <1>7, TakeConfigEffect, TakeScopeEffect, PlanRenameEffect, RenameTicketEffect, RekeyRegistryEffect
<1>8. CASE CheckSet(p) \/ NotConfirmed(p) \/ SelfCommit(p)
  BY <1>0, <1>8, CheckSetEffect, NotConfirmedEffect, SelfCommitEffect
<1>9. CASE TakeRoot(p) \/ SyncEnd(p) \/ RehomeCommit(p) \/ Die(p)
  BY <1>0, <1>9, TakeRootEffect, SyncEndEffect, RehomeCommitEffect, DieEffect
<1> QED BY <1>2, <1>3, <1>4, <1>5, <1>6, <1>7, <1>8, <1>9 DEF Step

(* The registry is rewritten whole, from what was loaded under the lock, and  *)
(* a tk.cue from what was read under its flock: no step loses what another     *)
(* command has recorded.                                                       *)
THEOREM EntriesOwn == Spec => OwnEntries
<1>1. ASSUME IInv, NEW p \in Procs, Start(p) \/ Step(p) \/ Die(p), NEW n \in Names
      PROVE  \/ At(scopes, n) = At(scopes', n) /\ (n \in lens) = (n \in lens') /\ (n \in note) = (n \in note')
             \/ config # NoProc /\ OwnName(proc[config], n)
  <2>0. StoreSteps(p)
    BY <1>1, AlwaysStoreSteps
  <2>1. CASE UNCHANGED <<scopes, lens, note>>
    BY <2>1
  <2>2. CASE /\ proc[p].pc = "store" /\ scopes' \in {scopes, proc[p].mem.scopes}
             /\ lens' \in {lens, proc[p].mem.lens} /\ note' \in {note, proc[p].mem.note}
    <3>1. PICK r : r = proc[p]
      OBVIOUS
    <3>2. config = p /\ config # NoProc /\ Storing(r)
      BY <1>1, <2>2, <3>1, NoProcIsNone DEF IInv, Locked, Locking, Registry
    <3>3. CASE ~OwnName(r, n)
      BY <2>2, <3>1, <3>2, <3>3 DEF Storing
    <3>4. CASE OwnName(r, n)
      BY <3>1, <3>2, <3>4
    <3> QED BY <3>3, <3>4
  <2> QED BY <2>0, <2>1, <2>2 DEF StoreSteps
<1>2. ASSUME IInv, NEW p \in Procs, Start(p) \/ Step(p) \/ Die(p), NEW d \in Dirs, cue[d] # cue'[d]
      PROVE  /\ proc[p] # proc'[p]
             /\ flock[d] = p \/ (proc[p].cmd.verb = "init" /\ proc[p].dir = d)
             /\ OwnPart(proc[p], cue[d], cue'[d]) \/ InitTwice(d)
  <2>1. PICK r, old, new : r = proc[p] /\ old = cue[d] /\ new = cue'[d]
    OBVIOUS
  <2>2. proc[p] # proc'[p]
    BY <1>2, CueMoves
  <2>3. Touches(p, d)
    BY <1>2, CueSteps DEF Touches
  <2>4. CASE Authors(p, d)
    <3>1. r.cmd.verb = "init" /\ r.dir = d /\ (old = NoCue \/ InitTwice(d))
      BY <2>1, <2>4 DEF Authors
    <3>2. OwnPart(r, old, new) \/ InitTwice(d)
      BY <3>1 DEF OwnPart
    <3> QED BY <2>1, <2>2, <3>1, <3>2
  <2>5. CASE Relabels(p, d)
    <3>1. r.cmd.verb = "rename" /\ flock[d] = p /\ new.auto = old.auto /\ new.field = old.field /\ old # NoCue
      BY <2>1, <2>5 DEF Relabels
    <3>2. old \in Cues /\ new \in Cues
      BY <1>2, <2>1, <2>3, <3>1 DEF IInv, Typed, Touches
    <3>3. [new EXCEPT !.name = old.name] = old
      BY <3>1, <3>2 DEF Cues
    <3> QED BY <2>1, <2>2, <3>1, <3>3 DEF OwnPart
  <2>6. CASE Sets(p, d)
    <3>1. /\ r.cmd.verb \in {"auto", "field"} /\ flock[d] = p /\ old # NoCue
          /\ OwnDiffers(r.cmd.verb, old, new) \/ InitTwice(d)
      BY <2>1, <2>6 DEF Sets
    <3>2. old \in Cues /\ new \in Cues
      BY <1>2, <2>1, <2>3, <3>1 DEF IInv, Typed, Touches
    <3>3. CASE r.cmd.verb = "auto" /\ OwnDiffers(r.cmd.verb, old, new)
      <4>1. [new EXCEPT !.auto = old.auto] = old
        BY <3>2, <3>3 DEF Cues, OwnDiffers
      <4> QED BY <2>1, <2>2, <3>1, <3>3, <4>1 DEF OwnPart
    <3>4. CASE r.cmd.verb = "field" /\ OwnDiffers(r.cmd.verb, old, new)
      <4>1. [new EXCEPT !.field = old.field] = old
        BY <3>2, <3>4 DEF Cues, OwnDiffers
      <4> QED BY <2>1, <2>2, <3>1, <3>4, <4>1 DEF OwnPart
    <3> QED BY <2>1, <2>2, <3>1, <3>3, <3>4
  <2> QED BY <2>3, <2>4, <2>5, <2>6 DEF Touches
<1>3. IInv /\ [Next]_vars => [
        /\ \A n \in Names :
             \/ At(scopes, n) = At(scopes', n) /\ (n \in lens) = (n \in lens') /\ (n \in note) = (n \in note')
             \/ config # NoProc /\ OwnName(proc[config], n)
        /\ \A d \in Dirs :
             \/ cue[d] = cue'[d]
             \/ \E p \in Procs : /\ proc[p] # proc'[p]
                                 /\ flock[d] = p \/ (proc[p].cmd.verb = "init" /\ proc[p].dir = d)
                                 /\ OwnPart(proc[p], cue[d], cue'[d]) \/ InitTwice(d)]_vars
  <2>1. SUFFICES ASSUME IInv, NEW p \in Procs, Start(p) \/ Step(p) \/ Die(p)
        PROVE
        /\ \A n \in Names :
             \/ At(scopes, n) = At(scopes', n) /\ (n \in lens) = (n \in lens') /\ (n \in note) = (n \in note')
             \/ config # NoProc /\ OwnName(proc[config], n)
        /\ \A d \in Dirs :
             \/ cue[d] = cue'[d]
             \/ \E q \in Procs : /\ proc[q] # proc'[q]
                                 /\ flock[d] = q \/ (proc[q].cmd.verb = "init" /\ proc[q].dir = d)
                                 /\ OwnPart(proc[q], cue[d], cue'[d]) \/ InitTwice(d)
    BY DEF Next
  <2>2. \A n \in Names :
          \/ At(scopes, n) = At(scopes', n) /\ (n \in lens) = (n \in lens') /\ (n \in note) = (n \in note')
          \/ config # NoProc /\ OwnName(proc[config], n)
    BY <1>1, <2>1
  <2> QED BY <1>2, <2>1, <2>2
<1> QED BY <1>3, Invariance, PTL DEF Spec, OwnEntries

(* How a rename succeeds.                                                      *)
LEMMA RenameEnds ==
  ASSUME IInv, NEW p \in Procs, Start(p) \/ Step(p) \/ Die(p), NEW q \in Procs, NEW r, r = proc[q],
         r.cmd.verb = "rename", r.pc # "done", proc'[q].pc = "done"
  PROVE  /\ r.pc \in {"config", "store"} /\ cue' = cue /\ files' = files
         /\ r.cmd.name \notin DOMAIN scopes'
<1>0. Typed /\ Control /\ Alone(p)
  BY StartOpens, StepKeeps DEF IInv
<1>1. q = p
  BY <1>0 DEF Alone
<1>2. PICK s : s = proc'[p]
  OBVIOUS
<1>3. ~Start(p)
  BY <1>0, <1>1, StartOpens DEF Fresh, NoCommand
<1>4. Placed(r) /\ r.pc \in Places("rename")
  BY <1>0, <1>1, <1>3, StepKeeps DEF Control, Placed
<1>5. CASE Store(p)
  <2>1. /\ r.pc = "store" /\ files' = files
        /\ scopes' = IF Head(r.writes) = "scopes" THEN r.mem.scopes ELSE scopes
    BY <1>0, <1>1, <1>5, StoreEffect
  <2>2. cue' = cue
    <3>1. ~Touches(p, r.dir)
      BY <1>1, <2>1 DEF Touches, Authors, Relabels, Sets
    <3> QED BY <1>1, <1>5, <3>1, StoreTouches
  <2>3. Storing(r)
    BY <2>1 DEF IInv, Registry
  <2>4. r.cmd.name \notin DOMAIN r.mem.scopes /\ (Head(r.writes) = "scopes" \/ r.cmd.name \notin DOMAIN scopes)
    BY <2>3 DEF Storing
  <2> QED BY <2>1, <2>2, <2>4
<1>6. CASE RekeyRegistry(p)
  BY <1>0, <1>1, <1>6, RekeyRegistryEffect DEF Ends
<1>7. ~TakeScope(p)
  <2>1. SUFFICES ASSUME TakeScope(p) PROVE FALSE
    OBVIOUS
  <2>2. s.pc \in {"failed", "lock", AfterLocks(r)}
    BY <1>0, <1>1, <1>2, <2>1, TakeScopeEffect DEF Ends
  <2> QED BY <1>1, <1>2, <2>2 DEF AfterLocks
<1>8. ~TakeConfig(p) /\ ~PlanRename(p) /\ ~RenameTicket(p) /\ ~RewriteName(p)
  BY <1>0, <1>1, TakeConfigEffect, PlanRenameEffect, RenameTicketEffect, RewriteNameEffect DEF Ends
<1>9. ~CheckSet(p) /\ ~RewriteCue(p) /\ ~NotConfirmed(p) /\ ~RestoreCue(p)
  BY <1>0, <1>1, CheckSetEffect, RewriteCueEffect, NotConfirmedEffect, RestoreCueEffect DEF Ends
<1>10. ~SelfCommit(p)
  BY <1>0, <1>1, SelfCommitEffect DEF Ends
<1>11. ~TakeRoot(p) /\ ~SyncEnd(p) /\ ~RehomeCommit(p) /\ ~Die(p)
  <2>1. r.pc \notin {"root", "synced"}
    BY <1>4 DEF Places
  <2> QED BY <1>0, <1>1, <2>1, TakeRootEffect, SyncEndEffect, RehomeCommitEffect, DieEffect DEF Ends
<1> QED BY <1>3, <1>5, <1>6, <1>7, <1>8, <1>9, <1>10, <1>11 DEF Step

(* RenameScope and its resume: a rename that succeeds leaves tk.cue, all       *)
(* ticket files and the registry with the new name, also when it finishes what *)
(* an earlier one that died had begun; no ticket is ever without a file.       *)
THEOREM RenamesWhole == Spec => RenameWhole
<1>1. ASSUME IInv, NEW p \in Procs, Start(p) \/ Step(p) \/ Die(p), NEW q \in Procs, NEW r, r = proc[q],
             r.cmd.verb = "rename", r.pc # "done", proc'[q].pc = "done", ~OtherName(r), ~InitTwice(r.dir)
      PROVE  /\ cue'[r.dir].name = r.cmd.to
             /\ \A f \in files'[r.dir] : f[2] = r.cmd.to
             /\ r.cmd.name \notin DOMAIN scopes'
  <2>1. /\ r.pc \in {"config", "store"} /\ cue' = cue /\ files' = files
        /\ r.cmd.name \notin DOMAIN scopes'
    BY <1>1, RenameEnds
  <2>2. GivesName(r) /\ r.dir \in Dirs /\ Lasts
    BY <1>1, <2>1, AlwaysLasts DEF IInv, Named, GivesName, Ended
  <2>3. cue[r.dir].name = r.cmd.to
    BY <1>1, <2>1, <2>2 DEF GivesName
  <2>4. ASSUME NEW f \in files[r.dir] PROVE f[2] = r.cmd.to
    <3>1. f[2] = cue[r.dir].name \/ InitTwice(r.dir) \/ RenamedTo(r.dir, f[2])
      BY <1>1, <2>2, <2>4 DEF IInv, Named
    <3> QED BY <1>1, <2>2, <2>3, <3>1, OtherNameLasts
  <2> QED BY <2>1, <2>3, <2>4
<1>2. ASSUME IInv, NEW p \in Procs, Start(p) \/ Step(p) \/ Die(p), NEW d \in Dirs
      PROVE  {f[1] : f \in files[d]} \subseteq {f[1] : f \in files'[d]}
  <2>0. FileSteps(p) /\ Typed
    BY <1>2, AlwaysFileSteps DEF IInv
  <2>1. CASE files' = files
    BY <2>1
  <2>2. CASE files' # files
    <3>1. PICK r : r = proc[p]
      OBVIOUS
    <3>2. PICK t \in Tickets :
            /\ r.cmd.verb = "rename" /\ r.pc = "tickets" /\ r.dir \in Dirs
            /\ \/ files' = [files EXCEPT ![r.dir] = @ \cup {<<t, r.cmd.to>>}]
               \/ /\ <<t, r.cmd.to>> \in files[r.dir]
                  /\ files' = [files EXCEPT ![r.dir] = @ \ {<<t, r.cmd.name>>}]
      BY <2>0, <2>2, <3>1 DEF FileSteps
    <3>3. r.cmd.name # r.cmd.to
      BY <1>2, <3>1, <3>2 DEF IInv, Named, GivesName, Ended
    <3>4. CASE files' = [files EXCEPT ![r.dir] = @ \cup {<<t, r.cmd.to>>}]
      <4>1. files[d] \subseteq files'[d]
        BY <2>0, <3>2, <3>4 DEF Typed
      <4> QED BY <4>1
    <3>5. CASE /\ <<t, r.cmd.to>> \in files[r.dir]
               /\ files' = [files EXCEPT ![r.dir] = @ \ {<<t, r.cmd.name>>}]
      <4>1. CASE d # r.dir
        <5>1. files'[d] = files[d]
          BY <2>0, <3>5, <4>1 DEF Typed
        <5> QED BY <5>1
      <4>2. CASE d = r.dir
        <5>1. files'[d] = files[d] \ {<<t, r.cmd.name>>}
          BY <2>0, <3>5, <4>2 DEF Typed
        <5>2. <<t, r.cmd.to>> \in files'[d]
          BY <3>3, <3>5, <4>2, <5>1
        <5>3. ASSUME NEW f \in files[d] PROVE \E g \in files'[d] : g[1] = f[1]
          <6>1. CASE f \in files'[d]
            BY <6>1
          <6>2. CASE f \notin files'[d]
            <7>1. f = <<t, r.cmd.name>>
              BY <5>1, <5>3, <6>2
            <7> QED BY <5>2, <7>1
          <6> QED BY <6>1, <6>2
        <5> QED BY <5>3
      <4> QED BY <4>1, <4>2
    <3> QED BY <3>2, <3>4, <3>5
  <2> QED BY <2>1, <2>2
<1>3. IInv /\ [Next]_vars => [
        /\ \A p \in Procs :
             LET r == proc[p] IN
             r.cmd.verb = "rename" /\ r.pc # "done" /\ proc'[p].pc = "done" /\ ~OtherName(r) /\ ~InitTwice(r.dir)
             => /\ cue'[r.dir].name = r.cmd.to
                /\ \A f \in files'[r.dir] : f[2] = r.cmd.to
                /\ r.cmd.name \notin DOMAIN scopes'
        /\ \A d \in Dirs : {f[1] : f \in files[d]} \subseteq {f[1] : f \in files'[d]}]_vars
  <2>1. SUFFICES ASSUME IInv, NEW p \in Procs, Start(p) \/ Step(p) \/ Die(p)
        PROVE
        /\ \A q \in Procs :
             LET r == proc[q] IN
             r.cmd.verb = "rename" /\ r.pc # "done" /\ proc'[q].pc = "done" /\ ~OtherName(r) /\ ~InitTwice(r.dir)
             => /\ cue'[r.dir].name = r.cmd.to
                /\ \A f \in files'[r.dir] : f[2] = r.cmd.to
                /\ r.cmd.name \notin DOMAIN scopes'
        /\ \A d \in Dirs : {f[1] : f \in files[d]} \subseteq {f[1] : f \in files'[d]}
    BY DEF Next
  <2>2. ASSUME NEW q \in Procs,
               proc[q].cmd.verb = "rename", proc[q].pc # "done", proc'[q].pc = "done",
               ~OtherName(proc[q]), ~InitTwice(proc[q].dir)
        PROVE  /\ cue'[proc[q].dir].name = proc[q].cmd.to
               /\ \A f \in files'[proc[q].dir] : f[2] = proc[q].cmd.to
               /\ proc[q].cmd.name \notin DOMAIN scopes'
    <3>1. PICK r : r = proc[q]
      OBVIOUS
    <3>2. /\ cue'[r.dir].name = r.cmd.to
          /\ \A f \in files'[r.dir] : f[2] = r.cmd.to
          /\ r.cmd.name \notin DOMAIN scopes'
      BY <1>1, <2>1, <2>2, <3>1
    <3> QED BY <3>1, <3>2
  <2>3. \A d \in Dirs : {f[1] : f \in files[d]} \subseteq {f[1] : f \in files'[d]}
    BY <1>2, <2>1
  <2> QED BY <2>2, <2>3
<1> QED BY <1>3, Invariance, PTL DEF Spec, RenameWhole
=============================================================================
