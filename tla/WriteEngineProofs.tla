------------------------ MODULE WriteEngineProofs ------------------------
(* Proofs about WriteEngine, for any number of commands and tickets. *)
EXTENDS WriteEngine, TLAPS

Images == [tree : [Tickets -> Copies], head : [Tickets -> Copies],
           cfg : Config, headCfg : Config]

\* A placed ticket file, and no file, are possible contents of a ticket id.
LEMMA PlacedType ==
    /\ Nowhere \in Copies
    /\ \A s \in Statuses : Placed(s) \in Copies
  BY DEF Placed, Nowhere, Copies, Locs, TerminalLocation, Absent

\* The memory of a command that has not run is well typed.
LEMMA FreshType == Fresh \in Mem
  BY PlacedType DEF Fresh, Mem, Config, Holds

\* What an integrate brings keeps the shape of work tree and HEAD.
LEMMA ArrivalsType ==
    ASSUME NEW w \in Images, NEW v \in Arrivals(w)
    PROVE  v \in Images
<1>1. CASE v = w
  BY <1>1
<1>2. ASSUME NEW t \in Tickets, NEW s \in Board,
             v = WithTicket(w, t, s)
      PROVE  v \in Images
  BY <1>2, PlacedType, BoardAssumption DEF Images, WithTicket
<1>3. ASSUME NEW h \in Holds,
             v = WithHold(w, h)
      PROVE  v \in Images
  BY <1>3 DEF Images, Config, WithHold
<1> QED
  BY <1>1, <1>2, <1>3 DEF Arrivals, Clean

\* A snapshot keeps that shape too.
LEMMA SnapshotType ==
    ASSUME NEW w \in Images
    PROVE  Snapshot(w) \in Images
  BY DEF Snapshot, Images

-----------------------------------------------------------------------------
(* Type correctness *)

\* A command that exits leaves well-typed control state.
LEMMA EndType ==
    ASSUME TypeOK, NEW p \in Procs, NEW how \in Points, End(p, how)
    PROVE  /\ lock' \in Procs \cup {NoProc}
           /\ pc' \in [Procs -> Points]
           /\ mem' \in [Procs -> Mem]
  BY FreshType DEF TypeOK, End, Goto, Remember

\* A command that stores a well-typed record keeps the memory well typed.
LEMMA RememberType ==
    ASSUME TypeOK, NEW p \in Procs, NEW m \in Mem, Remember(p, m)
    PROVE  mem' \in [Procs -> Mem]
  BY DEF TypeOK, Remember

LEMMA FileDoneType ==
    ASSUME TypeOK, NEW p \in Procs, NEW t \in Tickets, FileDone(p, t)
    PROVE  /\ pc' \in [Procs -> Points]
           /\ mem' \in [Procs -> Mem]
<1>1. mem[p] \in Mem
  BY DEF TypeOK
<1>2. [mem[p] EXCEPT !.left = mem[p].left \ {t}, !.cur = {}] \in Mem
  BY <1>1 DEF Mem
<1> QED
  BY <1>2, RememberType DEF FileDone, Goto, TypeOK, Points

\* Counting the claims of a work tree gives natural numbers.
LEMMA ClaimsInType ==
    ASSUME TypeOK, NEW tr
    PROVE  ClaimsIn(tr) \in [Tickets -> Nat]
  BY DEF TypeOK, ClaimsIn

LEMMA BecomesType ==
    ASSUME TypeOK, NEW w \in Images, Becomes(w)
    PROVE  /\ tree' \in [Tickets -> Copies]
           /\ head' \in [Tickets -> Copies]
           /\ cfg' \in Config
           /\ headCfg' \in Config
           /\ claims' \in [Tickets -> Nat]
  BY ClaimsInType DEF Becomes, Images

\* Everything a refresh, a sync or a push can leave behind is well typed.
LEMMA OutcomesType ==
    ASSUME TypeOK
    PROVE  /\ Image \in Images
           /\ Snapshot(Image) \in Images
           /\ Arrivals(Image) \subseteq Images
           /\ Synced \subseteq Images
<1>1. Image \in Images
  BY DEF TypeOK, Image, Images
<1>2. Snapshot(Image) \in Images
  BY <1>1, SnapshotType
<1>3. Arrivals(Image) \subseteq Images /\ Arrivals(Snapshot(Image)) \subseteq Images
  BY <1>1, <1>2, ArrivalsType
<1>4. {Snapshot(v) : v \in Arrivals(Image)} \subseteq Images
  BY <1>3, SnapshotType
<1>5. Synced \subseteq Images
  BY <1>3, <1>4 DEF Synced
<1> QED
  BY <1>1, <1>2, <1>3, <1>5

LEMMA TypeInit == Init => TypeOK
<1> SUFFICES ASSUME Init PROVE TypeOK
  OBVIOUS
<1>1. tree \in [Tickets -> Copies]
  BY PlacedType, BoardAssumption DEF Init
<1>2. pc \in [Procs -> Points]
  BY DEF Init, Points, Ended
<1>3. cfg \in Config
  BY DEF Init, Config, Holds
<1> QED
  BY <1>1, <1>2, <1>3, FreshType, ReposAssumption DEF Init, TypeOK

LEMMA TypeNext == TypeOK /\ [Next]_vars => TypeOK'
<1> SUFFICES ASSUME TypeOK, [Next]_vars PROVE TypeOK'
  OBVIOUS
<1> USE DEF Ended, Points
<1>1. CASE UNCHANGED vars
  BY <1>1 DEF TypeOK, vars, store
<1>2. ASSUME NEW p \in Procs, Step(p) \/ Die(p)
      PROVE  TypeOK'
  <2>a. cmd[p] \in CommandSet
    BY CommandsAssumption DEF TypeOK
  <2>b. mem[p] \in Mem
    BY DEF TypeOK
  <2>c. /\ tree \in [Tickets -> Copies] /\ head \in [Tickets -> Copies]
        /\ cfg \in Config /\ cfg.autoCommit \in BOOLEAN
    BY DEF TypeOK, Config
  <2>1. CASE \/ MarkRefused(p) \/ ClaimNotStarted(p) \/ ClaimRefused(p)
             \/ CommitRefused(p) \/ CreateRefused(p) \/ ConfigUnchanged(p)
             \/ SyncNotStarted(p) \/ RepairRefused(p)
             \/ Die(p)
    <3>1. PICK how \in Points : End(p, how)
      BY <2>1 DEF MarkRefused, ClaimNotStarted, ClaimRefused, CommitRefused,
                  CreateRefused, ConfigUnchanged, SyncNotStarted, RepairRefused,
                  Die
    <3>2. UNCHANGED <<store, repo, cmd>>
      BY <2>1 DEF MarkRefused, ClaimNotStarted, ClaimRefused, CommitRefused,
                  CreateRefused, ConfigUnchanged, SyncNotStarted, RepairRefused,
                  Die
    <3> QED
      BY <3>1, <3>2, EndType DEF TypeOK, store
  <2>2. CASE MarkAsClaim(p)
    <3>1. TodoMembers(cmd[p].ids) \in SUBSET Tickets
      BY <2>a DEF TodoMembers, CommandSet
    <3>a. [mem[p] EXCEPT !.wasTodo = TodoMembers(cmd[p].ids)] \in Mem
      BY <2>b, <3>1 DEF Mem
    <3>2. mem' \in [Procs -> Mem]
      BY <2>2, <3>a, RememberType DEF MarkAsClaim
    <3> QED
      BY <2>2, <3>2 DEF MarkAsClaim, TypeOK, Goto, store
  <2>3. CASE MarkBegin(p)
    <3>a. [mem[p] EXCEPT !.auto = cfg.autoCommit, !.seen = tree,
                         !.targets = cmd[p].ids, !.left = cmd[p].ids] \in Mem
      BY <2>a, <2>b, <2>c DEF Mem, CommandSet
    <3>1. mem' \in [Procs -> Mem]
      BY <2>3, <3>a, RememberType DEF MarkBegin
    <3> QED
      BY <2>3, <3>1 DEF MarkBegin, TypeOK, Goto, store
  <2>4. CASE ClaimStart(p)
    <3>a. [mem[p] EXCEPT !.auto = cfg.autoCommit] \in Mem
      BY <2>b, <2>c DEF Mem
    <3>1. mem' \in [Procs -> Mem]
      BY <2>4, <3>a, RememberType DEF ClaimStart
    <3> QED
      BY <2>4, <3>1 DEF ClaimStart, TypeOK, Goto, store
  <2>5. CASE ClaimNamed(p)
    <3>a. [mem[p] EXCEPT !.seen = tree, !.targets = cmd[p].ids,
                         !.left = cmd[p].ids] \in Mem
      BY <2>a, <2>b, <2>c DEF Mem, CommandSet
    <3>1. mem' \in [Procs -> Mem]
      BY <2>5, <3>a, RememberType DEF ClaimNamed
    <3> QED
      BY <2>5, <3>1 DEF ClaimNamed, TypeOK, Goto, store
  <2>6. CASE ClaimNext(p)
    <3>1. PICK t \in Tickets :
            Remember(p, [mem[p] EXCEPT !.seen = tree, !.targets = {t},
                                       !.left = {t}])
      BY <2>6 DEF ClaimNext, NextCandidates
    <3>a. [mem[p] EXCEPT !.seen = tree, !.targets = {t}, !.left = {t}] \in Mem
      BY <2>b, <2>c DEF Mem
    <3>2. mem' \in [Procs -> Mem]
      BY <3>1, <3>a, RememberType
    <3> QED
      BY <2>6, <3>2 DEF ClaimNext, TypeOK, Goto, store
  <2>7. ASSUME NEW t \in Tickets, WriteFile(p, t)
        PROVE  TypeOK'
    <3>1. OldLoc(p, t) \in Locs /\ NewStatus(p) \in Statuses
      BY <2>a DEF OldLoc, LocOf, Locs, NewStatus, Statuses, CommandSet
    <3>2. tree' \in [Tickets -> Copies]
      BY <2>7, <2>c, <3>1 DEF WriteFile, Copies
    <3>3. claims' \in [Tickets -> Nat]
      BY <2>7, ClaimsInType DEF WriteFile
    <3>4. mem' \in [Procs -> Mem] /\ pc' \in [Procs -> Points]
      <4>1. CASE FileDone(p, t)
        BY <4>1, FileDoneType
      <4>2. CASE Remember(p, [mem[p] EXCEPT !.cur = {t}]) /\ Goto(p, "move")
        <5>1. [mem[p] EXCEPT !.cur = {t}] \in Mem
          BY <2>b DEF Mem
        <5> QED
          BY <4>2, <5>1, RememberType DEF Goto, TypeOK
      <4> QED
        BY <2>7, <4>1, <4>2 DEF WriteFile
    <3> QED
      BY <2>7, <3>2, <3>3, <3>4 DEF WriteFile, TypeOK
  <2>8. ASSUME NEW t \in Tickets, Rename(p, t)
        PROVE  TypeOK'
    <3>1. OldLoc(p, t) \in Locs /\ NewLoc(p, t) \in Locs
      BY DEF OldLoc, NewLoc, LocOf, Locs, TerminalLocation
    <3>2. tree[t] \in Copies
      BY <2>c
    <3>3. Moved(p, t) \in Copies
      BY <3>1, <3>2 DEF Moved, Copies
    <3>4. tree' \in [Tickets -> Copies]
      BY <2>8, <2>c, <3>3 DEF Rename
    <3>5. claims' \in [Tickets -> Nat]
      BY <2>8, ClaimsInType DEF Rename
    <3>6. mem' \in [Procs -> Mem] /\ pc' \in [Procs -> Points]
      BY <2>8, FileDoneType DEF Rename
    <3> QED
      BY <2>8, <3>4, <3>5, <3>6 DEF Rename, TypeOK
  <2>9. CASE Commit(p)
    <3>1. Committed(p) \in [Tickets -> Copies]
      BY <2>c DEF Committed, Copies
    <3>2. /\ mem' \in [Procs -> Mem] /\ pc' \in [Procs -> Points]
          /\ lock' \in Procs \cup {NoProc}
      <4>1. CASE End(p, "ok")
        BY <4>1, EndType
      <4>2. CASE /\ Goto(p, "pushSelect")
                 /\ lock' = NoProc
                 /\ Remember(p, [mem[p] EXCEPT !.seen = Fresh.seen, !.targets = {}])
        <5>1. Fresh.seen \in [Tickets -> Copies]
          BY PlacedType DEF Fresh
        <5>a. [mem[p] EXCEPT !.seen = Fresh.seen, !.targets = {}] \in Mem
          BY <5>1, <2>b DEF Mem
        <5>2. mem' \in [Procs -> Mem]
          BY <4>2, <5>a, RememberType
        <5> QED
          BY <4>2, <5>2 DEF Goto, TypeOK
      <4> QED
        BY <2>9, <4>1, <4>2 DEF Commit
    <3> QED
      BY <2>9, <3>1, <3>2 DEF Commit, TypeOK
  <2>10. CASE CreateBegin(p)
    <3>a. PICK t \in Tickets : Remember(p, [mem[p] EXCEPT !.targets = {t}])
      BY <2>10 DEF CreateBegin
    <3>b. [mem[p] EXCEPT !.targets = {t}] \in Mem
      BY <2>b DEF Mem
    <3>1. mem' \in [Procs -> Mem]
      BY <3>a, <3>b, RememberType
    <3> QED
      BY <2>10, <3>1 DEF CreateBegin, TypeOK, Goto, store
  <2>11. ASSUME NEW t \in Tickets, CreateFile(p, t)
         PROVE  TypeOK'
    <3>1. TerminalLocation(cmd[p].to) \in Locs /\ cmd[p].to \in Statuses
      BY <2>a DEF TerminalLocation, Locs, CommandSet
    <3>2. tree' \in [Tickets -> Copies]
      BY <2>11, <2>c, <3>1 DEF CreateFile, Copies
    <3>3. claims' \in [Tickets -> Nat]
      BY <2>11, ClaimsInType DEF CreateFile
    <3> QED
      BY <2>11, <3>2, <3>3, EndType DEF CreateFile, TypeOK
  <2>12. CASE ConfigRewrite(p)
    <3>1. Wanted(p, cfg) \in Config
      BY <2>a, <2>c DEF Wanted, Config, CommandSet
    <3>a. [mem[p] EXCEPT !.saved = cfg, !.auto = cfg.autoCommit] \in Mem
      BY <2>b, <2>c DEF Mem
    <3>2. mem' \in [Procs -> Mem]
      BY <2>12, <3>a, RememberType DEF ConfigRewrite, PrevBytes
    <3> QED
      BY <2>12, <3>1, <3>2 DEF ConfigRewrite, TypeOK, Goto
  <2>13. CASE ConfigDone(p)
    BY <2>13, EndType DEF ConfigDone, TypeOK
  <2>14. CASE ConfigRestore(p)
    <3>1. mem[p].saved \in Config
      BY DEF TypeOK, Mem
    <3> QED
      BY <2>14, <3>1, EndType DEF ConfigRestore, TypeOK
  <2>15. CASE SyncStart(p)
    BY <2>15 DEF SyncStart, TypeOK, Goto, store
  <2>16. CASE RootTarget(p)
    <3>a. [mem[p] EXCEPT !.parts = cfg.autoCommit] \in Mem
      BY <2>b, <2>c DEF Mem
    <3>1. mem' \in [Procs -> Mem]
      BY <2>16, <3>a, RememberType DEF RootTarget
    <3> QED
      BY <2>16, <3>1 DEF RootTarget, TypeOK, Goto, store
  <2>17. CASE AcquireSyncLocks(p)
    BY <2>17 DEF AcquireSyncLocks, TypeOK, Goto, store
  <2>18. CASE Integrate(p)
    <3>1. PICK w \in Images : Becomes(w)
      BY <2>18, OutcomesType DEF Integrate
    <3> QED
      BY <2>18, <3>1, BecomesType DEF Integrate, AfterIntegrate, Goto, TypeOK
  <2>19. CASE ResumeIntegrate(p)
    <3>1. PICK w \in Images : Becomes(w)
      BY <2>19, OutcomesType DEF ResumeIntegrate
    <3> QED
      BY <2>19, <3>1, BecomesType DEF ResumeIntegrate, AfterIntegrate, Goto, TypeOK
  <2>20. CASE IntegratePauses(p) \/ IntegrateFails(p)
    <3>1. PICK w \in Images : Becomes(w)
      BY <2>20, OutcomesType DEF IntegratePauses, IntegrateFails
    <3> QED
      BY <2>20, <3>1, BecomesType, EndType DEF IntegratePauses, IntegrateFails, TypeOK
  <2>21. CASE Push(p)
    <3>1. PICK w \in Images : Becomes(w)
      BY <2>21, OutcomesType DEF Push
    <3> QED
      BY <2>21, <3>1, BecomesType, EndType DEF Push, TypeOK
  <2>22. CASE RepairBegin(p)
    BY <2>22 DEF RepairBegin, TypeOK, Goto, store
  <2>23. ASSUME NEW t \in Tickets, RepairWrite(p, t)
         PROVE  TypeOK'
    <3>1. PICK l \in Drifted(tree[t]) :
            /\ tree' = [tree EXCEPT ![t][TerminalLocation(tree[t][l])] = tree[t][l]]
            /\ Remember(p, [mem[p] EXCEPT !.cur = {t},
                                          !.seen[t] = Only(l, tree[t][l])])
      BY <2>23 DEF RepairWrite
    <3>2. /\ l \in Locs /\ tree[t][l] \in Statuses
          /\ TerminalLocation(tree[t][l]) \in Locs
      BY <2>c DEF Drifted, Copies, Locs, TerminalLocation
    <3>3. tree' \in [Tickets -> Copies]
      BY <2>c, <3>1, <3>2 DEF Copies
    <3>4. claims' \in [Tickets -> Nat]
      BY <2>23, ClaimsInType DEF RepairWrite
    <3>5. Only(l, tree[t][l]) \in Copies
      BY <3>2 DEF Only, Copies
    <3>6. [mem[p] EXCEPT !.cur = {t}, !.seen[t] = Only(l, tree[t][l])] \in Mem
      BY <2>b, <3>5 DEF Mem
    <3>7. mem' \in [Procs -> Mem]
      BY <3>1, <3>6, RememberType
    <3> QED
      BY <2>23, <3>3, <3>4, <3>7 DEF RepairWrite, Goto, TypeOK
  <2>24. ASSUME NEW t \in Tickets, RepairRemove(p, t)
         PROVE  TypeOK'
    <3>1. OldLoc(p, t) \in Locs
      BY DEF OldLoc, LocOf, Locs
    <3>2. tree' \in [Tickets -> Copies]
      BY <2>24, <2>c, <3>1 DEF RepairRemove, Copies
    <3>3. claims' \in [Tickets -> Nat]
      BY <2>24, ClaimsInType DEF RepairRemove
    <3> QED
      BY <2>24, <3>2, <3>3 DEF RepairRemove, Goto, TypeOK
  <2>25. ASSUME NEW t \in Tickets, RepairCommit(p, t)
         PROVE  TypeOK'
    <3>1. Fresh.seen \in [Tickets -> Copies]
      BY PlacedType DEF Fresh
    <3>2. [mem[p] EXCEPT !.cur = {}, !.seen = Fresh.seen] \in Mem
      BY <2>b, <3>1 DEF Mem
    <3>3. mem' \in [Procs -> Mem]
      BY <2>25, <3>2, RememberType DEF RepairCommit
    <3>4. head' \in [Tickets -> Copies]
      BY <2>25, <2>c DEF RepairCommit
    <3> QED
      BY <2>25, <3>3, <3>4 DEF RepairCommit, Goto, TypeOK
  <2>26. CASE RepairDone(p)
    BY <2>26, EndType DEF RepairDone, Goto, TypeOK, store
  <2> QED
    BY <1>2, <2>1, <2>2, <2>3, <2>4, <2>5, <2>6, <2>7, <2>8, <2>9, <2>10, <2>11,
       <2>12, <2>13, <2>14, <2>15, <2>16, <2>17, <2>18, <2>19, <2>20, <2>21, <2>22,
       <2>23, <2>24, <2>25, <2>26 DEF Step
<1> QED
  BY <1>1, <1>2 DEF Next

\* Every reachable state is well typed.
THEOREM TypeCorrect == Spec => []TypeOK
  BY TypeInit, TypeNext, PTL DEF Spec

-----------------------------------------------------------------------------
(* The scope flock *)

\* A command that exits gives its flock back.
LEMMA EndFlock ==
    ASSUME TypeOK, FlockHeld, NEW p \in Procs, NEW how \in Ended, End(p, how)
    PROVE  FlockHeld'
  BY NoProcAssumption
     DEF TypeOK, FlockHeld, End, Goto, Remember, Ended, Critical, Fresh

\* A command that moves from a point outside the critical section to another
\* one leaves the flock discipline alone.
LEMMA WalkFlock ==
    ASSUME TypeOK, FlockHeld, NEW p \in Procs, NEW there, Goto(p, there),
           pc[p] \notin Critical \cup {"integrate", "push"},
           there \notin Critical \cup {"integrate", "push"},
           NEW m, UNCHANGED mem \/ Remember(p, m), UNCHANGED lock
    PROVE  FlockHeld'
  BY DEF TypeOK, FlockHeld, Goto, Remember, Critical

\* A command that takes the free flock enters its critical section with it.
LEMMA EnterFlock ==
    ASSUME TypeOK, FlockHeld, NEW p \in Procs, NEW there \in Critical,
           Goto(p, there), LockFree, lock' = p,
           NEW m, UNCHANGED mem \/ Remember(p, m)
    PROVE  FlockHeld'
  BY NoProcAssumption
     DEF TypeOK, FlockHeld, LockFree, Goto, Remember, Critical

LEMMA FlockNext == TypeOK /\ FlockHeld /\ [Next]_vars => FlockHeld'
<1> SUFFICES ASSUME TypeOK, FlockHeld, [Next]_vars PROVE FlockHeld'
  OBVIOUS
<1>1. CASE UNCHANGED vars
  BY <1>1 DEF FlockHeld, vars
<1>2. ASSUME NEW p \in Procs, Step(p) \/ Die(p)
      PROVE  FlockHeld'
  <2>1. CASE \/ MarkRefused(p) \/ ClaimNotStarted(p) \/ ClaimRefused(p)
             \/ CommitRefused(p) \/ CreateRefused(p) \/ ConfigUnchanged(p)
             \/ SyncNotStarted(p) \/ RepairRefused(p) \/ Die(p)
             \/ ConfigDone(p) \/ ConfigRestore(p)
             \/ IntegratePauses(p) \/ IntegrateFails(p) \/ Push(p)
             \/ \E t \in Tickets : CreateFile(p, t)
    <3>1. PICK how \in Ended : End(p, how)
      BY <2>1 DEF MarkRefused, ClaimNotStarted, ClaimRefused, CommitRefused,
                  CreateRefused, ConfigUnchanged, SyncNotStarted, Die,
                  ConfigDone, ConfigRestore, IntegratePauses, IntegrateFails, Push,
                  CreateFile, RepairRefused, Ended
    <3> QED
      BY <3>1, EndFlock
  <2>2. CASE MarkAsClaim(p) \/ ClaimStart(p) \/ SyncStart(p) \/ RootTarget(p)
    <3>1. PICK there \in {"claim", "select", "claimLock", "lockRoot", "pushLock"} :
            Goto(p, there)
      BY <2>2 DEF MarkAsClaim, ClaimStart, SyncStart, RootTarget
    <3>2. pc[p] \in {"start", "claim", "select", "pushSelect"}
      BY <2>2 DEF MarkAsClaim, ClaimStart, SyncStart, RootTarget, At
    <3>3. (UNCHANGED mem \/ \E m : Remember(p, m)) /\ UNCHANGED lock
      BY <2>2 DEF MarkAsClaim, ClaimStart, SyncStart, RootTarget
    <3> QED
      BY <3>1, <3>2, <3>3, WalkFlock DEF Critical
  <2>3. CASE MarkBegin(p) \/ ClaimNamed(p) \/ ClaimNext(p) \/ CreateBegin(p)
             \/ ConfigRewrite(p) \/ RepairBegin(p)
    <3>1. PICK there \in Critical : Goto(p, there)
      BY <2>3 DEF MarkBegin, ClaimNamed, ClaimNext, CreateBegin, ConfigRewrite,
                  RepairBegin, Critical
    <3>2. LockFree /\ lock' = p /\ (UNCHANGED mem \/ \E m : Remember(p, m))
      BY <2>3 DEF MarkBegin, ClaimNamed, ClaimNext, CreateBegin, ConfigRewrite,
                  RepairBegin
    <3> QED
      BY <3>1, <3>2, EnterFlock
  <2>4. CASE \E t \in Tickets : \/ WriteFile(p, t) \/ Rename(p, t) \/ RepairWrite(p, t)
                                \/ RepairRemove(p, t) \/ RepairCommit(p, t)
    <3>1. PICK there \in Critical : Goto(p, there)
      BY <2>4, ZenonT(60) DEF WriteFile, Rename, FileDone, RepairWrite, RepairRemove, RepairCommit,
                  Critical
    <3>2. /\ pc[p] \in Critical /\ UNCHANGED lock
          /\ UNCHANGED mem \/ \E m : Remember(p, m)
      BY <2>4 DEF WriteFile, Rename, FileDone, RepairWrite, RepairRemove, RepairCommit,
                  Critical
    <3> QED
      BY <3>1, <3>2, SMTT(40) DEF TypeOK, FlockHeld, Goto, Remember, Critical
  <2>5. CASE Commit(p)
    <3>1. CASE End(p, "ok")
      BY <3>1, EndFlock DEF Ended
    <3>2. CASE /\ Goto(p, "pushSelect") /\ lock' = NoProc /\ \E m : Remember(p, m)
      <4>1. lock = p
        BY <2>5 DEF Commit, FlockHeld, Critical
      <4> QED
        BY <3>2, <4>1, NoProcAssumption
           DEF TypeOK, FlockHeld, Goto, Remember, Critical
    <3> QED
      BY <2>5, <3>1, <3>2 DEF Commit
  <2>6. CASE AcquireSyncLocks(p)
    BY <2>6, NoProcAssumption
       DEF AcquireSyncLocks, LockFree, TypeOK, FlockHeld, Goto, Critical
  <2>7. CASE Integrate(p) \/ ResumeIntegrate(p)
    <3>1. pc[p] = "integrate" /\ AfterIntegrate(p)
      BY <2>7 DEF Integrate, ResumeIntegrate
    <3> QED
      BY <3>1, NoProcAssumption
         DEF AfterIntegrate, TypeOK, FlockHeld, Goto, Critical
  <2>8. CASE RepairDone(p)
    <3>1. CASE End(p, "ok")
      BY <3>1, EndFlock DEF Ended
    <3>2. CASE ~End(p, "ok")
      <4>1. /\ lock = p /\ UNCHANGED mem
            /\ \/ Goto(p, "push") /\ UNCHANGED lock
               \/ Goto(p, "claimLock") /\ lock' = NoProc
        BY <2>8, <3>2 DEF RepairDone, FlockHeld, Critical
      <4> QED
        BY <4>1, NoProcAssumption DEF TypeOK, FlockHeld, Goto, Critical
    <3> QED
      BY <3>1, <3>2
  <2> QED
    BY <1>2, <2>1, <2>2, <2>3, <2>4, <2>5, <2>6, <2>7, <2>8 DEF Step
<1> QED
  BY <1>1, <1>2 DEF Next

\* A command that writes, commits or rewrites tk.cue owns the scope flock, and a
\* flock is never left behind.
THEOREM FlockDiscipline == Spec => []FlockHeld
<1>1. Init => FlockHeld
  BY NoProcAssumption DEF Init, FlockHeld, Critical
<1> QED
  BY <1>1, FlockNext, TypeCorrect, PTL DEF Spec

-----------------------------------------------------------------------------
(* Claims *)

\* A step of one command leaves the control state of the others alone, and a
\* command never goes back to its start.
LEMMA OthersKeep ==
    ASSUME TypeOK, NEW p \in Procs, Step(p) \/ Die(p)
    PROVE  /\ \A q \in Procs \ {p} : pc'[q] = pc[q] /\ mem'[q] = mem[q]
           /\ cmd' = cmd
           /\ pc'[p] # "start"
<1>1. \/ \E how \in Ended : End(p, how)
      \/ /\ \E there \in Points \ {"start"} : Goto(p, there)
         /\ UNCHANGED mem \/ \E m : Remember(p, m)
  BY ZenonT(60) DEF Step, Die, MarkRefused, MarkAsClaim, MarkBegin, ClaimStart, ClaimNotStarted,
         ClaimNamed, ClaimNext, ClaimRefused, WriteFile, Rename, FileDone,
         Commit, CommitRefused, CreateBegin, CreateRefused, CreateFile, ConfigUnchanged,
         ConfigRewrite, ConfigDone, ConfigRestore, SyncStart, SyncNotStarted, RootTarget,
         AcquireSyncLocks, Integrate, ResumeIntegrate, IntegratePauses, IntegrateFails,
         Push, AfterIntegrate, RepairBegin, RepairRefused, RepairWrite, RepairRemove,
         RepairCommit, RepairDone, Ended, Points
<1>2. cmd' = cmd
  BY ZenonT(60) DEF Step, Die, MarkRefused, MarkAsClaim, MarkBegin, ClaimStart, ClaimNotStarted,
         ClaimNamed, ClaimNext, ClaimRefused, WriteFile, Rename,
         Commit, CommitRefused, CreateBegin, CreateRefused, CreateFile, ConfigUnchanged,
         ConfigRewrite, ConfigDone, ConfigRestore, SyncStart, SyncNotStarted, RootTarget,
         AcquireSyncLocks, Integrate, ResumeIntegrate, IntegratePauses, IntegrateFails,
         Push, RepairBegin, RepairRefused, RepairWrite, RepairRemove, RepairCommit,
         RepairDone
<1> QED
  BY <1>1, <1>2, SMTT(60) DEF TypeOK, End, Goto, Remember, Ended, Points

\* A command that exits has no current file.
LEMMA EndLocals ==
    ASSUME TypeOK, NEW p \in Procs, NEW how \in Ended, End(p, how)
    PROVE  mem'[p] = Fresh /\ pc'[p] = how
  BY DEF TypeOK, End, Goto, Remember

\* What a command remembers is what it stored.
LEMMA Remembered ==
    ASSUME TypeOK, NEW p \in Procs, NEW m, Remember(p, m)
    PROVE  mem'[p] = m
  BY DEF TypeOK, Remember

\* The locals a command has after each action that changes them.
LEMMA MemAfterMark ==
    ASSUME TypeOK, NEW p \in Procs
    PROVE  /\ MarkAsClaim(p) => mem'[p].cur = mem[p].cur
           /\ MarkBegin(p) => /\ mem'[p].cur = mem[p].cur
                              /\ mem'[p].wasTodo = mem[p].wasTodo
                              /\ mem'[p].seen = tree
                              /\ mem'[p].left = cmd[p].ids
<1>a. mem[p] \in Mem
  BY DEF TypeOK
<1>1. ASSUME MarkAsClaim(p)
      PROVE  mem'[p].cur = mem[p].cur
  <2>1. mem'[p] = [mem[p] EXCEPT !.wasTodo = TodoMembers(cmd[p].ids)]
    BY <1>1, Remembered DEF MarkAsClaim
  <2> QED
    BY <1>a, <2>1 DEF Mem
<1>2. ASSUME MarkBegin(p)
      PROVE  /\ mem'[p].cur = mem[p].cur
             /\ mem'[p].wasTodo = mem[p].wasTodo
             /\ mem'[p].seen = tree
             /\ mem'[p].left = cmd[p].ids
  <2>1. mem'[p] = [mem[p] EXCEPT !.auto = cfg.autoCommit, !.seen = tree,
                                 !.targets = cmd[p].ids, !.left = cmd[p].ids]
    BY <1>2, Remembered DEF MarkBegin
  <2> QED
    BY <1>a, <2>1 DEF Mem
<1> QED
  BY <1>1, <1>2

LEMMA MemAfterClaim ==
    ASSUME TypeOK, NEW p \in Procs
    PROVE  /\ ClaimStart(p) => /\ mem'[p].cur = mem[p].cur
                               /\ mem'[p].wasTodo = mem[p].wasTodo
           /\ ClaimNamed(p) => /\ mem'[p].cur = mem[p].cur
                               /\ mem'[p].wasTodo = mem[p].wasTodo
                               /\ mem'[p].seen = tree
                               /\ mem'[p].left = cmd[p].ids
           /\ ClaimNext(p) => \E t \in NextCandidates :
                               /\ mem'[p].cur = mem[p].cur
                               /\ mem'[p].wasTodo = mem[p].wasTodo
                               /\ mem'[p].seen = tree
                               /\ mem'[p].left = {t}
                               /\ mem'[p].targets = {t}
<1>a. mem[p] \in Mem
  BY DEF TypeOK
<1>1. ASSUME ClaimStart(p)
      PROVE  mem'[p].cur = mem[p].cur /\ mem'[p].wasTodo = mem[p].wasTodo
  <2>1. mem'[p] = [mem[p] EXCEPT !.auto = cfg.autoCommit]
    BY <1>1, Remembered DEF ClaimStart
  <2> QED
    BY <1>a, <2>1 DEF Mem
<1>2. ASSUME ClaimNamed(p)
      PROVE  /\ mem'[p].cur = mem[p].cur
             /\ mem'[p].wasTodo = mem[p].wasTodo
             /\ mem'[p].seen = tree
             /\ mem'[p].left = cmd[p].ids
  <2>1. mem'[p] = [mem[p] EXCEPT !.seen = tree, !.targets = cmd[p].ids,
                                 !.left = cmd[p].ids]
    BY <1>2, Remembered DEF ClaimNamed
  <2> QED
    BY <1>a, <2>1 DEF Mem
<1>3. ASSUME ClaimNext(p)
      PROVE  \E t \in NextCandidates : /\ mem'[p].cur = mem[p].cur
                                       /\ mem'[p].wasTodo = mem[p].wasTodo
                                       /\ mem'[p].seen = tree
                                       /\ mem'[p].left = {t}
                                       /\ mem'[p].targets = {t}
  <2>1. PICK t \in NextCandidates :
          mem'[p] = [mem[p] EXCEPT !.seen = tree, !.targets = {t}, !.left = {t}]
    BY <1>3, Remembered DEF ClaimNext
  <2> QED
    BY <1>a, <2>1 DEF Mem
<1> QED
  BY <1>1, <1>2, <1>3

LEMMA MemAfterOther ==
    ASSUME TypeOK, NEW p \in Procs
    PROVE  /\ (\/ RootTarget(p) \/ ConfigRewrite(p) \/ CreateBegin(p)
               \/ Commit(p) /\ ~End(p, "ok"))
                => mem'[p].cur = mem[p].cur /\ mem'[p].wasTodo = mem[p].wasTodo
           /\ ConfigRewrite(p) => mem'[p].saved = cfg
           /\ CreateBegin(p) => \E t \in Tickets : /\ tree[t] = Nowhere
                                                   /\ mem'[p].targets = {t}
<1>a. mem[p] \in Mem
  BY DEF TypeOK
<1>1. ASSUME RootTarget(p)
      PROVE  mem'[p].cur = mem[p].cur /\ mem'[p].wasTodo = mem[p].wasTodo
  <2>1. mem'[p] = [mem[p] EXCEPT !.parts = cfg.autoCommit]
    BY <1>1, Remembered DEF RootTarget
  <2> QED
    BY <1>a, <2>1 DEF Mem
<1>2. ASSUME ConfigRewrite(p)
      PROVE  /\ mem'[p].cur = mem[p].cur /\ mem'[p].wasTodo = mem[p].wasTodo
             /\ mem'[p].saved = cfg
  <2>1. mem'[p] = [mem[p] EXCEPT !.saved = cfg, !.auto = cfg.autoCommit]
    BY <1>2, Remembered DEF ConfigRewrite, PrevBytes
  <2> QED
    BY <1>a, <2>1 DEF Mem
<1>3. ASSUME CreateBegin(p)
      PROVE  \E t \in Tickets : /\ tree[t] = Nowhere
                                /\ mem'[p].cur = mem[p].cur
                                /\ mem'[p].wasTodo = mem[p].wasTodo
                                /\ mem'[p].targets = {t}
  <2>1. PICK t \in Tickets : /\ tree[t] = Nowhere
                             /\ mem'[p] = [mem[p] EXCEPT !.targets = {t}]
    BY <1>3, Remembered DEF CreateBegin
  <2> QED
    BY <1>a, <2>1 DEF Mem
<1>4. ASSUME Commit(p), ~End(p, "ok")
      PROVE  mem'[p].cur = mem[p].cur /\ mem'[p].wasTodo = mem[p].wasTodo
  <2>1. mem'[p] = [mem[p] EXCEPT !.seen = Fresh.seen, !.targets = {}]
    BY <1>4, Remembered DEF Commit
  <2> QED
    BY <1>a, <2>1 DEF Mem
<1> QED
  BY <1>1, <1>2, <1>3, <1>4

\* Writing one file: it is finished, or it is the current file of a rename.
LEMMA MemAfterFile ==
    ASSUME TypeOK, NEW p \in Procs, NEW t \in Tickets,
           WriteFile(p, t) \/ Rename(p, t)
    PROVE  /\ mem'[p].seen = mem[p].seen
           /\ mem'[p].targets = mem[p].targets
           /\ mem'[p].wasTodo = mem[p].wasTodo
           /\ \/ /\ pc'[p] \in {"write", "commit"}
                 /\ mem'[p].cur = {}
                 /\ mem'[p].left = mem[p].left \ {t}
                 /\ WriteFile(p, t) => NewLoc(p, t) = OldLoc(p, t)
              \/ /\ pc'[p] = "move"
                 /\ mem'[p].cur = {t}
                 /\ mem'[p].left = mem[p].left
                 /\ WriteFile(p, t)
                 /\ NewLoc(p, t) # OldLoc(p, t)
<1>a. mem[p] \in Mem
  BY DEF TypeOK
<1>1. CASE FileDone(p, t) /\ (WriteFile(p, t) => NewLoc(p, t) = OldLoc(p, t))
  <2>1. mem'[p] = [mem[p] EXCEPT !.left = mem[p].left \ {t}, !.cur = {}]
    BY <1>1, Remembered DEF FileDone
  <2>2. pc'[p] \in {"write", "commit"}
    BY <1>1 DEF FileDone, Goto, TypeOK
  <2> QED
    BY <1>a, <1>1, <2>1, <2>2 DEF Mem
<1>2. CASE /\ WriteFile(p, t) /\ NewLoc(p, t) # OldLoc(p, t)
           /\ Remember(p, [mem[p] EXCEPT !.cur = {t}]) /\ Goto(p, "move")
  <2>1. mem'[p] = [mem[p] EXCEPT !.cur = {t}]
    BY <1>2, Remembered
  <2>2. pc'[p] = "move"
    BY <1>2 DEF Goto, TypeOK
  <2> QED
    BY <1>a, <1>2, <2>1, <2>2 DEF Mem
<1>3. Rename(p, t) => FileDone(p, t) /\ ~WriteFile(p, t)
  BY DEF Rename, WriteFile
<1> QED
  BY <1>1, <1>2, <1>3 DEF WriteFile

\* A layout repair has one current file from its first half to its commit.
LEMMA MemAfterRepair ==
    ASSUME TypeOK, NEW p \in Procs, NEW t \in Tickets
    PROVE  /\ RepairWrite(p, t) => /\ mem'[p].cur = {t}
                                   /\ mem'[p].wasTodo = mem[p].wasTodo
           /\ RepairCommit(p, t) => /\ mem'[p].cur = {}
                                    /\ mem'[p].wasTodo = mem[p].wasTodo
<1>a. mem[p] \in Mem
  BY DEF TypeOK
<1>1. ASSUME RepairWrite(p, t)
      PROVE  mem'[p].cur = {t} /\ mem'[p].wasTodo = mem[p].wasTodo
  <2>1. PICK c : mem'[p] = [mem[p] EXCEPT !.cur = {t}, !.seen[t] = c]
    BY <1>1, Remembered DEF RepairWrite
  <2> QED
    BY <1>a, <2>1 DEF Mem
<1>2. ASSUME RepairCommit(p, t)
      PROVE  mem'[p].cur = {} /\ mem'[p].wasTodo = mem[p].wasTodo
  <2>1. mem'[p] = [mem[p] EXCEPT !.cur = {}, !.seen = Fresh.seen]
    BY <1>2, Remembered DEF RepairCommit
  <2> QED
    BY <1>a, <2>1 DEF Mem
<1> QED
  BY <1>1, <1>2

\* Every action keeps the invariant of the locals.
LEMMA LocalsNext == TypeOK /\ LocalsOK /\ [Next]_vars => LocalsOK'
<1> SUFFICES ASSUME TypeOK, LocalsOK, [Next]_vars PROVE LocalsOK'
  OBVIOUS
<1>1. CASE UNCHANGED vars
  BY <1>1 DEF LocalsOK, vars
<1>2. ASSUME NEW p \in Procs, Step(p) \/ Die(p)
      PROVE  LocalsOK'
  <2> DEFINE Moving == {"move", "repairRemove", "repairCommit"}
  <2>a. /\ pc[p] \notin Moving => mem[p].cur = {}
        /\ mem[p].wasTodo # {} => cmd[p].to = "in-progress"
    BY DEF LocalsOK
  <2>1. /\ IF pc'[p] \in Moving THEN \E t \in Tickets : mem'[p].cur = {t}
                              ELSE mem'[p].cur = {}
        /\ mem'[p].wasTodo # {} => cmd[p].to = "in-progress"
    <3>1. CASE MarkAsClaim(p)
      <4>1. cmd[p].to = "in-progress" /\ pc[p] = "start" /\ pc'[p] = "claim"
        BY <3>1 DEF MarkAsClaim, IsClaim, At, Goto, TypeOK
      <4> QED
        BY <3>1, <2>a, <4>1, MemAfterMark
    <3>2. CASE MarkBegin(p) \/ ClaimStart(p) \/ ClaimNamed(p) \/ ClaimNext(p)
               \/ CreateBegin(p) \/ ConfigRewrite(p) \/ RootTarget(p)
               \/ (Commit(p) /\ ~End(p, "ok"))
      <4>1. pc[p] \notin Moving /\ pc'[p] \notin Moving
        BY <3>2 DEF MarkBegin, ClaimStart, ClaimNamed, ClaimNext, CreateBegin,
                    ConfigRewrite, RootTarget, Commit, At, Goto, TypeOK
      <4>2. mem'[p].cur = mem[p].cur /\ mem'[p].wasTodo = mem[p].wasTodo
        <5>1. CASE MarkBegin(p)
          BY <5>1, MemAfterMark
        <5>2. CASE ClaimStart(p) \/ ClaimNamed(p) \/ ClaimNext(p)
          BY <5>2, MemAfterClaim
        <5>3. CASE \/ RootTarget(p) \/ ConfigRewrite(p) \/ CreateBegin(p)
                   \/ Commit(p) /\ ~End(p, "ok")
          BY <5>3, MemAfterOther
        <5> QED
          BY <3>2, <5>1, <5>2, <5>3
      <4> QED
        BY <2>a, <4>1, <4>2
    <3>3. CASE \/ SyncStart(p) \/ AcquireSyncLocks(p) \/ Integrate(p) \/ ResumeIntegrate(p)
               \/ RepairBegin(p) \/ (RepairDone(p) /\ ~End(p, "ok"))
      <4>1. pc[p] \notin Moving /\ pc'[p] \notin Moving /\ UNCHANGED mem
        BY <3>3 DEF SyncStart, AcquireSyncLocks, Integrate, ResumeIntegrate,
                    AfterIntegrate, RepairBegin, RepairDone, At, Goto, TypeOK
      <4> QED
        BY <2>a, <4>1
    <3>4. CASE \E t \in Tickets : WriteFile(p, t) \/ Rename(p, t)
      BY <3>4, <2>a, MemAfterFile
    <3>5. CASE \/ MarkRefused(p) \/ ClaimNotStarted(p) \/ ClaimRefused(p)
               \/ CommitRefused(p) \/ CreateRefused(p) \/ ConfigUnchanged(p)
               \/ SyncNotStarted(p) \/ RepairRefused(p)
               \/ (RepairDone(p) /\ End(p, "ok")) \/ Die(p)
               \/ ConfigDone(p) \/ ConfigRestore(p)
               \/ IntegratePauses(p) \/ IntegrateFails(p) \/ Push(p)
               \/ (Commit(p) /\ End(p, "ok"))
               \/ \E t \in Tickets : CreateFile(p, t)
      <4>1. \E how \in Ended : End(p, how)
        BY <3>5 DEF MarkRefused, ClaimNotStarted, ClaimRefused, CommitRefused,
                    CreateRefused, ConfigUnchanged, SyncNotStarted, Die,
                    ConfigDone, ConfigRestore, IntegratePauses, IntegrateFails, Push,
                    CreateFile, RepairRefused, Ended
      <4> QED
        BY <4>1, EndLocals DEF Fresh, Ended
    <3>6. CASE \E t \in Tickets : RepairWrite(p, t)
      <4>1. pc'[p] = "repairRemove"
        BY <3>6 DEF RepairWrite, Goto, TypeOK
      <4> QED
        BY <2>a, <3>6, <4>1, MemAfterRepair
    <3>7. CASE \E t \in Tickets : RepairRemove(p, t)
      <4>1. pc[p] = "repairRemove" /\ pc'[p] = "repairCommit" /\ UNCHANGED mem
        BY <3>7 DEF RepairRemove, Goto, TypeOK
      <4> QED
        BY <2>a, <4>1 DEF LocalsOK
    <3>8. CASE \E t \in Tickets : RepairCommit(p, t)
      <4>1. pc'[p] = "repair"
        BY <3>8 DEF RepairCommit, Goto, TypeOK
      <4> QED
        BY <2>a, <3>8, <4>1, MemAfterRepair
    <3> QED
      BY <1>2, <3>1, <3>2, <3>3, <3>4, <3>5, <3>6, <3>7, <3>8 DEF Step
  <2> QED
    BY <1>2, <2>1, OthersKeep DEF LocalsOK
<1> QED
  BY <1>1, <1>2 DEF Next

\* A claim survives a change of the work tree only in an in-progress file.
LEMMA ClaimsInFacts ==
    ASSUME TypeOK, NEW tr, NEW t \in Tickets
    PROVE  /\ ClaimsIn(tr)[t] \in {0, claims[t]}
           /\ ClaimsIn(tr)[t] # 0 => \E l \in Locs : tr[t][l] = "in-progress"
  BY DEF ClaimsIn, TypeOK

\* A single todo file is claimed by nobody.
LEMMA TodoIsFree ==
    ASSUME TypeOK, ClaimsCounted, NEW t \in Tickets,
           Single(tree[t]), StatusOf(tree[t]) = "todo"
    PROVE  claims[t] = 0
<1>1. \A l \in Locs : tree[t][l] # "in-progress"
  BY DEF Single, StatusOf, LocOf, Locs, Absent
<1> QED
  BY <1>1 DEF ClaimsCounted

\* A step that adds no claim keeps the invariant if what its command is about
\* to claim is free.
LEMMA NoClaimAdded ==
    ASSUME TypeOK, ClaimsCounted, ClaimExclusive, NEW p \in Procs,
           Step(p) \/ Die(p),
           \A t \in Tickets : claims'[t] \in {0, claims[t]},
           \A t \in Tickets : claims'[t] # 0 =>
               \E l \in Locs : tree'[t][l] = "in-progress",
           \A t \in Pending(p)' \cap Taken(p)' : claims'[t] = 0
    PROVE  (ClaimsCounted /\ ClaimExclusive)'
<1>1. \A q \in Procs \ {p} : Pending(q)' = Pending(q) /\ Taken(q)' = Taken(q)
  BY OthersKeep DEF Pending, Taken, MustBeTodo
<1>2. \A q \in Procs \ {p} : Pending(q) \subseteq Tickets
  BY DEF Pending, TypeOK, Mem
<1>3. \A q \in Procs \ {p} : \A t \in Pending(q)' \cap Taken(q)' : claims'[t] = 0
  BY <1>1, <1>2 DEF ClaimsCounted
<1>4. ClaimsCounted'
  BY <1>3 DEF ClaimsCounted
<1>5. ClaimExclusive'
  BY DEF ClaimExclusive
<1> QED
  BY <1>4, <1>5

LEMMA ClaimsNext ==
    TypeOK /\ FlockHeld /\ LocalsOK /\ ClaimsCounted /\ ClaimExclusive /\ [Next]_vars
      => (ClaimsCounted /\ ClaimExclusive)'
<1> SUFFICES ASSUME TypeOK, FlockHeld, LocalsOK, ClaimsCounted, ClaimExclusive,
                    [Next]_vars
             PROVE  (ClaimsCounted /\ ClaimExclusive)'
  OBVIOUS
<1>1. CASE UNCHANGED vars
  BY <1>1 DEF ClaimsCounted, ClaimExclusive, Pending, Taken, MustBeTodo, vars, store
<1>2. ASSUME NEW p \in Procs, Step(p) \/ Die(p)
      PROVE  (ClaimsCounted /\ ClaimExclusive)'
  <2>a. cmd' = cmd /\ cmd[p] \in CommandSet
    BY <1>2, OthersKeep, CommandsAssumption DEF TypeOK
  <2>1. CASE MarkBegin(p)
    <3>1. Taken(p)' = {}
      BY <2>1, <2>a, MemAfterMark DEF MarkBegin, At, LocalsOK, Taken, MustBeTodo
    <3>2. UNCHANGED <<claims, tree>>
      BY <2>1 DEF MarkBegin, store
    <3> QED
      BY <1>2, <3>1, <3>2, NoClaimAdded DEF ClaimsCounted
  <2>2. CASE ClaimNamed(p)
    <3>1. UNCHANGED <<claims, tree>>
      BY <2>2 DEF ClaimNamed, store
    <3>2. Pending(p)' \subseteq cmd[p].ids /\ cmd[p].ids \subseteq Tickets
      BY <2>2, <2>a, MemAfterClaim, SMTT(40) DEF Pending, CommandSet
    <3>3. Taken(p)' = MustBeTodo(p)
      BY <2>2, <2>a, MemAfterClaim DEF ClaimNamed, At, Taken, MustBeTodo
    <3>4. \A t \in Pending(p)' \cap Taken(p)' : claims[t] = 0
      BY <2>2, <3>2, <3>3, TodoIsFree DEF ClaimNamed, Resolvable, StillTodo
    <3> QED
      BY <1>2, <3>1, <3>4, NoClaimAdded DEF ClaimsCounted
  <2>3. CASE ClaimNext(p)
    <3>1. UNCHANGED <<claims, tree>>
      BY <2>3 DEF ClaimNext, store
    <3>2. PICK t \in NextCandidates : mem'[p].left = {t}
      BY <2>3, MemAfterClaim
    <3>3. t \in Tickets /\ Single(tree[t]) /\ StatusOf(tree[t]) = "todo"
      BY <3>2 DEF NextCandidates, StatusOf, LocOf, Absent
    <3>4. \A u \in Pending(p)' \cap Taken(p)' : claims[u] = 0
      BY <3>2, <3>3, TodoIsFree DEF Pending
    <3> QED
      BY <1>2, <3>1, <3>4, NoClaimAdded DEF ClaimsCounted
  <2>4. ASSUME NEW t \in Tickets, WriteFile(p, t)
        PROVE  (ClaimsCounted /\ ClaimExclusive)'
    <3>1. t \in Pending(p)
      BY <2>4 DEF WriteFile, Pending, LocalsOK
    <3>2. Pending(p)' \subseteq Pending(p) \ {t}
      <4>1. Pending(p) = mem[p].left
        BY <2>4 DEF WriteFile, Pending, LocalsOK
      <4>2. Pending(p)' \subseteq mem[p].left \ {t}
        BY <2>4, MemAfterFile DEF Pending
      <4> QED
        BY <4>1, <4>2
    <3>3. Taken(p)' = Taken(p)
      BY <2>4, <2>a, MemAfterFile DEF Taken, MustBeTodo
    <3> DEFINE C == ClaimsIn(tree')
    <3>c. /\ C \in [Tickets -> Nat]
          /\ \A u \in Tickets :
               /\ C[u] \in {0, claims[u]}
               /\ C[u] # 0 => \E l \in Locs : tree'[u][l] = "in-progress"
      BY ClaimsInFacts, ClaimsInType
    <3>d. claims' = [C EXCEPT ![t] = IF t \in Taken(p) THEN C[t] + 1 ELSE C[t]]
      BY <2>4 DEF WriteFile
    <3> HIDE DEF C
    <3>4. \A u \in Tickets \ {t} :
            /\ claims'[u] \in {0, claims[u]}
            /\ claims'[u] # 0 => \E l \in Locs : tree'[u][l] = "in-progress"
      BY <3>c, <3>d
    <3>5. CASE t \notin Taken(p)
      <4>1. /\ claims'[t] \in {0, claims[t]}
            /\ claims'[t] # 0 => \E l \in Locs : tree'[t][l] = "in-progress"
        BY <3>c, <3>d, <3>5
      <4>2. \A u \in Pending(p)' \cap Taken(p)' : claims'[u] = 0
        <5> SUFFICES ASSUME NEW u \in Pending(p)' \cap Taken(p)'
                     PROVE  claims'[u] = 0
          OBVIOUS
        <5>1. u \in Tickets \ {t} /\ claims[u] = 0
          BY <3>2, <3>3 DEF ClaimsCounted, Pending, TypeOK, Mem
        <5> QED
          BY <3>4, <5>1
      <4> QED
        BY <1>2, <3>4, <4>1, <4>2, NoClaimAdded
    <3>6. CASE t \in Taken(p)
      <4>1. claims[t] = 0
        BY <3>1, <3>6 DEF ClaimsCounted
      <4>2. claims'[t] = 1
        BY <3>c, <3>d, <3>6, <4>1
      <4>3. NewStatus(p) = "in-progress"
        BY <3>6 DEF NewStatus, Taken, MustBeTodo, LocalsOK
      <4>4. \E l \in Locs : tree'[t][l] = "in-progress"
        <5>1. OldLoc(p, t) \in Locs
          BY DEF OldLoc, LocOf, Locs
        <5>2. tree[t] \in [Locs -> Statuses \cup {Absent}] /\ tree \in [Tickets -> Copies]
          BY DEF TypeOK, Copies
        <5>3. tree'[t][OldLoc(p, t)] = "in-progress"
          BY <2>4, <4>3, <5>1, <5>2 DEF WriteFile
        <5> QED
          BY <5>1, <5>3
      <4>5. \A q \in Procs \ {p} : Pending(q)' = {}
        <5>1. lock = p
          BY <2>4 DEF WriteFile, FlockHeld, Critical
        <5> QED
          BY <1>2, <5>1, OthersKeep DEF FlockHeld, Critical, Pending
      <4>6. \A u \in Pending(p)' \cap Taken(p)' : claims'[u] = 0
        <5> SUFFICES ASSUME NEW u \in Pending(p)' \cap Taken(p)'
                     PROVE  claims'[u] = 0
          OBVIOUS
        <5>1. u \in Tickets \ {t} /\ claims[u] = 0
          BY <3>2, <3>3 DEF ClaimsCounted, Pending, TypeOK, Mem
        <5> QED
          BY <3>4, <5>1
      <4>7. ClaimsCounted'
        BY <3>4, <4>4, <4>5, <4>6 DEF ClaimsCounted
      <4>8. ClaimExclusive'
        BY <3>4, <4>2 DEF ClaimExclusive
      <4> QED
        BY <4>7, <4>8
    <3> QED
      BY <3>5, <3>6
  <2>5. ASSUME NEW t \in Tickets, Rename(p, t)
        PROVE  (ClaimsCounted /\ ClaimExclusive)'
    <3>1. mem[p].cur = {t} /\ pc[p] = "move"
      BY <2>5 DEF Rename, LocalsOK
    <3>2. Pending(p)' \subseteq Pending(p)
      <4>1. ~WriteFile(p, t)
        BY <3>1 DEF WriteFile
      <4>2. mem'[p].cur = {} /\ mem'[p].left = mem[p].left \ {t}
        BY <2>5, <4>1, MemAfterFile
      <4> QED
        BY <3>1, <4>2 DEF Pending
    <3>3. Taken(p)' = Taken(p)
      BY <2>5, <2>a, MemAfterFile DEF Taken, MustBeTodo
    <3>4. claims' = ClaimsIn(tree')
      BY <2>5 DEF Rename
    <3>5. \A u \in Pending(p)' \cap Taken(p)' : claims'[u] = 0
      <4> SUFFICES ASSUME NEW u \in Pending(p)' \cap Taken(p)'
                   PROVE  claims'[u] = 0
        OBVIOUS
      <4>1. u \in Tickets /\ claims[u] = 0
        BY <3>2, <3>3 DEF ClaimsCounted, Pending, TypeOK, Mem
      <4> QED
        BY <3>4, <4>1, ClaimsInFacts
    <3> QED
      BY <1>2, <3>4, <3>5, ClaimsInFacts, NoClaimAdded
  <2>6. CASE /\ pc'[p] \notin {"write", "move"}
             /\ UNCHANGED <<claims, tree>> \/ claims' = ClaimsIn(tree')
    <3>1. Pending(p)' = {}
      BY <2>6 DEF Pending
    <3>2. CASE UNCHANGED <<claims, tree>>
      BY <1>2, <3>1, <3>2, NoClaimAdded DEF ClaimsCounted
    <3>3. CASE claims' = ClaimsIn(tree')
      BY <1>2, <3>1, <3>3, ClaimsInFacts, NoClaimAdded
    <3> QED
      BY <2>6, <3>2, <3>3
  <2>7. CASE \/ MarkRefused(p) \/ MarkAsClaim(p) \/ ClaimStart(p)
             \/ ClaimNotStarted(p) \/ ClaimRefused(p) \/ Commit(p) \/ CommitRefused(p)
             \/ CreateBegin(p) \/ CreateRefused(p) \/ ConfigUnchanged(p)
             \/ SyncStart(p) \/ SyncNotStarted(p) \/ RootTarget(p)
             \/ AcquireSyncLocks(p) \/ Die(p) \/ ConfigRewrite(p) \/ ConfigDone(p)
             \/ ConfigRestore(p) \/ RepairBegin(p) \/ RepairRefused(p)
             \/ RepairDone(p)
             \/ \E t \in Tickets : RepairCommit(p, t)
    <3>1. UNCHANGED <<claims, tree>>
      BY <2>7 DEF MarkRefused, MarkAsClaim, ClaimStart, ClaimNotStarted, ClaimRefused,
                  Commit, CommitRefused, CreateBegin, CreateRefused, ConfigUnchanged,
                  SyncStart, SyncNotStarted, RootTarget, AcquireSyncLocks, Die,
                  ConfigRewrite, ConfigDone, ConfigRestore, RepairBegin,
                  RepairRefused, RepairDone, RepairCommit, store
    <3>2. \E there \in Points \ {"write", "move"} : Goto(p, there)
      BY <2>7 DEF MarkRefused, MarkAsClaim, ClaimStart, ClaimNotStarted, ClaimRefused,
                  Commit, CommitRefused, CreateBegin, CreateRefused, ConfigUnchanged,
                  SyncStart, SyncNotStarted, RootTarget, AcquireSyncLocks, Die,
                  ConfigRewrite, ConfigDone, ConfigRestore, RepairBegin,
                  RepairRefused, RepairDone, RepairCommit, End, Points,
                  Ended
    <3>3. pc'[p] \notin {"write", "move"}
      BY <3>2 DEF Goto, TypeOK
    <3> QED
      BY <2>6, <3>1, <3>3
  <2>8. CASE \/ Integrate(p) \/ ResumeIntegrate(p) \/ IntegratePauses(p)
             \/ IntegrateFails(p) \/ Push(p)
             \/ \E t \in Tickets : \/ CreateFile(p, t) \/ RepairWrite(p, t)
                                 \/ RepairRemove(p, t)
    <3>1. claims' = ClaimsIn(tree')
      BY <2>8, ZenonT(60) DEF Integrate, ResumeIntegrate, IntegratePauses, IntegrateFails, Push,
                  CreateFile, RepairWrite, RepairRemove, Becomes
    <3>2. \E there \in Points \ {"write", "move"} : Goto(p, there)
      BY <2>8 DEF Integrate, ResumeIntegrate, IntegratePauses, IntegrateFails, Push,
                  CreateFile, RepairWrite, RepairRemove, AfterIntegrate, End, Points, Ended
    <3>3. pc'[p] \notin {"write", "move"}
      BY <3>2 DEF Goto, TypeOK
    <3> QED
      BY <2>6, <3>1, <3>3
  <2> QED
    BY <1>2, <2>1, <2>2, <2>3, <2>4, <2>5, <2>7, <2>8 DEF Step
<1> QED
  BY <1>1, <1>2 DEF Next

\* Between two claims of a ticket it has left in-progress, for any number of
\* commands and tickets: the todo check under the flock is what a claim relies on.
THEOREM ClaimsAreExclusive == Spec => []ClaimExclusive
<1>1. Init => LocalsOK /\ ClaimsCounted /\ ClaimExclusive
  BY SMTT(60) DEF Init, LocalsOK, ClaimsCounted, ClaimExclusive, Pending, Fresh
<1> QED
  BY <1>1, LocalsNext, ClaimsNext, TypeCorrect, FlockDiscipline, PTL DEF Spec

-----------------------------------------------------------------------------
(* What a command checked under the flock is still so when it acts on it,  *)
(* and what follows: prepared files are not overwritten by others, holds   *)
(* are respected, a failed configuration set undoes only its own change,   *)
(* no id gets two versions, archive/ holds the terminal tickets, and a     *)
(* repair that ends has healed the scope.                                  *)

-----------------------------------------------------------------------------
(* Which steps change the files. *)

\* A command that has ended takes no step, and a move ends in one of three ways.
LEMMA LeavesMove ==
    ASSUME TypeOK, NEW p \in Procs, Step(p) \/ Die(p)
    PROVE  /\ pc[p] \notin Ended
           /\ pc[p] = "move" =>
                pc'[p] = "torn" \/ \E t \in Tickets : Rename(p, t)
           /\ pc[p] = "repairRemove" =>
                pc'[p] = "torn" \/ \E t \in Tickets : RepairRemove(p, t)
           /\ pc[p] = "repair" /\ pc'[p] \in {"ok", "push", "claimLock"} =>
                RepairDone(p)
  BY ZenonT(60) DEF Step, Die, MarkRefused, MarkAsClaim, MarkBegin, ClaimStart, ClaimNotStarted,
         ClaimNamed, ClaimNext, ClaimRefused, WriteFile, Rename,
         Commit, CommitRefused, CreateBegin, CreateRefused, CreateFile, ConfigUnchanged,
         ConfigRewrite, ConfigDone, ConfigRestore, SyncStart, SyncNotStarted, RootTarget,
         AcquireSyncLocks, Integrate, ResumeIntegrate, IntegratePauses, IntegrateFails,
         Push, RepairBegin, RepairRefused, RepairWrite, RepairRemove,
         RepairCommit, RepairDone, Ended, At, End, Goto, TypeOK

\* A torn command stays torn.
LEMMA TornStays ==
    ASSUME TypeOK, NEW p \in Procs, Step(p) \/ Die(p), Torn
    PROVE  Torn'
  BY LeavesMove, OthersKeep DEF Torn, Ended

\* The steps that leave the work tree and tk.cue alone.
Reads(p) ==
    \/ MarkRefused(p) \/ MarkAsClaim(p) \/ MarkBegin(p) \/ ClaimStart(p)
    \/ ClaimNotStarted(p) \/ ClaimNamed(p) \/ ClaimNext(p) \/ ClaimRefused(p)
    \/ Commit(p) \/ CommitRefused(p) \/ CreateBegin(p) \/ CreateRefused(p)
    \/ ConfigUnchanged(p) \/ ConfigDone(p) \/ SyncStart(p) \/ SyncNotStarted(p)
    \/ RootTarget(p) \/ AcquireSyncLocks(p) \/ RepairBegin(p) \/ RepairRefused(p)
    \/ RepairDone(p) \/ Die(p)
    \/ \E t \in Tickets : RepairCommit(p, t)

\* The steps that bring changes from upstream.
Brings(p) ==
    \/ Integrate(p) \/ ResumeIntegrate(p) \/ IntegratePauses(p)
    \/ IntegrateFails(p) \/ Push(p)

\* The steps that write one ticket file.
Writes(p, t) ==
    \/ WriteFile(p, t) \/ Rename(p, t) \/ CreateFile(p, t)
    \/ RepairWrite(p, t) \/ RepairRemove(p, t)

LEMMA StepKinds ==
    ASSUME NEW p \in Procs, Step(p) \/ Die(p)
    PROVE  \/ Reads(p) \/ Brings(p) \/ ConfigRewrite(p) \/ ConfigRestore(p)
           \/ \E t \in Tickets : Writes(p, t)
  BY DEF Step, Reads, Brings, Writes

LEMMA ReadsKeep ==
    ASSUME NEW p \in Procs, Reads(p)
    PROVE  UNCHANGED <<tree, cfg, bare>>
  BY DEF Reads, MarkRefused, MarkAsClaim, MarkBegin, ClaimStart, ClaimNotStarted,
         ClaimNamed, ClaimNext, ClaimRefused, Commit, CommitRefused, CreateBegin,
         CreateRefused, ConfigUnchanged, ConfigDone, SyncStart, SyncNotStarted,
         RootTarget, AcquireSyncLocks, RepairBegin, RepairRefused,
         RepairDone, Die, RepairCommit, store

\* An integrate leaves each ticket as it is or brings one well-placed file, and
\* either its command owns the flock or it is recorded in bare.
LEMMA BringsKeep ==
    ASSUME TypeOK, FlockHeld, NEW p \in Procs, Brings(p)
    PROVE  /\ \A t \in Tickets : \/ tree'[t] = tree[t]
                                 \/ \E s \in Board : tree'[t] = Placed(s)
           /\ bare => bare'
           /\ ~bare' => lock = p \/ UNCHANGED <<tree, cfg>>
           /\ pc[p] \in {"integrate", "push"}
<1>1. ASSUME NEW w \in {Image, Snapshot(Image)}, NEW v \in Arrivals(w), NEW t \in Tickets
      PROVE  v.tree[t] = tree[t] \/ \E s \in Board : v.tree[t] = Placed(s)
  <2>a. Image \in Images /\ Image.tree = tree
    BY OutcomesType DEF Image
  <2>b. Snapshot(Image) \in Images /\ Snapshot(Image).tree = tree
    BY <2>a, OutcomesType DEF Snapshot, Images
  <2>1. w \in Images /\ w.tree = tree
    BY <2>a, <2>b
  <2>2. CASE v = w
    BY <2>1, <2>2
  <2>3. ASSUME NEW u \in Tickets, NEW s \in Board, v = WithTicket(w, u, s)
        PROVE  v.tree[t] = tree[t] \/ v.tree[t] = Placed(s)
    BY <2>1, <2>3 DEF WithTicket, Images
  <2>4. ASSUME NEW h \in Holds, v = WithHold(w, h)
        PROVE  v.tree = tree
    BY <2>1, <2>4 DEF WithHold, Images
  <2> QED
    BY <1>1, <2>2, <2>3, <2>4 DEF Arrivals, Clean
<1>2. \A v \in Arrivals(Image) : Snapshot(v).tree = v.tree
  BY OutcomesType DEF Snapshot, Images
<1>3. \A v \in Synced \cup Arrivals(Image) \cup {Image, Snapshot(Image)} :
        \A t \in Tickets : \/ v.tree[t] = tree[t]
                           \/ \E s \in Board : v.tree[t] = Placed(s)
  BY <1>1, <1>2 DEF Synced, Arrivals
<1>4. \E v \in Synced \cup Arrivals(Image) \cup {Image, Snapshot(Image)} : Becomes(v)
  BY DEF Brings, Integrate, ResumeIntegrate, IntegratePauses, IntegrateFails, Push
<1>5. \A t \in Tickets : tree'[t] = tree[t] \/ \E s \in Board : tree'[t] = Placed(s)
  BY <1>3, <1>4 DEF Becomes
<1>6. pc[p] \in {"integrate", "push"}
  BY DEF Brings, Integrate, ResumeIntegrate, IntegratePauses, IntegrateFails, Push
<1>7. bare => bare'
  BY DEF Brings, Integrate, ResumeIntegrate, IntegratePauses, IntegrateFails, Push
<1>8. ~bare' => mem[p].parts \/ Becomes(Image)
  BY DEF Brings, Integrate, ResumeIntegrate, IntegratePauses, IntegrateFails, Push, TypeOK
<1>9. mem[p].parts => lock = p
  BY <1>6 DEF FlockHeld
<1>10. Becomes(Image) => UNCHANGED <<tree, cfg>>
  BY DEF Becomes, Image
<1> QED
  BY <1>5, <1>6, <1>7, <1>8, <1>9, <1>10

LEMMA WritesKeep ==
    ASSUME TypeOK, FlockHeld, NEW p \in Procs, NEW t \in Tickets, Writes(p, t)
    PROVE  /\ \A u \in Tickets \ {t} : tree'[u] = tree[u]
           /\ UNCHANGED <<cfg, bare>>
           /\ lock = p
  BY DEF Writes, WriteFile, Rename, CreateFile, RepairWrite, RepairRemove, TypeOK,
         FlockHeld, Critical

\* Without an integrate that bypasses the flock, the files change only under the
\* stepping command's flock or when nobody owns it.
LEMMA StoreStable ==
    ASSUME TypeOK, FlockHeld, NEW p \in Procs, Step(p) \/ Die(p), ~bare'
    PROVE  /\ ~bare
           /\ UNCHANGED <<tree, cfg>> \/ lock \in {p, NoProc}
<1>1. CASE Reads(p)
  BY <1>1, ReadsKeep
<1>2. CASE Brings(p)
  BY <1>2, BringsKeep
<1>3. CASE ConfigRewrite(p)
  BY <1>3 DEF ConfigRewrite, LockFree
<1>4. CASE ConfigRestore(p)
  BY <1>4 DEF ConfigRestore, FlockHeld, Critical
<1>5. CASE \E t \in Tickets : Writes(p, t)
  BY <1>5, WritesKeep
<1> QED
  BY <1>1, <1>2, <1>3, <1>4, <1>5, StepKinds

-----------------------------------------------------------------------------
(* What a command prepared under the flock. *)

\* The preparations of the other commands survive a step.
LEMMA PreparedOther ==
    ASSUME TypeOK, FlockHeld, NEW p \in Procs, Step(p) \/ Die(p), ~bare',
           NEW q \in Procs \ {p}, PreparedBy(q)
    PROVE  PreparedBy(q)'
<1>1. pc'[q] = pc[q] /\ mem'[q] = mem[q] /\ cmd' = cmd
  BY OthersKeep
<1>2. CASE pc[q] \in Critical
  <2>1. lock = q /\ q # NoProc
    BY <1>2, NoProcAssumption DEF FlockHeld
  <2>2. UNCHANGED <<tree, cfg>>
    BY <2>1, StoreStable
  <2> QED
    BY <1>1, <2>2 DEF PreparedBy, Pending, OldLoc, NewLoc, NewStatus, HoldAllows, Wanted
<1>3. CASE pc[q] \notin Critical
  BY <1>1, <1>3 DEF PreparedBy, Pending, Critical
<1> QED
  BY <1>2, <1>3

\* A command that prepares under the flock has checked what it relies on, and
\* rewriting one file leaves the preparation of the others intact.
LEMMA PreparedSelf ==
    ASSUME TypeOK, FlockHeld, LocalsOK, NEW p \in Procs, Step(p) \/ Die(p), PreparedBy(p)
    PROVE  PreparedBy(p)'
<1>a. cmd' = cmd
  BY OthersKeep
<1>b. cmd[p] \in CommandSet /\ mem[p] \in Mem /\ cfg \in Config
  BY CommandsAssumption DEF TypeOK
<1>c. NewStatus(p)' = NewStatus(p)
  BY <1>a DEF NewStatus
<1>1. CASE MarkBegin(p)
  <2>1. /\ pc'[p] = "write" /\ UNCHANGED <<tree, cfg>>
        /\ NewStatus(p) = cmd[p].to
    BY <1>1 DEF MarkBegin, Goto, TypeOK, At, NewStatus, store
  <2>2. Pending(p)' \subseteq cmd[p].ids /\ mem'[p].seen = tree
    BY <1>1, <2>1, MemAfterMark DEF Pending
  <2>3. Resolvable(cmd[p].ids) /\ HoldAllows(cmd[p].to)
    BY <1>1 DEF MarkBegin, MarkAllowed
  <2> QED
    BY <1>c, <2>1, <2>2, <2>3 DEF PreparedBy, Resolvable, HoldAllows
<1>2. CASE ClaimNamed(p)
  <2>1. pc'[p] = "write" /\ UNCHANGED <<tree, cfg>>
    BY <1>2 DEF ClaimNamed, Goto, TypeOK, store
  <2>2. Pending(p)' \subseteq cmd[p].ids /\ mem'[p].seen = tree
    BY <1>2, <2>1, MemAfterClaim DEF Pending
  <2>3. Resolvable(cmd[p].ids) /\ cfg.hold = "off"
    BY <1>2 DEF ClaimNamed, ClaimAllowed
  <2> QED
    BY <1>c, <2>1, <2>2, <2>3 DEF PreparedBy, Resolvable, HoldAllows
<1>3. CASE ClaimNext(p)
  <2>1. pc'[p] = "write" /\ UNCHANGED <<tree, cfg>>
    BY <1>3 DEF ClaimNext, Goto, TypeOK, store
  <2>2. Pending(p)' \subseteq NextCandidates /\ mem'[p].seen = tree
    BY <1>3, <2>1, MemAfterClaim DEF Pending
  <2>3. (\A t \in NextCandidates : Single(tree[t])) /\ cfg.hold = "off"
    BY <1>3 DEF ClaimNext, ClaimAllowed, NextCandidates
  <2> QED
    BY <1>c, <2>1, <2>2, <2>3 DEF PreparedBy, HoldAllows
<1>4. ASSUME NEW t \in Tickets, WriteFile(p, t)
      PROVE  PreparedBy(p)'
  <2>1. /\ pc[p] = "write" /\ mem[p].cur = {} /\ t \in Pending(p)
        /\ cfg' = cfg
    BY <1>4 DEF WriteFile, LocalsOK, Pending
  <2>2. Single(mem[p].seen[t]) /\ tree[t] = mem[p].seen[t] /\ HoldAllows(NewStatus(p))
    BY <2>1 DEF PreparedBy
  <2>3. Pending(p)' \subseteq Pending(p) \ {t} /\ mem'[p].seen = mem[p].seen
    BY <1>4, <2>1, MemAfterFile DEF Pending
  <2>4. \A u \in Pending(p)' : tree'[u] = tree[u]
    BY <1>4, <2>3, <1>b, WritesKeep DEF Writes, Pending, Mem
  <2>5. tree'[t] = [mem[p].seen[t] EXCEPT ![OldLoc(p, t)] = NewStatus(p)]
    BY <1>4, <2>2 DEF WriteFile, TypeOK
  <2>6. OldLoc(p, t)' = OldLoc(p, t) /\ NewLoc(p, t)' = NewLoc(p, t)
    BY <1>c, <2>3 DEF OldLoc, NewLoc
  <2>7. \/ pc'[p] \in {"write", "commit"}
        \/ pc'[p] = "move" /\ mem'[p].cur = {t} /\ NewLoc(p, t) # OldLoc(p, t)
    BY <1>4, MemAfterFile
  <2>8. \A u \in Pending(p)' : Single(mem'[p].seen[u]) /\ tree'[u] = mem'[p].seen[u]
    BY <2>3, <2>4 DEF PreparedBy
  <2>9. HoldAllows(NewStatus(p))'
    BY <1>c, <2>1, <2>2 DEF HoldAllows
  <2>10. pc'[p] = "move" => \A u \in mem'[p].cur :
            /\ Single(mem'[p].seen[u])
            /\ tree'[u] = [mem'[p].seen[u] EXCEPT ![OldLoc(p, u)'] = NewStatus(p)']
            /\ NewLoc(p, u)' # OldLoc(p, u)'
    BY <1>c, <2>2, <2>3, <2>5, <2>6, <2>7
  <2> QED
    BY <2>7, <2>8, <2>9, <2>10 DEF PreparedBy
<1>5. ASSUME NEW t \in Tickets, Rename(p, t)
      PROVE  PreparedBy(p)'
  <2>1. pc[p] = "move" /\ mem[p].cur = {t} /\ cfg' = cfg /\ ~WriteFile(p, t)
    BY <1>5 DEF Rename, LocalsOK, WriteFile
  <2>2. /\ pc'[p] \in {"write", "commit"} /\ mem'[p].seen = mem[p].seen
        /\ Pending(p)' \subseteq Pending(p) \ {t}
    BY <1>5, <2>1, MemAfterFile DEF Pending
  <2>3. \A u \in Pending(p)' : tree'[u] = tree[u]
    BY <1>5, <2>2, <1>b, WritesKeep DEF Writes, Pending, Mem
  <2> QED
    BY <1>c, <2>1, <2>2, <2>3 DEF PreparedBy, HoldAllows
<1>6. CASE CreateBegin(p)
  <2>1. /\ pc'[p] = "create" /\ UNCHANGED <<tree, cfg>>
        /\ NewStatus(p) = cmd[p].to
    BY <1>6 DEF CreateBegin, Goto, TypeOK, At, NewStatus, store
  <2>2. HoldAllows(cmd[p].to)
    BY <1>6 DEF CreateBegin, CreateAllowed
  <2>3. \E t \in Tickets : tree[t] = Nowhere /\ mem'[p].targets = {t}
    BY <1>6, MemAfterOther
  <2> QED
    BY <1>c, <2>1, <2>2, <2>3 DEF PreparedBy, Pending, HoldAllows
<1>7. CASE ConfigRewrite(p)
  <2>1. pc'[p] = "config" /\ cfg' = Wanted(p, cfg) /\ mem'[p].saved = cfg
    BY <1>7, MemAfterOther DEF ConfigRewrite, Goto, TypeOK
  <2> QED
    BY <1>a, <2>1 DEF PreparedBy, Pending, Wanted
<1>8. CASE pc'[p] \notin {"write", "move", "create", "config"}
  BY <1>8, SMTT(60) DEF PreparedBy, Pending
<1>9. \/ MarkBegin(p) \/ ClaimNamed(p) \/ ClaimNext(p) \/ CreateBegin(p)
      \/ ConfigRewrite(p)
      \/ \E t \in Tickets : WriteFile(p, t) \/ Rename(p, t)
      \/ \E there \in Points \ {"write", "move", "create", "config"} : Goto(p, there)
  BY DEF Step, Die, MarkRefused, MarkAsClaim, ClaimStart, ClaimNotStarted,
         ClaimRefused, Commit, CommitRefused, CreateRefused, CreateFile,
         ConfigUnchanged, ConfigDone, ConfigRestore, SyncStart, SyncNotStarted,
         RootTarget, AcquireSyncLocks, Integrate, ResumeIntegrate, IntegratePauses,
         IntegrateFails, Push, AfterIntegrate, RepairBegin, RepairRefused, RepairWrite,
         RepairRemove, RepairCommit, RepairDone, End, Ended, Points
<1>10. (\E there \in Points \ {"write", "move", "create", "config"} : Goto(p, there))
          => pc'[p] \notin {"write", "move", "create", "config"}
  BY DEF Goto, TypeOK
<1> QED
  BY <1>1, <1>2, <1>3, <1>4, <1>5, <1>6, <1>7, <1>8, <1>9, <1>10

LEMMA PreparedNext ==
    TypeOK /\ FlockHeld /\ LocalsOK /\ Prepared /\ [Next]_vars => Prepared'
<1> SUFFICES ASSUME TypeOK, FlockHeld, LocalsOK, Prepared, [Next]_vars, ~bare'
             PROVE  (\A q \in Procs : PreparedBy(q))'
  BY DEF Prepared
<1>1. CASE UNCHANGED vars
  BY <1>1 DEF Prepared, PreparedBy, Pending, OldLoc, NewLoc, NewStatus, HoldAllows,
              Wanted, vars, store
<1>2. ASSUME NEW p \in Procs, Step(p) \/ Die(p), NEW q \in Procs
      PROVE  PreparedBy(q)'
  <2>1. PreparedBy(p) /\ PreparedBy(q)
    BY <1>2, StoreStable DEF Prepared
  <2> QED
    BY <1>2, <2>1, PreparedOther, PreparedSelf
<1> QED
  BY <1>1, <1>2 DEF Next

-----------------------------------------------------------------------------
(* Two files of one id, and files in the wrong directory. *)

\* The other directory, and what a single file is.
LEMMA CopiesFacts ==
    ASSUME NEW c \in Copies
    PROVE  /\ LocOf(c) \in Locs
           /\ Single(c) => /\ c[LocOf(c)] # Absent
                           /\ \A l \in Locs : l # LocOf(c) => c[l] = Absent
           /\ ~Twins(c) => c = Nowhere \/ Single(c)
           /\ \A l \in Locs : c[l] \in Statuses \cup {Absent}
  BY DEF Copies, LocOf, Locs, Single, Twins, Nowhere

\* A placed file is alone and in its directory.
LEMMA PlacedFacts ==
    ASSUME NEW s
    PROVE  ~Twins(Placed(s)) /\ LaidOut(Placed(s))
  BY DEF Placed, Twins, LaidOut, Locs, TerminalLocation

\* How a step changes the files of one ticket.
LEMMA TicketStep ==
    ASSUME TypeOK, FlockHeld, LocalsOK, Prepared, NEW p \in Procs, Step(p) \/ Die(p),
           ~bare', NEW t \in Tickets, tree'[t] # tree[t]
    PROVE  /\ \/ ~Twins(tree'[t])
              \/ InterruptedMove(tree'[t]) /\ Moves(p, t, {"repairRemove"})'
           /\ \/ LaidOut(tree'[t])
              \/ Moves(p, t, {"move"})'
              \/ ~LaidOut(tree[t]) /\ pc[p] # "move"
<1>a. PreparedBy(p)
  BY StoreStable DEF Prepared
<1>b. /\ tree \in [Tickets -> Copies] /\ tree[t] \in Copies
      /\ mem[p] \in Mem /\ mem[p].seen[t] \in Copies
  BY DEF TypeOK, Mem
<1>c. NewStatus(p) \in Statuses
  BY CommandsAssumption DEF TypeOK, NewStatus, Statuses, CommandSet
<1>d. Absent \notin Statuses
  BY DEF Absent, Statuses
<1>1. CASE Brings(p)
  BY <1>1, BringsKeep, PlacedFacts
<1>2. CASE WriteFile(p, t)
  <2>1. pc[p] = "write" /\ t \in Pending(p)
    BY <1>2 DEF WriteFile, LocalsOK, Pending
  <2>2. Single(tree[t]) /\ mem[p].seen[t] = tree[t]
    BY <1>a, <2>1 DEF PreparedBy
  <2>3. OldLoc(p, t) = LocOf(tree[t]) /\ OldLoc(p, t) \in Locs
    BY <1>b, <2>2, CopiesFacts DEF OldLoc
  <2>4. /\ tree'[t][OldLoc(p, t)] = NewStatus(p)
        /\ \A l \in Locs : l # OldLoc(p, t) => tree'[t][l] = Absent
    BY <1>2, <1>b, <2>2, <2>3, CopiesFacts DEF WriteFile, Copies
  <2>5. ~Twins(tree'[t])
    BY <2>3, <2>4 DEF Twins, Locs
  <2>6. CASE NewLoc(p, t) # OldLoc(p, t)
    <3>1. Moves(p, t, {"move"})'
      BY <1>2, <2>6, MemAfterFile DEF Moves
    <3> QED
      BY <2>5, <3>1
  <2>7. CASE NewLoc(p, t) = OldLoc(p, t) /\ LaidOut(tree[t])
    <3>1. TerminalLocation(StatusOf(tree[t])) = OldLoc(p, t)
      BY <1>b, <2>2, <2>3, <2>7, CopiesFacts DEF LaidOut, StatusOf
    <3>2. TerminalLocation(NewStatus(p)) = OldLoc(p, t)
      BY <2>2, <2>7, <3>1 DEF NewLoc, TerminalLocation
    <3>3. LaidOut(tree'[t])
      BY <2>4, <3>2 DEF LaidOut
    <3> QED
      BY <2>5, <3>3
  <2> QED
    BY <2>1, <2>5, <2>6, <2>7
<1>3. CASE Rename(p, t)
  <2>1. pc[p] = "move" /\ t \in mem[p].cur
    BY <1>3 DEF Rename
  <2>2. /\ Single(mem[p].seen[t])
        /\ tree[t] = [mem[p].seen[t] EXCEPT ![OldLoc(p, t)] = NewStatus(p)]
        /\ NewLoc(p, t) # OldLoc(p, t)
    BY <1>a, <2>1 DEF PreparedBy
  <2>3. /\ OldLoc(p, t) \in Locs
        /\ NewLoc(p, t) = TerminalLocation(NewStatus(p)) /\ NewLoc(p, t) \in Locs
    BY <1>b, <2>2, CopiesFacts DEF OldLoc, NewLoc, TerminalLocation, Locs
  <2>4. tree[t][OldLoc(p, t)] = NewStatus(p)
    BY <1>b, <2>2, <2>3 DEF Copies
  <2>5. tree'[t] = Moved(p, t)
    BY <1>3, <1>b DEF Rename
  <2>6. /\ tree'[t][NewLoc(p, t)] = NewStatus(p)
        /\ tree'[t][OldLoc(p, t)] = Absent
    BY <1>b, <2>2, <2>3, <2>4, <2>5 DEF Moved, Copies
  <2>7. \A l \in Locs : l = NewLoc(p, t) \/ l = OldLoc(p, t)
    BY <2>2, <2>3 DEF Locs
  <2>8. ~Twins(tree'[t])
    BY <2>3, <2>6 DEF Twins
  <2>9. LaidOut(tree'[t])
    BY <2>3, <2>6, <2>7 DEF LaidOut
  <2> QED
    BY <2>8, <2>9
<1>4. CASE CreateFile(p, t)
  <2>1. pc[p] = "create" /\ t \in mem[p].targets
    BY <1>4 DEF CreateFile
  <2>2. tree[t] = Nowhere
    BY <1>a, <2>1 DEF PreparedBy
  <2>3. tree' = [tree EXCEPT ![t][TerminalLocation(cmd[p].to)] = cmd[p].to]
    BY <1>4 DEF CreateFile
  <2>4. TerminalLocation(cmd[p].to) \in Locs
    BY DEF TerminalLocation, Locs
  <2>5. /\ tree'[t][TerminalLocation(cmd[p].to)] = cmd[p].to
        /\ \A l \in Locs : l # TerminalLocation(cmd[p].to) => tree'[t][l] = Absent
    BY <1>b, <2>2, <2>3, <2>4 DEF Nowhere, Copies
  <2>6. ~Twins(tree'[t]) /\ LaidOut(tree'[t])
    BY <2>4, <2>5 DEF Twins, LaidOut, Locs
  <2> QED
    BY <2>6
<1>5. CASE RepairWrite(p, t)
  <2>1. PICK l \in Drifted(tree[t]) :
          tree' = [tree EXCEPT ![t][TerminalLocation(tree[t][l])] = tree[t][l]]
    BY <1>5 DEF RepairWrite
  <2>2. /\ l \in Locs /\ tree[t][l] # Absent
        /\ TerminalLocation(tree[t][l]) # l /\ TerminalLocation(tree[t][l]) \in Locs
    BY DEF Drifted, TerminalLocation, Locs
  <2>3. tree'[t][TerminalLocation(tree[t][l])] = tree[t][l] /\ tree'[t][l] = tree[t][l]
    BY <1>b, <2>1, <2>2 DEF Copies
  <2>4. \A k \in Locs : k = l \/ k = TerminalLocation(tree[t][l])
    BY <2>2 DEF Locs
  <2>5. InterruptedMove(tree'[t])
    BY <2>2, <2>3, <2>4 DEF InterruptedMove, Twins, Locs
  <2>6. Moves(p, t, {"repairRemove"})'
    BY <1>5, MemAfterRepair DEF RepairWrite, Goto, TypeOK, Moves
  <2>7. ~LaidOut(tree[t]) /\ pc[p] # "move"
    BY <1>5, <2>2 DEF LaidOut, RepairWrite
  <2> QED
    BY <2>5, <2>6, <2>7
<1>6. CASE RepairRemove(p, t)
  <2>1. OldLoc(p, t) \in Locs
    BY <1>b, CopiesFacts DEF OldLoc
  <2>2. /\ tree'[t][OldLoc(p, t)] = Absent
        /\ \A l \in Locs : l # OldLoc(p, t) => tree'[t][l] = tree[t][l]
    BY <1>6, <1>b, <2>1 DEF RepairRemove, Copies
  <2>3. ~Twins(tree'[t])
    BY <2>1, <2>2 DEF Twins
  <2>4. LaidOut(tree[t]) => LaidOut(tree'[t])
    BY <2>2 DEF LaidOut
  <2> QED
    BY <1>6, <2>3, <2>4 DEF RepairRemove
<1>7. ~(Reads(p) \/ ConfigRewrite(p) \/ ConfigRestore(p))
  BY ReadsKeep DEF ConfigRewrite, ConfigRestore
<1>8. \A u \in Tickets : Writes(p, u) => u = t
  BY WritesKeep
<1> QED
  BY <1>1, <1>2, <1>3, <1>4, <1>5, <1>6, <1>7, <1>8, StepKinds DEF Writes

\* The owner of a half-done move survives a step, or leaves a torn command.
LEMMA MoverStays ==
    ASSUME TypeOK, LocalsOK, NEW p \in Procs, Step(p) \/ Die(p), NEW q \in Procs,
           NEW t \in Tickets, NEW point \in {"move", "repairRemove"}, Moves(q, t, {point})
    PROVE  \/ Torn'
           \/ Moves(q, t, {point})'
           \/ Rename(p, t) /\ q = p
           \/ RepairRemove(p, t) /\ q = p
<1>1. CASE q # p
  BY <1>1, OthersKeep DEF Moves
<1>2. CASE q = p
  <2>1. mem[p].cur = {t} /\ pc[p] = point
    BY <1>2 DEF Moves, LocalsOK
  <2>2. \A u \in Tickets : Rename(p, u) \/ RepairRemove(p, u) => u = t
    BY <2>1 DEF Rename, RepairRemove
  <2>3. pc'[p] = "torn" => Torn'
    BY DEF Torn
  <2> QED
    BY <1>2, <2>1, <2>2, <2>3, LeavesMove
<1> QED
  BY <1>1, <1>2

LEMMA TwinsNext ==
    TypeOK /\ FlockHeld /\ LocalsOK /\ Prepared /\ TwinsOwned /\ [Next]_vars
      => TwinsOwned'
<1> SUFFICES ASSUME TypeOK, FlockHeld, LocalsOK, Prepared, TwinsOwned, [Next]_vars
             PROVE  TwinsOwned'
  OBVIOUS
<1>1. CASE UNCHANGED vars
  BY <1>1 DEF TwinsOwned, Torn, Moves, vars, store
<1>2. ASSUME NEW p \in Procs, Step(p) \/ Die(p), ~bare', NEW t \in Tickets,
             Twins(tree'[t])
      PROVE  /\ InterruptedMove(tree'[t])
             /\ Torn' \/ \E q \in Procs : Moves(q, t, {"repairRemove"})'
  <2>1. CASE tree'[t] # tree[t]
    BY <1>2, <2>1, TicketStep
  <2>2. CASE tree'[t] = tree[t]
    <3>1. /\ InterruptedMove(tree[t])
          /\ Torn \/ \E q \in Procs : Moves(q, t, {"repairRemove"})
      BY <1>2, <2>2, StoreStable DEF TwinsOwned
    <3>2. CASE Torn
      BY <1>2, <2>2, <3>1, <3>2, TornStays
    <3>3. ASSUME NEW q \in Procs, Moves(q, t, {"repairRemove"})
          PROVE  Torn' \/ Moves(q, t, {"repairRemove"})'
      <4>1. ~Rename(p, t) \/ q # p
        BY <3>3 DEF Moves, Rename
      <4>2. ~RepairRemove(p, t)
        <5>1. OldLoc(p, t) \in Locs /\ tree[t] \in Copies /\ tree \in [Tickets -> Copies]
          BY DEF OldLoc, LocOf, Locs, TypeOK
        <5>2. tree[t][OldLoc(p, t)] # Absent
          BY <1>2, <2>2, <5>1 DEF Twins
        <5> QED
          BY <2>2, <5>1, <5>2 DEF RepairRemove, Copies
      <4> QED
        BY <1>2, <3>3, <4>1, <4>2, MoverStays
    <3> QED
      BY <2>2, <3>1, <3>2, <3>3
  <2> QED
    BY <2>1, <2>2
<1> QED
  BY <1>1, <1>2 DEF Next, TwinsOwned

LEMMA DriftNext ==
    TypeOK /\ FlockHeld /\ LocalsOK /\ Prepared /\ DriftOwned /\ [Next]_vars
      => DriftOwned'
<1> SUFFICES ASSUME TypeOK, FlockHeld, LocalsOK, Prepared, DriftOwned, [Next]_vars
             PROVE  DriftOwned'
  OBVIOUS
<1>1. CASE UNCHANGED vars
  BY <1>1 DEF DriftOwned, Torn, Moves, vars, store
<1>2. ASSUME NEW p \in Procs, Step(p) \/ Die(p), ~bare', NEW t \in Tickets,
             ~LaidOut(tree'[t])
      PROVE  Torn' \/ \E q \in Procs : Moves(q, t, {"move"})'
  <2>1. CASE Moves(p, t, {"move"})'
    BY <2>1
  <2>2. CASE ~LaidOut(tree[t]) /\ (tree'[t] # tree[t] => pc[p] # "move")
    <3>1. Torn \/ \E q \in Procs : Moves(q, t, {"move"})
      BY <1>2, <2>2, StoreStable DEF DriftOwned
    <3>2. CASE Torn
      BY <1>2, <3>2, TornStays
    <3>3. ASSUME NEW q \in Procs, Moves(q, t, {"move"})
          PROVE  Torn' \/ Moves(q, t, {"move"})'
      <4>1. ~RepairRemove(p, t) \/ q # p
        BY <3>3 DEF Moves, RepairRemove
      <4>2. ~Rename(p, t)
        <5> SUFFICES ASSUME Rename(p, t) PROVE FALSE
          OBVIOUS
        <5>1. tree'[t] = tree[t]
          BY <2>2 DEF Rename
        <5>2. /\ OldLoc(p, t) \in Locs /\ NewLoc(p, t) \in Locs
              /\ tree[t] \in Copies /\ tree \in [Tickets -> Copies]
          BY DEF OldLoc, NewLoc, TerminalLocation, LocOf, Locs, TypeOK
        <5>3. tree'[t] = Moved(p, t) /\ tree[t][OldLoc(p, t)] # Absent
          BY <5>2 DEF Rename
        <5>4. Moved(p, t)[OldLoc(p, t)] = Absent
          BY <5>2 DEF Moved, Copies
        <5> QED
          BY <5>1, <5>3, <5>4
      <4> QED
        BY <1>2, <3>3, <4>1, <4>2, MoverStays
    <3> QED
      BY <3>1, <3>2, <3>3
  <2>3. CASE tree'[t] # tree[t]
    <3>1. LaidOut(tree'[t]) \/ Moves(p, t, {"move"})' \/ (~LaidOut(tree[t]) /\ pc[p] # "move")
      BY <1>2, <2>3, TicketStep
    <3> QED
      BY <1>2, <2>1, <2>2, <3>1
  <2> QED
    BY <1>2, <2>2, <2>3
<1> QED
  BY <1>1, <1>2 DEF Next, DriftOwned

-----------------------------------------------------------------------------
(* The theorems. *)

\* The whole inductive invariant holds at the start and is kept by every step.
THEOREM InductiveInvariant == Spec => []Inductive
<1>a. Init => FlockHeld
  BY NoProcAssumption DEF Init, FlockHeld, Critical
<1>1. Init => LocalsOK /\ ClaimsCounted /\ ClaimExclusive
  BY DEF Init, LocalsOK, ClaimsCounted, ClaimExclusive, Pending, Fresh
<1>2. Init => Prepared
  BY DEF Init, Prepared, PreparedBy, Pending
<1>3. Init => TwinsOwned /\ DriftOwned
  <2> SUFFICES ASSUME Init, NEW t \in Tickets
               PROVE  ~Twins(tree[t]) /\ LaidOut(tree[t])
    BY DEF TwinsOwned, DriftOwned
  <2>1. tree[t] = Nowhere \/ \E s \in Board : tree[t] = Placed(s)
    BY DEF Init
  <2>2. ~Twins(Nowhere) /\ LaidOut(Nowhere)
    BY DEF Twins, LaidOut, Nowhere, Locs
  <2> QED
    BY <2>1, <2>2, PlacedFacts
<1>4. Init => Inductive
  BY <1>a, <1>1, <1>2, <1>3, TypeInit DEF Inductive
<1>5. Inductive /\ [Next]_vars => Inductive'
  BY TypeNext, FlockNext, LocalsNext, ClaimsNext, PreparedNext, TwinsNext, DriftNext
     DEF Inductive
<1> QED
  BY <1>4, <1>5, PTL DEF Spec

\* Nothing changes a prepared file between preflightMarks and its rewrite.
THEOREM UpdatesAreNotLost == Spec => []NoLostUpdate
<1>1. Inductive => NoLostUpdate
  BY DEF Inductive, NoLostUpdate, Prepared, PreparedBy, Pending, LocalsOK
<1> QED
  BY <1>1, InductiveInvariant, PTL

\* A failed hold or auto-commit set undoes exactly its own change.
THEOREM RestoresAreOwn == Spec => []RestoresOwnChange
<1>1. Inductive => RestoresOwnChange
  BY DEF Inductive, RestoresOwnChange, Prepared, PreparedBy
<1> QED
  BY <1>1, InductiveInvariant, PTL

\* No ticket is written against the hold in force at the moment of the write.
THEOREM HoldsAreRespected == Spec => HoldRespected
<1>1. Inductive /\ [Next]_vars =>
        [\A p \in Procs :
           (pc[p] \in {"write", "create"} /\ lock = p /\ tree' # tree /\ ~bare)
              => HoldAllows(NewStatus(p))]_vars
  BY DEF Inductive, Prepared, PreparedBy
<1> QED
  BY <1>1, InductiveInvariant, PTL DEF Spec, HoldRespected

\* Two files of one id are the halves of a layout repair, never two versions.
THEOREM TwinsAreHalves == Spec => []NoTwins
<1>1. Inductive => NoTwins
  BY DEF Inductive, TwinsOwned, NoTwins, Torn, Moves
<1> QED
  BY <1>1, InductiveInvariant, PTL

\* With the flock free and no torn command, archive/ holds exactly the terminal
\* tickets.
THEOREM LayoutIsKept == Spec => []Layout
<1>1. Inductive => Layout
  BY NoProcAssumption DEF Inductive, DriftOwned, Layout, Torn, Moves, FlockHeld, Critical
<1> QED
  BY <1>1, InductiveInvariant, PTL

\* A repair that has run to its end leaves one well-placed file per ticket,
\* whatever was torn before it: no pair of identical halves escapes repairArchive.
THEOREM RepairsHeal == Spec => RepairHeals
<1>1. ASSUME Inductive, [Next]_vars, ~bare, NEW p \in Procs, pc[p] = "repair",
             pc'[p] \in {"ok", "push", "claimLock"}, NEW t \in Tickets
      PROVE  tree'[t] = Nowhere \/ (Single(tree'[t]) /\ LaidOut(tree'[t]))
  <2>a. TypeOK /\ tree[t] \in Copies
    BY <1>1 DEF Inductive, TypeOK
  <2>1. RepairDone(p)
    <3>1. PICK q \in Procs : Step(q) \/ Die(q)
      BY <1>1 DEF Next, vars
    <3>2. q = p
      BY <1>1, <2>a, <3>1, OthersKeep
    <3> QED
      BY <1>1, <2>a, <3>1, <3>2, LeavesMove
  <2>2. tree' = tree /\ Drifted(tree[t]) = {}
    BY <2>1 DEF RepairDone, store
  <2>3. ~GenuineCollision(tree[t])
    BY <1>1 DEF Inductive, TwinsOwned, GenuineCollision
  <2>4. LaidOut(tree[t])
    BY <2>2, <2>3 DEF Drifted, LaidOut
  <2>5. ~Twins(tree[t])
    <3>1. Twins(tree[t]) => InterruptedMove(tree[t])
      BY <2>3 DEF GenuineCollision
    <3>2. ~(InterruptedMove(tree[t]) /\ LaidOut(tree[t]))
      BY DEF InterruptedMove, Twins, LaidOut, Locs
    <3> QED
      BY <2>4, <3>1, <3>2
  <2> QED
    BY <2>a, <2>2, <2>4, <2>5, CopiesFacts
<1>2. Inductive /\ [Next]_vars =>
        [(~bare /\ \E p \in Procs :
              pc[p] = "repair" /\ pc'[p] \in {"ok", "push", "claimLock"})
            => \A t \in Tickets : \/ tree'[t] = Nowhere
                                  \/ Single(tree'[t]) /\ LaidOut(tree'[t])]_vars
  BY <1>1
<1> QED
  BY <1>2, InductiveInvariant, PTL DEF Spec, RepairHeals

=============================================================================
