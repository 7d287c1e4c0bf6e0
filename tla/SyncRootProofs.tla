--------------------------- MODULE SyncRootProofs ---------------------------
(***************************************************************************)
(* Proofs about SyncRoot, for any number of checkouts, files, edits and    *)
(* faults.                                                                 *)
(*                                                                         *)
(* The argument has three layers.  History says how the commits that exist *)
(* are ordered and what the checkouts and the remote have in common; the   *)
(* single merge base follows.  Control says where in a run a merge may be  *)
(* in progress.  Work says which edits and which markers a work tree, an   *)
(* index and a commit hold, by comparing them with the two sides of the    *)
(* merge, which History keeps fixed while the merge lasts.                 *)
(***************************************************************************)
EXTENDS SyncRoot, FiniteSetTheorems, TLAPS

-----------------------------------------------------------------------------
(* History. *)

\* A stamp names one commit.
StampsDiffer == \A x, y \in log : x.at = y.at => x = y

\* Nobody has a commit of a checkout that the checkout itself has not.
OwnNewest == \A c \in Clones : \A x \in log : x.at[c] <= head[c].at[c]

\* A commit below every other, or made by a checkout d: then whoever has as many
\* commits of d has it.
Known(x, d) == \A y \in log : x.at[d] <= y.at[d] => IsAncestor(x, y)
Causal == \A x \in log : (\A y \in log : IsAncestor(x, y)) \/ \E d \in Clones : Known(x, d)

\* The tracking refs and the merges in progress are behind the remote.
RefsBehind ==
    \A c \in Clones : /\ IsAncestor(track[c], remote)
                      /\ \A t \in mergeHead[c] : IsAncestor(t, track[c])

\* What two checkouts have, the remote has.
SharedIsPushed ==
    \A x \in log : \A c, d \in Clones :
        c # d /\ IsAncestor(x, head[c]) /\ IsAncestor(x, head[d]) => IsAncestor(x, remote)

\* What h and the remote have in common, t has; and t is not in h.
Fresh(h, t) ==
    /\ ~IsAncestor(t, h)
    /\ \A x \in log : IsAncestor(x, h) /\ IsAncestor(x, remote) => IsAncestor(x, t)

\* A diverged checkout merges the upstream it has just fetched.
Diverged ==
    \A c \in Clones :
        /\ pc[c] \in {"snapFirst", "mergeCheck", "merge"} => Fresh(head[c], track[c])
        /\ \A t \in mergeHead[c] : Fresh(head[c], t)
        /\ pc[c] \in {"ffCheck", "ff"} => IsAncestor(head[c], track[c])

\* The greatest common ancestor of two commits.
Meets(a, b, m) ==
    /\ IsAncestor(m, a) /\ IsAncestor(m, b)
    /\ \A x \in log : IsAncestor(x, a) /\ IsAncestor(x, b) => IsAncestor(x, m)
HaveMeet(a, b) == \E m \in log : Meets(a, b, m)
Meet ==
    \A c \in Clones : /\ HaveMeet(head[c], remote)
                      /\ HaveMeet(head[c], track[c])
                      /\ \A t \in mergeHead[c] : HaveMeet(head[c], t)

History == /\ StampsDiffer /\ OwnNewest /\ Causal /\ RefsBehind /\ SharedIsPushed
           /\ Diverged /\ Meet

-----------------------------------------------------------------------------
(* Control. *)

\* Only a merge in progress is driven or resumed; only the push of a claim runs
\* beside one, and it never gets to a snapshot or a repair of its own.
Control ==
    \A c \in Clones :
        /\ pc[c] \in {"drive", "resume"} => MidMerge(c)
        /\ MidMerge(c) /\ pc[c] \notin Rest \cup {"drive", "resume"} => run[c].op = "push"
        /\ pc[c] \in {"resume", "integrity"} => run[c].op # "push" /\ ~run[c].retry
        /\ run[c].op = "push" /\ pc[c] \notin Rest \cup {"push"} => run[c].retry

-----------------------------------------------------------------------------
(* Work. *)

\* A work tree has the edits of HEAD and, in a merge, of the other side; so has
\* the index, and the work tree is never behind it.  An unmerged entry has
\* nothing more.
MergedEdits(c, t, f) == head[c].files[f].edits \cup t.files[f].edits
EditsHeld ==
    \A c \in Clones : \A f \in Files \ erased :
        /\ head[c].files[f].edits \subseteq tree[c][f].edits
        /\ \A t \in mergeHead[c] :
              /\ MergedEdits(c, t, f) \subseteq index[c][f].edits
              /\ index[c][f].edits \subseteq tree[c][f].edits
              /\ f \in unmerged[c] => index[c][f].edits \subseteq MergedEdits(c, t, f)

\* Markers are only in unmerged files, and never in a delete/edit.
MarksHeld ==
    \A c \in Clones : \A f \in Files :
        /\ tree[c][f].marks # "none" =>
              /\ f \in unmerged[c]
              /\ \A t \in mergeHead[c] : ~DeleteEdit(Sides(c, f, t))
        /\ index[c][f].marks # "none" => f \in unmerged[c]

\* The deletions the check before an integrate let pass: upstream has deleted the
\* file too, or has left it as it was.
PassedHeld ==
    \A c \in Clones : pc[c] \in {"ff", "merge"} => \A f \in run[c].passed :
        track[c].files[f] \in {Gone, MergeBase(head[c], track[c]).files[f], head[c].files[f]}

WorkHeld == CommittedWorkKept /\ NoMarkersCommitted /\ EditsHeld /\ MarksHeld /\ PassedHeld

\* A checkout without a run has nothing left to look at.
RestIdle == \A c \in Clones : pc[c] \in Rest => run[c].todo = {}

Typed == TypeOK /\ RestIdle

IInv == Typed /\ History /\ Control /\ WorkHeld

-----------------------------------------------------------------------------
(* Type correctness. *)

\* Texts and the first commit are well typed.
LEMMA RootType ==
    /\ Gone \in Text /\ Gone.edits = {} /\ Gone.marks = "none"
    /\ \A E \in SUBSET Nat : Plain(E) \in Text
    /\ Root \in Commits
  BY DEF Gone, Plain, Text, Marks, Root, Commits, Stamp

\* A run between two runs is well typed.
LEMMA IdleType ==
    /\ Idle \in Run /\ Idle.todo = {}
    /\ \A r \in Run : [Idle EXCEPT !.op = r.op] \in Run /\ [Idle EXCEPT !.op = r.op].todo = {}
  BY DEF Idle, Run

\* What a commit on top of two others is: above both, and ahead of everything
\* that had no more commits of its checkout.
LEMMA ChildFacts ==
    ASSUME NEW c \in Clones, NEW a \in Commits, NEW b \in Commits,
           NEW fs \in [Files -> Text]
    PROVE  /\ Child(c, a, b, fs) \in Commits
           /\ Child(c, a, b, fs).files = fs
           /\ IsAncestor(a, Child(c, a, b, fs)) /\ IsAncestor(b, Child(c, a, b, fs))
           /\ Child(c, a, b, fs).at[c] = Later(a.at[c], b.at[c]) + 1
           /\ \A d \in Clones \ {c} : Child(c, a, b, fs).at[d] = Later(a.at[d], b.at[d])
<1>1. /\ a.at \in [Clones -> Nat] /\ b.at \in [Clones -> Nat]
  BY DEF Commits, Stamp
<1>2. \A d \in Clones : /\ Later(a.at[d], b.at[d]) \in Nat
                        /\ a.at[d] <= Later(a.at[d], b.at[d])
                        /\ b.at[d] <= Later(a.at[d], b.at[d])
  BY <1>1 DEF Later
<1> DEFINE at == [d \in Clones |-> Later(a.at[d], b.at[d]) + IF d = c THEN 1 ELSE 0]
<1>3. at \in [Clones -> Nat]
  BY <1>2
<1>4. \A d \in Clones : a.at[d] <= at[d] /\ b.at[d] <= at[d]
  BY <1>1, <1>2
<1>5. at[c] = Later(a.at[c], b.at[c]) + 1 /\ \A d \in Clones \ {c} : at[d] = Later(a.at[d], b.at[d])
  BY <1>2
<1>6. Child(c, a, b, fs) = [at |-> at, files |-> fs]
  BY DEF Child
<1> HIDE DEF at
<1> QED
  BY <1>3, <1>4, <1>5, <1>6 DEF Commits, Stamp, IsAncestor

\* A run that fails, or succeeds, leaves well-typed control state.
LEMMA FailType ==
    ASSUME TypeOK, NEW c \in Clones, Fail(c) \/ (Succeed(c) /\ UNCHANGED marker)
    PROVE  /\ pc' \in [Clones -> Points] /\ run' \in [Clones -> Run]
           /\ marker' \in [Clones -> BOOLEAN]
           /\ pc'[c] \in Rest /\ run'[c].todo = {}
           /\ \A d \in Clones \ {c} : pc'[d] = pc[d] /\ run'[d] = run[d]
<1>1. [Idle EXCEPT !.op = run[c].op] \in Run /\ [Idle EXCEPT !.op = run[c].op].todo = {}
  BY IdleType DEF TypeOK
<1>2. run[c].retry \in BOOLEAN
  BY DEF TypeOK, Run
<1>3. run' \in [Clones -> Run] /\ run'[c].todo = {}
  BY <1>1 DEF TypeOK, Fail, Succeed
<1>4. marker' \in [Clones -> BOOLEAN]
  BY <1>2 DEF TypeOK, Fail
<1> QED
  BY <1>3, <1>4 DEF TypeOK, Fail, Succeed, Goto, Points, Rest

\* Checkout c makes the commit that has b and its HEAD below it.
NewCommit(c, b, fs) ==
    LET x == Child(c, head[c], b, fs)
    IN head' = [head EXCEPT ![c] = x] /\ log' = log \cup {x}

\* CommitPaths makes no commit, or one of the named paths.
LEMMA CommitPathsFacts ==
    ASSUME TypeOK, NEW c \in Clones, NEW F \in SUBSET Files, NEW t \in [Files -> Text],
           CommitPaths(c, F, t)
    PROVE  \/ UNCHANGED <<head, log>>
           \/ \E fs \in [Files -> Text] :
                 /\ NewCommit(c, head[c], fs)
                 /\ \A f \in Files : fs[f] \in {head[c].files[f], t[f]}
<1> DEFINE fs == [f \in Files |-> IF f \in F THEN t[f] ELSE head[c].files[f]]
<1>1. head[c] \in Commits
  BY DEF TypeOK
<1>2. fs \in [Files -> Text]
  BY <1>1 DEF Commits
<1>3. CASE UNCHANGED <<head, log>>
  BY <1>3
<1>4. CASE NewCommit(c, head[c], fs)
  BY <1>2, <1>4
<1> QED
  BY <1>3, <1>4 DEF CommitPaths, NewCommit

\* A commit keeps log and refs well typed.
LEMMA NewCommitType ==
    ASSUME TypeOK, NEW c \in Clones, NEW b \in log, NEW fs \in [Files -> Text],
           NewCommit(c, b, fs)
    PROVE  /\ log' \subseteq Commits /\ log \subseteq log'
           /\ head' \in [Clones -> log']
           /\ head'[c] = Child(c, head[c], b, fs)
           /\ \A d \in Clones \ {c} : head'[d] = head[d]
<1>1. head[c] \in Commits /\ b \in Commits
  BY DEF TypeOK
<1>2. Child(c, head[c], b, fs) \in Commits
  BY <1>1, ChildFacts
<1> QED
  BY <1>2 DEF TypeOK, NewCommit

LEMMA CommitPathsType ==
    ASSUME TypeOK, NEW c \in Clones, NEW F \in SUBSET Files, NEW t \in [Files -> Text],
           CommitPaths(c, F, t)
    PROVE  /\ log' \subseteq Commits /\ log \subseteq log' /\ head' \in [Clones -> log']
           /\ \A d \in Clones \ {c} : head'[d] = head[d]
<1>1. CASE UNCHANGED <<head, log>>
  BY <1>1 DEF TypeOK
<1>2. CASE \E fs \in [Files -> Text] : NewCommit(c, head[c], fs)
  <2>1. PICK fs \in [Files -> Text] : NewCommit(c, head[c], fs)
    BY <1>2
  <2>2. head[c] \in log
    BY DEF TypeOK
  <2> QED
    BY <2>1, <2>2, NewCommitType
<1>3. UNCHANGED <<head, log>> \/ \E fs \in [Files -> Text] : NewCommit(c, head[c], fs)
  BY CommitPathsFacts
<1> QED
  BY <1>1, <1>2, <1>3

\* Commits that exist are commits.
LEMMA CommitType ==
    ASSUME TypeOK, NEW x \in log
    PROVE  x \in Commits /\ x.at \in [Clones -> Nat] /\ x.files \in [Files -> Text]
<1>1. x \in Commits
  BY DEF TypeOK
<1> QED
  BY <1>1 DEF Commits, Stamp

\* The other variables of a checkout are well typed after a commit.
LEMMA RefsType ==
    ASSUME TypeOK, log \subseteq log'
    PROVE  /\ remote \in log' /\ track \in [Clones -> log'] /\ head \in [Clones -> log']
           /\ mergeHead \in [Clones -> {{}} \cup {{x} : x \in log'}]
<1>1. {{}} \cup {{x} : x \in log} \subseteq {{}} \cup {{x} : x \in log'}
  OBVIOUS
<1> QED
  BY <1>1 DEF TypeOK

\* The commit that is being merged exists.
LEMMA TheirsType ==
    ASSUME TypeOK, NEW c \in Clones
    PROVE  /\ \A t \in mergeHead[c] : t \in log /\ mergeHead[c] = {t} /\ Theirs(c) = t
           /\ MidMerge(c) => Theirs(c) \in mergeHead[c]
  BY DEF TypeOK, MidMerge, Theirs

\* Rewriting a file keeps its markers and adds an edit.
LEMMA RetextFacts ==
    ASSUME TypeOK, NEW c \in Clones, NEW f \in Files
    PROVE  /\ Retext(c, f) \in Text /\ Retext(c, f).marks = tree[c][f].marks
           /\ tree[c][f].edits \subseteq Retext(c, f).edits
           /\ [tree[c] EXCEPT ![f] = Retext(c, f)] \in [Files -> Text]
<1>1. tree[c] \in [Files -> Text] /\ tree[c][f] \in Text
  BY DEF TypeOK
<1>2. made + 1 \in Nat
  BY EditAssumption DEF TypeOK
<1> QED
  BY <1>1, <1>2 DEF Retext, Text

\* What the driver composes is a text.
LEMMA SidesType ==
    ASSUME TypeOK, NEW c \in Clones, NEW f \in Files, NEW t \in log
    PROVE  /\ Sides(c, f, t).o = head[c].files[f] /\ Sides(c, f, t).t = t.files[f]
           /\ Sides(c, f, t).b = MergeBase(head[c], t).files[f]
           /\ Sides(c, f, t).o \in Text /\ Sides(c, f, t).t \in Text
           /\ Sides(c, f, t).o.edits \cup Sides(c, f, t).t.edits \in SUBSET Nat
<1>1. head[c] \in Commits /\ t \in Commits
  BY DEF TypeOK
<1> QED
  BY <1>1 DEF Sides, Commits, Text

\* What git leaves of a file is a text.
LEMMA GitResultsType ==
    ASSUME TypeOK, NEW c \in Clones, NEW f \in Files, NEW s, s.o \in Text, s.t \in Text
    PROVE  GitResults(c, f, s) \subseteq Text
<1>1. \A m \in Marks : [edits |-> s.o.edits \cup s.t.edits, marks |-> m] \in Text
  BY DEF Text
<1>2. tree[c][f] \in Text
  BY DEF TypeOK
<1>3. {"none", "body"} \subseteq Marks
  BY DEF Marks
<1>4. CASE ~Contested(s)
  BY <1>4 DEF GitResults
<1>5. CASE Contested(s) /\ DeleteEdit(s)
  BY <1>2, <1>5 DEF GitResults
<1>6. CASE Contested(s) /\ ~DeleteEdit(s)
  BY <1>1, <1>3, <1>6 DEF GitResults
<1> QED
  BY <1>4, <1>5, <1>6

\* What a merge does to the checkout, with the result r[f] for every file.
Stuck(c, r) ==
    {f \in Touched(c) : /\ Contested(Sides(c, f, track[c]))
                        /\ DeleteEdit(Sides(c, f, track[c])) \/ r[f].marks # "none"}
MergeStarts(c, r) ==
    /\ pc[c] = "merge" /\ ~MidMerge(c) /\ ~Overwrites(c, Touched(c))
    /\ tree' = [tree EXCEPT ![c] = [f \in Files |-> IF f \in Touched(c) THEN r[f] ELSE tree[c][f]]]
    /\ index' = [index EXCEPT ![c] = r]
    /\ unmerged' = [unmerged EXCEPT ![c] = Stuck(c, r)]
    /\ run' = [run EXCEPT ![c].todo = Stuck(c, r), ![c].passed = {}]
    /\ mergeHead' = [mergeHead EXCEPT ![c] = {track[c]}]
    /\ Goto(c, "drive")
    /\ UNCHANGED <<log, remote, head, track, marker, made, faults, erased>>
LEMMA MergeFacts ==
    ASSUME TypeOK, NEW c \in Clones, Merge(c)
    PROVE  \E r \in [Files -> Text] :
             /\ MergeStarts(c, r)
             /\ \A f \in Touched(c) : r[f] \in GitResults(c, f, Sides(c, f, track[c]))
             /\ \A f \in Files \ Touched(c) : r[f] = head[c].files[f]
<1> DEFINE side == [f \in Files |-> Sides(c, f, track[c])]
           res == [f \in Files |-> IF f \in Touched(c) THEN GitResults(c, f, side[f])
                                   ELSE {head[c].files[f]}]
           G == {g \in [Files -> UNION {res[f] : f \in Files}] : \A f \in Files : g[f] \in res[f]}
           stuck(r) == {f \in Touched(c) : Contested(side[f])
                            /\ (DeleteEdit(side[f]) \/ r[f].marks # "none")}
<1>1. PICK r \in G :
        /\ tree' = [tree EXCEPT ![c] = [f \in Files |-> IF f \in Touched(c) THEN r[f] ELSE tree[c][f]]]
        /\ index' = [index EXCEPT ![c] = r]
        /\ unmerged' = [unmerged EXCEPT ![c] = stuck(r)]
        /\ run' = [run EXCEPT ![c].todo = stuck(r), ![c].passed = {}]
  BY DEF Merge
<1>2. Touched(c) \subseteq Files
  BY DEF Touched
<1>3. stuck(r) = Stuck(c, r)
  BY <1>2 DEF Stuck
<1>4. \A f \in Touched(c) : r[f] \in GitResults(c, f, Sides(c, f, track[c]))
  BY <1>2
<1>5. \A f \in Files \ Touched(c) : r[f] = head[c].files[f]
  OBVIOUS
<1>6. \A f \in Files : r[f] \in Text
  <2>1. track[c] \in log /\ head[c].files \in [Files -> Text]
    BY DEF TypeOK, Commits
  <2> QED
    BY <2>1, <1>2, <1>4, <1>5, GitResultsType, SidesType
<1>7. r \in [Files -> Text]
  BY <1>6
<1>8. MergeStarts(c, r)
  BY <1>1, <1>3 DEF Merge, MergeStarts
<1> QED
  BY <1>4, <1>5, <1>7, <1>8

\* What the stop at one unmerged file does: nothing; the driver's text, staged or
\* with markers in the body; or the human's text, staged.
Composed(c, f, m) == [edits |-> MergedEdits(c, Theirs(c), f), marks |-> m]
StopKeeps(c, f) == Keep
StopMerges(c, f) ==
    /\ Driven(c, f) /\ ~DeleteEdit(Sides(c, f, Theirs(c)))
    /\ tree' = [tree EXCEPT ![c][f] = Composed(c, f, "none")]
    /\ Staged(c, f, Composed(c, f, "none"))
StopMarks(c, f) ==
    /\ Driven(c, f) /\ ~DeleteEdit(Sides(c, f, Theirs(c)))
    /\ tree' = [tree EXCEPT ![c][f] = Composed(c, f, "body")]
    /\ UNCHANGED <<index, unmerged>>
StopTakes(c, f) ==
    TakenAsResolved(c, f) /\ Staged(c, f, tree[c][f]) /\ UNCHANGED tree
LEMMA StopFacts ==
    ASSUME TypeOK, NEW c \in Clones, NEW f \in Files, DriveStop(c, f), MidMerge(c)
    PROVE  /\ f \in unmerged[c] /\ f \in run[c].todo
           /\ run' = [run EXCEPT ![c].todo = @ \ {f}]
           /\ StopKeeps(c, f) \/ StopMerges(c, f) \/ StopMarks(c, f) \/ StopTakes(c, f)
<1> DEFINE s == Sides(c, f, Theirs(c))
           merged == [edits |-> s.o.edits \cup s.t.edits, marks |-> "none"]
<1>1. Theirs(c) \in log
  BY TheirsType
<1>2. s.o.edits \cup s.t.edits = MergedEdits(c, Theirs(c), f)
  BY <1>1, SidesType DEF MergedEdits
<1>3. merged = Composed(c, f, "none") /\ [merged EXCEPT !.marks = "body"] = Composed(c, f, "body")
  <2>1. merged = Composed(c, f, "none")
    BY <1>2 DEF Composed
  <2>2. \A E : [[edits |-> E, marks |-> "none"] EXCEPT !.marks = "body"] = [edits |-> E, marks |-> "body"]
    OBVIOUS
  <2> QED
    BY <2>1, <2>2 DEF Composed
<1>4. f \in run[c].todo /\ f \in unmerged[c] /\ run' = [run EXCEPT ![c].todo = @ \ {f}]
  BY DEF DriveStop, Stop, Next1, TypeOK
<1>5. ASSUME Driven(c, f)
      PROVE  StopKeeps(c, f) \/ StopMerges(c, f) \/ StopMarks(c, f)
  <2>1. Drive(c, f)
    BY <1>5 DEF DriveStop, Stop
  <2>2. CASE DeleteEdit(s)
    BY <2>1, <2>2 DEF Drive, StopKeeps
  <2>3. CASE ~DeleteEdit(s)
    BY <2>1, <2>3, <1>3, <1>5 DEF Drive, StopKeeps, StopMerges, StopMarks
  <2> QED
    BY <2>2, <2>3
<1>6. ASSUME ~Driven(c, f)
      PROVE  StopKeeps(c, f) \/ StopTakes(c, f)
  BY <1>6 DEF DriveStop, Stop, StopKeeps, StopTakes
<1> QED
  BY <1>4, <1>5, <1>6

\* The composed text is a text.
LEMMA ComposedType ==
    ASSUME TypeOK, NEW c \in Clones, NEW f \in Files, MidMerge(c), NEW m \in Marks
    PROVE  Composed(c, f, m) \in Text
<1>1. head[c] \in Commits /\ Theirs(c) \in Commits
  BY TheirsType DEF TypeOK
<1> QED
  BY <1>1 DEF Composed, MergedEdits, Commits, Text

\* Staging a text keeps index and unmerged paths well typed.
LEMMA StagedType ==
    ASSUME TypeOK, NEW c \in Clones, NEW f \in Files, NEW text \in Text, Staged(c, f, text)
    PROVE  /\ index' \in [Clones -> [Files -> Text]]
           /\ unmerged' \in [Clones -> SUBSET Files]
           /\ unmerged'[c] = unmerged[c] \ {f}
           /\ \A d \in Clones \ {c} : unmerged'[d] = unmerged[d] /\ index'[d] = index[d]
           /\ index'[c] = [index[c] EXCEPT ![f] = text]
  BY DEF TypeOK, Staged

\* A step of a run that touches only control state.
LEMMA TypedControl ==
    ASSUME Typed, NEW c \in Clones,
           UNCHANGED <<log, checkouts, erased>>,
           remote' \in log, made' \in 0..MaxEdits, faults' \in 0..MaxFaults,
           marker' \in [Clones -> BOOLEAN],
           pc' \in [Clones -> Points], run' \in [Clones -> Run],
           run'[c].todo \subseteq unmerged[c],
           pc'[c] \in Rest => run'[c].todo = {},
           \A d \in Clones \ {c} : pc'[d] = pc[d] /\ run'[d] = run[d]
    PROVE  Typed'
<1>1. UNCHANGED <<log, head, track, tree, index, unmerged, mergeHead, erased>>
  BY DEF checkouts
<1>2. \A d \in Clones : /\ run'[d].todo \subseteq unmerged'[d]
                        /\ unmerged'[d] # {} => MidMerge(d)'
                        /\ pc'[d] \in Rest => run'[d].todo = {}
  BY <1>1 DEF Typed, TypeOK, MidMerge, RestIdle
<1> QED
  BY <1>1, <1>2 DEF Typed, TypeOK, RestIdle

\* A step of the user, or of a run that moves nothing but refs and files.
LEMMA TypedFiles ==
    ASSUME Typed, UNCHANGED <<unmerged, mergeHead, marker, pc, run>>,
           log' \subseteq Commits, log \subseteq log',
           remote' \in log', head' \in [Clones -> log'], track' \in [Clones -> log'],
           tree' \in [Clones -> [Files -> Text]], index' \in [Clones -> [Files -> Text]],
           made' \in 0..MaxEdits, faults' \in 0..MaxFaults, erased' \subseteq Files
    PROVE  Typed'
<1>1. mergeHead' \in [Clones -> {{}} \cup {{x} : x \in log'}]
  BY RefsType DEF Typed
<1>2. \A d \in Clones : /\ run'[d].todo \subseteq unmerged'[d]
                        /\ unmerged'[d] # {} => MidMerge(d)'
                        /\ pc'[d] \in Rest => run'[d].todo = {}
  BY DEF Typed, TypeOK, MidMerge, RestIdle
<1> QED
  BY <1>1, <1>2 DEF Typed, TypeOK, RestIdle

\* The start of a run keeps the types.
LEMMA BeginTyped ==
    ASSUME Typed, NEW c \in Clones, Begin(c)
    PROVE  Typed'
<1>0. TypeOK /\ unmerged[c] \subseteq Files /\ remote \in log
  BY DEF Typed, TypeOK
<1>1. CASE SyncBegin(c)
  <2>1. PICK k \in Commands : k.op = "sync" /\
          run' = [run EXCEPT ![c] = [Idle EXCEPT !.scope = k.scope, !.todo = unmerged[c]]]
    BY <1>1 DEF SyncBegin
  <2>2. [Idle EXCEPT !.scope = k.scope, !.todo = unmerged[c]] \in Run
    BY <1>0, CommandsAssumption DEF Idle, Run
  <2>3. [Idle EXCEPT !.scope = k.scope, !.todo = unmerged[c]].todo = unmerged[c]
    BY DEF Idle
  <2>4. run' \in [Clones -> Run] /\ run'[c].todo = unmerged[c]
        /\ \A d \in Clones \ {c} : run'[d] = run[d]
    BY <1>0, <2>1, <2>2, <2>3 DEF TypeOK
  <2>5. pc' \in [Clones -> Points] /\ pc'[c] \notin Rest /\ \A d \in Clones \ {c} : pc'[d] = pc[d]
    BY <1>0, <1>1 DEF SyncBegin, Goto, TypeOK, Points, Rest
  <2> QED
    BY <1>0, <1>1, <2>4, <2>5, TypedControl DEF SyncBegin, TypeOK
<1>2. ASSUME NEW o \in {"refresh", "push"}, NEW l \in {"fetch", "push"},
             run' = [run EXCEPT ![c] = [Idle EXCEPT !.op = o]], Goto(c, l),
             UNCHANGED <<log, remote, checkouts, marker, made, faults, erased>>
      PROVE  Typed'
  <2>1. [Idle EXCEPT !.op = o] \in Run /\ [Idle EXCEPT !.op = o].todo = {}
    BY DEF Idle, Run
  <2>2. run' \in [Clones -> Run] /\ run'[c].todo = {}
        /\ \A d \in Clones \ {c} : run'[d] = run[d]
    BY <1>0, <1>2, <2>1 DEF TypeOK
  <2>3. pc' \in [Clones -> Points] /\ \A d \in Clones \ {c} : pc'[d] = pc[d]
    BY <1>0, <1>2 DEF Goto, TypeOK, Points, Rest
  <2> QED
    BY <1>0, <1>2, <2>2, <2>3, TypedControl DEF TypeOK
<1> QED
  BY <1>1, <1>2 DEF Begin, RefreshBegin, PushBegin

\* A run that ends, and a fault, keep the types.
LEMMA EndTyped ==
    ASSUME Typed, NEW c \in Clones, Fail(c) \/ (Succeed(c) /\ UNCHANGED marker),
           UNCHANGED <<log, checkouts, made, erased>>,
           remote' \in log, Fault \/ UNCHANGED faults
    PROVE  Typed'
<1>1. TypeOK /\ made' \in 0..MaxEdits
  BY DEF Typed, TypeOK
<1>2. faults' \in 0..MaxFaults
  BY <1>1, FaultAssumption DEF TypeOK, Fault
<1>3. /\ pc' \in [Clones -> Points] /\ run' \in [Clones -> Run]
      /\ marker' \in [Clones -> BOOLEAN]
      /\ run'[c].todo = {}
      /\ \A d \in Clones \ {c} : pc'[d] = pc[d] /\ run'[d] = run[d]
  BY <1>1, FailType
<1> QED
  BY <1>1, <1>2, <1>3, TypedControl

\* A change of the run's record that leaves its conflicts alone.
LEMMA RunFieldType ==
    ASSUME TypeOK, NEW c \in Clones
    PROVE  /\ \A F \in SUBSET Files : [run[c] EXCEPT !.passed = F] \in Run
                                      /\ [run[c] EXCEPT !.passed = F].todo = run[c].todo
           /\ [run[c] EXCEPT !.retry = TRUE] \in Run
           /\ [run[c] EXCEPT !.retry = TRUE].todo = run[c].todo
           /\ \A F \in SUBSET Files : [run[c] EXCEPT !.todo = F] \in Run
                                      /\ [run[c] EXCEPT !.todo = F].todo = F
           /\ \A F \in SUBSET Files : [run[c] EXCEPT !.todo = F, !.passed = {}] \in Run
                                      /\ [run[c] EXCEPT !.todo = F, !.passed = {}].todo = F
           /\ run[c].todo \subseteq unmerged[c]
<1>1. run[c] \in Run /\ run[c].todo \subseteq unmerged[c]
  BY DEF TypeOK
<1> QED
  BY <1>1 DEF Run

\* The fetch and the classification go on to a known place.
LEMMA FetchTyped ==
    ASSUME Typed, NEW c \in Clones, Fetch(c)
    PROVE  Typed'
<1>1. TypeOK
  BY DEF Typed
<1>2. CompareUpstream(head[c], remote) \in Points \ Rest
  BY DEF CompareUpstream, Points, Rest
<1>3. pc' \in [Clones -> Points] /\ pc'[c] \notin Rest /\ \A d \in Clones \ {c} : pc'[d] = pc[d]
  BY <1>1, <1>2 DEF Fetch, Goto, TypeOK
<1>4. track' \in [Clones -> log]
  BY <1>1 DEF Fetch, TypeOK
<1>5. \A d \in Clones : /\ run'[d].todo \subseteq unmerged'[d]
                        /\ unmerged'[d] # {} => MidMerge(d)'
                        /\ pc'[d] \in Rest => run'[d].todo = {}
  BY <1>3 DEF Fetch, Typed, TypeOK, MidMerge, RestIdle
<1> QED
  BY <1>1, <1>3, <1>4, <1>5 DEF Fetch, Typed, TypeOK, RestIdle

LEMMA SnapshotTyped ==
    ASSUME Typed, NEW c \in Clones, Snapshot(c)
    PROVE  Typed'
<1>1. TypeOK /\ tree[c] \in [Files -> Text] /\ head[c] \in log
  BY DEF Typed, TypeOK
<1>2. SnapshotFiles(c) \in SUBSET Files
  BY DEF SnapshotFiles
<1>3. log' \subseteq Commits /\ log \subseteq log' /\ head' \in [Clones -> log']
  BY <1>1, <1>2, CommitPathsType DEF Snapshot
<1>4. pc' \in [Clones -> Points] /\ pc'[c] \notin Rest /\ \A d \in Clones \ {c} : pc'[d] = pc[d]
  BY <1>1 DEF Snapshot, AfterIntegrate, Goto, TypeOK, Points, Rest
<1>5. /\ remote \in log' /\ track \in [Clones -> log']
      /\ mergeHead \in [Clones -> {{}} \cup {{x} : x \in log'}]
  BY <1>1, <1>3, RefsType
<1>6. \A d \in Clones : /\ run'[d].todo \subseteq unmerged'[d]
                        /\ unmerged'[d] # {} => MidMerge(d)'
                        /\ pc'[d] \in Rest => run'[d].todo = {}
  BY <1>4 DEF Snapshot, Typed, TypeOK, MidMerge, RestIdle
<1> QED
  BY <1>1, <1>3, <1>4, <1>5, <1>6 DEF Snapshot, Typed, TypeOK, RestIdle

LEMMA DeletionCheckTyped ==
    ASSUME Typed, NEW c \in Clones, DeletionCheck(c)
    PROVE  Typed'
<1>1. TypeOK /\ remote \in log
  BY DEF Typed, TypeOK
<1>2. CASE Fail(c)
  BY <1>1, <1>2, EndTyped DEF DeletionCheck
<1>3. CASE ~Fail(c)
  <2> DEFINE F == {f \in Files : tree[c][f] = Gone /\ Dirty(c, f)}
  <2>1. /\ run' = [run EXCEPT ![c].passed = F] /\ UNCHANGED marker
        /\ Goto(c, IF pc[c] = "ffCheck" THEN "ff" ELSE "merge")
    BY <1>3 DEF DeletionCheck
  <2>2. /\ run' \in [Clones -> Run] /\ run'[c].todo \subseteq unmerged[c]
        /\ \A d \in Clones \ {c} : run'[d] = run[d]
    BY <1>1, <2>1, RunFieldType DEF TypeOK
  <2>3. pc' \in [Clones -> Points] /\ pc'[c] \notin Rest /\ \A d \in Clones \ {c} : pc'[d] = pc[d]
    BY <1>1, <2>1 DEF Goto, TypeOK, Points, Rest
  <2> QED
    BY <1>1, <2>1, <2>2, <2>3, TypedControl DEF DeletionCheck, TypeOK
<1> QED
  BY <1>2, <1>3

LEMMA FastForwardTyped ==
    ASSUME Typed, NEW c \in Clones, FastForward(c)
    PROVE  Typed'
<1>0. TypeOK /\ track[c] \in log
  BY DEF Typed, TypeOK
<1>1. TypeOK /\ track[c] \in log /\ track[c].files \in [Files -> Text]
  BY <1>0, CommitType
<1>2. head' \in [Clones -> log] /\ tree' \in [Clones -> [Files -> Text]]
  BY <1>1 DEF FastForward, TypeOK
<1>3. run' \in [Clones -> Run] /\ \A d \in Clones : run'[d].todo = run[d].todo
  BY ZenonT(60), <1>1, RunFieldType DEF FastForward, TypeOK
<1>4. pc' \in [Clones -> Points] /\ pc'[c] \notin Rest /\ \A d \in Clones \ {c} : pc'[d] = pc[d]
  BY <1>1 DEF FastForward, Goto, TypeOK, Points, Rest
<1>5. \A d \in Clones : /\ run'[d].todo \subseteq unmerged'[d]
                        /\ unmerged'[d] # {} => MidMerge(d)'
                        /\ pc'[d] \in Rest => run'[d].todo = {}
  BY <1>3, <1>4 DEF FastForward, Typed, TypeOK, MidMerge, RestIdle
<1> QED
  BY <1>1, <1>2, <1>3, <1>4, <1>5 DEF FastForward, Typed, TypeOK, RestIdle

LEMMA MergeTyped ==
    ASSUME Typed, NEW c \in Clones, Merge(c)
    PROVE  Typed'
<1>1. TypeOK /\ track[c] \in log
  BY DEF Typed, TypeOK
<1>2. PICK r \in [Files -> Text] : MergeStarts(c, r)
  BY <1>1, MergeFacts
<1>3. Stuck(c, r) \in SUBSET Files
  BY DEF Stuck, Touched
<1>4. /\ tree' \in [Clones -> [Files -> Text]] /\ index' \in [Clones -> [Files -> Text]]
      /\ unmerged' \in [Clones -> SUBSET Files] /\ unmerged'[c] = Stuck(c, r)
      /\ \A d \in Clones \ {c} : unmerged'[d] = unmerged[d]
  BY <1>1, <1>2, <1>3 DEF MergeStarts, TypeOK
<1>5. /\ run' \in [Clones -> Run] /\ run'[c].todo = Stuck(c, r)
      /\ \A d \in Clones \ {c} : run'[d] = run[d]
  BY ZenonT(60), <1>1, <1>2, <1>3, RunFieldType DEF MergeStarts, TypeOK
<1>6. /\ mergeHead' \in [Clones -> {{}} \cup {{x} : x \in log}] /\ mergeHead'[c] # {}
      /\ \A d \in Clones \ {c} : mergeHead'[d] = mergeHead[d]
  BY <1>1, <1>2 DEF MergeStarts, TypeOK
<1>7. pc' \in [Clones -> Points] /\ pc'[c] \notin Rest /\ \A d \in Clones \ {c} : pc'[d] = pc[d]
  BY <1>1, <1>2 DEF MergeStarts, Goto, TypeOK, Points, Rest
<1>8. \A d \in Clones : /\ run'[d].todo \subseteq unmerged'[d]
                        /\ unmerged'[d] # {} => MidMerge(d)'
                        /\ pc'[d] \in Rest => run'[d].todo = {}
  BY <1>4, <1>5, <1>6, <1>7 DEF Typed, TypeOK, MidMerge, RestIdle
<1> QED
  BY <1>1, <1>2, <1>4, <1>5, <1>6, <1>7, <1>8 DEF MergeStarts, Typed, TypeOK, RestIdle

LEMMA DriveStopTyped ==
    ASSUME Typed, NEW c \in Clones, NEW f \in Files, DriveStop(c, f)
    PROVE  Typed'
<1>1. TypeOK /\ tree[c] \in [Files -> Text] /\ tree[c][f] \in Text
  BY DEF Typed, TypeOK
<1>2. MidMerge(c)
  BY DEF Typed, TypeOK, DriveStop, Stop, Next1
<1>3. /\ f \in unmerged[c] /\ run' = [run EXCEPT ![c].todo = @ \ {f}]
      /\ StopKeeps(c, f) \/ StopMerges(c, f) \/ StopMarks(c, f) \/ StopTakes(c, f)
  BY <1>1, <1>2, StopFacts
<1>4. Composed(c, f, "none") \in Text /\ Composed(c, f, "body") \in Text
  BY <1>1, <1>2, ComposedType DEF Marks
<1>5. tree' \in [Clones -> [Files -> Text]]
  <2>1. CASE StopKeeps(c, f) \/ StopTakes(c, f)
    BY <1>1, <2>1 DEF StopKeeps, StopTakes, Keep, TypeOK
  <2>2. CASE StopMerges(c, f)
    BY <1>1, <1>4, <2>2 DEF StopMerges, TypeOK
  <2>3. CASE StopMarks(c, f)
    BY <1>1, <1>4, <2>3 DEF StopMarks, TypeOK
  <2> QED
    BY <1>3, <2>1, <2>2, <2>3
<1>6. /\ index' \in [Clones -> [Files -> Text]] /\ unmerged' \in [Clones -> SUBSET Files]
      /\ unmerged'[c] \in {unmerged[c], unmerged[c] \ {f}}
      /\ \A d \in Clones \ {c} : unmerged'[d] = unmerged[d]
  <2>1. CASE StopKeeps(c, f) \/ StopMarks(c, f)
    BY <1>1, <2>1 DEF StopKeeps, StopMarks, Keep, TypeOK
  <2>2. CASE StopMerges(c, f) \/ StopTakes(c, f)
    BY <1>1, <1>4, <2>2, StagedType DEF StopMerges, StopTakes
  <2> QED
    BY <1>3, <2>1, <2>2
<1>7. run[c].todo \ {f} \in SUBSET Files /\ run[c].todo \subseteq unmerged[c]
  BY <1>1 DEF TypeOK
<1>8. /\ run' \in [Clones -> Run] /\ run'[c].todo = run[c].todo \ {f}
      /\ \A d \in Clones \ {c} : run'[d] = run[d]
  BY <1>1, <1>3, <1>7, RunFieldType DEF TypeOK
<1>9. \A d \in Clones : /\ run'[d].todo \subseteq unmerged'[d]
                        /\ unmerged'[d] # {} => MidMerge(d)'
                        /\ pc'[d] \in Rest => run'[d].todo = {}
  BY <1>2, <1>6, <1>7, <1>8 DEF DriveStop, Typed, TypeOK, MidMerge, RestIdle
<1> QED
  BY <1>1, <1>5, <1>6, <1>8, <1>9 DEF DriveStop, Typed, TypeOK, RestIdle

LEMMA DriveDiesTyped ==
    ASSUME Typed, NEW c \in Clones, NEW f \in Files, DriveDies(c, f)
    PROVE  /\ Typed' /\ f \in unmerged[c] /\ MidMerge(c)
           /\ tree' = [tree EXCEPT ![c][f] = Composed(c, f, "none")]
<1>1. TypeOK
  BY DEF Typed
<1>2. MidMerge(c) /\ f \in unmerged[c]
  BY DEF Typed, TypeOK, DriveDies, Next1
<1>3. Theirs(c) \in log
  BY <1>1, <1>2, TheirsType
<1>4. Plain(Sides(c, f, Theirs(c)).o.edits \cup Sides(c, f, Theirs(c)).t.edits) = Composed(c, f, "none")
  BY <1>1, <1>3, SidesType DEF Plain, Composed, MergedEdits
<1>5. tree' = [tree EXCEPT ![c][f] = Composed(c, f, "none")]
  BY <1>4 DEF DriveDies
<1>6. tree' \in [Clones -> [Files -> Text]]
  BY <1>1, <1>2, <1>5, ComposedType DEF Marks, TypeOK
<1>7. [Idle EXCEPT !.op = run[c].op] \in Run /\ [Idle EXCEPT !.op = run[c].op].todo = {}
  BY <1>1, IdleType DEF TypeOK
<1>8. /\ run' \in [Clones -> Run] /\ run'[c].todo = {}
      /\ \A d \in Clones \ {c} : run'[d] = run[d]
  BY <1>1, <1>7 DEF DriveDies, TypeOK
<1>9. pc' \in [Clones -> Points] /\ \A d \in Clones \ {c} : pc'[d] = pc[d]
  BY <1>1 DEF DriveDies, Goto, TypeOK, Points, Rest
<1>10. faults' \in 0..MaxFaults
  BY <1>1, FaultAssumption DEF TypeOK, DriveDies, Fault
<1>11. \A d \in Clones : /\ run'[d].todo \subseteq unmerged'[d]
                         /\ unmerged'[d] # {} => MidMerge(d)'
                         /\ pc'[d] \in Rest => run'[d].todo = {}
  BY <1>8, <1>9 DEF DriveDies, Typed, TypeOK, MidMerge, RestIdle
<1> QED
  BY <1>1, <1>2, <1>5, <1>6, <1>8, <1>9, <1>10, <1>11 DEF DriveDies, Typed, TypeOK, RestIdle

\* A merge commit has the index as its files and the merged commit below it.
LEMMA MergeCommitFacts ==
    ASSUME TypeOK, Control, NEW c \in Clones, MergeCommit(c)
    PROVE  /\ Theirs(c) \in log /\ mergeHead[c] = {Theirs(c)}
           /\ index[c] \in [Files -> Text]
           /\ NewCommit(c, Theirs(c), index[c])
<1>1. MidMerge(c)
  BY DEF Control, MergeCommit
<1> QED
  BY <1>1, TheirsType DEF MergeCommit, NewCommit, TypeOK

LEMMA MergeCommitTyped ==
    ASSUME Typed, Control, NEW c \in Clones, MergeCommit(c)
    PROVE  Typed'
<1>1. TypeOK
  BY DEF Typed
<1>2. log' \subseteq Commits /\ log \subseteq log' /\ head' \in [Clones -> log']
  BY <1>1, MergeCommitFacts, NewCommitType
<1>3. /\ remote \in log' /\ track \in [Clones -> log']
      /\ mergeHead \in [Clones -> {{}} \cup {{x} : x \in log'}]
  BY <1>1, <1>2, RefsType
<1>4. /\ mergeHead' \in [Clones -> {{}} \cup {{x} : x \in log'}]
      /\ \A d \in Clones \ {c} : mergeHead'[d] = mergeHead[d]
  BY <1>1, <1>3 DEF MergeCommit, TypeOK
<1>5. Root.files \in [Files -> Text]
  BY RootType DEF Commits
<1>6. index' \in [Clones -> [Files -> Text]]
  BY <1>1, <1>5 DEF MergeCommit, TypeOK
<1>7. pc' \in [Clones -> Points] /\ pc'[c] \notin Rest /\ \A d \in Clones \ {c} : pc'[d] = pc[d]
  BY <1>1 DEF MergeCommit, AfterIntegrate, Goto, TypeOK, Points, Rest
<1>8. \A d \in Clones : /\ run'[d].todo \subseteq unmerged'[d]
                        /\ unmerged'[d] # {} => MidMerge(d)'
                        /\ pc'[d] \in Rest => run'[d].todo = {}
  BY <1>4, <1>7 DEF MergeCommit, Typed, TypeOK, MidMerge, RestIdle
<1> QED
  BY <1>1, <1>2, <1>3, <1>4, <1>6, <1>7, <1>8 DEF MergeCommit, Typed, TypeOK, RestIdle

LEMMA IntegrityTyped ==
    ASSUME Typed, NEW c \in Clones, Integrity(c)
    PROVE  Typed'
<1>1. TypeOK /\ remote \in log
  BY DEF Typed, TypeOK
<1>2. CASE Succeed(c)
  BY <1>1, <1>2, EndTyped DEF Integrity
<1>3. CASE ~Succeed(c)
  <2>1. Goto(c, "push") /\ UNCHANGED run
    BY <1>3 DEF Integrity, AfterIntegrity
  <2>2. pc' \in [Clones -> Points] /\ pc'[c] \notin Rest /\ \A d \in Clones \ {c} : pc'[d] = pc[d]
    BY <1>1, <2>1 DEF Goto, TypeOK, Points, Rest
  <2> QED
    BY <1>1, <2>1, <2>2, TypedControl DEF Integrity, TypeOK
<1> QED
  BY <1>2, <1>3

\* A file that is rewritten and committed, by a repair or a write verb.
LEMMA RewriteType ==
    ASSUME TypeOK, NEW c \in Clones, NEW f \in Files, made < MaxEdits,
           tree' = [tree EXCEPT ![c][f] = Retext(c, f)],
           CommitPaths(c, {f}, [tree[c] EXCEPT ![f] = Retext(c, f)])
    PROVE  /\ tree' \in [Clones -> [Files -> Text]]
           /\ log' \subseteq Commits /\ log \subseteq log' /\ head' \in [Clones -> log']
           /\ made + 1 \in 0..MaxEdits
<1>1. tree[c] \in [Files -> Text] /\ [tree[c] EXCEPT ![f] = Retext(c, f)] \in [Files -> Text]
  BY RetextFacts DEF TypeOK
<1>2. tree' \in [Clones -> [Files -> Text]]
  BY <1>1 DEF TypeOK
<1>3. made + 1 \in 0..MaxEdits
  BY EditAssumption DEF TypeOK
<1> QED
  BY <1>1, <1>2, <1>3, CommitPathsType

LEMMA IntegrityRepairsTyped ==
    ASSUME Typed, NEW c \in Clones, NEW f \in Files, IntegrityRepairs(c, f)
    PROVE  Typed'
<1>1. TypeOK
  BY DEF Typed
<1>2. /\ tree' \in [Clones -> [Files -> Text]]
      /\ log' \subseteq Commits /\ log \subseteq log' /\ head' \in [Clones -> log']
      /\ made' \in 0..MaxEdits
  BY <1>1, RewriteType DEF IntegrityRepairs
<1>3. /\ remote \in log' /\ track \in [Clones -> log']
      /\ mergeHead \in [Clones -> {{}} \cup {{x} : x \in log'}]
  BY <1>1, <1>2, RefsType
<1>4. /\ pc' \in [Clones -> Points] /\ run' \in [Clones -> Run]
      /\ run'[c].todo \subseteq unmerged[c]
      /\ pc'[c] \in Rest => run'[c].todo = {}
      /\ \A d \in Clones \ {c} : pc'[d] = pc[d] /\ run'[d] = run[d]
  <2>1. CASE Succeed(c)
    BY <1>1, <2>1, FailType DEF IntegrityRepairs
  <2>2. CASE ~Succeed(c)
    BY <1>1, <2>2 DEF IntegrityRepairs, AfterIntegrity, Goto, TypeOK, Points, Rest
  <2> QED
    BY <2>1, <2>2
<1>5. \A d \in Clones : /\ run'[d].todo \subseteq unmerged'[d]
                        /\ unmerged'[d] # {} => MidMerge(d)'
                        /\ pc'[d] \in Rest => run'[d].todo = {}
  BY <1>4 DEF IntegrityRepairs, Typed, TypeOK, MidMerge, RestIdle
<1> QED
  BY <1>1, <1>2, <1>3, <1>4, <1>5 DEF IntegrityRepairs, Typed, TypeOK, RestIdle

LEMMA PushTyped ==
    ASSUME Typed, NEW c \in Clones, Push(c)
    PROVE  Typed'
<1>1. TypeOK /\ head[c] \in log
  BY DEF Typed, TypeOK
<1>2. track' \in [Clones -> log] /\ remote' \in log /\ marker' \in [Clones -> BOOLEAN]
  BY <1>1 DEF Push, TypeOK
<1>3. [Idle EXCEPT !.op = run[c].op] \in Run /\ [Idle EXCEPT !.op = run[c].op].todo = {}
  BY <1>1, IdleType DEF TypeOK
<1>4. /\ run' \in [Clones -> Run] /\ run'[c].todo = {}
      /\ pc' \in [Clones -> Points]
      /\ \A d \in Clones \ {c} : pc'[d] = pc[d] /\ run'[d] = run[d]
  BY <1>1, <1>3 DEF Push, Succeed, Goto, TypeOK, Points, Rest
<1>5. \A d \in Clones : /\ run'[d].todo \subseteq unmerged'[d]
                        /\ unmerged'[d] # {} => MidMerge(d)'
                        /\ pc'[d] \in Rest => run'[d].todo = {}
  BY <1>4 DEF Push, Typed, TypeOK, MidMerge, RestIdle
<1> QED
  BY <1>1, <1>2, <1>4, <1>5 DEF Push, Typed, TypeOK, RestIdle

LEMMA PushErrorTyped ==
    ASSUME Typed, NEW c \in Clones, PushError(c),
           UNCHANGED <<log, checkouts, made, erased>>,
           remote' \in log, Fault \/ UNCHANGED faults
    PROVE  Typed'
<1>1. TypeOK
  BY DEF Typed
<1>2. CASE Fail(c)
  BY <1>1, <1>2, EndTyped
<1>3. CASE ~Fail(c)
  <2>1. run' = [run EXCEPT ![c].retry = TRUE] /\ Goto(c, "fetch") /\ UNCHANGED marker
    BY <1>3 DEF PushError
  <2>2. /\ run' \in [Clones -> Run] /\ run'[c].todo \subseteq unmerged[c]
        /\ \A d \in Clones \ {c} : run'[d] = run[d]
    BY <1>1, <2>1, RunFieldType DEF TypeOK
  <2>3. pc' \in [Clones -> Points] /\ pc'[c] \notin Rest /\ \A d \in Clones \ {c} : pc'[d] = pc[d]
    BY <1>1, <2>1 DEF Goto, TypeOK, Points, Rest
  <2>4. faults' \in 0..MaxFaults
    BY <1>1, FaultAssumption DEF TypeOK, Fault
  <2> QED
    BY <1>1, <2>1, <2>2, <2>3, <2>4, TypedControl DEF TypeOK
<1> QED
  BY <1>2, <1>3

\* A run that is killed ends as one that fails.
LEMMA DieTyped ==
    ASSUME Typed, NEW c \in Clones, Die(c)
    PROVE  Typed'
<1>1. TypeOK
  BY DEF Typed
<1>2. [Idle EXCEPT !.op = run[c].op] \in Run /\ [Idle EXCEPT !.op = run[c].op].todo = {}
  BY <1>1, IdleType DEF TypeOK
<1>3. /\ run' \in [Clones -> Run] /\ run'[c].todo = {} /\ pc' \in [Clones -> Points]
      /\ \A d \in Clones \ {c} : pc'[d] = pc[d] /\ run'[d] = run[d]
  BY <1>1, <1>2 DEF Die, Goto, TypeOK, Points, Rest
<1>4. faults' \in 0..MaxFaults
  BY <1>1, FaultAssumption DEF TypeOK, Die, Fault
<1> QED
  BY <1>1, <1>3, <1>4, TypedControl DEF Die, TypeOK

LEMMA UserTyped ==
    ASSUME Typed, NEW c \in Clones, User(c)
    PROVE  Typed'
<1>1. TypeOK /\ tree[c] \in [Files -> Text]
  BY DEF Typed, TypeOK
<1>2. made < MaxEdits => made + 1 \in 0..MaxEdits
  BY <1>1, EditAssumption DEF TypeOK
<1>3. ASSUME NEW F \in (SUBSET Files) \ {{}}, Edit(c, F)
      PROVE  Typed'
  <2>1. tree' \in [Clones -> [Files -> Text]]
    BY <1>1, <1>3, RetextFacts DEF Edit, TypeOK
  <2> QED
    BY <1>1, <1>2, <1>3, <2>1, TypedFiles DEF Edit, TypeOK
<1>4. ASSUME NEW f \in Files, Delete(c, f)
      PROVE  Typed'
  <2>1. tree' \in [Clones -> [Files -> Text]]
    BY <1>1, <1>4, RootType DEF Delete, TypeOK
  <2> QED
    BY <1>1, <1>2, <1>4, <2>1, TypedFiles DEF Delete, TypeOK
<1>5. ASSUME NEW f \in Files, Resolve(c, f)
      PROVE  Typed'
  <2>1. [tree[c][f] EXCEPT !.marks = "none"] \in Text
    BY <1>1 DEF Text, Marks
  <2>2. tree' \in [Clones -> [Files -> Text]]
    BY <1>1, <1>5, <2>1 DEF Resolve, TypeOK
  <2> QED
    BY <1>1, <1>5, <2>2, TypedFiles DEF Resolve, TypeOK
<1>6. ASSUME NEW f \in Files, GitAdd(c, f)
      PROVE  Typed'
  <2>1. tree[c][f] \in Text
    BY <1>1
  <2>2. /\ index' \in [Clones -> [Files -> Text]] /\ unmerged' \in [Clones -> SUBSET Files]
        /\ unmerged'[c] = unmerged[c] \ {f}
        /\ \A d \in Clones \ {c} : unmerged'[d] = unmerged[d]
    BY <1>1, <1>6, <2>1, StagedType DEF GitAdd
  <2>3. \A d \in Clones : /\ run'[d].todo \subseteq unmerged'[d]
                          /\ unmerged'[d] # {} => MidMerge(d)'
                          /\ pc'[d] \in Rest => run'[d].todo = {}
    BY <1>6, <2>2 DEF GitAdd, Typed, TypeOK, MidMerge, RestIdle
  <2> QED
    BY <1>1, <1>6, <2>2, <2>3 DEF GitAdd, Typed, TypeOK, RestIdle
<1>7. ASSUME NEW f \in Files, WriteVerb(c, f)
      PROVE  Typed'
  <2>1. /\ tree' \in [Clones -> [Files -> Text]]
        /\ log' \subseteq Commits /\ log \subseteq log' /\ head' \in [Clones -> log']
        /\ made' \in 0..MaxEdits
    BY <1>1, <1>7, RewriteType DEF WriteVerb
  <2>2. remote \in log' /\ track \in [Clones -> log']
    BY <1>1, <2>1, RefsType
  <2> QED
    BY <1>1, <1>7, <2>1, <2>2, TypedFiles DEF WriteVerb, TypeOK
<1> QED
  BY <1>3, <1>4, <1>5, <1>6, <1>7 DEF User

\* The steps that only end a run.
Ends(c) ==
    \/ Paused(c) \/ FetchFails(c) \/ FastForwardRefused(c) \/ MergeRefused(c)
    \/ MergeCommitFails(c) \/ NothingToPush(c)

LEMMA EndsTyped ==
    ASSUME Typed, NEW c \in Clones, Ends(c)
    PROVE  Typed'
<1>1. remote \in log
  BY DEF Typed, TypeOK
<1>2. /\ Fail(c) \/ (Succeed(c) /\ UNCHANGED marker)
      /\ UNCHANGED <<log, remote, checkouts, made, erased>>
      /\ Fault \/ UNCHANGED faults
  BY DEF Ends, Paused, FetchFails, FastForwardRefused, MergeRefused, MergeCommitFails,
         NothingToPush
<1> QED
  BY <1>1, <1>2, EndTyped

LEMMA RefusedTyped ==
    ASSUME Typed, NEW c \in Clones, PushRejected(c) \/ PushFails(c)
    PROVE  Typed'
<1>1. remote \in log /\ head[c] \in log
  BY DEF Typed, TypeOK
<1> QED
  BY <1>1, PushErrorTyped DEF PushRejected, PushFails

\* Every step keeps the types.
LEMMA TypedStep ==
    ASSUME Typed, Control, [Next]_vars
    PROVE  Typed'
<1>1. CASE UNCHANGED vars
  BY <1>1 DEF vars, checkouts, Typed, TypeOK, RestIdle, MidMerge
<1>2. ASSUME NEW c \in Clones, Begin(c) \/ Work(c) \/ Faults(c) \/ User(c)
      PROVE  Typed'
  <2>1. CASE Begin(c)
    BY <2>1, BeginTyped
  <2>2. CASE User(c)
    BY <2>2, UserTyped
  <2>3. CASE Work(c)
    BY <2>3, FetchTyped, SnapshotTyped, DeletionCheckTyped, FastForwardTyped, MergeTyped,
       DriveStopTyped, MergeCommitTyped, IntegrityTyped, IntegrityRepairsTyped, PushTyped,
       RefusedTyped, EndsTyped DEF Work, Ends
  <2>4. CASE Faults(c)
    BY <2>4, DriveDiesTyped, RefusedTyped, DieTyped, EndsTyped DEF Faults, Ends
  <2> QED
    BY <1>2, <2>1, <2>2, <2>3, <2>4
<1> QED
  BY <1>1, <1>2 DEF Next

-----------------------------------------------------------------------------
(* Control. *)

\* Control of the checkouts that do not move, and of the one that does.
ControlOf(c) ==
    /\ pc[c] \in {"drive", "resume"} => MidMerge(c)
    /\ MidMerge(c) /\ pc[c] \notin Rest \cup {"drive", "resume"} => run[c].op = "push"
    /\ pc[c] \in {"resume", "integrity"} => run[c].op # "push" /\ ~run[c].retry
    /\ run[c].op = "push" /\ pc[c] \notin Rest \cup {"push"} => run[c].retry

LEMMA ControlOther ==
    ASSUME Control, NEW c \in Clones, ControlOf(c)',
           \A d \in Clones \ {c} : /\ pc'[d] = pc[d] /\ run'[d] = run[d]
                                   /\ mergeHead'[d] = mergeHead[d]
    PROVE  Control'
<1>1. ASSUME NEW d \in Clones \ {c}
      PROVE  ControlOf(d)'
  BY <1>1 DEF Control, ControlOf, MidMerge
<1>2. \A d \in Clones : ControlOf(d)'
  BY <1>1
<1> QED
  BY <1>2 DEF Control, ControlOf

LEMMA ControlEnds ==
    ASSUME TypeOK, Control, NEW c \in Clones, UNCHANGED mergeHead,
           Fail(c) \/ Succeed(c) \/ Die(c) \/ \E f \in Files : DriveDies(c, f)
    PROVE  Control'
<1>1. pc'[c] \in Rest /\ \A d \in Clones \ {c} : pc'[d] = pc[d] /\ run'[d] = run[d]
  BY DEF Fail, Succeed, Die, DriveDies, Goto, TypeOK, Rest
<1>2. ControlOf(c)'
  BY <1>1 DEF ControlOf, Rest
<1> QED
  BY <1>1, <1>2, ControlOther

\* A step that moves the run of c to another place, or into a merge or out of it.
LEMMA ControlMoves ==
    ASSUME TypeOK, Control, NEW c \in Clones,
           \/ Fetch(c) \/ Snapshot(c) \/ FastForward(c) \/ Merge(c) \/ MergeCommit(c)
           \/ Begin(c)
    PROVE  Control'
<1> USE DEF ControlOf, Control, MidMerge, Points, Rest, Goto
<1>1. /\ pc \in [Clones -> Points] /\ run \in [Clones -> Run]
      /\ mergeHead \in [Clones -> {{}} \cup {{x} : x \in log}]
  BY DEF TypeOK
<1>2. run[c] \in Run
  BY <1>1
<1>3. CASE Fetch(c)
  <2>1. pc'[c] \in {"snapLast", "ffCheck", "snapFirst"} /\ \A d \in Clones \ {c} : pc'[d] = pc[d]
    BY <1>1, <1>3 DEF Fetch, CompareUpstream
  <2>2. ControlOf(c)'
    BY <1>1, <1>3, <2>1 DEF Fetch
  <2> QED
    BY <1>3, <2>1, <2>2, ControlOther DEF Fetch
<1>4. CASE Snapshot(c)
  <2>1. /\ pc'[c] = IF pc[c] = "snapFirst" THEN "mergeCheck" ELSE AfterIntegrate(c)
        /\ \A d \in Clones \ {c} : pc'[d] = pc[d]
    BY <1>1, <1>4 DEF Snapshot
  <2>2. ControlOf(c)'
    BY <1>1, <1>4, <2>1 DEF Snapshot, AfterIntegrate
  <2> QED
    BY <1>4, <2>1, <2>2, ControlOther DEF Snapshot
<1>5. CASE FastForward(c)
  <2>1. pc'[c] = "snapLast" /\ \A d \in Clones \ {c} : pc'[d] = pc[d] /\ run'[d] = run[d]
    BY <1>1, <1>5 DEF FastForward
  <2>2. run'[c].op = run[c].op /\ run'[c].retry = run[c].retry
    BY <1>1, <1>2, <1>5 DEF FastForward, Run
  <2>3. ControlOf(c)'
    BY <1>1, <1>5, <2>1, <2>2 DEF FastForward
  <2> QED
    BY <1>5, <2>1, <2>3, ControlOther DEF FastForward
<1>6. CASE Merge(c)
  <2>0. PICK r \in [Files -> Text] : MergeStarts(c, r)
    BY <1>6, MergeFacts
  <2>1. /\ pc'[c] = "drive" /\ mergeHead'[c] # {}
        /\ \A d \in Clones \ {c} : pc'[d] = pc[d] /\ run'[d] = run[d] /\ mergeHead'[d] = mergeHead[d]
    BY <1>1, <2>0 DEF MergeStarts
  <2>2. run'[c].op = run[c].op /\ run'[c].retry = run[c].retry
    BY <1>1, <1>2, <2>0 DEF MergeStarts, Run
  <2>3. ControlOf(c)'
    BY <1>1, <2>0, <2>1, <2>2 DEF MergeStarts
  <2> QED
    BY <2>1, <2>3, ControlOther
<1>7. CASE MergeCommit(c)
  <2>1. /\ pc'[c] = IF pc[c] = "resume" THEN "snapLast" ELSE AfterIntegrate(c)
        /\ mergeHead'[c] = {}
        /\ \A d \in Clones \ {c} : pc'[d] = pc[d] /\ run'[d] = run[d] /\ mergeHead'[d] = mergeHead[d]
    BY <1>1, <1>7 DEF MergeCommit
  <2>2. ControlOf(c)'
    BY <1>1, <1>7, <2>1 DEF MergeCommit, AfterIntegrate
  <2> QED
    BY <1>7, <2>1, <2>2, ControlOther
<1>8. CASE Begin(c)
  <2>1. /\ UNCHANGED mergeHead
        /\ \A d \in Clones \ {c} : pc'[d] = pc[d] /\ run'[d] = run[d]
    BY <1>1, <1>8 DEF Begin, SyncBegin, RefreshBegin, PushBegin, checkouts
  <2>2. \/ pc'[c] = "resume" /\ MidMerge(c) /\ run'[c].op = "sync" /\ run'[c].retry = FALSE
        \/ pc'[c] = "fetch" /\ ~MidMerge(c) /\ run'[c].op # "push"
        \/ pc'[c] = "push" /\ run'[c].op = "push"
    <3>1. CASE SyncBegin(c)
      <4>1. PICK k \in Commands :
              run' = [run EXCEPT ![c] = [Idle EXCEPT !.scope = k.scope, !.todo = unmerged[c]]]
        BY <3>1 DEF SyncBegin
      <4>2. run'[c].op = "sync" /\ run'[c].retry = FALSE
        BY <1>1, <4>1 DEF Idle
      <4> QED
        BY <1>1, <3>1, <4>2 DEF SyncBegin
    <3>2. CASE RefreshBegin(c) \/ PushBegin(c)
      BY <1>1, <3>2 DEF RefreshBegin, PushBegin, Idle
    <3> QED
      BY <1>8, <3>1, <3>2 DEF Begin
  <2>3. ControlOf(c)'
    BY <2>1, <2>2
  <2> QED
    BY <2>1, <2>3, ControlOther
<1> QED
  BY <1>3, <1>4, <1>5, <1>6, <1>7, <1>8

\* A step that stays with the merge as it is.
LEMMA ControlRest ==
    ASSUME TypeOK, Control, NEW c \in Clones,
           \/ DeletionCheck(c) \/ PushRejected(c) \/ PushFails(c) \/ Integrity(c)
           \/ \E f \in Files : DriveStop(c, f) \/ IntegrityRepairs(c, f)
    PROVE  Control'
<1> USE DEF ControlOf, Control, MidMerge, Points, Rest, Goto
<1>1. /\ pc \in [Clones -> Points] /\ run \in [Clones -> Run]
      /\ mergeHead \in [Clones -> {{}} \cup {{x} : x \in log}]
  BY DEF TypeOK
<1>2. run[c] \in Run
  BY <1>1
<1>3. UNCHANGED mergeHead
  BY DEF DeletionCheck, PushRejected, PushFails, Integrity, DriveStop, IntegrityRepairs, checkouts
<1>4. CASE Fail(c) \/ Succeed(c)
  BY <1>3, <1>4, ControlEnds
<1>5. CASE ~Fail(c) /\ ~Succeed(c)
  <2>1. CASE DeletionCheck(c)
    <3>1. /\ run' = [run EXCEPT ![c].passed = {f \in Files : tree[c][f] = Gone /\ Dirty(c, f)}]
          /\ Goto(c, IF pc[c] = "ffCheck" THEN "ff" ELSE "merge")
          /\ pc[c] \in {"ffCheck", "mergeCheck"}
      BY <1>5, <2>1 DEF DeletionCheck
    <3>2. run'[c].op = run[c].op /\ run'[c].retry = run[c].retry
      BY <1>1, <1>2, <3>1 DEF Run
    <3>3. ControlOf(c)' /\ \A d \in Clones \ {c} : pc'[d] = pc[d] /\ run'[d] = run[d]
      BY <1>1, <1>3, <3>1, <3>2
    <3> QED
      BY <1>3, <3>3, ControlOther
  <2>2. CASE PushRejected(c) \/ PushFails(c)
    <3>1. /\ run' = [run EXCEPT ![c].retry = TRUE] /\ Goto(c, "fetch") /\ pc[c] = "push"
      BY <1>5, <2>2 DEF PushRejected, PushFails, PushError, Pushing
    <3>2. run'[c].op = run[c].op /\ run'[c].retry = TRUE
      BY <1>1, <1>2, <3>1 DEF Run
    <3>3. ControlOf(c)' /\ \A d \in Clones \ {c} : pc'[d] = pc[d] /\ run'[d] = run[d]
      BY <1>1, <1>3, <3>1, <3>2
    <3> QED
      BY <1>3, <3>3, ControlOther
  <2>3. CASE Integrity(c) \/ \E f \in Files : IntegrityRepairs(c, f)
    <3>1. pc[c] = "integrity" /\ Goto(c, "push") /\ UNCHANGED run
      BY <1>5, <2>3 DEF Integrity, IntegrityRepairs, AfterIntegrity
    <3>2. ControlOf(c)' /\ \A d \in Clones \ {c} : pc'[d] = pc[d] /\ run'[d] = run[d]
      BY <1>1, <1>3, <3>1
    <3> QED
      BY <1>3, <3>2, ControlOther
  <2>4. CASE \E f \in Files : DriveStop(c, f)
    <3>1. PICK f \in Files : DriveStop(c, f)
      BY <2>4
    <3>2. run' = [run EXCEPT ![c].todo = @ \ {f}] /\ UNCHANGED pc
      BY <3>1 DEF DriveStop, Stop
    <3>3. run'[c].op = run[c].op /\ run'[c].retry = run[c].retry
      BY <1>1, <1>2, <3>2 DEF Run
    <3>4. ControlOf(c)' /\ \A d \in Clones \ {c} : pc'[d] = pc[d] /\ run'[d] = run[d]
      BY <1>1, <1>3, <3>2, <3>3
    <3> QED
      BY <1>3, <3>4, ControlOther
  <2> QED
    BY <2>1, <2>2, <2>3, <2>4
<1> QED
  BY <1>4, <1>5

\* Every step keeps Control.
LEMMA ControlStep ==
    ASSUME TypeOK, Control, [Next]_vars
    PROVE  Control'
<1>1. CASE UNCHANGED <<mergeHead, pc, run>>
  BY <1>1 DEF Control, MidMerge
<1>2. ASSUME NEW c \in Clones, Begin(c) \/ Work(c) \/ Faults(c)
      PROVE  Control'
  <2>1. CASE \/ Fetch(c) \/ Snapshot(c) \/ FastForward(c) \/ Merge(c) \/ MergeCommit(c)
             \/ Begin(c)
    BY <2>1, ControlMoves
  <2>2. CASE \/ DeletionCheck(c) \/ PushRejected(c) \/ PushFails(c) \/ Integrity(c)
             \/ \E f \in Files : DriveStop(c, f) \/ IntegrityRepairs(c, f)
    BY <2>2, ControlRest
  <2>3. CASE Ends(c) \/ Push(c) \/ Die(c) \/ \E f \in Files : DriveDies(c, f)
    BY <2>3, ControlEnds DEF Ends, Paused, FetchFails, FastForwardRefused, MergeRefused,
       MergeCommitFails, NothingToPush, Push, Die, DriveDies, checkouts
  <2> QED
    BY <1>2, <2>1, <2>2, <2>3 DEF Work, Faults, Ends
<1>3. ASSUME NEW c \in Clones, User(c)
      PROVE  UNCHANGED <<mergeHead, pc, run>>
  BY <1>3 DEF User, Edit, Delete, Resolve, GitAdd, WriteVerb
<1> QED
  BY <1>1, <1>2, <1>3 DEF Next, vars, checkouts

\* What every run starts from.
LEMMA InitTyped ==
    ASSUME Init
    PROVE  Typed /\ Control
<1>1. Root \in Commits /\ Root.files \in [Files -> Text]
  BY RootType DEF Commits
<1>2. Typed
  BY <1>1, IdleType, EditAssumption, FaultAssumption
     DEF Init, Typed, TypeOK, RestIdle, Points, Rest, MidMerge
<1>3. Control
  BY DEF Init, Control, MidMerge, Rest
<1> QED
  BY <1>2, <1>3

\* Type correctness: refs name commits that exist, runs and work trees have their
\* types, and a run looks only at unmerged paths of a merge in progress.
THEOREM TypeCorrect == Spec => []TypeOK
<1>1. Init => Typed /\ Control
  BY InitTyped
<1>2. Typed /\ Control /\ [Next]_vars => Typed' /\ Control'
  BY TypedStep, ControlStep DEF Typed
<1>3. Typed => TypeOK
  BY DEF Typed
<1> QED
  BY <1>1, <1>2, <1>3, PTL DEF Spec

-----------------------------------------------------------------------------
(* History. *)

Diverging == {"snapFirst", "mergeCheck", "merge"}
Behind == {"ffCheck", "ff"}

\* The commits are ordered.
LEMMA Order ==
    ASSUME TypeOK
    PROVE  /\ \A x \in log : IsAncestor(x, x)
           /\ \A x, y, z \in log : IsAncestor(x, y) /\ IsAncestor(y, z) => IsAncestor(x, z)
<1>1. \A x \in log : x.at \in [Clones -> Nat]
  BY CommitType
<1> QED
  BY <1>1 DEF IsAncestor

\* The refs are commits that exist.
LEMMA Refs ==
    ASSUME TypeOK
    PROVE  /\ remote \in log
           /\ \A c \in Clones : /\ head[c] \in log /\ track[c] \in log
                                /\ \A t \in mergeHead[c] : t \in log
  BY DEF TypeOK

\* A run goes on within its integrate, or leaves it.
GoesOn(c) ==
    \/ pc'[c] = pc[c]
    \/ pc'[c] \notin Diverging \cup Behind
    \/ pc[c] \in Diverging /\ pc'[c] \in Diverging
    \/ pc[c] \in Behind /\ pc'[c] \in Behind

LEMMA HistoryUnchanged ==
    ASSUME History, UNCHANGED <<log, remote, head, track, mergeHead>>,
           \A c \in Clones : GoesOn(c)
    PROVE  History'
<1>1. Diverged'
  BY DEF History, Diverged, Fresh, GoesOn, Diverging, Behind
<1> QED
  BY <1>1 DEF History, StampsDiffer, OwnNewest, Causal, Known, RefsBehind, SharedIsPushed,
              Meet, HaveMeet, Meets

LEMMA FetchHistory ==
    ASSUME TypeOK, History, NEW c \in Clones, Fetch(c)
    PROVE  History'
<1>1. /\ UNCHANGED <<log, remote, head, mergeHead>>
      /\ track'[c] = remote /\ \A d \in Clones \ {c} : track'[d] = track[d] /\ pc'[d] = pc[d]
      /\ pc'[c] = CompareUpstream(head[c], remote)
  BY DEF Fetch, Goto, TypeOK
<1>2. RefsBehind'
  BY <1>1, Order, Refs DEF History, RefsBehind
<1>3. Diverged'
  <2>1. ASSUME NEW d \in Clones
        PROVE  /\ pc'[d] \in {"snapFirst", "mergeCheck", "merge"} => Fresh(head[d], track'[d])
               /\ \A t \in mergeHead[d] : Fresh(head[d], t)
               /\ pc'[d] \in {"ffCheck", "ff"} => IsAncestor(head'[d], track'[d])
    <3>1. CASE d = c
      BY <1>1, <3>1 DEF History, Diverged, Fresh, CompareUpstream
    <3>2. CASE d # c
      BY <1>1, <3>2 DEF History, Diverged, Fresh
    <3> QED
      BY <3>1, <3>2
  <2> QED
    BY <1>1, <2>1 DEF Diverged, Fresh
<1>4. Meet'
  BY <1>1 DEF History, Meet, HaveMeet, Meets
<1> QED
  BY <1>1, <1>2, <1>3, <1>4 DEF History, StampsDiffer, OwnNewest, Causal, Known, SharedIsPushed

LEMMA FastForwardHistory ==
    ASSUME TypeOK, History, NEW c \in Clones, FastForward(c)
    PROVE  History'
<1>1. /\ UNCHANGED <<log, remote, track, mergeHead>> /\ mergeHead[c] = {}
      /\ head'[c] = track[c] /\ \A d \in Clones \ {c} : head'[d] = head[d] /\ pc'[d] = pc[d]
      /\ pc'[c] = "snapLast" /\ pc[c] = "ff"
  BY DEF FastForward, Goto, TypeOK, MidMerge
<1>2. IsAncestor(head[c], track[c]) /\ IsAncestor(track[c], remote)
  BY <1>1 DEF History, Diverged, RefsBehind
<1>3. OwnNewest'
  <2>1. \A x \in log : x.at[c] <= track[c].at[c]
    <3>1. \A x \in log : x.at[c] \in Nat
      BY CommitType
    <3>2. head[c].at[c] <= track[c].at[c]
      BY <1>2 DEF IsAncestor
    <3> QED
      BY <3>1, <3>2, Refs DEF History, OwnNewest
  <2> QED
    BY <1>1, <2>1 DEF History, OwnNewest
<1>4. SharedIsPushed'
  BY <1>1, <1>2, Order, Refs DEF History, SharedIsPushed
<1>5. Diverged'
  BY <1>1 DEF History, Diverged, Fresh
<1>6. Meet'
  <2>1. HaveMeet(track[c], remote) /\ HaveMeet(track[c], track[c])
    BY <1>2, Order, Refs DEF HaveMeet, Meets
  <2> QED
    BY <1>1, <2>1 DEF History, Meet, HaveMeet, Meets
<1> QED
  BY <1>1, <1>3, <1>4, <1>5, <1>6 DEF History, StampsDiffer, Causal, Known, RefsBehind

LEMMA MergeHistory ==
    ASSUME TypeOK, History, NEW c \in Clones, Merge(c)
    PROVE  History'
<1>1. PICK r \in [Files -> Text] : MergeStarts(c, r)
  BY MergeFacts
<1>2. /\ UNCHANGED <<log, remote, head, track>>
      /\ mergeHead'[c] = {track[c]}
      /\ \A d \in Clones \ {c} : mergeHead'[d] = mergeHead[d] /\ pc'[d] = pc[d]
      /\ pc'[c] = "drive" /\ pc[c] = "merge"
  BY <1>1 DEF MergeStarts, Goto, TypeOK
<1>3. RefsBehind'
  BY <1>2, Order, Refs DEF History, RefsBehind
<1>4. Diverged'
  <2>1. Fresh(head[c], track[c])
    BY <1>2 DEF History, Diverged
  <2> QED
    BY <1>2, <2>1 DEF History, Diverged, Fresh
<1>5. Meet'
  BY <1>2 DEF History, Meet, HaveMeet, Meets
<1> QED
  BY <1>2, <1>3, <1>4, <1>5 DEF History, StampsDiffer, OwnNewest, Causal, Known, SharedIsPushed

\* HEAD of c is the branch on the remote now.
LEMMA PushHistory ==
    ASSUME TypeOK, History, NEW c \in Clones, IsAncestor(remote, head[c]),
           UNCHANGED <<log, head, mergeHead>>, remote' = head[c],
           track'[c] \in {track[c], head[c]},
           \A d \in Clones \ {c} : track'[d] = track[d] /\ pc'[d] = pc[d],
           pc'[c] \notin Diverging \cup Behind
    PROVE  History'
<1>1. mergeHead[c] = {}
  <2>1. ASSUME NEW t \in mergeHead[c]
        PROVE  FALSE
    <3>1. IsAncestor(t, head[c])
      BY Order, Refs DEF History, RefsBehind
    <3> QED
      BY <3>1 DEF History, Diverged, Fresh
  <2> QED
    BY <2>1
<1>2. RefsBehind'
  BY <1>1, Order, Refs DEF History, RefsBehind
<1>3. SharedIsPushed'
  BY Order, Refs DEF History, SharedIsPushed
<1>4. ASSUME NEW d \in Clones \ {c}, NEW x \in log, IsAncestor(x, head[d]), IsAncestor(x, head[c])
      PROVE  IsAncestor(x, remote)
  BY <1>4 DEF History, SharedIsPushed
<1>5. Diverged'
  <2>1. ASSUME NEW d \in Clones \ {c}, NEW t \in log, Fresh(head[d], t)
        PROVE  Fresh(head[d], t)'
    BY <1>4, <2>1 DEF Fresh
  <2>2. \A d \in Clones \ {c} : /\ pc'[d] \in {"snapFirst", "mergeCheck", "merge"} =>
                                      Fresh(head[d], track[d])'
                                /\ \A t \in mergeHead[d] : Fresh(head[d], t)'
                                /\ pc'[d] \in {"ffCheck", "ff"} => IsAncestor(head[d], track[d])
    BY <2>1, Refs DEF History, Diverged
  <2> QED
    BY <1>1, <2>2 DEF Diverged, Fresh, Diverging, Behind
<1>6. Meet'
  <2>1. ASSUME NEW d \in Clones \ {c}
        PROVE  HaveMeet(head[d], head[c])
    <3>1. PICK m \in log : Meets(head[d], remote, m)
      BY DEF History, Meet, HaveMeet
    <3>2. Meets(head[d], head[c], m)
      BY <1>4, <3>1, Order, Refs DEF Meets
    <3> QED
      BY <3>2 DEF HaveMeet
  <2>2. HaveMeet(head[c], head[c])
    BY Order, Refs DEF HaveMeet, Meets
  <2> QED
    BY <1>1, <2>1, <2>2 DEF History, Meet, HaveMeet, Meets
<1> QED
  BY <1>2, <1>3, <1>5, <1>6 DEF History, StampsDiffer, OwnNewest, Causal, Known

\* A new commit is above no other, and has below it what one of its parents has.
LEMMA NewCommitOrder ==
    ASSUME TypeOK, History, NEW c \in Clones, NEW b \in log, NEW n \in Commits,
           NEW fs \in [Files -> Text], n = Child(c, head[c], b, fs)
    PROVE  /\ \A x \in log : ~IsAncestor(n, x) /\ n.at[c] > x.at[c] /\ n.at # x.at
           /\ \A x \in log : IsAncestor(x, n) <=> IsAncestor(x, head[c]) \/ IsAncestor(x, b)
           /\ \A x \in log, d \in Clones : x.at[d] <= n.at[d] /\ Known(x, d) => IsAncestor(x, n)
           /\ \A d \in Clones \ {c} : n.at[d] <= head[d].at[d]
           /\ IsAncestor(n, n)
<1>1. head[c] \in log /\ \A x \in log : x \in Commits /\ x.at \in [Clones -> Nat]
  BY CommitType, Refs
<1>2. n.at \in [Clones -> Nat]
  BY DEF Commits, Stamp
<1>3. /\ IsAncestor(head[c], n) /\ IsAncestor(b, n)
      /\ n.at[c] = Later(head[c].at[c], b.at[c]) + 1
      /\ \A d \in Clones \ {c} : n.at[d] = Later(head[c].at[d], b.at[d])
  <2>1. head[c] \in Commits /\ b \in Commits
    BY <1>1
  <2>2. /\ IsAncestor(head[c], Child(c, head[c], b, fs)) /\ IsAncestor(b, Child(c, head[c], b, fs))
        /\ Child(c, head[c], b, fs).at[c] = Later(head[c].at[c], b.at[c]) + 1
        /\ \A d \in Clones \ {c} : Child(c, head[c], b, fs).at[d] = Later(head[c].at[d], b.at[d])
    <3>1. PICK h \in Commits : h = head[c]
      BY <2>1
    <3>2. IsAncestor(h, Child(c, h, b, fs)) /\ IsAncestor(b, Child(c, h, b, fs))
      BY <2>1, ChildFacts
    <3>3. Child(c, h, b, fs).at[c] = Later(h.at[c], b.at[c]) + 1
      BY <2>1, ChildFacts
    <3>4. \A d \in Clones \ {c} : Child(c, h, b, fs).at[d] = Later(h.at[d], b.at[d])
      BY <2>1, ChildFacts
    <3> QED
      BY <3>1, <3>2, <3>3, <3>4
  <2> QED
    BY <2>2
<1>4. \A x \in log : x.at[c] <= head[c].at[c]
  BY DEF History, OwnNewest
<1>5. n.at[c] = head[c].at[c] + 1
  <2>1. b.at[c] <= head[c].at[c] /\ b.at[c] \in Nat /\ head[c].at[c] \in Nat
    BY <1>1, <1>4
  <2> QED
    BY <1>3, <2>1 DEF Later
<1>6. \A x \in log : ~IsAncestor(n, x) /\ n.at[c] > x.at[c] /\ n.at # x.at
  <2>1. ASSUME NEW x \in log
        PROVE  n.at[c] > x.at[c]
    BY <1>1, <1>2, <1>4, <1>5
  <2>2. ASSUME NEW x \in log
        PROVE  ~(n.at[c] <= x.at[c])
    BY <1>1, <1>2, <2>1
  <2> QED
    BY <1>1, <2>1, <2>2 DEF IsAncestor
<1>7. ASSUME NEW x \in log, NEW d \in Clones, x.at[d] <= n.at[d], Known(x, d)
      PROVE  IsAncestor(x, head[c]) \/ IsAncestor(x, b)
  <2>1. x.at[d] \in Nat /\ head[c].at[d] \in Nat /\ b.at[d] \in Nat
    BY <1>1
  <2>2. CASE d = c
    BY <1>1, <1>4, <1>7, <2>2 DEF Known
  <2>3. CASE d # c
    <3>1. x.at[d] <= head[c].at[d] \/ x.at[d] <= b.at[d]
      BY <1>3, <1>7, <2>1, <2>3 DEF Later
    <3> QED
      BY <1>1, <1>7, <3>1 DEF Known
  <2> QED
    BY <2>2, <2>3
<1>8. ASSUME NEW x \in log, IsAncestor(x, head[c]) \/ IsAncestor(x, b)
      PROVE  IsAncestor(x, n)
  BY <1>1, <1>2, <1>3, <1>8 DEF IsAncestor
<1>9. ASSUME NEW x \in log, IsAncestor(x, n)
      PROVE  IsAncestor(x, head[c]) \/ IsAncestor(x, b)
  <2>1. CASE \A y \in log : IsAncestor(x, y)
    BY <1>1, <2>1
  <2>2. CASE \E d \in Clones : Known(x, d)
    <3>1. PICK d \in Clones : Known(x, d)
      BY <2>2
    <3>2. x.at[d] <= n.at[d]
      BY <1>9 DEF IsAncestor
    <3> QED
      BY <1>7, <3>1, <3>2
  <2> QED
    BY <2>1, <2>2 DEF History, Causal
<1>10. ASSUME NEW d \in Clones \ {c}
       PROVE  n.at[d] <= head[d].at[d]
  <2>1. head[c].at[d] <= head[d].at[d] /\ b.at[d] <= head[d].at[d]
    BY <1>1 DEF History, OwnNewest
  <2> QED
    BY <1>3, <2>1 DEF Later
<1>11. IsAncestor(n, n)
  BY <1>2 DEF IsAncestor
<1> QED
  BY <1>6, <1>7, <1>8, <1>9, <1>10, <1>11

\* What a new commit keeps of the history, whoever makes it.
LEMMA NewCommitHistory ==
    ASSUME TypeOK, History, NEW c \in Clones, NEW b \in log, NEW fs \in [Files -> Text],
           NewCommit(c, b, fs), b = head[c] \/ IsAncestor(b, remote),
           UNCHANGED <<remote, track>>,
           \A d \in Clones \ {c} : mergeHead'[d] = mergeHead[d] /\ pc'[d] = pc[d],
           mergeHead'[c] = {}, pc'[c] \in Diverging => b = head[c] /\ pc[c] \in Diverging,
           pc'[c] \notin Behind,
           b # head[c] => b \in mergeHead[c]
    PROVE  History'
<1>0. PICK n \in Commits : n = Child(c, head[c], b, fs)
  BY CommitType, Refs, ChildFacts
<1>1. /\ log' = log \cup {n} /\ head'[c] = n /\ \A d \in Clones \ {c} : head'[d] = head[d]
      /\ n \in Commits
  BY <1>0, NewCommitType DEF NewCommit
<1>2. /\ \A x \in log : ~IsAncestor(n, x) /\ n.at[c] > x.at[c] /\ n.at # x.at
      /\ \A x \in log : IsAncestor(x, n) <=> IsAncestor(x, head[c]) \/ IsAncestor(x, b)
      /\ \A x \in log, d \in Clones : x.at[d] <= n.at[d] /\ Known(x, d) => IsAncestor(x, n)
      /\ \A d \in Clones \ {c} : n.at[d] <= head[d].at[d]
      /\ IsAncestor(n, n)
  BY <1>0, NewCommitOrder
<1>3. \A x \in log : x.at[c] \in Nat
  BY CommitType
<1>4. n.at[c] \in Nat
  BY <1>1 DEF Commits, Stamp
<1>5. StampsDiffer'
  BY <1>1, <1>2 DEF History, StampsDiffer
<1>6. OwnNewest'
  BY <1>1, <1>2, <1>3, <1>4 DEF History, OwnNewest
<1>7. Causal'
  <2>1. ASSUME NEW x \in log
        PROVE  (\A y \in log' : IsAncestor(x, y)) \/ \E d \in Clones : Known(x, d)'
    <3>1. CASE \A y \in log : IsAncestor(x, y)
      BY <1>1, <1>2, <3>1, Refs
    <3>2. CASE \E d \in Clones : Known(x, d)
      BY <1>1, <1>2, <3>2 DEF Known
    <3> QED
      BY <3>1, <3>2 DEF History, Causal
  <2>2. Known(n, c)'
    BY <1>1, <1>2, <1>3, <1>4 DEF Known
  <2> QED
    BY <1>1, <2>1, <2>2 DEF Causal
<1>8. RefsBehind'
  BY DEF History, RefsBehind
<1>9. SharedIsPushed'
  <2>1. ASSUME NEW x \in log, NEW d \in Clones \ {c}, IsAncestor(x, n), IsAncestor(x, head[d])
        PROVE  IsAncestor(x, remote)
    BY <1>2, <2>1, Order, Refs DEF History, SharedIsPushed
  <2>2. ASSUME NEW x \in log', NEW d \in Clones, NEW e \in Clones, d # e,
               IsAncestor(x, head'[d]), IsAncestor(x, head'[e])
        PROVE  IsAncestor(x, remote)
    <3>1. x \in log
      BY <1>1, <1>2, <2>2, Refs
    <3> QED
      BY <1>1, <2>1, <2>2, <3>1 DEF History, SharedIsPushed
  <2> QED
    BY <2>2 DEF SharedIsPushed
<1>10. Diverged'
  <2>1. ASSUME NEW d \in Clones \ {c}, NEW t \in log, Fresh(head[d], t)
        PROVE  Fresh(head[d], t)'
    BY <1>1, <1>2, <2>1, Refs DEF Fresh
  <2>2. ASSUME b = head[c], Fresh(head[c], track[c])
        PROVE  Fresh(head[c], track[c])'
    BY <1>1, <1>2, <2>2, Refs DEF Fresh
  <2>3. \A d \in Clones \ {c} : /\ pc'[d] \in {"snapFirst", "mergeCheck", "merge"} =>
                                      Fresh(head[d], track[d])'
                                /\ \A t \in mergeHead[d] : Fresh(head[d], t)'
                                /\ pc'[d] \in {"ffCheck", "ff"} => IsAncestor(head[d], track[d])
    BY <2>1, Refs DEF History, Diverged
  <2>4. pc'[c] \in {"snapFirst", "mergeCheck", "merge"} => Fresh(head[c], track[c])'
    BY <2>2 DEF History, Diverged, Diverging
  <2> QED
    BY <1>1, <2>3, <2>4 DEF Diverged, Fresh, Behind
<1>11. Meet'
  <2>1. ASSUME NEW d \in Clones \ {c}, NEW t \in log, HaveMeet(head[d], t)
        PROVE  HaveMeet(head[d], t)'
    BY <1>1, <1>2, <2>1, Refs DEF HaveMeet, Meets
  <2>2. ASSUME NEW t \in {remote, track[c]}
        PROVE  \E m \in log : Meets(n, t, m)'
    <3>1. IsAncestor(t, remote) /\ t \in log
      BY Order, Refs DEF History, RefsBehind
    <3>2. CASE b = head[c]
      BY <1>1, <1>2, <3>1, <3>2 DEF History, Meet, HaveMeet, Meets
    <3>3. CASE b # head[c]
      <4>1. Fresh(head[c], b) /\ IsAncestor(b, track[c]) /\ IsAncestor(b, remote) /\ IsAncestor(b, t)
        BY <3>3, Order, Refs DEF History, Diverged, RefsBehind
      <4>2. ASSUME NEW x \in log, IsAncestor(x, n), IsAncestor(x, t)
            PROVE  IsAncestor(x, b)
        BY <1>2, <3>1, <4>1, <4>2, Order, Refs DEF Fresh
      <4>3. IsAncestor(b, n)
        BY <1>2, Order
      <4>4. Meets(n, t, b)'
        BY <1>1, <1>2, <3>1, <4>1, <4>2, <4>3 DEF Meets
      <4> QED
        BY <4>4
    <3> QED
      BY <3>2, <3>3
  <2> QED
    BY <1>1, <2>1, <2>2, Refs DEF History, Meet, HaveMeet, Meets
<1> QED
  BY <1>5, <1>6, <1>7, <1>8, <1>9, <1>10, <1>11 DEF History

\* A checkout that commits on its own has no merge in progress: the retry of a
\* push beside one commits nothing.
OwnCommit(c) == Snapshot(c) \/ (\E f \in Files : IntegrityRepairs(c, f) \/ WriteVerb(c, f))

\* What a commit outside a merge does: no commit, or one on top of HEAD.
LEMMA CommitsFacts ==
    ASSUME Typed, Control, NEW c \in Clones, OwnCommit(c)
    PROVE  /\ UNCHANGED <<remote, track, mergeHead, index, unmerged, erased>>
           /\ \A d \in Clones : GoesOn(d)
           /\ \A d \in Clones \ {c} : pc'[d] = pc[d] /\ run'[d] = run[d]
           /\ pc'[c] \in Diverging => pc[c] \in Diverging
           /\ pc'[c] \notin Behind
           /\ \/ UNCHANGED <<head, log>>
              \/ /\ mergeHead[c] = {}
                 /\ \E fs \in [Files -> Text] :
                      /\ NewCommit(c, head[c], fs)
                      /\ \A f \in Files : fs[f] \in {head[c].files[f], tree'[c][f]}
<1>0. TypeOK /\ tree[c] \in [Files -> Text] /\ run[c] \in Run
  BY DEF Typed, TypeOK
<1> USE DEF GoesOn, Diverging, Behind
<1>1. CASE Snapshot(c)
  <2>1. /\ pc'[c] = IF pc[c] = "snapFirst" THEN "mergeCheck" ELSE AfterIntegrate(c)
        /\ \A d \in Clones \ {c} : pc'[d] = pc[d]
        /\ UNCHANGED <<remote, track, mergeHead, index, unmerged, erased, run, tree>>
    BY <1>0, <1>1 DEF Snapshot, Goto, TypeOK
  <2>2. SnapshotFiles(c) \in SUBSET Files
    BY DEF SnapshotFiles
  <2>3. CASE UNCHANGED <<head, log>>
    BY <1>1, <2>1, <2>3 DEF AfterIntegrate, Snapshot
  <2>4. CASE ~UNCHANGED <<head, log>>
    <3>1. PICK fs \in [Files -> Text] :
            /\ NewCommit(c, head[c], fs)
            /\ \A f \in Files : fs[f] \in {head[c].files[f], tree[c][f]}
      BY <1>0, <1>1, <2>2, <2>4, CommitPathsFacts DEF Snapshot
    <3>2. SnapshotFiles(c) # {}
      BY <1>1, <2>4 DEF Snapshot, CommitPaths
    <3>3. ~run[c].retry /\ run[c].op = "sync"
      BY <3>2 DEF SnapshotFiles
    <3>4. mergeHead[c] = {}
      BY <1>1, <3>3 DEF Control, MidMerge, Snapshot, Rest
    <3> QED
      BY <1>1, <2>1, <3>1, <3>4 DEF AfterIntegrate, Snapshot
  <2> QED
    BY <2>3, <2>4
<1>2. ASSUME NEW f \in Files, IntegrityRepairs(c, f) \/ WriteVerb(c, f)
      PROVE  /\ UNCHANGED <<head, log>>
                \/ \E fs \in [Files -> Text] :
                      /\ NewCommit(c, head[c], fs)
                      /\ \A g \in Files : fs[g] \in {head[c].files[g], tree'[c][g]}
  <2>1. [tree[c] EXCEPT ![f] = Retext(c, f)] \in [Files -> Text]
    BY <1>0, RetextFacts
  <2>2. CommitPaths(c, {f}, [tree[c] EXCEPT ![f] = Retext(c, f)])
        /\ tree' = [tree EXCEPT ![c][f] = Retext(c, f)]
    BY <1>2 DEF IntegrityRepairs, WriteVerb
  <2>3. tree'[c] = [tree[c] EXCEPT ![f] = Retext(c, f)]
    BY <1>0, <2>2 DEF TypeOK
  <2>4. \/ UNCHANGED <<head, log>>
        \/ \E fs \in [Files -> Text] :
             /\ NewCommit(c, head[c], fs)
             /\ \A g \in Files : fs[g] \in {head[c].files[g], tree'[c][g]}
    BY <1>0, <2>1, <2>2, <2>3, CommitPathsFacts
  <2> QED
    BY <2>4
<1>3. CASE \E f \in Files : IntegrityRepairs(c, f)
  <2>1. PICK f \in Files : IntegrityRepairs(c, f)
    BY <1>3
  <2>2. pc[c] = "integrity" /\ UNCHANGED <<remote, track, mergeHead, index, unmerged, erased>>
    BY <2>1 DEF IntegrityRepairs
  <2>3. mergeHead[c] = {}
    BY <2>2 DEF Control, MidMerge, Rest
  <2>4. pc'[c] \in {"ok", "push"} /\ \A d \in Clones \ {c} : pc'[d] = pc[d] /\ run'[d] = run[d]
    BY <1>0, <2>1 DEF IntegrityRepairs, AfterIntegrity, Succeed, Goto, TypeOK
  <2> QED
    BY <1>2, <2>1, <2>2, <2>3, <2>4
<1>4. CASE \E f \in Files : WriteVerb(c, f)
  <2>1. PICK f \in Files : WriteVerb(c, f)
    BY <1>4
  <2>2. /\ UNCHANGED <<remote, track, mergeHead, index, unmerged, erased, pc, run>>
        /\ mergeHead[c] = {} /\ pc[c] \in Rest
    BY <2>1 DEF WriteVerb, MidMerge
  <2> QED
    BY <1>2, <2>1, <2>2 DEF Rest
<1> QED
  BY <1>1, <1>3, <1>4 DEF OwnCommit

LEMMA CommitsHistory ==
    ASSUME Typed, Control, History, NEW c \in Clones, OwnCommit(c)
    PROVE  History'
<1>1. TypeOK /\ head[c] \in log
  BY Refs DEF Typed
<1>2. CASE UNCHANGED <<head, log>>
  BY <1>1, <1>2, CommitsFacts, HistoryUnchanged
<1>3. CASE ~UNCHANGED <<head, log>>
  <2>1. PICK fs \in [Files -> Text] : NewCommit(c, head[c], fs)
    BY <1>3, CommitsFacts
  <2> QED
    BY <1>1, <1>3, <2>1, CommitsFacts, NewCommitHistory
<1> QED
  BY <1>2, <1>3

LEMMA MergeCommitHistory ==
    ASSUME TypeOK, Control, History, NEW c \in Clones, MergeCommit(c)
    PROVE  History'
<1>1. Theirs(c) \in log /\ mergeHead[c] = {Theirs(c)} /\ index[c] \in [Files -> Text]
      /\ NewCommit(c, Theirs(c), index[c])
  BY MergeCommitFacts
<1>2. /\ pc'[c] \in {"snapLast", "push", "integrity"} /\ mergeHead'[c] = {}
      /\ \A d \in Clones \ {c} : mergeHead'[d] = mergeHead[d] /\ pc'[d] = pc[d]
      /\ UNCHANGED <<remote, track>>
  BY DEF MergeCommit, AfterIntegrate, Goto, TypeOK
<1>3. PICK b \in log, fs \in [Files -> Text] : b = Theirs(c) /\ fs = index[c]
  BY <1>1
<1>4. IsAncestor(b, remote) /\ b \in mergeHead[c]
  BY <1>1, <1>3, Order, Refs DEF History, RefsBehind
<1>5. pc'[c] \notin Diverging \cup Behind
  BY <1>2 DEF Diverging, Behind
<1> QED
  BY <1>1, <1>2, <1>3, <1>4, <1>5, NewCommitHistory

\* The steps that move no ref and make no commit.
Quiet(c) ==
    \/ Begin(c) \/ DeletionCheck(c) \/ Ends(c) \/ Integrity(c) \/ PushRejected(c) \/ Die(c)
    \/ \E f \in Files : DriveStop(c, f) \/ DriveDies(c, f)
    \/ \E F \in SUBSET Files : Edit(c, F)
    \/ \E f \in Files : Delete(c, f) \/ Resolve(c, f) \/ GitAdd(c, f)

LEMMA QuietFacts ==
    ASSUME TypeOK, NEW c \in Clones, Quiet(c)
    PROVE  /\ UNCHANGED <<log, remote, head, track, mergeHead>>
           /\ \A d \in Clones \ {c} : pc'[d] = pc[d] /\ run'[d] = run[d]
           /\ \A d \in Clones : GoesOn(d)
<1> USE DEF GoesOn, Diverging, Behind, Goto
<1>0. pc \in [Clones -> Points] /\ run \in [Clones -> Run]
  BY DEF TypeOK
<1>1. CASE Begin(c)
  <2>1. UNCHANGED checkouts /\ UNCHANGED <<log, remote>>
        /\ pc'[c] \in {"resume", "fetch", "push"}
        /\ \A d \in Clones \ {c} : pc'[d] = pc[d] /\ run'[d] = run[d]
    BY <1>0, <1>1 DEF Begin, SyncBegin, RefreshBegin, PushBegin
  <2> QED
    BY <2>1 DEF checkouts
<1>2. ASSUME Fail(c) \/ Succeed(c) \/ Die(c)
      PROVE  pc'[c] \in {"ok", "failed"} /\ \A d \in Clones \ {c} : pc'[d] = pc[d] /\ run'[d] = run[d]
  BY <1>0, <1>2 DEF Fail, Succeed, Die
<1>3. CASE DeletionCheck(c) \/ Ends(c) \/ Integrity(c) \/ PushRejected(c) \/ Die(c)
  <2>1. UNCHANGED checkouts /\ UNCHANGED <<log, remote>>
    BY <1>3 DEF DeletionCheck, Ends, Paused, FetchFails, FastForwardRefused, MergeRefused,
                MergeCommitFails, NothingToPush, Integrity, PushRejected, Die
  <2>2. CASE Fail(c) \/ Succeed(c) \/ Die(c)
    BY <1>2, <2>1, <2>2 DEF checkouts
  <2>3. CASE ~(Fail(c) \/ Succeed(c) \/ Die(c))
    <3>1. CASE DeletionCheck(c)
      BY <1>0, <2>1, <2>3, <3>1 DEF DeletionCheck, checkouts
    <3>2. CASE Integrity(c) \/ PushRejected(c)
      <4>1. pc'[c] \in {"push", "fetch"} /\ \A d \in Clones \ {c} : pc'[d] = pc[d] /\ run'[d] = run[d]
        BY <1>0, <2>3, <3>2 DEF Integrity, PushRejected, PushError, AfterIntegrity
      <4> QED
        BY <2>1, <4>1 DEF checkouts
    <3> QED
      BY <1>3, <2>3, <3>1, <3>2 DEF Ends, Paused, FetchFails, FastForwardRefused, MergeRefused,
                MergeCommitFails, NothingToPush
  <2> QED
    BY <2>2, <2>3
<1>4. CASE \E f \in Files : DriveStop(c, f) \/ DriveDies(c, f)
  BY <1>0, <1>4 DEF DriveStop, Stop, DriveDies
<1>5. CASE \/ \E F \in SUBSET Files : Edit(c, F)
           \/ \E f \in Files : Delete(c, f) \/ Resolve(c, f) \/ GitAdd(c, f)
  BY <1>5 DEF Edit, Delete, Resolve, GitAdd
<1> QED
  BY <1>1, <1>3, <1>4, <1>5 DEF Quiet

\* A push that lands, whether the checkout hears of it or not.
LEMMA LandsHistory ==
    ASSUME TypeOK, History, NEW c \in Clones, Push(c) \/ PushFails(c)
    PROVE  History'
<1>1. /\ UNCHANGED <<log, head, mergeHead>>
      /\ \A d \in Clones \ {c} : track'[d] = track[d] /\ pc'[d] = pc[d]
      /\ pc'[c] \in {"ok", "failed", "fetch"}
  <2>1. CASE Push(c)
    BY <2>1 DEF Push, Succeed, Goto, TypeOK
  <2>2. CASE PushFails(c)
    BY <2>2 DEF PushFails, PushError, Fail, Goto, TypeOK, checkouts
  <2> QED
    BY <2>1, <2>2
<1>2. pc'[c] \notin Diverging \cup Behind
  BY <1>1 DEF Diverging, Behind
<1>3. CASE PushFails(c) /\ UNCHANGED remote
  BY <1>1, <1>2, <1>3, HistoryUnchanged DEF PushFails, GoesOn, checkouts
<1>4. CASE ~(PushFails(c) /\ UNCHANGED remote)
  <2>1. IsAncestor(remote, head[c]) /\ remote' = head[c] /\ track'[c] \in {track[c], head[c]}
    BY <1>4 DEF Push, PushFails, checkouts, TypeOK
  <2> QED
    BY <1>1, <1>2, <2>1, PushHistory
<1> QED
  BY <1>3, <1>4

\* Every step keeps the history.
LEMMA HistoryStep ==
    ASSUME Typed, Control, History, [Next]_vars
    PROVE  History'
<1>1. TypeOK
  BY DEF Typed
<1>2. CASE UNCHANGED vars
  BY <1>2, HistoryUnchanged DEF vars, checkouts, GoesOn
<1>3. ASSUME NEW c \in Clones, Begin(c) \/ Work(c) \/ Faults(c) \/ User(c)
      PROVE  History'
  <2>1. CASE Quiet(c)
    BY <1>1, <2>1, QuietFacts, HistoryUnchanged
  <2>2. CASE OwnCommit(c)
    BY <2>2, CommitsHistory
  <2>3. CASE Fetch(c) \/ FastForward(c) \/ Merge(c) \/ MergeCommit(c) \/ Push(c) \/ PushFails(c)
    BY <1>1, <2>3, FetchHistory, FastForwardHistory, MergeHistory, MergeCommitHistory, LandsHistory
  <2> QED
    BY <1>3, <2>1, <2>2, <2>3 DEF Work, Faults, User, Ends, Quiet, OwnCommit
<1> QED
  BY <1>2, <1>3 DEF Next

\* Two commits that meet have the commit they meet in as their only merge base,
\* whatever set of commits L there is.
BasesIn(L, a, b) ==
    LET common == {x \in L : IsAncestor(x, a) /\ IsAncestor(x, b)}
    IN {x \in common : \A y \in common : IsAncestor(x, y) => y = x}
LEMMA OneBaseIn ==
    ASSUME NEW L, \A x \in L : x.at \in [Clones -> Nat],
           \A x, y \in L : x.at = y.at => x = y,
           NEW a \in L, NEW b \in L, NEW m \in L, IsAncestor(m, a), IsAncestor(m, b),
           \A x \in L : IsAncestor(x, a) /\ IsAncestor(x, b) => IsAncestor(x, m)
    PROVE  BasesIn(L, a, b) = {m}
<1>1. ASSUME NEW x \in L, IsAncestor(x, m), IsAncestor(m, x)
      PROVE  x = m
  <2>1. x.at \in [Clones -> Nat] /\ m.at \in [Clones -> Nat]
    OBVIOUS
  <2>2. \A d \in Clones : x.at[d] = m.at[d]
    BY <1>1, <2>1 DEF IsAncestor
  <2>3. x.at = m.at
    BY <2>1, <2>2
  <2> QED
    BY <2>3
<1> DEFINE common == {x \in L : IsAncestor(x, a) /\ IsAncestor(x, b)}
<1>2. m \in common /\ \A x \in common : IsAncestor(x, m)
  OBVIOUS
<1>3. \A y \in common : IsAncestor(m, y) => y = m
  BY <1>1, <1>2
<1>4. \A x \in common : (\A y \in common : IsAncestor(x, y) => y = x) => x = m
  BY <1>2
<1>5. BasesIn(L, a, b) = {x \in common : \A y \in common : IsAncestor(x, y) => y = x}
  BY DEF BasesIn
<1> HIDE DEF common
<1> QED
  BY <1>2, <1>3, <1>4, <1>5

\* HEAD and the commits it is compared with have one merge base, below both.
LEMMA BaseFacts ==
    ASSUME TypeOK, History, NEW c \in Clones, NEW t \in {track[c]} \cup mergeHead[c]
    PROVE  \E m \in log : /\ Meets(head[c], t, m)
                          /\ MergeBases(head[c], t) = {m} /\ MergeBase(head[c], t) = m
<1>1. HaveMeet(head[c], t) /\ head[c] \in log /\ t \in log
  BY Refs DEF History, Meet
<1>2. PICK m \in log : Meets(head[c], t, m)
  BY <1>1 DEF HaveMeet
<1>3. \A x \in log : x.at \in [Clones -> Nat]
  BY CommitType
<1>4. BasesIn(log, head[c], t) = {m}
  BY <1>1, <1>2, <1>3, OneBaseIn DEF Meets, History, StampsDiffer
<1>5. MergeBases(head[c], t) = {m}
  BY <1>4 DEF MergeBases, BasesIn
<1> QED
  BY <1>2, <1>5 DEF MergeBase

\* The merge base does not move when others commit.
LEMMA BaseStable ==
    ASSUME TypeOK, History, TypeOK', History', NEW c \in Clones,
           NEW t \in {track[c]} \cup mergeHead[c],
           head'[c] = head[c], log \subseteq log', t \in log',
           \A x \in log' \ log : ~IsAncestor(x, head[c])
    PROVE  MergeBase(head[c], t)' = MergeBase(head[c], t)
<1>1. PICK m \in log : Meets(head[c], t, m) /\ MergeBase(head[c], t) = m
  BY BaseFacts
<1>2. PICK h \in log : h = head[c]
  BY Refs
<1>3. Meets(h, t, m)'
  BY <1>1, <1>2 DEF Meets
<1>4. h \in log' /\ m \in log' /\ \A x, y \in log' : x.at = y.at => x = y
  BY <1>2 DEF History, StampsDiffer
<1>5. \A x \in log' : x.at \in [Clones -> Nat]
  BY DEF TypeOK, Commits, Stamp
<1>6. BasesIn(log', h, t) = {m}
  BY <1>3, <1>4, <1>5, OneBaseIn DEF Meets
<1>7. MergeBases(h, t)' = {m}
  BY <1>6 DEF MergeBases, BasesIn
<1>8. MergeBase(h, t)' = m
  BY <1>7 DEF MergeBase
<1> QED
  BY <1>1, <1>2, <1>8

\* There is one merge base wherever a run asks git for it.
LEMMA BaseIsOne ==
    ASSUME TypeOK, History
    PROVE  OneMergeBase
<1> SUFFICES ASSUME NEW c \in Clones, NEW t \in {track[c]} \cup mergeHead[c]
             PROVE  Cardinality(MergeBases(head[c], t)) = 1
  BY DEF OneMergeBase
<1>1. PICK m \in log : MergeBases(head[c], t) = {m}
  BY BaseFacts
<1>2. Cardinality({m}) = 1
  BY FS_Singleton
<1> QED
  BY <1>1, <1>2

\* What every history starts from.
LEMMA InitHistory ==
    ASSUME Init
    PROVE  History
<1>1. Root.at \in [Clones -> Nat] /\ \A c \in Clones : Root.at[c] = 0
  BY DEF Root
<1>2. IsAncestor(Root, Root)
  BY <1>1 DEF IsAncestor
<1>3. log = {Root} /\ remote = Root
      /\ \A c \in Clones : head[c] = Root /\ track[c] = Root /\ mergeHead[c] = {} /\ pc[c] = "ok"
  BY DEF Init
<1>4. StampsDiffer /\ OwnNewest
  BY <1>1, <1>3 DEF StampsDiffer, OwnNewest
<1> QED
  BY <1>2, <1>3, <1>4 DEF History, Causal, RefsBehind, SharedIsPushed, Diverged, Meet, HaveMeet, Meets

\* The merge base git merge-base prints is the only one: with one remote,
\* fast-forward pushes and a merge before every retry, histories never cross,
\* whatever the users, the deaths and the lost pushes do in between.
THEOREM MergeBaseUnique == Spec => []OneMergeBase
<1>1. Init => Typed /\ Control /\ History
  BY InitTyped, InitHistory
<1>2. Typed /\ Control /\ History /\ [Next]_vars => Typed' /\ Control' /\ History'
  BY TypedStep, ControlStep, HistoryStep DEF Typed
<1>3. Typed /\ History => OneMergeBase
  BY BaseIsOne DEF Typed
<1> QED
  BY <1>1, <1>2, <1>3, PTL DEF Spec

-----------------------------------------------------------------------------
(* Work. *)

\* EditsHeld, MarksHeld and PassedHeld of one checkout.
EditsOf(c, f) ==
    /\ head[c].files[f].edits \subseteq tree[c][f].edits
    /\ \A t \in mergeHead[c] :
          /\ MergedEdits(c, t, f) \subseteq index[c][f].edits
          /\ index[c][f].edits \subseteq tree[c][f].edits
          /\ f \in unmerged[c] => index[c][f].edits \subseteq MergedEdits(c, t, f)
MarksOf(c, f) ==
    /\ tree[c][f].marks # "none" =>
          /\ f \in unmerged[c]
          /\ \A t \in mergeHead[c] : ~DeleteEdit(Sides(c, f, t))
    /\ index[c][f].marks # "none" => f \in unmerged[c]
PassedOf(c) ==
    pc[c] \in {"ff", "merge"} => \A f \in run[c].passed :
        track[c].files[f] \in {Gone, MergeBase(head[c], track[c]).files[f], head[c].files[f]}
WorkOf(c) ==
    /\ \A f \in Files \ erased : EditsOf(c, f)
    /\ \A f \in Files : MarksOf(c, f)
    /\ PassedOf(c)

LEMMA WorkParts ==
    /\ (\A c \in Clones : WorkOf(c)) <=> EditsHeld /\ MarksHeld /\ PassedHeld
    /\ (\A c \in Clones : WorkOf(c))' <=> (EditsHeld /\ MarksHeld /\ PassedHeld)'
<1>1. (\A c \in Clones : WorkOf(c)) <=> EditsHeld /\ MarksHeld /\ PassedHeld
  BY DEF WorkOf, EditsOf, MarksOf, PassedOf, EditsHeld, MarksHeld, PassedHeld
<1> QED
  BY <1>1, PTL

\* The commits that a step may add.
Adds == log \subseteq log' /\ \A x \in log' \ log : \A y \in log : ~IsAncestor(x, y)

\* The two sides of a merge stay what they are, whoever commits.
LEMMA SidesStable ==
    ASSUME TypeOK, History, TypeOK', History', Adds, NEW c \in Clones, head'[c] = head[c]
    PROVE  /\ \A t \in mergeHead[c], f \in Files : Sides(c, f, t)' = Sides(c, f, t)
           /\ \A t \in mergeHead[c], f \in Files : MergedEdits(c, t, f)' = MergedEdits(c, t, f)
           /\ track'[c] = track[c] =>
                 MergeBase(head[c], track[c])' = MergeBase(head[c], track[c])
<1>1. \A t \in {track[c]} \cup mergeHead[c] : t \in log /\ t \in log'
  BY Refs DEF Adds
<1>2. \A x \in log' \ log : ~IsAncestor(x, head[c])
  BY Refs DEF Adds
<1>3. \A t \in {track[c]} \cup mergeHead[c] : MergeBase(head[c], t)' = MergeBase(head[c], t)
  BY <1>1, <1>2, BaseStable DEF Adds
<1>4. track'[c] = track[c] => MergeBase(head[c], track[c])' = MergeBase(head[c], track[c])
  <2>1. PICK t \in {track[c]} \cup mergeHead[c] : t = track[c]
    OBVIOUS
  <2>2. MergeBase(head[c], t)' = MergeBase(head[c], t)
    BY <1>3
  <2> QED
    BY <2>1, <2>2
<1> QED
  BY <1>3, <1>4 DEF Sides, MergedEdits

\* What a step does to other checkouts: at most it commits, pushes and deletes.
Spares(d) ==
    /\ head'[d] = head[d] /\ track'[d] = track[d] /\ mergeHead'[d] = mergeHead[d]
    /\ tree'[d] = tree[d] /\ index'[d] = index[d] /\ unmerged'[d] = unmerged[d]
    /\ pc'[d] = pc[d] /\ run'[d] = run[d]

LEMMA OtherWork ==
    ASSUME TypeOK, History, TypeOK', History', Adds, erased \subseteq erased',
           NEW d \in Clones, WorkOf(d), Spares(d)
    PROVE  WorkOf(d)'
<1>1. \A f \in Files \ erased' : EditsOf(d, f)'
  <2>1. \A f \in Files \ erased' : EditsOf(d, f)
    BY DEF WorkOf
  <2> QED
    BY <2>1 DEF EditsOf, MergedEdits, Spares
<1>2. \A f \in Files : MarksOf(d, f)'
  BY SidesStable DEF WorkOf, MarksOf, Spares
<1>3. PassedOf(d)'
  BY SidesStable DEF WorkOf, PassedOf, Spares
<1> QED
  BY <1>1, <1>2, <1>3 DEF WorkOf

\* A checkout whose refs, merge and conflicts stay as they are, and whose run is
\* not about to integrate.
LEMMA SameMerge ==
    ASSUME TypeOK, History, TypeOK', History', Adds, erased \subseteq erased',
           NEW c \in Clones, WorkOf(c),
           head'[c] = head[c], mergeHead'[c] = mergeHead[c],
           index'[c] = index[c], unmerged'[c] = unmerged[c],
           \A f \in Files \ erased' : tree[c][f].edits \subseteq tree'[c][f].edits,
           \A f \in Files : tree'[c][f].marks \in {"none", tree[c][f].marks}
    PROVE  /\ \A f \in Files \ erased' : EditsOf(c, f)'
           /\ \A f \in Files : MarksOf(c, f)'
<1>1. \A f \in Files \ erased' : EditsOf(c, f)'
  <2>1. \A f \in Files \ erased' : EditsOf(c, f)
    BY DEF WorkOf
  <2> QED
    BY <2>1 DEF EditsOf, MergedEdits
<1>2. \A f \in Files : MarksOf(c, f)'
  BY SidesStable DEF WorkOf, MarksOf
<1> QED
  BY <1>1, <1>2

\* Deletions that were let pass stay let pass.
LEMMA SamePassed ==
    ASSUME TypeOK, History, TypeOK', History', Adds, NEW c \in Clones, WorkOf(c),
           \/ pc'[c] \notin {"ff", "merge"}
           \/ /\ head'[c] = head[c] /\ track'[c] = track[c]
              /\ pc'[c] = pc[c] /\ run'[c].passed = run[c].passed
    PROVE  PassedOf(c)'
  BY SidesStable DEF WorkOf, PassedOf

\* Without a merge in progress no file of a checkout has markers.
LEMMA NoMarksAtRest ==
    ASSUME TypeOK, NEW c \in Clones, WorkOf(c), unmerged[c] = {}
    PROVE  \A f \in Files : tree[c][f].marks = "none" /\ index[c][f].marks = "none"
  BY DEF WorkOf, MarksOf

LEMMA NoMergeNoConflict ==
    ASSUME TypeOK, NEW c \in Clones, ~MidMerge(c)
    PROVE  unmerged[c] = {}
  BY DEF TypeOK

\* Commits keep the edits below them and hold no markers.
CommitsHeld == CommittedWorkKept /\ NoMarkersCommitted

LEMMA ChildFiles ==
    ASSUME NEW c, NEW a, NEW b, NEW fs
    PROVE  Child(c, a, b, fs).files = fs
  BY DEF Child

LEMMA NewCommitWork ==
    ASSUME TypeOK, History, CommitsHeld, UNCHANGED erased,
           NEW c \in Clones, NEW b \in log, NEW fs \in [Files -> Text], NewCommit(c, b, fs),
           \A f \in Files : fs[f].marks = "none",
           \A f \in Files \ erased : /\ head[c].files[f].edits \subseteq fs[f].edits
                                     /\ b.files[f].edits \subseteq fs[f].edits
    PROVE  CommitsHeld' /\ Adds
<1>1. PICK n \in Commits : n = Child(c, head[c], b, fs)
  BY CommitType, Refs, ChildFacts
<1>2. log' = log \cup {n} /\ n.files = fs /\ head[c] \in log
  BY <1>1, Refs, ChildFiles DEF NewCommit
<1>3. /\ \A x \in log : ~IsAncestor(n, x)
      /\ \A x \in log : IsAncestor(x, n) <=> IsAncestor(x, head[c]) \/ IsAncestor(x, b)
  BY <1>1, NewCommitOrder
<1>4. ASSUME NEW x \in log, IsAncestor(x, n), NEW f \in Files \ erased
      PROVE  x.files[f].edits \subseteq n.files[f].edits
  BY <1>2, <1>3, <1>4 DEF CommitsHeld, CommittedWorkKept
<1>5. CommittedWorkKept'
  BY <1>2, <1>3, <1>4 DEF CommitsHeld, CommittedWorkKept
<1>6. NoMarkersCommitted'
  BY <1>2 DEF CommitsHeld, NoMarkersCommitted
<1> QED
  BY <1>2, <1>3, <1>5, <1>6 DEF CommitsHeld, Adds

LEMMA SameCommits ==
    ASSUME CommitsHeld, UNCHANGED log, erased \subseteq erased'
    PROVE  CommitsHeld' /\ Adds
  BY DEF CommitsHeld, CommittedWorkKept, NoMarkersCommitted, Adds

\* A write of the tree outside a merge: the driver is not at work.
LEMMA OwnCommitTree ==
    ASSUME TypeOK, NEW c \in Clones, OwnCommit(c)
    PROVE  /\ \A f \in Files : /\ tree[c][f].edits \subseteq tree'[c][f].edits
                               /\ tree'[c][f].marks = tree[c][f].marks
           /\ \A d \in Clones \ {c} : tree'[d] = tree[d]
<1>1. CASE Snapshot(c)
  BY <1>1 DEF Snapshot
<1>2. CASE \E f \in Files : IntegrityRepairs(c, f) \/ WriteVerb(c, f)
  <2>1. PICK f \in Files : tree' = [tree EXCEPT ![c][f] = Retext(c, f)]
    BY <1>2 DEF IntegrityRepairs, WriteVerb
  <2>2. tree'[c][f] = Retext(c, f) /\ (\A g \in Files \ {f} : tree'[c][g] = tree[c][g])
        /\ \A d \in Clones \ {c} : tree'[d] = tree[d]
    BY <2>1 DEF TypeOK
  <2> QED
    BY <2>2, RetextFacts
<1> QED
  BY <1>1, <1>2 DEF OwnCommit

LEMMA OwnCommitWork ==
    ASSUME Typed, Control, History, CommitsHeld, Typed', History', NEW c \in Clones,
           WorkOf(c), OwnCommit(c)
    PROVE  WorkOf(c)' /\ CommitsHeld' /\ Adds
<1>0. TypeOK /\ TypeOK'
  BY DEF Typed
<1>1. /\ UNCHANGED <<track, mergeHead, index, unmerged, erased>>
      /\ \/ UNCHANGED <<head, log>>
         \/ /\ mergeHead[c] = {}
            /\ \E fs \in [Files -> Text] :
                 /\ NewCommit(c, head[c], fs)
                 /\ \A f \in Files : fs[f] \in {head[c].files[f], tree'[c][f]}
  BY CommitsFacts
<1>2. /\ \A f \in Files : /\ tree[c][f].edits \subseteq tree'[c][f].edits
                          /\ tree'[c][f].marks = tree[c][f].marks
  BY <1>0, OwnCommitTree
<1>3. pc'[c] \notin {"ff", "merge"}
  <2>1. CASE Snapshot(c)
    BY <1>0, <2>1 DEF Snapshot, AfterIntegrate, Goto, TypeOK
  <2>2. CASE \E f \in Files : IntegrityRepairs(c, f)
    BY <1>0, <2>2 DEF IntegrityRepairs, AfterIntegrity, Succeed, Goto, TypeOK
  <2>3. CASE \E f \in Files : WriteVerb(c, f)
    BY <1>0, <2>3 DEF WriteVerb, Rest
  <2> QED
    BY <2>1, <2>2, <2>3 DEF OwnCommit
<1>4. CASE UNCHANGED <<head, log>>
  <2>1. CommitsHeld' /\ Adds
    BY <1>1, <1>4, SameCommits
  <2>2. (\A f \in Files \ erased' : EditsOf(c, f)') /\ (\A f \in Files : MarksOf(c, f)')
    BY <1>0, <1>1, <1>2, <1>4, <2>1, SameMerge
  <2>3. PassedOf(c)'
    BY <1>0, <1>3, <2>1, SamePassed
  <2> QED
    BY <2>1, <2>2, <2>3 DEF WorkOf
<1>5. CASE ~UNCHANGED <<head, log>>
  <2>1. PICK fs \in [Files -> Text] :
          /\ NewCommit(c, head[c], fs)
          /\ \A f \in Files : fs[f] \in {head[c].files[f], tree'[c][f]}
    BY <1>1, <1>5
  <2>2. mergeHead[c] = {} /\ unmerged[c] = {} /\ head[c] \in log
    BY <1>0, <1>1, <1>5, NoMergeNoConflict, Refs DEF MidMerge
  <2>3. \A f \in Files : tree[c][f].marks = "none" /\ index[c][f].marks = "none"
    BY <1>0, <2>2, NoMarksAtRest
  <2>4. \A f \in Files : fs[f].marks = "none"
    BY <1>2, <2>1, <2>2, <2>3 DEF CommitsHeld, NoMarkersCommitted
  <2>5. \A f \in Files \ erased : head[c].files[f].edits \subseteq tree'[c][f].edits
    BY <1>2 DEF WorkOf, EditsOf
  <2>6. \A f \in Files \ erased : head[c].files[f].edits \subseteq fs[f].edits
    BY <2>1, <2>5
  <2>7. CommitsHeld' /\ Adds
    BY <1>0, <1>1, <2>1, <2>2, <2>4, <2>6, NewCommitWork
  <2>8. head'[c] = Child(c, head[c], head[c], fs)
    BY <1>0, <2>1, <2>2, NewCommitType
  <2>9. head'[c].files = fs
    BY <2>8, ChildFiles
  <2>10. \A f \in Files \ erased' : EditsOf(c, f)'
    BY <1>1, <2>1, <2>2, <2>5, <2>9 DEF EditsOf
  <2>11. \A f \in Files : MarksOf(c, f)'
    BY <1>1, <1>2, <2>3 DEF MarksOf
  <2>12. PassedOf(c)'
    BY <1>3 DEF PassedOf
  <2> QED
    BY <2>7, <2>10, <2>11, <2>12 DEF WorkOf
<1> QED
  BY <1>4, <1>5

LEMMA MergeCommitWork ==
    ASSUME TypeOK, Control, History, CommitsHeld, NEW c \in Clones, WorkOf(c), MergeCommit(c)
    PROVE  WorkOf(c)' /\ CommitsHeld' /\ Adds
<1>1. /\ Theirs(c) \in log /\ mergeHead[c] = {Theirs(c)} /\ index[c] \in [Files -> Text]
      /\ NewCommit(c, Theirs(c), index[c])
  BY MergeCommitFacts
<1>2. PICK b \in log, fs \in [Files -> Text] : b = Theirs(c) /\ fs = index[c]
  BY <1>1
<1>3. /\ pc'[c] \in {"snapLast", "push", "integrity"} /\ mergeHead'[c] = {}
      /\ index'[c] = Root.files /\ unmerged[c] = {}
      /\ UNCHANGED <<tree, unmerged, erased>>
  BY DEF MergeCommit, AfterIntegrate, Goto, TypeOK
<1>4. \A f \in Files : tree[c][f].marks = "none" /\ index[c][f].marks = "none"
  BY <1>3, NoMarksAtRest
<1>5. \A f \in Files \ erased : /\ head[c].files[f].edits \subseteq fs[f].edits
                                /\ b.files[f].edits \subseteq fs[f].edits
                                /\ fs[f].edits \subseteq tree[c][f].edits
  <2>1. ASSUME NEW f \in Files \ erased
        PROVE  MergedEdits(c, b, f) \subseteq fs[f].edits /\ fs[f].edits \subseteq tree[c][f].edits
    BY <1>1, <1>2 DEF WorkOf, EditsOf
  <2> QED
    BY <2>1 DEF MergedEdits
<1>6. CommitsHeld' /\ Adds
  BY <1>1, <1>2, <1>3, <1>4, <1>5, NewCommitWork
<1>7. head'[c].files = fs
  BY <1>1, <1>2, NewCommitType, ChildFiles
<1>8. \A f \in Files : Root.files[f].marks = "none"
  BY DEF Root, Plain
<1>9. \A f \in Files \ erased' : EditsOf(c, f)'
  BY <1>3, <1>5, <1>7 DEF EditsOf
<1>10. \A f \in Files : MarksOf(c, f)'
  BY <1>3, <1>4, <1>8 DEF MarksOf
<1>11. PassedOf(c)'
  BY <1>3 DEF PassedOf
<1> QED
  BY <1>6, <1>9, <1>10, <1>11 DEF WorkOf

LEMMA FastForwardWork ==
    ASSUME TypeOK, CommitsHeld, NEW c \in Clones, WorkOf(c), FastForward(c)
    PROVE  WorkOf(c)' /\ CommitsHeld' /\ Adds
<1>1. /\ mergeHead[c] = {} /\ UNCHANGED <<log, index, unmerged, mergeHead, erased>>
      /\ head'[c] = track[c] /\ pc'[c] = "snapLast" /\ track[c] \in log
      /\ \A f \in Files : tree'[c][f] = IF track[c].files[f] # head[c].files[f]
                                        THEN track[c].files[f] ELSE tree[c][f]
  BY DEF FastForward, Goto, TypeOK, MidMerge
<1>2. unmerged[c] = {}
  BY <1>1, NoMergeNoConflict DEF MidMerge
<1>3. \A f \in Files : tree[c][f].marks = "none" /\ index[c][f].marks = "none"
  BY <1>2, NoMarksAtRest
<1>4. CommitsHeld' /\ Adds
  BY <1>1, SameCommits
<1>5. \A f \in Files \ erased' : EditsOf(c, f)'
  BY <1>1 DEF WorkOf, EditsOf
<1>6. \A f \in Files : MarksOf(c, f)'
  BY <1>1, <1>3 DEF MarksOf, CommitsHeld, NoMarkersCommitted
<1>7. PassedOf(c)'
  BY <1>1 DEF PassedOf
<1> QED
  BY <1>4, <1>5, <1>6, <1>7 DEF WorkOf

\* In a file nobody has deleted, neither side of a merge has lost an edit of the
\* merge base, so the merge is no delete/edit.
LEMMA SidesWork ==
    ASSUME TypeOK, History, CommitsHeld, NEW c \in Clones,
           NEW t \in {track[c]} \cup mergeHead[c], NEW f \in Files
    PROVE  LET s == Sides(c, f, t)
           IN /\ s.o = head[c].files[f] /\ s.t = t.files[f]
              /\ s.o.marks = "none" /\ s.t.marks = "none"
              /\ f \notin erased => /\ s.b.edits \subseteq s.o.edits
                                    /\ s.b.edits \subseteq s.t.edits
                                    /\ ~DeleteEdit(s)
<1>1. PICK m \in log : Meets(head[c], t, m) /\ MergeBase(head[c], t) = m
  BY BaseFacts
<1>2. head[c] \in log /\ t \in log
  BY Refs
<1> DEFINE s == Sides(c, f, t)
<1>3. s.o = head[c].files[f] /\ s.t = t.files[f] /\ s.b = m.files[f]
  BY <1>1 DEF Sides
<1>4. m.files[f] \in Text
  BY CommitType
<1> HIDE DEF s
<1>5. s.o.marks = "none" /\ s.t.marks = "none" /\ s.b.marks = "none"
  BY <1>2, <1>3 DEF CommitsHeld, NoMarkersCommitted
<1>6. f \notin erased => s.b.edits \subseteq s.o.edits /\ s.b.edits \subseteq s.t.edits
  BY <1>1, <1>2, <1>3 DEF CommitsHeld, CommittedWorkKept, Meets
<1>7. s.b.edits = {} => s.b = Gone
  BY <1>3, <1>4, <1>5, RootType DEF Gone, Plain, Text
<1>8. f \notin erased => ~DeleteEdit(s)
  BY <1>6, <1>7, RootType DEF DeleteEdit
<1> QED
  BY <1>3, <1>5, <1>6, <1>8 DEF s

\* What git leaves of a file that the merge writes.
LEMMA GitResultsWork ==
    ASSUME NEW c \in Clones, NEW f \in Files, NEW s, NEW r, r \in GitResults(c, f, s),
           s.t # s.b, s.t # s.o, s.o.marks = "none", s.t.marks = "none",
           tree[c][f].marks = "none"
    PROVE  /\ r.marks # "none" => Contested(s) /\ ~DeleteEdit(s)
           /\ s.b.edits \subseteq s.o.edits /\ s.b.edits \subseteq s.t.edits /\ ~DeleteEdit(s)
                 => r.edits = s.o.edits \cup s.t.edits
<1>1. CASE ~Contested(s)
  <2>1. s.o = s.b /\ r = s.t
    BY <1>1 DEF Contested, GitResults
  <2> QED
    BY <2>1
<1>2. CASE Contested(s) /\ DeleteEdit(s)
  BY <1>2 DEF GitResults
<1>3. CASE Contested(s) /\ ~DeleteEdit(s)
  <2>1. PICK m \in Marks \cup {"none", "body"} : r = [edits |-> s.o.edits \cup s.t.edits, marks |-> m]
    BY <1>3 DEF GitResults
  <2> QED
    BY <1>3, <2>1
<1> QED
  BY <1>1, <1>2, <1>3

LEMMA MergeWork ==
    ASSUME TypeOK, History, CommitsHeld, NEW c \in Clones, WorkOf(c), Merge(c)
    PROVE  WorkOf(c)' /\ CommitsHeld' /\ Adds
<1>1. PICK r \in [Files -> Text] :
        /\ MergeStarts(c, r)
        /\ \A f \in Touched(c) : r[f] \in GitResults(c, f, Sides(c, f, track[c]))
        /\ \A f \in Files \ Touched(c) : r[f] = head[c].files[f]
  BY MergeFacts
<1>2. PICK t \in {track[c]} \cup mergeHead[c] : t = track[c]
  OBVIOUS
<1>3. /\ UNCHANGED <<log, head, track, erased>> /\ mergeHead[c] = {} /\ mergeHead'[c] = {t}
      /\ index'[c] = r /\ unmerged'[c] = Stuck(c, r) /\ pc'[c] = "drive"
      /\ \A f \in Files : tree'[c][f] = IF f \in Touched(c) THEN r[f] ELSE tree[c][f]
  BY <1>1, <1>2 DEF MergeStarts, Goto, TypeOK, MidMerge
<1>4. unmerged[c] = {}
  BY <1>3, NoMergeNoConflict DEF MidMerge
<1>5. \A f \in Files : tree[c][f].marks = "none"
  BY <1>4, NoMarksAtRest
<1>6. \A f \in Files : Sides(c, f, t)' = Sides(c, f, t)
  BY <1>3 DEF Sides, MergeBase, MergeBases
<1>7. ASSUME NEW f \in Files
      PROVE  /\ tree'[c][f].marks # "none" => f \in unmerged'[c] /\ ~DeleteEdit(Sides(c, f, t))
             /\ index'[c][f].marks # "none" => f \in unmerged'[c]
             /\ f \notin erased =>
                  /\ head[c].files[f].edits \subseteq tree'[c][f].edits
                  /\ MergedEdits(c, t, f) = index'[c][f].edits
                  /\ index'[c][f].edits \subseteq tree'[c][f].edits
  <2> DEFINE s == Sides(c, f, t)
  <2>1. /\ s.o = head[c].files[f] /\ s.t = t.files[f]
        /\ s.o.marks = "none" /\ s.t.marks = "none"
        /\ f \notin erased => /\ s.b.edits \subseteq s.o.edits
                              /\ s.b.edits \subseteq s.t.edits
                              /\ ~DeleteEdit(s)
    BY SidesWork
  <2>2. f \notin erased => head[c].files[f].edits \subseteq tree[c][f].edits
    BY DEF WorkOf, EditsOf
  <2>3. f \in Touched(c) <=> s.t # s.b /\ s.t # s.o
    BY <1>2 DEF Touched
  <2>4. f \in Stuck(c, r) <=> f \in Touched(c) /\ Contested(s) /\ (DeleteEdit(s) \/ r[f].marks # "none")
    BY <1>2 DEF Stuck
  <2>5. f \in Touched(c) => r[f] \in GitResults(c, f, s)
    BY <1>1, <1>2
  <2> HIDE DEF s
  <2>6. CASE f \in Touched(c)
    <3>1. /\ r[f].marks # "none" => Contested(s) /\ ~DeleteEdit(s)
          /\ s.b.edits \subseteq s.o.edits /\ s.b.edits \subseteq s.t.edits /\ ~DeleteEdit(s)
                => r[f].edits = s.o.edits \cup s.t.edits
      BY <1>5, <2>1, <2>3, <2>5, <2>6, GitResultsWork
    <3>2. r[f].marks # "none" => f \in unmerged'[c] /\ ~DeleteEdit(s)
      BY <1>3, <2>4, <2>6, <3>1
    <3>3. f \notin erased => r[f].edits = MergedEdits(c, t, f)
      BY <2>1, <3>1 DEF MergedEdits
    <3> QED
      BY <1>3, <2>6, <3>2, <3>3 DEF s, MergedEdits
  <2>7. CASE f \notin Touched(c)
    <3>1. r[f] = head[c].files[f]
      BY <1>1, <2>7
    <3>2. f \notin erased => MergedEdits(c, t, f) = r[f].edits
      BY <2>1, <2>3, <2>7, <3>1 DEF MergedEdits
    <3> QED
      BY <1>3, <1>5, <2>1, <2>2, <2>7, <3>1, <3>2
  <2> QED
    BY <2>6, <2>7
<1>8. \A f \in Files \ erased' : EditsOf(c, f)'
  BY <1>3, <1>7 DEF EditsOf, MergedEdits
<1>9. \A f \in Files : MarksOf(c, f)'
  BY <1>3, <1>6, <1>7 DEF MarksOf
<1>10. PassedOf(c)'
  BY <1>3 DEF PassedOf
<1>11. CommitsHeld' /\ Adds
  BY <1>3, SameCommits
<1> QED
  BY <1>8, <1>9, <1>10, <1>11 DEF WorkOf

\* A stop at the unmerged file f, and the death in the middle of one.
LEMMA StopWork ==
    ASSUME TypeOK, History, CommitsHeld, NEW c \in Clones, NEW f \in Files, WorkOf(c),
           MidMerge(c), f \in unmerged[c],
           \/ StopKeeps(c, f) \/ StopMerges(c, f) \/ StopMarks(c, f) \/ StopTakes(c, f)
           \/ /\ tree' = [tree EXCEPT ![c][f] = Composed(c, f, "none")]
              /\ UNCHANGED <<index, unmerged>>,
           UNCHANGED <<log, head, track, mergeHead, erased>>
    PROVE  /\ \A g \in Files \ erased' : EditsOf(c, g)'
           /\ \A g \in Files : MarksOf(c, g)'
<1>1. PICK t \in log : mergeHead[c] = {t} /\ t = Theirs(c)
  BY TheirsType
<1>2. \A g \in Files : Sides(c, g, t)' = Sides(c, g, t)
  BY DEF Sides, MergeBase, MergeBases
<1>3. /\ tree \in [Clones -> [Files -> Text]] /\ index \in [Clones -> [Files -> Text]]
      /\ unmerged \in [Clones -> SUBSET Files]
  BY DEF TypeOK
<1>4. \A m : Composed(c, f, m).edits = MergedEdits(c, t, f) /\ Composed(c, f, m).marks = m
  BY <1>1 DEF Composed
<1>5. /\ \A g \in Files \ {f} : /\ tree'[c][g] = tree[c][g] /\ index'[c][g] = index[c][g]
                                /\ g \in unmerged'[c] <=> g \in unmerged[c]
  BY <1>3 DEF StopKeeps, Keep, StopMerges, StopMarks, StopTakes, Staged
<1>6. \/ tree'[c][f] = tree[c][f] /\ index'[c][f] = index[c][f] /\ f \in unmerged'[c]
      \/ tree'[c][f] = Composed(c, f, "none") /\ index'[c][f] = Composed(c, f, "none")
      \/ /\ tree'[c][f] = Composed(c, f, "none") /\ index'[c][f] = index[c][f] /\ f \in unmerged'[c]
      \/ /\ tree'[c][f] = Composed(c, f, "body") /\ index'[c][f] = index[c][f] /\ f \in unmerged'[c]
         /\ ~DeleteEdit(Sides(c, f, t))
      \/ tree'[c][f] = tree[c][f] /\ index'[c][f] = tree[c][f] /\ TakenAsResolved(c, f)
  BY <1>1, <1>3 DEF StopKeeps, Keep, StopMerges, StopMarks, StopTakes, Staged
<1>7. TakenAsResolved(c, f) => tree[c][f].marks = "none"
  BY <1>1 DEF WorkOf, MarksOf, TakenAsResolved, Acted
<1>8. \A g \in Files \ {f} : (g \notin erased' => EditsOf(c, g)') /\ MarksOf(c, g)'
  <2>1. \A g \in Files \ {f} : (g \notin erased => EditsOf(c, g)) /\ MarksOf(c, g)
    BY DEF WorkOf
  <2> QED
    BY <1>1, <1>2, <1>5, <2>1 DEF EditsOf, MarksOf, MergedEdits
<1>9. f \notin erased' => EditsOf(c, f)'
  <2>1. f \notin erased => /\ head[c].files[f].edits \subseteq tree[c][f].edits
                           /\ MergedEdits(c, t, f) \subseteq index[c][f].edits
                           /\ index[c][f].edits \subseteq tree[c][f].edits
                           /\ index[c][f].edits \subseteq MergedEdits(c, t, f)
    BY <1>1 DEF WorkOf, EditsOf
  <2>2. MergedEdits(c, t, f)' = MergedEdits(c, t, f) /\ head[c].files[f].edits \subseteq MergedEdits(c, t, f)
    BY DEF MergedEdits
  <2>3. f \notin erased => /\ head'[c].files[f].edits \subseteq tree'[c][f].edits
                           /\ MergedEdits(c, t, f) \subseteq index'[c][f].edits
                           /\ index'[c][f].edits \subseteq tree'[c][f].edits
    BY <1>4, <1>6, <2>1, <2>2
  <2>4. f \in unmerged'[c] /\ f \notin erased => index'[c][f].edits \subseteq MergedEdits(c, t, f)
    <3>1. CASE TakenAsResolved(c, f) /\ index'[c][f] = tree[c][f] /\ index'[c][f] # index[c][f]
      BY <1>3, <3>1 DEF StopKeeps, Keep, StopMerges, StopMarks, StopTakes, Staged
    <3>2. CASE ~(TakenAsResolved(c, f) /\ index'[c][f] = tree[c][f] /\ index'[c][f] # index[c][f])
      BY <1>4, <1>6, <2>1, <3>2
    <3> QED
      BY <3>1, <3>2
  <2> QED
    BY <1>1, <2>2, <2>3, <2>4 DEF EditsOf
<1>10. MarksOf(c, f)'
  <2>1. MarksOf(c, f)
    BY DEF WorkOf
  <2> QED
    BY <1>1, <1>2, <1>4, <1>6, <1>7, <2>1 DEF MarksOf
<1> QED
  BY <1>8, <1>9, <1>10

\* The conflicts of a merge, one after the other.
LEMMA DriveWork ==
    ASSUME TypeOK, Control, History, CommitsHeld, NEW c \in Clones, NEW f \in Files, WorkOf(c),
           DriveStop(c, f) \/ DriveDies(c, f), Typed
    PROVE  WorkOf(c)' /\ CommitsHeld' /\ Adds
<1>1. MidMerge(c) /\ UNCHANGED <<log, head, track, mergeHead, erased>>
  BY DEF DriveStop, DriveDies, Control
<1>2. f \in unmerged[c]
  BY DEF DriveStop, Stop, DriveDies, Next1, TypeOK
<1>3. \/ StopKeeps(c, f) \/ StopMerges(c, f) \/ StopMarks(c, f) \/ StopTakes(c, f)
      \/ /\ tree' = [tree EXCEPT ![c][f] = Composed(c, f, "none")]
         /\ UNCHANGED <<index, unmerged>>
  <2>1. CASE DriveStop(c, f)
    BY <1>1, <2>1, StopFacts
  <2>2. CASE DriveDies(c, f)
    BY <2>2, DriveDiesTyped DEF DriveDies
  <2> QED
    BY <2>1, <2>2
<1>4. (\A g \in Files \ erased' : EditsOf(c, g)') /\ (\A g \in Files : MarksOf(c, g)')
  BY <1>1, <1>2, <1>3, StopWork
<1>5. pc'[c] \notin {"ff", "merge"}
  BY DEF DriveStop, DriveDies, Goto, TypeOK
<1>6. PassedOf(c)'
  BY <1>5 DEF PassedOf
<1>7. CommitsHeld' /\ Adds
  BY <1>1, SameCommits
<1> QED
  BY <1>4, <1>6, <1>7 DEF WorkOf

\* A step of a run that touches no file.
LEMMA ControlWork ==
    ASSUME TypeOK, History, TypeOK', History', CommitsHeld, NEW c \in Clones, WorkOf(c),
           UNCHANGED <<log, head, tree, index, unmerged, mergeHead, erased>>,
           pc'[c] \notin {"ff", "merge"}
    PROVE  WorkOf(c)' /\ CommitsHeld' /\ Adds
<1>1. CommitsHeld' /\ Adds
  BY SameCommits
<1>2. (\A f \in Files \ erased' : EditsOf(c, f)') /\ (\A f \in Files : MarksOf(c, f)')
  BY <1>1, SameMerge
<1>3. PassedOf(c)'
  BY DEF PassedOf
<1> QED
  BY <1>1, <1>2, <1>3 DEF WorkOf

\* The check before an integrate passes only what the integrate will not undo.
LEMMA DeletionCheckWork ==
    ASSUME TypeOK, History, TypeOK', History', CommitsHeld, NEW c \in Clones, WorkOf(c),
           DeletionCheck(c)
    PROVE  WorkOf(c)' /\ CommitsHeld' /\ Adds
<1>1. UNCHANGED <<log, head, track, tree, index, unmerged, mergeHead, erased>>
  BY DEF DeletionCheck, checkouts
<1>2. CASE Fail(c)
  <2>1. pc'[c] = "failed"
    BY <1>2 DEF Fail, Goto, TypeOK
  <2> QED
    BY <1>1, <2>1, ControlWork
<1>3. CASE ~Fail(c)
  <2> DEFINE F == {f \in Files : tree[c][f] = Gone /\ Dirty(c, f)}
  <2>1. DeletionsUpstreamWouldRestore(c) = {} /\ run' = [run EXCEPT ![c].passed = F]
    BY <1>3 DEF DeletionCheck
  <2>2. run'[c].passed = F
    BY <2>1 DEF TypeOK, Run
  <2>3. \A f \in F : track[c].files[f] \in {Gone, MergeBase(head[c], track[c]).files[f], head[c].files[f]}
    BY <2>1 DEF DeletionsUpstreamWouldRestore
  <2>4. MergeBase(head[c], track[c])' = MergeBase(head[c], track[c])
    BY <1>1 DEF MergeBase, MergeBases
  <2>5. PassedOf(c)'
    BY <1>1, <2>2, <2>3, <2>4 DEF PassedOf
  <2>6. CommitsHeld' /\ Adds
    BY <1>1, SameCommits
  <2>7. (\A f \in Files \ erased' : EditsOf(c, f)') /\ (\A f \in Files : MarksOf(c, f)')
    BY <1>1, <2>6, SameMerge
  <2> QED
    BY <2>5, <2>6, <2>7 DEF WorkOf
<1> QED
  BY <1>2, <1>3

\* The users' steps.
LEMMA UserWork ==
    ASSUME TypeOK, History, TypeOK', History', CommitsHeld, NEW c \in Clones, WorkOf(c),
           \/ \E F \in SUBSET Files : Edit(c, F)
           \/ \E f \in Files : Delete(c, f) \/ Resolve(c, f) \/ GitAdd(c, f)
    PROVE  WorkOf(c)' /\ CommitsHeld' /\ Adds
<1>1. /\ UNCHANGED <<log, head, track, mergeHead, pc, run>> /\ erased \subseteq erased'
  BY DEF Edit, Delete, Resolve, GitAdd
<1>2. CommitsHeld' /\ Adds
  BY <1>1, SameCommits
<1>3. PassedOf(c)'
  BY <1>1, <1>2, SamePassed
<1>4. CASE \E F \in SUBSET Files : Edit(c, F)
  <2>1. UNCHANGED <<index, unmerged, erased>>
        /\ \A f \in Files : tree'[c][f] = tree[c][f] \/ tree'[c][f] = Retext(c, f)
    BY <1>4 DEF Edit, TypeOK
  <2>2. \A f \in Files : /\ tree[c][f].edits \subseteq tree'[c][f].edits
                         /\ tree'[c][f].marks = tree[c][f].marks
    BY <2>1, RetextFacts
  <2>3. (\A f \in Files \ erased' : EditsOf(c, f)') /\ (\A f \in Files : MarksOf(c, f)')
    BY <1>1, <1>2, <2>1, <2>2, SameMerge
  <2> QED
    BY <1>2, <1>3, <2>3 DEF WorkOf
<1>5. CASE \E f \in Files : Delete(c, f)
  <2>1. PICK f \in Files : Delete(c, f)
    BY <1>5
  <2>2. /\ UNCHANGED <<index, unmerged>> /\ f \in erased' /\ tree'[c][f] = Gone
        /\ \A g \in Files \ {f} : tree'[c][g] = tree[c][g]
    BY <2>1 DEF Delete, TypeOK
  <2>3. (\A g \in Files \ erased' : EditsOf(c, g)') /\ (\A g \in Files : MarksOf(c, g)')
    BY <1>1, <1>2, <2>2, RootType, SameMerge
  <2> QED
    BY <1>2, <1>3, <2>3 DEF WorkOf
<1>6. CASE \E f \in Files : Resolve(c, f)
  <2>1. PICK f \in Files : Resolve(c, f)
    BY <1>6
  <2>2. UNCHANGED <<index, unmerged, erased>> /\ tree[c][f] \in Text
    BY <2>1 DEF Resolve, TypeOK
  <2>3. /\ tree'[c][f].edits = tree[c][f].edits /\ tree'[c][f].marks = "none"
        /\ \A g \in Files \ {f} : tree'[c][g] = tree[c][g]
    BY <2>1, <2>2 DEF Resolve, TypeOK, Text
  <2>4. (\A g \in Files \ erased' : EditsOf(c, g)') /\ (\A g \in Files : MarksOf(c, g)')
    BY <1>1, <1>2, <2>2, <2>3, SameMerge
  <2> QED
    BY <1>2, <1>3, <2>4 DEF WorkOf
<1>7. CASE \E f \in Files : GitAdd(c, f)
  <2>1. PICK f \in Files : GitAdd(c, f)
    BY <1>7
  <2>2. /\ UNCHANGED <<tree, erased>> /\ tree[c][f].marks = "none"
        /\ index'[c][f] = tree[c][f] /\ unmerged'[c] = unmerged[c] \ {f}
        /\ \A g \in Files \ {f} : index'[c][g] = index[c][g]
    BY <2>1 DEF GitAdd, Staged, TypeOK
  <2>3. \A g \in Files \ erased' : EditsOf(c, g)'
    <3>1. \A g \in Files \ erased : EditsOf(c, g)
      BY DEF WorkOf
    <3>2. \A g \in Files \ erased, t \in mergeHead[c] :
             /\ MergedEdits(c, t, g)' = MergedEdits(c, t, g)
             /\ MergedEdits(c, t, g) \subseteq index'[c][g].edits
             /\ index'[c][g].edits \subseteq tree[c][g].edits
      BY <1>1, <2>2, <3>1 DEF EditsOf, MergedEdits
    <3> QED
      BY <1>1, <2>2, <3>1, <3>2 DEF EditsOf
  <2>4. \A g \in Files : MarksOf(c, g)'
    BY <1>1, <1>2, <2>2, SidesStable DEF WorkOf, MarksOf
  <2> QED
    BY <1>2, <1>3, <2>3, <2>4 DEF WorkOf
<1> QED
  BY <1>4, <1>5, <1>6, <1>7

\* A step of one checkout leaves the others alone.
LEMMA SparesOthers ==
    ASSUME Typed, Control, NEW c \in Clones, Begin(c) \/ Work(c) \/ Faults(c) \/ User(c),
           NEW d \in Clones \ {c}
    PROVE  Spares(d)
<1>0. TypeOK
  BY DEF Typed
<1>1. /\ head \in [Clones -> log] /\ track \in [Clones -> log]
      /\ tree \in [Clones -> [Files -> Text]] /\ index \in [Clones -> [Files -> Text]]
      /\ unmerged \in [Clones -> SUBSET Files] /\ pc \in [Clones -> Points]
      /\ run \in [Clones -> Run] /\ DOMAIN mergeHead = Clones
  BY <1>0 DEF TypeOK
<1> USE DEF Spares
<1>2. CASE Quiet(c)
  <2>1. /\ UNCHANGED <<head, track, mergeHead>> /\ pc'[d] = pc[d] /\ run'[d] = run[d]
    BY SMTT(40), <1>0, <1>2, QuietFacts
  <2>2. UNCHANGED <<tree, index, unmerged>> \/
        (\E f \in Files : DriveStop(c, f) \/ DriveDies(c, f) \/ Delete(c, f) \/ Resolve(c, f) \/ GitAdd(c, f))
        \/ \E F \in SUBSET Files : Edit(c, F)
    BY <1>2 DEF Quiet, Begin, SyncBegin, RefreshBegin, PushBegin, DeletionCheck, Ends, Paused,
       FetchFails, FastForwardRefused, MergeRefused, MergeCommitFails, NothingToPush, Integrity,
       PushRejected, Die, checkouts
  <2>3. CASE \E f \in Files : DriveStop(c, f)
    <3>1. tree'[d] = tree[d] /\ index'[d] = index[d] /\ unmerged'[d] = unmerged[d]
      BY <1>1, <2>3 DEF DriveStop, Stop, Drive, Keep, Staged
    <3> QED
      BY <2>1, <3>1
  <2>4. CASE \E f \in Files : DriveDies(c, f) \/ Delete(c, f) \/ Resolve(c, f) \/ GitAdd(c, f)
    <3>1. tree'[d] = tree[d] /\ index'[d] = index[d] /\ unmerged'[d] = unmerged[d]
      BY <1>1, <2>4 DEF DriveDies, Delete, Resolve, GitAdd, Staged
    <3> QED
      BY <2>1, <3>1
  <2>5. CASE \E F \in SUBSET Files : Edit(c, F)
    <3>1. tree'[d] = tree[d] /\ index'[d] = index[d] /\ unmerged'[d] = unmerged[d]
      BY <1>1, <2>5 DEF Edit
    <3> QED
      BY <2>1, <3>1
  <2> QED
    BY <2>1, <2>2, <2>3, <2>4, <2>5
<1>3. CASE OwnCommit(c)
  <2>1. /\ UNCHANGED <<track, mergeHead, index, unmerged>> /\ pc'[d] = pc[d] /\ run'[d] = run[d]
        /\ tree'[d] = tree[d]
    BY <1>0, <1>3, CommitsFacts, OwnCommitTree
  <2>2. head'[d] = head[d]
    <3>1. CASE UNCHANGED <<head, log>>
      BY <3>1
    <3>2. CASE \E fs \in [Files -> Text] : NewCommit(c, head[c], fs)
      BY <1>1, <3>2 DEF NewCommit
    <3> QED
      BY <1>3, <3>1, <3>2, CommitsFacts
  <2> QED
    BY <2>1, <2>2
<1>4. CASE Merge(c)
  <2>1. PICK r \in [Files -> Text] : MergeStarts(c, r)
    BY <1>0, <1>4, MergeFacts
  <2> QED
    BY <1>1, <2>1 DEF MergeStarts, Goto
<1>5. CASE Fetch(c) \/ FastForward(c)
  BY <1>1, <1>5 DEF Fetch, FastForward, Goto
<1>6. CASE MergeCommit(c)
  BY <1>1, <1>6 DEF MergeCommit, Goto
<1>7. CASE Push(c) \/ PushFails(c)
  BY <1>1, <1>7 DEF Push, PushFails, PushError, Fail, Succeed, Goto, checkouts
<1> QED
  BY <1>2, <1>3, <1>4, <1>5, <1>6, <1>7 DEF Work, Faults, User, Ends, Quiet, OwnCommit

\* The checkout that moves keeps its work, and the commits keep theirs.
LEMMA ActingWork ==
    ASSUME Typed, Control, History, CommitsHeld, Typed', History', NEW c \in Clones, WorkOf(c),
           Begin(c) \/ Work(c) \/ Faults(c) \/ User(c)
    PROVE  WorkOf(c)' /\ CommitsHeld' /\ Adds
<1>0. TypeOK /\ TypeOK'
  BY DEF Typed
<1>1. CASE OwnCommit(c)
  BY <1>1, OwnCommitWork
<1>2. CASE FastForward(c) \/ Merge(c) \/ MergeCommit(c) \/ DeletionCheck(c)
  BY <1>0, <1>2, FastForwardWork, MergeWork, MergeCommitWork, DeletionCheckWork
<1>3. CASE \E f \in Files : DriveStop(c, f) \/ DriveDies(c, f)
  BY <1>0, <1>3, DriveWork
<1>4. CASE \/ \E F \in SUBSET Files : Edit(c, F)
           \/ \E f \in Files : Delete(c, f) \/ Resolve(c, f) \/ GitAdd(c, f)
  BY <1>0, <1>4, UserWork
<1>5. CASE \/ Begin(c) \/ Ends(c) \/ Integrity(c) \/ PushRejected(c) \/ Die(c)
           \/ Fetch(c) \/ Push(c) \/ PushFails(c)
  <2>1. UNCHANGED <<log, head, tree, index, unmerged, mergeHead, erased>>
    BY <1>5 DEF Begin, SyncBegin, RefreshBegin, PushBegin, Ends, Paused,
       FetchFails, FastForwardRefused, MergeRefused, MergeCommitFails, NothingToPush, Integrity,
       PushRejected, Die, Fetch, Push, PushFails, checkouts
  <2>2. pc'[c] \notin {"ff", "merge"}
    <3>1. pc \in [Clones -> Points]
      BY <1>0 DEF TypeOK
    <3>2. CASE Begin(c) \/ Fetch(c)
      BY <3>1, <3>2 DEF Begin, SyncBegin, RefreshBegin, PushBegin, Fetch, CompareUpstream, Goto
    <3>3. CASE Fail(c) \/ Succeed(c) \/ Die(c)
      BY <3>1, <3>3 DEF Fail, Succeed, Die, Goto
    <3>4. CASE Ends(c) \/ Integrity(c) \/ PushRejected(c) \/ Push(c) \/ PushFails(c)
      BY <3>1, <3>3, <3>4 DEF Ends, Paused,
       FetchFails, FastForwardRefused, MergeRefused, MergeCommitFails, NothingToPush, Integrity,
       AfterIntegrity, PushRejected, PushError, Push, PushFails, Goto
    <3> QED
      BY <1>5, <3>2, <3>3, <3>4
  <2> QED
    BY SMTT(40), <1>0, <2>1, <2>2, ControlWork
<1> QED
  BY <1>1, <1>2, <1>3, <1>4, <1>5 DEF Work, Faults, User, Ends, OwnCommit

\* Every step keeps the work.
LEMMA WorkStep ==
    ASSUME Typed, Control, History, WorkHeld, Typed', History', [Next]_vars
    PROVE  WorkHeld'
<1>0. TypeOK /\ TypeOK' /\ CommitsHeld /\ \A d \in Clones : WorkOf(d)
  BY WorkParts DEF Typed, WorkHeld, CommitsHeld
<1>1. CASE UNCHANGED vars
  <2>1. UNCHANGED <<log, head, track, tree, index, unmerged, mergeHead, pc, run, erased>>
    BY <1>1 DEF vars, checkouts
  <2>2. CommitsHeld' /\ Adds
    BY <1>0, <2>1, SameCommits
  <2>3. \A d \in Clones : WorkOf(d)'
    BY <1>0, <2>1, <2>2, OtherWork DEF Spares
  <2> QED
    BY <2>2, <2>3, WorkParts DEF WorkHeld, CommitsHeld
<1>2. ASSUME NEW c \in Clones, Begin(c) \/ Work(c) \/ Faults(c) \/ User(c)
      PROVE  WorkHeld'
  <2>1. WorkOf(c)' /\ CommitsHeld' /\ Adds
    BY SMTT(40), <1>0, <1>2, ActingWork
  <2>2. erased \subseteq erased'
    BY <1>2 DEF Begin, SyncBegin, RefreshBegin, PushBegin, Work, Fetch, Snapshot, DeletionCheck,
       FastForward, FastForwardRefused, Merge, MergeRefused, DriveStop, Paused, MergeCommit, Integrity,
       IntegrityRepairs, NothingToPush, Push, PushRejected, Faults, FetchFails, MergeCommitFails,
       PushFails, Die, DriveDies, User, Edit, Delete, Resolve, GitAdd, WriteVerb
  <2>3. ASSUME NEW d \in Clones \ {c}
        PROVE  WorkOf(d)'
    <3>1. Spares(d)
      BY <1>2, SparesOthers
    <3> QED
      BY <1>0, <2>1, <2>2, <3>1, OtherWork
  <2> QED
    BY <2>1, <2>3, WorkParts DEF WorkHeld, CommitsHeld
<1> QED
  BY <1>1, <1>2 DEF Next

-----------------------------------------------------------------------------
(* The theorems. *)

LEMMA InitInv ==
    ASSUME Init
    PROVE  IInv
<1>1. Typed /\ Control /\ History
  BY InitTyped, InitHistory
<1>2. \A f \in Files : Root.files[f] = Plain({0}) /\ Plain({0}).marks = "none"
  BY DEF Root, Plain
<1>3. CommittedWorkKept /\ NoMarkersCommitted
  BY <1>2 DEF Init, CommittedWorkKept, NoMarkersCommitted
<1>4. EditsHeld /\ MarksHeld /\ PassedHeld
  BY <1>2 DEF Init, EditsHeld, MarksHeld, PassedHeld
<1> QED
  BY <1>1, <1>3, <1>4 DEF IInv, WorkHeld

LEMMA StepInv ==
    ASSUME IInv, [Next]_vars
    PROVE  IInv'
<1>1. Typed' /\ Control' /\ History'
  BY TypedStep, ControlStep, HistoryStep DEF IInv, Typed
<1>2. WorkHeld'
  BY <1>1, WorkStep DEF IInv
<1> QED
  BY <1>1, <1>2 DEF IInv

\* The inductive invariant: history, control and work together.
THEOREM Invariance == Spec => []IInv
  BY InitInv, StepInv, PTL DEF Spec

\* However often a merge is paused, interrupted, resolved by hand or by the
\* driver and resumed, no commit records conflict markers.
THEOREM MarkersNeverCommitted == Spec => []NoMarkersCommitted
<1>1. IInv => NoMarkersCommitted
  BY DEF IInv, WorkHeld
<1> QED
  BY <1>1, Invariance, PTL

\* No integrate, resume, repair or snapshot of any checkout commits a file
\* without an edit that a commit below it has, unless a user deleted the file.
THEOREM CommittedWorkNeverLost == Spec => []CommittedWorkKept
<1>1. IInv => CommittedWorkKept
  BY DEF IInv, WorkHeld
<1> QED
  BY <1>1, Invariance, PTL

\* What a stop of the driver may write over.
LEMMA DriveReplaces ==
    ASSUME TypeOK, Control, NEW c \in Clones, NEW g \in Files, DriveStop(c, g) \/ DriveDies(c, g),
           NEW f \in Files
    PROVE  tree'[c][f] = tree[c][f] \/ Replaceable(c, f)
<1>1. MidMerge(c) /\ g \in unmerged[c] /\ pc[c] \in {"drive", "resume"}
  BY DEF DriveStop, Stop, DriveDies, Next1, TypeOK, Control
<1>2. f # g => tree'[c][f] = tree[c][f]
  BY DEF DriveStop, Stop, Drive, Keep, DriveDies, TypeOK
<1>3. tree'[c] = tree[c] \/ (Driven(c, g) /\ ~DeleteEdit(Sides(c, g, Theirs(c))))
  <2>1. CASE DriveStop(c, g)
    BY <1>1, <2>1, StopFacts DEF StopKeeps, Keep, StopMerges, StopMarks, StopTakes
  <2>2. CASE DriveDies(c, g)
    BY <2>2 DEF DriveDies
  <2> QED
    BY <2>1, <2>2
<1>4. Driven(c, g) /\ ~DeleteEdit(Sides(c, g, Theirs(c))) => Replaceable(c, g)
  BY <1>1 DEF Driven, Redriven, Replaceable
<1> QED
  BY <1>2, <1>3, <1>4

\* A run leaves alone what is neither committed nor its own conflict to merge.
LEMMA UncommittedStep ==
    ASSUME IInv, [Next]_vars, NEW c \in Clones, RunStep(c), NEW f \in Files,
           Dirty(c, f), ~Replaceable(c, f)
    PROVE  tree[c][f].edits \subseteq tree'[c][f].edits
<1>0. TypeOK /\ Typed /\ Control /\ Gone.edits = {}
  BY RootType DEF IInv, Typed
<1>1. Begin(c) \/ Work(c) \/ Faults(c) \/ User(c)
  <2>1. PICK d \in Clones : Begin(d) \/ Work(d) \/ Faults(d) \/ User(d)
    BY DEF RunStep, Next, vars
  <2>2. d = c
    BY <1>0, <2>1, SparesOthers DEF RunStep, Spares
  <2> QED
    BY <2>1, <2>2
<1>2. CASE OwnCommit(c)
  BY <1>0, <1>2, OwnCommitTree
<1>3. CASE FastForward(c)
  <2> DEFINE changed == {g \in Files : track[c].files[g] # head[c].files[g]}
  <2>1. ~Overwrites(c, changed) /\ tree'[c][f] = IF f \in changed THEN track[c].files[f] ELSE tree[c][f]
    BY <1>0, <1>3 DEF FastForward, TypeOK
  <2> QED
    BY <1>0, <2>1 DEF Overwrites
<1>4. CASE Merge(c)
  <2>1. PICK r \in [Files -> Text] : MergeStarts(c, r)
    BY <1>0, <1>4, MergeFacts
  <2>2. ~Overwrites(c, Touched(c)) /\ tree'[c][f] = IF f \in Touched(c) THEN r[f] ELSE tree[c][f]
    BY <1>0, <2>1 DEF MergeStarts, TypeOK
  <2> QED
    BY <1>0, <2>2 DEF Overwrites
<1>5. CASE \E g \in Files : DriveStop(c, g) \/ DriveDies(c, g)
  BY <1>0, <1>5, DriveReplaces
<1>6. CASE User(c) /\ ~OwnCommit(c)
  BY <1>6 DEF User, Edit, Delete, Resolve, GitAdd, OwnCommit, RunStep
<1>7. CASE \/ Begin(c) \/ Ends(c) \/ Integrity(c) \/ PushRejected(c) \/ Die(c)
           \/ Fetch(c) \/ Push(c) \/ PushFails(c) \/ DeletionCheck(c) \/ MergeCommit(c)
  <2>1. UNCHANGED tree
    BY <1>7 DEF Begin, SyncBegin, RefreshBegin, PushBegin, Ends, Paused,
       FetchFails, FastForwardRefused, MergeRefused, MergeCommitFails, NothingToPush, Integrity,
       PushRejected, Die, Fetch, Push, PushFails, DeletionCheck, MergeCommit, checkouts
  <2> QED
    BY SMTT(40), <2>1
<1> QED
  BY <1>1, <1>2, <1>3, <1>4, <1>5, <1>6, <1>7 DEF Work, Faults, Ends, OwnCommit

\* A run of tk sync never takes an uncommitted edit out of the work tree: git is
\* refused, and the driver writes only conflicts it merges from the stage blobs.
THEOREM UncommittedWorkSafe == Spec => UncommittedWorkKept
<1>1. IInv /\ [Next]_vars =>
        [\A c \in Clones : RunStep(c) => \A f \in Files :
            Dirty(c, f) /\ ~Replaceable(c, f) => tree[c][f].edits \subseteq tree'[c][f].edits]_vars
  BY UncommittedStep
<1> QED
  BY <1>1, Invariance, PTL DEF Spec, UncommittedWorkKept

\* What an integrate does to a file that was deleted when it was checked.
LEMMA DeletionStep ==
    ASSUME IInv, [Next]_vars, NEW c \in Clones, RunStep(c), pc[c] \in {"ff", "merge"},
           NEW f \in run[c].passed, tree[c][f] = Gone
    PROVE  tree'[c][f] = Gone
<1>0. TypeOK /\ Typed /\ Control /\ History /\ f \in Files
  BY DEF IInv, Typed, TypeOK, Run
<1>1. Begin(c) \/ Work(c) \/ Faults(c) \/ User(c)
  <2>1. PICK d \in Clones : Begin(d) \/ Work(d) \/ Faults(d) \/ User(d)
    BY DEF RunStep, Next, vars
  <2>2. d = c
    BY <1>0, <2>1, SparesOthers DEF RunStep, Spares
  <2> QED
    BY <2>1, <2>2
<1>2. track[c].files[f] \in {Gone, MergeBase(head[c], track[c]).files[f], head[c].files[f]}
  BY DEF IInv, WorkHeld, PassedHeld
<1>3. CASE FastForward(c)
  <2>1. IsAncestor(head[c], track[c]) /\ head[c] \in log /\ track[c] \in log
    BY <1>0, <1>3, Refs DEF FastForward, History, Diverged
  <2>2. PICK m \in log : Meets(head[c], track[c], m) /\ MergeBases(head[c], track[c]) = {m}
                         /\ MergeBase(head[c], track[c]) = m
    BY <1>0, BaseFacts
  <2>3. IsAncestor(m, head[c]) /\ IsAncestor(head[c], m)
    BY <1>0, <2>1, <2>2, Order DEF Meets
  <2>4. m = head[c]
    <3>1. m.at \in [Clones -> Nat] /\ head[c].at \in [Clones -> Nat]
      BY <1>0, <2>1, CommitType
    <3>2. \A d \in Clones : m.at[d] = head[c].at[d]
      BY <2>3, <3>1 DEF IsAncestor
    <3>3. m.at = head[c].at
      BY <3>1, <3>2
    <3> QED
      BY <1>0, <2>1, <3>3 DEF History, StampsDiffer
  <2>5. tree'[c][f] = IF track[c].files[f] # head[c].files[f] THEN track[c].files[f] ELSE tree[c][f]
    BY <1>0, <1>3 DEF FastForward, TypeOK
  <2> QED
    BY <1>2, <2>2, <2>4, <2>5
<1>4. CASE Merge(c)
  <2>1. PICK r \in [Files -> Text] :
          /\ MergeStarts(c, r)
          /\ \A g \in Touched(c) : r[g] \in GitResults(c, g, Sides(c, g, track[c]))
    BY <1>0, <1>4, MergeFacts
  <2>2. tree'[c][f] = IF f \in Touched(c) THEN r[f] ELSE tree[c][f]
    BY <1>0, <2>1 DEF MergeStarts, TypeOK
  <2>3. CASE f \in Touched(c)
    <3> DEFINE s == Sides(c, f, track[c])
    <3>1. s.t # s.b /\ s.t # s.o
      BY <2>3 DEF Touched
    <3>2. s.t = track[c].files[f] /\ s.o = head[c].files[f]
          /\ s.b = MergeBase(head[c], track[c]).files[f]
      BY DEF Sides
    <3>3. r[f] \in GitResults(c, f, s)
      BY <2>1, <2>3
    <3> HIDE DEF s
    <3>4. s.t = Gone
      BY <1>2, <3>1, <3>2
    <3>5. r[f] = Gone
      BY <3>1, <3>3, <3>4 DEF GitResults, Contested, DeleteEdit
    <3> QED
      BY <2>2, <2>3, <3>5
  <2> QED
    BY <2>2, <2>3
<1>5. CASE User(c)
  BY <1>5 DEF User, Edit, Delete, Resolve, GitAdd, WriteVerb, RunStep, Rest
<1>6. CASE (Begin(c) \/ Work(c) \/ Faults(c)) /\ ~FastForward(c) /\ ~Merge(c)
  <2>1. UNCHANGED tree
    BY <1>6 DEF Begin, SyncBegin, RefreshBegin, PushBegin, Work, Faults, Paused,
       FetchFails, FastForwardRefused, MergeRefused, MergeCommitFails, NothingToPush, Integrity,
       PushRejected, Die, Fetch, Push, Pushing, PushFails, DeletionCheck, MergeCommit, checkouts, Snapshot,
       IntegrityRepairs, DriveStop, DriveDies, Rest
  <2> QED
    BY <2>1
<1> QED
  BY <1>1, <1>3, <1>4, <1>5, <1>6

\* A deletion in the work tree that the check before the integrate has seen is
\* not undone by the fast-forward or the merge that follows it.
THEOREM DeletionsSafe == Spec => DeletionsStand
<1>1. IInv /\ [Next]_vars =>
        [\A c \in Clones : RunStep(c) /\ pc[c] \in {"ff", "merge"} =>
            \A f \in run[c].passed : tree[c][f] = Gone => tree'[c][f] = Gone]_vars
  BY DeletionStep
<1> QED
  BY <1>1, Invariance, PTL DEF Spec, DeletionsStand
=============================================================================
