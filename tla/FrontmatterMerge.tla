-------------------------- MODULE FrontmatterMerge --------------------------
(***************************************************************************)
(* The three-way merge of a ticket's frontmatter, and the life of one      *)
(* ticket on two checkouts that edit it and merge each other's work.        *)
(*                                                                         *)
(* MergeFrontmatter is pure: base, ours and theirs are stage blobs, with    *)
(* the author date and the hash of the two sides.  The machine below makes  *)
(* the stages the merge is given: what write verbs and hand edits make of   *)
(* a ticket since the common base, and what is the base after a merge.      *)
(***************************************************************************)
EXTENDS Integers, FiniteSets

CONSTANTS
    Known,      \* the statuses of the schema
    Odd,        \* a status the schema does not know
    Terminal,   \* the terminal statuses
    Ids,        \* values of the immutable id, 0 if the key is missing
    Instants,   \* values of the immutable created, 0 if the key is missing
    Values,     \* values of a scalar (order, summary, a custom scalar, absent)
    Tags,       \* elements of a list (tags, depends, related, links, ...)
    Dates,      \* author dates
    Hashes,     \* SHA-256 values of stage bytes
    Absent,     \* the stage does not exist
    Unreadable, \* the stage has no frontmatter that parses
    Starts,     \* the versions the checkouts may begin with
    MaxEdits    \* bound on the edits made in all

Statuses == Known \cup {Odd}

Models == [id : Ids, created : Instants, status : Statuses,
           conflict : SUBSET Statuses, changed : 0..MaxEdits,
           summary : Values, tags : SUBSET Tags]

ASSUME StatusAssumption == Odd \notin Known /\ Terminal \subseteq Known
ASSUME NumberAssumption ==
    Ids \subseteq Nat /\ Instants \subseteq Nat /\ Dates \subseteq Nat /\ Hashes \subseteq Nat
ASSUME EditAssumption == MaxEdits \in Nat
ASSUME StageAssumption ==
    Absent \notin Models /\ Unreadable \notin Models /\ Absent # Unreadable

ASSUME StartAssumption ==
    \A m \in Starts : m = Absent \/ (m \in Models /\ m.conflict = {})

\* A status_conflict is absent, or the two statuses of one dispute.
PairOrNone(C) == C = {} \/ \E t, u \in Known : t # u /\ C = {t, u}

Contents == {m \in Models : PairOrNone(m.conflict)} \cup {Absent, Unreadable}

Stages == [m : Contents, date : Dates \cup {0}, hash : Hashes \cup {0}]

-----------------------------------------------------------------------------
(* The merge of one field. *)

\* Mutant: equal author dates favour this checkout.
PickOursByDate(o, t) == o.date >= t.date

\* pickOurs: the later author date, then the greater hash of the stage bytes.
PickOurs(o, t) == o.date > t.date \/ (o.date = t.date /\ o.hash >= t.hash)

MergeScalar(b, o, t, ours) ==
    IF o = t THEN o
    ELSE IF o = b THEN t
    ELSE IF t = b THEN o
    ELSE IF ours THEN o ELSE t

\* Mutant: what any of the three has.
MergeListUnion(b, o, t) == b \cup o \cup t

\* mergeList: kept if both still have it, added if either has added it.
MergeList(b, o, t) == (b \cap o \cap t) \cup (o \ b) \cup (t \ b)

\* mergeImmutable: base decides.  Two different rewrites fail closed, and so do
\* two different values where base has none.
ImmutableFails(b, o, t) == o # t /\ (b = 0 \/ (o # b /\ t # b))

MergeImmutable(b, o, t) == IF b # 0 THEN b ELSE o

\* mergeInherited: a status_conflict that is in the stages is one value.
InheritedFails(b, o, t) == o # b /\ t # b /\ o # t

MergeInherited(b, o, t) == IF o = b THEN t ELSE o

\* Both sides changed the status, to different values.
StatusContested(b, o, t) ==
    o.status # b.status /\ t.status # b.status /\ o.status # t.status

\* Mutant: a dispute needs two terminal statuses.
DisputeBothTerminal(b, o, t) ==
    StatusContested(b, o, t) /\ {o.status, t.status} \subseteq Terminal

\* A contested pair with a terminal status is left to a human.
Dispute(b, o, t) ==
    StatusContested(b, o, t) /\ {o.status, t.status} \cap Terminal # {}

\* mergeStatus fails closed on a contested status the schema does not know.
StatusFails(b, o, t) ==
    \/ StatusContested(b, o, t) /\ Odd \in {o.status, t.status}
    \/ ~Dispute(b, o, t) /\ InheritedFails(b.conflict, o.conflict, t.conflict)

\* Mutant: changed is a scalar like any other.
MergeChangedScalar(b, o, t, ours) ==
    MergeScalar(b.changed, o.changed, t.changed, ours)

\* mergeChanged follows the status result.
MergeChanged(b, o, t, ours) ==
    IF Dispute(b, o, t) \/ (o.status = b.status /\ t.status = b.status)
    THEN b.changed
    ELSE IF t.status = b.status THEN o.changed
    ELSE IF o.status = b.status THEN t.changed
    ELSE IF ours THEN o.changed ELSE t.changed

-----------------------------------------------------------------------------
(* MergeFrontmatter. *)

Fails(b, o, t) ==
    \/ ImmutableFails(b.id, o.id, t.id)
    \/ ImmutableFails(b.created, o.created, t.created)
    \/ StatusFails(b, o, t)

\* threeWay, where nothing fails.
ThreeWay(b, o, t, ours) ==
    [id |-> MergeImmutable(b.id, o.id, t.id),
     created |-> MergeImmutable(b.created, o.created, t.created),
     status |-> IF Dispute(b, o, t) THEN b.status
                ELSE MergeScalar(b.status, o.status, t.status, ours),
     conflict |-> IF Dispute(b, o, t) THEN {o.status, t.status}
                  ELSE MergeInherited(b.conflict, o.conflict, t.conflict),
     changed |-> MergeChanged(b, o, t, ours),
     summary |-> MergeScalar(b.summary, o.summary, t.summary, ours),
     tags |-> MergeList(b.tags, o.tags, t.tags)]

\* collision.KeepBefore with one basename: the older created, a missing one
\* before any, then the smaller hash.
KeepBefore(o, t) ==
    \/ o.m.created < t.m.created
    \/ o.m.created = t.m.created /\ o.hash < t.hash

Outcome(b, o, t) ==
    IF Unreadable \in {b, o.m, t.m} THEN "failed"
    ELSE IF b = Absent
    THEN IF Absent \in {o.m, t.m} \/ o.m.id # t.m.id \/ o.m.id = 0 THEN "failed" ELSE "rename"
    ELSE IF Absent \in {o.m, t.m}
    THEN IF o.m = t.m THEN "failed" ELSE "deleteEdit"
    ELSE IF Fails(b, o.m, t.m) THEN "failed"
    ELSE IF Dispute(b, o.m, t.m) THEN "dispute" ELSE "merged"

\* The file the merge writes; for a same-id add/add the file that keeps the id.
MergeFrontmatter(b, o, t) ==
    LET out == Outcome(b, o, t)
    IN [outcome |-> out,
        m |-> IF out \in {"merged", "dispute"}
              THEN ThreeWay(b, o.m, t.m, PickOurs(o, t))
              ELSE IF out = "rename" THEN IF KeepBefore(o, t) THEN o.m ELSE t.m
              ELSE Absent]

-----------------------------------------------------------------------------
VARIABLES
    base,   \* the file in the merge base
    side,   \* the stage of each of the two checkouts
    made    \* the number of edits made so far

vars == <<base, side, made>>

Checkouts == {1, 2}

Other(s) == 3 - s

New(i, c, t, v, time) ==
    [id |-> i, created |-> c, status |-> t, conflict |-> {}, changed |-> time,
     summary |-> v, tags |-> {}]

\* A version both checkouts have: its date and hash are not looked at before one
\* of them has changed it.
Shared(m) == [m |-> m, date |-> 0, hash |-> 0]

Init ==
    /\ base \in Starts
    /\ side = [s \in Checkouts |-> Shared(base)]
    /\ made = 0

\* Checkout s commits m, with any author date: clocks are not synchronised.
\* Equal hashes mean equal bytes, and equal bytes one model.
Commit(s, m) ==
    /\ made < MaxEdits /\ made' = made + 1
    /\ \E d \in Dates, h \in Hashes :
          /\ h = side[Other(s)].hash => m = side[Other(s)].m
          /\ side' = [side EXCEPT ![s] = [m |-> m, date |-> d, hash |-> h]]
    /\ UNCHANGED base

Readable(s) == side[s].m \notin {Absent, Unreadable}

\* tk mark and tk claim set status and changed together; a mark that leaves the
\* status leaves changed too.
Mark(s) ==
    /\ Readable(s)
    /\ \E t \in Known \ {side[s].m.status} :
          Commit(s, [side[s].m EXCEPT !.status = t, !.changed = made + 1])

\* tk meta and tk order change a scalar or a list.
Meta(s) ==
    /\ Readable(s)
    /\ \/ \E v \in Values : Commit(s, [side[s].m EXCEPT !.summary = v])
       \/ \E T \in SUBSET Tags : Commit(s, [side[s].m EXCEPT !.tags = T])

\* A hand edit may change what no verb does: the immutables, the status alone,
\* a status the schema does not know.
HandEdit(s) ==
    /\ Readable(s)
    /\ \/ \E i \in Ids : Commit(s, [side[s].m EXCEPT !.id = i])
       \/ \E c \in Instants : Commit(s, [side[s].m EXCEPT !.created = c])
       \/ \E t \in Statuses : Commit(s, [side[s].m EXCEPT !.status = t])

\* A human settles a dispute; or commits, with git, one that a merge with a
\* third checkout has left.
HandConflict(s) ==
    /\ Readable(s)
    /\ \E t \in Known :
          \/ Commit(s, [side[s].m EXCEPT !.status = t, !.conflict = {}])
          \/ \E u \in Known \ {t} : Commit(s, [side[s].m EXCEPT !.conflict = {t, u}])

Break(s) == Readable(s) /\ Commit(s, Unreadable)

Delete(s) == side[s].m # Absent /\ Commit(s, Absent)

Create(s) ==
    /\ side[s].m = Absent
    /\ \E i \in Ids, c \in Instants, t \in Known, v \in Values :
          Commit(s, New(i, c, t, v, made + 1))

\* The merged file is the base of what follows.
Agree(m) ==
    /\ base' = m
    /\ side' = [s \in Checkouts |-> Shared(m)]
    /\ UNCHANGED made

Contested == side[1].m # side[2].m /\ \A s \in Checkouts : side[s].m # base

\* Checkout s has changed nothing: it fast-forwards.
FastForward(s) == side[s].m = base /\ Agree(side[Other(s)].m)

\* Checkout s merges the other's commit; a human settles a dispute, or not.
Merge(s) ==
    LET r == MergeFrontmatter(base, side[s], side[Other(s)])
    IN /\ Contested /\ r.outcome \in {"merged", "dispute", "rename"}
       /\ \/ Agree(r.m)
          \/ /\ r.outcome = "dispute"
             /\ \E t \in Known : Agree([r.m EXCEPT !.status = t, !.conflict = {}])

\* Handed to a human, who keeps one of the sides.
HandOff(s) ==
    /\ Contested
    /\ MergeFrontmatter(base, side[s], side[Other(s)]).outcome \in {"failed", "deleteEdit"}
    /\ \E k \in Checkouts : Agree(side[k].m)

Next ==
    \E s \in Checkouts :
        \/ Mark(s) \/ Meta(s) \/ HandEdit(s) \/ HandConflict(s) \/ Break(s)
        \/ Delete(s) \/ Create(s)
        \/ FastForward(s) \/ Merge(s) \/ HandOff(s)

Spec == Init /\ [][Next]_vars

-----------------------------------------------------------------------------
(* Properties. *)

\* Every variable has its type: so no merge, of whatever versions, writes a
\* status_conflict that is not the pair of one dispute, which no verb and no
\* human could settle.  Equal bytes are one model.
TypeOK ==
    /\ base \in Contents
    /\ side \in [Checkouts -> Stages]
    /\ made \in 0..MaxEdits
    /\ side[1].hash = side[2].hash => side[1].m = side[2].m

Merged(s) == MergeFrontmatter(base, side[s], side[Other(s)])

Writes(s) == Contested /\ Merged(s).outcome \in {"merged", "dispute"}

\* Whichever checkout merges, and so whichever side it calls ours, pickOurs,
\* KeepBefore and the field rules give the same file.
MergeIsSymmetric == Contested => Merged(1) = Merged(2)

\* status and changed of the merged file come from one and the same version:
\* a merge never dates a status by another one's time.
StatusAndChangedAgree ==
    \A s \in Checkouts : Writes(s) =>
        \E m \in {base, side[1].m, side[2].m} :
            Merged(s).m.status = m.status /\ Merged(s).m.changed = m.changed

\* mergeStatus: a status one checkout has closed or reopened the ticket with is
\* in the merged file, or named by its dispute; a dispute nobody settled stays.
ClosuresStand ==
    \A s, k \in Checkouts : Writes(s) =>
        LET m == Merged(s).m
            u == side[k].m
        IN /\ u.status # base.status /\ u.status \in Terminal
                 => u.status \in {m.status} \cup m.conflict
           /\ base.conflict # {} /\ side[1].m.conflict = base.conflict
                                /\ side[2].m.conflict = base.conflict
                 => m.conflict # {}

\* mergeList and mergeScalar: what one checkout alone has changed since the base
\* is so in the merged file; no tag removed comes back, none added is dropped.
EditsStand ==
    \A s, k \in Checkouts : Writes(s) =>
        LET m == Merged(s).m
            u == side[k].m
            v == side[Other(k)].m
        IN /\ (u.tags \ base.tags) \subseteq m.tags
           /\ (base.tags \ u.tags) \cap m.tags = {}
           /\ u.summary # base.summary /\ v.summary = base.summary
                 => m.summary = u.summary
           /\ u.status # base.status /\ v.status = base.status
                 => m.status = u.status
=============================================================================
