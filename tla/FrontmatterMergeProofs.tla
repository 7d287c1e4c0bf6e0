----------------------- MODULE FrontmatterMergeProofs -----------------------
(* What the frontmatter merge guarantees for any statuses, dates and number  *)
(* of edits: the type invariant is inductive, and each guarantee follows     *)
(* from it by the rules for the fields.                                     *)
EXTENDS FrontmatterMerge, TLAPS

\* The versions a field merge is about.
Versions == {m \in Models : PairOrNone(m.conflict)}

(***************************************************************************)
(* threeWay of three readable versions that do not fail is a well-formed    *)
(* version, whichever side wins the last-writer rule.                      *)
(***************************************************************************)
LEMMA ThreeWayType ==
    ASSUME NEW b \in Versions, NEW o \in Versions, NEW t \in Versions,
           NEW w \in BOOLEAN, ~Fails(b, o, t)
    PROVE  ThreeWay(b, o, t, w) \in Versions
<1> DEFINE r == ThreeWay(b, o, t, w)
<1>1. /\ r.id \in Ids /\ r.created \in Instants
      /\ r.summary \in Values /\ r.tags \in SUBSET Tags
  BY DEF Versions, Models, ThreeWay, MergeImmutable, MergeScalar, MergeList
<1>2. r.status \in Statuses
  BY DEF Versions, Models, ThreeWay, MergeScalar
<1>3. r.changed \in 0..MaxEdits
  BY DEF Versions, Models, ThreeWay, MergeChanged
<1>4. PairOrNone(r.conflict)
  <2>1. CASE Dispute(b, o, t)
    <3>1. o.status \in Known /\ t.status \in Known /\ o.status # t.status
      BY <2>1 DEF Fails, StatusFails, Dispute, StatusContested, Versions, Models, Statuses
    <3>2. r.conflict = {o.status, t.status}
      BY <2>1 DEF ThreeWay
    <3> QED BY <3>1, <3>2 DEF PairOrNone
  <2>2. CASE ~Dispute(b, o, t)
    <3>1. r.conflict \in {o.conflict, t.conflict}
      BY <2>2 DEF ThreeWay, MergeInherited
    <3> QED BY <3>1 DEF Versions
  <2> QED BY <2>1, <2>2
<1>5. r.conflict \in SUBSET Statuses
  BY <1>4 DEF PairOrNone, Statuses
<1>6. r = [id |-> r.id, created |-> r.created, status |-> r.status,
           conflict |-> r.conflict, changed |-> r.changed,
           summary |-> r.summary, tags |-> r.tags]
  BY DEF ThreeWay
<1> QED BY <1>1, <1>2, <1>3, <1>4, <1>5, <1>6 DEF Versions, Models

(***************************************************************************)
(* An outcome that field-merges has three readable versions that do not     *)
(* fail, and two contested checkouts never have equal bytes.                *)
(***************************************************************************)
LEMMA FieldMerged ==
    ASSUME TypeOK, NEW s \in Checkouts,
           MergeFrontmatter(base, side[s], side[Other(s)]).outcome
              \in {"merged", "dispute"}
    PROVE  /\ Other(s) \in Checkouts
           /\ base \in Versions /\ side[s].m \in Versions
           /\ side[Other(s)].m \in Versions
           /\ ~Fails(base, side[s].m, side[Other(s)].m)
           /\ MergeFrontmatter(base, side[s], side[Other(s)]).m =
                ThreeWay(base, side[s].m, side[Other(s)].m,
                         PickOurs(side[s], side[Other(s)]))
<1>1. Other(s) \in Checkouts
  BY DEF Checkouts, Other
<1> DEFINE o == side[s]
           t == side[Other(s)]
<1>2. Outcome(base, o, t) \in {"merged", "dispute"}
  BY DEF MergeFrontmatter
<1>3. /\ Unreadable \notin {base, o.m, t.m} /\ Absent \notin {base, o.m, t.m}
      /\ ~Fails(base, o.m, t.m)
  BY <1>2 DEF Outcome
<1>4. base \in Contents /\ o.m \in Contents /\ t.m \in Contents
  BY <1>1 DEF TypeOK, Stages
<1> QED BY <1>1, <1>2, <1>3, <1>4 DEF Contents, Versions, MergeFrontmatter

-----------------------------------------------------------------------------
(* Type correctness. *)

LEMMA CommitType ==
    ASSUME TypeOK, NEW s \in Checkouts, NEW m \in Contents, Commit(s, m)
    PROVE  TypeOK'
<1>1. PICK d \in Dates, h \in Hashes :
         /\ h = side[Other(s)].hash => m = side[Other(s)].m
         /\ side' = [side EXCEPT ![s] = [m |-> m, date |-> d, hash |-> h]]
  BY DEF Commit
<1>2. [m |-> m, date |-> d, hash |-> h] \in Stages
  BY DEF Stages
<1>3. side' \in [Checkouts -> Stages]
  BY <1>1, <1>2 DEF TypeOK
<1>4. side'[1].hash = side'[2].hash => side'[1].m = side'[2].m
  <2>1. CASE s = 1
    BY <1>1, <2>1 DEF TypeOK, Checkouts, Other
  <2>2. CASE s = 2
    BY <1>1, <2>2 DEF TypeOK, Checkouts, Other
  <2> QED BY <2>1, <2>2 DEF Checkouts
<1>5. made' \in 0..MaxEdits
  BY EditAssumption DEF Commit, TypeOK
<1> QED BY <1>3, <1>4, <1>5 DEF Commit, TypeOK

LEMMA AgreeType ==
    ASSUME TypeOK, NEW m \in Contents, Agree(m)
    PROVE  TypeOK'
<1>1. Shared(m) \in Stages
  BY DEF Shared, Stages
<1> QED BY <1>1 DEF Agree, TypeOK, Checkouts

LEMMA NewType ==
    ASSUME NEW i \in Ids, NEW c \in Instants, NEW t \in Known, NEW v \in Values,
           NEW n \in 0..MaxEdits
    PROVE  New(i, c, t, v, n) \in Contents
BY DEF New, Contents, Models, Statuses, PairOrNone

LEMMA ReadableType ==
    ASSUME TypeOK, NEW s \in Checkouts, Readable(s)
    PROVE  side[s].m \in Versions
BY DEF TypeOK, Stages, Contents, Readable, Versions

LEMMA ContentsType ==
    ASSUME TypeOK, NEW s \in Checkouts
    PROVE  side[s].m \in Contents
BY DEF TypeOK, Stages

(***************************************************************************)
(* Every version of the ticket, written by a verb, by hand or by a merge,   *)
(* is well formed; in particular a status_conflict is always one pair.      *)
(***************************************************************************)
THEOREM MergeTypeCorrect == Spec => []TypeOK
<1>1. Init => TypeOK
  <2> SUFFICES ASSUME Init PROVE TypeOK
    OBVIOUS
  <2>1. base \in Contents
    BY StartAssumption DEF Init, Contents, PairOrNone
  <2>2. Shared(base) \in Stages
    BY <2>1 DEF Shared, Stages
  <2> QED BY <2>1, <2>2, EditAssumption DEF Init, TypeOK, Checkouts
<1>2. TypeOK /\ [Next]_vars => TypeOK'
  <2> SUFFICES ASSUME TypeOK, [Next]_vars PROVE TypeOK'
    OBVIOUS
  <2>1. CASE UNCHANGED vars
    BY <2>1 DEF vars, TypeOK
  <2>2. ASSUME NEW s \in Checkouts,
               Mark(s) \/ Meta(s) \/ HandEdit(s) \/ HandConflict(s)
        PROVE  TypeOK'
    <3>1. Readable(s)
      BY <2>2 DEF Mark, Meta, HandEdit, HandConflict
    <3>2. side[s].m \in Versions
      BY <3>1, ReadableType
    <3>3. CASE Mark(s)
      <4>1. PICK t \in Known : Commit(s, [side[s].m EXCEPT !.status = t,
                                                          !.changed = made + 1])
        BY <3>3 DEF Mark
      <4>2. made + 1 \in 0..MaxEdits
        BY <4>1, EditAssumption DEF Commit, TypeOK
      <4>3. [side[s].m EXCEPT !.status = t, !.changed = made + 1] \in Contents
        BY <3>2, <4>2 DEF Versions, Contents, Models, Statuses
      <4> QED BY <4>1, <4>3, CommitType
    <3>4. CASE Meta(s)
      <4>1. /\ \A v \in Values : [side[s].m EXCEPT !.summary = v] \in Contents
            /\ \A T \in SUBSET Tags : [side[s].m EXCEPT !.tags = T] \in Contents
        BY <3>2 DEF Versions, Contents, Models
      <4> QED BY <3>4, <4>1, CommitType DEF Meta
    <3>5. CASE HandEdit(s)
      <4>1. /\ \A i \in Ids : [side[s].m EXCEPT !.id = i] \in Contents
            /\ \A c \in Instants : [side[s].m EXCEPT !.created = c] \in Contents
            /\ \A t \in Statuses : [side[s].m EXCEPT !.status = t] \in Contents
        BY <3>2 DEF Versions, Contents, Models
      <4> QED BY <3>5, <4>1, CommitType DEF HandEdit
    <3>6. CASE HandConflict(s)
      <4>1. PICK t \in Known :
               \/ Commit(s, [side[s].m EXCEPT !.status = t, !.conflict = {}])
               \/ \E u \in Known \ {t} :
                     Commit(s, [side[s].m EXCEPT !.conflict = {t, u}])
        BY <3>6 DEF HandConflict
      <4>2. [side[s].m EXCEPT !.status = t, !.conflict = {}] \in Contents
        BY <3>2 DEF Versions, Contents, Models, Statuses, PairOrNone
      <4>3. ASSUME NEW u \in Known \ {t}
            PROVE  [side[s].m EXCEPT !.conflict = {t, u}] \in Contents
        <5>1. PairOrNone({t, u}) /\ {t, u} \in SUBSET Statuses
          BY DEF PairOrNone, Statuses
        <5> QED BY <3>2, <5>1 DEF Versions, Contents, Models
      <4> QED BY <4>1, <4>2, <4>3, CommitType
    <3> QED BY SMTT(40), <2>2, <3>3, <3>4, <3>5, <3>6
  <2>3. ASSUME NEW s \in Checkouts, Break(s) \/ Delete(s) PROVE TypeOK'
    <3>1. Absent \in Contents /\ Unreadable \in Contents
      BY DEF Contents
    <3> QED BY <2>3, <3>1, CommitType DEF Break, Delete
  <2>4. ASSUME NEW s \in Checkouts, Create(s) PROVE TypeOK'
    <3>1. PICK i \in Ids, c \in Instants, t \in Known, v \in Values :
             Commit(s, New(i, c, t, v, made + 1))
      BY <2>4 DEF Create
    <3>2. made + 1 \in 0..MaxEdits
      BY <3>1, EditAssumption DEF Commit, TypeOK
    <3> QED BY <3>1, <3>2, NewType, CommitType
  <2>5. ASSUME NEW s \in Checkouts, FastForward(s) PROVE TypeOK'
    <3>1. Other(s) \in Checkouts
      BY DEF Checkouts, Other
    <3> QED BY <2>5, <3>1, ContentsType, AgreeType DEF FastForward
  <2>6. ASSUME NEW s \in Checkouts, Merge(s) PROVE TypeOK'
    <3> DEFINE r == MergeFrontmatter(base, side[s], side[Other(s)])
    <3>1. Other(s) \in Checkouts
      BY DEF Checkouts, Other
    <3>2. CASE r.outcome = "rename"
      <4>1. r.m \in {side[s].m, side[Other(s)].m}
        BY <3>2 DEF MergeFrontmatter
      <4>2. Agree(r.m)
        BY <2>6, <3>2 DEF Merge
      <4> QED BY <3>1, <4>1, <4>2, ContentsType, AgreeType
    <3>3. CASE r.outcome \in {"merged", "dispute"}
      <4>1. r.m \in Versions
        <5>1. PickOurs(side[s], side[Other(s)]) \in BOOLEAN
          BY DEF PickOurs
        <5> QED BY <3>3, <5>1, FieldMerged, ThreeWayType
      <4>2. r.m \in Contents
        BY <4>1 DEF Versions, Contents
      <4>3. ASSUME NEW t \in Known
            PROVE  [r.m EXCEPT !.status = t, !.conflict = {}] \in Contents
        BY <4>1 DEF Versions, Contents, Models, Statuses, PairOrNone
      <4> QED BY <2>6, <4>2, <4>3, AgreeType DEF Merge
    <3> QED BY <2>6, <3>2, <3>3 DEF Merge
  <2>7. ASSUME NEW s \in Checkouts, HandOff(s) PROVE TypeOK'
    BY <2>7, ContentsType, AgreeType DEF HandOff
  <2> QED BY <2>1, <2>2, <2>3, <2>4, <2>5, <2>6, <2>7 DEF Next
<1> QED BY <1>1, <1>2, PTL DEF Spec

-----------------------------------------------------------------------------
(* Symmetry. *)

(***************************************************************************)
(* The field rules do not tell ours from theirs, once the last-writer rule  *)
(* picks the same version from either side.                                *)
(***************************************************************************)
LEMMA ThreeWaySymmetric ==
    ASSUME NEW b \in Versions, NEW o \in Versions, NEW t \in Versions,
           NEW w \in BOOLEAN, ~Fails(b, o, t)
    PROVE  ThreeWay(b, o, t, w) = ThreeWay(b, t, o, ~w)
<1>1. /\ MergeImmutable(b.id, o.id, t.id) = MergeImmutable(b.id, t.id, o.id)
      /\ MergeImmutable(b.created, o.created, t.created)
            = MergeImmutable(b.created, t.created, o.created)
  BY DEF Fails, ImmutableFails, MergeImmutable
<1>2. Dispute(b, o, t) <=> Dispute(b, t, o)
  BY DEF Dispute, StatusContested
<1>3. MergeScalar(b.status, o.status, t.status, w)
        = MergeScalar(b.status, t.status, o.status, ~w)
  BY DEF MergeScalar
<1>4. MergeScalar(b.summary, o.summary, t.summary, w)
        = MergeScalar(b.summary, t.summary, o.summary, ~w)
  BY DEF MergeScalar
<1>5. MergeList(b.tags, o.tags, t.tags) = MergeList(b.tags, t.tags, o.tags)
  BY DEF MergeList
<1>6. MergeChanged(b, o, t, w) = MergeChanged(b, t, o, ~w)
  BY <1>2 DEF MergeChanged
<1>7. ~Dispute(b, o, t) => MergeInherited(b.conflict, o.conflict, t.conflict)
                             = MergeInherited(b.conflict, t.conflict, o.conflict)
  BY DEF Fails, StatusFails, InheritedFails, MergeInherited
<1>8. {o.status, t.status} = {t.status, o.status}
  OBVIOUS
<1> QED BY <1>1, <1>2, <1>3, <1>4, <1>5, <1>6, <1>7, <1>8 DEF ThreeWay

LEMMA OutcomeSymmetric ==
    ASSUME NEW b, NEW o, NEW t
    PROVE  Outcome(b, o, t) = Outcome(b, t, o)
<1>1. Fails(b, o.m, t.m) <=> Fails(b, t.m, o.m)
  BY DEF Fails, ImmutableFails, StatusFails, StatusContested, Dispute, InheritedFails
<1>2. Dispute(b, o.m, t.m) <=> Dispute(b, t.m, o.m)
  BY DEF Dispute, StatusContested
<1> QED BY <1>1, <1>2 DEF Outcome

(***************************************************************************)
(* The dates and hashes of contested versions always pick one of them, and  *)
(* the same from either side.                                              *)
(***************************************************************************)
LEMMA PicksAgree ==
    ASSUME TypeOK, Contested
    PROVE  /\ PickOurs(side[1], side[2]) <=> ~PickOurs(side[2], side[1])
           /\ side[1].m \in Versions /\ side[2].m \in Versions
                => (KeepBefore(side[1], side[2]) <=> ~KeepBefore(side[2], side[1]))
<1>1. side[1].hash # side[2].hash
  BY DEF TypeOK, Contested
<1>2. side[1] \in Stages /\ side[2] \in Stages
  BY DEF TypeOK, Checkouts
<1>3. /\ side[1].hash \in Nat /\ side[2].hash \in Nat
      /\ side[1].date \in Nat /\ side[2].date \in Nat
  <2>1. /\ side[1].hash \in Hashes \cup {0} /\ side[2].hash \in Hashes \cup {0}
        /\ side[1].date \in Dates \cup {0} /\ side[2].date \in Dates \cup {0}
    BY <1>2 DEF Stages
  <2>2. 0 \in Nat
    OBVIOUS
  <2>3. Hashes \cup {0} \subseteq Nat /\ Dates \cup {0} \subseteq Nat
    BY <2>2, NumberAssumption, Zenon
  <2> QED BY <2>1, <2>3, Zenon
<1>4. PickOurs(side[1], side[2]) <=> ~PickOurs(side[2], side[1])
  BY <1>1, <1>3 DEF PickOurs
<1>5. ASSUME side[1].m \in Versions, side[2].m \in Versions
      PROVE  KeepBefore(side[1], side[2]) <=> ~KeepBefore(side[2], side[1])
  <2>1. side[1].m.created \in Nat /\ side[2].m.created \in Nat
    BY <1>5, NumberAssumption DEF Versions, Models
  <2> QED BY <2>1, <1>1, <1>3 DEF KeepBefore
<1> QED BY <1>4, <1>5

LEMMA Symmetric ==
    ASSUME TypeOK PROVE MergeIsSymmetric
<1> SUFFICES ASSUME Contested PROVE Merged(1) = Merged(2)
  BY DEF MergeIsSymmetric
<1> DEFINE o == side[1]
           t == side[2]
<1>1. Merged(1) = MergeFrontmatter(base, o, t) /\ Merged(2) = MergeFrontmatter(base, t, o)
  BY DEF Merged, Other
<1>2. Outcome(base, o, t) = Outcome(base, t, o)
  BY OutcomeSymmetric
<1>3. CASE Outcome(base, o, t) \in {"merged", "dispute"}
  <2>1. MergeFrontmatter(base, side[1], side[Other(1)]).outcome \in {"merged", "dispute"}
    BY <1>3 DEF MergeFrontmatter, Other
  <2>2. base \in Versions /\ o.m \in Versions /\ t.m \in Versions /\ ~Fails(base, o.m, t.m)
    BY <2>1, FieldMerged DEF Checkouts, Other
  <2>3. PickOurs(t, o) = ~PickOurs(o, t) /\ PickOurs(o, t) \in BOOLEAN
    BY PicksAgree DEF PickOurs
  <2>4. ThreeWay(base, o.m, t.m, PickOurs(o, t)) = ThreeWay(base, t.m, o.m, ~PickOurs(o, t))
    BY <2>2, <2>3, ThreeWaySymmetric
  <2> QED BY <1>1, <1>2, <1>3, <2>3, <2>4 DEF MergeFrontmatter
<1>4. CASE Outcome(base, o, t) = "rename"
  <2>1. Unreadable \notin {o.m, t.m} /\ Absent \notin {o.m, t.m}
    BY <1>4 DEF Outcome
  <2>2. o.m \in Versions /\ t.m \in Versions
    BY <2>1 DEF TypeOK, Stages, Contents, Versions, Checkouts
  <2>3. KeepBefore(o, t) <=> ~KeepBefore(t, o)
    BY <2>2, PicksAgree
  <2> QED BY <1>1, <1>2, <1>4, <2>3 DEF MergeFrontmatter
<1>5. CASE Outcome(base, o, t) \notin {"merged", "dispute", "rename"}
  BY <1>1, <1>2, <1>5 DEF MergeFrontmatter
<1> QED BY <1>3, <1>4, <1>5

(***************************************************************************)
(* Two checkouts that merge the same two commits, each calling its own side *)
(* ours, write the same file or hand off alike.                            *)
(***************************************************************************)
THEOREM MergesAreSymmetric == Spec => []MergeIsSymmetric
BY MergeTypeCorrect, Symmetric, PTL

-----------------------------------------------------------------------------
(* What a merge keeps. *)

LEMMA Keeps ==
    ASSUME TypeOK, NEW s \in Checkouts, Writes(s)
    PROVE  /\ \E w \in BOOLEAN :
                 Merged(s).m = ThreeWay(base, side[s].m, side[Other(s)].m, w)
           /\ \A k \in Checkouts : k = s \/ k = Other(s)
           /\ Other(s) \in Checkouts /\ Other(Other(s)) = s
           /\ ~Fails(base, side[s].m, side[Other(s)].m)
           /\ {side[s].m, side[Other(s)].m} = {side[1].m, side[2].m}
<1>1. Merged(s) = MergeFrontmatter(base, side[s], side[Other(s)])
  BY DEF Merged
<1>2. Merged(s).outcome \in {"merged", "dispute"}
  BY DEF Writes
<1>3. Other(s) \in Checkouts /\ Other(Other(s)) = s
      /\ \A k \in Checkouts : k = s \/ k = Other(s)
  BY DEF Checkouts, Other
<1>4. {side[s].m, side[Other(s)].m} = {side[1].m, side[2].m}
  BY DEF Checkouts, Other
<1>5. PickOurs(side[s], side[Other(s)]) \in BOOLEAN
  BY DEF PickOurs
<1>6. /\ ~Fails(base, side[s].m, side[Other(s)].m)
      /\ Merged(s).m = ThreeWay(base, side[s].m, side[Other(s)].m,
                                PickOurs(side[s], side[Other(s)]))
  BY <1>1, <1>2, FieldMerged
<1>7. \E w \in BOOLEAN :
         Merged(s).m = ThreeWay(base, side[s].m, side[Other(s)].m, w)
  BY <1>5, <1>6, Zenon
<1> QED BY <1>3, <1>4, <1>6, <1>7, Zenon

(***************************************************************************)
(* A merged status is always dated by the change that set it.               *)
(***************************************************************************)
THEOREM StatusKeepsItsDate == Spec => []StatusAndChangedAgree
<1>1. TypeOK => StatusAndChangedAgree
  <2> SUFFICES ASSUME TypeOK, NEW s \in Checkouts, Writes(s)
               PROVE  \E m \in {base, side[s].m, side[Other(s)].m} :
                        Merged(s).m.status = m.status /\ Merged(s).m.changed = m.changed
    BY Keeps DEF StatusAndChangedAgree
  <2> DEFINE o == side[s].m
             t == side[Other(s)].m
  <2>0. PICK w \in BOOLEAN : Merged(s).m = ThreeWay(base, o, t, w)
    BY Keeps
  <2>1. /\ Merged(s).m.status = IF Dispute(base, o, t) THEN base.status
                                ELSE MergeScalar(base.status, o.status, t.status, w)
        /\ Merged(s).m.changed = MergeChanged(base, o, t, w)
    BY <2>0 DEF ThreeWay
  <2> QED BY <2>1 DEF MergeScalar, MergeChanged
<1> QED BY <1>1, MergeTypeCorrect, PTL

(***************************************************************************)
(* No merge lets the later of two writers erase a completion.               *)
(***************************************************************************)
THEOREM MergeKeepsClosures == Spec => []ClosuresStand
<1>1. TypeOK => ClosuresStand
  <2> SUFFICES ASSUME TypeOK, NEW s \in Checkouts, NEW k \in Checkouts, Writes(s)
               PROVE  /\ side[k].m.status # base.status /\ side[k].m.status \in Terminal
                           => side[k].m.status \in {Merged(s).m.status} \cup Merged(s).m.conflict
                      /\ base.conflict # {} /\ side[1].m.conflict = base.conflict
                                           /\ side[2].m.conflict = base.conflict
                           => Merged(s).m.conflict # {}
    BY DEF ClosuresStand
  <2> DEFINE o == side[s].m
             t == side[Other(s)].m
  <2>0. PICK w \in BOOLEAN : Merged(s).m = ThreeWay(base, o, t, w)
    BY Keeps
  <2>1. /\ Merged(s).m.status = IF Dispute(base, o, t) THEN base.status
                                ELSE MergeScalar(base.status, o.status, t.status, w)
        /\ Merged(s).m.conflict = IF Dispute(base, o, t) THEN {o.status, t.status}
                                  ELSE MergeInherited(base.conflict, o.conflict, t.conflict)
    BY <2>0 DEF ThreeWay
  <2>2. side[k].m = o \/ side[k].m = t
    BY SMTT(40), Keeps
  <2>3. ASSUME side[k].m.status # base.status, side[k].m.status \in Terminal
        PROVE  side[k].m.status \in {Merged(s).m.status} \cup Merged(s).m.conflict
    BY <2>1, <2>2, <2>3 DEF MergeScalar, Dispute, StatusContested
  <2>4. ASSUME base.conflict # {}, side[1].m.conflict = base.conflict,
               side[2].m.conflict = base.conflict
        PROVE  Merged(s).m.conflict # {}
    <3>1. o.conflict = base.conflict /\ t.conflict = base.conflict
      BY <2>4 DEF Checkouts, Other
    <3> QED BY <2>1, <2>4, <3>1 DEF MergeInherited
  <2> QED BY <2>3, <2>4
<1> QED BY <1>1, MergeTypeCorrect, PTL

(***************************************************************************)
(* What one checkout alone has changed since the base is in the merged file.*)
(***************************************************************************)
THEOREM MergeKeepsEdits == Spec => []EditsStand
<1>1. TypeOK => EditsStand
  <2> SUFFICES ASSUME TypeOK, NEW s \in Checkouts, NEW k \in Checkouts, Writes(s)
               PROVE  LET m == Merged(s).m
                          u == side[k].m
                          v == side[Other(k)].m
                      IN /\ (u.tags \ base.tags) \subseteq m.tags
                         /\ (base.tags \ u.tags) \cap m.tags = {}
                         /\ u.summary # base.summary /\ v.summary = base.summary
                               => m.summary = u.summary
                         /\ u.status # base.status /\ v.status = base.status
                               => m.status = u.status
    BY DEF EditsStand
  <2> DEFINE o == side[s].m
             t == side[Other(s)].m
  <2>0. PICK w \in BOOLEAN : Merged(s).m = ThreeWay(base, o, t, w)
    BY Keeps
  <2>1. /\ Merged(s).m.status = IF Dispute(base, o, t) THEN base.status
                                ELSE MergeScalar(base.status, o.status, t.status, w)
        /\ Merged(s).m.summary = MergeScalar(base.summary, o.summary, t.summary, w)
        /\ Merged(s).m.tags = MergeList(base.tags, o.tags, t.tags)
    BY <2>0 DEF ThreeWay
  <2>2. \/ side[k].m = o /\ side[Other(k)].m = t
        \/ side[k].m = t /\ side[Other(k)].m = o
    BY Keeps
  <2>3. /\ (side[k].m.tags \ base.tags) \subseteq Merged(s).m.tags
        /\ (base.tags \ side[k].m.tags) \cap Merged(s).m.tags = {}
    BY <2>1, <2>2 DEF MergeList
  <2>4. side[k].m.summary # base.summary /\ side[Other(k)].m.summary = base.summary
           => Merged(s).m.summary = side[k].m.summary
    BY <2>1, <2>2 DEF MergeScalar
  <2>5. side[k].m.status # base.status /\ side[Other(k)].m.status = base.status
           => Merged(s).m.status = side[k].m.status
    BY <2>1, <2>2 DEF MergeScalar, Dispute, StatusContested
  <2> QED BY <2>3, <2>4, <2>5
<1> QED BY <1>1, MergeTypeCorrect, PTL
=============================================================================
