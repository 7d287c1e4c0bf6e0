------------------------------- MODULE Repair -------------------------------
(***************************************************************************)
(* The batches of `tk repair` on the files of one scope: adoption of files *)
(* with a foreign id prefix, archive layout, and the extension of          *)
(* colliding short ids (internal/integrity, internal/repair,               *)
(* internal/rewrite).  A batch is a plan, a pure function of the files,    *)
(* followed by one write or remove at a time, and one commit.  The process *)
(* may die between any two of these; nothing but the files survives, and   *)
(* the operator runs the same command again.                               *)
(*                                                                         *)
(* The scope flock is held throughout (module WriteEngine), so no other    *)
(* writer appears here, and the index rows the code reads are the files    *)
(* after a reconcile or SyncPaths (module IndexCache).  The order batches  *)
(* are in module Board.                                                    *)
(*                                                                         *)
(* A full id is <<scope, short>>, a short id a sequence over a small       *)
(* alphabet, a path <<dir, id in the file name, slug>>.  A file's content  *)
(* is its document (body and created), the id in its fence, the ids it     *)
(* names (depends, related and produces alike), whether its fence parses   *)
(* and whether its status is terminal.                                     *)
(***************************************************************************)
EXTENDS Integers, FiniteSets, Sequences, SequencesExt

CONSTANTS
  Scope,        \* the scope that is repaired
  Worlds,       \* the directories of files a run may start from
  Created,      \* Created[doc]: the instant a document was created
  Held,         \* foreign ids a file of another registered scope owns
  Alphabet,     \* the characters of a short id, 1..n in their order
  MaxLen,       \* id.ShortIDMax, the longest short id
  SelfCommits,  \* the scope is auto-commit and has a git-root
  MaxDeaths     \* bound on the processes that die

VARIABLES
  disk,      \* path |-> content
  head,      \* the same, as last committed
  stage,     \* the batch RunBatches is in, and where in it
  ops,       \* the rewrite.Op values still to be applied
  queue,     \* the rows or groups the stage has still to look at
  touched,   \* paths the current batch has written or removed
  held,      \* short ids a design holds: not also repaired as duplicates
  skipped,   \* a group was left alone, or a batch refused
  repaired,  \* ids whose references the run has yet to report
  reported,  \* ids whose references have been reported by some run
  deaths,    \* processes that have died
  clean,     \* no run has died or failed so far
  cut,       \* a run has died among the removals of an adoption
  disk0      \* the files the first run found

vars == <<disk, head, stage, ops, queue, touched, held, skipped, repaired,
          reported, deaths, clean, cut, disk0>>
run == <<ops, queue, touched, held, skipped, repaired>>

Archive == 1
Design == 2
Root == 3
None == <<>>

Dir(p) == p[1]
NameID(p) == p[2]
Slug(p) == p[3]
ScopeOf(id) == id[1]
ShortOf(id) == id[2]

IsPath(p) == p = <<Dir(p), NameID(p), Slug(p)>>
IsFile(c) ==
  c = [doc |-> c.doc, id |-> c.id, refs |-> c.refs, ok |-> c.ok, terminal |-> c.terminal]
AreFiles(d) == IsFiniteSet(DOMAIN d) /\ \A p \in DOMAIN d : IsPath(p) /\ IsFile(d[p])
ASSUME WorldsAreFiles == \A d \in Worlds : AreFiles(d)

-----------------------------------------------------------------------------
(* Orders: strings compare character by character. *)

LexLess(a, b) ==
  \E i \in 1..Len(b) :
    /\ \A j \in 1..(i - 1) : j <= Len(a) /\ a[j] = b[j]
    /\ i <= Len(a) => a[i] < b[i]

BaseKey(p) == <<ScopeOf(NameID(p))>> \o ShortOf(NameID(p)) \o <<0, Slug(p)>>
PathLess(p, q) == LexLess(<<Dir(p)>> \o BaseKey(p), <<Dir(q)>> \o BaseKey(q))
Least(S) == CHOOSE p \in S : \A q \in S \ {p} : PathLess(p, q)
ByPath(S) == SetToSortSeq(S, PathLess)
InOrder(S, before(_, _)) ==
  {f \in SetToSeqs(S) : \A i, j \in DOMAIN f : i < j => before(f[i], f[j])}

(* collision.KeepBefore: older created first, a file without one before all *)
(* others, then base name; the digest is left out because base names of     *)
(* two documents with one created time differ here or their paths do.       *)
Instant(d, p) == IF d[p].ok THEN Created[d[p].doc] ELSE 0
KeepBefore(d, p, q) ==
  \/ Instant(d, p) < Instant(d, q)
  \/ /\ Instant(d, p) = Instant(d, q)
     /\ \/ LexLess(BaseKey(p), BaseKey(q))
        \/ BaseKey(p) = BaseKey(q) /\ PathLess(p, q)

(* id.Extend: the first free extension, shorter ones first; id.ShortInFamily. *)
Extensions(short) ==
  UNION {{short \o e : e \in [1..n -> Alphabet]} : n \in 1..(MaxLen - Len(short))}
Extendable(short, taken) == Extensions(short) \ taken # {}
Extend(short, taken) ==
  CHOOSE e \in Extensions(short) \ taken :
    \A f \in (Extensions(short) \ taken) \ {e} :
      Len(e) < Len(f) \/ (Len(e) = Len(f) /\ LexLess(e, f))
InFamily(short, base) == IsPrefix(base, short)

(* repair.Basename keeps the frozen slug. *)
Renamed(p, id) == <<Dir(p), id, Slug(p)>>

-----------------------------------------------------------------------------
(* What reconcile makes of the files, and what scopefile finds on disk. *)

Own(d) == {p \in DOMAIN d : ScopeOf(NameID(p)) = Scope}
Tickets(d) == {p \in Own(d) : Dir(p) # Design}
Designs(d) == {p \in Own(d) : Dir(p) = Design}

(* The fence id is authoritative when it is one of this scope. *)
RowID(d, p) ==
  IF d[p].ok /\ d[p].id # None /\ ScopeOf(d[p].id) = Scope THEN d[p].id ELSE NameID(p)
RowShort(d, p) == ShortOf(RowID(d, p))

PrefixMismatches(d) == DOMAIN d \ Own(d)

HeldShorts(d, p) ==
  {ShortOf(NameID(p))} \cup
  {ShortOf(i) : i \in {j \in {d[p].id} : d[p].ok /\ j # None /\ ScopeOf(j) = Scope}}
OccupiedShorts(d) == UNION {HeldShorts(d, p) : p \in Own(d)}
(* One path per occupied short id: the least ticket row, or else the least file. *)
OccupiedPath(d, short) ==
  LET rows == {p \in Tickets(d) : RowShort(d, p) = short}
  IN IF rows # {} THEN Least(rows)
     ELSE Least({p \in Own(d) : short \in HeldShorts(d, p)})
Occupied(d) == [s \in OccupiedShorts(d) |-> OccupiedPath(d, s)]

-----------------------------------------------------------------------------
(* Plans.  An Op writes content at new and then removes old when that is    *)
(* another path; old = None only writes.  A plan that fails has ok = FALSE. *)

Op(old, new, c) == [old |-> old, new |-> new, content |-> c]

(* retargetModel, applyIDMap: the ids a file names, with one id or several  *)
(* replaced; lists are sets here, so an entry that is named twice is one.   *)
Retarget(c, old, new) ==
  IF old \in c.refs THEN [c EXCEPT !.refs = (@ \ {old}) \cup {new}] ELSE c
Mapped(c, map) ==
  [c EXCEPT !.refs = {IF r \in DOMAIN map THEN map[r] ELSE r : r \in @}]

(* The bytes planLoser gives an extended file: its new id and, when links   *)
(* move, the ids it names.  dest = None: they stay; dest = old: its own.    *)
RenderLoser(c, new, old, dest) ==
  LET renamed == [c EXCEPT !.id = new]
  IN IF dest = None THEN renamed
     ELSE Retarget(renamed, old, IF dest = old THEN new ELSE dest)

(* The short ids whose file can be read; what an extension writes to is the *)
(* file that holds its short id already, or else a new one.                 *)
Readable(d) == {s \in OccupiedShorts(d) : OccupiedPath(d, s) \in DOMAIN d}
ExtendedPath(d, p, short) ==
  IF short \in Readable(d) THEN OccupiedPath(d, short) ELSE Renamed(p, <<Scope, short>>)

(* resumeExtension: an extension of this short id whose file already holds  *)
(* the bytes in question was written by a run that died.  One that this     *)
(* plan has just taken is not on disk and does not count.                   *)
Resumable(d, p, old, dest) ==
  {s \in Readable(d) :
     /\ s # RowShort(d, p) /\ InFamily(s, RowShort(d, p))
     /\ d[OccupiedPath(d, s)] = RenderLoser(d[p], <<Scope, s>>, old, dest)}
FirstShort(S) == CHOOSE s \in S : \A t \in S \ {s} : LexLess(s, t)

(* Mutant: an extension is not taken for the next loser of the group. *)
PlannedUnclaimed(acc, short) == [acc EXCEPT !.shorts = Append(@, short)]
Planned(acc, short) ==
  [acc EXCEPT !.shorts = Append(@, short), !.taken = @ \cup {short}]

(* planLoser: resume with the final bytes, or with those of a run that died *)
(* before it rewrote the links; otherwise the first free extension.         *)
PlanExtended(acc, short) ==
  IF Extendable(short, acc.taken)
  THEN Planned(acc, Extend(short, acc.taken))
  ELSE [acc EXCEPT !.ok = FALSE]
PlanLoser(d, acc, p, old, dest) ==
  LET again == Resumable(d, p, old, dest)
      half == Resumable(d, p, old, None)
  IN IF ~acc.ok THEN acc
     ELSE IF again \cup half = {} THEN PlanExtended(acc, RowShort(d, p))
     ELSE Planned(acc, FirstShort(IF again # {} THEN again ELSE half))

(* DuplicateID and SharedID: the keeper stays, every other holder of the    *)
(* short id is extended.  When the keeper is a design and exactly one       *)
(* ticket is extended, that ticket takes the references with it: it is      *)
(* planned first, and the rest of the scope is rewritten after it.          *)
IsKeeper(d, p, rows) == \A q \in rows \ {p} : KeepBefore(d, p, q)
Retargets(d, keeper, losers) ==
  Dir(keeper) = Design /\ Cardinality(losers \cap Tickets(d)) = 1
PlannedBefore(d, retargets, p, q) ==
  IF retargets /\ (p \in Tickets(d) <=> q \in Designs(d)) THEN p \in Tickets(d)
  ELSE KeepBefore(d, p, q)

(* linkPlan: the id that replaces the old one in the bytes of a loser. *)
LinkDest(d, p, old, retargets, shorts) ==
  IF ~retargets THEN None ELSE IF p \in Tickets(d) THEN old ELSE <<Scope, Head(shorts)>>
PlanShorts(d, order, old, retargets) ==
  LET step(acc, p) == PlanLoser(d, acc, p, old, LinkDest(d, p, old, retargets, acc.shorts))
  IN FoldLeft(step, [ok |-> TRUE, shorts |-> <<>>, taken |-> OccupiedShorts(d)], order)
LoserOps(d, order, old, retargets, planned) ==
  IF ~planned.ok THEN <<>>
  ELSE [i \in DOMAIN order |->
          Op(order[i], ExtendedPath(d, order[i], planned.shorts[i]),
             RenderLoser(d[order[i]], <<Scope, planned.shorts[i]>>, old,
                         LinkDest(d, order[i], old, retargets, planned.shorts)))]

(* retargetScope: the files that name the id, unless written already. *)
(* Mutant: only the extended files themselves follow the moved id. *)
NoReferrers(d, written, old) == {}
Referrers(d, written, old) ==
  {p \in DOMAIN d \ written : d[p].ok /\ old \in d[p].refs /\ (p \in Own(d) \/ Dir(p) # Design)}
RetargetOps(d, referrers, old, planned) ==
  [i \in DOMAIN referrers |->
     Op(referrers[i], referrers[i], Retarget(d[referrers[i]], old, <<Scope, Head(planned.shorts)>>))]
ToRetarget(d, order, old, retargets, planned, moves) ==
  IF retargets /\ planned.ok
  THEN Referrers(d, {moves[i].new : i \in DOMAIN moves} \cup ToSet(order), old)
  ELSE {}

(* ArchiveMove, InterruptedMove, genuineCollisionIDs. *)
ArchiveMove(d, p) ==
  Op(p, <<IF d[p].terminal THEN Archive ELSE Root, NameID(p), Slug(p)>>, d[p])
InterruptedMove(d, rows) ==
  \E p, q \in rows : Dir(p) = Root /\ Dir(q) = Archive /\ d[p] = d[q]
RowsOf(d, id) == {p \in Tickets(d) : RowID(d, p) = id}
DuplicateIDs(d) == {id \in {RowID(d, p) : p \in Tickets(d)} : Cardinality(RowsOf(d, id)) > 1}
GenuineCollision(d, id) == id \in DuplicateIDs(d) /\ ~InterruptedMove(d, RowsOf(d, id))
Drifted(d, p) == d[p].ok /\ d[p].terminal # (Dir(p) = Archive)
Holders(d, short) == {p \in Own(d) : RowShort(d, p) = short}
SharedShorts(d) ==
  {s \in {RowShort(d, p) : p \in Designs(d)} : Cardinality(Holders(d, s)) > 1}

-----------------------------------------------------------------------------
(* AdoptPrefix.  pins is a function from adopted paths to the destinations  *)
(* an earlier run has already written for them.                             *)

AdoptShort(d, p) ==
  IF d[p].ok /\ d[p].id # None THEN ShortOf(d[p].id) ELSE ShortOf(NameID(p))
ForeignIDs(d, p) ==
  {i \in {NameID(p)} \cup (IF d[p].ok THEN {d[p].id} ELSE {}) :
     i # None /\ ScopeOf(i) # Scope}

(* Destinations that may be a resumed one: same directory, slug and body, a *)
(* short id of the family, shorter ones first.                              *)
(* Mutant: what a dead run has planted is not looked for. *)
NoResumeCandidates(d, p) == <<>>
ResumeCandidates(d, p) ==
  LET hits == {q \in Own(d) :
                 /\ Dir(q) = Dir(p) /\ Slug(q) = Slug(p)
                 /\ InFamily(ShortOf(NameID(q)), AdoptShort(d, p))
                 /\ IF d[p].ok THEN d[q].ok /\ d[q].doc = d[p].doc ELSE d[q] = d[p]}
  IN SetToSortSeq(hits, LAMBDA a, b :
       \/ Len(ShortOf(NameID(a))) < Len(ShortOf(NameID(b)))
       \/ /\ Len(ShortOf(NameID(a))) = Len(ShortOf(NameID(b)))
          /\ PathLess(a, b))

(* assignPinned: new ids in short-id order, the keeper of a short id first. *)
AssignPinned(d, adoptees, pins, exclude) ==
  LET occupied == Occupied(d)
      pinned == {pins[p] : p \in DOMAIN pins}
      taken == {s \in DOMAIN occupied : occupied[s] \notin pinned \cup exclude}
                 \cup {ShortOf(NameID(q)) : q \in pinned}
      before(p, q) == \/ LexLess(AdoptShort(d, p), AdoptShort(d, q))
                      \/ AdoptShort(d, p) = AdoptShort(d, q) /\ KeepBefore(d, p, q)
      step(acc, p) ==
        LET s == AdoptShort(d, p)
            short == IF s \notin acc.taken THEN s ELSE Extend(s, acc.taken)
        IN IF p \in DOMAIN pins
           THEN [acc EXCEPT !.short = [@ EXCEPT ![p] = ShortOf(NameID(pins[p]))]]
           ELSE IF s \in acc.taken /\ ~Extendable(s, acc.taken)
           THEN [acc EXCEPT !.ok = FALSE]
           ELSE [acc EXCEPT !.short = [@ EXCEPT ![p] = short], !.taken = @ \cup {short}]
      end == FoldLeft(step, [ok |-> TRUE, taken |-> taken, short |-> [p \in adoptees |-> AdoptShort(d, p)]],
                      SetToSortSeq(adoptees, before))
  IN [ok |-> end.ok, new |-> [p \in adoptees |-> Renamed(p, <<Scope, end.short[p]>>)]]

(* claimKeptIDs: a foreign id is inherited by the keeper among its bearers. *)
ClaimKeptIDs(d, new) ==
  LET bearers(i) == {p \in DOMAIN new : i \in ForeignIDs(d, p)}
      winner(i) == CHOOSE p \in bearers(i) :
                     \A q \in bearers(i) \ {p} : KeepBefore(d, p, q)
  IN [i \in (UNION {ForeignIDs(d, p) : p \in DOMAIN new}) \ Held |-> NameID(new[winner(i)])]

(* adoptee.content: a file that does not parse keeps its bytes. *)
AdoptContent(d, p, new) ==
  LET c == d[p]
      map == ClaimKeptIDs(d, new)
  IN IF ~c.ok THEN c
     ELSE Mapped(IF c.id # None THEN [c EXCEPT !.id = NameID(new[p])] ELSE c, map)

(* One round of planPrefixIDs: each adopted file tries its candidates with  *)
(* every candidate hidden from the occupied set; then the pins are checked  *)
(* with every file in view, and those that do not match are retired.        *)
Fits(d, p, q, new) == NameID(new[p]) = NameID(q) /\ AdoptContent(d, p, new) = d[q]
Pin(pins, p, q) == [x \in DOMAIN pins \cup {p} |-> IF x = p THEN q ELSE pins[x]]
PinFirst(pins, p, hits) == IF hits = <<>> THEN pins ELSE Pin(pins, p, hits[1])

TryCandidates(d, adoptees, hidden, st) ==
  LET good(pins, p, q) ==
        /\ q \notin st.rejected[p]
        /\ Fits(d, p, q, AssignPinned(d, adoptees, Pin(pins, p, q), hidden).new)
      try(pins, p) ==
        IF p \in DOMAIN pins THEN pins
        ELSE PinFirst(pins, p, SelectSeq(ResumeCandidates(d, p), LAMBDA q : good(pins, p, q)))
  IN FoldLeft(try, st.pins, ByPath(adoptees))

Unfit(d, pins, new) == {p \in DOMAIN pins : ~Fits(d, p, pins[p], new)}
Retire(st, pins, bad) ==
  [pins |-> [p \in DOMAIN pins \ bad |-> pins[p]],
   rejected |-> [p \in DOMAIN st.rejected |->
                   IF p \in bad THEN st.rejected[p] \cup {pins[p]} ELSE st.rejected[p]]]

CheckPins(d, adoptees, st, pins) ==
  Retire(st, pins, Unfit(d, pins, AssignPinned(d, adoptees, pins, {}).new))
PinRound(d, adoptees, hidden, st) ==
  CheckPins(d, adoptees, st, TryCandidates(d, adoptees, hidden, st))

Pins(d, adoptees, hidden) ==
  FoldLeft(LAMBDA st, i : PinRound(d, adoptees, hidden, st),
           [pins |-> <<>>, rejected |-> [p \in adoptees |-> {}]],
           [i \in 1..(2 * Cardinality(adoptees) + 1) |-> i]).pins

(* The plan: every new file and every reference in the scope first, then    *)
(* the removal of the old names.                                            *)
PrefixOps(d, new, sorted, referrers, map) ==
  LET content(p) == AdoptContent(d, p, new)
      plants == [i \in DOMAIN sorted |-> Op(None, new[sorted[i]], content(sorted[i]))]
      edges == [i \in DOMAIN referrers |->
                  Op(referrers[i], referrers[i], Mapped(d[referrers[i]], map))]
      unlinks == [i \in DOMAIN sorted |-> Op(sorted[i], new[sorted[i]], content(sorted[i]))]
  IN plants \o edges \o unlinks

(* A file that does not parse and names a claimed id, other than one it     *)
(* bears, refuses the batch.                                                *)
Refused(d, adoptees, map) ==
  \E p \in DOMAIN d :
    /\ ~d[p].ok
    /\ (DOMAIN map \cap d[p].refs) \ (IF p \in adoptees THEN ForeignIDs(d, p) ELSE {}) # {}

EdgeReferrers(d, adoptees, map) ==
  {p \in DOMAIN d \ adoptees : d[p].ok /\ DOMAIN map \cap d[p].refs # {}}
AdoptPrefix(d) ==
  LET adoptees == PrefixMismatches(d)
      hidden == UNION {ToSet(ResumeCandidates(d, p)) : p \in adoptees}
  IN AssignPinned(d, adoptees, Pins(d, adoptees, hidden), {})

-----------------------------------------------------------------------------
(* The run.  RunBatches goes through the stages in this order; "plant",     *)
(* "unlink", "move1", "extend", "fork" and "move2" apply the ops of a batch *)
(* that "prefix", "archive1", "shared", "dups" and "archive2" have planned. *)

(* Mutant: the old names go before their references are reported. *)
BatchReportLast ==
  [plant |-> "unlink", unlink |-> "report", move1 |-> "archive1",
   extend |-> "shared", fork |-> "dups", move2 |-> "archive2"]
Batch == [plant |-> "report", unlink |-> "archive1", move1 |-> "archive1",
          extend |-> "shared", fork |-> "dups", move2 |-> "archive2"]
Applying == stage \in DOMAIN Batch

(* The rows or groups a stage looks at, read when it begins. *)
Rows(d, next) ==
  CASE next \in {"archive1", "archive2"} ->
         {p \in Tickets(d) : Drifted(d, p) /\ ~GenuineCollision(d, RowID(d, p))}
    [] next = "shared" -> {<<Scope, s>> : s \in SharedShorts(d)}
    [] next = "dups" -> {id \in DuplicateIDs(d) : ShortOf(id) \notin held}
    [] OTHER -> {}

Goto(next) == stage' = next /\ queue' = Rows(disk, next)

(* RepairScope: under the flock and after a reconcile. *)
RepairBegin ==
  /\ stage \in {"idle", "dead", "done"}
  /\ Goto("prefix")
  /\ ops' = <<>> /\ touched' = {} /\ held' = {} /\ skipped' = FALSE /\ repaired' = {}
  /\ UNCHANGED <<disk, head, reported, deaths, clean, cut, disk0>>

(* Any error of a batch ends the run; what is written stays. *)
Fail ==
  /\ stage' = "done" /\ skipped' = TRUE /\ clean' = FALSE
  /\ UNCHANGED <<queue, ops, touched, held, repaired>>

AdoptWith(assigned, map) ==
  IF assigned.ok /\ ~Refused(disk, DOMAIN assigned.new, map)
  THEN \E sorted \in InOrder(DOMAIN assigned.new, PathLess) :
       \E referrers \in InOrder(EdgeReferrers(disk, DOMAIN assigned.new, map), PathLess) :
         /\ stage' = "plant" /\ repaired' = DOMAIN map
         /\ ops' = PrefixOps(disk, assigned.new, sorted, referrers, map)
         /\ UNCHANGED <<queue, touched, held, skipped, clean>>
  ELSE Fail
Adopt(assigned) == AdoptWith(assigned, ClaimKeptIDs(disk, assigned.new))
PlanPrefix ==
  /\ stage = "prefix"
  /\ IF PrefixMismatches(disk) = {}
     THEN Goto("archive1") /\ UNCHANGED <<ops, touched, held, skipped, repaired, clean>>
     ELSE Adopt(AdoptPrefix(disk))
  /\ UNCHANGED <<disk, head, reported, deaths, cut, disk0>>

(* reportPrefixEdges: while the old names are still there. *)
ReportPrefixEdges ==
  /\ stage = "report"
  /\ stage' = "unlink"
  /\ reported' = reported \cup repaired /\ repaired' = {}
  /\ UNCHANGED <<disk, head, ops, queue, touched, held, skipped, deaths, clean, cut, disk0>>

(* Reading another scope fails before anything is removed. *)
ReportFails ==
  /\ stage = "report"
  /\ Fail
  /\ UNCHANGED <<disk, head, reported, deaths, cut, disk0>>

PlanMove ==
  /\ stage \in {"archive1", "archive2"}
  /\ \E p \in queue :
       /\ \A q \in queue \ {p} : PathLess(p, q)
       /\ ops' = <<ArchiveMove(disk, p)>> /\ queue' = queue \ {p}
  /\ stage' = IF stage = "archive1" THEN "move1" ELSE "move2"
  /\ UNCHANGED <<disk, head, touched, held, skipped, repaired, reported, deaths, clean, cut, disk0>>

EndArchive ==
  /\ stage \in {"archive1", "archive2"}
  /\ queue = {}
  /\ Goto(IF stage = "archive1" THEN "shared" ELSE "done")
  /\ skipped' = (skipped \/ (stage = "archive2" /\ \E p \in Tickets(disk) :
                                              GenuineCollision(disk, RowID(disk, p))))
  /\ UNCHANGED <<disk, head, ops, touched, held, repaired, reported, deaths, clean, cut, disk0>>

(* A group with a quarantined file, or with the halves of a layout move, is *)
(* left alone.                                                              *)
Members(id) == IF stage = "shared" THEN Holders(disk, ShortOf(id)) ELSE RowsOf(disk, id)
LeftAlone(rows) ==
  (\E p \in rows : ~disk[p].ok) \/ InterruptedMove(disk, rows \cap Tickets(disk))
FirstGroup(id) == \A j \in queue \ {id} : LexLess(ShortOf(id), ShortOf(j))

ExtendWith(id, planned, planOps) ==
  \/ /\ planned.ok
     /\ stage' = IF stage = "shared" THEN "extend" ELSE "fork"
     /\ ops' = planOps /\ queue' = queue \ {id} /\ repaired' = repaired \cup {id}
     /\ UNCHANGED <<touched, skipped, clean>>
  \/ /\ ~planned.ok
     /\ stage' = "done" /\ skipped' = TRUE /\ clean' = FALSE
     /\ UNCHANGED <<queue, ops, touched, repaired>>
RetargetWith(id, order, retargets, planned, moves) ==
  \E referrers \in InOrder(ToRetarget(disk, order, id, retargets, planned, moves), PathLess) :
    ExtendWith(id, planned, moves \o RetargetOps(disk, referrers, id, planned))
PlanWith(id, order, retargets, planned) ==
  RetargetWith(id, order, retargets, planned, LoserOps(disk, order, id, retargets, planned))
ExtendAll(id, losers, retargets) ==
  \E order \in InOrder(losers, LAMBDA p, q : PlannedBefore(disk, retargets, p, q)) :
    PlanWith(id, order, retargets, PlanShorts(disk, order, id, retargets))
ExtendLosers(id, rows) ==
  \E keeper \in rows :
    /\ IsKeeper(disk, keeper, rows)
    /\ ExtendAll(id, rows \ {keeper}, Retargets(disk, keeper, rows \ {keeper}))
PlanGroup(id, rows) ==
  /\ held' = IF stage = "shared" THEN held \cup {ShortOf(id)} ELSE held
  /\ IF LeftAlone(rows)
     THEN /\ skipped' = TRUE /\ queue' = queue \ {id}
          /\ UNCHANGED <<stage, ops, touched, repaired, clean>>
     ELSE ExtendLosers(id, rows)

PlanCollision ==
  /\ stage \in {"shared", "dups"}
  /\ \E id \in queue : FirstGroup(id) /\ PlanGroup(id, Members(id))
  /\ UNCHANGED <<disk, head, reported, deaths, cut, disk0>>

EndShared ==
  /\ stage = "shared" /\ queue = {}
  /\ Goto("dups")
  /\ UNCHANGED <<disk, head, ops, touched, held, skipped, repaired, reported, deaths, clean, cut, disk0>>

(* ReportEdgeVerify and reportSharedEdges, after the last extension. *)
ReportEdgeVerify ==
  /\ stage = "dups" /\ queue = {}
  /\ Goto("archive2")
  /\ reported' = reported \cup repaired /\ repaired' = {}
  /\ UNCHANGED <<disk, head, ops, touched, held, skipped, deaths, clean, cut, disk0>>

-----------------------------------------------------------------------------
(* rewrite.Apply, one file operation at a time. *)

With(d, p, c) == [q \in DOMAIN d \cup {p} |-> IF q = p THEN c ELSE d[q]]
Without(d, p) == [q \in DOMAIN d \ {p} |-> d[q]]
Moved(op) == op.old # None /\ op.old # op.new
(* splitPrefixOps: the plants end where the removals begin. *)
Applied == ops = <<>> \/ (stage = "plant" /\ Moved(Head(ops)))
FreeDestination(op) ==
  op.old # op.new /\ op.new \in DOMAIN disk => disk[op.new] = op.content

(* Mutant: a move removes the old file before it writes the new one. *)
WriteAfterRemove ==
  /\ Applying /\ ~Applied /\ Head(ops).new # None
  /\ LET op == Head(ops)
     IN IF Moved(op)
        THEN /\ disk' = Without(disk, op.old) /\ touched' = touched \cup {op.old}
             /\ ops' = [ops EXCEPT ![1].old = None]
        ELSE /\ disk' = With(disk, op.new, op.content) /\ touched' = touched \cup {op.new}
             /\ ops' = Tail(ops)
  /\ UNCHANGED <<stage, queue, held, skipped, repaired, clean, head, reported, deaths, cut, disk0>>

(* The write of an op; a move keeps its op, marked by writing in place, so  *)
(* that the removal is a step of its own.  A plan is made from the files     *)
(* under the flock it is applied under, so the case that an op is already   *)
(* done (its old file gone) does not arise: a rerun plans again.            *)
WriteFile ==
  /\ Applying /\ ~Applied /\ Head(ops).new # None
  /\ LET op == Head(ops)
     IN \/ /\ FreeDestination(op)
           /\ disk' = With(disk, op.new, op.content)
           /\ touched' = touched \cup {op.new}
           /\ ops' = IF Moved(op) THEN [ops EXCEPT ![1].new = None] ELSE Tail(ops)
           /\ UNCHANGED <<stage, queue, held, skipped, repaired, clean>>
        \/ /\ ~FreeDestination(op)
           /\ Fail
           /\ UNCHANGED disk
  /\ UNCHANGED <<head, reported, deaths, cut, disk0>>

RemoveOld ==
  /\ Applying /\ ~Applied /\ Head(ops).new = None
  /\ disk' = Without(disk, Head(ops).old)
  /\ touched' = touched \cup {Head(ops).old}
  /\ ops' = Tail(ops)
  /\ UNCHANGED <<head, stage, queue, held, skipped, repaired, reported, deaths, clean, cut, disk0>>

(* finishRepairBatch: SyncPaths and one commit of the touched paths.        *)
(* repairArchive and repairCollisions go on with the rows they have read.   *)
(* Mutant: the removed names are left out of the commit. *)
CommittedAdditions(paths) ==
  [p \in DOMAIN head \cup (DOMAIN disk \cap paths) |-> IF p \in DOMAIN disk \cap paths THEN disk[p] ELSE head[p]]
Committed(paths) ==
  [p \in (DOMAIN head \ paths) \cup (DOMAIN disk \cap paths) |->
     IF p \in paths THEN disk[p] ELSE head[p]]

Finish ==
  /\ Applying /\ Applied
  /\ stage' = Batch[stage]
  /\ IF stage = "plant" THEN UNCHANGED <<head, touched>>
     ELSE /\ head' = IF SelfCommits THEN Committed(touched) ELSE head
          /\ touched' = {}
  /\ queue' = IF stage = "unlink" THEN Rows(disk, "archive1") ELSE queue
  /\ UNCHANGED <<disk, ops, held, skipped, repaired, reported, deaths, clean, cut, disk0>>

Die ==
  /\ deaths < MaxDeaths /\ stage \notin {"idle", "dead", "done"}
  /\ stage' = "dead" /\ deaths' = deaths + 1 /\ clean' = FALSE
  /\ cut' = (cut \/ stage = "unlink")
  /\ UNCHANGED <<disk, head, run, reported, disk0>>

(* The half of an interrupted layout move that was never committed. *)
Half(d, p) == ~Drifted(d, p) /\ \E q \in DOMAIN d \ {p} : d[q] = d[p]

Init ==
  /\ disk \in Worlds /\ disk0 = disk
  /\ head = [p \in {q \in DOMAIN disk : ~Half(disk, q)} |-> disk[p]]
  /\ stage = "idle" /\ ops = <<>> /\ queue = {} /\ touched = {} /\ held = {}
  /\ skipped = FALSE /\ repaired = {} /\ reported = {} /\ deaths = 0 /\ clean = TRUE /\ cut = FALSE

Next ==
  \/ RepairBegin \/ PlanPrefix \/ ReportPrefixEdges \/ ReportFails
  \/ PlanMove \/ EndArchive \/ PlanCollision \/ EndShared \/ ReportEdgeVerify
  \/ WriteFile \/ RemoveOld \/ Finish \/ Die

Spec == Init /\ [][Next]_vars

-----------------------------------------------------------------------------
(* Diagnose (tk doctor): the findings that name tk repair as the remedy,    *)
(* and the quarantined files.                                               *)
Findings(d) ==
  {<<"duplicate_id", id>> : id \in {i \in DuplicateIDs(d) :
      \A p \in Designs(d) : RowShort(d, p) # ShortOf(i)}}
  \cup {<<"archive", p>> : p \in {q \in Tickets(d) : Drifted(d, q)}}
  \cup {<<"id_prefix", p>> : p \in PrefixMismatches(d)}
  \cup {<<"design_id", s>> : s \in SharedShorts(d)}
ParseErrors(d) == {p \in Own(d) : ~d[p].ok}
Diagnose(d) == Findings(d) \cup {<<"parse_error", p>> : p \in ParseErrors(d)}

FilesOf(d, doc) == {p \in DOMAIN d : d[p].doc = doc}
Docs(d) == {d[p].doc : p \in DOMAIN d}
Complete == stage = "done" /\ ~skipped

(* Types. *)
IsID(id) == id = None \/ (Len(id) = 2 /\ Len(ShortOf(id)) \in 1..MaxLen)
IsDisk(d) ==
  \A p \in DOMAIN d : /\ Dir(p) \in {Archive, Design, Root} /\ IsID(NameID(p))
                      /\ IsID(d[p].id) /\ \A r \in d[p].refs : IsID(r)
TypeOK ==
  /\ IsDisk(disk) /\ IsDisk(head)
  /\ stage \in {"idle", "dead", "done", "prefix", "report", "archive1", "archive2",
                "shared", "dups"} \cup DOMAIN Batch
  /\ deaths \in 0..MaxDeaths /\ skipped \in BOOLEAN /\ clean \in BOOLEAN
  /\ cut \in BOOLEAN
  /\ \A s \in held : Len(s) \in 1..MaxLen

(* No document is ever without a file, wherever a run dies or fails: Apply  *)
(* writes the new path before it removes the old one, and refuses a         *)
(* destination with other bytes.                                            *)
DocumentsKept == Docs(disk) = Docs(disk0)

(* While no run has died or failed, HEAD never holds a rename by half, also *)
(* between the batches of a run that extends, moves and adopts the same     *)
(* file: a batch commits the paths it wrote and the paths it removed        *)
(* together, and a complete run leaves nothing uncommitted.                 *)
HeadWhole ==
  clean /\ SelfCommits =>
    /\ \A x \in Docs(disk0) : Cardinality(FilesOf(head, x)) = 1
    /\ Complete => head = disk

(* A run that completes leaves one file per document: running repair again  *)
(* after a death recognises what the dead run has written, and neither      *)
(* forks a ticket into two ids nor extends a short id twice.  Not so after  *)
(* a death among the removals of an adoption: a file whose old name is gone *)
(* no longer takes part in the next plan, so the bytes planted for a file   *)
(* that refers to it are not recognised and it is planted once more.        *)
NoFork ==
  Complete /\ ~cut => \A x \in Docs(disk0) : Cardinality(FilesOf(disk, x)) = 1

(* A run that completes without leaving anything alone leaves nothing for   *)
(* which doctor would name repair as the remedy: the batches do not undo    *)
(* one another (an extension creates no new collision or layout drift).     *)
DoctorClean == Complete => Findings(disk) = {}

(* The documents an id of the first directory means: the only holder of an  *)
(* id of the scope, or the only stray file that bears a foreign id.  An id  *)
(* shared by a design that keeps it and one ticket means the ticket.        *)
Meant(id) ==
  LET holders == {p \in Own(disk0) : RowID(disk0, p) = id}
      strays == {p \in PrefixMismatches(disk0) : id \in ForeignIDs(disk0, p)}
      all == IF ScopeOf(id) = Scope THEN holders ELSE IF id \in Held THEN {} ELSE strays
      tickets == all \cap Tickets(disk0)
      keepers == {p \in all : \A q \in all \ {p} : KeepBefore(disk0, p, q)}
  IN IF Cardinality(all) = 1 THEN Docs([p \in all |-> disk0[p]])
     ELSE IF clean /\ Cardinality(tickets) = 1 /\ keepers \subseteq Designs(disk0)
     THEN Docs([p \in tickets |-> disk0[p]])
     ELSE {}

(* References follow the documents they meant through renames and prefix    *)
(* adoption, whichever file is renamed first and wherever a run died, with *)
(* the exception of NoFork.                                                 *)
ReferencesFollow ==
  Complete /\ ~cut =>
    \A p \in DOMAIN disk0 : \A r \in disk0[p].refs :
      \A x \in (IF disk0[p].ok THEN Meant(r) ELSE {}) :
        \A q \in FilesOf(disk, disk0[p].doc) :
          \E s \in disk[q].refs :
            /\ ScopeOf(s) = Scope
            /\ {disk[h].doc : h \in Holders(disk, ShortOf(s))} = {x}

(* References from other scopes are never rewritten, only reported, and the *)
(* report needs the old name: when the last file that bears a claimed       *)
(* foreign id is gone, some run has reported the id.                        *)
OutsideReported ==
  \A id \in (UNION {ForeignIDs(disk0, p) : p \in PrefixMismatches(disk0)}) \ Held :
    \/ id \in reported
    \/ \E p \in PrefixMismatches(disk) : id \in ForeignIDs(disk, p)
=============================================================================
