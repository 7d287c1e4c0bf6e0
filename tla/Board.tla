-------------------------------- MODULE Board --------------------------------
(***************************************************************************)
(* The board of the scopes of one machine: where a ticket stands           *)
(* (internal/order, writeengine/order.go, internal/repair), what it waits  *)
(* for (internal/depgate, writeengine/meta.go), what tk next picks, what   *)
(* tk doctor says of the edges (integrity/diagnose.go) and what            *)
(* tk depends --tree prints (cli/dependstree.go).                          *)
(*                                                                         *)
(* A row is a ticket file the index knows, named by a number; two rows may *)
(* have one id.  The rows change by the verbs here and by what arrives     *)
(* from another clone, whose board may lack some of the rows.              *)
(***************************************************************************)
EXTENDS OrderKeys, FiniteSets, SequencesExt

CONSTANTS
  Modes,     \* [rows, id, home, outside, known, keys, edges, moves]: the rows, the id of
             \*   each row, the ids of the home scope, the rows outside the lens, whether
             \*   the other scope is registered, whether keys are moved or edges, the
             \*   possible first edges, the bound on the steps other than those of a worker
  LongAt,    \* OrderLongThreshold
  HandKeys   \* order keys somebody may write by hand

VARIABLES mode, rows, moves
vars == <<mode, rows, moves>>

Statuses == {"none", "todo", "in_progress", "done", "cancelled"}
Terminal == {"done", "cancelled"}
Absent == [status |-> "none", order |-> Open, depends |-> {}]

Id(r) == mode.id[r]
Home(id) == id \in mode.home
(* A scope the registry does not hold has no rows. *)
Indexed(r) == rows[r].status # "none" /\ (Home(Id(r)) \/ mode.known)
TicketsByID(id) == {r \in mode.rows : Indexed(r) /\ Id(r) = id}
ScopeTickets(home) == {r \in mode.rows : Indexed(r) /\ Home(Id(r)) = home}
Duplicate(r) == Cardinality(TicketsByID(Id(r))) > 1
(* ResolveWriteRow: a verb finds one row for its id. *)
Writable(r) == Indexed(r) /\ ~Duplicate(r)

Bounded == moves < mode.moves /\ moves' = moves + 1
Write(r, row) == rows' = [rows EXCEPT ![r] = row] /\ UNCHANGED mode

-----------------------------------------------------------------------------
(* Order keys.  SortTickets sorts by (order, id); two rows of one id keep   *)
(* some order.                                                              *)

Precedes(p, q) ==
  \/ Less(rows[p].order, rows[q].order)
  \/ rows[p].order = rows[q].order /\ (Id(p) < Id(q) \/ (Id(p) = Id(q) /\ p < q))
Sorted(S) == SetToSortSeq(S, Precedes)
WithValidKey(S) == {r \in S : Valid(rows[r].order)}
Others(subject) == Sorted(WithValidKey(ScopeTickets(Home(Id(subject))) \ {subject}))

KeyAt(others, i) == IF i \in DOMAIN others THEN rows[others[i]].order ELSE Open
(* The key of the place after the i-th of the others. *)
KeyAfter(others, i) == KeyBetween(KeyAt(others, i), KeyAt(others, i + 1))
PlacedAt(subject, key) ==
  mode.keys /\ key # Refused /\ Bounded /\ Write(subject, [rows[subject] EXCEPT !.order = key])

Create(r) ==
  /\ mode.keys /\ rows[r].status = "none"
  /\ LET others == Others(r)
         key == KeyBetween(KeyAt(others, Len(others)), Open)
     IN key # Refused /\ Bounded /\ Write(r, [Absent EXCEPT !.status = "todo", !.order = key])
OrderFirst(r) == Writable(r) /\ PlacedAt(r, KeyBetween(Open, KeyAt(Others(r), 1)))
OrderLast(r) == Writable(r) /\ PlacedAt(r, KeyBetween(KeyAt(Others(r), Len(Others(r))), Open))
(* neighbourBounds: the neighbour and the row next to it on that side. *)
OrderBefore(r, n) ==
  /\ Writable(r)
  /\ \E i \in DOMAIN Others(r) : Others(r)[i] = n /\ PlacedAt(r, KeyAfter(Others(r), i - 1))
OrderAfter(r, n) ==
  /\ Writable(r)
  /\ \E i \in DOMAIN Others(r) : Others(r)[i] = n /\ PlacedAt(r, KeyAfter(Others(r), i))

(* Another clone placed the row while it knew only some of the others. *)
Arrive(r) ==
  \E known \in SUBSET WithValidKey(ScopeTickets(Home(Id(r))) \ {r}) :
    \E i \in 0..Cardinality(known) :
      /\ mode.keys /\ KeyAfter(Sorted(known), i) # Refused /\ Bounded
      /\ Write(r, [Absent EXCEPT !.status = "todo", !.order = KeyAfter(Sorted(known), i)])
HandEdit(r) ==
  \E key \in HandKeys : Indexed(r) /\ PlacedAt(r, key)

(* respace: a key for each row of "again" between the key before it, as it  *)
(* is now, and the next row that stays as it is.                            *)
Respaced(seq, again) ==
  LET Anchor(i) ==
        LET stay == {j \in DOMAIN seq : j > i /\ j \notin again}
        IN IF stay = {} THEN Open ELSE rows[seq[CHOOSE j \in stay : \A k \in stay : j <= k]].order
      key[i \in 0..Len(seq)] ==
        IF i = 0 THEN Open
        ELSE IF i \notin again THEN rows[seq[i]].order
        ELSE KeyBetween(key[i - 1], Anchor(i))
  IN [i \in DOMAIN seq |-> key[i]]
Respace(home, again) ==
  LET seq == Sorted(WithValidKey(ScopeTickets(home)))
      chosen == {i \in DOMAIN seq : seq[i] \in again}
      new == Respaced(seq, chosen)
  IN /\ mode.keys /\ chosen # {} /\ \A i \in chosen : new[i] # Refused
     /\ Bounded
     /\ rows' = [r \in mode.rows |->
                   IF \E i \in chosen : seq[i] = r
                   THEN [rows[r] EXCEPT !.order = new[CHOOSE i \in chosen : seq[i] = r]]
                   ELSE rows[r]]
     /\ UNCHANGED mode
Tied(r) ==
  \E q \in ScopeTickets(Home(Id(r))) \ {r} : Valid(rows[r].order) /\ rows[q].order = rows[r].order
Long(r) == Len(rows[r].order) > LongAt
EqualOrder == \E home \in BOOLEAN : Respace(home, {r \in mode.rows : Tied(r)})
LongOrder == \E home \in BOOLEAN : Respace(home, {r \in mode.rows : Long(r)})

-----------------------------------------------------------------------------
(* The depends gate.                                                        *)

AllTerminal(ids) == ids # {} /\ \A r \in ids : rows[r].status \in Terminal
WaitingOn(r) == {id \in rows[r].depends : ~AllTerminal(TicketsByID(id))}
NextEligible(r) == rows[r].status = "todo" /\ ~Duplicate(r) /\ WaitingOn(r) = {}

(* SelectNext: the first eligible row of the scope that passes the lens; the *)
(* walk goes past the others.  <<>> is the refusal of an empty queue.        *)
NextCandidates(home) == Sorted({r \in ScopeTickets(home) : rows[r].status = "todo"})
PassesLens(r) == r \notin mode.outside
SelectNext(home, noLens) ==
  SelectSeq(NextCandidates(home), LAMBDA r : NextEligible(r) /\ (noLens \/ PassesLens(r)))

(* A worker of a scope claims what next picks, past the lens when nothing is *)
(* left inside it, and finishes it.                                          *)
Claim(home) ==
  \E noLens \in BOOLEAN :
    /\ SelectNext(home, noLens) # <<>>
    /\ noLens => SelectNext(home, FALSE) = <<>>
    /\ LET r == Head(SelectNext(home, noLens)) IN Write(r, [rows[r] EXCEPT !.status = "in_progress"])
    /\ UNCHANGED moves
Finish(home) ==
  \E r \in ScopeTickets(home) :
    /\ rows[r].status = "in_progress" /\ UNCHANGED moves
    /\ Write(r, [rows[r] EXCEPT !.status = "done"])

(* tk mark, on an id that has one row. *)
Mark(r, status) ==
  /\ ~mode.keys /\ Writable(r) /\ rows[r].status # status
  /\ Bounded /\ Write(r, [rows[r] EXCEPT !.status = status])

(* tk meta add depends: the target is another id and has a row here. *)
AddDepends(r, id) ==
  /\ ~mode.keys /\ Writable(r)
  /\ id # Id(r) /\ TicketsByID(id) # {}
  /\ Bounded /\ Write(r, [rows[r] EXCEPT !.depends = @ \cup {id}])
RemoveDepends(r, id) ==
  /\ ~mode.keys /\ Writable(r) /\ id \in rows[r].depends
  /\ Bounded /\ Write(r, [rows[r] EXCEPT !.depends = @ \ {id}])

-----------------------------------------------------------------------------
(* What tk doctor reports of ids and edges.                                 *)

(* The edges by id: those of every row that has it. *)
Ids == {Id(r) : r \in {q \in mode.rows : Indexed(q)}}
EdgesFromID(id) == UNION {rows[r].depends : r \in TicketsByID(id)}
Nodes == {mode.id[r] : r \in mode.rows} \cup UNION mode.edges
Depends == [id \in Nodes |-> EdgesFromID(id)]
Reach(id, edges) ==
  LET reach[n \in 0..Cardinality(mode.rows)] ==
        IF n = 0 THEN edges[id] ELSE reach[n - 1] \cup UNION {edges[i] : i \in reach[n - 1]}
  IN reach[Cardinality(mode.rows)]
(* Mutant: only the edges of the scope itself are walked. *)
CycleNodesHome ==
  LET edges == [id \in Nodes |-> {i \in EdgesFromID(id) \ {id} : Home(i) = Home(id)}]
  IN {id \in Ids : id \in Reach(id, edges)}
CycleNodes ==
  LET edges == [id \in Nodes |-> EdgesFromID(id) \ {id}]
  IN {id \in Ids : id \in Reach(id, edges)}
DependsSelf == {id \in Ids : id \in EdgesFromID(id)}
Unresolved == {id \in Ids : \E i \in EdgesFromID(id) : TicketsByID(i) = {}}
DuplicateIDs == {id \in Ids : Cardinality(TicketsByID(id)) > 1}
Reported == CycleNodes \cup DependsSelf \cup Unresolved \cup DuplicateIDs

-----------------------------------------------------------------------------
(* tk depends --tree.                                                       *)

Children(id) == SetToSortSeq(EdgesFromID(id), <)
(* Mutant: the first child decides whether the others are printed as leaves. *)
FirstLeafLike(id, path) ==
  \A i \in EdgesFromID(id) : (\A j \in EdgesFromID(id) : i <= j) => i \in path \/ EdgesFromID(i) = {}
AllLeafLike(id, path) == \A i \in EdgesFromID(id) : i \in path \/ EdgesFromID(i) = {}

(* writeSubtree and writeChild: what is expanded and what is printed so far. *)
RECURSIVE WriteSubtree(_, _, _, _)
WriteSubtree(st, id, path, roots) ==
  LET here == path \cup {id}
      opened == [expanded |-> st.expanded \cup {id}, printed |-> st.printed \cup {id}]
      WriteChild(s, c) ==
        IF c \in here \/ TicketsByID(c) = {} \/ c \in s.expanded \/ c \in roots
        THEN [s EXCEPT !.printed = @ \cup {c}]
        ELSE WriteSubtree(s, c, here, roots)
  IN IF AllLeafLike(id, here)
     THEN [opened EXCEPT !.printed = @ \cup EdgesFromID(id)]
     ELSE FoldLeft(WriteChild, opened, Children(id))
Forest(roots) ==
  FoldLeft(LAMBDA st, id : WriteSubtree(st, id, {}, roots),
           [expanded |-> {}, printed |-> {}], SetToSortSeq(roots, <)).printed

(* forestRoots: in each component of the default board the ids nothing on   *)
(* the board depends on, or, when there is none, the smallest with an edge. *)
OnBoard == {id \in Ids : Home(id) /\ \E r \in TicketsByID(id) : rows[r].status \notin Terminal}
BoardEdges(id) == IF id \in OnBoard THEN EdgesFromID(id) ELSE {}
Entries == {id \in OnBoard : BoardEdges(id) # {} /\ \A i \in OnBoard : id \notin BoardEdges(i)}
Component(id) ==
  LET linked == [i \in Nodes |->
        {j \in OnBoard : i \in OnBoard /\ (j \in BoardEdges(i) \/ i \in BoardEdges(j))}]
  IN {id} \cup Reach(id, linked)
ForestRoots ==
  {id \in OnBoard :
     /\ BoardEdges(id) # {}
     /\ \/ id \in Entries
        \/ /\ Component(id) \cap Entries = {}
           /\ \A i \in Component(id) : BoardEdges(i) # {} => id <= i}

-----------------------------------------------------------------------------
Init ==
  /\ mode \in Modes /\ moves = 0
  /\ IF mode.keys THEN rows = [r \in mode.rows |-> Absent]
     ELSE \E depends \in [mode.rows -> mode.edges] :
            rows = [r \in mode.rows |->
                      [status |-> "todo", order |-> <<Half, r % Digits>>, depends |-> depends[r]]]

OrderStep ==
  \/ EqualOrder \/ LongOrder
  \/ \E r \in mode.rows :
       \/ Create(r) \/ OrderFirst(r) \/ OrderLast(r) \/ Arrive(r) \/ HandEdit(r)
       \/ \E n \in mode.rows : OrderBefore(r, n) \/ OrderAfter(r, n)
EdgeStep ==
  \E r \in mode.rows :
    \/ \E status \in {"todo", "cancelled"} : Mark(r, status)
    \/ \E id \in UNION mode.edges : AddDepends(r, id) \/ RemoveDepends(r, id)
Work(home) == ~mode.keys /\ (Claim(home) \/ Finish(home))
Next == OrderStep \/ EdgeStep \/ \E home \in BOOLEAN : Work(home)

Spec == Init /\ [][Next]_vars

(* Every scope has somebody who goes on working on what next picks. *)
FairSpec == Spec /\ \A home \in BOOLEAN : WF_vars(Work(home))

-----------------------------------------------------------------------------
(* Types; every key is one of the grammar, unless it was written by hand.   *)
TypeOK ==
  /\ mode \in Modes /\ moves \in 0..mode.moves
  /\ \A r \in mode.rows :
       /\ rows[r].status \in Statuses /\ rows[r].depends \in SUBSET UNION mode.edges
       /\ rows[r].status = "none" \/ Valid(rows[r].order) \/ rows[r].order \in HandKeys

(* tk order puts the ticket exactly where it was asked to and leaves the    *)
(* rest of the board in its order: before (after) the neighbour, with no    *)
(* other ticket between, ties included.                                     *)
Listed(S) == Sorted(WithValidKey(S))
OrderPlaces ==
  [][mode.keys => \A r, n \in mode.rows :
       LET others == Others(r)
           at == CHOOSE i \in DOMAIN others : others[i] = n
           listed == Listed(ScopeTickets(Home(Id(r))))'
       IN /\ OrderBefore(r, n) => listed = InsertAt(others, at, r)
          /\ OrderAfter(r, n) => listed = InsertAt(others, at + 1, r)
          /\ OrderFirst(r) => listed = <<r>> \o others
          /\ OrderLast(r) => listed = Append(others, r)]_vars


(* A tree shows everything its ticket depends on, across cycles and joins.  *)
TreeCovers ==
  ~mode.keys => \A id \in Ids : Forest({id}) = {id} \cup Reach(id, Depends)

(* When the workers are through, every ticket that is still todo depends,   *)
(* in some steps, on an id that tk doctor reports: next never leaves a      *)
(* board idle without a diagnosis.                                          *)
Explained(r) == ({Id(r)} \cup Reach(Id(r), Depends)) \cap Reported # {}
WorkDrains ==
  <>[](~mode.keys => \A r \in mode.rows : Indexed(r) => rows[r].status \in Terminal \/ Explained(r))

(* cli/depends.go: "a cycle cluster with no entry starts at the             *)
(* lexicographically smallest full id with outbound", so that no ticket     *)
(* with an edge is missing from the forest.  (No ticket depends on itself.) *)
ForestCovers ==
  ~mode.keys /\ DependsSelf = {} => \A id \in OnBoard : BoardEdges(id) # {} => id \in Forest(ForestRoots)
=============================================================================
