------------------------------- MODULE MCRehome -------------------------------
(***************************************************************************)
(* Two scopes with a ticket that links to the one that moves, and a ticket *)
(* in the destination that has its short id.  Apart: a git-root each.      *)
(* Together: one.  Plain: the destination is not committed by tk.          *)
(***************************************************************************)
EXTENDS Rehome

MCSymmetry == Permutations(Procs)

Path(s, k, short) == [scope |-> s, kind |-> k, short |-> short]
Cmd(v, x) == [verb |-> v, scope |-> x.scope, kind |-> x.kind, short |-> x.short, to |-> NoRoot,
              link |-> << >>, doc |-> NoDoc]
To(x, s) == [Cmd("rehome", x) EXCEPT !.to = s]
Linked(v, x, id) == [Cmd(v, x) EXCEPT !.link = id]
NewDesign(s, d) == [Cmd("create", Path(s, "design", << >>)) EXCEPT !.doc = d]

Moves(k) == Path(1, k, <<1>>)
Fork(k) == Path(2, k, <<1, 1>>)
Other == Path(1, "ticket", <<2>>)
Occupant == Path(2, "ticket", <<1>>)
Doc(d, links) == [doc |-> d, ver |-> 1, links |-> links]
FilesOf(k) ==
  [x \in {Moves(k), Other, Occupant} |->
     CASE x = Moves(k) -> Doc("a", {Id(Other)})
       [] x = Other -> Doc("b", {Id(Moves(k))})
       [] x = Occupant -> Doc("c", {Id(Moves(k)), Id(Other)})]

Base(k, roots, autos) ==
  [files |-> FilesOf(k), root |-> roots, auto |-> autos, hard |-> {}, paused |-> {}, broken |-> {}, synced |-> {},
   commands |-> {To(Moves(k), 2), Cmd("mark", Moves(k)), Cmd("mark", Fork(k)), To(Fork(k), 1)}]
Yes == <<TRUE, TRUE>>
Apart(k) == [Base(k, <<1, 2>>, Yes) EXCEPT !.synced = {1}]
(* A link to the source is added to the copy an interrupted run has left.    *)
Tied ==
  [Base("ticket", <<1, 1>>, Yes) EXCEPT
     !.commands = {To(Moves("ticket"), 2), Cmd("mark", Moves("ticket")), Linked("link", Fork("ticket"), Id(Moves("ticket")))}]
Together(k) == Base(k, <<1, 1>>, Yes)
Plain(k) == Base(k, <<1, NoRoot>>, <<TRUE, FALSE>>)
Designs ==
  [Apart("design") EXCEPT !.synced = {},
     !.commands = {To(Moves("design"), 2), NewDesign(2, "d"), Linked("link", Moves("design"), Id(Occupant)),
                   Linked("unlink", Moves("design"), Id(Other))}]
Backwards ==
  [Apart("design") EXCEPT !.files = [x \in {Path(2, "design", <<1>>)} |-> Doc("a", {})],
     !.commands = {To(Path(2, "design", <<1>>), 1), Cmd("mark", Path(2, "design", <<1>>))}]
Stopped ==
  {[Together("ticket") EXCEPT !.hard = {2}], [Together("ticket") EXCEPT !.paused = {1}],
   [Apart("ticket") EXCEPT !.broken = {Other}], [Base("ticket", <<1, 1>>, <<TRUE, FALSE>>) EXCEPT !.synced = {}]}
MCModes ==
  {Apart("ticket"), Together("ticket"), Plain("ticket"), Apart("design"), Together("design"), Plain("design"),
   Tied, Designs, Backwards} \cup Stopped
=============================================================================
