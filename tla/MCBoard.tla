------------------------------- MODULE MCBoard -------------------------------
(***************************************************************************)
(* Three tickets whose keys move, in an alphabet of three digits and four  *)
(* heads; three tickets of two scopes with every choice of edges among     *)
(* them and to a missing ticket; the same with the other scope forgotten;  *)
(* two files of one id.  MCForest: four tickets with every choice of edges.*)
(***************************************************************************)
EXTENDS Board

Gone == 9
Edges == [rows |-> 1..3, id |-> <<1, 2, 3>>, home |-> {1, 2, Gone}, outside |-> {1}, known |-> TRUE,
          keys |-> FALSE, edges |-> SUBSET {1, 2, 3}, moves |-> 1]
MCModes ==
  {[Edges EXCEPT !.keys = TRUE, !.home = {1, 2, 3}, !.edges = {{}}, !.moves = 5],
   Edges,
   [Edges EXCEPT !.rows = 1..2, !.id = <<1, 2>>, !.edges = SUBSET {1, 2, 3, Gone}],
   [Edges EXCEPT !.rows = 1..3, !.known = FALSE, !.moves = 0],
   [Edges EXCEPT !.id = <<1, 1, 2>>, !.edges = SUBSET {1, 2}]}
MCForest == {[Edges EXCEPT !.rows = 1..4, !.id = <<1, 2, 3, 4>>, !.home = 1..4, !.moves = 0,
                           !.edges = SUBSET (1..4)]}
MCHandKeys == {<<>>, <<Half>>, SmallestInteger}
=============================================================================
