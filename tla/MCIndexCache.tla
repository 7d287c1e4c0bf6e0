---------------------------- MODULE MCIndexCache ----------------------------
(***************************************************************************)
(* Two passes at a time over a file that never changes twice in one tick;  *)
(* one pass at a time over a file that does; one pass and reads that fail  *)
(* while a ticket moves between the root and archive/, or over a design    *)
(* document.                                                               *)
(***************************************************************************)
EXTENDS IndexCache

CONSTANTS r1, r2
Quiet == [dirs |-> <<"root">>, readers |-> {r1}, sameTick |-> FALSE,
          faults |-> FALSE, writes |-> 2, until |-> 2]
MCModes ==
  {[Quiet EXCEPT !.readers = {r1, r2}],
   [Quiet EXCEPT !.sameTick = TRUE, !.writes = 3, !.until = 3],
   [Quiet EXCEPT !.dirs = <<"root", "archive">>, !.faults = TRUE, !.writes = 3],
   [Quiet EXCEPT !.dirs = <<"root", "design">>, !.faults = TRUE, !.until = 3]}
=============================================================================
