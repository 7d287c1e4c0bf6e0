------------------------- MODULE MCFrontmatterMerge -------------------------
(* The instance of FrontmatterMerge for TLC: two ids, two instants and a     *)
(* missing one, two scalar values, one tag, two author dates, three hashes.  *)
EXTENDS FrontmatterMerge, TLC

CONSTANTS todo, active, done, odd, none, broken

MCIds == 1..2

MCInstants == 0..1

MCStarts == {none, New(1, 1, todo, 0, 0), [New(1, 0, done, 0, 0) EXCEPT !.tags = Tags]}
=============================================================================
