------------------------------ MODULE MCRepair ------------------------------
(***************************************************************************)
(* Small directories for TLC: three documents, each in one of a few shapes *)
(* (or absent), so that ids collide between tickets, between a ticket and  *)
(* a design, and with stray files of other scopes; files refer to each     *)
(* other, drift from the archive layout, do not parse, or lie there twice  *)
(* after a layout move that was interrupted.                               *)
(***************************************************************************)
EXTENDS Repair

MCScope == 2
MCCreated == <<1, 2, 2>>
MCHeld == {<<3, <<1>>>>}
MCAlphabet == 1..2

A == <<2, <<1>>>>    \* an id of the scope
B == <<2, <<2>>>>
AA == <<2, <<1, 1>>>>  \* one that cannot be extended
XA == <<1, <<1>>>>   \* ids of another scope
XB == <<1, <<2>>>>
YA == <<3, <<1>>>>   \* an id that scope still owns

File(dir, name, slug, doc, id, refs, ok, terminal) ==
  <<<<dir, name, slug>>, [doc |-> doc, id |-> id, refs |-> refs, ok |-> ok, terminal |-> terminal]>>

First ==
  { {},
    {File(Root, A, 1, 1, A, {}, TRUE, FALSE)},
    {File(Root, A, 1, 1, A, {B}, TRUE, TRUE)},
    {File(Root, A, 1, 1, A, {}, TRUE, TRUE), File(Archive, A, 1, 1, A, {}, TRUE, TRUE)},
    {File(Design, A, 1, 1, A, {B}, TRUE, FALSE)},
    {File(Root, XA, 1, 1, XA, {A}, TRUE, FALSE)},
    {File(Root, YA, 1, 1, YA, {}, TRUE, FALSE)} }

Second ==
  { {},
    {File(Archive, A, 1, 2, A, {}, TRUE, TRUE)},
    {File(Root, A, 2, 2, A, {A}, TRUE, FALSE)},
    {File(Root, A, 2, 2, A, {XA}, FALSE, FALSE)},
    {File(Design, A, 2, 2, A, {}, TRUE, FALSE)},
    {File(Root, XA, 2, 2, XB, {XA}, TRUE, TRUE)},
    {File(Root, XB, 2, 2, XB, {XA, A}, TRUE, FALSE)},
    {File(Root, AA, 3, 2, AA, {}, TRUE, FALSE)} }

Third ==
  { {},
    {File(Root, B, 3, 3, B, {A, XA}, TRUE, FALSE)},
    {File(Root, A, 3, 3, A, {A}, TRUE, TRUE)},
    {File(Root, AA, 2, 3, AA, {}, TRUE, FALSE)},
    {File(Design, XB, 3, 3, XB, {XA, XB}, TRUE, FALSE)},
    {File(Root, XB, 2, 3, A, {XB}, TRUE, FALSE)},
    {File(Root, XA, 3, 3, XA, {YA}, FALSE, FALSE)} }

Directory(files) ==
  [p \in {f[1] : f \in files} |-> (CHOOSE f \in files : f[1] = p)[2]]
MCWorlds ==
  {Directory(fs) : fs \in {gs \in {a \cup b \cup c : a \in First, b \in Second, c \in Third} :
     gs # {} /\ \A f, g \in gs : f[1] = g[1] => f = g}}
=============================================================================
