------------------------------- MODULE Custody --------------------------------
(***************************************************************************)
(* What moving documents between scopes promises: a document that was      *)
(* begun has a copy somewhere, and what somebody wrote goes away only with *)
(* the change that wrote it, or with a copy beside one that has as much,   *)
(* or when one copy of the document replaces another.                      *)
(***************************************************************************)
EXTENDS Integers

CONSTANTS Docs, Places, Versions

VARIABLE held  \* for every document its copies: sets of [at, ver]

Copies == [at : Places, ver : Versions]
Beside(S, c) == {k \in S : k.at # c.at}
Put(d, c) == held' = [held EXCEPT ![d] = Beside(@, c) \cup {c}]

Begin(d, c) == held[d] = {} /\ held' = [held EXCEPT ![d] = {c}]

(* A copy is changed where it is, or the change is taken back.               *)
Edit(d, c) ==
  /\ \E k \in held[d] : k.at = c.at /\ c.ver \in {k.ver - 1, k.ver, k.ver + 1}
  /\ Put(d, c)

(* A copy of what is there appears in another place, or replaces a copy.     *)
Copy(d, c) ==
  /\ c.ver \in {k.ver : k \in held[d]}
  /\ Put(d, c)

(* An old copy comes back in the place of one that another has as much as.   *)
Return(d, c) ==
  /\ \E k \in held[d] : k.at = c.at /\ \E b \in Beside(held[d], c) : b.ver >= k.ver
  /\ Put(d, c)

(* A copy goes away: another one has at least what it had.                   *)
Drop(d, c) ==
  /\ c \in held[d]
  /\ \E k \in Beside(held[d], c) : k.ver >= c.ver
  /\ held' = [held EXCEPT ![d] = @ \ {c}]

Init == held \in [Docs -> SUBSET Copies]
Next == \E d \in Docs, c \in Copies : Begin(d, c) \/ Edit(d, c) \/ Copy(d, c) \/ Return(d, c) \/ Drop(d, c)
Spec == Init /\ [][Next]_held
=============================================================================
