-------------------------- MODULE MCWriteEngine --------------------------
(* Instances of WriteEngine for TLC. *)
EXTENDS WriteEngine, TLC

Command(op, ids, to) ==
    [op |-> op, ids |-> ids, to |-> to, hold |-> "off", auto |-> TRUE]

Mark(ids, to) == Command("mark", ids, to)
Claim(t) == Command("claim", {t}, "in-progress")
NextClaim == Command("next", {}, "in-progress")
Create(to) == Command("create", {}, to)
Sync == Command("sync", {}, "todo")
Repair == Command("repair", {}, "todo")
Hold(h) == [Command("hold", {}, "todo") EXCEPT !.hold = h]
AutoCommit(b) == [Command("auto", {}, "todo") EXCEPT !.auto = b]

\* Agents that compete for work while someone closes and reopens tickets.
ClaimCommands ==
    {NextClaim, Mark(Tickets, "in-progress"), Sync, Repair}
        \cup {Mark({t}, s) : t \in Tickets, s \in {"todo", "done"}}
        \cup {Claim(t) : t \in Tickets}

\* Configuration changes around the writes, and every kind of lock use.
ConfigCommands ==
    {NextClaim, Create("todo"), Sync, Repair, Hold("hard"), AutoCommit(FALSE)}
        \cup {Mark({t}, "in-progress") : t \in Tickets}

Symmetry == Permutations(Procs) \cup Permutations(Tickets)
=============================================================================
