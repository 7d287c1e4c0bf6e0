---------------------------- MODULE MCSyncRoot ----------------------------
(* Instances of SyncRoot for TLC: one ticket under tk sync; a ticket beside *)
(* its tk.cue under every command.                                         *)
EXTENDS SyncRoot, TLC

CONSTANTS c1, c2, f1, f2

MCOneScope == [f \in Files |-> "s1"]

MCTicket == [f \in Files |-> "ticket"]

MCSchema == [f \in Files |-> IF f = f1 THEN "ticket" ELSE "schema"]

MCSync == {[op |-> "sync", scope |-> "s1"]}

MCAllCommands == {[op |-> "sync", scope |-> "s1"], [op |-> "sync", scope |-> "none"],
                  [op |-> "refresh", scope |-> "none"], [op |-> "push", scope |-> "none"]}

MCSymmetry == Permutations(Clones)
=============================================================================
