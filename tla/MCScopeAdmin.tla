----------------------------- MODULE MCScopeAdmin -----------------------------
(***************************************************************************)
(* Two scopes of one repository and directories beside, inside and outside *)
(* them.  Registration: scopes come and go while autoCommit is set.        *)
(* Moving: a scope is rebound, another has lost its directory.  Rebound: a *)
(* scope moves to a directory with another autoCommit.  Locks: verbs of    *)
(* several scopes.  Renaming: a scope gets a new name, again if the first  *)
(* rename dies.  Again: a forgotten name is given to another directory     *)
(* while autoCommit is set.                                                *)
(***************************************************************************)
EXTENDS ScopeAdmin

Repo == <<1>>
D1 == <<1, 1>>
D2 == <<1, 2>>
D3 == <<1, 3>>
Outside == <<2>>
Inside == <<1, 1, 1>>
MCDirs == {D1, D2, D3, Outside, Inside}
MCRepos == {Repo}

Cue(n, b) == [name |-> n, auto |-> b, field |-> FALSE]
Verb(v, n) == [NoCommand EXCEPT !.verb = v, !.name = n]
InitCmd(n, d, root) == [Verb("init", n) EXCEPT !.dir = d, !.root = root]
Import(d, root) == [Verb("import", NoName) EXCEPT !.dir = d, !.root = root]
Rebind(n, d) == [Verb("rebind", n) EXCEPT !.dir = d]
SetTo(v, n, b) == [Verb(v, n) EXCEPT !.auto = b]
Here(v, cwd) == [Verb(v, NoName) EXCEPT !.cwd = cwd, !.auto = "true"]
Two(v, n, q) == [Verb(v, n) EXCEPT !.to = q]
Sync == [Verb("sync", NoName) EXCEPT !.root = Repo]

Both == [n \in {1, 2} |-> IF n = 1 THEN [dir |-> D1, root |-> Repo] ELSE [dir |-> D2, root |-> D2]]
One == [n \in {1} |-> [dir |-> D1, root |-> Repo]]
CueOf(ds, b) == [d \in ds |-> IF d = D1 THEN Cue(1, b) ELSE IF d = D2 THEN Cue(2, b) ELSE Cue(3, b)]
Plain == [scopes |-> Both, cue |-> CueOf({D1, D2}, TRUE), gone |-> {}, broken |-> {}, paused |-> {},
          procs |-> {1, 2, 3}, commands |-> {}]

Registration ==
  [Plain EXCEPT !.scopes = One, !.cue = [d \in {D1, D2} |-> IF d = D1 THEN Cue(1, FALSE) ELSE Cue(2, TRUE)], !.procs = {1, 2},
     !.commands = {InitCmd(3, D3, D3), InitCmd(3, Inside, D3), [InitCmd(3, Outside, NoPath) EXCEPT !.auto = "true"],
                   Import(D2, D2), Import(D2, NoPath), Verb("forget", 1), SetTo("auto", 1, "true"),
                   Here("lens", D1)}]
Moving ==
  [Plain EXCEPT !.cue = [d \in {D1, D2, Outside} |-> IF d = D2 THEN Cue(2, TRUE) ELSE Cue(1, TRUE)],
     !.gone = {D2}, !.procs = {1, 2},
     !.commands = {Rebind(1, Outside), Rebind(1, D2), [Rebind(1, D1) EXCEPT !.root = D2], Verb("forget", 2),
                   InitCmd(3, D3, D3), SetTo("note", 1, "false"), SetTo("auto", 1, "true"), Two("rehome", 1, 2)}]
Locks ==
  [Plain EXCEPT !.commands = {SetTo("auto", 2, "false"), Sync, Two("rehome", 1, 2),
                              Two("rehome", 2, 1), Here("field", D2)}]
Renaming ==
  [Plain EXCEPT !.commands = {Two("rename", 1, 3), Verb("forget", 1), Import(D1, NoPath), SetTo("lens", 1, "false"),
                              InitCmd(3, D3, D3)}]
Rebound ==
  [Plain EXCEPT !.cue = [d \in {D1, D2, D3} |-> Cue(IF d = D1 THEN 1 ELSE 2, d # D3)], !.procs = {1, 2},
     !.commands = {Rebind(2, D3), SetTo("auto", 1, "false"), Sync, Two("rehome", 2, 1), SetTo("field", 2, "true")}]
TwoNames == [Plain EXCEPT !.procs = {1, 2}, !.commands = {Two("rename", 1, 3), Two("rename", 1, 4)}]
MidRebase == [Rebound EXCEPT !.paused = {Repo}]
Again ==
  [Plain EXCEPT !.cue = CueOf({D1, D2}, FALSE),
     !.commands = {SetTo("auto", 1, "true"), Verb("forget", 2), InitCmd(2, D3, D3)}]
MCModes == {Registration, Moving, Rebound, MidRebase, Locks, Renaming, TwoNames, Again}
=============================================================================
