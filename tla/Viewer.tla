-------------------------------- MODULE Viewer --------------------------------
(***************************************************************************)
(* The tkv server beside tk: requests that share one index handle under    *)
(* Server.mu, edit forms that are saved against the file revision they     *)
(* were rendered from, and the writers of the same files: other forms,     *)
(* verbs of the command line, a sync, and editors that hold no lock.       *)
(*                                                                         *)
(* A request holds Server.mu for one step at a time, so every action of    *)
(* the server that needs it is one step.  The text and the frontmatter of  *)
(* a file are the sets of edits they hold, an edit is the process that     *)
(* made it.  Left out: routing, pages, notices, the login of network mode, *)
(* what a status change, a claim or a sync does beyond rewriting its file  *)
(* (WriteEngine, Board, SyncRoot).                                         *)
(***************************************************************************)
EXTENDS Integers, Sequences, FiniteSets

CONSTANTS
  Procs,    \* requests of the server and processes of tk, each of one command
  Notes,    \* note files of a scope
  Tickets,  \* ticket files of a scope
  Designs,  \* design files of a scope
  Modes,    \* instances: the command of every process
  MaxTick   \* how far the clock of the file system goes

Files == Notes \cup Tickets \cup Designs
ASSUME KindsApart == /\ Notes \cap (Tickets \cup Designs) = {}
                     /\ Tickets \cap Designs = {}

NoProc == 0
NoHandle == 0
ASSUME NoProcIsNone == NoProc \notin Procs
ASSUME ProcsFinite == IsFiniteSet(Procs)

(* Forms and pages are the server's, editors and the line of tk note add    *)
(* are the command line's; a note has no frontmatter to mark.               *)
Verbs == {"save", "view", "mark", "delete", "pull", "add", "set", "edit", "reindex", "none"}
ASSUME ModesAssumption ==
  /\ Modes \subseteq [Procs -> [verb : Verbs, file : Files, via : {"tkv", "tk"}]]
  /\ \A m \in Modes, p \in Procs :
       /\ m[p].verb \in {"save", "view"} => m[p].via = "tkv"
       /\ m[p].verb \in {"add", "set", "edit"} => m[p].via = "tk"
       /\ m[p].verb \in {"add", "set", "delete"} => m[p].file \in Notes
       /\ m[p].verb = "mark" => m[p].file \notin Notes

VARIABLES
  mode,     \* the instance
  file,     \* the file on disk, or Missing
  clock,    \* modification time a write would get
  tables,   \* the index file has its tables
  holder,   \* holder of the scope's flock
  cur,      \* Server.cur: the installed handle
  handles,  \* every handle opened so far: [n, open]
  stage,    \* of the server: serving, draining, closed, gone
  req,      \* the processes
  raced     \* processes whose file an editor saved after they had read it

vars == <<mode, file, clock, tables, holder, cur, handles, stage, req, raced>>
disk == <<file, clock, raced>>
index == <<tables, cur, handles>>

Missing == [mtime |-> 0, fence |-> {}, text |-> {}, there |-> FALSE]
Fresh == [pc |-> "new", form |-> Missing, seen |-> Missing, pin |-> NoHandle]

Verb(p) == mode[p].verb
File(p) == mode[p].file
Tkv(p) == mode[p].via = "tkv"
At(p, where) == req[p].pc = where
Goto(p, where) == req' = [req EXCEPT ![p].pc = where]

(* A request that the server runs; Shutdown waits for these.                *)
InFlight(p) == Tkv(p) /\ req[p].pc \in {"want", "locked", "checked", "written", "leave"}

-----------------------------------------------------------------------------
(* The index handles.                                                       *)

(* Mutant: the handle closes as soon as it is replaced.                     *)
DroppedAtOnce(hs, h) == [hs EXCEPT ![h] = [n |-> @.n - 1, open |-> FALSE]]
(* dropLocked closes the handle with its last pin.                          *)
Dropped(hs, h) ==
  LET n == hs[h].n - 1 IN [hs EXCEPT ![h] = [n |-> n, open |-> @.open /\ n > 0]]
Retained(hs, h) == [hs EXCEPT ![h].n = @ + 1]

(* installLocked: the new handle takes the place of the old one.            *)
Install ==
  /\ handles' = Append(Dropped(handles, cur), [n |-> 1, open |-> TRUE])
  /\ cur' = Len(handles) + 1
  /\ tables' = TRUE

(* runRequest: a read that finds no tables opens the index again, which     *)
(* makes them, and runs once more.                                          *)
RunRequest == IF tables THEN UNCHANGED index ELSE Install

-----------------------------------------------------------------------------
(* Revisions.                                                               *)

Tick == clock' \in {clock, clock + 1} /\ clock' <= MaxTick
Revision(fence, text) == [mtime |-> clock', fence |-> fence, text |-> text, there |-> TRUE]

(* Mutant: the key has the modification time only.                          *)
SameKeyByTime(a, b) == a.mtime = b.mtime /\ a.there = b.there
(* ClobberKey: the modification time and a hash of the bytes.               *)
SameKey(a, b) == a = b

(* Splice keeps the fence that it has just read; a form holds the text it   *)
(* was rendered with and what was typed.                                    *)
Splice(p) == Revision(req[p].seen.fence, req[p].form.text \cup {p})
(* mark, claim, meta and order of a ticket, mark and produces of a design.  *)
Rewrite(p) == Revision(req[p].seen.fence \cup {p}, req[p].seen.text)
(* The merge of a sync brings text of another clone.                        *)
Integrate(p) == Revision(req[p].seen.fence, req[p].seen.text \cup {p})
AppendLine(p) == Revision({}, req[p].seen.text \cup {p})
SetNote(p) == Revision({}, IF Verb(p) = "save" THEN req[p].form.text \cup {p} ELSE {p})

Written(p) ==
  CASE Verb(p) = "mark" -> Rewrite(p)
    [] Verb(p) = "pull" -> Integrate(p)
    [] Verb(p) = "add" -> AppendLine(p)
    [] Verb(p) = "delete" -> Missing
    [] Verb(p) = "set" -> SetNote(p)
    [] Verb(p) = "save" -> IF File(p) \in Notes THEN SetNote(p) ELSE Splice(p)

-----------------------------------------------------------------------------
(* Requests.                                                                *)

(* The edit page of a ticket or a design needs the file, that of a note     *)
(* also stands for a note that is not there yet.                            *)
TicketForm(f) == f \in Tickets /\ file[f].there
DesignForm(f) == f \in Designs /\ file[f].there
NoteForm(f) == f \in Notes

(* A GET under Server.mu; the form keeps the revision that it shows.        *)
Render(p) ==
  /\ At(p, "new") /\ Tkv(p) /\ Verb(p) \in {"save", "view"}
  /\ stage = "serving"
  /\ RunRequest
  /\ \/ /\ Verb(p) = "save"
        /\ TicketForm(File(p)) \/ DesignForm(File(p)) \/ NoteForm(File(p))
        /\ req' = [req EXCEPT ![p].pc = "form", ![p].form = file[File(p)]]
     \/ Goto(p, "done")  \* a page without a form, or an error
  /\ UNCHANGED <<mode, disk, holder, stage>>

(* The POSTs of a page; a save comes from its form.                         *)
PostTicket(p) == File(p) \in Tickets /\ (At(p, "form") \/ (At(p, "new") /\ Verb(p) = "mark"))
PostDesign(p) == File(p) \in Designs /\ (At(p, "form") \/ (At(p, "new") /\ Verb(p) = "mark"))
PostNote(p) == File(p) \in Notes /\ (At(p, "form") \/ (At(p, "new") /\ Verb(p) = "delete"))
PostSync(p) == At(p, "new") /\ Verb(p) = "pull"

(* withIndexPin pins the installed handle, then gives Server.mu up.         *)
BeginWrite(p) ==
  /\ Tkv(p)
  /\ PostTicket(p) \/ PostDesign(p) \/ PostNote(p) \/ PostSync(p)
  /\ stage = "serving"
  /\ handles' = Retained(handles, cur)
  /\ req' = [req EXCEPT ![p].pc = "want", ![p].pin = cur]
  /\ UNCHANGED <<mode, disk, tables, cur, holder, stage>>

(* The server takes no request any more.                                    *)
TurnedAway(p) ==
  /\ Tkv(p) /\ req[p].pc \in {"new", "form"}
  /\ stage # "serving"
  /\ Goto(p, "done")
  /\ UNCHANGED <<mode, disk, index, holder, stage>>

(* A verb of the command line.                                              *)
Start(p) ==
  /\ At(p, "new") /\ ~Tkv(p) /\ Verb(p) \notin {"reindex", "none"}
  /\ Verb(p) = "edit" => File(p) \in Notes
  /\ Goto(p, "want")
  /\ UNCHANGED <<mode, disk, index, holder, stage>>

Take(p) ==
  /\ holder = NoProc
  /\ \/ At(p, "want") /\ Goto(p, "locked")
     \/ At(p, "closing") /\ Goto(p, "finishing")
  /\ holder' = p
  /\ UNCHANGED <<mode, disk, index, stage>>

After(p) == IF Tkv(p) THEN "leave" ELSE "done"

(* The flock is held and nothing is written: the configuration is unusable  *)
(* or held, the repository is in a rebase, the row is unknown, shared or    *)
(* quarantined, the index fails, the file is not the one of the form.       *)
Refuse(p) ==
  /\ At(p, "locked") /\ Verb(p) # "edit"
  /\ holder' = NoProc
  /\ Goto(p, After(p))
  /\ UNCHANGED <<mode, disk, index, stage>>

Clobbers(p) == Verb(p) = "save" /\ ~SameKey(file[File(p)], req[p].form)

(* The file is read under the flock.  A ticket is found through the index,  *)
(* a design and a note by their names on disk; a note may be missing.       *)
TicketFound(p) == File(p) \in Tickets => tables /\ file[File(p)].there
DesignFound(p) == File(p) \in Designs => file[File(p)].there
Check(p) ==
  /\ At(p, "locked") /\ Verb(p) # "edit"
  /\ TicketFound(p) /\ DesignFound(p)
  /\ ~Clobbers(p)
  /\ req' = [req EXCEPT ![p].pc = "checked", ![p].seen = file[File(p)]]
  /\ UNCHANGED <<mode, disk, index, holder, stage>>

(* atomicfile.Write and AtomicWrite: a rename, or for delete an unlink.     *)
Write(p) ==
  /\ At(p, "checked")
  /\ Tick
  /\ file' = [file EXCEPT ![File(p)] = Written(p)]
  /\ raced' = raced \ {p}
  /\ Goto(p, "written")
  /\ UNCHANGED <<mode, index, holder, stage>>

(* SyncPaths brings the row up to date, or fails; the flock goes.           *)
Settle(p) ==
  /\ At(p, "written")
  /\ holder' = NoProc
  /\ Goto(p, After(p))
  /\ UNCHANGED <<mode, disk, index, stage>>

(* releaseHandle, when the handler returns.                                 *)
ReleaseHandle(p) ==
  /\ At(p, "leave")
  /\ handles' = Dropped(handles, req[p].pin)
  /\ req' = [req EXCEPT ![p].pc = "done", ![p].pin = NoHandle]
  /\ UNCHANGED <<mode, disk, tables, cur, holder, stage>>

-----------------------------------------------------------------------------
(* Editors.                                                                 *)

(* Mutant: the flock is held while the editor runs.                         *)
PrepareKeepingLock(p) ==
  /\ Verb(p) = "edit"
  /\ \/ At(p, "locked")
     \/ At(p, "new") /\ File(p) \notin Notes
  /\ req' = [req EXCEPT ![p].pc = "editor", ![p].form = file[File(p)]]
  /\ UNCHANGED <<mode, disk, index, holder, stage>>

(* PrepareEdit makes notes/ under the flock and gives it up; tk edit and tk *)
(* design edit take no lock at all.  The editor opens the file.             *)
Prepare(p) ==
  /\ Verb(p) = "edit"
  /\ \/ At(p, "locked") /\ holder' = NoProc
     \/ At(p, "new") /\ File(p) \notin Notes /\ UNCHANGED holder
  /\ req' = [req EXCEPT ![p].pc = "editor", ![p].form = file[File(p)]]
  /\ UNCHANGED <<mode, disk, index, stage>>

EditorDone(p) == Goto(p, IF File(p) \in Notes THEN "closing" ELSE "done")

(* The editor saves what it opened and an edit, or an empty file.           *)
EditorSave(p) ==
  /\ At(p, "editor")
  /\ Tick
  /\ \E text \in {req[p].form.text \cup {p}, {}} :
        file' = [file EXCEPT ![File(p)] = Revision(req[p].form.fence, text)]
  /\ raced' = raced \cup {q \in Procs \ {p} : File(q) = File(p) /\ req[q].pc \in {"checked", "removing"}}
  /\ EditorDone(p)
  /\ UNCHANGED <<mode, index, holder, stage>>

EditorQuit(p) ==
  /\ At(p, "editor")
  /\ EditorDone(p)
  /\ UNCHANGED <<mode, disk, index, holder, stage>>

(* FinishEdit and cleanupEmpty: a file of size zero goes.                   *)
Empty(r) == r.there /\ r.text = {} /\ r.fence = {}
FinishEdit(p) ==
  /\ At(p, "finishing")
  /\ IF Empty(file[File(p)])
     THEN Goto(p, "removing") /\ UNCHANGED holder
     ELSE Goto(p, "done") /\ holder' = NoProc
  /\ UNCHANGED <<mode, disk, index, stage>>

RemoveEmpty(p) ==
  /\ At(p, "removing")
  /\ file' = [file EXCEPT ![File(p)] = Missing]
  /\ raced' = raced \ {p}
  /\ holder' = NoProc
  /\ Goto(p, "done")
  /\ UNCHANGED <<mode, clock, index, stage>>

-----------------------------------------------------------------------------
(* Reindex and the end of the server.                                       *)

(* postDoctorReindex waits for nobody: pins on the installed handle refuse. *)
DoctorReindex(p) ==
  /\ At(p, "new") /\ Tkv(p) /\ Verb(p) = "reindex"
  /\ stage = "serving"
  /\ IF handles[cur].n > 1 THEN UNCHANGED index ELSE Install
  /\ Goto(p, "done")
  /\ UNCHANGED <<mode, disk, holder, stage>>

(* tk reindex, another process: the tables are dropped, then made again.    *)
DropTables(p) ==
  /\ At(p, "new") /\ ~Tkv(p) /\ Verb(p) = "reindex"
  /\ tables' = FALSE
  /\ Goto(p, "dropped")
  /\ UNCHANGED <<mode, disk, cur, handles, holder, stage>>

MakeTables(p) ==
  /\ At(p, "dropped")
  /\ tables' = TRUE
  /\ Goto(p, "done")
  /\ UNCHANGED <<mode, disk, cur, handles, holder, stage>>

(* A signal: the listener closes, Shutdown waits for the requests.          *)
Stop ==
  /\ stage = "serving"
  /\ stage' = "draining"
  /\ UNCHANGED <<mode, disk, index, holder, req>>

(* Server.Close, after the drain or at once when Serve has failed.          *)
Close ==
  /\ \/ stage = "draining" /\ \A p \in Procs : ~InFlight(p)
     \/ stage = "serving"
  /\ stage' = "closed"
  /\ handles' = Dropped(handles, cur)
  /\ cur' = NoHandle
  /\ UNCHANGED <<mode, disk, tables, holder, req>>

(* The process ends, and with it the requests that still run.               *)
Exit ==
  /\ stage = "closed"
  /\ stage' = "gone"
  /\ handles' = [h \in DOMAIN handles |-> [n |-> 0, open |-> FALSE]]
  /\ req' = [p \in Procs |-> IF InFlight(p) THEN [req[p] EXCEPT !.pc = "done", !.pin = NoHandle] ELSE req[p]]
  /\ holder' = IF holder # NoProc /\ InFlight(holder) THEN NoProc ELSE holder
  /\ UNCHANGED <<mode, disk, tables, cur>>

-----------------------------------------------------------------------------
Init ==
  /\ mode \in Modes
  /\ clock = 0
  /\ file \in [Files -> {Missing, [Missing EXCEPT !.there = TRUE, !.text = {NoProc}]}]
  /\ \A f \in Tickets \cup Designs : file[f].there
  /\ tables = TRUE
  /\ holder = NoProc
  /\ cur = 1
  /\ handles = <<[n |-> 1, open |-> TRUE]>>
  /\ stage = "serving"
  /\ req = [p \in Procs |-> Fresh]
  /\ raced = {}

(* Steps that a running process goes on to take.                            *)
Advance(p) ==
  \/ Take(p) \/ Refuse(p) \/ Check(p) \/ Write(p) \/ Settle(p) \/ ReleaseHandle(p)
  \/ Prepare(p) \/ FinishEdit(p) \/ RemoveEmpty(p) \/ MakeTables(p)

(* Steps that a person starts.                                              *)
Asked(p) ==
  \/ Render(p) \/ BeginWrite(p) \/ TurnedAway(p) \/ Start(p) \/ EditorSave(p) \/ EditorQuit(p)
  \/ DoctorReindex(p) \/ DropTables(p)

Next == (\E p \in Procs : Advance(p) \/ Asked(p)) \/ Stop \/ Close \/ Exit

Spec == Init /\ [][Next]_vars

(* A process that can go on does; no person has to come back to a form or   *)
(* an editor, and Close after a failed Serve need not happen.               *)
FairSpec ==
  /\ Spec
  /\ \A p \in Procs : WF_vars(Advance(p))
  /\ WF_vars(stage = "draining" /\ Close)
  /\ WF_vars(Exit)

-----------------------------------------------------------------------------
(* Properties.                                                              *)

Edits(r) == r.fence \cup r.text

(* An edit that is in a file leaves it only on purpose: tk note set and the *)
(* two deletes replace a note, an editor saves what it has opened.  Whoever *)
(* writes over a save that an editor made after they had read the file is   *)
(* excused: the editor takes no lock.  A form is saved only over the        *)
(* revision it was rendered from, and FinishEdit never removes a note that  *)
(* somebody has filled.                                                     *)
NoEditLost ==
  [][\A f \in Files : Edits(file[f]) \subseteq Edits(file'[f])
       \/ \E p \in Procs : /\ File(p) = f /\ req'[p].pc # req[p].pc
                           /\ \/ Verb(p) \in {"set", "delete"}
                              \/ At(p, "editor")
                              \/ p \in raced]_vars

(* The open handles are the installed one and those that a running write    *)
(* has pinned: a write never works on a closed connection, whatever reopens *)
(* or rebuilds the index meanwhile, and no handle is left open behind it.   *)
HandlesSound ==
  {h \in DOMAIN handles : handles[h].open} = ({cur} \cup {req[p].pin : p \in Procs}) \ {NoHandle}

(* A server that is told to stop ends with every connection closed, however *)
(* long somebody sits in an editor or on a form.                            *)
StopDrains ==
  stage = "draining" ~> (stage = "gone" /\ \A h \in DOMAIN handles : ~handles[h].open)
===============================================================================
