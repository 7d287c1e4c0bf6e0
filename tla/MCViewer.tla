------------------------------- MODULE MCViewer -------------------------------
(***************************************************************************)
(* Three processes on one note or one ticket: forms against forms, against *)
(* verbs of the command line and a sync, against editors, and against      *)
(* whoever rebuilds the index.                                             *)
(***************************************************************************)
EXTENDS Viewer

Note == "note"
Ticket == "ticket"
Design == "design"
Web(v, f) == [verb |-> v, file |-> f, via |-> "tkv"]
Tk(v, f) == [verb |-> v, file |-> f, via |-> "tk"]

Idle == Tk("none", Note)

NoteForms == <<Web("save", Note), Web("save", Note), Tk("add", Note), Idle>>
NoteReplaced == <<Web("save", Note), Tk("set", Note), Web("delete", Note), Idle>>
NoteEditor == <<Web("save", Note), Tk("edit", Note), Tk("add", Note), Idle>>
NoteEditors == <<Tk("edit", Note), Tk("edit", Note), Tk("delete", Note), Idle>>
TicketForms == <<Web("save", Ticket), Web("mark", Ticket), Tk("mark", Ticket), Idle>>
DesignPull == <<Web("save", Design), Tk("edit", Design), Web("pull", Design), Idle>>
Rebuilds == <<Web("mark", Ticket), Web("reindex", Ticket), Tk("reindex", Ticket), Web("view", Ticket)>>
FormRebuilt == <<Web("save", Ticket), Web("mark", Design), Tk("reindex", Ticket), Idle>>
TicketEditor == <<Web("pull", Ticket), Tk("edit", Ticket), Tk("mark", Design), Web("save", Design)>>
MCModes == {NoteForms, NoteReplaced, NoteEditor, NoteEditors, TicketForms, DesignPull, Rebuilds, FormRebuilt, TicketEditor}
===============================================================================
