----------------------------- MODULE ViewerProofs -----------------------------
(***************************************************************************)
(* Proofs about Viewer, for any number of requests, processes and files.   *)
(*                                                                         *)
(* Two arguments, on the types.  A handle's count is the number of writes  *)
(* that pin it, and one more while it is installed: so it is open exactly  *)
(* as long as somebody may use it.  And whoever is between the check under *)
(* the flock and the write holds the flock: so the file is still the one   *)
(* that was checked, unless an editor, which takes no lock, has saved it.  *)
(***************************************************************************)
EXTENDS Viewer, FiniteSetTheorems, SequenceTheorems, TLAPS

-----------------------------------------------------------------------------
(* The inductive invariant. *)

Revisions ==
  [mtime : Nat, fence : SUBSET (Procs \cup {NoProc}), text : SUBSET (Procs \cup {NoProc}),
   there : BOOLEAN]
Pcs == {"new", "form", "want", "locked", "checked", "written", "leave", "done",
        "editor", "closing", "finishing", "removing", "dropped"}
Requests == [pc : Pcs, form : Revisions, seen : Revisions, pin : Nat]

\* Every variable has its type, and a process is only where its command goes.
Typed ==
  /\ mode \in Modes
  /\ file \in [Files -> Revisions] /\ clock \in Nat /\ tables \in BOOLEAN
  /\ holder \in Procs \cup {NoProc}
  /\ stage \in {"serving", "draining", "closed", "gone"}
  /\ req \in [Procs -> Requests]
  /\ raced \subseteq Procs

Writing == {"want", "locked", "checked", "written"}
CommandAt(p, l) ==
  /\ l \in Writing => Verb(p) \in {"save", "mark", "delete", "pull", "add", "set", "edit"}
  /\ l \in {"checked", "written", "leave"} => Verb(p) # "edit"
  /\ l = "leave" => Tkv(p)
  /\ l = "form" => Verb(p) = "save"
Commands == \A p \in Procs : CommandAt(p, req[p].pc)

Handle == [n : Nat, open : BOOLEAN]

\* A handle has one count for every pin and one for being installed.
Pins(h) == {p \in Procs : req[p].pin = h}
Count(h) == Cardinality(Pins(h)) + IF cur = h THEN 1 ELSE 0
Counted ==
  /\ handles \in Seq(Handle)
  /\ cur \in 0..Len(handles)
  /\ \A p \in Procs : req[p].pin \in 0..Len(handles)
  /\ \A h \in 1..Len(handles) : handles[h].n = Count(h) /\ (handles[h].open <=> Count(h) > 0)

\* The installed handle goes with the server, a pin with its request.
Pinned ==
  /\ cur = NoHandle <=> stage \in {"closed", "gone"}
  /\ \A p \in Procs : req[p].pin # NoHandle <=> InFlight(p)

HandleInv == Typed /\ Commands /\ Counted /\ Pinned

\* Whoever works under the flock holds it.
Locked == {"locked", "checked", "written", "finishing", "removing"}
Exclusive == \A p \in Procs : req[p].pc \in Locked => holder = p

\* What was read under the flock is the file until it is written, and the form
\* that it was rendered from; what is removed as empty is empty.
CurrentAt(p) ==
  /\ (At(p, "checked") /\ p \notin raced) => req[p].seen = file[File(p)]
  /\ (At(p, "checked") /\ Verb(p) = "save") => req[p].seen = req[p].form
  /\ (At(p, "removing") /\ p \notin raced) => Empty(file[File(p)])
Current == \A p \in Procs : CurrentAt(p)

\* A note has no frontmatter, on disk or in an editor.
PlainAt(p) == File(p) \in Notes => (req[p].form.fence = {} /\ req[p].seen.fence = {})
NotesPlain == (\A f \in Notes : file[f].fence = {}) /\ \A p \in Procs : PlainAt(p)

FileInv == HandleInv /\ Exclusive /\ Current /\ NotesPlain

-----------------------------------------------------------------------------
(* Types and commands. *)

\* The command of a process.
LEMMA ModeType ==
    ASSUME Typed, NEW p \in Procs
    PROVE  /\ Verb(p) \in Verbs /\ File(p) \in Files
           /\ Verb(p) \in {"save", "view"} => Tkv(p)
           /\ Verb(p) \in {"add", "set", "edit"} => ~Tkv(p)
           /\ Verb(p) \in {"add", "set", "delete"} => File(p) \in Notes
           /\ Verb(p) = "mark" => File(p) \notin Notes
  BY ModesAssumption DEF Typed, Verb, File, Tkv

\* Revisions that a write makes.
LEMMA RevisionType ==
    ASSUME NEW F \in SUBSET (Procs \cup {NoProc}), NEW T \in SUBSET (Procs \cup {NoProc}), clock' \in Nat
    PROVE  Revision(F, T) \in Revisions /\ Revision(F, T).fence = F /\ Revision(F, T).text = T
  BY DEF Revision, Revisions

LEMMA MissingType == Missing \in Revisions /\ Missing.fence = {} /\ Missing.text = {}
  BY DEF Missing, Revisions

\* A step of a request that changes nothing but where it is.
LEMMA GotoType ==
    ASSUME Typed, NEW p \in Procs, NEW l \in Pcs, Goto(p, l)
    PROVE  /\ req' \in [Procs -> Requests] /\ req'[p].pc = l
           /\ \A q \in Procs : /\ req'[q].form = req[q].form /\ req'[q].seen = req[q].seen
                               /\ req'[q].pin = req[q].pin
           /\ \A q \in Procs \ {p} : req'[q] = req[q]
<1>1. req[p] \in Requests
  BY DEF Typed
<1>2. [req[p] EXCEPT !.pc = l] \in Requests
  BY <1>1 DEF Requests
<1> QED
  BY <1>1, <1>2 DEF Typed, Goto, Requests

LEMMA TickType ==
    ASSUME Typed, Tick
    PROVE  clock' \in Nat
  BY DEF Typed, Tick

\* A step that changes the record of one process: where it is, and one more field.
Moves(p, l) ==
  /\ \A q \in Procs \ {p} : req'[q] = req[q]
  /\ req' \in [Procs -> Requests] /\ req'[p].pc = l

LEMMA MovesForm ==
    ASSUME Typed, NEW p \in Procs, NEW l \in Pcs, NEW r \in Revisions,
           req' = [req EXCEPT ![p].pc = l, ![p].form = r]
    PROVE  /\ Moves(p, l) /\ req'[p].form = r
           /\ req'[p].seen = req[p].seen /\ req'[p].pin = req[p].pin
<1>1. req[p] \in Requests
  BY DEF Typed
<1>2. [req[p] EXCEPT !.pc = l, !.form = r] \in Requests
  BY <1>1 DEF Requests
<1> QED
  BY <1>1, <1>2 DEF Typed, Moves, Requests

LEMMA MovesSeen ==
    ASSUME Typed, NEW p \in Procs, NEW l \in Pcs, NEW r \in Revisions,
           req' = [req EXCEPT ![p].pc = l, ![p].seen = r]
    PROVE  /\ Moves(p, l) /\ req'[p].seen = r
           /\ req'[p].form = req[p].form /\ req'[p].pin = req[p].pin
<1>1. req[p] \in Requests
  BY DEF Typed
<1>2. [req[p] EXCEPT !.pc = l, !.seen = r] \in Requests
  BY <1>1 DEF Requests
<1> QED
  BY <1>1, <1>2 DEF Typed, Moves, Requests

LEMMA MovesPin ==
    ASSUME Typed, NEW p \in Procs, NEW l \in Pcs, NEW h \in Nat,
           req' = [req EXCEPT ![p].pc = l, ![p].pin = h]
    PROVE  /\ Moves(p, l) /\ req'[p].pin = h
           /\ req'[p].form = req[p].form /\ req'[p].seen = req[p].seen
<1>1. req[p] \in Requests
  BY DEF Typed
<1>2. [req[p] EXCEPT !.pc = l, !.pin = h] \in Requests
  BY <1>1 DEF Requests
<1> QED
  BY <1>1, <1>2 DEF Typed, Moves, Requests

\* The steps of a process that only move it on.
Plainly(p) ==
  \/ TurnedAway(p) \/ Start(p) \/ Take(p) \/ Refuse(p) \/ Write(p) \/ Settle(p)
  \/ EditorSave(p) \/ EditorQuit(p) \/ FinishEdit(p) \/ RemoveEmpty(p)
  \/ DoctorReindex(p) \/ DropTables(p) \/ MakeTables(p)
  \/ Render(p) /\ Goto(p, "done")

LEMMA PlainlyMoves ==
    ASSUME Typed, NEW p \in Procs, Plainly(p)
    PROVE  \E l \in Pcs \ {"new", "form", "checked", "editor"} :
             /\ Goto(p, l)
             /\ l = "leave" => /\ Tkv(p) /\ req[p].pc \in {"locked", "written"}
                               /\ At(p, "locked") => Verb(p) # "edit"
             /\ l = "want" => ~Tkv(p) /\ Verb(p) \notin {"reindex", "none"}
             /\ l = "locked" => At(p, "want")
             /\ l = "written" => At(p, "checked")
<1> USE DEF Pcs
<1>1. CASE TurnedAway(p) \/ DoctorReindex(p) \/ DropTables(p) \/ MakeTables(p) \/ RemoveEmpty(p)
           \/ (Render(p) /\ Goto(p, "done"))
  BY <1>1 DEF TurnedAway, DoctorReindex, DropTables, MakeTables, RemoveEmpty
<1>2. CASE Start(p) \/ Take(p) \/ FinishEdit(p) \/ Write(p)
  BY <1>2 DEF Start, Take, FinishEdit, Write
<1>3. CASE Refuse(p) \/ Settle(p)
  <2>1. After(p) \in {"leave", "done"} /\ (After(p) = "leave" => Tkv(p)) /\ Goto(p, After(p))
    BY <1>3 DEF Refuse, Settle, After
  <2>2. req[p].pc \in {"locked", "written"} /\ (At(p, "locked") => Verb(p) # "edit")
    BY <1>3 DEF Refuse, Settle, At
  <2> QED
    BY <2>1, <2>2
<1>4. CASE EditorSave(p) \/ EditorQuit(p)
  BY <1>4 DEF EditorSave, EditorQuit, EditorDone
<1> QED
  BY <1>1, <1>2, <1>3, <1>4 DEF Plainly

\* What a process writes is a revision.
LEMMA WrittenType ==
    ASSUME Typed, Commands, NEW p \in Procs, Write(p)
    PROVE  Written(p) \in Revisions
<1>1. clock' \in Nat
  BY TickType DEF Write
<1>2. Verb(p) \in {"save", "mark", "delete", "pull", "add", "set"}
  BY DEF Commands, CommandAt, Write, At, Writing
<1>3. req[p].seen \in Revisions /\ req[p].form \in Revisions
  BY DEF Typed, Requests
<1>4. /\ req[p].seen.fence \subseteq Procs \cup {NoProc} /\ req[p].seen.text \subseteq Procs \cup {NoProc}
      /\ req[p].form.text \subseteq Procs \cup {NoProc}
  BY <1>3 DEF Revisions
<1>5. /\ Rewrite(p) \in Revisions /\ Integrate(p) \in Revisions /\ AppendLine(p) \in Revisions
      /\ SetNote(p) \in Revisions /\ Splice(p) \in Revisions
  BY <1>1, <1>4, RevisionType DEF Rewrite, Integrate, AppendLine, SetNote, Splice
<1> QED
  BY <1>2, <1>5, MissingType DEF Written

\* Every step keeps the types.
LEMMA TypedStep ==
    ASSUME Typed, Commands, Counted, [Next]_vars
    PROVE  Typed'
<1>0. /\ mode \in Modes /\ file \in [Files -> Revisions] /\ clock \in Nat /\ tables \in BOOLEAN
      /\ holder \in Procs \cup {NoProc} /\ req \in [Procs -> Requests] /\ raced \subseteq Procs
      /\ stage \in {"serving", "draining", "closed", "gone"}
  BY DEF Typed
<1>1. CASE UNCHANGED vars
  BY <1>0, <1>1 DEF Typed, vars
<1>2. ASSUME NEW p \in Procs, Plainly(p)
      PROVE  Typed'
  <2>1. req' \in [Procs -> Requests]
    BY <1>2, PlainlyMoves, GotoType
  <2>2. UNCHANGED <<mode, stage>> /\ tables' \in BOOLEAN
    BY <1>0, <1>2 DEF Plainly, TurnedAway, Start, Take, Refuse, Write, Settle, EditorSave, EditorQuit,
       FinishEdit, RemoveEmpty, DoctorReindex, DropTables, MakeTables, Render, RunRequest, Install, index
  <2>3. holder' \in Procs \cup {NoProc}
    BY <1>0, <1>2 DEF Plainly, TurnedAway, Start, Take, Refuse, Write, Settle, EditorSave, EditorQuit,
       FinishEdit, RemoveEmpty, DoctorReindex, DropTables, MakeTables, Render
  <2>4. file' \in [Files -> Revisions] /\ clock' \in Nat /\ raced' \subseteq Procs
    <3>1. CASE Write(p)
      BY <1>0, <3>1, WrittenType, TickType DEF Write
    <3>2. CASE EditorSave(p)
      <4>1. clock' \in Nat
        BY <3>2, TickType DEF EditorSave
      <4>2. req[p].form \in Revisions
        BY <1>0 DEF Requests
      <4>3. \A text \in {req[p].form.text \cup {p}, {}} : Revision(req[p].form.fence, text) \in Revisions
        <5>1. /\ req[p].form.fence \in SUBSET (Procs \cup {NoProc})
              /\ {} \in SUBSET (Procs \cup {NoProc})
              /\ req[p].form.text \cup {p} \in SUBSET (Procs \cup {NoProc})
          BY <4>2 DEF Revisions
        <5> QED
          BY <4>1, <5>1, RevisionType
      <4> QED
        BY <1>0, <3>2, <4>1, <4>3 DEF EditorSave
    <3>3. CASE RemoveEmpty(p)
      BY <1>0, <3>3, MissingType DEF RemoveEmpty
    <3>4. CASE ~Write(p) /\ ~EditorSave(p) /\ ~RemoveEmpty(p)
      BY <1>0, <1>2, <3>4 DEF Plainly, TurnedAway, Start, Take, Refuse, Settle, EditorQuit,
         FinishEdit, DoctorReindex, DropTables, MakeTables, Render, disk
    <3> QED
      BY <3>1, <3>2, <3>3, <3>4
  <2> QED
    BY <1>0, <2>1, <2>2, <2>3, <2>4 DEF Typed
<1>3. ASSUME NEW p \in Procs, Render(p) \/ BeginWrite(p) \/ Check(p) \/ ReleaseHandle(p) \/ Prepare(p),
             req' \in [Procs -> Requests]
      PROVE  Typed'
  <2>1. UNCHANGED <<mode, disk, stage>> /\ holder' \in Procs \cup {NoProc} /\ tables' \in BOOLEAN
    BY <1>0, <1>3 DEF Render, BeginWrite, Check, ReleaseHandle, Prepare, RunRequest, Install, index
  <2> QED
    BY <1>0, <1>3, <2>1 DEF Typed, disk
<1>4. ASSUME NEW p \in Procs, Check(p) \/ Prepare(p) \/ (Render(p) /\ ~Goto(p, "done"))
      PROVE  Typed'
  <2>1. file[File(p)] \in Revisions
    BY <1>0, ModeType
  <2>2. req' \in [Procs -> Requests]
    BY <1>4, <2>1, MovesForm, MovesSeen DEF Check, Prepare, Render, Moves, Pcs
  <2> QED
    BY <1>3, <1>4, <2>2
<1>5. ASSUME NEW p \in Procs, BeginWrite(p) \/ ReleaseHandle(p)
      PROVE  Typed'
  <2>1. req' \in [Procs -> Requests]
    <3>1. CASE BeginWrite(p)
      <4>1. cur \in Nat /\ "want" \in Pcs
        BY DEF Counted, Pcs
      <4> QED
        BY <3>1, <4>1, MovesPin DEF BeginWrite, Moves
    <3>2. CASE ReleaseHandle(p)
      <4>1. NoHandle \in Nat /\ "done" \in Pcs
        BY DEF NoHandle, Pcs
      <4> QED
        BY <3>2, <4>1, MovesPin DEF ReleaseHandle, Moves
    <3> QED
      BY <1>5, <3>1, <3>2
  <2> QED
    BY <1>3, <1>5, <2>1
<1>6. CASE Stop \/ Close
  BY <1>0, <1>6 DEF Stop, Close, Typed, disk, index
<1>7. CASE Exit
  <2>1. \A p \in Procs : [req[p] EXCEPT !.pc = "done", !.pin = NoHandle] \in Requests
    BY <1>0 DEF Requests, Pcs, NoHandle
  <2>2. req' \in [Procs -> Requests] /\ holder' \in Procs \cup {NoProc}
    BY <1>0, <1>7, <2>1 DEF Exit
  <2> QED
    BY <1>0, <1>7, <2>2 DEF Exit, Typed, disk
<1> QED
  BY <1>1, <1>2, <1>4, <1>5, <1>6, <1>7 DEF Next, Advance, Asked, Plainly

\* The steps that pin no handle and release none.
Flight == {"want", "locked", "checked", "written", "leave"}
Keeps(p, l) ==
  /\ req'[p].pin = req[p].pin
  /\ Tkv(p) => (req[p].pc \in Flight <=> l \in Flight)

\* Where a step takes its process, which is where the command goes.
LEMMA Steps ==
    ASSUME Typed, Commands, Counted, NEW p \in Procs, Advance(p) \/ Asked(p)
    PROVE  /\ mode' = mode
           /\ \E l \in Pcs : /\ Moves(p, l) /\ CommandAt(p, l)
                             /\ BeginWrite(p) \/ ReleaseHandle(p) \/ Keeps(p, l)
<1>0. /\ CommandAt(p, req[p].pc) /\ file[File(p)] \in Revisions /\ req[p].pc \in Pcs
      /\ Verb(p) \in Verbs /\ (Verb(p) = "save" => Tkv(p))
      /\ Verb(p) \in {"add", "set", "edit"} => ~Tkv(p)
  BY ModeType DEF Commands, Typed, Requests
<1>1. CASE Plainly(p)
  <2>1. PICK l \in Pcs \ {"new", "form", "checked", "editor"} : Goto(p, l)
    BY <1>1, PlainlyMoves
  <2>2. Moves(p, l) /\ req'[p].pin = req[p].pin
    BY <2>1, GotoType DEF Moves
  <2>3. mode' = mode
    BY <1>1 DEF Plainly, TurnedAway, Start, Take, Refuse, Write, Settle, EditorSave, EditorQuit,
       FinishEdit, RemoveEmpty, DoctorReindex, DropTables, MakeTables, Render
  <2>4. req'[p].pc = l
    BY <2>2 DEF Moves
  <2>5. CommandAt(p, l) /\ (Tkv(p) => (req[p].pc \in Flight <=> l \in Flight))
    <3> USE <1>0, <2>4 DEF At, CommandAt, Writing, Flight, Verbs
    <3>1. CASE TurnedAway(p) \/ DoctorReindex(p) \/ DropTables(p) \/ MakeTables(p) \/ RemoveEmpty(p)
               \/ (Render(p) /\ Goto(p, "done"))
      <4>1. Goto(p, "done") \/ Goto(p, "dropped")
        BY <3>1 DEF TurnedAway, DoctorReindex, DropTables, MakeTables, RemoveEmpty
      <4>2. l \in {"done", "dropped"}
        BY <4>1, GotoType DEF Pcs
      <4>3. req[p].pc \notin Flight
        BY <3>1 DEF TurnedAway, DoctorReindex, DropTables, MakeTables, RemoveEmpty, Render
      <4> QED
        BY <4>2, <4>3
    <3>2. CASE Start(p)
      <4>1. l = "want"
        BY <3>2, GotoType DEF Start, Pcs
      <4> QED
        BY <3>2, <4>1, ModeType DEF Start
    <3>3. CASE Take(p)
      <4>1. (req[p].pc = "want" /\ l = "locked") \/ (req[p].pc = "closing" /\ l = "finishing")
        BY <3>3, GotoType DEF Take, Pcs
      <4> QED
        BY <4>1
    <3>4. CASE Write(p)
      <4>1. l = "written" /\ req[p].pc = "checked"
        BY <3>4, GotoType DEF Write, Pcs
      <4> QED
        BY <4>1
    <3>5. CASE Refuse(p) \/ Settle(p)
      <4>1. l = After(p) /\ req[p].pc \in {"locked", "written"} /\ (At(p, "locked") => Verb(p) # "edit")
        BY <3>5, GotoType DEF Refuse, Settle, After, Pcs
      <4> QED
        BY <4>1 DEF After
    <3>6. CASE EditorSave(p) \/ EditorQuit(p) \/ FinishEdit(p)
      <4>1. l \in {"closing", "done", "removing"} /\ req[p].pc \in {"editor", "finishing"}
        BY <3>6, GotoType DEF EditorSave, EditorQuit, EditorDone, FinishEdit, Pcs
      <4> QED
        BY <4>1
    <3> QED
      BY <1>1, <3>1, <3>2, <3>3, <3>4, <3>5, <3>6 DEF Plainly
  <2> QED
    BY <2>2, <2>3, <2>5 DEF Keeps
<1>2. CASE Render(p) /\ ~Goto(p, "done")
  <2>1. Moves(p, "form") /\ req'[p].pin = req[p].pin
    BY <1>0, <1>2, MovesForm DEF Render, Pcs
  <2>2. mode' = mode /\ Verb(p) = "save" /\ req[p].pc = "new"
    BY <1>2 DEF Render, At
  <2> QED
    BY <2>1, <2>2 DEF CommandAt, Keeps, Writing, Flight, Pcs
<1>3. CASE Check(p)
  <2>1. Moves(p, "checked") /\ req'[p].pin = req[p].pin
    BY <1>0, <1>3, MovesSeen DEF Check, Pcs
  <2>2. mode' = mode /\ Verb(p) # "edit" /\ req[p].pc = "locked"
    BY <1>3 DEF Check, At
  <2> QED
    BY <1>0, <2>1, <2>2 DEF CommandAt, Keeps, Writing, Flight, Pcs
<1>4. CASE Prepare(p)
  <2>1. Moves(p, "editor") /\ req'[p].pin = req[p].pin
    BY <1>0, <1>4, MovesForm DEF Prepare, Pcs
  <2>2. mode' = mode /\ Verb(p) = "edit"
    BY <1>4 DEF Prepare
  <2> QED
    BY SMTT(40), <1>0, <2>1, <2>2 DEF CommandAt, Keeps, Writing, Flight, Pcs
<1>5. CASE BeginWrite(p)
  <2>1. cur \in Nat
    BY DEF Counted
  <2>2. Moves(p, "want")
    BY <1>5, <2>1, MovesPin DEF BeginWrite, Pcs
  <2>3. mode' = mode /\ Verb(p) \in {"save", "mark", "delete", "pull"}
    BY <1>0, <1>5 DEF BeginWrite, PostTicket, PostDesign, PostNote, PostSync, At, CommandAt
  <2> QED
    BY <1>5, <2>2, <2>3 DEF CommandAt, Writing, Pcs
<1>6. CASE ReleaseHandle(p)
  <2>1. Moves(p, "done")
    BY <1>6, MovesPin DEF ReleaseHandle, Pcs, NoHandle
  <2> QED
    BY SMTT(40), <1>6, <2>1 DEF CommandAt, Writing, Pcs, ReleaseHandle
<1> QED
  BY <1>1, <1>2, <1>3, <1>4, <1>5, <1>6 DEF Advance, Asked, Plainly

\* No step takes a process where its command does not go.
LEMMA CommandsStep ==
    ASSUME Typed, Commands, Counted, [Next]_vars
    PROVE  Commands'
<1> SUFFICES ASSUME NEW q \in Procs
             PROVE  CommandAt(q, req[q].pc)'
  BY DEF Commands
<1>0. CommandAt(q, req[q].pc)
  BY DEF Commands
<1>1. ASSUME mode' = mode, NEW l, CommandAt(q, l)
      PROVE  CommandAt(q, l)'
  BY <1>1 DEF CommandAt, Verb, Tkv
<1>2. ASSUME NEW p \in Procs, Advance(p) \/ Asked(p)
      PROVE  CommandAt(q, req[q].pc)'
  <2>1. PICK l \in Pcs : Moves(p, l) /\ CommandAt(p, l)
    BY <1>2, Steps
  <2>2. mode' = mode
    BY <1>2, Steps
  <2>3. CommandAt(q, req'[q].pc)
    BY <1>0, <2>1 DEF Moves
  <2> QED
    BY <2>2, <2>3 DEF CommandAt, Verb, Tkv
<1>3. CASE UNCHANGED vars \/ Stop \/ Close
  BY <1>0, <1>3 DEF vars, Stop, Close, CommandAt, Verb, Tkv
<1>4. CASE Exit
  <2>1. req'[q].pc = req[q].pc \/ req'[q].pc = "done"
    BY <1>4 DEF Exit, Typed, Requests
  <2>2. mode' = mode
    BY <1>4 DEF Exit
  <2> QED
    BY <1>0, <2>1, <2>2 DEF CommandAt, Verb, Tkv, Writing
<1> QED
  BY <1>2, <1>3, <1>4 DEF Next

-----------------------------------------------------------------------------
(* The handles. *)

LEMMA DroppedOne ==
    ASSUME NEW hs \in Seq(Handle), NEW h \in 1..Len(hs), hs[h].n > 0
    PROVE  /\ Dropped(hs, h) \in Seq(Handle) /\ Len(Dropped(hs, h)) = Len(hs)
           /\ \A j \in 1..Len(hs) : j # h => Dropped(hs, h)[j] = hs[j]
           /\ Dropped(hs, h)[h].n = hs[h].n - 1
           /\ Dropped(hs, h)[h].open <=> (hs[h].open /\ hs[h].n > 1)
<1> DEFINE n == hs[h].n - 1
           e == [n |-> n, open |-> hs[h].open /\ n > 0]
<1>1. hs[h] \in Handle
  BY ElementOfSeq
<1>2. hs[h].n \in Nat /\ n \in Nat
  BY <1>1 DEF Handle
<1>3. e \in Handle
  BY <1>2 DEF Handle
<1>4. Dropped(hs, h) = [hs EXCEPT ![h] = e]
  BY DEF Dropped
<1>5. e.n = hs[h].n - 1 /\ (e.open <=> (hs[h].open /\ hs[h].n > 1))
  <2>1. n > 0 <=> hs[h].n > 1
    BY <1>2
  <2>2. e.n = n /\ (e.open <=> (hs[h].open /\ n > 0))
    BY Zenon
  <2> HIDE DEF e
  <2> QED
    BY <2>1, <2>2
<1> HIDE DEF e, n
<1> QED
  BY <1>3, <1>4, <1>5, ExceptSeq

LEMMA RetainedOne ==
    ASSUME NEW hs \in Seq(Handle), NEW h \in 1..Len(hs)
    PROVE  /\ Retained(hs, h) \in Seq(Handle) /\ Len(Retained(hs, h)) = Len(hs)
           /\ \A j \in 1..Len(hs) : j # h => Retained(hs, h)[j] = hs[j]
           /\ Retained(hs, h)[h].n = hs[h].n + 1
           /\ Retained(hs, h)[h].open <=> hs[h].open
<1> DEFINE e == [hs[h] EXCEPT !.n = @ + 1]
<1>1. hs[h] \in Handle
  BY ElementOfSeq
<1>2. e \in Handle /\ e.n = hs[h].n + 1 /\ e.open = hs[h].open
  BY <1>1 DEF Handle
<1>3. Retained(hs, h) = [hs EXCEPT ![h] = e]
  BY DEF Retained
<1> HIDE DEF e
<1> QED
  BY <1>2, <1>3, ExceptSeq

\* There are finitely many pins.
LEMMA PinsFinite ==
    ASSUME NEW h
    PROVE  IsFiniteSet(Pins(h)) /\ Cardinality(Pins(h)) \in Nat
  BY ProcsFinite, FS_Subset, FS_CardinalityType DEF Pins

\* The counts after a step: what each handle has is what pins it then.
LEMMA CountedAgain ==
    ASSUME handles' \in Seq(Handle), cur' \in 0..Len(handles'),
           \A q \in Procs : req'[q].pin \in 0..Len(handles'),
           \A h \in 1..Len(handles') :
             /\ handles'[h].n = Cardinality(Pins(h)') + IF cur' = h THEN 1 ELSE 0
             /\ handles'[h].open <=> handles'[h].n > 0
    PROVE  Counted'
  BY DEF Counted, Count

\* A handle of the sequence.
LEMMA CountedHandle ==
    ASSUME Counted, NEW h \in 1..Len(handles)
    PROVE  /\ handles[h].n = Cardinality(Pins(h)) + IF cur = h THEN 1 ELSE 0
           /\ handles[h].n \in Nat /\ Cardinality(Pins(h)) \in Nat
           /\ handles[h].open <=> handles[h].n > 0
<1>1. Cardinality(Pins(h)) \in Nat
  BY PinsFinite
<1> QED
  BY <1>1 DEF Counted, Count

LEMMA KeepPins ==
    ASSUME Counted, UNCHANGED <<cur, handles>>, \A q \in Procs : req'[q].pin = req[q].pin
    PROVE  Counted'
<1>1. \A h \in 1..Len(handles) : Pins(h)' = Pins(h)
  BY DEF Pins
<1> QED
  BY <1>1 DEF Counted, Count

LEMMA InstallCounted ==
    ASSUME Counted, cur # NoHandle, Install, \A q \in Procs : req'[q].pin = req[q].pin
    PROVE  Counted' /\ cur' # NoHandle
<1> DEFINE n == Len(handles)
           one == [n |-> 1, open |-> TRUE]
<1>0. /\ handles \in Seq(Handle) /\ n \in Nat /\ cur \in 1..n
      /\ \A q \in Procs : req[q].pin \in 0..n
  BY DEF Counted, NoHandle
<1>1. PICK hs : hs = Dropped(handles, cur)
  OBVIOUS
<1>2. handles[cur].n > 0
  BY <1>0, CountedHandle
<1>3. /\ hs \in Seq(Handle) /\ Len(hs) = n
      /\ \A j \in 1..n : j # cur => hs[j] = handles[j]
      /\ hs[cur].n = handles[cur].n - 1
      /\ hs[cur].open <=> (handles[cur].open /\ handles[cur].n > 1)
  BY <1>0, <1>1, <1>2, DroppedOne
<1>4. one \in Handle /\ one.n = 1 /\ one.open
  BY DEF Handle
<1>5. handles' = Append(hs, one) /\ cur' = n + 1
  BY <1>1 DEF Install
<1> HIDE DEF one
<1>6. /\ handles' \in Seq(Handle) /\ Len(handles') = n + 1
      /\ \A j \in 1..n : handles'[j] = hs[j]
      /\ handles'[n + 1] = one
  BY <1>3, <1>4, <1>5, AppendProperties
<1>7. \A h \in Nat : Pins(h)' = Pins(h)
  BY DEF Pins
<1>8. Pins(n + 1) = {}
  BY <1>0 DEF Pins
<1>9. Cardinality(Pins(n + 1)) = 0
  BY <1>8, FS_EmptySet
<1> HIDE DEF n
<1>10. ASSUME NEW h \in 1..Len(handles')
       PROVE  /\ handles'[h].n = Cardinality(Pins(h)') + IF cur' = h THEN 1 ELSE 0
              /\ handles'[h].open <=> handles'[h].n > 0
  <2>1. Pins(h)' = Pins(h)
    BY <1>7
  <2>2. CASE h = n + 1
    BY <1>4, <1>5, <1>6, <1>9, <2>1, <2>2
  <2>3. CASE h \in 1..n /\ h # cur
    <3>1. handles'[h] = handles[h] /\ cur' # h
      BY <1>0, <1>3, <1>5, <1>6, <2>3
    <3>2. /\ handles[h].n = Cardinality(Pins(h)) + IF cur = h THEN 1 ELSE 0
          /\ handles[h].n \in Nat /\ Cardinality(Pins(h)) \in Nat
          /\ handles[h].open <=> handles[h].n > 0
      BY <2>3, CountedHandle DEF n
    <3> QED
      BY <2>1, <2>3, <3>1, <3>2
  <2>4. CASE h = cur
    <3>1. handles'[h] = hs[cur] /\ cur' # h
      BY <1>0, <1>5, <1>6, <2>4
    <3>2. /\ handles[h].n = Cardinality(Pins(h)) + 1
          /\ handles[h].n \in Nat /\ Cardinality(Pins(h)) \in Nat
          /\ handles[h].open
      BY <1>0, <1>2, <2>4, CountedHandle DEF n
    <3> QED
      BY <1>3, <2>1, <2>4, <3>1, <3>2
  <2> QED
    BY <1>0, <1>6, <2>2, <2>3, <2>4
<1>11. cur' \in 0..Len(handles') /\ \A q \in Procs : req'[q].pin \in 0..Len(handles')
  BY <1>0, <1>5, <1>6
<1> QED
  BY <1>0, <1>5, <1>6, <1>10, <1>11, CountedAgain DEF NoHandle

\* A write pins the installed handle.
LEMMA RetainCounted ==
    ASSUME Counted, cur # NoHandle, NEW p \in Procs, req[p].pin = NoHandle,
           handles' = Retained(handles, cur), cur' = cur, req'[p].pin = cur,
           \A q \in Procs \ {p} : req'[q].pin = req[q].pin
    PROVE  Counted'
<1>0. /\ handles \in Seq(Handle) /\ Len(handles) \in Nat /\ cur \in 1..Len(handles)
      /\ \A q \in Procs : req[q].pin \in 0..Len(handles)
  BY DEF Counted, NoHandle
<1>1. /\ handles' \in Seq(Handle) /\ Len(handles') = Len(handles)
      /\ \A j \in 1..Len(handles) : j # cur => handles'[j] = handles[j]
      /\ handles'[cur].n = handles[cur].n + 1
      /\ handles'[cur].open <=> handles[cur].open
  BY <1>0, RetainedOne
<1>2. \A h \in 1..Len(handles) : h # cur => Pins(h)' = Pins(h)
  BY DEF Pins, NoHandle
<1>3. PICK S : S = Pins(cur)
  OBVIOUS
<1>4. Pins(cur)' = S \cup {p} /\ p \notin S /\ IsFiniteSet(S)
  BY <1>3, PinsFinite DEF Pins
<1>5. Cardinality(Pins(cur)') = Cardinality(S) + 1
  BY <1>4, FS_AddElement
<1>6. ASSUME NEW h \in 1..Len(handles')
      PROVE  /\ handles'[h].n = Cardinality(Pins(h)') + IF cur' = h THEN 1 ELSE 0
             /\ handles'[h].open <=> handles'[h].n > 0
  <2>1. /\ handles[h].n = Cardinality(Pins(h)) + IF cur = h THEN 1 ELSE 0
        /\ handles[h].n \in Nat /\ Cardinality(Pins(h)) \in Nat
        /\ handles[h].open <=> handles[h].n > 0
    BY <1>1, CountedHandle
  <2>2. CASE h = cur
    <3>1. Pins(h)' = Pins(cur)'
      BY <2>2
    <3> QED
      BY <1>1, <1>3, <1>5, <2>1, <2>2, <3>1
  <2>3. CASE h # cur
    BY <1>1, <1>2, <2>1, <2>3
  <2> QED
    BY <2>2, <2>3
<1>7. cur' \in 0..Len(handles') /\ \A q \in Procs : req'[q].pin \in 0..Len(handles')
  BY <1>0, <1>1
<1> QED
  BY <1>1, <1>6, <1>7, CountedAgain

\* A write that returns gives its handle up.
LEMMA ReleaseCounted ==
    ASSUME Counted, NEW p \in Procs, req[p].pin # NoHandle,
           handles' = Dropped(handles, req[p].pin), cur' = cur, req'[p].pin = NoHandle,
           \A q \in Procs \ {p} : req'[q].pin = req[q].pin
    PROVE  Counted'
<1>1. PICK k : k = req[p].pin
  OBVIOUS
<1>2. /\ handles \in Seq(Handle) /\ Len(handles) \in Nat /\ cur \in 0..Len(handles)
      /\ k \in 1..Len(handles) /\ \A q \in Procs : req[q].pin \in 0..Len(handles)
  BY <1>1 DEF Counted, NoHandle
<1>3. PICK S : S = Pins(k)
  OBVIOUS
<1>4. Pins(k)' = S \ {p} /\ p \in S /\ IsFiniteSet(S)
  <2>1. IsFiniteSet(S)
    BY <1>3, PinsFinite
  <2>2. p \in S /\ k # NoHandle
    BY <1>1, <1>3 DEF Pins
  <2>3. \A q \in Procs : req'[q].pin = k <=> (req[q].pin = k /\ q # p)
    BY <2>2
  <2> QED
    BY <1>3, <2>1, <2>2, <2>3 DEF Pins
<1>5. Cardinality(Pins(k)') = Cardinality(S) - 1
  BY <1>4, FS_RemoveElement
<1>6. Cardinality(S) \in Nat /\ Cardinality(S) > 0
  BY <1>4, FS_EmptySet, FS_CardinalityType
<1>7. handles[k].n > 0
  BY <1>2, <1>3, <1>6, CountedHandle
<1>8. /\ handles' \in Seq(Handle) /\ Len(handles') = Len(handles)
      /\ \A j \in 1..Len(handles) : j # k => handles'[j] = handles[j]
      /\ handles'[k].n = handles[k].n - 1
      /\ handles'[k].open <=> (handles[k].open /\ handles[k].n > 1)
  BY <1>1, <1>2, <1>7, DroppedOne
<1>9. \A h \in 1..Len(handles) : h # k => Pins(h)' = Pins(h)
  BY <1>1 DEF Pins, NoHandle
<1>10. ASSUME NEW h \in 1..Len(handles')
       PROVE  /\ handles'[h].n = Cardinality(Pins(h)') + IF cur' = h THEN 1 ELSE 0
              /\ handles'[h].open <=> handles'[h].n > 0
  <2>1. /\ handles[h].n = Cardinality(Pins(h)) + IF cur = h THEN 1 ELSE 0
        /\ handles[h].n \in Nat /\ Cardinality(Pins(h)) \in Nat
        /\ handles[h].open <=> handles[h].n > 0
    BY <1>8, CountedHandle
  <2>2. CASE h = k
    BY <1>3, <1>5, <1>7, <1>8, <2>1, <2>2
  <2>3. CASE h # k
    BY <1>8, <1>9, <2>1, <2>3
  <2> QED
    BY <2>2, <2>3
<1>11. cur' \in 0..Len(handles') /\ \A q \in Procs : req'[q].pin \in 0..Len(handles')
  BY <1>2, <1>8 DEF NoHandle
<1> QED
  BY <1>8, <1>10, <1>11, CountedAgain

\* Close gives up the installed handle.
LEMMA CloseCounted ==
    ASSUME Counted, cur # NoHandle, Close
    PROVE  Counted'
<1>0. /\ handles \in Seq(Handle) /\ Len(handles) \in Nat /\ cur \in 1..Len(handles)
      /\ \A q \in Procs : req[q].pin \in 0..Len(handles)
      /\ handles' = Dropped(handles, cur) /\ cur' = NoHandle /\ req' = req
  BY DEF Counted, NoHandle, Close
<1>1. handles[cur].n > 0
  BY <1>0, CountedHandle
<1>2. /\ handles' \in Seq(Handle) /\ Len(handles') = Len(handles)
      /\ \A j \in 1..Len(handles) : j # cur => handles'[j] = handles[j]
      /\ handles'[cur].n = handles[cur].n - 1
      /\ handles'[cur].open <=> (handles[cur].open /\ handles[cur].n > 1)
  BY <1>0, <1>1, DroppedOne
<1>3. \A h \in 1..Len(handles) : Pins(h)' = Pins(h)
  BY <1>0 DEF Pins
<1>4. ASSUME NEW h \in 1..Len(handles')
      PROVE  /\ handles'[h].n = Cardinality(Pins(h)') + IF cur' = h THEN 1 ELSE 0
             /\ handles'[h].open <=> handles'[h].n > 0
  <2>1. /\ handles[h].n = Cardinality(Pins(h)) + IF cur = h THEN 1 ELSE 0
        /\ handles[h].n \in Nat /\ Cardinality(Pins(h)) \in Nat
        /\ handles[h].open <=> handles[h].n > 0
    BY <1>2, CountedHandle
  <2>2. Pins(h)' = Pins(h) /\ cur' # h
    BY <1>0, <1>2, <1>3 DEF NoHandle
  <2>3. CASE h = cur
    BY <1>1, <1>2, <2>1, <2>2, <2>3
  <2>4. CASE h # cur
    BY <1>2, <2>1, <2>2, <2>4
  <2> QED
    BY <2>3, <2>4
<1>5. cur' \in 0..Len(handles') /\ \A q \in Procs : req'[q].pin \in 0..Len(handles')
  BY <1>0, <1>2 DEF NoHandle
<1> QED
  BY <1>2, <1>4, <1>5, CountedAgain

\* The process ends: nothing is pinned and nothing is open.
LEMMA ExitCounted ==
    ASSUME Counted, cur = NoHandle, Exit, \A q \in Procs : req'[q].pin = NoHandle
    PROVE  Counted'
<1>0. handles \in Seq(Handle) /\ Len(handles) \in Nat /\ DOMAIN handles = 1..Len(handles)
  BY LenProperties DEF Counted
<1> DEFINE e == [n |-> 0, open |-> FALSE]
<1>1. e \in Handle /\ e.n = 0 /\ ~e.open
  BY DEF Handle
<1>2. handles' = [h \in 1..Len(handles) |-> e] /\ cur' = NoHandle
  BY <1>0 DEF Exit
<1> HIDE DEF e
<1>3. handles' \in Seq(Handle) /\ Len(handles') = Len(handles)
  BY <1>0, <1>1, <1>2
<1>4. \A h \in 1..Len(handles') : Cardinality(Pins(h)') = 0
  <2>1. \A h \in 1..Len(handles') : Pins(h)' = {}
    BY <1>0, <1>3 DEF Pins, NoHandle
  <2> QED
    BY <2>1, FS_EmptySet
<1> QED
  BY <1>0, <1>1, <1>2, <1>3, <1>4, CountedAgain DEF NoHandle

\* What the steps that pin and release nothing do to the handles: nothing, or
\* they install a new one, which only a server that serves does.
LEMMA KeepsHandles ==
    ASSUME Pinned, NEW p \in Procs, Advance(p) \/ Asked(p), ~BeginWrite(p), ~ReleaseHandle(p)
    PROVE  stage' = stage /\ (UNCHANGED <<cur, handles>> \/ (Install /\ cur # NoHandle))
<1>1. CASE Render(p) \/ DoctorReindex(p)
  BY <1>1 DEF Render, DoctorReindex, RunRequest, index, Pinned
<1>2. CASE Take(p) \/ Refuse(p) \/ Check(p) \/ Write(p) \/ Settle(p) \/ Prepare(p) \/ FinishEdit(p)
           \/ RemoveEmpty(p) \/ MakeTables(p)
  BY <1>2 DEF Take, Refuse, Check, Write, Settle, Prepare, FinishEdit, RemoveEmpty, MakeTables, index
<1>3. CASE TurnedAway(p) \/ Start(p) \/ EditorSave(p) \/ EditorQuit(p) \/ DropTables(p)
  BY <1>3 DEF TurnedAway, Start, EditorSave, EditorQuit, DropTables, index
<1> QED
  BY <1>1, <1>2, <1>3 DEF Advance, Asked

\* Every step keeps the counts right and a pin with its request.
LEMMA HandleStep ==
    ASSUME HandleInv, [Next]_vars
    PROVE  Counted' /\ Pinned'
<1>0. Typed /\ Commands /\ Counted /\ Pinned
  BY DEF HandleInv
<1>1. ASSUME NEW p \in Procs, Advance(p) \/ Asked(p), ~BeginWrite(p), ~ReleaseHandle(p)
      PROVE  Counted' /\ Pinned'
  <2>1. PICK l \in Pcs : Moves(p, l) /\ Keeps(p, l)
    BY <1>0, <1>1, Steps
  <2>2. mode' = mode
    BY <1>0, <1>1, Steps
  <2>3. \A q \in Procs : req'[q].pin = req[q].pin
    BY <2>1 DEF Moves, Keeps
  <2>4. stage' = stage /\ (UNCHANGED <<cur, handles>> \/ (Install /\ cur # NoHandle))
    BY <1>0, <1>1, KeepsHandles
  <2>5. Counted' /\ (cur' = NoHandle <=> cur = NoHandle)
    BY <1>0, <2>3, <2>4, KeepPins, InstallCounted
  <2>6. \A q \in Procs : InFlight(q)' <=> InFlight(q)
    BY <2>1, <2>2 DEF InFlight, Tkv, Moves, Keeps, Flight
  <2> QED
    BY <1>0, <2>3, <2>4, <2>5, <2>6 DEF Pinned
<1>2. ASSUME NEW p \in Procs, BeginWrite(p)
      PROVE  Counted' /\ Pinned'
  <2>1. cur # NoHandle /\ cur \in Nat
    BY <1>0, <1>2 DEF Pinned, BeginWrite, Counted
  <2>2. req[p].pc \in {"new", "form"} /\ Tkv(p)
    BY <1>2 DEF BeginWrite, PostTicket, PostDesign, PostNote, PostSync, At
  <2>3. req[p].pin = NoHandle
    BY SMTT(40), <1>0, <2>2 DEF Pinned, InFlight
  <2>4. Moves(p, "want") /\ req'[p].pin = cur
    BY <1>0, <1>2, <2>1, MovesPin DEF BeginWrite, Pcs
  <2>5. UNCHANGED <<mode, cur, stage>> /\ handles' = Retained(handles, cur)
    BY <1>2 DEF BeginWrite
  <2>6. Counted'
    BY <1>0, <2>1, <2>3, <2>4, <2>5, RetainCounted DEF Moves
  <2>7. InFlight(p)' /\ \A q \in Procs \ {p} : InFlight(q)' <=> InFlight(q)
    BY <2>2, <2>4, <2>5 DEF InFlight, Tkv, Moves
  <2> QED
    BY <1>0, <2>1, <2>4, <2>5, <2>6, <2>7 DEF Pinned, Moves
<1>3. ASSUME NEW p \in Procs, ReleaseHandle(p)
      PROVE  Counted' /\ Pinned'
  <2>1. Tkv(p) /\ req[p].pc = "leave"
    BY <1>0, <1>3 DEF ReleaseHandle, At, Commands, CommandAt
  <2>2. req[p].pin # NoHandle
    BY SMTT(40), <1>0, <2>1 DEF Pinned, InFlight
  <2>3. Moves(p, "done") /\ req'[p].pin = NoHandle
    BY <1>0, <1>3, MovesPin DEF ReleaseHandle, Pcs, NoHandle
  <2>4. UNCHANGED <<mode, cur, stage>> /\ handles' = Dropped(handles, req[p].pin)
    BY <1>3 DEF ReleaseHandle
  <2>5. Counted'
    BY <1>0, <2>2, <2>3, <2>4, ReleaseCounted DEF Moves
  <2>6. ~InFlight(p)' /\ \A q \in Procs \ {p} : InFlight(q)' <=> InFlight(q)
    BY <2>3, <2>4 DEF InFlight, Tkv, Moves
  <2> QED
    BY <1>0, <2>3, <2>4, <2>5, <2>6 DEF Pinned, Moves
<1>4. CASE UNCHANGED vars \/ Stop
  <2>1. UNCHANGED <<mode, cur, handles, req>> /\ stage' \in {stage, "draining"} /\ (stage' # stage => stage = "serving")
    BY <1>4 DEF vars, Stop, index
  <2>2. Counted'
    BY <1>0, <2>1, KeepPins
  <2>3. \A q \in Procs : InFlight(q)' <=> InFlight(q)
    BY <2>1 DEF InFlight, Tkv
  <2> QED
    BY <1>0, <2>1, <2>2, <2>3 DEF Pinned
<1>5. CASE Close
  <2>1. cur # NoHandle
    BY <1>0, <1>5 DEF Close, Pinned
  <2>2. Counted'
    BY <1>0, <1>5, <2>1, CloseCounted
  <2>3. \A q \in Procs : InFlight(q)' <=> InFlight(q)
    BY <1>5 DEF InFlight, Tkv, Close
  <2> QED
    BY <1>0, <1>5, <2>2, <2>3 DEF Pinned, Close
<1>6. CASE Exit
  <2>1. cur = NoHandle /\ cur' = cur /\ mode' = mode /\ stage' = "gone"
    BY <1>0, <1>6 DEF Exit, Pinned
  <2>2. ASSUME NEW q \in Procs
        PROVE  req'[q].pin = NoHandle /\ ~InFlight(q)'
    <3>1. req[q] \in Requests
      BY <1>0 DEF Typed
    <3>2. CASE InFlight(q)
      <4>1. req'[q] = [req[q] EXCEPT !.pc = "done", !.pin = NoHandle]
        BY <1>6, <3>2 DEF Exit
      <4>2. req'[q].pc = "done" /\ req'[q].pin = NoHandle
        BY <3>1, <4>1 DEF Requests
      <4> QED
        BY <4>2 DEF InFlight
    <3>3. CASE ~InFlight(q)
      BY <1>0, <1>6, <2>1, <3>3 DEF Exit, InFlight, Tkv, Pinned
    <3> QED
      BY <3>2, <3>3
  <2>3. Counted'
    BY <1>0, <1>6, <2>1, <2>2, ExitCounted
  <2> QED
    BY <2>1, <2>2, <2>3 DEF Pinned
<1> QED
  BY <1>1, <1>2, <1>3, <1>4, <1>5, <1>6 DEF Next

\* The counts say which handles are open.
LEMMA CountedSound ==
    ASSUME Counted
    PROVE  HandlesSound
<1>1. /\ DOMAIN handles = 1..Len(handles) /\ Len(handles) \in Nat
      /\ cur \in 0..Len(handles) /\ \A q \in Procs : req[q].pin \in 0..Len(handles)
  BY LenProperties DEF Counted
<1>2. ASSUME NEW h \in 1..Len(handles)
      PROVE  handles[h].open <=> (h = cur \/ \E q \in Procs : req[q].pin = h)
  <2>1. /\ handles[h].n = Cardinality(Pins(h)) + IF cur = h THEN 1 ELSE 0
        /\ Cardinality(Pins(h)) \in Nat
        /\ handles[h].open <=> handles[h].n > 0
    BY CountedHandle
  <2>2. Cardinality(Pins(h)) = 0 <=> Pins(h) = {}
    BY PinsFinite, FS_EmptySet
  <2>3. Pins(h) = {} <=> \A q \in Procs : req[q].pin # h
    BY DEF Pins
  <2> QED
    BY <2>1, <2>2, <2>3
<1>3. {h \in DOMAIN handles : handles[h].open} \subseteq ({cur} \cup {req[q].pin : q \in Procs}) \ {NoHandle}
  BY <1>1, <1>2 DEF NoHandle
<1>4. ({cur} \cup {req[q].pin : q \in Procs}) \ {NoHandle} \subseteq {h \in DOMAIN handles : handles[h].open}
  BY <1>1, <1>2 DEF NoHandle
<1> QED
  BY <1>3, <1>4 DEF HandlesSound

\* Init: one handle, installed; nobody has started.
LEMMA HandleInit ==
    ASSUME Init
    PROVE  HandleInv
<1>1. [Missing EXCEPT !.there = TRUE, !.text = {NoProc}] \in Revisions
  BY DEF Missing, Revisions
<1>2. file \in [Files -> Revisions]
  BY <1>1, MissingType DEF Init
<1>3. Fresh \in Requests /\ Fresh.pc = "new" /\ Fresh.pin = NoHandle
  BY MissingType DEF Fresh, Requests, Pcs, NoHandle
<1>4. req \in [Procs -> Requests] /\ \A q \in Procs : req[q] = Fresh
  BY <1>3 DEF Init
<1>5. Typed
  BY <1>2, <1>4 DEF Typed, Init
<1>6. Commands
  BY <1>3, <1>4 DEF Commands, CommandAt, Writing
<1>7. Counted
  <2>1. handles = <<[n |-> 1, open |-> TRUE]>> /\ cur = 1
    BY DEF Init
  <2>2. handles \in Seq(Handle) /\ Len(handles) = 1 /\ handles[1].n = 1 /\ handles[1].open
    BY <2>1 DEF Handle
  <2>3. Pins(1) = {}
    BY <1>3, <1>4 DEF Pins, NoHandle
  <2>4. Cardinality(Pins(1)) = 0
    BY <2>3, FS_EmptySet
  <2>5. \A h \in 1..Len(handles) : h = 1
    BY <2>2
  <2> HIDE <2>1
  <2>6. cur = 1
    BY <2>1
  <2> QED
    BY <1>3, <1>4, <2>2, <2>4, <2>5, <2>6 DEF Counted, Count, NoHandle
<1>8. Pinned
  BY <1>3, <1>4 DEF Pinned, InFlight, Init, NoHandle
<1> QED
  BY <1>5, <1>6, <1>7, <1>8 DEF HandleInv

LEMMA HandleInvariance == Spec => []HandleInv
<1>1. Init => HandleInv
  BY HandleInit
<1>2. HandleInv /\ [Next]_vars => HandleInv'
  BY TypedStep, CommandsStep, HandleStep DEF HandleInv
<1> QED
  BY <1>1, <1>2, PTL DEF Spec

\* withIndexPin, releaseHandle, installLocked, Close: for any number of requests
\* and whatever reopens or rebuilds the index meanwhile, the open handles are
\* the installed one and those that a running write has pinned.
THEOREM HandlesAlwaysSound == Spec => []HandlesSound
<1>1. HandleInv => HandlesSound
  BY CountedSound DEF HandleInv
<1> QED
  BY <1>1, HandleInvariance, PTL

-----------------------------------------------------------------------------
(* The files. *)

\* Who takes the flock and who gives it up.
LEMMA Flock ==
    ASSUME HandleInv, Exclusive, NEW p \in Procs, Advance(p) \/ Asked(p)
    PROVE  /\ holder' = holder \/ holder = NoProc \/ holder = p
           /\ req'[p].pc \in Locked => holder' = p
<1>0. Typed /\ Commands /\ Counted /\ (req[p].pc \in Locked => holder = p)
  BY DEF HandleInv, Exclusive
<1>1. PICK l \in Pcs : Moves(p, l)
  BY <1>0, Steps
<1>2. req'[p].pc = l
  BY <1>1 DEF Moves
<1>3. CASE Plainly(p)
  <2>1. ASSUME NEW k \in Pcs, Goto(p, k)
        PROVE  l = k
    BY <1>0, <1>2, <2>1, GotoType
  <2> USE DEF Pcs, Locked, At
  <2>2. CASE TurnedAway(p) \/ DoctorReindex(p) \/ DropTables(p) \/ MakeTables(p)
             \/ (Render(p) /\ Goto(p, "done"))
    <3>1. Goto(p, "done") \/ Goto(p, "dropped")
      BY <2>2 DEF TurnedAway, DoctorReindex, DropTables, MakeTables
    <3>2. holder' = holder
      BY <2>2 DEF TurnedAway, DoctorReindex, DropTables, MakeTables, Render
    <3> QED
      BY <1>2, <2>1, <3>1, <3>2
  <2>3. CASE Start(p)
    BY <1>2, <2>1, <2>3 DEF Start
  <2>4. CASE Take(p)
    BY <1>2, <2>4 DEF Take
  <2>5. CASE Refuse(p) \/ Settle(p)
    <3>1. After(p) \in {"leave", "done"} /\ Goto(p, After(p))
      BY <2>5 DEF Refuse, Settle, After
    <3>2. holder = p
      BY <1>0, <2>5 DEF Refuse, Settle
    <3> QED
      BY <1>2, <2>1, <3>1, <3>2
  <2>6. CASE Write(p)
    BY <1>0, <1>2, <2>1, <2>6 DEF Write
  <2>7. CASE EditorSave(p) \/ EditorQuit(p)
    <3>1. (Goto(p, "closing") \/ Goto(p, "done")) /\ holder' = holder
      BY <2>7 DEF EditorSave, EditorQuit, EditorDone
    <3> QED
      BY <1>2, <2>1, <3>1
  <2>8. CASE FinishEdit(p) \/ RemoveEmpty(p)
    <3>1. holder = p
      BY <1>0, <2>8 DEF FinishEdit, RemoveEmpty
    <3>2. Goto(p, "done") \/ holder' = holder
      BY <2>8 DEF FinishEdit, RemoveEmpty
    <3> QED
      BY <1>2, <2>1, <3>1, <3>2
  <2> QED
    BY <1>3, <2>2, <2>3, <2>4, <2>5, <2>6, <2>7, <2>8 DEF Plainly
<1>4. CASE Check(p)
  BY <1>0, <1>4 DEF Check, At, Locked
<1>5. CASE (Render(p) /\ ~Goto(p, "done")) \/ Prepare(p) \/ BeginWrite(p) \/ ReleaseHandle(p)
  <2>1. req[p] \in Requests /\ req \in [Procs -> Requests]
    BY <1>0 DEF Typed
  <2>2. req'[p].pc \notin Locked
    BY <1>5, <2>1 DEF Render, Prepare, BeginWrite, ReleaseHandle, Requests, Locked
  <2>3. holder' = holder \/ holder = p
    BY <1>0, <1>5 DEF Render, Prepare, BeginWrite, ReleaseHandle, At, Locked
  <2> QED
    BY <2>2, <2>3
<1> QED
  BY <1>3, <1>4, <1>5 DEF Advance, Asked, Plainly

LEMMA ExclusiveStep ==
    ASSUME HandleInv, Exclusive, [Next]_vars
    PROVE  Exclusive'
<1> SUFFICES ASSUME NEW q \in Procs, req'[q].pc \in Locked
             PROVE  holder' = q
  BY DEF Exclusive
<1>0. Typed /\ Commands /\ Counted /\ (req[q].pc \in Locked => holder = q)
  BY DEF HandleInv, Exclusive
<1>1. ASSUME NEW p \in Procs, Advance(p) \/ Asked(p)
      PROVE  holder' = q
  <2>1. CASE p = q
    BY <1>1, <2>1, Flock
  <2>2. CASE p # q
    <3>1. \E l \in Pcs : Moves(p, l)
      BY <1>0, <1>1, Steps
    <3>2. req'[q] = req[q]
      BY <2>2, <3>1 DEF Moves
    <3> QED
      BY <1>0, <1>1, <2>2, <3>2, Flock, NoProcIsNone
  <2> QED
    BY <2>1, <2>2
<1>2. CASE UNCHANGED vars \/ Stop \/ Close
  BY <1>0, <1>2 DEF vars, Stop, Close
<1>3. CASE Exit
  <2>1. req[q] \in Requests
    BY <1>0 DEF Typed
  <2>2. ~InFlight(q) /\ req'[q] = req[q]
    BY <1>3, <2>1 DEF Exit, Requests, Locked
  <2> QED
    BY <1>0, <1>3, <2>2 DEF Exit
<1> QED
  BY <1>1, <1>2, <1>3 DEF Next

\* Three steps touch a file.
LEMMA Still ==
    ASSUME NEW p \in Procs, Advance(p) \/ Asked(p), ~Write(p), ~EditorSave(p), ~RemoveEmpty(p)
    PROVE  UNCHANGED <<file, raced>>
<1>1. CASE Take(p) \/ Refuse(p) \/ Check(p) \/ Settle(p) \/ ReleaseHandle(p) \/ Prepare(p) \/ FinishEdit(p)
           \/ MakeTables(p)
  BY <1>1 DEF Take, Refuse, Check, Settle, ReleaseHandle, Prepare, FinishEdit, MakeTables, disk
<1>2. CASE Render(p) \/ BeginWrite(p) \/ TurnedAway(p) \/ Start(p) \/ EditorQuit(p) \/ DoctorReindex(p)
           \/ DropTables(p)
  BY <1>2 DEF Render, BeginWrite, TurnedAway, Start, EditorQuit, DoctorReindex, DropTables, disk
<1> QED
  BY <1>1, <1>2 DEF Advance, Asked

\* What a process has in hand is what it had or the file as it reads it, and it
\* goes on to write or to remove only from what it has just read.
LEMMA InHand ==
    ASSUME HandleInv, NEW p \in Procs, Advance(p) \/ Asked(p)
    PROVE  /\ req'[p].form \in {req[p].form, file[File(p)]}
           /\ req'[p].seen \in {req[p].seen, file[File(p)]}
           /\ req'[p].pc = "checked" => /\ Check(p) /\ req'[p].seen = file[File(p)]
                                        /\ req'[p].form = req[p].form
           /\ req'[p].pc = "removing" => (FinishEdit(p) /\ Empty(file[File(p)]))
<1>0. Typed /\ Commands /\ Counted /\ file[File(p)] \in Revisions
  BY ModeType DEF HandleInv, Typed
<1>1. CASE Plainly(p)
  <2>1. PICK l \in Pcs \ {"new", "form", "checked", "editor"} : Goto(p, l)
    BY <1>0, <1>1, PlainlyMoves
  <2>2. req'[p].form = req[p].form /\ req'[p].seen = req[p].seen /\ req'[p].pc = l
    BY <1>0, <2>1, GotoType
  <2>3. ASSUME NEW k \in Pcs, Goto(p, k)
        PROVE  req'[p].pc = k
    BY <1>0, <2>3, GotoType
  <2>4. req'[p].pc # "removing" \/ FinishEdit(p)
    <3> USE DEF Pcs
    <3>1. CASE TurnedAway(p) \/ DoctorReindex(p) \/ DropTables(p) \/ MakeTables(p) \/ RemoveEmpty(p)
               \/ (Render(p) /\ Goto(p, "done"))
      <4>1. Goto(p, "done") \/ Goto(p, "dropped")
        BY <3>1 DEF TurnedAway, DoctorReindex, DropTables, MakeTables, RemoveEmpty
      <4> QED
        BY <4>1, <2>3
    <3>2. CASE Start(p) \/ Take(p) \/ Write(p)
      <4>1. Goto(p, "want") \/ Goto(p, "locked") \/ Goto(p, "finishing") \/ Goto(p, "written")
        BY <3>2 DEF Start, Take, Write
      <4> QED
        BY <4>1, <2>3
    <3>3. CASE Refuse(p) \/ Settle(p) \/ EditorSave(p) \/ EditorQuit(p)
      <4>1. Goto(p, "leave") \/ Goto(p, "done") \/ Goto(p, "closing")
        BY <3>3 DEF Refuse, Settle, After, EditorSave, EditorQuit, EditorDone
      <4> QED
        BY <4>1, <2>3
    <3> QED
      BY <1>1, <3>1, <3>2, <3>3 DEF Plainly
  <2>5. FinishEdit(p) /\ req'[p].pc = "removing" => Empty(file[File(p)])
    BY <2>3 DEF FinishEdit, Pcs
  <2> QED
    BY <2>2, <2>4, <2>5
<1>2. CASE (Render(p) /\ ~Goto(p, "done")) \/ Prepare(p)
  <2>1. PICK l \in {"form", "editor"} : req' = [req EXCEPT ![p].pc = l, ![p].form = file[File(p)]]
    BY SMTT(40), <1>2 DEF Render, Prepare
  <2>2. req'[p].pc = l /\ req'[p].form = file[File(p)] /\ req'[p].seen = req[p].seen
    BY ZenonT(60), <1>0, <2>1, MovesForm DEF Moves, Pcs
  <2> QED
    BY <2>2
<1>3. CASE Check(p)
  <2>1. /\ req'[p].pc = "checked" /\ req'[p].seen = file[File(p)]
        /\ req'[p].form = req[p].form
    BY ZenonT(60), <1>0, <1>3, MovesSeen DEF Check, Moves, Pcs
  <2> QED
    BY <1>3, <2>1
<1>4. CASE BeginWrite(p) \/ ReleaseHandle(p)
  <2>1. cur \in Nat /\ NoHandle \in Nat
    BY <1>0 DEF Counted, NoHandle
  <2>2. PICK l \in {"want", "done"}, h \in Nat : req' = [req EXCEPT ![p].pc = l, ![p].pin = h]
    BY <1>4, <2>1 DEF BeginWrite, ReleaseHandle
  <2>3. req'[p].pc = l /\ req'[p].form = req[p].form /\ req'[p].seen = req[p].seen
    BY <1>0, <2>2, MovesPin DEF Moves, Pcs
  <2> QED
    BY <2>3
<1> QED
  BY <1>1, <1>2, <1>3, <1>4 DEF Advance, Asked, Plainly

\* What was read under the flock stays the file, whoever else moves.
LEMMA CurrentStep ==
    ASSUME HandleInv, Exclusive, Current, [Next]_vars
    PROVE  Current'
<1> SUFFICES ASSUME NEW q \in Procs
             PROVE  CurrentAt(q)'
  BY DEF Current
<1>0. /\ Typed /\ Commands /\ Counted /\ CurrentAt(q)
      /\ \A r \in Procs : req[r].pc \in Locked => holder = r
  BY DEF HandleInv, Exclusive, Current
<1>1. ASSUME mode' = mode, req'[q] = req[q], file'[File(q)] = file[File(q)],
             raced' = raced
      PROVE  CurrentAt(q)'
  BY <1>0, <1>1 DEF CurrentAt, At, File, Verb
<1>2. ASSUME NEW p \in Procs, Advance(p) \/ Asked(p)
      PROVE  CurrentAt(q)'
  <2>1. mode' = mode /\ \A r \in Procs \ {p} : req'[r] = req[r]
    BY <1>0, <1>2, Steps DEF Moves
  <2>2. File(q)' = File(q) /\ Verb(q)' = Verb(q)
    BY <2>1 DEF File, Verb
  <2>3. CASE q # p
    <3>1. req'[q] = req[q]
      BY <2>1, <2>3
    <3>2. CASE req[q].pc \notin {"checked", "removing"}
      BY <3>1, <3>2 DEF CurrentAt, At
    <3>3. CASE req[q].pc \in {"checked", "removing"}
      <4>1. req[p].pc \notin {"checked", "removing"}
        BY <1>0, <2>3, <3>3 DEF Locked
      <4>2. ~Write(p) /\ ~RemoveEmpty(p)
        BY <4>1 DEF Write, RemoveEmpty, At
      <4>3. CASE EditorSave(p) /\ File(q) = File(p)
        <5>1. q \in raced'
          BY <2>3, <3>3, <4>3 DEF EditorSave
        <5> QED
          BY <1>0, <2>2, <3>1, <5>1 DEF CurrentAt, At
      <4>4. CASE EditorSave(p) /\ File(q) # File(p)
        <5>1. q \notin raced' => q \notin raced
          BY <4>4 DEF EditorSave
        <5>2. file'[File(q)] = file[File(q)]
          <6>1. File(q) \in Files /\ file \in [Files -> Revisions]
            BY <1>0, ModeType DEF Typed
          <6>2. PICK r : file' = [file EXCEPT ![File(p)] = r]
            BY <4>4 DEF EditorSave
          <6> QED
            BY <4>4, <6>1, <6>2
        <5> QED
          BY <1>0, <2>2, <3>1, <5>1, <5>2 DEF CurrentAt, At
      <4>5. CASE ~EditorSave(p)
        <5>1. UNCHANGED <<file, raced>>
          BY <1>2, <4>2, <4>5, Still
        <5> QED
          BY <1>1, <2>1, <3>1, <5>1
      <4> QED
        BY <4>3, <4>4, <4>5
    <3> QED
      BY <3>2, <3>3
  <2>4. CASE q = p
    <3>1. CASE req'[q].pc \notin {"checked", "removing"}
      BY <3>1 DEF CurrentAt, At
    <3>2. CASE req'[q].pc = "checked"
      <4>1. Check(q) /\ req'[q].seen = file[File(q)] /\ req'[q].form = req[q].form
        BY <1>2, <2>4, <3>2, InHand
      <4>2. file' = file
        BY <4>1 DEF Check, disk
      <4>3. Verb(q) = "save" => file[File(q)] = req[q].form
        BY <4>1 DEF Check, Clobbers, SameKey
      <4> QED
        BY <2>2, <3>2, <4>1, <4>2, <4>3 DEF CurrentAt, At
    <3>3. CASE req'[q].pc = "removing"
      <4>1. FinishEdit(q) /\ Empty(file[File(q)])
        BY <1>2, <2>4, <3>3, InHand
      <4>2. file' = file
        BY <4>1 DEF FinishEdit, disk
      <4> QED
        BY <2>2, <3>3, <4>1, <4>2 DEF CurrentAt, At
    <3> QED
      BY <3>1, <3>2, <3>3
  <2> QED
    BY <2>3, <2>4
<1>3. CASE UNCHANGED vars \/ Stop \/ Close
  BY <1>1, <1>3 DEF vars, Stop, Close, disk
<1>4. CASE Exit
  <2>1. mode' = mode /\ file' = file /\ raced' = raced
    BY <1>4 DEF Exit, disk
  <2>2. CASE InFlight(q)
    <3>1. req'[q].pc = "done"
      BY <1>0, <1>4, <2>2 DEF Exit, Typed, Requests
    <3> QED
      BY <3>1 DEF CurrentAt, At
  <2>3. CASE ~InFlight(q)
    BY <1>1, <1>4, <2>1, <2>3 DEF Exit
  <2> QED
    BY <2>2, <2>3
<1> QED
  BY <1>2, <1>3, <1>4 DEF Next

\* What the three steps leave in the file.
LEMMA Leaves ==
    ASSUME FileInv, NEW p \in Procs
    PROVE  /\ (Write(p) /\ File(p) \in Notes) => Written(p).fence = {}
           /\ (Write(p) /\ p \notin raced /\ Verb(p) \notin {"set", "delete"})
                 => Edits(file[File(p)]) \subseteq Edits(Written(p))
<1>0. /\ Typed /\ Commands /\ CurrentAt(p) /\ PlainAt(p) /\ \A f \in Notes : file[f].fence = {}
  BY DEF FileInv, HandleInv, Current, NotesPlain
<1> SUFFICES ASSUME Write(p)
             PROVE  /\ File(p) \in Notes => Written(p).fence = {}
                    /\ (p \notin raced /\ Verb(p) \notin {"set", "delete"})
                         => Edits(file[File(p)]) \subseteq Edits(Written(p))
  OBVIOUS
<1>1. /\ Verb(p) \in {"save", "mark", "delete", "pull", "add", "set"} /\ req[p].pc = "checked"
  BY <1>0 DEF Commands, CommandAt, Write, At, Writing
<1>2. \A F, T : Revision(F, T).fence = F /\ Revision(F, T).text = T
  BY DEF Revision
<1>3. /\ p \notin raced => req[p].seen = file[File(p)]
      /\ Verb(p) = "save" => req[p].seen = req[p].form
  BY <1>0, <1>1 DEF CurrentAt, At
<1>4. CASE Verb(p) = "mark"
  BY <1>0, <1>2, <1>3, <1>4, ModeType DEF Written, Rewrite, Edits
<1>5. CASE Verb(p) = "pull"
  BY <1>0, <1>2, <1>3, <1>5 DEF Written, Integrate, Edits, PlainAt
<1>6. CASE Verb(p) = "add"
  BY <1>0, <1>2, <1>3, <1>6, ModeType DEF Written, AppendLine, Edits
<1>7. CASE Verb(p) \in {"set", "delete"}
  BY <1>2, <1>7, MissingType DEF Written, SetNote
<1>8. CASE Verb(p) = "save" /\ File(p) \in Notes
  BY <1>0, <1>2, <1>3, <1>8 DEF Written, SetNote, Edits
<1>9. CASE Verb(p) = "save" /\ File(p) \notin Notes
  BY <1>2, <1>3, <1>9 DEF Written, Splice, Edits
<1> QED
  BY <1>1, <1>4, <1>5, <1>6, <1>7, <1>8, <1>9

\* No step gives a note frontmatter.
LEMMA PlainStep ==
    ASSUME FileInv, [Next]_vars
    PROVE  NotesPlain'
<1>0. /\ HandleInv /\ Typed /\ Commands /\ Counted /\ \A f \in Notes : file[f].fence = {}
      /\ \A q \in Procs : PlainAt(q)
  BY DEF FileInv, HandleInv, NotesPlain
<1>1. Notes \subseteq Files /\ file \in [Files -> Revisions]
  BY <1>0 DEF Files, Typed
<1>2. ASSUME NEW p \in Procs, Advance(p) \/ Asked(p)
      PROVE  NotesPlain'
  <2>1. mode' = mode /\ \A r \in Procs \ {p} : req'[r] = req[r]
    BY <1>0, <1>2, Steps DEF Moves
  <2>2. ASSUME NEW q \in Procs
        PROVE  PlainAt(q)'
    <3>1. File(q)' = File(q)
      BY <2>1 DEF File
    <3>2. CASE q # p
      BY <1>0, <2>1, <3>1, <3>2 DEF PlainAt
    <3>3. CASE q = p
      <4>1. /\ req'[p].form \in {req[p].form, file[File(p)]}
            /\ req'[p].seen \in {req[p].seen, file[File(p)]}
        BY <1>0, <1>2, InHand
      <4> QED
        BY <1>0, <3>1, <3>3, <4>1 DEF PlainAt
    <3> QED
      BY <3>2, <3>3
  <2>3. ASSUME NEW f \in Notes
        PROVE  file'[f].fence = {}
    <3>1. CASE Write(p)
      <4>1. file' = [file EXCEPT ![File(p)] = Written(p)]
        BY <3>1 DEF Write
      <4>2. File(p) \in Notes => Written(p).fence = {}
        BY <3>1, Leaves
      <4> QED
        BY <1>0, <1>1, <4>1, <4>2
    <3>2. CASE EditorSave(p)
      <4>1. PICK text : file' = [file EXCEPT ![File(p)] = Revision(req[p].form.fence, text)]
        BY <3>2 DEF EditorSave
      <4>2. File(p) \in Notes => Revision(req[p].form.fence, text).fence = {}
        BY <1>0 DEF Revision, PlainAt
      <4> QED
        BY <1>0, <1>1, <4>1, <4>2
    <3>3. CASE RemoveEmpty(p)
      BY <1>0, <1>1, <3>3, MissingType DEF RemoveEmpty
    <3>4. CASE ~Write(p) /\ ~EditorSave(p) /\ ~RemoveEmpty(p)
      BY <1>0, <1>2, <3>4, Still
    <3> QED
      BY <3>1, <3>2, <3>3, <3>4
  <2> QED
    BY <2>2, <2>3 DEF NotesPlain
<1>3. CASE UNCHANGED vars \/ Stop \/ Close
  BY <1>0, <1>3 DEF vars, Stop, Close, disk, NotesPlain, PlainAt, File
<1>4. CASE Exit
  <2>1. mode' = mode /\ file' = file
    BY <1>4 DEF Exit, disk
  <2>2. \A q \in Procs : req'[q].form = req[q].form /\ req'[q].seen = req[q].seen
    BY <1>0, <1>4 DEF Exit, Typed, Requests
  <2> QED
    BY <1>0, <2>1, <2>2 DEF NotesPlain, PlainAt, File
<1> QED
  BY <1>2, <1>3, <1>4 DEF Next

LEMMA FileInit ==
    ASSUME Init
    PROVE  FileInv
<1>1. HandleInv
  BY HandleInit
<1>2. \A q \in Procs : req[q].pc = "new" /\ req[q].form = Missing /\ req[q].seen = Missing
  BY DEF Init, Fresh
<1>3. Exclusive /\ Current
  BY <1>2 DEF Exclusive, Current, CurrentAt, At, Locked
<1>4. \A f \in Files : file[f].fence = {}
  <2>1. [Missing EXCEPT !.there = TRUE, !.text = {NoProc}].fence = {}
    BY DEF Missing
  <2> QED
    BY <2>1, MissingType DEF Init
<1>5. NotesPlain
  BY <1>2, <1>4, MissingType DEF NotesPlain, PlainAt, Files
<1> QED
  BY <1>1, <1>3, <1>5 DEF FileInv

LEMMA FileInvariance == Spec => []FileInv
<1>1. Init => FileInv
  BY FileInit
<1>2. HandleInv /\ [Next]_vars => HandleInv'
  BY TypedStep, CommandsStep, HandleStep DEF HandleInv
<1>3. FileInv /\ [Next]_vars => FileInv'
  BY <1>2, ExclusiveStep, CurrentStep, PlainStep DEF FileInv
<1> QED
  BY <1>1, <1>3, PTL DEF Spec

\* Save, mark, add, sync, FinishEdit: no step of any process drops an edit that
\* is in a file, but one that is meant to replace it and one whose file an
\* editor has saved since the process read it, for any number of processes.
THEOREM EditsNeverLost == Spec => NoEditLost
<1> DEFINE Kept(f) ==
      \/ Edits(file[f]) \subseteq Edits(file'[f])
      \/ \E p \in Procs : /\ File(p) = f /\ req'[p].pc # req[p].pc
                          /\ \/ Verb(p) \in {"set", "delete"}
                             \/ At(p, "editor")
                             \/ p \in raced
<1>1. ASSUME FileInv, [Next]_vars, NEW f \in Files
      PROVE  Kept(f)
  <2>0. HandleInv /\ Typed /\ Commands /\ Counted /\ Current /\ file \in [Files -> Revisions]
    BY <1>1 DEF FileInv, HandleInv, Typed
  <2>1. file'[f] = file[f] => Kept(f)
    OBVIOUS
  <2>2. ASSUME NEW p \in Procs, Advance(p) \/ Asked(p)
        PROVE  Kept(f)
    <3>1. ASSUME NEW r, file' = [file EXCEPT ![File(p)] = r], File(p) # f
          PROVE  Kept(f)
      BY <2>0, <2>1, <3>1
    <3>2. CASE Write(p)
      <4>1. req'[p].pc # req[p].pc
        BY <2>0, <3>2, GotoType DEF Write, At, Pcs
      <4>2. CASE File(p) # f
        BY <3>1, <3>2, <4>2 DEF Write
      <4>3. CASE File(p) = f /\ (Verb(p) \in {"set", "delete"} \/ p \in raced)
        BY <4>1, <4>3
      <4>4. CASE File(p) = f /\ Verb(p) \notin {"set", "delete"} /\ p \notin raced
        <5>1. file'[f] = Written(p)
          BY <2>0, <3>2, <4>4 DEF Write
        <5>2. Edits(file[f]) \subseteq Edits(Written(p))
          BY <1>1, <3>2, <4>4, Leaves
        <5> QED
          BY <5>1, <5>2
      <4> QED
        BY <4>2, <4>3, <4>4
    <3>3. CASE EditorSave(p)
      <4>1. req'[p].pc # req[p].pc /\ At(p, "editor")
        BY <2>0, <3>3, GotoType DEF EditorSave, EditorDone, At, Pcs
      <4>2. CASE File(p) # f
        BY <3>1, <3>3, <4>2 DEF EditorSave
      <4>3. CASE File(p) = f
        BY <4>1, <4>3
      <4> QED
        BY <4>2, <4>3
    <3>4. CASE RemoveEmpty(p)
      <4>1. req'[p].pc # req[p].pc /\ At(p, "removing")
        BY <2>0, <3>4, GotoType DEF RemoveEmpty, At, Pcs
      <4>2. CASE File(p) # f
        BY <3>1, <3>4, <4>2 DEF RemoveEmpty
      <4>3. CASE File(p) = f /\ p \in raced
        BY <4>1, <4>3
      <4>4. CASE File(p) = f /\ p \notin raced
        <5>1. Empty(file[f])
          BY <2>0, <4>1, <4>4 DEF Current, CurrentAt
        <5>2. Edits(file[f]) = {}
          BY <5>1 DEF Empty, Edits
        <5> QED
          BY <5>2
      <4> QED
        BY <4>2, <4>3, <4>4
    <3>5. CASE ~Write(p) /\ ~EditorSave(p) /\ ~RemoveEmpty(p)
      BY <2>1, <2>2, <3>5, Still
    <3> QED
      BY <3>2, <3>3, <3>4, <3>5
  <2>3. CASE UNCHANGED vars \/ Stop \/ Close \/ Exit
    BY <2>1, <2>3 DEF vars, Stop, Close, Exit, disk
  <2> HIDE DEF Kept
  <2> QED
    BY <1>1, <2>2, <2>3 DEF Next
<1>2. FileInv /\ [Next]_vars =>
        [\A f \in Files : Edits(file[f]) \subseteq Edits(file'[f])
           \/ \E p \in Procs : /\ File(p) = f /\ req'[p].pc # req[p].pc
                               /\ \/ Verb(p) \in {"set", "delete"}
                                  \/ At(p, "editor")
                                  \/ p \in raced]_vars
  BY <1>1
<1> QED
  BY <1>2, FileInvariance, PTL DEF Spec, NoEditLost
===============================================================================
