------------------------------- MODULE Imports -------------------------------
(***************************************************************************)
(* Timetable worksheets (backend/app/modules/operations/router.py, with    *)
(* create_or_merge_routine_entry and persist_pending_section_references of *)
(* backend/app/modules/academic/routine_router.py).                        *)
(*                                                                         *)
(* A row names a class and the sections that attend it together. The class *)
(* is looked for: sections are added to the one that exists, else it is    *)
(* created. Names of sections that cannot attend yet are kept with the     *)
(* class as pending references until a section of that name attends.       *)
(*                                                                         *)
(* A worksheet is read row by row, then applied row by row, each row in a  *)
(* savepoint, and committed at the end. Nothing is locked.                 *)
(***************************************************************************)
EXTENDS Naturals, Sequences

CONSTANTS
  Kinds,      \* bound: "section", "teacher" and "bulk" worksheets
  Physical,   \* classes: an hour, room, teacher, module and class type
  Names,      \* names of sections of one batch
  Entries,    \* bound: ids of RoutineEntry rows
  Importers,  \* bound: imports in flight
  MaxRows,    \* bound: rows uploaded, in as many worksheets as they make
  MaxChanges, \* bound: routines created or changed by hand
  None        \* no entry

VARIABLES
  ready,      \* names whose section exists and is a member of the offering
  entry,      \* RoutineEntry: pairs of an id and a class
  link,       \* RoutineEntrySection: pairs of an entry and a name
  waiting,    \* RoutinePendingSection without resolved_section_id: such pairs
  resolved,   \* RoutinePendingSection with it: such pairs
  claimed,    \* history: what imports have reported, none of them interfered with
  strayed,    \* history: classes that imports wrote from a stale reading
  job,        \* imports in flight
  uploaded,   \* rows uploaded so far
  changes     \* routines created or changed by hand so far

tables == <<entry, link, waiting, resolved>>
importVars == <<ready, tables, claimed, strayed, job, uploaded, changes>>

Row == [class : Physical, names : (SUBSET Names) \ {{}}]
Files == UNION {[1..k -> Row] : k \in 1..MaxRows}

Nothing == [entry |-> {}, link |-> {}, waiting |-> {}, resolved |-> {}]

\* An import: its rows not read yet, rows read and not applied, the links it
\* has loaded, what it has written, and (history) what it will report.
Idle == [classes |-> {}, rows |-> <<>>, valid |-> <<>>, view |-> {},
         draft |-> Nothing, claim |-> {}, stale |-> FALSE]

\* Names that a set of pairs gives entry e.
Of(e, P) == {n \in Names : <<e, n>> \in P}

\* The mistake of looking before what was written has been flushed.
SeenUnflushed(i) == entry

\* The tables as import i sees them: what is committed and what it has written.
SeenEntries(i) == entry \cup job[i].draft.entry
SeenLinks(i) == link \cup job[i].draft.link
SeenWaiting(i) == (waiting \cup job[i].draft.waiting) \ job[i].draft.resolved
SeenResolved(i) == resolved \cup job[i].draft.resolved

\* What the others have written and not committed.
Elsewhere(i, table) == UNION {job[j].draft[table] : j \in Importers \ {i}}

\* Somebody else has committed something about classes C.
Overtake(jobs, C) ==
  [j \in Importers |-> IF jobs[j].classes \cap C = {} THEN jobs[j]
                       ELSE [jobs[j] EXCEPT !.stale = TRUE]]

(***************************************************************************)
(* Reading a worksheet                                                     *)
(***************************************************************************)

\* An administrator uploads a worksheet of one section (own), of a teacher, or
\* in bulk; how a row is read depends on which.
Upload(i) ==
  /\ job[i] = Idle
  /\ \E kind \in Kinds, f \in Files, n \in Names :
       /\ uploaded + Len(f) <= MaxRows /\ uploaded' = uploaded + Len(f)
       /\ job' = [job EXCEPT ![i].classes = {f[k].class : k \in DOMAIN f},
            ![i].rows = [k \in DOMAIN f |-> [row |-> f[k], kind |-> kind,
                                            own |-> IF kind = "section" THEN {n} ELSE {}]]]
  /\ UNCHANGED <<ready, tables, claimed, strayed, changes>>

\* Only the worksheet of a section may leave names pending; its own section is
\* in every row of it.
Acceptable(r) ==
  IF r.kind = "section" THEN r.own \subseteq r.row.names \cap ready
  ELSE r.row.names \subseteq ready

Resolution(r) ==
  [class |-> r.row.class, sections |-> r.row.names \cap ready, pending |-> r.row.names \ ready]

\* matching_physical_routine. Of several rows the query returns any one.
Matching(i, p) == {e \in Entries : <<e, p.class>> \in SeenEntries(i)}

\* Another row of the class has its teacher and its room at its hour.
Conflict(i, e, p) == \E d \in Entries \ {e} : <<d, p.class>> \in SeenEntries(i)

\* The sections of entry e: read now, or as the session still has them.
Loaded(i, e) == {Of(e, SeenLinks(i)), Of(e, job[i].view)} \ {{}}
View(i, e, seen) == {v \in job[i].view : v[1] # e} \cup ({e} \X seen)

\* validate_timetable_file, a row that is valid
Validate(i) ==
  LET q == job[i]
      p == Resolution(Head(q.rows))
      Read(view) == job' = [job EXCEPT ![i].rows = Tail(q.rows), ![i].view = view,
                                       ![i].valid = Append(q.valid, p)]
  IN /\ q.rows # <<>> /\ Head(q.rows).kind # "bulk" /\ Acceptable(Head(q.rows))
     /\ \/ ~Conflict(i, None, p) /\ Read(q.view)
        \/ \E e \in Matching(i, p) : \E seen \in Loaded(i, e) :
             (p.sections \subseteq seen \/ ~Conflict(i, e, p)) /\ Read(View(i, e, seen))
     /\ UNCHANGED <<ready, tables, claimed, strayed, uploaded, changes>>

(***************************************************************************)
(* Applying it                                                             *)
(***************************************************************************)

\* The mistake of counting a reference that was resolved once as pending still.
EverAwaited(i, e) == Of(e, SeenWaiting(i) \cup SeenResolved(i))

\* Names the class awaits before the row.
Awaited(i, e) == Of(e, SeenWaiting(i))

\* create_or_merge_routine_entry has added sections S to entry e; if the import
\* persists references, persist_pending_section_references follows. A row that is
\* there already makes the savepoint fail (uq_routine_entry_section,
\* uq_routine_pending_entry_name).
Write(i, q, p, e, S, persists) ==
  LET attached == Of(e, SeenLinks(i)) \cup S
      settled == {n \in Of(e, SeenWaiting(i)) \cap attached : persists}
      added == {n \in p.pending \ (attached \cup (Awaited(i, e) \ settled)) : persists}
  IN /\ S \cap Of(e, SeenLinks(i) \cup Elsewhere(i, "link")) = {}
     /\ added \cap Of(e, waiting \cup SeenWaiting(i) \cup SeenResolved(i)
                           \cup Elsewhere(i, "waiting")) = {}
     /\ job' = [job EXCEPT
          ![i] = [q EXCEPT !.claim = @ \cup ({e} \X (p.sections \cup p.pending)),
                           !.draft = [entry |-> @.entry \cup ({<<e, p.class>>} \ entry),
                                      link |-> @.link \cup ({e} \X S),
                                      waiting |-> @.waiting \cup ({e} \X added),
                                      resolved |-> @.resolved \cup ({e} \X settled)]]]

\* An id no row has.
Fresh(e) == \A c \in Physical : \A j \in Importers : <<e, c>> \notin SeenEntries(j)

\* create_or_merge_routine_entry: the class is found, or created.
ApplyRow(i, q, p, persists) ==
  /\ \/ /\ Matching(i, p) = {} /\ ~Conflict(i, None, p) /\ p.sections \subseteq ready
        /\ \E e \in Entries : Fresh(e) /\ Write(i, q, p, e, p.sections, persists)
     \/ \E e \in Matching(i, p) : \E seen \in Loaded(i, e) :
          LET S == p.sections \ seen
          IN /\ S = {} \/ (S \subseteq ready /\ ~Conflict(i, e, p))
             /\ Write(i, [q EXCEPT !.view = View(i, e, seen)], p, e, S, persists)
  /\ UNCHANGED <<ready, tables, claimed, strayed, uploaded, changes>>

\* apply_timetable_import, a row of it
Apply(i) ==
  /\ job[i].rows = <<>> /\ job[i].valid # <<>>
  /\ ApplyRow(i, [job[i] EXCEPT !.valid = Tail(@)], Head(job[i].valid), TRUE)

\* import_routines, a row of it: read and applied at once. Names pending with the
\* class stay so even when their section attends it now.
ApplyBulk(i) ==
  /\ job[i].rows # <<>> /\ Head(job[i].rows).kind = "bulk" /\ Acceptable(Head(job[i].rows))
  /\ ApplyRow(i, [job[i] EXCEPT !.rows = Tail(@)], Resolution(Head(job[i].rows)), FALSE)

\* A row is refused: one of its other columns is wrong, a check failed, or the
\* database refused what it wrote, and its savepoint is rolled back.
RefuseRow(i) ==
  /\ \/ job[i].rows # <<>> /\ job' = [job EXCEPT ![i].rows = Tail(@)]
     \/ job[i].rows = <<>> /\ job[i].valid # <<>> /\ job' = [job EXCEPT ![i].valid = Tail(@)]
  /\ UNCHANGED <<ready, tables, claimed, strayed, uploaded, changes>>

\* The rows that succeeded are committed together. An overtaken import may settle
\* references of sections that have been removed from the class since.
Commit(i) ==
  LET q == job[i]
  IN /\ q # Idle /\ q.rows = <<>> /\ q.valid = <<>>
     /\ entry' = entry \cup q.draft.entry
     /\ link' = link \cup q.draft.link
     /\ waiting' = (waiting \cup q.draft.waiting) \ q.draft.resolved
     /\ resolved' = resolved \cup q.draft.resolved
     /\ IF q.stale
        THEN strayed' = strayed \cup q.classes /\ claimed' = claimed \ (q.draft.resolved \ link')
        ELSE claimed' = claimed \cup q.claim /\ strayed' = strayed
     /\ job' = Overtake([job EXCEPT ![i] = Idle], q.classes)
     /\ UNCHANGED <<ready, uploaded, changes>>

\* The server stops, or the commit fails: nothing of the import is kept.
Lose(i) ==
  /\ job[i] # Idle
  /\ job' = [job EXCEPT ![i] = Idle]
  /\ UNCHANGED <<ready, tables, claimed, strayed, uploaded, changes>>

(***************************************************************************)
(* Changes made by hand, each by a request of its own (Courses has them    *)
(* step by step)                                                           *)
(***************************************************************************)

Planned(C) ==
  changes < MaxChanges /\ changes' = changes + 1 /\ job' = Overtake(job, C)

\* A section is created or joins the offering, or leaves it while it attends no class.
SetReady(n) ==
  /\ n \notin ready \/ \A e \in Entries : <<e, n>> \notin link
  /\ ready' = IF n \in ready THEN ready \ {n} ELSE ready \cup {n}
  /\ UNCHANGED <<tables, claimed, strayed, job, uploaded, changes>>

\* create_routine
CreateRoutine(e, c, S) ==
  /\ Fresh(e) /\ S \subseteq ready /\ \A d \in Entries : <<d, c>> \notin entry
  /\ entry' = entry \cup {<<e, c>>} /\ link' = link \cup ({e} \X S)
  /\ Planned({c})
  /\ UNCHANGED <<ready, waiting, resolved, claimed, strayed, uploaded>>

\* update_routine with section_ids; pending references are not looked at.
UpdateRoutine(e, c, S) ==
  /\ <<e, c>> \in entry /\ S \subseteq ready /\ S # Of(e, link)
  /\ \A d \in Entries \ {e} : <<d, c>> \notin entry
  /\ \A i \in Importers : S \cap Of(e, job[i].draft.link) = {}
  /\ link' = {l \in link : l[1] # e} \cup ({e} \X S)
  /\ claimed' = claimed \ ({e} \X (Of(e, link) \ S))
  /\ Planned({c})
  /\ UNCHANGED <<ready, entry, waiting, resolved, strayed, uploaded>>

\* delete_routine. It waits for those who have written rows of the class.
DeleteRoutine(e, c) ==
  /\ <<e, c>> \in entry
  /\ \A i \in Importers : \A t \in {"link", "waiting", "resolved"} : Of(e, job[i].draft[t]) = {}
  /\ entry' = entry \ {<<e, c>>}
  /\ link' = {l \in link : l[1] # e}
  /\ waiting' = {w \in waiting : w[1] # e}
  /\ resolved' = {w \in resolved : w[1] # e}
  /\ claimed' = {w \in claimed : w[1] # e}
  /\ job' = Overtake(job, {c})
  /\ UNCHANGED <<ready, strayed, uploaded, changes>>

Init ==
  /\ ready \in SUBSET Names
  /\ entry = {} /\ link = {} /\ waiting = {} /\ resolved = {}
  /\ claimed = {} /\ strayed = {}
  /\ job = [i \in Importers |-> Idle]
  /\ uploaded = 0 /\ changes = 0

Next ==
  \/ \E i \in Importers :
       \/ Upload(i) \/ Validate(i) \/ Apply(i) \/ ApplyBulk(i)
       \/ RefuseRow(i) \/ Commit(i) \/ Lose(i)
  \/ \E n \in Names : SetReady(n)
  \/ \E e \in Entries, c \in Physical :
       \/ \E S \in (SUBSET Names) \ {{}} : CreateRoutine(e, c, S) \/ UpdateRoutine(e, c, S)
       \/ DeleteRoutine(e, c)

Spec == Init /\ [][Next]_importVars

(***************************************************************************)
(* Properties                                                              *)
(***************************************************************************)

\* Of every row an import reports as imported, each section attends the class
\* or is pending with it, until somebody removes it (import_section_routine).
NothingForgotten == claimed \subseteq link \cup waiting

\* A class has one row of routine_entries, whichever sections its worksheets
\* name, unless an import of it was overtaken (matching_physical_routine).
OnePhysicalClass ==
  \A d, e \in Entries, c \in Physical :
    <<d, c>> \in entry /\ <<e, c>> \in entry /\ d # e => c \in strayed
=============================================================================
