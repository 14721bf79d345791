----------------------------- MODULE Courses -----------------------------
(***************************************************************************)
(* Course assignments, the sections that attend them and the routine       *)
(* entries planned for them (backend/app/modules/academic:                 *)
(* module_offering_service.py, routine_router.py, router.py).  An offering *)
(* belongs to one batch and has members among the batch's sections; a      *)
(* routine entry belongs to an offering and is attended by some of them.   *)
(*                                                                         *)
(* No table is locked: a request reads, checks, and commits what it        *)
(* computed.  One course, level and semester is modelled, so a batch has   *)
(* at most one offering (uq_module_offering_context).  Times, rooms and    *)
(* teachers of entries are in Timetable.                                   *)
(***************************************************************************)
EXTENDS Naturals

CONSTANTS
  Batches,   \* batches of one program
  Sections,  \* identifiers of sections
  Offerings, \* identifiers of module offerings
  Routines,  \* identifiers of routine entries
  Clerks,    \* requests the server works on at a time
  MaxEdits,  \* bound on moves, updates, merges, changes and removals asked for
  None       \* no row

\* No row is None, and the marks in strayed tell offerings from entries.
CoursesAssumption ==
  /\ None \notin Batches \cup Sections \cup Offerings \cup Routines
  /\ None \notin [batch : Batches, inherit : BOOLEAN]
  /\ None \notin [offering : Offerings \cup {None}, sections : (SUBSET Sections) \ {{}}]
  /\ Offerings \cap Routines = {}

VARIABLES
  home,      \* home[s]: the batch of section s, or None
  offering,  \* offering[o]: the offering's row, or None
  member,    \* pairs of an offering and a section that attends it
  routine,   \* routine[e]: the entry's row, or None
  strayed,   \* offerings and entries written by a request that was overtaken
  work,      \* work[r]: what request r holds
  edits      \* edits asked for so far

courseVars == <<home, offering, member, routine, strayed, work, edits>>

Kept == {None} \* the section_ids of an update that gives none

Edits == {"move", "update", "merge", "change", "removal"}

Free == [op |-> "none", id |-> None, offerings |-> {}, sections |-> {}, stale |-> FALSE]

Offering == [batch : Batches, inherit : BOOLEAN]
Entry == [offering : Offerings \cup {None}, sections : (SUBSET Sections) \ {{}}]

Live(f) == {x \in DOMAIN f : f[x] # None}
Members(o) == {s \in Sections : <<o, s>> \in member}
OfBatch(b) == {s \in Sections : home[s] = b}
OfferingsIn(b) == {o \in Live(offering) : offering[o].batch = b}
Linked(o) == {e \in Live(routine) : routine[e].offering = o}

\* Entries of offering o that section s attends.
Uses(o, s) == {e \in Linked(o) : s \in routine[e].sections}

\* A fresh identifier: no row has it and no request is about to insert it.
Unused(x, f) == f[x] = None /\ \A r \in Clerks : work[r].id # x

(***************************************************************************)
(* A request r concerns a row id, offerings O and sections S.  Whoever     *)
(* else holds a request about one of them when r commits works from a      *)
(* stale reading, and what a stale request commits has strayed.            *)
(***************************************************************************)
Ask(r, op, id, O, S, data) ==
  /\ work[r] = Free
  /\ IF op \in Edits THEN edits < MaxEdits /\ edits' = edits + 1 ELSE edits' = edits
  /\ work' = [work EXCEPT ![r] = [op |-> op, id |-> id, offerings |-> O, sections |-> S,
                                  stale |-> FALSE, data |-> data]]
  /\ UNCHANGED <<home, offering, member, routine, strayed>>

Meets(q, id, O, S) == q.id = id \/ q.offerings \cap O # {} \/ q.sections \cap S # {}

Done(r, id, O, S) ==
  work' = [k \in Clerks |->
             IF k = r THEN Free
             ELSE IF Meets(work[k], id, O, S) THEN [work[k] EXCEPT !.stale = TRUE] ELSE work[k]]

Strays(q, kept) ==
  strayed' = IF ~q.stale THEN kept
             ELSE kept \cup q.offerings \cup {p[1] : p \in {m \in member : m[2] \in q.sections}}
                    \cup {e \in Live(routine) : routine[e].offering \in q.offerings
                                                  \/ routine[e].sections \cap q.sections # {}}
                    \cup ({q.id} \cap Routines)

Commit(r, kept) ==
  /\ Done(r, work[r].id, work[r].offerings, work[r].sections)
  /\ Strays(work[r], kept) /\ UNCHANGED edits

\* A constraint of the database or a row gone missing: nothing is kept.
Abandon(r) ==
  /\ work[r] # Free
  /\ work' = [work EXCEPT ![r] = Free]
  /\ UNCHANGED <<home, offering, member, routine, strayed, edits>>

(***************************************************************************)
(* Sections                                                                *)
(***************************************************************************)

\* Offerings of batch b that take every section.
Inheriting(b) == {o \in OfferingsIn(b) : offering[o].inherit}

AskSection(r, s, b) ==
  /\ Unused(s, home)
  /\ Ask(r, "section", s, Inheriting(b), {s}, b)

\* create_section, by an administrator or by a confirmed action of the assistant.
CreateSection(r) ==
  /\ work[r].op = "section" /\ work[r].offerings \subseteq Live(offering)
  /\ home' = [home EXCEPT ![work[r].id] = work[r].data]
  /\ member' = member \cup (work[r].offerings \X {work[r].id})
  /\ Commit(r, strayed)
  /\ UNCHANGED <<offering, routine>>

\* The mistake of looking at no routine.
MayAlwaysLeave(o, s) == TRUE

\* Whether section s may leave offering o.
MayLeave(o, s) == Uses(o, s) = {}

\* The offerings section s attends.
Current(s) == {o \in Offerings : <<o, s>> \in member}

\* The mistake of keeping what it attended in another batch.
DesiredToo(s, b) == Current(s) \cup Inheriting(b)

\* The offerings it attends once its batch is b.
Desired(s, b) == {o \in Current(s) : offering[o].batch = b} \cup Inheriting(b)

\* update_section: an empty section moves to batch b, or is renamed in it.
AskMove(r, s, b) ==
  /\ home[s] # None
  /\ \A o \in Current(s) \ Desired(s, b) : MayLeave(o, s)
  /\ Ask(r, "move", s, Current(s) \cup Desired(s, b), {s},
         [from |-> home[s], to |-> b, add |-> (Desired(s, b) \ Current(s)) \X {s},
          drop |-> (Current(s) \ Desired(s, b)) \X {s}])

\* The mistake of a membership table without foreign keys.
NoForeignKeys(P) == TRUE

\* The foreign keys of membership rows P are satisfied.
ForeignKeys(P) == \A p \in P : offering[p[1]] # None /\ home[p[2]] # None

\* Changes of the membership table: a pair inserted twice or already gone fails.
Relink(add, drop) ==
  /\ add \cap member = {} /\ drop \subseteq member
  /\ ForeignKeys(add)
  /\ member' = (member \cup add) \ drop

MoveSection(r) ==
  /\ work[r].op = "move" /\ home[work[r].id] # None
  /\ LET d == work[r].data IN
       /\ home' = [home EXCEPT ![work[r].id] = IF d.to = d.from THEN @ ELSE d.to]
       /\ Relink(d.add, d.drop)
  /\ Commit(r, strayed)
  /\ UNCHANGED <<offering, routine>>

\* delete_section: the entries it attends are looked up, and its memberships
\* go with it; a foreign key refuses an entry inserted meanwhile.
DeleteSection(s) ==
  /\ home[s] # None /\ \A e \in Live(routine) : s \notin routine[e].sections
  /\ home' = [home EXCEPT ![s] = None]
  /\ member' = {p \in member : p[2] # s}
  /\ work' = [k \in Clerks |-> IF Meets(work[k], s, Current(s), {s})
                               THEN [work[k] EXCEPT !.stale = TRUE] ELSE work[k]]
  /\ UNCHANGED <<offering, routine, strayed, edits>>

(***************************************************************************)
(* Offerings                                                               *)
(***************************************************************************)

AskOffering(r, o, b, S) ==
  /\ Unused(o, offering) /\ S \subseteq OfBatch(b) /\ OfferingsIn(b) = {}
  /\ LET T == IF S = {} THEN OfBatch(b) ELSE S IN
       Ask(r, "offering", o, {o}, T, [batch |-> b, inherit |-> S = {}])

CreateOffering(r) ==
  /\ work[r].op = "offering" /\ OfferingsIn(work[r].data.batch) = {}
  /\ work[r].sections \subseteq Live(home)
  /\ offering' = [offering EXCEPT ![work[r].id] = work[r].data]
  /\ member' = member \cup ({work[r].id} \X work[r].sections)
  /\ Commit(r, strayed \ {work[r].id})
  /\ UNCHANGED <<home, routine>>

\* The members an update leaves an offering of batch b with: no section_ids
\* makes every section of the batch a member, an empty list none.
NewMembers(b, S) == IF S = Kept THEN OfBatch(b) ELSE S

\* update_module_offering and set_module_offering_activation.
AskUpdate(r, o, b, S) ==
  /\ offering[o] # None
  /\ offering[o].batch = b \/ Linked(o) = {}
  /\ OfferingsIn(b) \subseteq {o}
  /\ S = Kept \/ S \subseteq OfBatch(b)
  /\ \A s \in Members(o) \ NewMembers(b, S) : MayLeave(o, s)
  /\ Ask(r, "update", o, {o}, Members(o) \cup NewMembers(b, S),
         [found |-> offering[o],
          row |-> [batch |-> b, inherit |-> IF S = Kept THEN offering[o].inherit ELSE S = {}],
          kept |-> S = Kept,
          add |-> {o} \X (NewMembers(b, S) \ Members(o)),
          drop |-> {o} \X (Members(o) \ NewMembers(b, S))])

\* The columns the request changed, over what it had read.
Merged(now, d) ==
  [c \in DOMAIN now |-> IF d.row[c] = d.found[c] THEN now[c] ELSE d.row[c]]

UpdateOffering(r) ==
  /\ work[r].op = "update" /\ offering[work[r].id] # None
  /\ LET o == work[r].id
         d == work[r].data
         row == Merged(offering[o], d) IN
       /\ OfferingsIn(row.batch) \subseteq {o}
       /\ offering' = [offering EXCEPT ![o] = row]
       /\ Relink(d.add, d.drop)
  /\ Commit(r, strayed)
  /\ UNCHANGED <<home, routine>>

\* The mistake of deleting whatever is linked.
AlwaysDeletable(o) == TRUE

\* Whether offering o may be deleted.
Deletable(o) == Linked(o) = {}

AskRemoval(r, o) ==
  /\ offering[o] # None /\ Deletable(o)
  /\ Ask(r, "removal", o, {o}, {}, None)

\* delete_module_offering: an entry linked since is left without an offering.
RemoveOffering(r) ==
  /\ work[r].op = "removal" /\ offering[work[r].id] # None
  /\ LET o == work[r].id IN
       /\ offering' = [offering EXCEPT ![o] = None]
       /\ member' = {p \in member : p[1] # o}
       /\ routine' = [e \in Routines |-> IF e \in Linked(o) THEN [routine[e] EXCEPT !.offering = None]
                                         ELSE routine[e]]
  /\ Commit(r, strayed)
  /\ UNCHANGED home

(***************************************************************************)
(* Routine entries                                                         *)
(***************************************************************************)

\* The mistake of forgetting the membership.
ResolvesByBatch(o, S) ==
  /\ S # {} /\ offering[o] # None
  /\ \A s \in S : home[s] = offering[o].batch

\* resolve_active_module_offering: the active offering of the batch of all the
\* sections of S, when they are all members of it.
Resolves(o, S) ==
  /\ S # {} /\ offering[o] # None
  /\ \A s \in S : home[s] = offering[o].batch
  /\ S \subseteq Members(o)

AskEntry(r, e, o, S) ==
  /\ Unused(e, routine) /\ Resolves(o, S)
  /\ Ask(r, "entry", e, {o}, S, None)

CreateEntry(r) ==
  /\ work[r].op = "entry"
  /\ work[r].offerings \subseteq Live(offering) /\ work[r].sections \subseteq Live(home)
  /\ \E o \in work[r].offerings :
       routine' = [routine EXCEPT ![work[r].id] = [offering |-> o, sections |-> work[r].sections]]
  /\ Commit(r, strayed \ {work[r].id})
  /\ UNCHANGED <<home, offering, member>>

\* merge_routine_entry_sections: further sections of the same offering attend.
AskMerge(r, e, o, S) ==
  /\ routine[e] # None /\ routine[e].offering = o
  /\ S \cap routine[e].sections = {} /\ Resolves(o, S)
  /\ Ask(r, "merge", e, {o}, S, None)

MergeEntry(r) ==
  /\ work[r].op = "merge" /\ routine[work[r].id] # None
  /\ LET S == work[r].sections IN
       /\ S \subseteq Live(home) /\ S \cap routine[work[r].id].sections = {}
       /\ routine' = [routine EXCEPT ![work[r].id].sections = @ \cup S]
  /\ Commit(r, strayed)
  /\ UNCHANGED <<home, offering, member>>

\* update_routine: the entry is resolved again, with its sections or with S.
AskChange(r, e, o, S) ==
  /\ routine[e] # None /\ Resolves(o, S)
  /\ Ask(r, "change", e, {o}, S, routine[e])

ChangeEntry(r) ==
  /\ work[r].op = "change" /\ routine[work[r].id] # None
  /\ LET e == work[r].id
         S == work[r].sections IN
       /\ work[r].offerings \subseteq Live(offering)
       /\ S \subseteq Live(home)
       /\ S = work[r].data.sections \/ routine[e].sections = work[r].data.sections
       /\ \E o \in work[r].offerings :
            routine' = [routine EXCEPT ![e] =
              [offering |-> IF o = work[r].data.offering THEN @.offering ELSE o,
               sections |-> IF S = work[r].data.sections THEN @.sections ELSE S]]
  /\ Commit(r, strayed)
  /\ UNCHANGED <<home, offering, member>>

DeleteEntry(e) ==
  /\ routine[e] # None
  /\ routine' = [routine EXCEPT ![e] = None]
  /\ UNCHANGED <<home, offering, member, strayed, work, edits>>

(***************************************************************************)
(* The component                                                           *)
(***************************************************************************)

Init ==
  /\ home = [s \in Sections |-> None] /\ offering = [o \in Offerings |-> None]
  /\ member = {} /\ routine = [e \in Routines |-> None] /\ strayed = {}
  /\ work = [r \in Clerks |-> Free] /\ edits = 0

Sectioning ==
  \/ \E r \in Clerks, s \in Sections, b \in Batches : AskSection(r, s, b) \/ AskMove(r, s, b)
  \/ \E r \in Clerks : CreateSection(r) \/ MoveSection(r) \/ Abandon(r)
  \/ \E s \in Sections : DeleteSection(s)

Assigning ==
  \/ \E r \in Clerks, o \in Offerings, b \in Batches, S \in SUBSET Sections :
       AskOffering(r, o, b, S)
  \/ \E r \in Clerks, o \in Offerings, b \in Batches, S \in (SUBSET Sections) \cup {Kept} :
       AskUpdate(r, o, b, S)
  \/ \E r \in Clerks, o \in Offerings : AskRemoval(r, o)
  \/ \E r \in Clerks : CreateOffering(r) \/ UpdateOffering(r) \/ RemoveOffering(r)

Planning ==
  \/ \E r \in Clerks, e \in Routines, o \in Offerings, S \in SUBSET Sections :
       AskEntry(r, e, o, S) \/ AskMerge(r, e, o, S) \/ AskChange(r, e, o, S)
  \/ \E r \in Clerks : CreateEntry(r) \/ MergeEntry(r) \/ ChangeEntry(r)
  \/ \E e \in Routines : DeleteEntry(e)

Next == Sectioning \/ Assigning \/ Planning

Spec == Init /\ [][Next]_courseVars

----------------------------------------------------------------------------
\* Rows have their types, and a batch has one offering of the course.
TypeOK ==
  /\ home \in [Sections -> Batches \cup {None}]
  /\ offering \in [Offerings -> Offering \cup {None}]
  /\ \A p \in member : offering[p[1]] # None /\ home[p[2]] # None
  /\ routine \in [Routines -> Entry \cup {None}]
  /\ \A o, p \in Live(offering) : offering[o].batch = offering[p].batch => o = p

\* The members of an offering are sections of its batch ("Keep offering
\* membership inside its cohort", synchronize_offering_sections), unless a
\* request about them committed what another had made stale.
MembersInBatch ==
  \A p \in member : p[1] \in strayed \/ home[p[2]] = offering[p[1]].batch

\* A routine entry stays within an offering, and every section that attends it
\* stays a member of that offering, whoever moves sections or edits offerings
\* in the meantime, unless a request was overtaken
\* (validate_routine_entry_module_offering holds at rest).
EntryWithinOffering ==
  \A e \in Live(routine) :
    e \in strayed \/ (routine[e].offering # None /\ routine[e].sections \subseteq Members(routine[e].offering))

\* "Optional explicit sections; omit to keep current membership"
\* (ModuleOfferingUpdate, routine_router.py): an update that names no sections
\* and stays in the batch leaves an offering its explicitly chosen members.
OmittedSectionsKept ==
  [][\A r \in Clerks :
       (/\ work[r].op = "update" /\ work[r].data.kept /\ work'[r] = Free
        /\ offering'[work[r].id] = offering[work[r].id] /\ ~work[r].data.found.inherit)
         => {s \in Sections : <<work[r].id, s>> \in member'} = Members(work[r].id)]_courseVars
=============================================================================
