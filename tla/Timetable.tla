------------------------------- MODULE Timetable -------------------------------
(***************************************************************************)
(* The weekly plan, its changes on single dates and makeup classes         *)
(* (src/backend/app/modules/academic/routine_router.py, scheduling/,       *)
(* course_completion/).                                                    *)
(*                                                                         *)
(* One week: every day is one date. A place is an hour in a room. Teachers *)
(* and sections are compared exactly as rooms are and are left out.        *)
(*                                                                         *)
(* A request looks for conflicts first and writes afterwards, and nothing  *)
(* is locked in between. So it is one step that checks and one that        *)
(* commits.                                                                *)
(***************************************************************************)
EXTENDS Naturals, Sequences, FiniteSets

CONSTANTS
  Classes, Days, Places,
  None,             \* no day; no other place (a column that is NULL)
  Off,              \* is_cancelled
  Targets,          \* bound: what changes are asked for
  Requests,         \* bound: handlers in flight
  MaxSuggestions,   \* bound: suggestions
  MaxWork           \* bound: updates and overrides together

ASSUME TimetableAssumption ==
  /\ None \notin Classes \cup Days \cup Places /\ Off \notin Places
  /\ Targets \subseteq Places \cup {None, Off}
  /\ IsFiniteSet(Requests) /\ MaxSuggestions \in Nat /\ MaxWork \in Nat

VARIABLES
  routine,      \* RoutineEntry: day_of_week and place; day None: no such entry
  overrides,    \* ScheduleOverrides in the order of their ids
  suggestions,  \* MakeupSuggestions in the order of their ids
  req,          \* requests in flight
  edits,        \* how many updates of classes there have been
  raced,        \* history: pairs, one placed while the other was being placed
  loose         \* history: <<class, day>> not checked against all of that day

plan == <<routine, edits, raced>>
vars == <<plan, overrides, suggestions, req, loose>>

Override == [class : Classes, day : Days, to : Places \cup {None, Off}, makeup : BOOLEAN,
             status : {"pending", "approved", "rejected"},
             late : BOOLEAN]    \* history: checked before its class was changed

Suggestion == [class : Classes, day : Days, to : Places,
               status : {"pending", "approved", "rejected"}]

\* A request: what it is about, the plan as it was read, and (history) the
\* classes that others have written since
Idle == [op |-> "idle", class |-> None, day |-> None, to |-> None, row |-> 0,
         was |-> [day |-> None, place |-> None], behind |-> {}]

Nowhere == [day |-> None, place |-> None]
Exists(c) == routine[c].day # None
OnPlan(c, d) == routine[c].day = d

\* approved_routine_override. Of several rows the query returns any one.
Approved(c, d) ==
  {i \in DOMAIN overrides : /\ overrides[i].class = c /\ overrides[i].day = d
                            /\ overrides[i].status = "approved"}

\* Makeups count on any day, other changes on the day of the plan only.
Counting(c, d) ==
  {i \in Approved(c, d) : OnPlan(c, d) \/ overrides[i].makeup}

Target(o) == IF o.to = None THEN routine[o.class].place ELSE o.to

\* resolve_effective_class: what may become of the class on that date
Outcomes(c, d) ==
  CASE Counting(c, d) # {} -> {Target(overrides[i]) : i \in Counting(c, d)}
    [] Counting(c, d) = {} /\ OnPlan(c, d) -> {routine[c].place}
    [] OTHER -> {}

Held(c, d) == Outcomes(c, d) \ {Off}

\* history: somebody's makeup on d, or a second row of c, is not looked at
Unseen(c, d) ==
  \/ Approved(c, d) # {}
  \/ \E x \in Classes \ {c} : ~OnPlan(x, d) /\ Counting(x, d) # {}

Changed(d) == \E c \in Classes : Approved(c, d) # {}

\* The requests R end; the others have not seen what was written of class c.
Overtake(R, c) ==
  req' = [q \in Requests |->
            IF q \in R THEN Idle
            ELSE [req[q] EXCEPT !.behind = @ \cup {x \in {c} : req[q].class # None}]]

Done(r, c) == Overtake({r}, c)

Ask(r, q) == req[r] = Idle /\ req' = [req EXCEPT ![r] = q]

\* Class c was compared with all of date d, or not. Of the other days only those
\* matter on which it may be held.
Loose(c, d, really) ==
  loose' = {s \in loose : s[1] # c \/ (s[2] # d /\ Outcomes(s[1], s[2]) # {})}
             \cup {s \in {<<c, d>>} : really}

\* bound
Room ==
  LET asked == {q \in Requests : req[q].op \in {"place", "request", "makeup"}}
  IN edits + Len(overrides) + Cardinality(asked) < MaxWork

\* nor is what happens to a class when there is nothing else
Alone(c) ==
  /\ \A x \in Classes \ {c} : ~Exists(x)
  /\ overrides = <<>> /\ \A r \in Requests : req[r] = Idle
-----------------------------------------------------------------------------
\* mutant: the conflicts of the day the class has now
WeekFreeAsPlanned(c, d, p) ==
  \A x \in Classes \ {c} : ~OnPlan(x, routine[c].day) \/ routine[x].place # p

\* routine_conflicts compares with the weekly plan only
WeekFree(c, d, p) == \A x \in Classes \ {c} : ~OnPlan(x, d) \/ routine[x].place # p

\* create_routine, update_routine
AskPlace(r, c, d, p) ==
  /\ routine[c] # [day |-> d, place |-> p]
  /\ Room \/ Alone(c)
  /\ Exists(c) \/ \A q \in Requests : req[q].class # c
  /\ WeekFree(c, d, p)
  /\ Ask(r, [Idle EXCEPT !.op = "place", !.class = c, !.day = d, !.to = p,
                         !.was = routine[c]])
  /\ UNCHANGED <<plan, overrides, suggestions, loose>>

\* The update names the columns that differ from those read.
Place(r) ==
  LET q == req[r]  c == q.class
      new == [day   |-> IF q.day # q.was.day THEN q.day ELSE routine[c].day,
              place |-> IF q.to # q.was.place THEN q.to ELSE routine[c].place]
      new_pairs == IF c \in q.behind THEN Classes ELSE q.behind
  IN
  /\ q.op = "place"
  /\ Exists(c) \/ q.was.day = None
  /\ routine' = [routine EXCEPT ![c] = new]
  /\ edits' = IF edits + Len(overrides) < MaxWork THEN edits + 1 ELSE edits
  /\ raced' = {s \in raced : c \notin s} \cup {{c, x} : x \in new_pairs \ {c}}
  /\ Loose(c, new.day, q.behind # {} \/ Changed(new.day))
  /\ Done(r, c)
  /\ UNCHANGED <<overrides, suggestions>>

\* mutant: delete_routine does not mind what refers to the class
AlwaysDeletable(c) == TRUE

\* the foreign keys of overrides and suggestions
Deletable(c) ==
  /\ \A i \in DOMAIN overrides : overrides[i].class # c
  /\ \A i \in DOMAIN suggestions : suggestions[i].class # c

\* delete_routine
Delete(c) ==
  /\ Exists(c) /\ Deletable(c)
  /\ routine' = [routine EXCEPT ![c] = Nowhere]
  /\ Overtake({}, c)
  /\ raced' = {s \in raced : c \notin s}
  /\ loose' = {s \in loose : s[1] # c}
  /\ UNCHANGED <<edits, overrides, suggestions>>

\* A request whose class is gone fails: no row to update, no key to refer to.
Fail(r) ==
  /\ req[r].op = "place" => req[r].was.day # None
  /\ req[r].op \in {"place", "request"} /\ ~Exists(req[r].class)
  /\ req' = [req EXCEPT ![r] = Idle]
  /\ UNCHANGED <<plan, overrides, suggestions, loose>>
-----------------------------------------------------------------------------
\* mutant: routine_override_conflicts compares with the plan, not the date
FreeAsPlanned(c, d, p) == WeekFree(c, d, p)

\* routine_override_conflicts: the other classes of that weekday, as they are
\* held on the date. What is cancelled is in nobody's way.
Free(c, d, p) ==
  p # Off => \A x \in Classes \ {c} : OnPlan(x, d) => Outcomes(x, d) # {p}

\* mutant: only an override that was approved stands in the way
NotYetChanged(c, d) == Approved(c, d) = {}

\* create_routine_override: no override of that class and date, of any status
NotChanged(c, d) ==
  \A i \in DOMAIN overrides : overrides[i].class # c \/ overrides[i].day # d

\* create_routine_override looks
AskOverride(r, c, d, p) ==
  /\ OnPlan(c, d) /\ NotChanged(c, d)
  /\ Free(c, d, IF p = None THEN routine[c].place ELSE p)
  /\ Room
  /\ Ask(r, [Idle EXCEPT !.op = "request", !.class = c, !.day = d, !.to = p])
  /\ UNCHANGED <<plan, overrides, suggestions, loose>>

\* and adds the override
Request(r) ==
  LET q == req[r] IN
  /\ q.op = "request" /\ Exists(q.class)
  /\ overrides' = Append(overrides,
       [class |-> q.class, day |-> q.day, to |-> q.to, makeup |-> FALSE,
        status |-> "pending", late |-> q.class \in q.behind])
  /\ Done(r, q.class)
  /\ UNCHANGED <<plan, suggestions, loose>>

\* decide_routine_override: an approval looks for conflicts again
AskApproval(r, i) ==
  LET o == overrides[i] IN
  /\ i \in DOMAIN overrides /\ o.status # "approved"
  /\ o.makeup \/ OnPlan(o.class, o.day)
  /\ Free(o.class, o.day, Target(o))
  /\ Ask(r, [Idle EXCEPT !.op = "approve", !.class = o.class, !.day = o.day, !.row = i])
  /\ UNCHANGED <<plan, overrides, suggestions, loose>>

Approve(r) ==
  LET q == req[r] IN
  /\ q.op = "approve"
  /\ overrides' = [overrides EXCEPT ![q.row].status = "approved"]
  /\ Loose(q.class, q.day, q.behind # {} \/ Unseen(q.class, q.day))
  /\ Done(r, q.class)
  /\ UNCHANGED <<plan, suggestions>>

\* a rejection does not, nor does decide_override of scheduling/router.py
Decide(r, i, status) ==
  LET o == overrides[i] IN
  /\ req[r] = Idle
  /\ i \in DOMAIN overrides /\ o.status # status
  /\ overrides' = [overrides EXCEPT ![i].status = status]
  /\ Loose(o.class, o.day, \/ <<o.class, o.day>> \in loose
                           \/ "approved" \in {o.status, status})
  /\ Done(r, o.class)
  /\ UNCHANGED <<plan, suggestions>>
-----------------------------------------------------------------------------
\* find_makeup_slot: a day the class is not on and has no override of, and a
\* place no class of that weekday holds on that date
Suggest(c, d, p) ==
  /\ Exists(c) /\ ~OnPlan(c, d)
  /\ NotChanged(c, d)
  /\ \A x \in Classes : OnPlan(x, d) => p \notin Held(x, d)
  /\ Len(suggestions) < MaxSuggestions
  /\ suggestions' = Append(suggestions,
       [class |-> c, day |-> d, to |-> p, status |-> "pending"])
  /\ UNCHANGED <<plan, overrides, req, loose>>

\* decide reads the suggestion; an approval looks for conflicts
AskMakeup(r, j) ==
  LET s == suggestions[j] IN
  /\ j \in DOMAIN suggestions /\ s.status = "pending"
  /\ Free(s.class, s.day, s.to)
  /\ Room
  /\ Ask(r, [Idle EXCEPT !.op = "makeup", !.class = s.class, !.day = s.day,
                         !.to = s.to, !.row = j])
  /\ UNCHANGED <<plan, overrides, suggestions, loose>>

Makeup(r) ==
  LET q == req[r] IN
  /\ q.op = "makeup"
  /\ suggestions' = [suggestions EXCEPT ![q.row].status = "approved"]
  /\ overrides' = Append(overrides,
       [class |-> q.class, day |-> q.day, to |-> q.to, makeup |-> TRUE,
        status |-> "approved", late |-> q.class \in q.behind])
  /\ Loose(q.class, q.day, q.behind # {} \/ Unseen(q.class, q.day))
  /\ Done(r, q.class)
  /\ UNCHANGED <<plan>>

AskRefusal(r, j) ==
  /\ j \in DOMAIN suggestions /\ suggestions[j].status = "pending"
  /\ Ask(r, [Idle EXCEPT !.op = "refuse", !.row = j])
  /\ UNCHANGED <<plan, overrides, suggestions, loose>>

Refuse(r) ==
  /\ req[r].op = "refuse"
  /\ suggestions' = [suggestions EXCEPT ![req[r].row].status = "rejected"]
  /\ req' = [req EXCEPT ![r] = Idle]
  /\ UNCHANGED <<plan, overrides, loose>>
-----------------------------------------------------------------------------
Init ==
  /\ routine \in [Classes -> [day : Days, place : Places] \cup {Nowhere}]
  /\ \A c, x \in Classes : c # x /\ Exists(c) => routine[c] # routine[x]
  /\ edits = 0
  /\ overrides = <<>> /\ suggestions = <<>>
  /\ req = [r \in Requests |-> Idle]
  /\ raced = {} /\ loose = {}

Planning ==
  \/ \E r \in Requests, c \in Classes, d \in Days, p \in Places : AskPlace(r, c, d, p)
  \/ \E r \in Requests : Place(r) \/ Fail(r)
  \/ \E c \in Classes : Delete(c)

Changing ==
  \/ \E r \in Requests, c \in Classes, d \in Days, p \in Targets : AskOverride(r, c, d, p)
  \/ \E r \in Requests, i \in 1..MaxWork :
       AskApproval(r, i) \/ \E v \in {"approved", "rejected"} : Decide(r, i, v)
  \/ \E r \in Requests : Request(r) \/ Approve(r)

Completing ==
  \/ \E c \in Classes, d \in Days, p \in Places : Suggest(c, d, p)
  \/ \E r \in Requests, j \in 1..MaxSuggestions : AskMakeup(r, j) \/ AskRefusal(r, j)
  \/ \E r \in Requests : Makeup(r) \/ Refuse(r)

Next == Planning \/ Changing \/ Completing

Spec == Init /\ [][Next]_vars
-----------------------------------------------------------------------------
\* Types, and the foreign keys: whatever refers to a class finds it (models of
\* scheduling and course_completion).
TypeOK ==
  /\ routine \in [Classes -> [day : Days, place : Places] \cup {Nowhere}]
  /\ overrides \in Seq(Override) /\ Len(overrides) <= MaxWork
  /\ suggestions \in Seq(Suggestion) /\ Len(suggestions) <= MaxSuggestions
  /\ \A i \in DOMAIN overrides : Exists(overrides[i].class)
  /\ \A j \in DOMAIN suggestions : Exists(suggestions[j].class)

\* The weekly plan has two classes in one place only if one of them was placed
\* while the other was being placed (routine_conflicts, update_routine): edits
\* and deletions in any order leave no other way.
WeekClear ==
  \A c, x \in Classes :
    c # x /\ Exists(c) /\ routine[c] = routine[x] => {c, x} \in raced

\* On a date two classes meet in one place only if one of them got there
\* without the comparison with what the date holds: by a request another one
\* overtook, an edit of the plan of a day that has approved overrides, the
\* rejection of an approved one, the decision endpoint of scheduling, next to
\* a makeup, or with two overrides (routine_override_conflicts, its callers).
DateClear ==
  \A c, x \in Classes, d \in Days :
    c # x /\ Held(c, d) \cap Held(x, d) # {} => {<<c, d>>, <<x, d>>} \cap loose # {}

\* A class gets a second override of one date only as a makeup, or by a request
\* that looked before the class was changed (create_routine_override; there is
\* no unique constraint for routines).
OneOverride ==
  \A i, j \in DOMAIN overrides :
    /\ i < j
    /\ overrides[i].class = overrides[j].class /\ overrides[i].day = overrides[j].day
    => overrides[j].makeup \/ overrides[j].late
=============================================================================
