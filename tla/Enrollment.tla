------------------------------ MODULE Enrollment ------------------------------
(***************************************************************************)
(* Dated section placements of the students of one batch                   *)
(* (src/backend/app/modules/academic/promotion_service.py and              *)
(* promotion_router.py): semesters with dates, placements by assignment,   *)
(* promotion, move and release, and the runs that record promotions.       *)
(*                                                                         *)
(* No handler of these modules locks a row. Each reads what it decides on, *)
(* builds the changes of its unit of work and commits them later, updating *)
(* rows by primary key; a transaction that commits in between is not seen. *)
(* So an operation is a first step that puts its changes in todo and the   *)
(* step Commit. A preview only reads; the signature it hands out lets an   *)
(* apply through only when the decisions are the same again, so an apply   *)
(* decides on the rows it reads itself.                                    *)
(***************************************************************************)
EXTENDS Naturals, Sequences

CONSTANTS
  Students, Sections,
  None,         \* no section: no such student yet
  N,            \* bound: semesters 1..N of the batch
  LastDay,      \* bound: the batch lasts from day 1 to this one
  Starts, Ends, \* bound: days on which semesters start and end, students come
  Handlers,     \* bound: requests in flight
  MaxEdits,     \* bound: how often semesters are created or get new dates
  MaxRows       \* bound: placements of a student before another is asked for

ASSUME EnrollmentAssumption ==
  /\ N \in Nat /\ LastDay \in Nat /\ MaxRows \in Nat /\ MaxEdits \in Nat
  /\ None \notin Sections
  /\ Starts \subseteq 1..LastDay /\ Ends \subseteq 1..LastDay

VARIABLES
  sem,          \* CohortSemester n: dates (0: not created) and calendar
  rows,         \* the StudentEnrollments of a student in the order of their ids
  section,      \* Student.section_id
  runs,         \* PromotionRuns with their items, in the order of their ids
  todo,         \* requests in flight: what they will write
  edits         \* how many of them are changes of semesters, up to now

vars == <<sem, rows, section, runs, todo, edits>>

Days == 1..LastDay
Never == LastDay + 1    \* ends_on IS NULL
Semesters == 1..N

\* sem 0: cohort_semester_id IS NULL
Row == [section : Sections, sem : 0..N, from : Days, to : 1..Never]

\* What a unit of work does to one student. It ends the row (empty or one
\* index) on day until, or only adopts it into a semester; it adds rows and,
\* unless None, overwrites section_id. held: the decision of a run.
Change == [row : SUBSET (Nat \ {0}), until : 0..LastDay, adopt : 0..N,
           new : Seq(Row), goes : Sections \cup {None}, held : BOOLEAN]

NoChange == [s \in {} |-> {}]
Idle == [at |-> "idle", sem |-> 0, day |-> 0, last |-> 0, run |-> 0,
         change |-> NoChange]

Exists(n) == n \in Semesters /\ sem[n].start # 0
Known == {s \in Students : section[s] # None}
-----------------------------------------------------------------------------
Covers(row, d) == row.from <= d /\ d < row.to

\* the order of student_enrollment_at: latest start, then latest id
NotAfter(s, j, k) ==
  \/ rows[s][j].from < rows[s][k].from
  \/ rows[s][j].from = rows[s][k].from /\ j <= k

\* student_enrollment_at: the row in force on day d, if there is one
Current(s, d) ==
  {k \in DOMAIN rows[s] :
     /\ Covers(rows[s][k], d)
     /\ \A j \in DOMAIN rows[s] : Covers(rows[s][j], d) => NotAfter(s, j, k)}

\* student_section_at
SectionAt(s, d) ==
  IF Current(s, d) = {} THEN section[s]
  ELSE rows[s][CHOOSE k \in Current(s, d) : TRUE].section

\* _source_students: those with a dated row of the semester or, when nobody
\* has one, everybody in the batch
SourceStudents(n, d) ==
  LET dated == {s \in Known : \E k \in DOMAIN rows[s] :
                                rows[s][k].sem = n /\ Covers(rows[s][k], d)}
  IN  IF dated # {} THEN dated ELSE Known

Placed(s, n) == \E k \in DOMAIN rows[s] : rows[s][k].sem = n

Opens(sec, n, d) == [section |-> sec, sem |-> n, from |-> d, to |-> Never]

\* one row is closed on the day the next one opens
HandOver(old, sec, n, d) ==
  [row |-> old, until |-> d, adopt |-> 0, new |-> <<Opens(sec, n, d)>>,
   goes |-> sec, held |-> FALSE]

Room(S) == \A s \in S : Len(rows[s]) < MaxRows

Ask(h, req) ==
  /\ todo[h] = Idle
  /\ Room(DOMAIN req.change)
  /\ todo' = [todo EXCEPT ![h] = req]
  /\ UNCHANGED <<sem, rows, section, runs, edits>>

-----------------------------------------------------------------------------
\* mutant: a held student's placement ends as well
DecisionEnds(s, n, day, held, sec) ==
  LET cur == Current(s, day - 1) IN
  [row |-> cur, until |-> day, adopt |-> n,
   new |-> IF held THEN <<>> ELSE <<Opens(sec, n + 1, day)>>,
   goes |-> IF held THEN None ELSE sec, held |-> held]

\* apply_promotion for one student of the source semester n. One without a
\* placement gets the missing row of the source semester first.
Decision(s, n, day, held, sec) ==
  LET cur     == Current(s, day - 1)
      missing == [section |-> section[s], sem |-> n, from |-> sem[n].start,
                  to |-> IF held THEN Never ELSE day]
      source  == IF cur = {} THEN <<missing>> ELSE <<>>
      target  == IF held THEN <<>> ELSE <<Opens(sec, n + 1, day)>>
  IN  [row |-> cur, until |-> IF held THEN 0 ELSE day, adopt |-> n,
       new |-> source \o target, goes |-> IF held THEN None ELSE sec,
       held |-> held]

\* validate_promotion_context
Promotable(n) ==
  /\ Exists(n) /\ Exists(n + 1)
  /\ sem[n + 1].start > sem[n].end
  /\ sem[n + 1].ready
  /\ \A i \in DOMAIN runs : runs[i].from # n

\* create_promotion: students in hold stay, the others go to the sections the
\* strategy and the manual overrides give them
Promote(h, n, hold, place) ==
  LET day == sem[n + 1].start
      who == SourceStudents(n, day - 1)
  IN  /\ Promotable(n)
      /\ hold \subseteq who
      /\ Ask(h, [Idle EXCEPT !.at = "promote", !.sem = n, !.day = day,
           !.change = [s \in who |-> Decision(s, n, day, s \in hold, place[s])]])

\* process_due_promotions: nobody is held, everybody keeps his section
ProcessDue(h, n) ==
  /\ Promotable(n)
  /\ LET day == sem[n + 1].start
         who == SourceStudents(n, day - 1)
     IN  Ask(h, [Idle EXCEPT !.at = "promote", !.sem = n, !.day = day,
           !.change = [s \in who |->
             Decision(s, n, day, FALSE, SectionAt(s, day - 1))]])

\* apply_initial_assignment: a placement of another semester in force on the
\* day before is closed
Assign(h, n, who, place) ==
  LET day == sem[n].start
      prior(s) == {k \in Current(s, day - 1) : rows[s][k].sem # n}
  IN  /\ Exists(n) /\ sem[n].ready
      /\ who \subseteq Known /\ who # {}
      /\ \A s \in who : ~Placed(s, n)
      /\ Ask(h, [Idle EXCEPT !.at = "assign", !.sem = n, !.day = day,
           !.change = [s \in who |-> HandOver(prior(s), place[s], n, day)]])

\* the placement in semester n a move on day d takes a student from
MoveFrom(s, n, d) ==
  {k \in DOMAIN rows[s] :
     LET in(j) == rows[s][j].sem = n /\ Covers(rows[s][j], d)
     IN  in(k) /\ \A j \in DOMAIN rows[s] : in(j) => NotAfter(s, j, k)}

\* mutant: a move on the first day of a placement is let through
MovableAtStart(s, k, sec, d) == rows[s][k].section # sec

Movable(s, k, sec, d) == rows[s][k].section # sec /\ d > rows[s][k].from

\* move_student_section
Move(h, s, n, sec, d) ==
  \E k \in MoveFrom(s, n, d) :
    /\ Exists(n) /\ sem[n].start <= d /\ d <= sem[n].end
    /\ Movable(s, k, sec, d)
    /\ Ask(h, [Idle EXCEPT !.at = "move", !.sem = n, !.day = d,
         !.change = [t \in {s} |-> HandOver({k}, sec, n, d)]])

\* mutant: a released student's old placement ends with its semester
ReleasedAtEnd(i, s, sec) ==
  [HandOver({runs[i].item[s].source}, sec, runs[i].from + 1, runs[i].day)
     EXCEPT !.until = sem[runs[i].from].end + 1]

Released(i, s, sec) ==
  HandOver({runs[i].item[s].source}, sec, runs[i].from + 1, runs[i].day)

\* release_held_student: as if the run had promoted the student
Release(h, i, s, sec) ==
  /\ i \in DOMAIN runs /\ s \in DOMAIN runs[i].item
  /\ runs[i].item[s].held
  /\ Ask(h, [Idle EXCEPT !.at = "release", !.run = i, !.day = runs[i].day,
       !.change = [t \in {s} |-> Released(i, s, sec)]])
-----------------------------------------------------------------------------
\* a row as the unit of work leaves it; what is committed since is overwritten
Written(row, c) ==
  [row EXCEPT !.to  = IF c.until = 0 THEN @ ELSE c.until,
              !.sem = IF c.adopt # 0 /\ @ = 0 THEN c.adopt ELSE @]

Applied(s, c) ==
  [k \in DOMAIN rows[s] |->
     IF k \in c.row THEN Written(rows[s][k], c) ELSE rows[s][k]] \o c.new

\* the PromotionRunItem of a student
Item(s, c) ==
  [held   |-> c.held,
   source |-> IF c.row = {} THEN Len(rows[s]) + 1 ELSE CHOOSE k \in c.row : TRUE,
   target |-> IF c.held THEN 0 ELSE Len(rows[s]) + Len(c.new)]

\* mutant: promotion_runs has no unique constraint
NeverCollides(req) == FALSE

\* uq_promotion_run_transition refuses the insert
Collides(req) ==
  /\ req.at = "promote"
  /\ \E i \in DOMAIN runs : runs[i].from = req.sem /\ runs[i].day = req.day

\* the commit of a promotion, an assignment, a move or a release
Commit(h) ==
  LET req == todo[h]  c == req.change  who == DOMAIN c IN
  /\ req.at \in {"promote", "assign", "move", "release"}
  /\ ~Collides(req)
  /\ rows' = [s \in Students |-> IF s \in who THEN Applied(s, c[s]) ELSE rows[s]]
  /\ section' = [s \in Students |->
       IF s \in who /\ c[s].goes # None THEN c[s].goes ELSE section[s]]
  /\ runs' = CASE req.at = "promote" ->
                    Append(runs, [from |-> req.sem, day |-> req.day,
                                  item |-> [s \in who |-> Item(s, c[s])]])
               [] req.at = "release" ->
                    [runs EXCEPT ![req.run].item = [s \in DOMAIN @ |->
                       IF s \in who THEN [@[s] EXCEPT !.held = FALSE,
                         !.target = Len(rows[s]) + 1] ELSE @[s]]]
               [] OTHER -> runs
  /\ todo' = [todo EXCEPT ![h] = Idle]
  /\ UNCHANGED <<sem, edits>>

\* the unique violation rolls the promotion back
RunCollides(h) ==
  /\ Collides(todo[h])
  /\ todo' = [todo EXCEPT ![h] = Idle]
  /\ UNCHANGED <<sem, rows, section, runs, edits>>
-----------------------------------------------------------------------------
\* ensure_student_enrollment: a new student is placed from today on, in the
\* semester of the section or in none
FirstPlacement(sec, n, today) == <<Opens(sec, n, today)>>

\* create_account, create_student
Admit(s, sec, n, today) ==
  /\ section[s] = None
  /\ n = 0 \/ Exists(n)
  /\ section' = [section EXCEPT ![s] = sec]
  /\ rows' = [rows EXCEPT ![s] = FirstPlacement(sec, n, today)]
  /\ UNCHANGED <<sem, runs, todo, edits>>

\* import_students: the students of the rows that succeed, in one commit
ImportStudents(to, n, today) ==
  /\ \A s \in DOMAIN to : section[s] = None
  /\ n = 0 \/ Exists(n)
  /\ section' = [s \in Students |-> IF s \in DOMAIN to THEN to[s] ELSE section[s]]
  /\ rows' = [s \in Students |-> IF s \in DOMAIN to THEN FirstPlacement(to[s], n, today)
                                ELSE rows[s]]
  /\ UNCHANGED <<sem, runs, todo, edits>>

\* upload_calendar, delete_calendar
SetCalendar(n, ready) ==
  /\ Exists(n)
  /\ sem' = [sem EXCEPT ![n].ready = ready]
  /\ UNCHANGED <<rows, section, runs, todo, edits>>

Edit(h, req) ==
  /\ todo[h] = Idle
  /\ edits < MaxEdits
  /\ edits' = edits + 1
  /\ todo' = [todo EXCEPT ![h] = req]
  /\ UNCHANGED <<sem, rows, section, runs>>

\* create_cohort_semester
CreateSemester(h, n, a, b) ==
  /\ ~Exists(n) /\ a # 0 /\ a <= b
  /\ n > 1 => Exists(n - 1) /\ a > sem[n - 1].end
  /\ Edit(h, [Idle EXCEPT !.at = "create", !.sem = n, !.day = a, !.last = b])

\* create_level_with_calendars: both semesters of a level with the calendars,
\* from a to b and from c to d, whatever dates their neighbours have. It reads
\* nothing else and the unique constraints refuse what exists: one step.
CreateLevel(n, a, b, c, d) ==
  /\ n % 2 = 1 /\ n + 1 \in Semesters
  /\ ~Exists(n) /\ ~Exists(n + 1)
  /\ a <= b /\ c <= d
  /\ edits < MaxEdits
  /\ edits' = edits + 1
  /\ sem' = [sem EXCEPT ![n] = [start |-> a, end |-> b, ready |-> TRUE],
                        ![n + 1] = [start |-> c, end |-> d, ready |-> TRUE]]
  /\ UNCHANGED <<rows, section, runs, todo>>

\* update_cohort_semester: a or b 0 leaves that date as it is
UpdateSemester(h, n, a, b) ==
  LET start == IF a = 0 THEN sem[n].start ELSE a
      end   == IF b = 0 THEN sem[n].end ELSE b
  IN  /\ Exists(n) /\ a + b # 0
      /\ start <= end
      /\ Exists(n - 1) => start > sem[n - 1].end
      /\ Exists(n + 1) => end < sem[n + 1].start
      /\ Edit(h, [Idle EXCEPT !.at = "dates", !.sem = n, !.day = a, !.last = b])

\* the semester as a request leaves it: only the given dates are written
Dated(req) ==
  [sem[req.sem] EXCEPT !.start = IF req.day = 0 THEN @ ELSE req.day,
                       !.end = IF req.last = 0 THEN @ ELSE req.last]

\* uq_cohort_semester_batch_sequence, ck_cohort_semester_dates
SemesterRefused(req) ==
  IF req.at = "create" THEN Exists(req.sem)
  ELSE Dated(req).start > Dated(req).end

CommitSemester(h) ==
  /\ todo[h].at \in {"create", "dates"}
  /\ sem' = IF SemesterRefused(todo[h]) THEN sem
            ELSE [sem EXCEPT ![todo[h].sem] = Dated(todo[h])]
  /\ todo' = [todo EXCEPT ![h] = Idle]
  /\ UNCHANGED <<rows, section, runs, edits>>
-----------------------------------------------------------------------------
\* students from before dated placements have a section and no rows
Init ==
  /\ sem = [n \in Semesters |-> [start |-> 0, end |-> 0, ready |-> FALSE]]
  /\ rows = [s \in Students |-> <<>>]
  /\ section \in [Students -> Sections \cup {None}]
  /\ runs = <<>>
  /\ todo = [h \in Handlers |-> Idle]
  /\ edits = 0

Place(h) ==
  \/ \E n \in Semesters : ProcessDue(h, n)
  \/ \E n \in Semesters, S \in SUBSET Students, p \in [Students -> Sections] :
       Promote(h, n, S, p) \/ Assign(h, n, S, p)
  \/ \E s \in Students, sec \in Sections :
       \/ \E n \in Semesters, d \in Days : Move(h, s, n, sec, d)
       \/ \E i \in DOMAIN runs : Release(h, i, s, sec)
  \/ Commit(h) \/ RunCollides(h)

Calendar(h) ==
  \/ \E n \in Semesters, a \in Starts \cup {0}, b \in Ends \cup {0} :
       UpdateSemester(h, n, a, b) \/ CreateSemester(h, n, a, b)
  \/ CommitSemester(h)

Next ==
  \/ \E h \in Handlers : Place(h) \/ Calendar(h)
  \/ \E s \in Students, sec \in Sections, n \in 0..N, d \in Starts : Admit(s, sec, n, d)
  \/ \E S \in (SUBSET Students) \ {{}} : \E to \in [S -> Sections], n \in 0..N, d \in Starts :
       ImportStudents(to, n, d)
  \/ \E n \in Semesters, ready \in BOOLEAN : SetCalendar(n, ready)
  \/ \E n \in Semesters, a, c \in Starts, b, d \in Ends : CreateLevel(n, a, b, c, d)

Spec == Init /\ [][Next]_vars
-----------------------------------------------------------------------------
\* Types. Every placement ends after it starts, also when handlers overwrite
\* each other's ends: no commit runs into ck_student_enrollment_dates
\* (models.py:266).
TypeOK ==
  /\ sem \in [Semesters -> [start : 0..LastDay, end : 0..LastDay, ready : BOOLEAN]]
  /\ rows \in [Students -> Seq({r \in Row : r.from < r.to})]
  /\ section \in [Students -> Sections \cup {None}]
  /\ \A h \in Handlers : \A s \in DOMAIN todo[h].change : todo[h].change[s] \in Change

\* From the first day of his first placement a student is in a section on
\* every day, whatever promotions, holds, moves, releases and assignments of
\* him overtake each other: a placement only ends where a later one goes on.
NeverWithoutSection ==
  \A s \in Students, d \in Days :
    (\E k \in DOMAIN rows[s] : rows[s][k].from <= d)
      => \E k \in DOMAIN rows[s] : Covers(rows[s][k], d)

\* A run says what became of its students: a promoted one has a placement in
\* the next semester from the run's day on and the old one is closed, a held
\* one has none of this run; and no two runs promote the same semester to the
\* same day (promotion_service.py:705-798, 801-844).
RunsMatchPlacements ==
  \A i \in DOMAIN runs :
    /\ \A j \in DOMAIN runs : runs[i].from = runs[j].from /\ runs[i].day = runs[j].day => i = j
    /\ \A s \in DOMAIN runs[i].item :
         LET item == runs[i].item[s] IN
         /\ item.source \in DOMAIN rows[s]
         /\ IF item.held THEN item.target = 0
            ELSE /\ item.target \in DOMAIN rows[s] \ {item.source}
                 /\ rows[s][item.target].from = runs[i].day
                 /\ rows[s][item.target].sem = runs[i].from + 1
                 /\ rows[s][item.source].to # Never

\* Where a student was is never rewritten ("historical rows are never
\* overwritten", models.py:262): a step changes who is where only from the
\* first day of a placement it adds, even if it overwrites the end of a row
\* that another handler has ended since it was read.
HistoryKept ==
  [][\A s \in Students, d \in Days :
       (\A k \in DOMAIN rows'[s] \ DOMAIN rows[s] : d < rows'[s][k].from)
         => Current(s, d)' = Current(s, d)]_vars
=============================================================================
