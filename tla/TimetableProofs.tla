---------------------------- MODULE TimetableProofs ----------------------------
(* Theorems about Timetable and Imports, for any number of classes, days,     *)
(* places, requests, worksheets and rows.                                     *)
EXTENDS MCTimetable, FiniteSetTheorems, SequenceTheorems, TLAPS

-----------------------------------------------------------------------------
(* The plan: types, and what a request keeps of what it read.                *)

RoutineType == [day : Days, place : Places] \cup {Nowhere}

RequestRecord == [op : {"idle", "place", "request", "approve", "makeup", "refuse"},
            class : Classes \cup {None}, day : Days \cup {None}, to : Places \cup {None, Off},
            row : Nat, was : RoutineType, behind : SUBSET Classes]

\* a request about a class knows class and date
Shape(q) ==
  /\ q \in RequestRecord
  /\ q.op \in {"idle", "refuse"} => q.class = None
  /\ q.op \in {"place", "request", "approve", "makeup"} => q.class \in Classes /\ q.day \in Days
  /\ q.op \in {"place", "makeup"} => q.to \in Places

Types ==
  /\ routine \in [Classes -> RoutineType]
  /\ overrides \in Seq(Override) /\ \A i \in DOMAIN overrides : overrides[i].makeup => overrides[i].to \in Places
  /\ suggestions \in Seq(Suggestion)
  /\ loose \subseteq Classes \X Days
  /\ edits \in Nat

RequestTypes == req = [r \in Requests |-> req[r]] /\ \A r \in Requests : Shape(req[r])

\* the row a request has read
RowKept(q) ==
  /\ q.op = "approve" => /\ q.row \in DOMAIN overrides
                         /\ overrides[q.row].class = q.class /\ overrides[q.row].day = q.day
  /\ q.op \in {"makeup", "refuse"} => q.row \in DOMAIN suggestions
  /\ q.op = "makeup" => suggestions[q.row].class = q.class

\* what a request found is still so, but for the classes it is behind with
Found(q) ==
  /\ q.op = "place" =>
       /\ q.class \in q.behind \/ routine[q.class] = q.was
       /\ \A x \in Classes \ {q.class} : x \in q.behind \/ routine[x] # [day |-> q.day, place |-> q.to]
  /\ q.op = "request" => q.class \in q.behind \/ NotChanged(q.class, q.day)
  /\ q.op = "approve" /\ q.behind = {} =>
       /\ overrides[q.row].makeup \/ OnPlan(q.class, q.day)
       /\ Free(q.class, q.day, Target(overrides[q.row]))
  /\ q.op = "makeup" /\ q.behind = {} => Free(q.class, q.day, q.to)

RequestInv == \A r \in Requests : RowKept(req[r]) /\ Found(req[r])

LEMMA IdleShape == Shape(Idle) /\ RowKept(Idle) /\ Found(Idle) /\ Idle.op = "idle" /\ Idle.class = None
BY DEF Idle, Shape, RequestRecord, RoutineType, Nowhere, RowKept, Found

\* a request begins
LEMMA Asked ==
  ASSUME RequestTypes, NEW r \in Requests, NEW q, Ask(r, q)
  PROVE  /\ req'[r] = q /\ req[r] = Idle /\ \A p \in Requests : p # r => req'[p] = req[p]
         /\ req' = [p \in Requests |-> req'[p]]
BY DEF RequestTypes, Ask

\* a class is written
LEMMA Overtaken ==
  ASSUME RequestTypes, NEW R, NEW c \in Classes, Overtake(R, c)
  PROVE  /\ req' = [p \in Requests |-> req'[p]]
         /\ \A p \in Requests :
              IF p \in R THEN req'[p] = Idle
              ELSE IF req[p].class = None THEN req'[p] = req[p]
              ELSE req'[p] = [req[p] EXCEPT !.behind = @ \cup {c}]
<1>1. /\ req' = [p \in Requests |-> req'[p]]
      /\ \A p \in Requests :
           IF p \in R THEN req'[p] = Idle
           ELSE req'[p] = [req[p] EXCEPT !.behind = @ \cup {x \in {c} : req[p].class # None}]
  BY DEF Overtake
<1>2. ASSUME NEW p \in Requests
      PROVE  /\ req[p].class = None => [req[p] EXCEPT !.behind = @ \cup {x \in {c} : req[p].class # None}] = req[p]
             /\ req[p].class # None => [req[p] EXCEPT !.behind = @ \cup {x \in {c} : req[p].class # None}]
                                        = [req[p] EXCEPT !.behind = @ \cup {c}]
  <2>1. req[p] \in RequestRecord
    BY DEF RequestTypes, Shape
  <2>2. /\ req[p].class = None => {x \in {c} : req[p].class # None} = {}
        /\ req[p].class # None => {x \in {c} : req[p].class # None} = {c}
    OBVIOUS
  <2>. QED
    BY <2>1, <2>2 DEF RequestRecord
<1>. QED
  BY <1>1, <1>2

\* the fields of a request that falls behind
LEMMA Behind ==
  ASSUME NEW q, Shape(q), NEW c \in Classes, NEW p, p = [q EXCEPT !.behind = @ \cup {c}]
  PROVE  /\ Shape(p) /\ p.op = q.op /\ p.class = q.class /\ p.day = q.day /\ p.to = q.to
         /\ p.row = q.row /\ p.was = q.was /\ p.behind = q.behind \cup {c}
<1>1. /\ p \in RequestRecord /\ p.op = q.op /\ p.class = q.class /\ p.day = q.day /\ p.to = q.to
      /\ p.row = q.row /\ p.was = q.was /\ p.behind = q.behind \cup {c}
  BY DEF Shape, RequestRecord
<1>. QED
  BY <1>1 DEF Shape

\* the class a step writes, and no other
WritesOnly(c) ==
  /\ \A x \in Classes : x # c => routine'[x] = routine[x]
  /\ DOMAIN overrides \subseteq DOMAIN overrides' /\ DOMAIN suggestions \subseteq DOMAIN suggestions'
  /\ \A i \in DOMAIN overrides :
       /\ overrides'[i].class = overrides[i].class /\ overrides'[i].day = overrides[i].day
       /\ overrides'[i].to = overrides[i].to /\ overrides'[i].makeup = overrides[i].makeup
       /\ overrides'[i].late = overrides[i].late
       /\ overrides[i].class # c => overrides'[i].status = overrides[i].status
  /\ \A i \in DOMAIN overrides' : i \in DOMAIN overrides \/ overrides'[i].class = c
  /\ \A i \in DOMAIN suggestions : suggestions'[i].class = suggestions[i].class

LEMMA OvertakenInv ==
  ASSUME RequestTypes, RequestInv, NEW R, NEW c \in Classes, Overtake(R, c), WritesOnly(c)
  PROVE  RequestTypes' /\ RequestInv'
<1>1. ASSUME NEW p \in Requests PROVE Shape(req'[p]) /\ (RowKept(req[p]) /\ Found(req[p]))'
  <2>1. Shape(req[p]) /\ RowKept(req[p]) /\ Found(req[p])
    BY DEF RequestTypes, RequestInv
  <2>2. CASE p \in R
    BY <2>2, Overtaken, IdleShape DEF Idle, RowKept, Found
  <2>3. CASE p \notin R /\ req[p].class = None
    <3>1. req'[p] = req[p]
      BY <2>3, Overtaken
    <3>2. req[p].op \in {"idle", "refuse"}
      <4>1. None \notin Classes
        BY TimetableAssumption
      <4>. QED
        BY <2>1, <2>3, <4>1 DEF Shape, RequestRecord
    <3>. QED
      BY <2>1, <3>1, <3>2 DEF RowKept, Found, WritesOnly
  <2>4. CASE p \notin R /\ req[p].class # None
    <3>. DEFINE q == req[p]  q2 == req'[p]
    <3>1. q2 = [q EXCEPT !.behind = @ \cup {c}]
      BY <2>4, Overtaken
    <3>2. /\ Shape(q2) /\ q2.op = q.op /\ q2.class = q.class /\ q2.day = q.day /\ q2.to = q.to
          /\ q2.row = q.row /\ q2.was = q.was /\ q2.behind = q.behind \cup {c}
      BY <2>1, <3>1, Behind
    <3>3. RowKept(req[p])'
      BY <2>1, <3>2 DEF RowKept, WritesOnly
    <3>4. Found(req[p])'
      <4>1. q.op \in {"place", "request", "approve", "makeup"} => q.class \in Classes
        BY <2>1 DEF Shape
      <4>2. ASSUME q.op = "place"
            PROVE  /\ q.class \in q2.behind \/ routine'[q.class] = q.was
                   /\ \A x \in Classes \ {q.class} :
                        x \in q2.behind \/ routine'[x] # [day |-> q.day, place |-> q.to]
        BY <2>1, <3>2, <4>1, <4>2 DEF Found, WritesOnly
      <4>3. ASSUME q.op = "request" PROVE (q.class \in q.behind \/ NotChanged(q.class, q.day))'
        BY <2>1, <3>2, <4>1, <4>3 DEF Found, WritesOnly, NotChanged
      <4>4. q2.behind # {}
        BY <3>2
      <4>. QED
        BY <3>2, <4>2, <4>3, <4>4 DEF Found
    <3>. QED
      BY <3>2, <3>3, <3>4
  <2>. QED
    BY <2>2, <2>3, <2>4
<1>. QED
  BY <1>1, Overtaken DEF RequestTypes, RequestInv

\* what a request found stays so while plan and overrides do not change
LEMMA StillFound ==
  ASSUME UNCHANGED <<routine, overrides>>, DOMAIN suggestions \subseteq DOMAIN suggestions',
         \A i \in DOMAIN suggestions : suggestions'[i].class = suggestions[i].class,
         NEW z, RowKept(z), Found(z)
  PROVE  (RowKept(z) /\ Found(z))'
<1>1. routine' = routine /\ overrides' = overrides
  OBVIOUS
<1>2. RowKept(z)'
  BY <1>1 DEF RowKept
<1>3. ASSUME NEW c, NEW d PROVE Outcomes(c, d)' = Outcomes(c, d)
  BY <1>1 DEF Outcomes, Counting, Approved, Target, OnPlan
<1>4. ASSUME NEW c, NEW d, NEW w PROVE Free(c, d, w)' = Free(c, d, w)
  BY <1>1, <1>3 DEF Free, OnPlan
<1>5. (z.op = "approve" /\ z.behind = {} => Free(z.class, z.day, Target(overrides[z.row])))'
  <2>1. Target(overrides[z.row])' = Target(overrides[z.row])
    BY <1>1 DEF Target
  <2>. QED
    BY <1>1, <1>4, <2>1 DEF Found
<1>6. (z.op = "makeup" /\ z.behind = {} => Free(z.class, z.day, z.to))'
  BY <1>4 DEF Found
<1>7. Found(z)'
  BY <1>1, <1>5, <1>6 DEF Found, NotChanged, OnPlan
<1>. QED
  BY <1>2, <1>7

\* a request looks: nothing but the request changes
LEMMA AskedInv ==
  ASSUME RequestTypes, RequestInv, NEW r \in Requests, NEW q, Ask(r, q),
         Shape(q), RowKept(q), Found(q), UNCHANGED <<routine, overrides, suggestions>>
  PROVE  RequestTypes' /\ RequestInv'
<1>1. ASSUME NEW z, RowKept(z), Found(z) PROVE (RowKept(z) /\ Found(z))'
  BY <1>1, StillFound
<1>2. ASSUME NEW p \in Requests PROVE Shape(req'[p]) /\ (RowKept(req[p]) /\ Found(req[p]))'
  <2>1. PICK z : z = req'[p]
    OBVIOUS
  <2>2. Shape(z) /\ RowKept(z) /\ Found(z)
    <3>1. CASE p = r
      BY <2>1, <3>1, Asked
    <3>2. CASE p # r
      BY <2>1, <3>2, Asked DEF RequestTypes, RequestInv
    <3>. QED
      BY <3>1, <3>2
  <2>3. (RowKept(z) /\ Found(z))'
    BY <1>1, <2>2
  <2>4. RowKept(req[p])'
    BY <2>1, <2>3 DEF RowKept
  <2>5. Found(req[p])'
    BY <2>1, <2>3 DEF Found
  <2>. QED
    BY <2>1, <2>2, <2>4, <2>5
<1>. QED
  BY <1>2, Asked DEF RequestTypes, RequestInv

-----------------------------------------------------------------------------
(* Types and foreign keys, action by action.                                 *)

Keys ==
  /\ \A i \in DOMAIN overrides : Exists(overrides[i].class)
  /\ \A j \in DOMAIN suggestions : Exists(suggestions[j].class)

Base == Types /\ Keys /\ RequestTypes /\ RequestInv

LEMMA Appended ==
  ASSUME NEW S, NEW q \in Seq(S), NEW e \in S
  PROVE  /\ Append(q, e) \in Seq(S) /\ Len(q) + 1 \notin DOMAIN q /\ Len(q) \in Nat
         /\ Len(Append(q, e)) = Len(q) + 1
         /\ DOMAIN q = 1..Len(q)
         /\ DOMAIN Append(q, e) = DOMAIN q \cup {Len(q) + 1}
         /\ Append(q, e)[Len(q) + 1] = e
         /\ \A i \in DOMAIN q : Append(q, e)[i] = q[i]
BY AppendProperties

\* a decision: the status of one row
LEMMA Marked ==
  ASSUME overrides \in Seq(Override), NEW k \in DOMAIN overrides,
         NEW v \in {"approved", "rejected"},
         overrides' = [overrides EXCEPT ![k].status = v]
  PROVE  /\ overrides' \in Seq(Override)
         /\ DOMAIN overrides' = DOMAIN overrides /\ Len(overrides') = Len(overrides)
         /\ overrides'[k].status = v
         /\ \A i \in DOMAIN overrides :
              /\ i # k => overrides'[i] = overrides[i]
              /\ overrides'[i].class = overrides[i].class /\ overrides'[i].day = overrides[i].day
              /\ overrides'[i].to = overrides[i].to /\ overrides'[i].makeup = overrides[i].makeup
              /\ overrides'[i].late = overrides[i].late
<1>1. ASSUME NEW i \in DOMAIN overrides PROVE overrides[i] \in Override
  BY <1>1, ElementOfSeq
<1>2. \A i \in DOMAIN overrides : i # k => overrides'[i] = overrides[i]
  OBVIOUS
<1>3. overrides'[k] = [overrides[k] EXCEPT !.status = v]
  OBVIOUS
<1>. DEFINE o == overrides[k]  o2 == overrides'[k]
<1>4. /\ o2 \in Override /\ o2.class = o.class /\ o2.day = o.day /\ o2.to = o.to
      /\ o2.makeup = o.makeup /\ o2.late = o.late /\ o2.status = v
  <2>1. o \in Override
    BY <1>1
  <2>2. o2 = [o EXCEPT !.status = v]
    BY <1>3
  <2>. HIDE DEF o, o2
  <2>. QED
    BY <2>1, <2>2 DEF Override
<1>5. overrides' \in Seq(Override) /\ DOMAIN overrides' = DOMAIN overrides /\ Len(overrides') = Len(overrides)
  <2>1. DOMAIN overrides = 1..Len(overrides) /\ Len(overrides) \in Nat
    OBVIOUS
  <2>2. \A i \in DOMAIN overrides : overrides'[i] \in Override
    BY <1>1, <1>2, <1>4
  <2>3. overrides' = [i \in DOMAIN overrides |-> overrides'[i]]
    OBVIOUS
  <2>4. overrides' \in [1..Len(overrides) -> Override]
    BY <2>1, <2>2, <2>3
  <2>5. overrides' \in Seq(Override)
    BY <2>1, <2>4, SeqDef
  <2>. QED
    BY <2>1, <2>4, <2>5
<1>. QED
  BY <1>2, <1>4, <1>5

\* and of one suggestion
LEMMA MarkedSuggestion ==
  ASSUME suggestions \in Seq(Suggestion), NEW k \in DOMAIN suggestions,
         NEW v \in {"approved", "rejected"},
         suggestions' = [suggestions EXCEPT ![k].status = v]
  PROVE  /\ suggestions' \in Seq(Suggestion)
         /\ DOMAIN suggestions' = DOMAIN suggestions /\ Len(suggestions') = Len(suggestions)
         /\ \A i \in DOMAIN suggestions : suggestions'[i].class = suggestions[i].class
<1>1. ASSUME NEW i \in DOMAIN suggestions PROVE suggestions[i] \in Suggestion
  BY <1>1, ElementOfSeq
<1>2. \A i \in DOMAIN suggestions : i # k => suggestions'[i] = suggestions[i]
  OBVIOUS
<1>3. suggestions'[k] = [suggestions[k] EXCEPT !.status = v]
  OBVIOUS
<1>4. suggestions'[k] \in Suggestion /\ suggestions'[k].class = suggestions[k].class
  BY <1>1, <1>3 DEF Suggestion
<1>5. suggestions' \in Seq(Suggestion) /\ DOMAIN suggestions' = DOMAIN suggestions
        /\ Len(suggestions') = Len(suggestions)
  <2>1. DOMAIN suggestions = 1..Len(suggestions) /\ Len(suggestions) \in Nat
    OBVIOUS
  <2>2. \A i \in DOMAIN suggestions : suggestions'[i] \in Suggestion
    BY <1>1, <1>2, <1>4
  <2>3. suggestions' = [i \in DOMAIN suggestions |-> suggestions'[i]]
    OBVIOUS
  <2>4. suggestions' \in [1..Len(suggestions) -> Suggestion]
    BY <2>1, <2>2, <2>3
  <2>5. suggestions' \in Seq(Suggestion)
    BY <2>1, <2>4, SeqDef
  <2>. QED
    BY <2>1, <2>4, <2>5
<1>. QED
  BY <1>2, <1>4, <1>5

LEMMA RowTypes ==
  ASSUME Types
  PROVE  /\ \A i \in DOMAIN overrides : overrides[i] \in Override
         /\ \A i \in DOMAIN suggestions : suggestions[i] \in Suggestion
<1>1. overrides \in Seq(Override) /\ suggestions \in Seq(Suggestion)
  BY DEF Types
<1>2. ASSUME NEW i \in DOMAIN overrides PROVE overrides[i] \in Override
  BY <1>1, ElementOfSeq
<1>3. ASSUME NEW i \in DOMAIN suggestions PROVE suggestions[i] \in Suggestion
  BY <1>1, ElementOfSeq
<1>. QED
  BY <1>2, <1>3

\* a class is placed: at its new place, or where another request put it
LEMMA PlaceWrites ==
  ASSUME Base, NEW r \in Requests, Place(r)
  PROVE  /\ req[r].class \in Classes /\ Overtake({r}, req[r].class) /\ WritesOnly(req[r].class)
         /\ Types' /\ Keys'
         /\ routine'[req[r].class] \in [day : Days, place : Places]
         /\ \E d \in Days : /\ d = routine'[req[r].class].day
                           /\ Loose(req[r].class, d, req[r].behind # {} \/ Changed(d))
         /\ req[r].class \notin req[r].behind =>
              routine'[req[r].class] = [day |-> req[r].day, place |-> req[r].to]
<1>. DEFINE q == req[r]  c == q.class  new == routine'[c]
<1>1. Shape(q) /\ q.op = "place" /\ Found(q)
  BY DEF Base, RequestTypes, RequestInv, Place
<1>2. c \in Classes /\ q.day \in Days /\ q.to \in Places /\ q.was \in RoutineType
  BY <1>1 DEF Shape, RequestRecord
<1>3. /\ routine \in [Classes -> RoutineType] /\ None \notin Days
      /\ overrides \in Seq(Override) /\ suggestions \in Seq(Suggestion)
  BY TimetableAssumption DEF Base, Types
<1>4. /\ routine' = [routine EXCEPT ![c] =
            [day   |-> IF q.day # q.was.day THEN q.day ELSE routine[c].day,
             place |-> IF q.to # q.was.place THEN q.to ELSE routine[c].place]]
      /\ Exists(c) \/ q.was.day = None
      /\ UNCHANGED <<overrides, suggestions>>
      /\ edits' = IF edits + Len(overrides) < MaxWork THEN edits + 1 ELSE edits
      /\ Overtake({r}, c)
  BY DEF Place, Done
<1>5. \E d \in Days : /\ d = IF q.day # q.was.day THEN q.day ELSE routine[c].day
                      /\ Loose(c, d, q.behind # {} \/ Changed(d))
  <2>1. /\ Loose(c, IF q.day # q.was.day THEN q.day ELSE routine[c].day,
                q.behind # {} \/ Changed(IF q.day # q.was.day THEN q.day ELSE routine[c].day))
        /\ Exists(c) \/ q.was.day = None
    BY DEF Place
  <2>2. (IF q.day # q.was.day THEN q.day ELSE routine[c].day) \in Days
    BY <1>2, <1>3, <2>1 DEF Exists, RoutineType, Nowhere
  <2>. QED
    BY <2>1, <2>2
<1>6. /\ new = [day   |-> IF q.day # q.was.day THEN q.day ELSE routine[c].day,
                place |-> IF q.to # q.was.place THEN q.to ELSE routine[c].place]
      /\ \A x \in Classes : x # c => routine'[x] = routine[x]
      /\ routine' = [x \in Classes |-> routine'[x]]
  BY <1>2, <1>3, <1>4
<1>7. new \in [day : Days, place : Places]
  <2>1. CASE Exists(c)
    <3>1. routine[c] \in [day : Days, place : Places]
      BY <1>2, <1>3, <2>1 DEF Exists, RoutineType, Nowhere
    <3>. QED
      BY <1>2, <1>6, <3>1
  <2>2. CASE q.was.day = None
    <3>1. q.was.place = None
      BY <1>2, <1>3, <2>2 DEF RoutineType, Nowhere
    <3>2. None \notin Days /\ None \notin Places
      BY TimetableAssumption
    <3>. QED
      BY <1>2, <1>6, <2>2, <3>1, <3>2
  <2>. QED
    BY <1>4, <2>1, <2>2
<1>8. c \notin q.behind => new = [day |-> q.day, place |-> q.to]
  <2>1. c \notin q.behind => routine[c] = q.was
    BY <1>1 DEF Found
  <2>. QED
    BY <1>6, <2>1
<1>9. WritesOnly(c)
  BY <1>4, <1>6 DEF WritesOnly
<1>10. Types'
  <2>1. routine' \in [Classes -> RoutineType]
    BY <1>2, <1>3, <1>6, <1>7 DEF RoutineType
  <2>2. loose' \subseteq Classes \X Days
    BY <1>2, <1>5 DEF Loose, Base, Types
  <2>3. edits' \in Nat
    BY <1>4 DEF Base, Types
  <2>. QED
    BY <1>4, <2>1, <2>2, <2>3 DEF Base, Types
<1>11. Keys'
  <2>1. \A x \in Classes : Exists(x) => Exists(x)'
    BY <1>3, <1>6, <1>7 DEF Exists
  <2>2. /\ \A i \in DOMAIN overrides : Exists(overrides[i].class)
        /\ \A j \in DOMAIN suggestions : Exists(suggestions[j].class)
    BY DEF Base, Keys
  <2>3. /\ \A i \in DOMAIN overrides : overrides[i].class \in Classes
        /\ \A j \in DOMAIN suggestions : suggestions[j].class \in Classes
    BY RowTypes DEF Base, Override, Suggestion
  <2>4. overrides' = overrides /\ suggestions' = suggestions
    BY <1>4
  <2>. QED
    BY <2>1, <2>2, <2>3, <2>4, Zenon DEF Keys, Exists
<1>12. \E d \in Days : d = new.day /\ Loose(c, d, q.behind # {} \/ Changed(d))
  <2>1. new.day = IF q.day # q.was.day THEN q.day ELSE routine[c].day
    BY <1>6
  <2>. HIDE DEF new
  <2>. QED
    BY <1>5, <2>1
<1>. QED
  BY <1>2, <1>4, <1>7, <1>8, <1>9, <1>10, <1>11, <1>12

\* a class that nothing refers to is deleted
LEMMA DeleteWrites ==
  ASSUME Base, NEW c \in Classes, Delete(c)
  PROVE  /\ Overtake({}, c) /\ WritesOnly(c) /\ Types' /\ Keys'
         /\ ~Exists(c)' /\ \A i \in DOMAIN overrides : overrides[i].class # c
<1>1. /\ routine' = [routine EXCEPT ![c] = Nowhere] /\ Overtake({}, c) /\ Deletable(c)
      /\ loose' \subseteq loose /\ UNCHANGED <<edits, overrides, suggestions>>
  BY DEF Delete
<1>2. /\ routine'[c] = Nowhere /\ \A x \in Classes : x # c => routine'[x] = routine[x]
      /\ routine' \in [Classes -> RoutineType]
  BY <1>1 DEF Base, Types, RoutineType
<1>3. WritesOnly(c)
  BY <1>1, <1>2 DEF WritesOnly
<1>4. Types'
  BY <1>1, <1>2 DEF Base, Types
<1>5. ~Exists(c)'
  BY <1>2 DEF Exists, Nowhere
<1>6. Keys'
  <2>1. \A i \in DOMAIN overrides : overrides[i].class \in Classes
    BY RowTypes DEF Base, Override
  <2>2. \A i \in DOMAIN suggestions : suggestions[i].class \in Classes
    BY RowTypes DEF Base, Suggestion
  <2>. QED
    BY <1>1, <1>2, <2>1, <2>2 DEF Keys, Exists, Base, Deletable
<1>. QED
  BY <1>1, <1>3, <1>4, <1>5, <1>6 DEF Deletable

\* an override is added
LEMMA RequestWrites ==
  ASSUME Base, NEW r \in Requests, Request(r)
  PROVE  /\ req[r].class \in Classes /\ Overtake({r}, req[r].class) /\ WritesOnly(req[r].class)
         /\ Types' /\ Keys'
         /\ DOMAIN overrides' = DOMAIN overrides \cup {Len(overrides) + 1}
         /\ Len(overrides) + 1 \notin DOMAIN overrides /\ Len(overrides') = Len(overrides) + 1
         /\ \A i \in DOMAIN overrides : overrides'[i] = overrides[i]
         /\ overrides'[Len(overrides) + 1].class = req[r].class
         /\ overrides'[Len(overrides) + 1].day = req[r].day
         /\ overrides'[Len(overrides) + 1].status = "pending"
         /\ overrides'[Len(overrides) + 1].late <=> req[r].class \in req[r].behind
<1>. DEFINE q == req[r]  n == Len(overrides) + 1
            o == [class |-> q.class, day |-> q.day, to |-> q.to, makeup |-> FALSE,
                  status |-> "pending", late |-> q.class \in q.behind]
<1>1. Shape(q) /\ q.op = "request" /\ Exists(q.class)
  BY DEF Base, RequestTypes, Request
<1>2. q.class \in Classes /\ q.day \in Days /\ q.to \in Places \cup {None, Off}
  BY <1>1 DEF Shape, RequestRecord
<1>3. /\ overrides' = Append(overrides, o) /\ Overtake({r}, q.class)
      /\ UNCHANGED <<routine, edits, suggestions, loose>>
  BY DEF Request, Done, plan
<1>4. o \in Override
  BY <1>2 DEF Override
<1>5. overrides \in Seq(Override)
  BY DEF Base, Types
<1>6. /\ overrides' \in Seq(Override) /\ n \notin DOMAIN overrides
      /\ Len(overrides') = n
      /\ DOMAIN overrides' = DOMAIN overrides \cup {n}
      /\ overrides'[n] = o
      /\ \A i \in DOMAIN overrides : overrides'[i] = overrides[i]
  <2>. HIDE DEF o
  <2>. QED
    BY <1>3, <1>4, <1>5, Appended
<1>7. /\ overrides'[n].class = q.class /\ overrides'[n].day = q.day
      /\ overrides'[n].status = "pending" /\ ~overrides'[n].makeup
      /\ overrides'[n].late <=> q.class \in q.behind
  <2>1. o.class = q.class /\ o.day = q.day /\ o.status = "pending" /\ o.makeup = FALSE
    OBVIOUS
  <2>2. o.late = (q.class \in q.behind)
    OBVIOUS
  <2>. HIDE DEF o, n
  <2>. QED
    BY <1>6, <2>1, <2>2, Zenon
<1>. HIDE DEF o, n
<1>8. WritesOnly(q.class)
  BY <1>3, <1>6, <1>7 DEF WritesOnly
<1>9. Types'
  BY <1>3, <1>6, <1>7 DEF Base, Types
<1>10. Keys'
  BY <1>1, <1>3, <1>6, <1>7 DEF Base, Keys, Exists
<1>. QED
  BY <1>2, <1>3, <1>6, <1>7, <1>8, <1>9, <1>10 DEF n

\* a makeup class is approved: the suggestion is marked, the override added
LEMMA MakeupWrites ==
  ASSUME Base, NEW r \in Requests, Makeup(r)
  PROVE  /\ req[r].class \in Classes /\ req[r].day \in Days /\ req[r].to \in Places
         /\ Overtake({r}, req[r].class) /\ WritesOnly(req[r].class)
         /\ Types' /\ Keys' /\ Len(suggestions') = Len(suggestions)
         /\ DOMAIN overrides' = DOMAIN overrides \cup {Len(overrides) + 1}
         /\ Len(overrides) + 1 \notin DOMAIN overrides /\ Len(overrides') = Len(overrides) + 1
         /\ \A i \in DOMAIN overrides : overrides'[i] = overrides[i]
         /\ overrides'[Len(overrides) + 1].class = req[r].class
         /\ overrides'[Len(overrides) + 1].day = req[r].day
         /\ overrides'[Len(overrides) + 1].to = req[r].to
         /\ overrides'[Len(overrides) + 1].status = "approved"
         /\ overrides'[Len(overrides) + 1].makeup
<1>. DEFINE q == req[r]  n == Len(overrides) + 1
            o == [class |-> q.class, day |-> q.day, to |-> q.to, makeup |-> TRUE,
                  status |-> "approved", late |-> q.class \in q.behind]
<1>1. Shape(q) /\ RowKept(q) /\ q.op = "makeup"
  BY DEF Base, RequestTypes, RequestInv, Makeup
<1>2. q.class \in Classes /\ q.day \in Days /\ q.to \in Places
  BY <1>1 DEF Shape, RequestRecord
<1>3. /\ overrides' = Append(overrides, o) /\ Overtake({r}, q.class)
      /\ suggestions' = [suggestions EXCEPT ![q.row].status = "approved"]
      /\ Loose(q.class, q.day, q.behind # {} \/ Unseen(q.class, q.day))
      /\ UNCHANGED <<routine, edits>>
  BY DEF Makeup, Done, plan
<1>4. o \in Override
  BY <1>2 DEF Override
<1>5. overrides \in Seq(Override) /\ suggestions \in Seq(Suggestion)
  BY DEF Base, Types
<1>6. /\ overrides' \in Seq(Override) /\ n \notin DOMAIN overrides
      /\ Len(overrides') = n
      /\ DOMAIN overrides' = DOMAIN overrides \cup {n}
      /\ overrides'[n] = o
      /\ \A i \in DOMAIN overrides : overrides'[i] = overrides[i]
  <2>. HIDE DEF o
  <2>. QED
    BY <1>3, <1>4, <1>5, Appended
<1>7. /\ overrides'[n].class = q.class /\ overrides'[n].day = q.day
      /\ overrides'[n].to = q.to
      /\ overrides'[n].status = "approved" /\ overrides'[n].makeup
  <2>1. o.class = q.class /\ o.day = q.day /\ o.to = q.to /\ o.status = "approved"
    OBVIOUS
  <2>2. o.makeup
    BY Zenon
  <2>. HIDE DEF o, n
  <2>. QED
    BY <1>6, <2>1, <2>2, Zenon
<1>8. /\ suggestions' \in Seq(Suggestion)
      /\ DOMAIN suggestions' = DOMAIN suggestions /\ Len(suggestions') = Len(suggestions)
      /\ \A i \in DOMAIN suggestions : suggestions'[i].class = suggestions[i].class
  <2>1. q.row \in DOMAIN suggestions
    BY <1>1 DEF RowKept
  <2>. QED
    BY <1>3, <1>5, <2>1, MarkedSuggestion
<1>9. Exists(q.class)
  <2>1. q.row \in DOMAIN suggestions /\ suggestions[q.row].class = q.class
    BY <1>1 DEF RowKept
  <2>. QED
    BY <2>1 DEF Base, Keys
<1>10. loose' \subseteq Classes \X Days
  BY <1>2, <1>3 DEF Loose, Base, Types
<1>. HIDE DEF o, n
<1>11. WritesOnly(q.class)
  BY <1>3, <1>6, <1>7, <1>8 DEF WritesOnly
<1>12. Types'
  BY <1>2, <1>3, <1>6, <1>7, <1>8, <1>10 DEF Base, Types
<1>13. Keys'
  <2>1. routine' = routine
    BY <1>3
  <2>2. ASSUME NEW i \in DOMAIN overrides' PROVE routine[overrides'[i].class].day # None
    <3>1. CASE i = n
      BY <1>7, <1>9, <3>1, Zenon DEF Exists
    <3>2. CASE i \in DOMAIN overrides
      BY <1>6, <3>2, Zenon DEF Base, Keys, Exists
    <3>. QED
      BY <1>6, <2>2, <3>1, <3>2
  <2>3. \A j \in DOMAIN suggestions' : routine[suggestions'[j].class].day # None
    BY <1>8, Zenon DEF Base, Keys, Exists
  <2>. QED
    BY <2>1, <2>2, <2>3, Zenon DEF Keys, Exists
<1>. QED
  BY <1>2, <1>3, <1>6, <1>7, <1>8, <1>11, <1>12, <1>13 DEF n

\* the status of an override changes
LEMMA StatusWrites ==
  ASSUME Base, NEW k \in DOMAIN overrides, NEW v \in {"approved", "rejected"},
         overrides' = [overrides EXCEPT ![k].status = v],
         UNCHANGED <<routine, edits, suggestions>>, loose' \subseteq Classes \X Days
  PROVE  overrides[k].class \in Classes /\ WritesOnly(overrides[k].class) /\ Types' /\ Keys'
<1>1. overrides \in Seq(Override)
  BY DEF Base, Types
<1>2. /\ overrides' \in Seq(Override) /\ DOMAIN overrides' = DOMAIN overrides
      /\ \A i \in DOMAIN overrides :
           /\ i # k => overrides'[i] = overrides[i]
           /\ overrides'[i].class = overrides[i].class /\ overrides'[i].day = overrides[i].day
           /\ overrides'[i].to = overrides[i].to /\ overrides'[i].makeup = overrides[i].makeup
           /\ overrides'[i].late = overrides[i].late
  BY <1>1, Marked
<1>3. overrides[k].class \in Classes
  BY RowTypes DEF Base, Override
<1>4. WritesOnly(overrides[k].class)
  BY <1>2 DEF WritesOnly
<1>5. Types'
  BY <1>2 DEF Base, Types
<1>6. Keys'
  BY <1>2 DEF Base, Keys, Exists
<1>. QED
  BY <1>3, <1>4, <1>5, <1>6

LEMMA ApproveWrites ==
  ASSUME Base, NEW r \in Requests, Approve(r)
  PROVE  /\ req[r].row \in DOMAIN overrides
         /\ overrides[req[r].row].class = req[r].class /\ overrides[req[r].row].day = req[r].day
         /\ overrides' = [overrides EXCEPT ![req[r].row].status = "approved"]
         /\ req[r].class \in Classes /\ req[r].day \in Days
         /\ Overtake({r}, req[r].class) /\ WritesOnly(req[r].class) /\ Types' /\ Keys'
<1>. DEFINE q == req[r]
<1>1. Shape(q) /\ RowKept(q) /\ q.op = "approve"
  BY DEF Base, RequestTypes, RequestInv, Approve
<1>2. q.class \in Classes /\ q.day \in Days
  BY <1>1 DEF Shape, RequestRecord
<1>3. /\ overrides' = [overrides EXCEPT ![q.row].status = "approved"] /\ Overtake({r}, q.class)
      /\ Loose(q.class, q.day, q.behind # {} \/ Unseen(q.class, q.day))
      /\ UNCHANGED <<routine, edits, suggestions>>
  BY DEF Approve, Done, plan
<1>4. loose' \subseteq Classes \X Days
  BY <1>2, <1>3 DEF Loose, Base, Types
<1>5. q.row \in DOMAIN overrides /\ overrides[q.row].class = q.class /\ overrides[q.row].day = q.day
  BY <1>1 DEF RowKept
<1>6. WritesOnly(q.class) /\ Types' /\ Keys'
  <2>. DEFINE k == q.row  v == "approved"
  <2>1. k \in DOMAIN overrides /\ v \in {"approved", "rejected"}
        /\ overrides' = [overrides EXCEPT ![k].status = v] /\ overrides[k].class = q.class
    BY <1>3, <1>5
  <2>. HIDE DEF k, v
  <2>. QED
    BY <1>3, <1>4, <2>1, StatusWrites
<1>. QED
  BY <1>2, <1>3, <1>5, <1>6

LEMMA DecideWrites ==
  ASSUME Base, NEW r \in Requests, NEW i, NEW v \in {"approved", "rejected"}, Decide(r, i, v)
  PROVE  /\ i \in DOMAIN overrides /\ overrides[i].class \in Classes /\ overrides[i].day \in Days
         /\ overrides' = [overrides EXCEPT ![i].status = v]
         /\ Overtake({r}, overrides[i].class) /\ WritesOnly(overrides[i].class) /\ Types' /\ Keys'
<1>1. /\ i \in DOMAIN overrides
      /\ overrides' = [overrides EXCEPT ![i].status = v] /\ Overtake({r}, overrides[i].class)
      /\ Loose(overrides[i].class, overrides[i].day,
               \/ <<overrides[i].class, overrides[i].day>> \in loose
               \/ "approved" \in {overrides[i].status, v})
      /\ UNCHANGED <<routine, edits, suggestions>>
  BY DEF Decide, Done, plan
<1>2. overrides[i].class \in Classes /\ overrides[i].day \in Days
  BY <1>1, RowTypes DEF Base, Override
<1>3. loose' \subseteq Classes \X Days
  BY <1>1, <1>2 DEF Loose, Base, Types
<1>. QED
  BY <1>1, <1>2, <1>3, StatusWrites

-----------------------------------------------------------------------------
(* The requests that only look, and those that end.                          *)

LEMMA Asks ==
  ASSUME Base, NEW r \in Requests, NEW q, Ask(r, q),
         Shape(q), RowKept(q), Found(q), UNCHANGED <<plan, overrides, suggestions, loose>>
  PROVE  Base'
<1>1. UNCHANGED <<routine, edits, overrides, suggestions, loose>>
  BY DEF plan
<1>2. RequestTypes' /\ RequestInv'
  BY <1>1, AskedInv DEF Base
<1>3. Types' /\ Keys'
  BY <1>1 DEF Base, Types, Keys, Exists
<1>. QED
  BY <1>2, <1>3 DEF Base

LEMMA AskPlaceBase ==
  ASSUME Base, NEW r \in Requests, NEW c \in Classes, NEW d \in Days, NEW p \in Places,
         AskPlace(r, c, d, p)
  PROVE  Base'
<1>1. PICK q : q = [Idle EXCEPT !.op = "place", !.class = c, !.day = d, !.to = p, !.was = routine[c]]
  OBVIOUS
<1>2. /\ Ask(r, q) /\ WeekFree(c, d, p)
      /\ UNCHANGED <<plan, overrides, suggestions, loose>>
  BY <1>1 DEF AskPlace
<1>3. routine[c] \in RoutineType
  BY DEF Base, Types
<1>4. /\ q.op = "place" /\ q.class = c /\ q.day = d /\ q.to = p /\ q.was = routine[c]
      /\ q.behind = {} /\ q \in RequestRecord
  BY <1>1, <1>3 DEF Idle, RequestRecord, RoutineType, Nowhere
<1>5. Shape(q) /\ RowKept(q)
  BY <1>4 DEF Shape, RowKept
<1>6. Found(q)
  <2>1. ASSUME NEW x \in Classes \ {c} PROVE routine[x] # [day |-> d, place |-> p]
    BY <1>2 DEF WeekFree, OnPlan
  <2>. QED
    BY <1>4, <2>1 DEF Found
<1>. QED
  BY <1>2, <1>5, <1>6, Asks

LEMMA AskOverrideBase ==
  ASSUME Base, NEW r \in Requests, NEW c \in Classes, NEW d \in Days, NEW p \in Targets,
         AskOverride(r, c, d, p)
  PROVE  Base'
<1>1. PICK q : q = [Idle EXCEPT !.op = "request", !.class = c, !.day = d, !.to = p]
  OBVIOUS
<1>2. /\ Ask(r, q) /\ NotChanged(c, d)
      /\ UNCHANGED <<plan, overrides, suggestions, loose>>
  BY <1>1 DEF AskOverride
<1>3. p \in Places \cup {None, Off}
  BY TimetableAssumption
<1>4. /\ q.op = "request" /\ q.class = c /\ q.day = d /\ q.to = p
      /\ q.behind = {} /\ q \in RequestRecord
  BY <1>1, <1>3 DEF Idle, RequestRecord, RoutineType, Nowhere
<1>5. Shape(q) /\ RowKept(q) /\ Found(q)
  BY <1>2, <1>4 DEF Shape, RowKept, Found
<1>. QED
  BY <1>2, <1>5, Asks

LEMMA AskApprovalBase ==
  ASSUME Base, NEW r \in Requests, NEW i, AskApproval(r, i)
  PROVE  Base'
<1>. DEFINE o == overrides[i]
<1>1. PICK q : q = [Idle EXCEPT !.op = "approve", !.class = o.class, !.day = o.day, !.row = i]
  OBVIOUS
<1>2. /\ Ask(r, q) /\ i \in DOMAIN overrides
      /\ o.makeup \/ OnPlan(o.class, o.day)
      /\ Free(o.class, o.day, Target(o))
      /\ UNCHANGED <<plan, overrides, suggestions, loose>>
  BY <1>1 DEF AskApproval
<1>3. o.class \in Classes /\ o.day \in Days /\ i \in Nat
  <2>1. o \in Override /\ overrides \in Seq(Override)
    BY <1>2, RowTypes DEF Base, Types
  <2>2. i \in 1..Len(overrides) /\ Len(overrides) \in Nat
    BY <1>2, <2>1
  <2>. QED
    BY <2>1, <2>2 DEF Override
<1>4. /\ q.op = "approve" /\ q.class = o.class /\ q.day = o.day /\ q.row = i
      /\ q.behind = {} /\ q \in RequestRecord
  <2>. HIDE DEF o
  <2>. QED
    BY <1>1, <1>3 DEF Idle, RequestRecord, RoutineType, Nowhere
<1>5. Shape(q) /\ RowKept(q)
  BY <1>2, <1>3, <1>4 DEF Shape, RowKept
<1>6. Found(q)
  BY <1>2, <1>4 DEF Found
<1>. QED
  BY <1>2, <1>5, <1>6, Asks

LEMMA AskMakeupBase ==
  ASSUME Base, NEW r \in Requests, NEW j, AskMakeup(r, j)
  PROVE  Base'
<1>. DEFINE s == suggestions[j]
<1>1. PICK q : q = [Idle EXCEPT !.op = "makeup", !.class = s.class, !.day = s.day,
                               !.to = s.to, !.row = j]
  OBVIOUS
<1>2. /\ Ask(r, q) /\ j \in DOMAIN suggestions /\ Free(s.class, s.day, s.to)
      /\ UNCHANGED <<plan, overrides, suggestions, loose>>
  BY <1>1 DEF AskMakeup
<1>3. s.class \in Classes /\ s.day \in Days /\ s.to \in Places /\ j \in Nat
  <2>1. s \in Suggestion /\ suggestions \in Seq(Suggestion)
    BY <1>2, RowTypes DEF Base, Types
  <2>2. j \in 1..Len(suggestions) /\ Len(suggestions) \in Nat
    BY <1>2, <2>1
  <2>. QED
    BY <2>1, <2>2 DEF Suggestion
<1>4. /\ q.op = "makeup" /\ q.class = s.class /\ q.day = s.day /\ q.to = s.to /\ q.row = j
      /\ q.behind = {} /\ q \in RequestRecord
  <2>. HIDE DEF s
  <2>. QED
    BY <1>1, <1>3 DEF Idle, RequestRecord, RoutineType, Nowhere
<1>5. Shape(q) /\ RowKept(q) /\ Found(q)
  BY <1>2, <1>3, <1>4 DEF Shape, RowKept, Found
<1>. QED
  BY <1>2, <1>5, Asks

LEMMA AskRefusalBase ==
  ASSUME Base, NEW r \in Requests, NEW j, AskRefusal(r, j)
  PROVE  Base'
<1>1. PICK q : q = [Idle EXCEPT !.op = "refuse", !.row = j]
  OBVIOUS
<1>2. /\ Ask(r, q) /\ j \in DOMAIN suggestions
      /\ UNCHANGED <<plan, overrides, suggestions, loose>>
  BY <1>1 DEF AskRefusal
<1>3. j \in Nat
  <2>1. suggestions \in Seq(Suggestion)
    BY DEF Base, Types
  <2>2. j \in 1..Len(suggestions) /\ Len(suggestions) \in Nat
    BY <1>2, <2>1
  <2>. QED
    BY <2>2
<1>4. q.op = "refuse" /\ q.class = None /\ q.row = j /\ q \in RequestRecord
  BY <1>1, <1>3 DEF Idle, RequestRecord, RoutineType, Nowhere
<1>5. Shape(q) /\ RowKept(q) /\ Found(q)
  BY <1>2, <1>4 DEF Shape, RowKept, Found
<1>. QED
  BY <1>2, <1>5, Asks

\* a request ends, a suggestion may be marked or added: nothing found changes
LEMMA Ends ==
  ASSUME RequestTypes, RequestInv,
         \A p \in Requests : req'[p] \in {req[p], Idle}, req' = [p \in Requests |-> req'[p]],
         UNCHANGED <<routine, overrides>>, DOMAIN suggestions \subseteq DOMAIN suggestions',
         \A i \in DOMAIN suggestions : suggestions'[i].class = suggestions[i].class
  PROVE  RequestTypes' /\ RequestInv'
<1>1. ASSUME NEW z, RowKept(z), Found(z) PROVE (RowKept(z) /\ Found(z))'
  BY <1>1, StillFound
<1>2. ASSUME NEW p \in Requests PROVE Shape(req'[p]) /\ (RowKept(req[p]) /\ Found(req[p]))'
  <2>1. PICK z : z = req'[p]
    OBVIOUS
  <2>2. Shape(z) /\ RowKept(z) /\ Found(z)
    BY <2>1, IdleShape DEF RequestTypes, RequestInv
  <2>3. (RowKept(z) /\ Found(z))'
    BY <1>1, <2>2
  <2>4. RowKept(req[p])'
    BY <2>1, <2>3 DEF RowKept
  <2>5. Found(req[p])'
    BY <2>1, <2>3 DEF Found
  <2>. QED
    BY <2>1, <2>2, <2>4, <2>5
<1>. QED
  BY <1>2 DEF RequestTypes, RequestInv

LEMMA FailBase ==
  ASSUME Base, NEW r \in Requests, Fail(r)
  PROVE  Base'
<1>1. /\ \A p \in Requests : req'[p] \in {req[p], Idle} /\ req' = [z \in Requests |-> req'[z]]
      /\ UNCHANGED <<routine, edits, overrides, suggestions, loose>>
  BY DEF Fail, plan, Base, RequestTypes
<1>2. req' = [z \in Requests |-> req'[z]]
  BY DEF Fail, Base, RequestTypes
<1>3. RequestTypes' /\ RequestInv'
  BY <1>1, <1>2, Ends DEF Base
<1>. QED
  BY <1>1, <1>3 DEF Base, Types, Keys, Exists

LEMMA RefuseBase ==
  ASSUME Base, NEW r \in Requests, Refuse(r)
  PROVE  Base' /\ Len(suggestions') = Len(suggestions)
<1>1. /\ req[r].op = "refuse" /\ req' = [req EXCEPT ![r] = Idle]
      /\ suggestions' = [suggestions EXCEPT ![req[r].row].status = "rejected"]
      /\ UNCHANGED <<routine, edits, overrides, loose>>
  BY DEF Refuse, plan
<1>2. (\A p \in Requests : req'[p] \in {req[p], Idle}) /\ req' = [z \in Requests |-> req'[z]]
  BY <1>1 DEF Base, RequestTypes
<1>3. req[r].row \in DOMAIN suggestions /\ suggestions \in Seq(Suggestion)
  BY <1>1 DEF Base, RequestInv, RowKept, Types
<1>4. /\ suggestions' \in Seq(Suggestion) /\ DOMAIN suggestions' = DOMAIN suggestions
      /\ Len(suggestions') = Len(suggestions)
      /\ \A i \in DOMAIN suggestions : suggestions'[i].class = suggestions[i].class
  BY <1>1, <1>3, MarkedSuggestion
<1>5. RequestTypes' /\ RequestInv'
  BY <1>1, <1>2, <1>4, Ends DEF Base
<1>6. Types' /\ Keys'
  BY <1>1, <1>4 DEF Base, Types, Keys, Exists
<1>. QED
  BY <1>4, <1>5, <1>6 DEF Base

LEMMA SuggestBase ==
  ASSUME Base, NEW c \in Classes, NEW d \in Days, NEW p \in Places, Suggest(c, d, p)
  PROVE  Base' /\ Len(suggestions') = Len(suggestions) + 1
<1>. DEFINE s == [class |-> c, day |-> d, to |-> p, status |-> "pending"]
<1>1. /\ Exists(c) /\ suggestions' = Append(suggestions, s)
      /\ UNCHANGED <<routine, edits, overrides, loose, req>>
  BY DEF Suggest, plan
<1>2. s \in Suggestion /\ s.class = c
  BY DEF Suggestion
<1>. HIDE DEF s
<1>3. /\ suggestions' \in Seq(Suggestion) /\ Len(suggestions') = Len(suggestions) + 1
      /\ DOMAIN suggestions' = DOMAIN suggestions \cup {Len(suggestions) + 1}
      /\ suggestions'[Len(suggestions) + 1] = s
      /\ \A i \in DOMAIN suggestions : suggestions'[i] = suggestions[i]
  <2>1. suggestions \in Seq(Suggestion)
    BY DEF Base, Types
  <2>. QED
    BY <1>1, <1>2, <2>1, Appended
<1>4. RequestTypes' /\ RequestInv'
  <2>1. \A p2 \in Requests : req'[p2] \in {req[p2], Idle}
    BY <1>1
  <2>2. req' = [z \in Requests |-> req'[z]]
    BY <1>1 DEF Base, RequestTypes
  <2>. QED
    BY <1>1, <1>3, <2>1, <2>2, Ends DEF Base
<1>5. Types' /\ Keys'
  BY <1>1, <1>2, <1>3 DEF Base, Types, Keys, Exists
<1>. QED
  BY <1>3, <1>4, <1>5 DEF Base

\* a request is a fixed step for every action but those that write
LEMMA BaseInit == Init => Base
<1>. SUFFICES ASSUME Init PROVE Base
  OBVIOUS
<1>1. overrides = <<>> /\ suggestions = <<>> /\ loose = {} /\ edits = 0 /\ req = [r \in Requests |-> Idle]
  BY DEF Init
<1>2. Types
  BY <1>1 DEF Init, Types, RoutineType, Override, Suggestion
<1>. QED
  BY <1>1, <1>2, IdleShape DEF Base, Keys, RequestTypes, RequestInv

LEMMA WriteBase ==
  ASSUME Base, NEW R, NEW c \in Classes, Overtake(R, c), WritesOnly(c), Types', Keys'
  PROVE  Base'
BY OvertakenInv DEF Base

LEMMA BaseStep == ASSUME Base, [Next]_vars PROVE Base'
<1>1. CASE Planning
  <2>1. ASSUME NEW r \in Requests, NEW c \in Classes, NEW d \in Days, NEW p \in Places,
               AskPlace(r, c, d, p)
        PROVE  Base'
    BY <2>1, AskPlaceBase
  <2>2. ASSUME NEW r \in Requests, Place(r) PROVE Base'
    BY <2>2, PlaceWrites, WriteBase
  <2>3. ASSUME NEW r \in Requests, Fail(r) PROVE Base'
    BY <2>3, FailBase
  <2>4. ASSUME NEW c \in Classes, Delete(c) PROVE Base'
    BY <2>4, DeleteWrites, WriteBase
  <2>. QED
    BY <1>1, <2>1, <2>2, <2>3, <2>4 DEF Planning
<1>2. CASE Changing
  <2>1. ASSUME NEW r \in Requests, NEW c \in Classes, NEW d \in Days, NEW p \in Targets,
               AskOverride(r, c, d, p)
        PROVE  Base'
    BY <2>1, AskOverrideBase
  <2>2. ASSUME NEW r \in Requests, NEW i \in 1..MaxWork, AskApproval(r, i) PROVE Base'
    BY <2>2, AskApprovalBase
  <2>3. ASSUME NEW r \in Requests, NEW i \in 1..MaxWork, NEW v \in {"approved", "rejected"},
               Decide(r, i, v)
        PROVE  Base'
    BY <2>3, DecideWrites, WriteBase
  <2>4. ASSUME NEW r \in Requests, Request(r) PROVE Base'
    BY <2>4, RequestWrites, WriteBase
  <2>5. ASSUME NEW r \in Requests, Approve(r) PROVE Base'
    BY <2>5, ApproveWrites, WriteBase
  <2>. QED
    BY <1>2, <2>1, <2>2, <2>3, <2>4, <2>5 DEF Changing
<1>3. CASE Completing
  <2>1. ASSUME NEW c \in Classes, NEW d \in Days, NEW p \in Places, Suggest(c, d, p) PROVE Base'
    BY <2>1, SuggestBase
  <2>2. ASSUME NEW r \in Requests, NEW j \in 1..MaxSuggestions, AskMakeup(r, j) PROVE Base'
    BY <2>2, AskMakeupBase
  <2>3. ASSUME NEW r \in Requests, NEW j \in 1..MaxSuggestions, AskRefusal(r, j) PROVE Base'
    BY <2>3, AskRefusalBase
  <2>4. ASSUME NEW r \in Requests, Makeup(r) PROVE Base'
    BY <2>4, MakeupWrites, WriteBase
  <2>5. ASSUME NEW r \in Requests, Refuse(r) PROVE Base'
    BY <2>5, RefuseBase
  <2>. QED
    BY <1>3, <2>1, <2>2, <2>3, <2>4, <2>5 DEF Completing
<1>4. CASE UNCHANGED vars
  <2>1. UNCHANGED <<routine, edits, overrides, suggestions, req, loose>>
    BY <1>4 DEF vars, plan
  <2>2. (\A p \in Requests : req'[p] \in {req[p], Idle}) /\ req' = [z \in Requests |-> req'[z]]
    BY <2>1 DEF Base, RequestTypes
  <2>3. RequestTypes' /\ RequestInv'
    BY <2>1, <2>2, Ends DEF Base
  <2>. QED
    BY <2>1, <2>3 DEF Base, Types, Keys, Exists
<1>. QED
  BY <1>1, <1>2, <1>3, <1>4 DEF Next

-----------------------------------------------------------------------------
(* The bounds: work asked for and work done.                                 *)

Asking == {r \in Requests : req[r].op \in {"place", "request", "makeup"}}

Bounds ==
  /\ \/ edits + Len(overrides) + Cardinality(Asking) <= MaxWork
     \/ /\ edits + Len(overrides) = MaxWork
        /\ \A r \in Requests : req[r].op \notin {"request", "makeup"}
  /\ Len(suggestions) <= MaxSuggestions

LEMMA BoundsInit == Init => Bounds
<1>. SUFFICES ASSUME Init PROVE Bounds
  OBVIOUS
<1>1. overrides = <<>> /\ suggestions = <<>> /\ edits = 0 /\ req = [r \in Requests |-> Idle]
  BY DEF Init
<1>2. Asking = {}
  BY <1>1, IdleShape DEF Asking
<1>3. Cardinality(Asking) = 0 /\ Len(overrides) = 0 /\ Len(suggestions) = 0
  BY <1>1, <1>2, FS_EmptySet
<1>. QED
  BY <1>1, <1>3, TimetableAssumption DEF Bounds

LEMMA FewAsking ==
  /\ IsFiniteSet(Requests)
  /\ IsFiniteSet(Asking) /\ Cardinality(Asking) \in Nat
<1>1. IsFiniteSet(Requests)
  BY TimetableAssumption, Zenon
<1>2. Asking \subseteq Requests
  BY DEF Asking
<1>. QED
  BY <1>1, <1>2, FS_Subset, FS_CardinalityType

\* one more asks
LEMMA MoreAsking ==
  ASSUME RequestTypes, NEW r \in Requests, NEW q, Ask(r, q)
  PROVE  /\ Cardinality(Asking') \in Nat /\ Cardinality(Asking') <= Cardinality(Asking) + 1
         /\ q.op \notin {"place", "request", "makeup"} => Asking' = Asking
<1>1. req[r] = Idle /\ req'[r] = q /\ \A p \in Requests : p # r => req'[p] = req[p]
  BY Asked
<1>2. r \notin Asking
  BY <1>1, IdleShape DEF Asking
<1>3. Asking' = Asking \/ Asking' = Asking \cup {r}
  BY <1>1, <1>2 DEF Asking
<1>4. q.op \notin {"place", "request", "makeup"} => Asking' = Asking
  BY <1>1, <1>2 DEF Asking
<1>5. Cardinality(Asking \cup {r}) = Cardinality(Asking) + 1
  BY <1>2, FewAsking, FS_AddElement
<1>6. Cardinality(Asking) \in Nat
  BY FewAsking
<1>7. Cardinality(Asking') \in {Cardinality(Asking), Cardinality(Asking) + 1}
  BY <1>3, <1>5
<1>. QED
  BY <1>4, <1>6, <1>7

\* a class is written, and those who did it no longer ask
LEMMA FewerAsking ==
  ASSUME RequestTypes, NEW R, NEW c \in Classes, Overtake(R, c)
  PROVE  /\ Asking' = Asking \ R
         /\ \A p \in Requests : req'[p].op \in {req[p].op, "idle"}
         /\ Cardinality(Asking') \in Nat /\ Cardinality(Asking') <= Cardinality(Asking)
         /\ \A r \in Asking : R = {r} => Cardinality(Asking') = Cardinality(Asking) - 1
<1>1. ASSUME NEW p \in Requests
      PROVE  req'[p].op = IF p \in R THEN "idle" ELSE req[p].op
  <2>1. CASE p \in R
    BY <2>1, Overtaken, IdleShape
  <2>2. CASE p \notin R /\ req[p].class = None
    BY <2>2, Overtaken
  <2>3. CASE p \notin R /\ req[p].class # None
    <3>1. Shape(req[p]) /\ req'[p] = [req[p] EXCEPT !.behind = @ \cup {c}]
      BY <2>3, Overtaken DEF RequestTypes
    <3>2. req'[p].op = req[p].op
      BY <3>1, Behind
    <3>. QED
      BY <2>3, <3>2
  <2>. QED
    BY <2>1, <2>2, <2>3
<1>2. Asking' = Asking \ R
  BY <1>1 DEF Asking
<1>3. IsFiniteSet(Asking) /\ Cardinality(Asking) \in Nat
  BY FewAsking
<1>4. Cardinality(Asking') \in Nat /\ Cardinality(Asking') <= Cardinality(Asking)
  BY <1>2, <1>3, FS_Subset, FS_CardinalityType
<1>5. ASSUME NEW r \in Asking, R = {r} PROVE Cardinality(Asking') = Cardinality(Asking) - 1
  BY <1>2, <1>3, <1>5, FS_RemoveElement
<1>. QED
  BY <1>1, <1>2, <1>4, <1>5

\* a request ends
LEMMA EndBounds ==
  ASSUME RequestTypes, Bounds, NEW r \in Requests, req' = [req EXCEPT ![r] = Idle],
         UNCHANGED <<edits, overrides>>, Len(suggestions') = Len(suggestions),
         edits \in Nat, Len(overrides) \in Nat
  PROVE  Bounds'
<1>1. req'[r] = Idle /\ \A p \in Requests : p # r => req'[p] = req[p]
  BY DEF RequestTypes
<1>2. Asking' \subseteq Asking
  BY <1>1, IdleShape DEF Asking
<1>3. /\ Cardinality(Asking') \in Nat /\ Cardinality(Asking') <= Cardinality(Asking)
      /\ Cardinality(Asking) \in Nat
  BY <1>2, FewAsking, FS_Subset, FS_CardinalityType
<1>4. (\A p \in Requests : req[p].op \notin {"request", "makeup"})
        => \A p \in Requests : req'[p].op \notin {"request", "makeup"}
  BY <1>1, IdleShape
<1>5. MaxWork \in Nat
  BY TimetableAssumption
<1>6. edits' = edits /\ Len(overrides') = Len(overrides)
  OBVIOUS
<1>. QED
  BY <1>3, <1>4, <1>5, <1>6 DEF Bounds

LEMMA AskBounds ==
  ASSUME Base, Bounds, NEW r \in Requests, NEW q, Ask(r, q),
         UNCHANGED <<plan, overrides, suggestions>>,
         \/ q.op \notin {"place", "request", "makeup"}
         \/ Room
         \/ q.op = "place" /\ overrides = <<>> /\ \A p \in Requests : req[p] = Idle
  PROVE  Bounds'
<1>1. UNCHANGED <<edits, overrides, suggestions>> /\ RequestTypes
  BY DEF plan, Base
<1>2. /\ req'[r] = q /\ req[r] = Idle /\ \A p \in Requests : p # r => req'[p] = req[p]
  BY <1>1, Asked
<1>3. /\ edits \in Nat /\ Len(overrides) \in Nat /\ MaxWork \in Nat
      /\ Cardinality(Asking) \in Nat /\ Cardinality(Asking') \in Nat
      /\ Cardinality(Asking') <= Cardinality(Asking) + 1
      /\ q.op \notin {"place", "request", "makeup"} => Asking' = Asking
  BY <1>1, MoreAsking, FewAsking, TimetableAssumption DEF Base, Types
<1>4. Len(suggestions') <= MaxSuggestions
  BY <1>1 DEF Bounds
<1>5. CASE q.op \notin {"place", "request", "makeup"}
  <2>1. (\A p \in Requests : req[p].op \notin {"request", "makeup"})
          => \A p \in Requests : req'[p].op \notin {"request", "makeup"}
    BY <1>2, <1>5
  <2>2. Cardinality(Asking') = Cardinality(Asking) /\ edits' + Len(overrides') = edits + Len(overrides)
    BY <1>1, <1>3, <1>5
  <2>. QED
    BY <1>1, <1>4, <2>1, <2>2 DEF Bounds
<1>6. CASE Room
  <2>1. edits + Len(overrides) + Cardinality(Asking) < MaxWork
    BY <1>6 DEF Room, Asking
  <2>2. edits + Len(overrides) + Cardinality(Asking') <= MaxWork
    BY <1>3, <2>1
  <2>. QED
    BY <1>1, <1>4, <2>2 DEF Bounds
<1>7. CASE ~Room /\ q.op = "place" /\ overrides = <<>> /\ \A p \in Requests : req[p] = Idle
  <2>1. Asking = {}
    BY <1>7, IdleShape DEF Asking
  <2>2. Cardinality(Asking) = 0
    BY <2>1, FS_EmptySet
  <2>3. ~(edits + Len(overrides) + Cardinality(Asking) < MaxWork)
    BY <1>7 DEF Room, Asking
  <2>4. edits + Len(overrides) = MaxWork
    BY <1>3, <2>2, <2>3 DEF Bounds
  <2>5. \A p \in Requests : req'[p].op \notin {"request", "makeup"}
    BY <1>2, <1>7, IdleShape
  <2>. QED
    BY <1>1, <1>4, <2>4, <2>5 DEF Bounds
<1>. QED
  BY <1>5, <1>6, <1>7

\* a class is written: what was asked for is done, or nothing is added
LEMMA WriteBounds ==
  ASSUME Base, Bounds, NEW R, NEW c \in Classes, Overtake(R, c),
         edits' \in Nat, Len(overrides') \in Nat, Len(suggestions') = Len(suggestions),
         \/ edits' + Len(overrides') = edits + Len(overrides)
         \/ \E r \in Asking :
              /\ R = {r} /\ edits' + Len(overrides') = edits + Len(overrides) + 1
              /\ req[r].op \in {"request", "makeup"} \/ edits + Len(overrides) < MaxWork
  PROVE  Bounds'
<1>1. /\ \A p \in Requests : req'[p].op \in {req[p].op, "idle"}
      /\ Cardinality(Asking') \in Nat /\ Cardinality(Asking') <= Cardinality(Asking)
      /\ \A r \in Asking : R = {r} => Cardinality(Asking') = Cardinality(Asking) - 1
  BY FewerAsking DEF Base
<1>2. /\ edits \in Nat /\ Len(overrides) \in Nat /\ MaxWork \in Nat /\ Cardinality(Asking) \in Nat
  BY FewAsking, TimetableAssumption DEF Base, Types
<1>3. (\A p \in Requests : req[p].op \notin {"request", "makeup"})
        => \A p \in Requests : req'[p].op \notin {"request", "makeup"}
  BY <1>1
<1>4. CASE edits' + Len(overrides') = edits + Len(overrides)
  <2>. DEFINE few == Cardinality(Asking)  few1 == Cardinality(Asking')
              all == edits + Len(overrides)  all1 == edits' + Len(overrides')
  <2>1. all \in Nat /\ few \in Nat /\ few1 \in Nat /\ few1 <= few /\ all1 = all
    BY <1>1, <1>2, <1>4
  <2>. HIDE DEF few, few1, all, all1
  <2>2. all + few <= MaxWork => all1 + few1 <= MaxWork
    BY <1>2, <2>1
  <2>3. all = MaxWork => all1 = MaxWork
    BY <2>1
  <2>4. Len(suggestions') <= MaxSuggestions
    BY DEF Bounds
  <2>. QED
    BY <1>3, <2>2, <2>3, <2>4, Zenon DEF Bounds, all, few, all1, few1
<1>5. CASE \E r \in Asking :
              /\ R = {r} /\ edits' + Len(overrides') = edits + Len(overrides) + 1
              /\ req[r].op \in {"request", "makeup"} \/ edits + Len(overrides) < MaxWork
  <2>1. PICK r \in Asking :
              /\ R = {r} /\ edits' + Len(overrides') = edits + Len(overrides) + 1
              /\ req[r].op \in {"request", "makeup"} \/ edits + Len(overrides) < MaxWork
    BY <1>5
  <2>2. r \in Requests
    BY DEF Asking
  <2>3. edits + Len(overrides) + Cardinality(Asking) <= MaxWork
    BY <1>2, <2>1, <2>2 DEF Bounds
  <2>4. Cardinality(Asking') = Cardinality(Asking) - 1
    BY <1>1, <2>1
  <2>5. edits' + Len(overrides') + Cardinality(Asking') <= MaxWork
    BY <1>1, <1>2, <2>1, <2>3, <2>4
  <2>. QED
    BY <2>5 DEF Bounds
<1>. QED
  BY <1>4, <1>5

LEMMA BoundsStep == ASSUME Base, Bounds, [Next]_vars PROVE Bounds'
<1>0. /\ edits \in Nat /\ overrides \in Seq(Override) /\ suggestions \in Seq(Suggestion)
      /\ Len(overrides) \in Nat /\ Len(suggestions) \in Nat /\ RequestTypes
  BY DEF Base, Types
<1>b. Len(overrides') \in Nat /\ edits' \in Nat
  BY BaseStep DEF Base, Types
<1>1. CASE Planning
  <2>1. ASSUME NEW r \in Requests, NEW c \in Classes, NEW d \in Days, NEW p \in Places,
               AskPlace(r, c, d, p)
        PROVE  Bounds'
    <3>1. PICK q : q = [Idle EXCEPT !.op = "place", !.class = c, !.day = d, !.to = p, !.was = routine[c]]
      OBVIOUS
    <3>2. q.op = "place"
      BY <3>1 DEF Idle
    <3>3. Ask(r, q) /\ (Room \/ Alone(c)) /\ UNCHANGED <<plan, overrides, suggestions>>
      BY <2>1, <3>1 DEF AskPlace
    <3>. QED
      BY <3>2, <3>3, AskBounds DEF Alone
  <2>2. ASSUME NEW r \in Requests, Place(r) PROVE Bounds'
    <3>1. /\ Overtake({r}, req[r].class) /\ req[r].class \in Classes /\ req[r].op = "place"
          /\ edits' = IF edits + Len(overrides) < MaxWork THEN edits + 1 ELSE edits
          /\ UNCHANGED <<overrides, suggestions>>
      BY <2>2, PlaceWrites DEF Place
    <3>2. r \in Asking
      BY <3>1 DEF Asking
    <3>3. CASE edits + Len(overrides) < MaxWork
      BY <1>0, <1>b, <3>1, <3>2, <3>3, WriteBounds
    <3>4. CASE ~(edits + Len(overrides) < MaxWork)
      BY <1>0, <1>b, <3>1, <3>4, WriteBounds
    <3>. QED
      BY <3>3, <3>4
  <2>3. ASSUME NEW r \in Requests, Fail(r) PROVE Bounds'
    <3>1. /\ req' = [req EXCEPT ![r] = Idle] /\ UNCHANGED <<edits, overrides, suggestions>>
      BY <2>3 DEF Fail, plan
    <3>. QED
      BY <1>0, <3>1, EndBounds
  <2>4. ASSUME NEW c \in Classes, Delete(c) PROVE Bounds'
    <3>1. Overtake({}, c) /\ UNCHANGED <<edits, overrides, suggestions>>
      BY <2>4 DEF Delete
    <3>. QED
      BY <1>b, <3>1, WriteBounds
  <2>. QED
    BY <1>1, <2>1, <2>2, <2>3, <2>4 DEF Planning
<1>2. CASE Changing
  <2>1. ASSUME NEW r \in Requests, NEW c \in Classes, NEW d \in Days, NEW p \in Targets,
               AskOverride(r, c, d, p)
        PROVE  Bounds'
    <3>1. PICK q : q = [Idle EXCEPT !.op = "request", !.class = c, !.day = d, !.to = p]
      OBVIOUS
    <3>2. Ask(r, q) /\ Room /\ UNCHANGED <<plan, overrides, suggestions>>
      BY <2>1, <3>1 DEF AskOverride
    <3>. QED
      BY <3>2, AskBounds
  <2>2. ASSUME NEW r \in Requests, NEW i \in 1..MaxWork, AskApproval(r, i) PROVE Bounds'
    <3>1. PICK q : q = [Idle EXCEPT !.op = "approve", !.class = overrides[i].class,
                                   !.day = overrides[i].day, !.row = i]
      OBVIOUS
    <3>2. q.op = "approve"
      BY <3>1 DEF Idle
    <3>3. Ask(r, q) /\ UNCHANGED <<plan, overrides, suggestions>>
      BY <2>2, <3>1 DEF AskApproval
    <3>. QED
      BY <3>2, <3>3, AskBounds
  <2>3. ASSUME NEW r \in Requests, NEW i \in 1..MaxWork, NEW v \in {"approved", "rejected"},
               Decide(r, i, v)
        PROVE  Bounds'
    <3>1. /\ i \in DOMAIN overrides /\ overrides[i].class \in Classes
          /\ overrides' = [overrides EXCEPT ![i].status = v]
          /\ Overtake({r}, overrides[i].class) /\ UNCHANGED <<edits, suggestions>>
      BY <2>3, DecideWrites DEF Decide, plan
    <3>2. Len(overrides') = Len(overrides)
      BY <1>0, <3>1, Marked
    <3>. QED
      BY <1>b, <3>1, <3>2, WriteBounds
  <2>4. ASSUME NEW r \in Requests, Request(r) PROVE Bounds'
    <3>1. /\ req[r].op = "request" /\ UNCHANGED <<edits, suggestions>>
          /\ req[r].class \in Classes /\ Overtake({r}, req[r].class)
          /\ Len(overrides') = Len(overrides) + 1
      BY <2>4, RequestWrites DEF Request, plan
    <3>2. r \in Asking /\ edits' + Len(overrides') = edits + Len(overrides) + 1
      BY <1>0, <3>1 DEF Asking
    <3>. QED
      BY <1>b, <3>1, <3>2, WriteBounds
  <2>5. ASSUME NEW r \in Requests, Approve(r) PROVE Bounds'
    <3>1. /\ req[r].row \in DOMAIN overrides /\ req[r].class \in Classes
          /\ overrides' = [overrides EXCEPT ![req[r].row].status = "approved"]
          /\ Overtake({r}, req[r].class) /\ UNCHANGED <<edits, suggestions>>
      BY <2>5, ApproveWrites DEF Approve, plan
    <3>2. Len(overrides') = Len(overrides)
      <4>. DEFINE v == "approved"
      <4>1. v \in {"approved", "rejected"} /\ overrides' = [overrides EXCEPT ![req[r].row].status = v]
        BY <3>1
      <4>. HIDE DEF v
      <4>. QED
        BY <1>0, <3>1, <4>1, Marked
    <3>. QED
      BY <1>b, <3>1, <3>2, WriteBounds
  <2>. QED
    BY <1>2, <2>1, <2>2, <2>3, <2>4, <2>5 DEF Changing
<1>3. CASE Completing
  <2>1. ASSUME NEW c \in Classes, NEW d \in Days, NEW p \in Places, Suggest(c, d, p) PROVE Bounds'
    <3>1. /\ UNCHANGED <<edits, overrides, req>> /\ Len(suggestions) < MaxSuggestions
          /\ Len(suggestions') = Len(suggestions) + 1
      BY <2>1, SuggestBase DEF Suggest, plan
    <3>2. Len(suggestions') <= MaxSuggestions
      BY <1>0, <3>1, TimetableAssumption
    <3>3. Asking' = Asking
      BY <3>1 DEF Asking
    <3>. QED
      BY <3>1, <3>2, <3>3 DEF Bounds
  <2>2. ASSUME NEW r \in Requests, NEW j \in 1..MaxSuggestions, AskMakeup(r, j) PROVE Bounds'
    <3>1. PICK q : q = [Idle EXCEPT !.op = "makeup", !.class = suggestions[j].class,
                                   !.day = suggestions[j].day, !.to = suggestions[j].to, !.row = j]
      OBVIOUS
    <3>2. Ask(r, q) /\ Room /\ UNCHANGED <<plan, overrides, suggestions>>
      BY <2>2, <3>1 DEF AskMakeup
    <3>. QED
      BY <3>2, AskBounds
  <2>3. ASSUME NEW r \in Requests, NEW j \in 1..MaxSuggestions, AskRefusal(r, j) PROVE Bounds'
    <3>1. PICK q : q = [Idle EXCEPT !.op = "refuse", !.row = j]
      OBVIOUS
    <3>2. q.op = "refuse"
      BY <3>1 DEF Idle
    <3>3. Ask(r, q) /\ UNCHANGED <<plan, overrides, suggestions>>
      BY <2>3, <3>1 DEF AskRefusal
    <3>. QED
      BY <3>2, <3>3, AskBounds
  <2>4. ASSUME NEW r \in Requests, Makeup(r) PROVE Bounds'
    <3>1. /\ req[r].op = "makeup" /\ UNCHANGED edits /\ Len(suggestions') = Len(suggestions)
          /\ req[r].class \in Classes /\ Overtake({r}, req[r].class)
          /\ Len(overrides') = Len(overrides) + 1
      BY <2>4, MakeupWrites DEF Makeup, plan
    <3>2. r \in Asking /\ edits' + Len(overrides') = edits + Len(overrides) + 1
      BY <1>0, <3>1 DEF Asking
    <3>. QED
      BY <1>b, <3>1, <3>2, WriteBounds
  <2>5. ASSUME NEW r \in Requests, Refuse(r) PROVE Bounds'
    <3>1. /\ req' = [req EXCEPT ![r] = Idle] /\ UNCHANGED <<edits, overrides>>
          /\ Len(suggestions') = Len(suggestions)
      BY <2>5, RefuseBase DEF Refuse, plan
    <3>. QED
      BY <1>0, <3>1, EndBounds
  <2>. QED
    BY <1>3, <2>1, <2>2, <2>3, <2>4, <2>5 DEF Completing
<1>4. CASE UNCHANGED vars
  <2>1. UNCHANGED <<edits, overrides, suggestions, req>>
    BY <1>4 DEF vars, plan
  <2>2. Asking' = Asking
    BY <2>1 DEF Asking
  <2>. QED
    BY <2>1, <2>2 DEF Bounds
<1>. QED
  BY <1>1, <1>2, <1>3, <1>4 DEF Next

-----------------------------------------------------------------------------
(* The week: who may meet on the plan.                                       *)

\* what a step does to the plan: one class is placed or deleted, or nothing
LEMMA PlanStep ==
  ASSUME Next
  PROVE  \/ \E r \in Requests : Place(r)
         \/ \E c \in Classes : Delete(c)
         \/ UNCHANGED plan
BY DEF Next, Planning, Changing, Completing, AskPlace, Fail, AskOverride, AskApproval, Decide,
       Request, Approve, Suggest, AskMakeup, AskRefusal, Makeup, Refuse

LEMMA WeekClearStep == ASSUME Base, WeekClear, [Next]_vars PROVE WeekClear'
<1>1. ASSUME NEW r \in Requests, Place(r) PROVE WeekClear'
  <2>. DEFINE q == req[r]  k == q.class
  <2>1. /\ k \in Classes /\ \A x \in Classes : x # k => routine'[x] = routine[x]
        /\ k \notin q.behind => routine'[k] = [day |-> q.day, place |-> q.to]
    BY <1>1, PlaceWrites DEF WritesOnly
  <2>2. raced' = {s \in raced : k \notin s}
                   \cup {{k, x} : x \in (IF k \in q.behind THEN Classes ELSE q.behind) \ {k}}
    BY <1>1 DEF Place
  <2>3. \A x \in Classes \ {k} : x \in q.behind \/ routine[x] # [day |-> q.day, place |-> q.to]
    BY <1>1 DEF Base, RequestInv, Found, Place
  <2>4. ASSUME NEW x \in Classes, x # k, routine'[k] = routine'[x] PROVE {k, x} \in raced'
    <3>1. x \in (IF k \in q.behind THEN Classes ELSE q.behind) \ {k}
      BY <2>1, <2>3, <2>4
    <3>. QED
      BY <2>2, <3>1
  <2>5. ASSUME NEW x \in Classes, NEW y \in Classes, x # y, x # k, y # k,
               Exists(x)', routine'[x] = routine'[y]
        PROVE  {x, y} \in raced'
    <3>1. Exists(x) /\ routine[x] = routine[y]
      BY <2>1, <2>5 DEF Exists
    <3>2. {x, y} \in raced /\ k \notin {x, y}
      BY <2>5, <3>1 DEF WeekClear
    <3>. QED
      BY <2>2, <3>2
  <2>6. ASSUME NEW x \in Classes, x # k PROVE {k, x} = {x, k}
    OBVIOUS
  <2>. HIDE DEF k, q
  <2>. QED
    BY <2>4, <2>5, <2>6 DEF WeekClear
<1>2. ASSUME NEW k \in Classes, Delete(k) PROVE WeekClear'
  <2>1. /\ ~Exists(k)' /\ \A x \in Classes : x # k => routine'[x] = routine[x]
        /\ raced' = {s \in raced : k \notin s}
    BY <1>2, DeleteWrites DEF WritesOnly, Delete
  <2>2. ASSUME NEW x \in Classes, NEW y \in Classes, x # y, Exists(x)', routine'[x] = routine'[y]
        PROVE  {x, y} \in raced'
    <3>1. x # k /\ y # k
      BY <2>1, <2>2 DEF Exists
    <3>2. Exists(x) /\ routine[x] = routine[y]
      BY <2>1, <2>2, <3>1 DEF Exists
    <3>3. {x, y} \in raced /\ k \notin {x, y}
      BY <2>2, <3>1, <3>2 DEF WeekClear
    <3>. QED
      BY <2>1, <3>3
  <2>. QED
    BY <2>2 DEF WeekClear
<1>3. CASE UNCHANGED plan
  BY <1>3 DEF plan, WeekClear, Exists
<1>4. CASE UNCHANGED vars
  BY <1>3, <1>4 DEF vars
<1>. QED
  BY <1>1, <1>2, <1>3, <1>4, PlanStep

-----------------------------------------------------------------------------
(* Overrides: what a step adds, and what it changes.                         *)

LEMMA OneOverrideStep == ASSUME Base, OneOverride, [Next]_vars PROVE OneOverride'
<1>. DEFINE n == Len(overrides) + 1
<1>0. overrides \in Seq(Override) /\ n \in Nat /\ DOMAIN overrides = 1..Len(overrides) /\ Len(overrides) \in Nat
  BY DEF Base, Types
<1>1. ASSUME NEW r \in Requests, Request(r) PROVE OneOverride'
  <2>1. /\ n \notin DOMAIN overrides /\ DOMAIN overrides' = DOMAIN overrides \cup {n}
        /\ \A i \in DOMAIN overrides : overrides'[i] = overrides[i]
        /\ overrides'[n].class = req[r].class /\ overrides'[n].day = req[r].day
        /\ overrides'[n].late <=> req[r].class \in req[r].behind
    BY <1>1, RequestWrites
  <2>2. req[r].class \in req[r].behind \/ NotChanged(req[r].class, req[r].day)
    BY <1>1 DEF Base, RequestInv, Found, Request
  <2>3. overrides'[n].late
          \/ \A i \in DOMAIN overrides : overrides[i].class # req[r].class \/ overrides[i].day # req[r].day
    BY <2>1, <2>2, Zenon DEF NotChanged
  <2>4. ASSUME NEW i \in DOMAIN overrides', NEW j \in DOMAIN overrides', i < j,
               overrides'[i].class = overrides'[j].class, overrides'[i].day = overrides'[j].day
        PROVE  overrides'[j].makeup \/ overrides'[j].late
    <3>1. i \in DOMAIN overrides
      BY <1>0, <2>1, <2>4
    <3>2. CASE j = n
      BY <2>1, <2>3, <2>4, <3>1, <3>2
    <3>3. CASE j \in DOMAIN overrides
      BY <2>1, <2>4, <3>1, <3>3 DEF OneOverride
    <3>. QED
      BY <2>1, <3>2, <3>3
  <2>. QED
    BY <2>4 DEF OneOverride
<1>2. ASSUME NEW r \in Requests, Makeup(r) PROVE OneOverride'
  <2>1. /\ n \notin DOMAIN overrides /\ DOMAIN overrides' = DOMAIN overrides \cup {n}
        /\ \A i \in DOMAIN overrides : overrides'[i] = overrides[i]
        /\ overrides'[n].makeup
    BY <1>2, MakeupWrites
  <2>2. ASSUME NEW i \in DOMAIN overrides', NEW j \in DOMAIN overrides', i < j,
               overrides'[i].class = overrides'[j].class, overrides'[i].day = overrides'[j].day
        PROVE  overrides'[j].makeup \/ overrides'[j].late
    <3>1. i \in DOMAIN overrides
      BY <1>0, <2>1, <2>2
    <3>2. CASE j = n
      BY <2>1, <3>2
    <3>3. CASE j \in DOMAIN overrides
      BY <2>1, <2>2, <3>1, <3>3 DEF OneOverride
    <3>. QED
      BY <2>1, <3>2, <3>3
  <2>. QED
    BY <2>2 DEF OneOverride
<1>3. ASSUME NEW k \in DOMAIN overrides, NEW v \in {"approved", "rejected"},
             overrides' = [overrides EXCEPT ![k].status = v]
      PROVE  OneOverride'
  <2>1. /\ DOMAIN overrides' = DOMAIN overrides
        /\ \A i \in DOMAIN overrides :
             /\ overrides'[i].class = overrides[i].class /\ overrides'[i].day = overrides[i].day
             /\ overrides'[i].makeup = overrides[i].makeup /\ overrides'[i].late = overrides[i].late
    BY <1>0, <1>3, Marked
  <2>. QED
    BY <2>1, Zenon DEF OneOverride
<1>4. ASSUME NEW r \in Requests, Approve(r) PROVE OneOverride'
  <2>. DEFINE v == "approved"
  <2>1. /\ req[r].row \in DOMAIN overrides /\ v \in {"approved", "rejected"}
        /\ overrides' = [overrides EXCEPT ![req[r].row].status = v]
    BY <1>4, ApproveWrites
  <2>. HIDE DEF v
  <2>. QED
    BY <1>3, <2>1
<1>5. ASSUME NEW r \in Requests, NEW i, NEW v \in {"approved", "rejected"}, Decide(r, i, v)
      PROVE  OneOverride'
  BY <1>3, <1>5, DecideWrites
<1>6. CASE UNCHANGED overrides
  BY <1>6 DEF OneOverride
<1>7. [Next]_vars =>
        \/ \E r \in Requests : Request(r) \/ Makeup(r) \/ Approve(r)
        \/ \E r \in Requests, i \in 1..MaxWork, v \in {"approved", "rejected"} : Decide(r, i, v)
        \/ UNCHANGED overrides
  BY DEF Next, Planning, Changing, Completing, AskPlace, Place, Delete, Fail, AskOverride,
         AskApproval, Suggest, AskMakeup, AskRefusal, Refuse, vars
<1>. QED
  BY <1>1, <1>2, <1>4, <1>5, <1>6, <1>7

-----------------------------------------------------------------------------
(* The dates: who may meet on one of them.                                   *)

\* no two overrides of the class count on that date
OneCounts(x, e) == \A i, j \in Counting(x, e) : i = j

DateInv ==
  /\ \A x \in Classes, e \in Days : <<x, e>> \in loose \/ OneCounts(x, e)
  /\ DateClear

\* the class and the date are as they were
SameDate(x, e) == Counting(x, e)' = Counting(x, e) /\ Held(x, e)' = Held(x, e)

\* the class is on the date in no more places than it was
NoMore(x, e) == Counting(x, e)' \subseteq Counting(x, e) /\ Held(x, e)' \subseteq Held(x, e)

LEMMA NotHeld ==
  ASSUME NEW x, NEW e, Outcomes(x, e) = {}
  PROVE  Counting(x, e) = {} /\ Held(x, e) = {}
<1>1. Counting(x, e) # {} => Outcomes(x, e) # {}
  <2>1. ASSUME Counting(x, e) # {} PROVE Outcomes(x, e) # {}
    <3>1. Outcomes(x, e) = {Target(overrides[i]) : i \in Counting(x, e)}
      BY <2>1 DEF Outcomes
    <3>. QED
      BY <2>1, <3>1
  <2>. QED
    BY <2>1
<1>. QED
  BY <1>1 DEF Held

\* what loose keeps when class c is written for date d
LEMMA LooseKeeps ==
  ASSUME NEW c, NEW d, NEW really, Loose(c, d, really)
  PROVE  /\ \A x, e : <<x, e>> \in loose /\ (x # c \/ (e # d /\ Outcomes(x, e) # {})) => <<x, e>> \in loose'
         /\ really => <<c, d>> \in loose'
BY DEF Loose

\* A class was written for one date: the others keep to what they hold, and on
\* that date it is free of them, or the pair is on record.
LEMMA DateStep ==
  ASSUME DateInv, NEW c \in Classes, NEW d \in Days,
         \A x, e : <<x, e>> \in loose /\ (x # c \/ (e # d /\ Outcomes(x, e) # {})) => <<x, e>> \in loose',
         \A x \in Classes, e \in Days : x # c => SameDate(x, e),
         \A e \in Days : e # d => NoMore(c, e),
         \/ <<c, d>> \in loose'
         \/ /\ OneCounts(c, d)'
            /\ \A x \in Classes : x # c /\ Held(c, d)' \cap Held(x, d) # {} => <<x, d>> \in loose
  PROVE  DateInv'
<1>1. ASSUME NEW e \in Days, e # d, <<c, e>> \notin loose'
      PROVE  /\ OneCounts(c, e)'
             /\ \A x \in Classes : x # c /\ Held(c, e)' \cap Held(x, e) # {} => <<x, e>> \in loose
  <2>1. NoMore(c, e)
    BY <1>1
  <2>2. CASE Outcomes(c, e) = {}
    BY <2>1, <2>2, NotHeld DEF NoMore, OneCounts
  <2>3. CASE Outcomes(c, e) # {}
    <3>1. <<c, e>> \notin loose
      BY <1>1, <2>3
    <3>2. OneCounts(c, e)
      BY <3>1 DEF DateInv
    <3>3. OneCounts(c, e)'
      BY <2>1, <3>2 DEF NoMore, OneCounts
    <3>4. ASSUME NEW x \in Classes, x # c, Held(c, e)' \cap Held(x, e) # {} PROVE <<x, e>> \in loose
      <4>1. Held(c, e) \cap Held(x, e) # {}
        BY <2>1, <3>4 DEF NoMore
      <4>2. {<<c, e>>, <<x, e>>} \cap loose # {}
        BY <3>4, <4>1 DEF DateInv, DateClear
      <4>. QED
        BY <3>1, <4>2
    <3>. QED
      BY <3>3, <3>4
  <2>. QED
    BY <2>2, <2>3
<1>2. ASSUME NEW e \in Days, <<c, e>> \notin loose'
      PROVE  /\ OneCounts(c, e)'
             /\ \A x \in Classes : x # c /\ Held(c, e)' \cap Held(x, e) # {} => <<x, e>> \in loose
  BY <1>1, <1>2
<1>3. ASSUME NEW x \in Classes, NEW e \in Days, <<x, e>> \notin loose'
      PROVE  OneCounts(x, e)'
  <2>1. CASE x = c
    BY <1>2, <1>3, <2>1
  <2>2. CASE x # c
    <3>1. <<x, e>> \notin loose /\ Counting(x, e)' = Counting(x, e)
      BY <1>3, <2>2 DEF SameDate
    <3>. QED
      BY <3>1 DEF DateInv, OneCounts
  <2>. QED
    BY <2>1, <2>2
<1>4. ASSUME NEW x \in Classes, NEW e \in Days, x # c, Held(c, e)' \cap Held(x, e)' # {}
      PROVE  <<c, e>> \in loose' \/ <<x, e>> \in loose'
  <2>1. Held(x, e)' = Held(x, e)
    BY <1>4 DEF SameDate
  <2>2. CASE <<c, e>> \notin loose'
    BY <1>2, <1>4, <2>1, <2>2
  <2>. QED
    BY <2>2
<1>5. ASSUME NEW x \in Classes, NEW y \in Classes, NEW e \in Days, x # c, y # c, x # y,
             Held(x, e)' \cap Held(y, e)' # {}
      PROVE  <<x, e>> \in loose' \/ <<y, e>> \in loose'
  <2>1. Held(x, e) \cap Held(y, e) # {}
    BY <1>5 DEF SameDate
  <2>2. <<x, e>> \in loose \/ <<y, e>> \in loose
    BY <1>5, <2>1 DEF DateInv, DateClear
  <2>. QED
    BY <1>5, <2>2
<1>6. DateClear'
  <2>1. ASSUME NEW x \in Classes, NEW y \in Classes, NEW e \in Days, x # y,
               Held(x, e)' \cap Held(y, e)' # {}
        PROVE  <<x, e>> \in loose' \/ <<y, e>> \in loose'
    <3>1. CASE x = c
      BY <1>4, <2>1, <3>1
    <3>2. CASE y = c
      <4>1. Held(c, e)' \cap Held(x, e)' # {}
        BY <2>1, <3>2
      <4>. QED
        BY <1>4, <2>1, <3>2, <4>1
    <3>3. CASE x # c /\ y # c
      BY <1>5, <2>1, <3>3
    <3>. QED
      BY <3>1, <3>2, <3>3
  <2>. QED
    BY <2>1 DEF DateClear
<1>. QED
  BY <1>3, <1>6 DEF DateInv

\* Whoever holds p on a date where p is free was written without looking.
LEMMA FreeMeets ==
  ASSUME DateInv, NEW c \in Classes, NEW d \in Days, NEW p, p # Off,
         Free(c, d, p), ~Unseen(c, d), NEW x \in Classes, x # c, p \in Held(x, d)
  PROVE  <<x, d>> \in loose
<1>1. p \in Outcomes(x, d)
  BY DEF Held
<1>2. OnPlan(x, d) \/ Counting(x, d) = {}
  BY DEF Unseen
<1>3. OnPlan(x, d)
  BY <1>1, <1>2 DEF Outcomes
<1>4. Outcomes(x, d) # {p}
  BY <1>3 DEF Free
<1>5. Counting(x, d) # {}
  BY <1>1, <1>3, <1>4 DEF Outcomes
<1>6. Outcomes(x, d) = {Target(overrides[i]) : i \in Counting(x, d)}
  BY <1>5 DEF Outcomes
<1>7. ~OneCounts(x, d)
  BY <1>1, <1>4, <1>6 DEF OneCounts
<1>. QED
  BY <1>7 DEF DateInv

\* the other classes on every date
LEMMA Others ==
  ASSUME Base, NEW c \in Classes, WritesOnly(c), NEW x \in Classes, x # c, NEW e \in Days
  PROVE  SameDate(x, e)
<1>1. routine'[x] = routine[x]
  BY DEF WritesOnly
<1>2. Approved(x, e)' = Approved(x, e)
  <2>1. ASSUME NEW i \in Approved(x, e)' PROVE i \in Approved(x, e)
    <3>1. i \in DOMAIN overrides' /\ overrides'[i].class = x /\ overrides'[i].day = e
          /\ overrides'[i].status = "approved"
      BY <2>1 DEF Approved
    <3>2. i \in DOMAIN overrides
      BY <3>1 DEF WritesOnly
    <3>. QED
      BY <3>1, <3>2 DEF Approved, WritesOnly
  <2>2. ASSUME NEW i \in Approved(x, e) PROVE i \in Approved(x, e)'
    BY <2>2 DEF Approved, WritesOnly
  <2>. QED
    BY <2>1, <2>2
<1>3. \A i \in Approved(x, e) :
        /\ i \in DOMAIN overrides /\ overrides[i].class = x /\ overrides'[i].class = x
        /\ overrides'[i].to = overrides[i].to /\ overrides'[i].makeup = overrides[i].makeup
  BY DEF Approved, WritesOnly
<1>4. Counting(x, e)' = Counting(x, e)
  BY <1>1, <1>2, <1>3 DEF Counting, OnPlan
<1>5. \A i \in Counting(x, e) : Target(overrides[i])' = Target(overrides[i])
  BY <1>1, <1>3 DEF Counting, Target
<1>6. Outcomes(x, e)' = Outcomes(x, e)
  <2>1. CASE Counting(x, e) # {}
    <3>1. Outcomes(x, e) = {Target(overrides[i]) : i \in Counting(x, e)}
      BY <2>1 DEF Outcomes
    <3>2. Outcomes(x, e)' = {Target(overrides[i])' : i \in Counting(x, e)'}
      BY <1>4, <2>1 DEF Outcomes
    <3>. QED
      BY <1>4, <1>5, <3>1, <3>2
  <2>2. CASE Counting(x, e) = {}
    BY <1>1, <1>4, <2>2 DEF Outcomes, OnPlan
  <2>. QED
    BY <2>1, <2>2
<1>. QED
  BY <1>4, <1>6 DEF SameDate, Held

\* the place of a makeup does not depend on the plan
LEMMA PlaceNoMore ==
  ASSUME Base, UNCHANGED overrides, NEW c \in Classes, NEW e \in Days,
         ~OnPlan(c, e)'
  PROVE  NoMore(c, e)
<1>1. Approved(c, e)' = Approved(c, e)
  BY DEF Approved
<1>2. Counting(c, e)' \subseteq Counting(c, e)
  BY <1>1 DEF Counting
<1>3. ASSUME NEW i \in Counting(c, e)' PROVE Target(overrides[i])' = Target(overrides[i])
  <2>1. i \in DOMAIN overrides /\ overrides[i].makeup /\ overrides[i].class = c
    BY <1>1, <1>3 DEF Counting, Approved
  <2>2. overrides[i].to \in Places /\ None \notin Places
    BY <2>1, TimetableAssumption DEF Base, Types
  <2>. QED
    BY <2>2 DEF Target
<1>4. Outcomes(c, e)' \subseteq Outcomes(c, e)
  <2>1. CASE Counting(c, e)' # {}
    <3>1. Outcomes(c, e) = {Target(overrides[i]) : i \in Counting(c, e)}
      BY <1>2, <2>1 DEF Outcomes
    <3>2. Outcomes(c, e)' = {Target(overrides[i])' : i \in Counting(c, e)'}
      BY <2>1 DEF Outcomes
    <3>. QED
      BY <1>2, <1>3, <3>1, <3>2
  <2>2. CASE Counting(c, e)' = {}
    BY <2>2 DEF Outcomes
  <2>. QED
    BY <2>1, <2>2
<1>. QED
  BY <1>2, <1>4 DEF NoMore, Held

LEMMA PlaceDate == ASSUME Base, DateInv, NEW r \in Requests, Place(r) PROVE DateInv'
<1>0. PICK q : q = req[r]
  OBVIOUS
<1>. DEFINE c == q.class
<1>1. /\ c \in Classes /\ WritesOnly(c) /\ overrides' = overrides
      /\ c \notin q.behind => routine'[c] = [day |-> q.day, place |-> q.to]
  BY <1>0, PlaceWrites DEF Place
<1>2. PICK d \in Days : d = routine'[c].day /\ Loose(c, d, q.behind # {} \/ Changed(d))
  BY <1>0, PlaceWrites
<1>3. /\ \A x, e : <<x, e>> \in loose /\ (x # c \/ (e # d /\ Outcomes(x, e) # {})) => <<x, e>> \in loose'
      /\ q.behind # {} \/ Changed(d) => <<c, d>> \in loose'
  BY <1>2, LooseKeeps
<1>4. \A x \in Classes, e \in Days : x # c => SameDate(x, e)
  BY <1>1, Others
<1>5. \A e \in Days : e # d => NoMore(c, e)
  BY <1>1, <1>2, PlaceNoMore DEF OnPlan
<1>6. CASE q.behind = {} /\ ~Changed(d)
  <2>1. routine'[c] = [day |-> q.day, place |-> q.to] /\ d = q.day
    BY <1>1, <1>2, <1>6
  <2>2. \A x \in Classes : Approved(x, d) = {}
    BY <1>6 DEF Changed
  <2>3. Counting(c, d)' = {}
    BY <1>1, <2>2 DEF Counting, Approved
  <2>4. Held(c, d)' \subseteq {q.to}
    BY <2>1, <2>3 DEF Held, Outcomes
  <2>5. ASSUME NEW x \in Classes, x # c PROVE Held(c, d)' \cap Held(x, d) = {}
    <3>1. routine[x] # [day |-> q.day, place |-> q.to]
      BY <1>0, <1>6, <2>5 DEF Base, RequestInv, Found, Place
    <3>2. routine[x] \in RoutineType /\ None \notin Days
      BY TimetableAssumption DEF Base, Types
    <3>3. OnPlan(x, d) => routine[x].place # q.to
      BY <2>1, <3>1, <3>2 DEF OnPlan, RoutineType, Nowhere
    <3>4. Counting(x, d) = {}
      BY <2>2 DEF Counting
    <3>5. q.to \notin Held(x, d)
      BY <3>3, <3>4 DEF Held, Outcomes
    <3>. QED
      BY <2>4, <3>5
  <2>6. OneCounts(c, d)'
    BY <2>3 DEF OneCounts
  <2>. HIDE DEF c
  <2>. QED
    BY <1>1, <1>3, <1>4, <1>5, <2>5, <2>6, DateStep
<1>7. CASE q.behind # {} \/ Changed(d)
  <2>1. <<c, d>> \in loose'
    BY <1>3, <1>7
  <2>. HIDE DEF c
  <2>. QED
    BY <1>1, <1>3, <1>4, <1>5, <2>1, DateStep
<1>. QED
  BY <1>6, <1>7

\* nobody holds a class that is deleted
LEMMA DeleteDate == ASSUME Base, DateInv, NEW c \in Classes, Delete(c) PROVE DateInv'
<1>1. /\ WritesOnly(c) /\ ~Exists(c)' /\ \A i \in DOMAIN overrides : overrides[i].class # c
      /\ overrides' = overrides /\ loose' = {s \in loose : s[1] # c}
  BY DeleteWrites DEF Delete
<1>2. \A x \in Classes, e \in Days : x # c => SameDate(x, e)
  BY <1>1, Others
<1>3. ASSUME NEW e \in Days PROVE Counting(c, e)' = {} /\ Held(c, e)' = {}
  <2>1. ~OnPlan(c, e)'
    BY <1>1, TimetableAssumption DEF OnPlan, Exists
  <2>2. Counting(c, e)' = {}
    BY <1>1 DEF Counting, Approved
  <2>. QED
    BY <2>1, <2>2 DEF Held, Outcomes
<1>4. ASSUME NEW x \in Classes, NEW e \in Days PROVE <<x, e>> \in loose' \/ OneCounts(x, e)'
  <2>1. CASE x = c
    BY <1>3, <2>1 DEF OneCounts
  <2>2. CASE x # c
    BY <1>1, <1>2, <2>2 DEF DateInv, SameDate, OneCounts
  <2>. QED
    BY <2>1, <2>2
<1>5. ASSUME NEW x \in Classes, NEW y \in Classes, NEW e \in Days, x # y,
             Held(x, e)' \cap Held(y, e)' # {}
      PROVE  <<x, e>> \in loose' \/ <<y, e>> \in loose'
  <2>1. x # c /\ y # c
    BY <1>3, <1>5
  <2>2. Held(x, e) \cap Held(y, e) # {}
    BY <1>2, <1>5, <2>1 DEF SameDate
  <2>3. <<x, e>> \in loose \/ <<y, e>> \in loose
    BY <1>5, <2>2 DEF DateInv, DateClear
  <2>. QED
    BY <1>1, <2>1, <2>3
<1>6. DateClear'
  BY <1>5 DEF DateClear
<1>. QED
  BY <1>4, <1>6 DEF DateInv

\* The class has just the override k approved on the date.
LEMMA OneApproved ==
  ASSUME NEW c, NEW d, NEW k, NEW p, Approved(c, d)' = {k},
         (overrides[k].makeup \/ OnPlan(c, d))', Target(overrides[k])' = p
  PROVE  OneCounts(c, d)' /\ Held(c, d)' \subseteq {p} \ {Off}
<1>1. Counting(c, d)' = {k}
  BY DEF Counting
<1>2. Outcomes(c, d)' = {p}
  <2>1. Outcomes(c, d)' = {Target(overrides[i])' : i \in Counting(c, d)'}
    BY <1>1 DEF Outcomes
  <2>. QED
    BY <1>1, <2>1
<1>. QED
  BY <1>1, <1>2 DEF OneCounts, Held

\* the dates on which nothing was decided for the class
LEMMA SameDay ==
  ASSUME Base, UNCHANGED routine, NEW c \in Classes, NEW e \in Days,
         Approved(c, e)' = Approved(c, e),
         \A i \in Approved(c, e) : /\ overrides'[i].to = overrides[i].to
                                   /\ overrides'[i].makeup = overrides[i].makeup
                                   /\ overrides'[i].class = overrides[i].class
  PROVE  SameDate(c, e) /\ NoMore(c, e)
<1>1. routine' = routine
  OBVIOUS
<1>2. Counting(c, e)' = Counting(c, e)
  BY <1>1 DEF Counting, OnPlan
<1>3. \A i \in Counting(c, e) : Target(overrides[i])' = Target(overrides[i])
  BY <1>1 DEF Counting, Target
<1>4. Outcomes(c, e)' = Outcomes(c, e)
  <2>1. CASE Counting(c, e) # {}
    <3>1. Outcomes(c, e) = {Target(overrides[i]) : i \in Counting(c, e)}
      BY <2>1 DEF Outcomes
    <3>2. Outcomes(c, e)' = {Target(overrides[i])' : i \in Counting(c, e)'}
      BY <1>2, <2>1 DEF Outcomes
    <3>. QED
      BY <1>2, <1>3, <3>1, <3>2
  <2>2. CASE Counting(c, e) = {}
    BY <1>1, <1>2, <2>2 DEF Outcomes, OnPlan
  <2>. QED
    BY <2>1, <2>2
<1>. QED
  BY <1>2, <1>4 DEF SameDate, NoMore, Held

LEMMA MakeupDate == ASSUME Base, DateInv, NEW r \in Requests, Makeup(r) PROVE DateInv'
<1>0. PICK q : q = req[r]
  OBVIOUS
<1>. DEFINE c == q.class  d == q.day
<1>n. PICK n : n = Len(overrides) + 1
  OBVIOUS
<1>1. /\ c \in Classes /\ d \in Days /\ q.to \in Places /\ WritesOnly(c) /\ routine' = routine
      /\ DOMAIN overrides' = DOMAIN overrides \cup {n} /\ n \notin DOMAIN overrides
      /\ \A i \in DOMAIN overrides : overrides'[i] = overrides[i]
      /\ overrides'[n].class = c /\ overrides'[n].day = d /\ overrides'[n].to = q.to
      /\ overrides'[n].status = "approved" /\ overrides'[n].makeup
  BY <1>0, <1>n, MakeupWrites DEF Makeup, plan
<1>2. Loose(c, d, q.behind # {} \/ Unseen(c, d))
  BY <1>0 DEF Makeup
<1>3. /\ \A x, e : <<x, e>> \in loose /\ (x # c \/ (e # d /\ Outcomes(x, e) # {})) => <<x, e>> \in loose'
      /\ q.behind # {} \/ Unseen(c, d) => <<c, d>> \in loose'
  BY <1>2, LooseKeeps
<1>4. \A x \in Classes, e \in Days : x # c => SameDate(x, e)
  BY <1>1, Others
<1>5. ASSUME NEW e \in Days, e # d PROVE NoMore(c, e)
  <2>1. Approved(c, e)' = Approved(c, e)
    BY <1>1, <1>5 DEF Approved
  <2>2. \A i \in Approved(c, e) : overrides'[i] = overrides[i]
    BY <1>1 DEF Approved
  <2>. QED
    BY <1>1, <2>1, <2>2, SameDay
<1>6. CASE q.behind = {} /\ ~Unseen(c, d)
  <2>1. Free(c, d, q.to) /\ q.to # Off /\ q.to # None
    BY <1>0, <1>1, <1>6, TimetableAssumption DEF Base, RequestInv, Found, Makeup
  <2>2. Approved(c, d) = {}
    BY <1>6 DEF Unseen
  <2>3. Approved(c, d)' = {n}
    BY <1>1, <2>2 DEF Approved
  <2>4. Target(overrides[n])' = q.to
    BY <1>1, <2>1 DEF Target
  <2>5. OneCounts(c, d)' /\ Held(c, d)' \subseteq {q.to} \ {Off}
    <3>1. (overrides[n].makeup \/ OnPlan(c, d))'
      BY <1>1
    <3>. QED
      BY <2>3, <2>4, <3>1, OneApproved
  <2>6. ASSUME NEW x \in Classes, x # c, Held(c, d)' \cap Held(x, d) # {} PROVE <<x, d>> \in loose
    <3>1. q.to \in Held(x, d)
      BY <2>5, <2>6
    <3>. QED
      BY <1>1, <1>6, <2>1, <2>6, <3>1, FreeMeets
  <2>. HIDE DEF c, d
  <2>. QED
    BY <1>1, <1>3, <1>4, <1>5, <2>5, <2>6, DateStep
<1>7. CASE q.behind # {} \/ Unseen(c, d)
  <2>1. <<c, d>> \in loose'
    BY <1>3, <1>7
  <2>. HIDE DEF c, d
  <2>. QED
    BY <1>1, <1>3, <1>4, <1>5, <2>1, DateStep
<1>. QED
  BY <1>6, <1>7

LEMMA ApproveDate == ASSUME Base, DateInv, NEW r \in Requests, Approve(r) PROVE DateInv'
<1>0. PICK q : q = req[r]
  OBVIOUS
<1>. DEFINE c == q.class  d == q.day
<1>k. PICK k : k = q.row
  OBVIOUS
<1>1. /\ c \in Classes /\ d \in Days /\ WritesOnly(c) /\ routine' = routine
      /\ k \in DOMAIN overrides /\ overrides[k].class = c /\ overrides[k].day = d
      /\ overrides' = [overrides EXCEPT ![k].status = "approved"]
  BY <1>0, <1>k, ApproveWrites DEF Approve, plan
<1>2. Loose(c, d, q.behind # {} \/ Unseen(c, d))
  BY <1>0 DEF Approve
<1>3. /\ \A x, e : <<x, e>> \in loose /\ (x # c \/ (e # d /\ Outcomes(x, e) # {})) => <<x, e>> \in loose'
      /\ q.behind # {} \/ Unseen(c, d) => <<c, d>> \in loose'
  BY <1>2, LooseKeeps
<1>4. \A x \in Classes, e \in Days : x # c => SameDate(x, e)
  BY <1>1, Others
<1>m. /\ DOMAIN overrides' = DOMAIN overrides /\ overrides'[k].status = "approved"
      /\ \A i \in DOMAIN overrides :
           /\ i # k => overrides'[i] = overrides[i]
           /\ overrides'[i].class = overrides[i].class /\ overrides'[i].day = overrides[i].day
           /\ overrides'[i].to = overrides[i].to /\ overrides'[i].makeup = overrides[i].makeup
  <2>. DEFINE v == "approved"
  <2>1. v \in {"approved", "rejected"} /\ overrides' = [overrides EXCEPT ![k].status = v]
        /\ overrides \in Seq(Override)
    BY <1>1 DEF Base, Types
  <2>2. overrides'[k].status = v
    <3>. HIDE DEF v
    <3>. QED
      BY <1>1, <2>1, Marked
  <2>3. /\ DOMAIN overrides' = DOMAIN overrides
        /\ \A i \in DOMAIN overrides :
           /\ i # k => overrides'[i] = overrides[i]
           /\ overrides'[i].class = overrides[i].class /\ overrides'[i].day = overrides[i].day
           /\ overrides'[i].to = overrides[i].to /\ overrides'[i].makeup = overrides[i].makeup
    <3>. HIDE DEF v
    <3>. QED
      BY <1>1, <2>1, Marked
  <2>. QED
    BY <2>2, <2>3
<1>5. ASSUME NEW e \in Days, e # d PROVE NoMore(c, e)
  <2>1. Approved(c, e)' = Approved(c, e)
    BY <1>1, <1>5, <1>m DEF Approved
  <2>2. \A i \in Approved(c, e) : /\ overrides'[i].to = overrides[i].to
                                  /\ overrides'[i].makeup = overrides[i].makeup
                                  /\ overrides'[i].class = overrides[i].class
    BY <1>m DEF Approved
  <2>. QED
    BY <1>1, <2>1, <2>2, SameDay
<1>6. CASE q.behind = {} /\ ~Unseen(c, d)
  <2>0. PICK p : p = Target(overrides[k])
    OBVIOUS
  <2>1. Free(c, d, p) /\ (overrides[k].makeup \/ OnPlan(c, d))
    BY <1>0, <1>k, <1>6, <2>0 DEF Base, RequestInv, Found, Approve
  <2>2. Approved(c, d) = {}
    BY <1>6 DEF Unseen
  <2>3. Approved(c, d)' = {k}
    BY <1>1, <1>m, <2>2 DEF Approved
  <2>4. Target(overrides[k])' = p
    <3>1. overrides'[k].to = overrides[k].to /\ overrides'[k].class = overrides[k].class
      BY <1>1, <1>m
    <3>2. (IF overrides'[k].to = None THEN routine'[overrides'[k].class].place ELSE overrides'[k].to) = p
      BY <1>1, <2>0, <3>1 DEF Target
    <3>. QED
      BY <3>2 DEF Target
  <2>5. (overrides[k].makeup \/ OnPlan(c, d))'
    BY <1>1, <1>m, <2>1 DEF OnPlan
  <2>6. OneCounts(c, d)' /\ Held(c, d)' \subseteq {p} \ {Off}
    BY <2>3, <2>4, <2>5, OneApproved
  <2>7. ASSUME NEW x \in Classes, x # c, Held(c, d)' \cap Held(x, d) # {} PROVE <<x, d>> \in loose
    <3>1. p \in Held(x, d) /\ p # Off
      BY <2>6, <2>7
    <3>. QED
      BY <1>1, <1>6, <2>1, <2>7, <3>1, FreeMeets
  <2>. HIDE DEF c, d
  <2>. QED
    BY <1>1, <1>3, <1>4, <1>5, <2>6, <2>7, DateStep
<1>7. CASE q.behind # {} \/ Unseen(c, d)
  <2>1. <<c, d>> \in loose'
    BY <1>3, <1>7
  <2>. HIDE DEF c, d
  <2>. QED
    BY <1>1, <1>3, <1>4, <1>5, <2>1, DateStep
<1>. QED
  BY <1>6, <1>7

LEMMA DecideDate ==
  ASSUME Base, DateInv, NEW r \in Requests, NEW k, NEW v \in {"approved", "rejected"}, Decide(r, k, v)
  PROVE  DateInv'
<1>0. PICK o : o = overrides[k]
  OBVIOUS
<1>. DEFINE c == o.class  d == o.day
<1>1. /\ k \in DOMAIN overrides /\ c \in Classes /\ d \in Days
      /\ overrides' = [overrides EXCEPT ![k].status = v] /\ WritesOnly(c) /\ routine' = routine
  BY <1>0, DecideWrites DEF Decide, plan
<1>2. Loose(c, d, <<c, d>> \in loose \/ "approved" \in {o.status, v})
  BY <1>0 DEF Decide
<1>3. /\ \A x, e : <<x, e>> \in loose /\ (x # c \/ (e # d /\ Outcomes(x, e) # {})) => <<x, e>> \in loose'
      /\ <<c, d>> \in loose \/ "approved" \in {o.status, v} => <<c, d>> \in loose'
  BY <1>2, LooseKeeps
<1>4. \A x \in Classes, e \in Days : x # c => SameDate(x, e)
  BY <1>1, Others
<1>5. /\ DOMAIN overrides' = DOMAIN overrides /\ overrides'[k].status = v
      /\ \A i \in DOMAIN overrides :
           /\ i # k => overrides'[i] = overrides[i]
           /\ overrides'[i].class = overrides[i].class /\ overrides'[i].day = overrides[i].day
           /\ overrides'[i].to = overrides[i].to /\ overrides'[i].makeup = overrides[i].makeup
  BY <1>1, Marked DEF Base, Types
<1>6. ASSUME NEW e \in Days, Approved(c, e)' = Approved(c, e) PROVE SameDate(c, e) /\ NoMore(c, e)
  <2>1. \A i \in Approved(c, e) : /\ overrides'[i].to = overrides[i].to
                                  /\ overrides'[i].makeup = overrides[i].makeup
                                  /\ overrides'[i].class = overrides[i].class
    BY <1>5 DEF Approved
  <2>. QED
    BY <1>1, <1>6, <2>1, SameDay
<1>7. ASSUME NEW e \in Days, e # d PROVE NoMore(c, e)
  <2>1. Approved(c, e)' = Approved(c, e)
    BY <1>0, <1>1, <1>5, <1>7 DEF Approved
  <2>. QED
    BY <1>6, <2>1
<1>8. CASE <<c, d>> \in loose \/ "approved" \in {o.status, v}
  <2>1. <<c, d>> \in loose'
    BY <1>3, <1>8
  <2>. HIDE DEF c, d
  <2>. QED
    BY <1>1, <1>3, <1>4, <1>7, <2>1, DateStep
<1>9. CASE <<c, d>> \notin loose /\ o.status # "approved" /\ v # "approved"
  <2>1. Approved(c, d)' = Approved(c, d)
    BY <1>0, <1>1, <1>5, <1>9 DEF Approved
  <2>2. SameDate(c, d)
    BY <1>1, <1>6, <2>1
  <2>3. OneCounts(c, d)'
    BY <1>1, <1>9, <2>2 DEF DateInv, SameDate, OneCounts
  <2>4. ASSUME NEW x \in Classes, x # c, Held(c, d)' \cap Held(x, d) # {} PROVE <<x, d>> \in loose
    <3>1. Held(c, d) \cap Held(x, d) # {}
      BY <2>2, <2>4 DEF SameDate
    <3>2. {<<c, d>>, <<x, d>>} \cap loose # {}
      BY <1>1, <2>4, <3>1 DEF DateInv, DateClear
    <3>. QED
      BY <1>9, <3>2
  <2>. HIDE DEF c, d
  <2>. QED
    BY <1>1, <1>3, <1>4, <1>7, <2>3, <2>4, DateStep
<1>. QED
  BY <1>8, <1>9

\* the steps that decide nothing
LEMMA StillDate ==
  ASSUME Base, DateInv, UNCHANGED <<routine, loose>>,
         \A c \in Classes, e \in Days :
           /\ Approved(c, e)' = Approved(c, e)
           /\ \A i \in Approved(c, e) : overrides'[i] = overrides[i]
  PROVE  DateInv'
<1>1. ASSUME NEW c \in Classes, NEW e \in Days PROVE SameDate(c, e)
  BY SameDay
<1>2. loose' = loose
  OBVIOUS
<1>3. \A x \in Classes, e \in Days : <<x, e>> \in loose' \/ OneCounts(x, e)'
  BY <1>1, <1>2 DEF DateInv, OneCounts, SameDate
<1>4. ASSUME NEW x \in Classes, NEW y \in Classes, NEW e \in Days, x # y,
             Held(x, e)' \cap Held(y, e)' # {}
      PROVE  {<<x, e>>, <<y, e>>} \cap loose' # {}
  <2>1. Held(x, e) \cap Held(y, e) # {}
    BY <1>1, <1>4 DEF SameDate
  <2>. QED
    BY <1>2, <1>4, <2>1 DEF DateInv, DateClear
<1>5. DateClear'
  BY <1>4 DEF DateClear
<1>. QED
  BY <1>3, <1>5 DEF DateInv

LEMMA RequestDate == ASSUME Base, DateInv, NEW r \in Requests, Request(r) PROVE DateInv'
<1>n. PICK n : n = Len(overrides) + 1
  OBVIOUS
<1>1. /\ DOMAIN overrides' = DOMAIN overrides \cup {n} /\ n \notin DOMAIN overrides
      /\ \A i \in DOMAIN overrides : overrides'[i] = overrides[i]
      /\ overrides'[n].status = "pending"
      /\ UNCHANGED <<routine, loose>>
  BY <1>n, RequestWrites DEF Request, plan
<1>2. ASSUME NEW c, NEW e PROVE Approved(c, e)' = Approved(c, e)
  BY <1>1 DEF Approved
<1>3. ASSUME NEW c, NEW e, NEW i \in Approved(c, e) PROVE overrides'[i] = overrides[i]
  BY <1>1 DEF Approved
<1>. QED
  BY <1>1, <1>2, <1>3, StillDate

LEMMA DateStepAll == ASSUME Base, DateInv, [Next]_vars PROVE DateInv'
<1>1. CASE UNCHANGED <<routine, overrides, loose>>
  <2>1. ASSUME NEW c, NEW e PROVE Approved(c, e)' = Approved(c, e)
    BY <1>1 DEF Approved
  <2>. QED
    BY <1>1, <2>1, StillDate
<1>2. [Next]_vars =>
        \/ \E r \in Requests : Request(r) \/ Makeup(r) \/ Approve(r) \/ Place(r)
        \/ \E r \in Requests, i \in 1..MaxWork, v \in {"approved", "rejected"} : Decide(r, i, v)
        \/ \E c \in Classes : Delete(c)
        \/ UNCHANGED <<routine, overrides, loose>>
  BY DEF Next, Planning, Changing, Completing, AskPlace, Fail, AskOverride,
         AskApproval, Suggest, AskMakeup, AskRefusal, Refuse, vars, plan
<1>. QED
  BY <1>1, <1>2, PlaceDate, DeleteDate, RequestDate, MakeupDate, ApproveDate, DecideDate

-----------------------------------------------------------------------------
PlanInv == Base /\ Bounds /\ WeekClear /\ OneOverride /\ DateInv

\* The inductive invariant: types and foreign keys, what the requests in flight
\* found and have not been overtaken in, the bounds, and the properties.
THEOREM Invariance == Spec => []PlanInv
<1>1. Init => PlanInv
  <2>. SUFFICES ASSUME Init PROVE PlanInv
    OBVIOUS
  <2>1. Base /\ Bounds
    BY BaseInit, BoundsInit
  <2>2. WeekClear
    BY DEF Init, WeekClear
  <2>3. overrides = <<>>
    BY DEF Init
  <2>4. OneOverride
    BY <2>3 DEF OneOverride
  <2>5. ASSUME NEW c, NEW e PROVE Counting(c, e) = {}
    BY <2>3 DEF Counting, Approved
  <2>6. ASSUME NEW c \in Classes, NEW x \in Classes, NEW e \in Days, c # x PROVE Held(c, e) \cap Held(x, e) = {}
    <3>1. ~(OnPlan(c, e) /\ OnPlan(x, e) /\ routine[c].place = routine[x].place)
      <4>1. routine[c] \in RoutineType /\ routine[x] \in RoutineType
        BY <2>1 DEF Base, Types
      <4>2. Exists(c) => routine[c] # routine[x]
        BY <2>6 DEF Init
      <4>3. None \notin Days
        BY TimetableAssumption
      <4>. QED
        BY <4>1, <4>2, <4>3 DEF OnPlan, Exists, RoutineType, Nowhere
    <3>2. /\ OnPlan(c, e) => Outcomes(c, e) = {routine[c].place}
          /\ OnPlan(x, e) => Outcomes(x, e) = {routine[x].place}
          /\ ~OnPlan(c, e) => Outcomes(c, e) = {}
          /\ ~OnPlan(x, e) => Outcomes(x, e) = {}
      BY <2>5 DEF Outcomes
    <3>. QED
      BY <3>1, <3>2 DEF Held
  <2>7. DateInv
    BY <2>5, <2>6 DEF DateInv, DateClear, OneCounts
  <2>. QED
    BY <2>1, <2>2, <2>4, <2>7 DEF PlanInv
<1>2. PlanInv /\ [Next]_vars => PlanInv'
  BY BaseStep, BoundsStep, WeekClearStep, OneOverrideStep, DateStepAll DEF PlanInv
<1>. QED
  BY <1>1, <1>2, PTL DEF Spec

\* Types, bounds and foreign keys: whatever refers to a class finds it
\* (models of scheduling and course_completion; delete_routine).
THEOREM PlanTypes == Spec => []TypeOK
<1>1. PlanInv => TypeOK
  <2>. SUFFICES ASSUME PlanInv PROVE TypeOK
    OBVIOUS
  <2>1. /\ edits \in Nat /\ Len(overrides) \in Nat /\ Cardinality(Asking) \in Nat
        /\ MaxWork \in Nat /\ Bounds
    BY FewAsking, TimetableAssumption DEF PlanInv, Base, Types
  <2>2. Len(overrides) <= MaxWork /\ Len(suggestions) <= MaxSuggestions
    BY <2>1 DEF Bounds
  <2>. QED
    BY <2>2 DEF PlanInv, Base, Types, Keys, TypeOK, RoutineType
<1>. QED
  BY <1>1, Invariance, PTL

\* Two classes are in one place on the weekly plan only if one of them was
\* placed while the other was being placed (routine_conflicts, update_routine).
THEOREM WeekStaysClear == Spec => []WeekClear
<1>1. PlanInv => WeekClear
  BY DEF PlanInv
<1>. QED
  BY <1>1, Invariance, PTL

\* Two classes meet on a date only if one of them got there without being
\* compared with the date (routine_override_conflicts and its callers).
THEOREM DatesStayClear == Spec => []DateClear
<1>1. PlanInv => DateClear
  BY DEF PlanInv, DateInv
<1>. QED
  BY <1>1, Invariance, PTL

\* A second override of one date is a makeup, or was asked for by a request that
\* was overtaken (create_routine_override).
THEOREM OneOverridePerDate == Spec => []OneOverride
<1>1. PlanInv => OneOverride
  BY DEF PlanInv
<1>. QED
  BY <1>1, Invariance, PTL

-----------------------------------------------------------------------------
(* Worksheets: what is known of an import, and of what it has written.       *)

Pairs == Days \X Places
ImportRow(C) == [row : [class : C, names : SUBSET Places], kind : Kinds, own : SUBSET Places]
ReadRow(C) == [class : C, sections : SUBSET Places, pending : SUBSET Places]
DraftType == [entry : SUBSET (Days \X Physical), link : SUBSET Pairs,
              waiting : SUBSET Pairs, resolved : SUBSET Pairs]
JobType == [classes : SUBSET Physical, rows : Seq(ImportRow(Physical)),
            valid : Seq(ReadRow(Physical)), view : SUBSET Pairs, draft : DraftType,
            claim : SUBSET Pairs, stale : BOOLEAN]

\* the rows of an import are about its classes
JobShape(q) ==
  /\ q \in JobType
  /\ q.rows \in Seq(ImportRow(q.classes)) /\ q.valid \in Seq(ReadRow(q.classes))

ImportTypes ==
  /\ job = [i \in Requests |-> job[i]] /\ \A i \in Requests : JobShape(job[i])
  /\ entry \subseteq Days \X Physical
  /\ link \subseteq Pairs /\ waiting \subseteq Pairs /\ resolved \subseteq Pairs

Known(e, c) == \E i \in Requests : <<e, c>> \in I!SeenEntries(i)

\* entry e is one of the classes of import i
About(i, e) == \E c \in job[i].classes : <<e, c>> \in I!SeenEntries(i)

OneClassPerId == \A e, c, d : Known(e, c) /\ Known(e, d) => c = d

Drafts(i) ==
  /\ \A t \in {"link", "waiting", "resolved"} : \A s \in job[i].draft[t] : About(i, s[1])
  /\ \A s \in job[i].draft.entry : s[2] \in job[i].classes

\* What an import nobody overtook has read and will report is still there.
Current(i) ==
  ~job[i].stale =>
    /\ \A s \in job[i].claim \cup job[i].view : About(i, s[1])
    /\ job[i].claim \subseteq I!SeenLinks(i) \cup I!SeenWaiting(i)
    /\ job[i].view \cup job[i].draft.resolved \subseteq I!SeenLinks(i)
    /\ \A c \in job[i].classes, d, e \in Days :
         <<d, c>> \in I!SeenEntries(i) /\ <<e, c>> \in I!SeenEntries(i) => d = e \/ c \in strayed

ImportInv ==
  /\ ImportTypes /\ OneClassPerId
  /\ \A i \in Requests : Drafts(i) /\ Current(i)
  /\ NothingForgotten /\ OnePhysicalClass

LEMMA NothingShape ==
  /\ JobShape(I!Idle) /\ I!Idle.classes = {} /\ I!Idle.view = {} /\ I!Idle.claim = {}
  /\ I!Idle.draft = I!Nothing /\ I!Idle.rows = <<>> /\ I!Idle.valid = <<>> /\ ~I!Idle.stale
  /\ I!Nothing.entry = {} /\ I!Nothing.link = {} /\ I!Nothing.waiting = {} /\ I!Nothing.resolved = {}
<1>1. I!Nothing \in DraftType
  BY DEF I!Nothing, DraftType
<1>2. <<>> \in Seq(ImportRow(Physical)) /\ <<>> \in Seq(ReadRow(Physical))
      /\ <<>> \in Seq(ImportRow({})) /\ <<>> \in Seq(ReadRow({}))
  OBVIOUS
<1>3. I!Idle \in JobType
  <2>. HIDE DEF I!Nothing
  <2>. QED
    BY <1>1, <1>2 DEF I!Idle, JobType
<1>4. /\ I!Idle.classes = {} /\ I!Idle.view = {} /\ I!Idle.claim = {}
      /\ I!Idle.draft = I!Nothing /\ I!Idle.rows = <<>> /\ I!Idle.valid = <<>>
  BY DEF I!Idle
<1>5. ~I!Idle.stale
  BY Zenon DEF I!Idle
<1>6. /\ I!Nothing.entry = {} /\ I!Nothing.link = {}
      /\ I!Nothing.waiting = {} /\ I!Nothing.resolved = {}
  BY DEF I!Nothing
<1>. QED
  BY <1>2, <1>3, <1>4, <1>5, <1>6 DEF JobShape

\* an import nothing of which is written or read yet
LEMMA NothingWritten ==
  ASSUME OnePhysicalClass, entry \subseteq Days \X Physical, UNCHANGED <<entry, strayed>>,
         NEW i \in Requests, job'[i].draft = I!Nothing, job'[i].claim = {}, job'[i].view = {}
  PROVE  (Drafts(i) /\ Current(i))' /\ I!SeenEntries(i)' = entry
<1>1. /\ job'[i].draft.entry = {} /\ job'[i].draft.link = {}
      /\ job'[i].draft.waiting = {} /\ job'[i].draft.resolved = {}
  BY NothingShape
<1>2. Drafts(i)'
  BY <1>1 DEF Drafts
<1>3. I!SeenEntries(i)' = entry
  BY <1>1 DEF I!SeenEntries
<1>4. \A c, d, e : <<d, c>> \in entry /\ <<e, c>> \in entry => d = e \/ c \in strayed
  <2>1. \A d, e \in Days, c \in Physical :
          <<d, c>> \in entry /\ <<e, c>> \in entry /\ d # e => c \in strayed
    BY DEF OnePhysicalClass, I!OnePhysicalClass
  <2>2. \A e, c : <<e, c>> \in entry => e \in Days /\ c \in Physical
    OBVIOUS
  <2>. QED
    BY <2>1, <2>2
<1>5. Current(i)'
  BY <1>1, <1>3, <1>4 DEF Current
<1>. QED
  BY <1>2, <1>3, <1>5

\* A step of one import: the tables do not change, nor do the other imports.
LEMMA OwnStep ==
  ASSUME ImportInv, NEW i \in Requests, UNCHANGED <<entry, link, waiting, resolved, claimed, strayed>>,
         job' = [job EXCEPT ![i] = job'[i]], JobShape(job'[i]), (Drafts(i) /\ Current(i))',
         \/ I!SeenEntries(i)' \subseteq I!SeenEntries(i)
         \/ \E e \in Days, c \in Physical :
              (\A d : ~Known(e, d)) /\ I!SeenEntries(i)' = I!SeenEntries(i) \cup {<<e, c>>}
  PROVE  ImportInv'
<1>1. job' = [j \in Requests |-> job'[j]] /\ \A j \in Requests : j # i => job'[j] = job[j]
  BY DEF ImportInv, ImportTypes
<1>2. ImportTypes'
  BY <1>1 DEF ImportInv, ImportTypes
<1>3. ASSUME NEW j \in Requests, j # i
      PROVE  I!SeenEntries(j)' = I!SeenEntries(j) /\ (Drafts(j) /\ Current(j))'
  <2>1. job'[j] = job[j] /\ Drafts(j) /\ Current(j)
    BY <1>1, <1>3 DEF ImportInv
  <2>2. /\ I!SeenEntries(j)' = I!SeenEntries(j) /\ I!SeenLinks(j)' = I!SeenLinks(j)
        /\ I!SeenWaiting(j)' = I!SeenWaiting(j)
    BY <2>1 DEF I!SeenEntries, I!SeenLinks, I!SeenWaiting
  <2>3. Drafts(j)'
    BY <2>1, <2>2 DEF Drafts, About
  <2>4. Current(j)'
    BY <2>1, <2>2 DEF Current, About
  <2>. QED
    BY <2>2, <2>3, <2>4
<1>4. OneClassPerId'
  <2>1. CASE I!SeenEntries(i)' \subseteq I!SeenEntries(i)
    <3>1. \A e, c : Known(e, c)' => Known(e, c)
      BY <1>3, <2>1 DEF Known
    <3>. QED
      BY <3>1 DEF ImportInv, OneClassPerId
  <2>2. CASE \E e \in Days, c \in Physical :
              (\A d : ~Known(e, d)) /\ I!SeenEntries(i)' = I!SeenEntries(i) \cup {<<e, c>>}
    <3>1. PICK e, c : (\A d : ~Known(e, d)) /\ I!SeenEntries(i)' = I!SeenEntries(i) \cup {<<e, c>>}
      BY <2>2
    <3>2. \A x, y : Known(x, y)' => Known(x, y) \/ (x = e /\ y = c)
      BY <1>3, <3>1 DEF Known
    <3>. QED
      BY <3>1, <3>2 DEF ImportInv, OneClassPerId
  <2>. QED
    BY <2>1, <2>2
<1>5. NothingForgotten' /\ OnePhysicalClass'
  BY DEF ImportInv, NothingForgotten, I!NothingForgotten, OnePhysicalClass, I!OnePhysicalClass
<1>. QED
  BY <1>2, <1>3, <1>4, <1>5 DEF ImportInv

\* a record of type JobType has these fields
LEMMA JobFields ==
  ASSUME NEW q, JobShape(q)
  PROVE  /\ q.classes \subseteq Physical /\ q.view \subseteq Pairs /\ q.claim \subseteq Pairs
         /\ q.draft \in DraftType
         /\ q.draft.entry \subseteq Days \X Physical /\ q.draft.link \subseteq Pairs
         /\ q.draft.waiting \subseteq Pairs /\ q.draft.resolved \subseteq Pairs
         /\ q.rows \in Seq(ImportRow(q.classes)) /\ q.valid \in Seq(ReadRow(q.classes))
BY DEF JobShape, JobType, DraftType

LEMMA Widen ==
  ASSUME NEW C, C \subseteq Physical
  PROVE  Seq(ImportRow(C)) \subseteq Seq(ImportRow(Physical)) /\ Seq(ReadRow(C)) \subseteq Seq(ReadRow(Physical))
<1>1. ImportRow(C) \subseteq ImportRow(Physical) /\ ReadRow(C) \subseteq ReadRow(Physical)
  BY DEF ImportRow, ReadRow
<1>2. ASSUME NEW S, NEW T, S \subseteq T, NEW s \in Seq(S) PROVE s \in Seq(T)
  BY <1>2
<1>. QED
  BY <1>1, <1>2

LEMMA UploadInv ==
  ASSUME ImportInv, NEW i \in Requests, I!Upload(i)
  PROVE  ImportInv'
<1>1. PICK kind \in Kinds, f \in I!Files, n \in Places :
        job' = [job EXCEPT ![i].classes = {f[k].class : k \in DOMAIN f},
            ![i].rows = [k \in DOMAIN f |-> [row |-> f[k], kind |-> kind,
                                            own |-> IF kind = "section" THEN {n} ELSE {}]]]
  BY DEF I!Upload
<1>2. PICK m \in 1..MaxRows : f \in [1..m -> I!Row]
  BY DEF I!Files
<1>3. m \in Nat /\ DOMAIN f = 1..m
  BY <1>2, RowsAssumption
<1>. DEFINE C == {f[k].class : k \in DOMAIN f}
            rows == [k \in DOMAIN f |-> [row |-> f[k], kind |-> kind,
                                        own |-> IF kind = "section" THEN {n} ELSE {}]]
<1>4. C \subseteq Physical
  BY <1>2, <1>3 DEF I!Row
<1>5. rows \in Seq(ImportRow(C))
  <2>1. ASSUME NEW k \in 1..m
        PROVE  [row |-> f[k], kind |-> kind, own |-> IF kind = "section" THEN {n} ELSE {}] \in ImportRow(C)
    <3>1. f[k] \in I!Row /\ f[k].class \in C
      BY <1>2, <1>3
    <3>2. f[k] \in [class : C, names : SUBSET Places]
      <4>. HIDE DEF C
      <4>. QED
        BY <3>1 DEF I!Row
    <3>. HIDE DEF C
    <3>. QED
      BY <3>2 DEF ImportRow
  <2>2. rows \in [1..m -> ImportRow(C)]
    <3>. HIDE DEF C
    <3>. QED
      BY <1>3, <2>1
  <2>. HIDE DEF C, rows
  <2>. QED
    BY <1>3, <2>2, SeqDef
<1>. HIDE DEF C, rows
<1>6. job[i] = I!Idle
  BY DEF I!Upload
<1>7. /\ job'[i] = [I!Idle EXCEPT !.classes = C, !.rows = rows]
      /\ \A j \in Requests : j # i => job'[j] = job[j]
      /\ job' = [job EXCEPT ![i] = job'[i]]
  BY <1>1, <1>6 DEF C, rows, ImportInv, ImportTypes
<1>8. /\ job'[i].classes = C /\ job'[i].rows = rows /\ job'[i].valid = <<>>
      /\ job'[i].draft = I!Nothing /\ job'[i].claim = {} /\ job'[i].view = {}
      /\ job'[i] \in JobType
  <2>1. rows \in Seq(ImportRow(Physical))
    BY <1>4, <1>5, Widen
  <2>. DEFINE z == I!Idle  z2 == job'[i]
  <2>2. z \in JobType /\ z.draft = I!Nothing /\ z.claim = {} /\ z.view = {} /\ z.valid = <<>>
    BY NothingShape DEF JobShape
  <2>3. z2 = [z EXCEPT !.classes = C, !.rows = rows]
    BY <1>7
  <2>. HIDE DEF z, z2
  <2>4. /\ z2.classes = C /\ z2.rows = rows /\ z2.valid = <<>>
        /\ z2.draft = I!Nothing /\ z2.claim = {} /\ z2.view = {}
        /\ z2 \in JobType
    BY <1>4, <2>1, <2>2, <2>3 DEF JobType
  <2>. QED
    BY <2>4 DEF z2
<1>9. JobShape(job'[i])
  <2>1. <<>> \in Seq(ReadRow(C))
    OBVIOUS
  <2>. QED
    BY <1>5, <1>8, <2>1 DEF JobShape
<1>10. UNCHANGED <<entry, link, waiting, resolved, claimed, strayed>>
  BY DEF I!Upload, I!tables
<1>11. (Drafts(i) /\ Current(i))' /\ I!SeenEntries(i)' = entry
  BY <1>8, <1>10, NothingWritten DEF ImportInv, ImportTypes
<1>12. I!SeenEntries(i)' \subseteq I!SeenEntries(i)
  BY <1>11 DEF I!SeenEntries
<1>. QED
  BY <1>7, <1>9, <1>10, <1>11, <1>12, OwnStep

LEMMA LoseInv ==
  ASSUME ImportInv, NEW i \in Requests, I!Lose(i)
  PROVE  ImportInv'
<1>1. job' = [job EXCEPT ![i] = I!Idle] /\ UNCHANGED <<entry, link, waiting, resolved, claimed, strayed>>
  BY DEF I!Lose, I!tables
<1>2. job'[i] = I!Idle /\ job' = [job EXCEPT ![i] = job'[i]]
  BY <1>1 DEF ImportInv, ImportTypes
<1>3. (Drafts(i) /\ Current(i))' /\ I!SeenEntries(i)' = entry
  BY <1>1, <1>2, NothingShape, NothingWritten DEF ImportInv, ImportTypes
<1>4. I!SeenEntries(i)' \subseteq I!SeenEntries(i)
  BY <1>3 DEF I!SeenEntries
<1>. QED
  BY <1>1, <1>2, <1>3, <1>4, NothingShape, OwnStep

\* A step that leaves classes, draft and claim as they are.
LEMMA ReadStep ==
  ASSUME ImportInv, NEW i \in Requests, UNCHANGED <<entry, link, waiting, resolved, claimed, strayed>>,
         job' = [job EXCEPT ![i] = job'[i]], JobShape(job'[i]),
         job'[i].classes = job[i].classes, job'[i].draft = job[i].draft,
         job'[i].claim = job[i].claim, job'[i].stale = job[i].stale,
         ~job[i].stale =>
            job'[i].view \subseteq I!SeenLinks(i) /\ \A s \in job'[i].view : About(i, s[1])
  PROVE  ImportInv'
<1>1. Drafts(i) /\ Current(i)
  BY DEF ImportInv
<1>2. /\ I!SeenEntries(i)' = I!SeenEntries(i) /\ I!SeenLinks(i)' = I!SeenLinks(i)
      /\ I!SeenWaiting(i)' = I!SeenWaiting(i)
  BY DEF I!SeenEntries, I!SeenLinks, I!SeenWaiting
<1>3. Drafts(i)'
  <2>1. job'[i].draft = job[i].draft /\ job'[i].classes = job[i].classes
    OBVIOUS
  <2>. QED
    BY <1>1, <1>2, <2>1, ZenonT(40) DEF Drafts, About
<1>4. Current(i)'
  BY <1>1, <1>2, SMTT(20) DEF Current, About
<1>. QED
  BY <1>2, <1>3, <1>4, OwnStep

LEMMA TailShape ==
  ASSUME NEW q, JobShape(q), NEW p, NEW v
  PROVE  /\ q.rows # <<>> /\ p = [q EXCEPT !.rows = Tail(q.rows)] =>
              /\ JobShape(p) /\ p.classes = q.classes /\ p.draft = q.draft /\ p.claim = q.claim
              /\ p.stale = q.stale /\ p.view = q.view /\ p.rows = Tail(q.rows) /\ p.valid = q.valid
              /\ Head(q.rows) \in ImportRow(q.classes)
         /\ q.valid # <<>> /\ p = [q EXCEPT !.valid = Tail(q.valid)] =>
              /\ JobShape(p) /\ p.classes = q.classes /\ p.draft = q.draft /\ p.claim = q.claim
              /\ p.stale = q.stale /\ p.view = q.view /\ p.rows = q.rows /\ p.valid = Tail(q.valid)
              /\ Head(q.valid) \in ReadRow(q.classes)
         /\ v \subseteq Pairs /\ p = [q EXCEPT !.view = v] =>
              /\ JobShape(p) /\ p.classes = q.classes /\ p.draft = q.draft /\ p.claim = q.claim
              /\ p.stale = q.stale /\ p.view = v /\ p.rows = q.rows /\ p.valid = q.valid
<1>1. q \in JobType /\ q.classes \subseteq Physical
      /\ q.rows \in Seq(ImportRow(q.classes)) /\ q.valid \in Seq(ReadRow(q.classes))
  BY DEF JobShape, JobType
<1>2. ASSUME q.rows # <<>>, p = [q EXCEPT !.rows = Tail(q.rows)]
      PROVE  /\ JobShape(p) /\ p.classes = q.classes /\ p.draft = q.draft /\ p.claim = q.claim
             /\ p.stale = q.stale /\ p.view = q.view /\ p.rows = Tail(q.rows) /\ p.valid = q.valid
             /\ Head(q.rows) \in ImportRow(q.classes)
  <2>. DEFINE t == Tail(q.rows)
  <2>1. Head(q.rows) \in ImportRow(q.classes) /\ t \in Seq(ImportRow(q.classes))
    BY <1>1, <1>2, HeadTailProperties
  <2>2. t \in Seq(ImportRow(Physical))
    BY <1>1, <2>1, Widen
  <2>3. p = [q EXCEPT !.rows = t]
    BY <1>2
  <2>. HIDE DEF t
  <2>4. /\ p \in JobType /\ p.classes = q.classes /\ p.draft = q.draft /\ p.claim = q.claim
        /\ p.view = q.view /\ p.rows = t /\ p.valid = q.valid
    BY <1>1, <2>2, <2>3 DEF JobType
  <2>5. p.stale = q.stale
    BY <1>1, <2>3 DEF JobType
  <2>. QED
    BY <1>1, <2>1, <2>4, <2>5 DEF JobShape, t
<1>3. ASSUME q.valid # <<>>, p = [q EXCEPT !.valid = Tail(q.valid)]
      PROVE  /\ JobShape(p) /\ p.classes = q.classes /\ p.draft = q.draft /\ p.claim = q.claim
             /\ p.stale = q.stale /\ p.view = q.view /\ p.rows = q.rows /\ p.valid = Tail(q.valid)
             /\ Head(q.valid) \in ReadRow(q.classes)
  <2>. DEFINE t == Tail(q.valid)
  <2>1. Head(q.valid) \in ReadRow(q.classes) /\ t \in Seq(ReadRow(q.classes))
    BY <1>1, <1>3, HeadTailProperties
  <2>2. t \in Seq(ReadRow(Physical))
    BY <1>1, <2>1, Widen
  <2>3. p = [q EXCEPT !.valid = t]
    BY <1>3
  <2>. HIDE DEF t
  <2>4. /\ p \in JobType /\ p.classes = q.classes /\ p.draft = q.draft /\ p.claim = q.claim
        /\ p.view = q.view /\ p.rows = q.rows /\ p.valid = t
    BY <1>1, <2>2, <2>3 DEF JobType
  <2>5. p.stale = q.stale
    BY <1>1, <2>3 DEF JobType
  <2>. QED
    BY <1>1, <2>1, <2>4, <2>5 DEF JobShape, t
<1>4. ASSUME v \subseteq Pairs, p = [q EXCEPT !.view = v]
      PROVE  /\ JobShape(p) /\ p.classes = q.classes /\ p.draft = q.draft /\ p.claim = q.claim
             /\ p.stale = q.stale /\ p.view = v /\ p.rows = q.rows /\ p.valid = q.valid
  <2>1. /\ p \in JobType /\ p.classes = q.classes /\ p.draft = q.draft /\ p.claim = q.claim
        /\ p.view = v /\ p.rows = q.rows /\ p.valid = q.valid
    BY <1>1, <1>4 DEF JobType
  <2>2. p.stale = q.stale
    BY <1>1, <1>4 DEF JobType
  <2>. QED
    BY <1>1, <2>1, <2>2 DEF JobShape
<1>. QED
  BY <1>2, <1>3, <1>4

LEMMA RefuseRowInv ==
  ASSUME ImportInv, NEW i \in Requests, I!RefuseRow(i)
  PROVE  ImportInv'
<1>1. /\ UNCHANGED <<entry, link, waiting, resolved, claimed, strayed>>
      /\ \/ job[i].rows # <<>> /\ job' = [job EXCEPT ![i] = [@ EXCEPT !.rows = Tail(job[i].rows)]]
         \/ job[i].valid # <<>> /\ job' = [job EXCEPT ![i] = [@ EXCEPT !.valid = Tail(job[i].valid)]]
  BY DEF I!RefuseRow, I!tables
<1>2. JobShape(job[i]) /\ Current(i) /\ job = [j \in Requests |-> job[j]]
  BY DEF ImportInv, ImportTypes
<1>3. PICK p : p = job'[i]
  OBVIOUS
<1>4. \/ job[i].rows # <<>> /\ p = [job[i] EXCEPT !.rows = Tail(job[i].rows)]
      \/ job[i].valid # <<>> /\ p = [job[i] EXCEPT !.valid = Tail(job[i].valid)]
  BY <1>1, <1>2, <1>3
<1>5. job' = [job EXCEPT ![i] = p]
  BY <1>1, <1>2, <1>3
<1>6. /\ JobShape(p) /\ p.classes = job[i].classes /\ p.draft = job[i].draft
      /\ p.claim = job[i].claim /\ p.stale = job[i].stale /\ p.view = job[i].view
  <2>. DEFINE q == job[i]
  <2>1. JobShape(q)
    BY <1>2
  <2>2. CASE q.rows # <<>> /\ p = [q EXCEPT !.rows = Tail(q.rows)]
    <3>. HIDE DEF q
    <3>1. /\ JobShape(p) /\ p.classes = q.classes /\ p.draft = q.draft
          /\ p.claim = q.claim /\ p.stale = q.stale /\ p.view = q.view
      BY <2>1, <2>2, TailShape, ZenonT(40)
    <3>. QED
      BY <3>1 DEF q
  <2>3. CASE q.valid # <<>> /\ p = [q EXCEPT !.valid = Tail(q.valid)]
    <3>. HIDE DEF q
    <3>1. /\ JobShape(p) /\ p.classes = q.classes /\ p.draft = q.draft
          /\ p.claim = q.claim /\ p.stale = q.stale /\ p.view = q.view
      BY <2>1, <2>3, TailShape, Zenon
    <3>. QED
      BY <3>1 DEF q
  <2>. QED
    BY <1>4, <2>2, <2>3
<1>7. ~job[i].stale => job[i].view \subseteq I!SeenLinks(i) /\ \A s \in job[i].view : About(i, s[1])
  BY <1>2 DEF Current
<1>. QED
  BY <1>1, <1>3, <1>5, <1>6, <1>7, ReadStep

\* what a row says of its sections
LEMMA ResolutionType ==
  ASSUME NEW C, NEW r, r \in ImportRow(C)
  PROVE  I!Resolution(r) \in ReadRow(C) /\ I!Resolution(r).class = r.row.class
BY DEF I!Resolution, ImportRow, ReadRow

\* An import nobody overtook has loaded sections that attend.
LEMMA LoadedSeen ==
  ASSUME ImportInv, NEW i \in Requests, NEW e \in Days, NEW seen \in I!Loaded(i, e)
  PROVE  /\ seen \subseteq Places
         /\ ~job[i].stale => {e} \X seen \subseteq I!SeenLinks(i)
         /\ I!View(i, e, seen) \subseteq Pairs
<1>1. seen \in {I!Of(e, I!SeenLinks(i)), I!Of(e, job[i].view)}
  BY DEF I!Loaded
<1>2. seen \subseteq Places
  BY <1>1 DEF I!Of
<1>3. ASSUME ~job[i].stale PROVE {e} \X seen \subseteq I!SeenLinks(i)
  <2>1. job[i].view \subseteq I!SeenLinks(i)
    BY <1>3 DEF ImportInv, Current
  <2>2. \A n \in seen : <<e, n>> \in I!SeenLinks(i)
    BY <1>1, <2>1 DEF I!Of
  <2>. QED
    BY <2>2
<1>4. I!View(i, e, seen) \subseteq Pairs
  <2>1. job[i].view \subseteq Pairs
    BY JobFields DEF ImportInv, ImportTypes
  <2>. QED
    BY <1>2, <2>1 DEF I!View, Pairs
<1>. QED
  BY <1>2, <1>3, <1>4

LEMMA ViewSeen ==
  ASSUME ImportInv, NEW i \in Requests, NEW e \in Days, NEW seen \in I!Loaded(i, e), About(i, e),
         ~job[i].stale
  PROVE  /\ I!View(i, e, seen) \subseteq I!SeenLinks(i)
         /\ \A s \in I!View(i, e, seen) : About(i, s[1])
<1>1. {e} \X seen \subseteq I!SeenLinks(i)
  BY LoadedSeen
<1>2. job[i].view \subseteq I!SeenLinks(i) /\ \A s \in job[i].view : About(i, s[1])
  BY DEF ImportInv, Current
<1>. QED
  BY <1>1, <1>2 DEF I!View

LEMMA ValidateInv ==
  ASSUME ImportInv, NEW i \in Requests, I!Validate(i)
  PROVE  ImportInv'
<1>. DEFINE q == job[i]  p == I!Resolution(Head(q.rows))
<1>1. JobShape(q) /\ Current(i) /\ job = [j \in Requests |-> job[j]]
  BY DEF ImportInv, ImportTypes
<1>2. q.rows # <<>> /\ UNCHANGED <<entry, link, waiting, resolved, claimed, strayed>>
  BY DEF I!Validate, I!tables
<1>3. /\ Head(q.rows) \in ImportRow(q.classes) /\ Tail(q.rows) \in Seq(ImportRow(q.classes))
      /\ q.rows \in Seq(ImportRow(q.classes)) /\ q.valid \in Seq(ReadRow(q.classes))
      /\ q.classes \subseteq Physical
  BY <1>1, <1>2, JobFields, HeadTailProperties
<1>4. p \in ReadRow(q.classes) /\ p.class \in q.classes
  <2>1. p \in ReadRow(q.classes)
    BY <1>3, ResolutionType
  <2>. HIDE DEF p
  <2>. QED
    BY <2>1 DEF ReadRow
<1>5. Append(q.valid, p) \in Seq(ReadRow(q.classes))
  <2>. HIDE DEF p, q
  <2>. QED
    BY <1>3, <1>4, Appended
<1>6. PICK v : /\ job' = [job EXCEPT ![i].rows = Tail(q.rows), ![i].view = v,
                                     ![i].valid = Append(q.valid, p)]
               /\ \/ v = q.view
                  \/ \E e \in I!Matching(i, p) : \E seen \in I!Loaded(i, e) : v = I!View(i, e, seen)
  BY DEF I!Validate
<1>7. /\ v \subseteq Pairs
      /\ ~q.stale => v \subseteq I!SeenLinks(i) /\ \A s \in v : About(i, s[1])
  <2>1. CASE v = q.view
    BY <1>1, <2>1, JobFields DEF Current
  <2>2. CASE \E e \in I!Matching(i, p) : \E seen \in I!Loaded(i, e) : v = I!View(i, e, seen)
    <3>1. PICK e \in I!Matching(i, p) : \E seen \in I!Loaded(i, e) : v = I!View(i, e, seen)
      BY <2>2
    <3>2. PICK seen \in I!Loaded(i, e) : v = I!View(i, e, seen)
      BY <3>1
    <3>3. e \in Days /\ About(i, e)
      BY <1>4, <3>1 DEF I!Matching, About
    <3>. QED
      BY <3>2, <3>3, LoadedSeen, ViewSeen
  <2>. QED
    BY <1>6, <2>1, <2>2
<1>8. PICK z : z = job'[i]
  OBVIOUS
<1>9. /\ z = [q EXCEPT !.rows = Tail(q.rows), !.view = v, !.valid = Append(q.valid, p)]
      /\ job' = [job EXCEPT ![i] = z]
  <2>. HIDE DEF p
  <2>. QED
    BY <1>1, <1>6, <1>8
<1>10. /\ JobShape(z) /\ z.classes = q.classes /\ z.draft = q.draft /\ z.claim = q.claim
       /\ z.stale = q.stale /\ z.view = v
  <2>. DEFINE t == Tail(q.rows)  a == Append(q.valid, p)
  <2>1. t \in Seq(ImportRow(Physical)) /\ a \in Seq(ReadRow(Physical)) /\ q \in JobType
    BY <1>1, <1>3, <1>5, Widen DEF JobShape
  <2>2. z = [q EXCEPT !.rows = t, !.view = v, !.valid = a]
    BY <1>9
  <2>. HIDE DEF t, a, q, p
  <2>3. /\ z \in JobType /\ z.classes = q.classes /\ z.draft = q.draft /\ z.claim = q.claim
        /\ z.view = v /\ z.rows = t /\ z.valid = a
    BY <1>7, <2>1, <2>2 DEF JobType
  <2>4. z.stale = q.stale
    BY <2>1, <2>2 DEF JobType
  <2>. QED
    BY <1>3, <1>5, <2>3, <2>4 DEF JobShape, t, a
<1>. QED
  BY <1>2, <1>7, <1>8, <1>9, <1>10, ReadStep

-----------------------------------------------------------------------------
(* A row is applied: what the class has, awaits and gets.                    *)

LEMMA WriteInv ==
  ASSUME ImportInv, NEW i \in Requests, NEW q, JobShape(q),
         q.classes = job[i].classes, q.draft = job[i].draft, q.claim = job[i].claim,
         q.stale = job[i].stale,
         ~q.stale => q.view \subseteq I!SeenLinks(i) /\ \A s \in q.view : About(i, s[1]),
         NEW p \in ReadRow(q.classes), NEW e \in Days, NEW S, S \subseteq Places,
         ~q.stale => {e} \X p.sections \subseteq I!SeenLinks(i) \cup ({e} \X S),
         \/ <<e, p.class>> \in I!SeenEntries(i)
         \/ I!Fresh(e) /\ I!Matching(i, p) = {},
         NEW persists \in BOOLEAN, persists \/ p.pending = {},
         I!Write(i, q, p, e, S, persists), UNCHANGED <<entry, link, waiting, resolved, claimed, strayed>>
  PROVE  ImportInv'
<1>. DEFINE c == p.class
            attached == I!Of(e, I!SeenLinks(i)) \cup S
            settled == {n \in I!Of(e, I!SeenWaiting(i)) \cap attached : persists}
            added == {n \in p.pending \ (attached \cup (I!Awaited(i, e) \ settled)) : persists}
            draft == [entry |-> q.draft.entry \cup ({<<e, c>>} \ entry),
                      link |-> q.draft.link \cup ({e} \X S),
                      waiting |-> q.draft.waiting \cup ({e} \X added),
                      resolved |-> q.draft.resolved \cup ({e} \X settled)]
            claim == q.claim \cup ({e} \X (p.sections \cup p.pending))
<1>1. /\ job' = [job EXCEPT ![i] = [q EXCEPT !.claim = @ \cup ({e} \X (p.sections \cup p.pending)),
                           !.draft = [entry |-> @.entry \cup ({<<e, p.class>>} \ entry),
                                      link |-> @.link \cup ({e} \X S),
                                      waiting |-> @.waiting \cup ({e} \X added),
                                      resolved |-> @.resolved \cup ({e} \X settled)]]]
      /\ added \cap I!Of(e, I!SeenWaiting(i) \cup I!SeenResolved(i)) = {}
  BY DEF I!Write, I!Of
<1>2. /\ JobShape(job[i]) /\ Drafts(i) /\ Current(i) /\ job = [j \in Requests |-> job[j]]
      /\ entry \subseteq Days \X Physical /\ link \subseteq Pairs /\ waiting \subseteq Pairs
  BY DEF ImportInv, ImportTypes
<1>3. /\ q \in JobType /\ q.classes \subseteq Physical /\ q.claim \subseteq Pairs
      /\ q.draft.entry \subseteq Days \X Physical /\ q.draft.link \subseteq Pairs
      /\ q.draft.waiting \subseteq Pairs /\ q.draft.resolved \subseteq Pairs
  BY JobFields DEF JobShape
<1>4. c \in q.classes /\ p.sections \subseteq Places /\ p.pending \subseteq Places
  BY DEF ReadRow
<1>5. settled \subseteq Places /\ added \subseteq Places /\ attached \subseteq Places
  BY <1>4 DEF I!Of
<1>6. PICK z : z = job'[i]
  OBVIOUS
<1>7. z = [q EXCEPT !.claim = claim, !.draft = draft] /\ job' = [job EXCEPT ![i] = z]
  <2>. HIDE DEF settled, added
  <2>. QED
    BY <1>1, <1>2, <1>6
<1>8. /\ z.draft.entry = q.draft.entry \cup ({<<e, c>>} \ entry)
      /\ z.draft.link = q.draft.link \cup ({e} \X S)
      /\ z.draft.waiting = q.draft.waiting \cup ({e} \X added)
      /\ z.draft.resolved = q.draft.resolved \cup ({e} \X settled)
      /\ z.claim = claim /\ z.view = q.view /\ z.classes = q.classes
      /\ z.rows = q.rows /\ z.valid = q.valid /\ z.draft \in DraftType
  <2>1. draft \in DraftType
    <3>. HIDE DEF settled, added
    <3>. QED
      BY <1>3, <1>4, <1>5 DEF DraftType, Pairs
  <2>2. /\ z.draft = draft /\ z.claim = claim /\ z.view = q.view /\ z.classes = q.classes
        /\ z.rows = q.rows /\ z.valid = q.valid
    <3>. HIDE DEF draft, claim
    <3>. QED
      BY <1>3, <1>7 DEF JobType
  <2>. HIDE DEF settled, added
  <2>. QED
    BY <2>1, <2>2
<1>9. z.stale = q.stale
  <2>. HIDE DEF draft, claim
  <2>. QED
    BY <1>3, <1>7 DEF JobType
<1>10. JobShape(z)
  <2>1. claim \subseteq Pairs
    BY <1>3, <1>4 DEF Pairs
  <2>2. z \in JobType
    <3>. HIDE DEF draft, claim
    <3>. QED
      BY <1>3, <1>7, <1>8, <2>1 DEF JobType
  <2>. QED
    BY <1>8, <2>2 DEF JobShape
<1>. HIDE DEF draft
<1>11. /\ I!SeenEntries(i)' = I!SeenEntries(i) \cup {<<e, c>>}
       /\ I!SeenLinks(i)' = I!SeenLinks(i) \cup ({e} \X S)
       /\ I!SeenWaiting(i)' = (waiting \cup q.draft.waiting \cup ({e} \X added))
                                \ (q.draft.resolved \cup ({e} \X settled))
  <2>. HIDE DEF settled, added, claim
  <2>. QED
    BY <1>6, <1>8 DEF I!SeenEntries, I!SeenLinks, I!SeenWaiting
<1>12. /\ About(i, e)'
       /\ \A x : About(i, x) => About(i, x)'
  BY <1>4, <1>6, <1>8, <1>11 DEF About
<1>13. Drafts(i)'
  <2>1. \A s \in z.draft.link \cup z.draft.waiting \cup z.draft.resolved : About(i, s[1])'
    <3>1. \A s \in q.draft.link \cup q.draft.waiting \cup q.draft.resolved : About(i, s[1])
      BY <1>2 DEF Drafts
    <3>. HIDE DEF settled, added, claim
    <3>. QED
      BY <1>8, <1>12, <3>1
  <2>2. \A s \in z.draft.entry : s[2] \in z.classes
    BY <1>2, <1>4, <1>8 DEF Drafts
  <2>. QED
    BY <1>6, <2>1, <2>2 DEF Drafts
<1>14. {e} \X attached \subseteq I!SeenLinks(i)'
  BY <1>11 DEF I!Of
<1>15. ASSUME ~q.stale
       PROVE  /\ \A s \in z.claim \cup z.view : About(i, s[1])'
              /\ z.claim \subseteq I!SeenLinks(i)' \cup I!SeenWaiting(i)'
              /\ z.view \cup z.draft.resolved \subseteq I!SeenLinks(i)'
              /\ \A x \in z.classes, d1, d2 \in Days :
                   <<d1, x>> \in I!SeenEntries(i)' /\ <<d2, x>> \in I!SeenEntries(i)'
                     => d1 = d2 \/ x \in strayed
  <2>1. /\ \A s \in q.claim \cup q.view : About(i, s[1])
        /\ q.claim \subseteq I!SeenLinks(i) \cup I!SeenWaiting(i)
        /\ q.view \cup q.draft.resolved \subseteq I!SeenLinks(i)
        /\ \A x \in q.classes, d1, d2 \in Days :
             <<d1, x>> \in I!SeenEntries(i) /\ <<d2, x>> \in I!SeenEntries(i)
               => d1 = d2 \/ x \in strayed
    BY <1>2, <1>15 DEF Current
  <2>2. \A s \in z.claim \cup z.view : About(i, s[1])'
    <3>1. \A s \in z.claim \cup z.view : s \in q.claim \cup q.view \/ s[1] = e
      BY <1>8
    <3>. QED
      BY <1>12, <2>1, <3>1
  <2>3. ASSUME NEW s \in q.claim PROVE s \in I!SeenLinks(i)' \cup I!SeenWaiting(i)'
    <3>1. CASE s \in I!SeenLinks(i)
      BY <1>11, <3>1
    <3>2. CASE s \in I!SeenWaiting(i) /\ s \in {e} \X settled
      BY <1>14, <3>2
    <3>3. CASE s \in I!SeenWaiting(i) /\ s \notin {e} \X settled
      <4>1. s \in waiting \cup q.draft.waiting /\ s \notin q.draft.resolved
        BY <3>3 DEF I!SeenWaiting
      <4>. HIDE DEF settled, added
      <4>. QED
        BY <1>11, <3>3, <4>1
    <3>. QED
      BY <2>1, <3>1, <3>2, <3>3
  <2>4. ASSUME NEW n \in p.sections PROVE <<e, n>> \in I!SeenLinks(i)'
    BY <1>11, <1>15
  <2>5. ASSUME NEW n \in p.pending PROVE <<e, n>> \in I!SeenLinks(i)' \cup I!SeenWaiting(i)'
    <3>1. CASE n \in attached
      BY <1>14, <3>1
    <3>2. CASE n \in I!Awaited(i, e) \ settled
      <4>1. <<e, n>> \in I!SeenWaiting(i)
        BY <3>2 DEF I!Awaited, I!Of
      <4>2. <<e, n>> \in waiting \cup q.draft.waiting /\ <<e, n>> \notin q.draft.resolved
        BY <4>1 DEF I!SeenWaiting
      <4>3. <<e, n>> \notin {e} \X settled
        BY <3>2
      <4>. HIDE DEF settled, added
      <4>. QED
        BY <1>11, <4>2, <4>3
    <3>3. CASE n \in added
      <4>1. n \in Places
        BY <1>5, <3>3
      <4>2. <<e, n>> \notin I!SeenWaiting(i) \cup I!SeenResolved(i)
        BY <1>1, <3>3, <4>1 DEF I!Of
      <4>3. <<e, n>> \notin q.draft.resolved
        BY <4>2 DEF I!SeenResolved
      <4>4. n \notin settled
        BY <4>2 DEF I!Of
      <4>5. <<e, n>> \in {e} \X added /\ <<e, n>> \notin {e} \X settled
        BY <3>3, <4>4
      <4>. HIDE DEF settled, added
      <4>. QED
        BY <1>11, <4>3, <4>5
    <3>. QED
      BY <3>1, <3>2, <3>3
  <2>6. z.claim \subseteq I!SeenLinks(i)' \cup I!SeenWaiting(i)'
    <3>1. \A s \in z.claim : s \in q.claim \/ \E n \in p.sections \cup p.pending : s = <<e, n>>
      BY <1>8
    <3>. QED
      BY <2>3, <2>4, <2>5, <3>1
  <2>7. z.view \cup z.draft.resolved \subseteq I!SeenLinks(i)'
    <3>1. {e} \X settled \subseteq {e} \X attached
      OBVIOUS
    <3>. HIDE DEF settled, added, attached
    <3>. QED
      BY <1>8, <1>11, <1>14, <2>1, <3>1
  <2>8. ASSUME NEW x \in q.classes, NEW d1 \in Days, NEW d2 \in Days,
               <<d1, x>> \in I!SeenEntries(i)', <<d2, x>> \in I!SeenEntries(i)'
        PROVE  d1 = d2 \/ x \in strayed
    <3>1. CASE <<e, c>> \in I!SeenEntries(i)
      BY <1>11, <2>1, <2>8, <3>1
    <3>2. CASE I!Matching(i, p) = {}
      <4>1. \A d \in Days : <<d, c>> \notin I!SeenEntries(i)
        BY <3>2 DEF I!Matching
      <4>. QED
        BY <1>11, <2>1, <2>8, <4>1
    <3>. QED
      BY <3>1, <3>2
  <2>. QED
    BY <1>8, <2>2, <2>6, <2>7, <2>8
<1>16. Current(i)'
  BY <1>6, <1>9, <1>15 DEF Current
<1>17. \/ I!SeenEntries(i)' \subseteq I!SeenEntries(i)
       \/ (\A d : ~Known(e, d)) /\ I!SeenEntries(i)' = I!SeenEntries(i) \cup {<<e, c>>}
  <2>1. CASE <<e, c>> \in I!SeenEntries(i)
    BY <1>11, <2>1
  <2>2. CASE I!Fresh(e)
    <3>1. ASSUME NEW d, NEW j \in Requests, <<e, d>> \in I!SeenEntries(j) PROVE FALSE
      <4>1. job[j].draft.entry \subseteq Days \X Physical
        BY JobFields DEF ImportInv, ImportTypes
      <4>2. d \in Physical
        BY <1>2, <3>1, <4>1 DEF I!SeenEntries
      <4>. QED
        BY <2>2, <3>1, <4>2 DEF I!Fresh
    <3>. QED
      BY <1>11, <3>1 DEF Known
  <2>. QED
    BY <2>1, <2>2
<1>18. c \in Physical
  BY <1>3, <1>4
<1>. QED
  <2>1. job' = [job EXCEPT ![i] = job'[i]]
    BY <1>6, <1>7
  <2>2. JobShape(job'[i])
    BY <1>6, <1>10
  <2>. HIDE DEF c
  <2>. QED
    BY <1>13, <1>16, <1>17, <1>18, <2>1, <2>2, OwnStep

\* Head row p of import i, whose job without that row is q, is applied.
LEMMA ApplyRowInv ==
  ASSUME ImportInv, NEW i \in Requests, NEW q, JobShape(q),
         q.classes = job[i].classes, q.draft = job[i].draft, q.claim = job[i].claim,
         q.stale = job[i].stale, q.view = job[i].view,
         NEW p \in ReadRow(q.classes),
         NEW persists \in BOOLEAN, persists \/ p.pending = {}, I!ApplyRow(i, q, p, persists)
  PROVE  ImportInv'
<1>1. UNCHANGED <<entry, link, waiting, resolved, claimed, strayed>>
  BY DEF I!ApplyRow, I!tables
<1>2. ~q.stale => q.view \subseteq I!SeenLinks(i) /\ \A s \in q.view : About(i, s[1])
  BY DEF ImportInv, Current
<1>3. p.sections \subseteq Places /\ p.class \in q.classes
  BY DEF ReadRow
<1>4. CASE /\ I!Matching(i, p) = {}
           /\ \E e \in Days : I!Fresh(e) /\ I!Write(i, q, p, e, p.sections, persists)
  <2>1. PICK e \in Days : I!Fresh(e) /\ I!Write(i, q, p, e, p.sections, persists)
    BY <1>4
  <2>. DEFINE S == p.sections
  <2>2. S \subseteq Places /\ I!Write(i, q, p, e, S, persists) /\ {e} \X p.sections \subseteq {e} \X S
    BY <1>3, <2>1
  <2>. HIDE DEF S
  <2>. QED
    BY <1>1, <1>2, <1>4, <2>1, <2>2, WriteInv
<1>5. CASE \E e \in I!Matching(i, p) : \E seen \in I!Loaded(i, e) :
              I!Write(i, [q EXCEPT !.view = I!View(i, e, seen)], p, e, p.sections \ seen, persists)
  <2>1. PICK e \in I!Matching(i, p) : \E seen \in I!Loaded(i, e) :
              I!Write(i, [q EXCEPT !.view = I!View(i, e, seen)], p, e, p.sections \ seen, persists)
    BY <1>5
  <2>2. PICK seen \in I!Loaded(i, e) :
              I!Write(i, [q EXCEPT !.view = I!View(i, e, seen)], p, e, p.sections \ seen, persists)
    BY <2>1
  <2>3. e \in Days /\ <<e, p.class>> \in I!SeenEntries(i) /\ About(i, e)
    BY <1>3, <2>1 DEF I!Matching, About
  <2>4. /\ seen \subseteq Places /\ I!View(i, e, seen) \subseteq Pairs
        /\ ~q.stale => {e} \X seen \subseteq I!SeenLinks(i)
        /\ ~q.stale => /\ I!View(i, e, seen) \subseteq I!SeenLinks(i)
                       /\ \A s \in I!View(i, e, seen) : About(i, s[1])
    BY <2>3, LoadedSeen, ViewSeen
  <2>5. PICK v : v = I!View(i, e, seen)
    OBVIOUS
  <2>6. PICK z : z = [q EXCEPT !.view = v]
    OBVIOUS
  <2>7. /\ JobShape(z) /\ z.classes = q.classes /\ z.draft = q.draft /\ z.claim = q.claim
        /\ z.stale = q.stale /\ z.view = v
    <3>1. v \subseteq Pairs
      BY <2>4, <2>5
    <3>. QED
      <4>1. JobShape(q)
        OBVIOUS
      <4>2. v \subseteq Pairs /\ z = [q EXCEPT !.view = v] =>
              /\ JobShape(z) /\ z.classes = q.classes /\ z.draft = q.draft /\ z.claim = q.claim
              /\ z.stale = q.stale /\ z.view = v /\ z.rows = q.rows /\ z.valid = q.valid
        BY ONLY <4>1, TailShape
      <4>. QED
        BY <2>6, <3>1, <4>2, Zenon
  <2>. DEFINE S == p.sections \ seen
  <2>8. I!Write(i, z, p, e, S, persists)
    BY <2>2, <2>5, <2>6
  <2>9. S \subseteq Places /\ (~z.stale => {e} \X p.sections \subseteq I!SeenLinks(i) \cup ({e} \X S))
    <3>1. ~q.stale => \A n \in seen : <<e, n>> \in I!SeenLinks(i)
      BY <2>4
    <3>. QED
      BY <1>3, <2>7, <3>1
  <2>10. ~z.stale => z.view \subseteq I!SeenLinks(i) /\ \A s \in z.view : About(i, s[1])
    BY <2>4, <2>5, <2>7
  <2>11. /\ z.classes = job[i].classes /\ z.draft = job[i].draft /\ z.claim = job[i].claim
         /\ z.stale = job[i].stale /\ p \in ReadRow(z.classes)
    BY <2>7
  <2>. HIDE DEF S
  <2>. QED
    BY <1>1, <2>3, <2>7, <2>8, <2>9, <2>10, <2>11, WriteInv
<1>. QED
  BY <1>4, <1>5 DEF I!ApplyRow

LEMMA ApplyInv ==
  ASSUME ImportInv, NEW i \in Requests, I!Apply(i)
  PROVE  ImportInv'
<1>1. /\ JobShape(job[i]) /\ job[i].valid # <<>>
      /\ I!ApplyRow(i, [job[i] EXCEPT !.valid = Tail(job[i].valid)], Head(job[i].valid), TRUE)
  BY DEF I!Apply, ImportInv, ImportTypes
<1>. DEFINE old == job[i]
<1>2. PICK q : q = [old EXCEPT !.valid = Tail(old.valid)]
  OBVIOUS
<1>3. /\ JobShape(q) /\ q.classes = old.classes /\ q.draft = old.draft /\ q.claim = old.claim
      /\ q.stale = old.stale /\ q.view = old.view /\ Head(old.valid) \in ReadRow(old.classes)
  <2>1. JobShape(old) /\ old.valid # <<>>
    BY <1>1
  <2>. HIDE DEF old
  <2>. QED
    BY <1>2, <2>1, TailShape, Zenon
<1>4. PICK p : p = Head(old.valid)
  OBVIOUS
<1>5. p \in ReadRow(q.classes) /\ I!ApplyRow(i, q, p, TRUE)
  BY <1>1, <1>2, <1>3, <1>4
<1>. QED
  BY <1>3, <1>5, ApplyRowInv

LEMMA ApplyBulkInv ==
  ASSUME ImportInv, NEW i \in Requests, I!ApplyBulk(i)
  PROVE  ImportInv'
<1>1. /\ JobShape(job[i]) /\ job[i].rows # <<>>
      /\ I!ApplyRow(i, [job[i] EXCEPT !.rows = Tail(job[i].rows)], I!Resolution(Head(job[i].rows)), FALSE)
  BY DEF I!ApplyBulk, ImportInv, ImportTypes
<1>. DEFINE old == job[i]
<1>2. PICK q : q = [old EXCEPT !.rows = Tail(old.rows)]
  OBVIOUS
<1>3. /\ JobShape(q) /\ q.classes = old.classes /\ q.draft = old.draft /\ q.claim = old.claim
      /\ q.stale = old.stale /\ q.view = old.view /\ Head(old.rows) \in ImportRow(old.classes)
  <2>1. JobShape(old) /\ old.rows # <<>>
    BY <1>1
  <2>. HIDE DEF old
  <2>. QED
    BY <1>2, <2>1, TailShape, ZenonT(40)
<1>4. PICK p : p = I!Resolution(Head(old.rows))
  OBVIOUS
<1>5. p \in ReadRow(q.classes)
  BY <1>3, <1>4, ResolutionType
<1>6. I!ApplyRow(i, q, p, FALSE)
  BY <1>1, <1>2, <1>4
<1>7. p.pending = {}
  BY <1>1, <1>4 DEF I!ApplyBulk, I!Acceptable, I!Resolution
<1>. QED
  BY <1>3, <1>5, <1>6, <1>7, ApplyRowInv

-----------------------------------------------------------------------------
(* Something is committed about classes C: the imports of other classes do   *)
(* not notice, those of these classes are overtaken.                         *)

\* what was committed
Committed(C) ==
  /\ \A e, x : <<e, x>> \in entry' /\ x \notin C => <<e, x>> \in entry
  /\ \A e, x : <<e, x>> \in entry /\ x \notin C => <<e, x>> \in entry'
  /\ \A s \in link \ link' : \E x \in C : <<s[1], x>> \in entry \/ Known(s[1], x)
  /\ \A s \in waiting \ waiting' : \E x \in C : <<s[1], x>> \in entry \/ Known(s[1], x)
  /\ strayed \subseteq strayed'

LEMMA Kept ==
  ASSUME ImportInv, NEW j \in Requests, NEW C, Committed(C),
         job'[j] = job[j] \/ job'[j] = [job[j] EXCEPT !.stale = TRUE],
         job[j].classes \cap C # {} => job'[j].stale,
         \A e, x : <<e, x>> \in entry \ entry' =>
            \A t \in {"link", "waiting", "resolved"} : \A s \in job[j].draft[t] : s[1] # e
  PROVE  JobShape(job'[j]) /\ (Drafts(j) /\ Current(j))' /\ job'[j].draft = job[j].draft
<1>. DEFINE q == job[j]  z == job'[j]
<1>1. JobShape(q) /\ Drafts(j) /\ Current(j)
  BY DEF ImportInv, ImportTypes
<1>2. /\ JobShape(z) /\ z.classes = q.classes /\ z.draft = q.draft /\ z.claim = q.claim
      /\ z.view = q.view /\ (~z.stale => z = q)
  <2>1. z = q \/ z = [q EXCEPT !.stale = TRUE]
    OBVIOUS
  <2>. DEFINE t == TRUE
  <2>2. z = q \/ z = [q EXCEPT !.stale = t]
    BY <2>1
  <2>3. t \in BOOLEAN /\ t
    OBVIOUS
  <2>4. q \in JobType
    BY <1>1 DEF JobShape
  <2>. HIDE DEF t, q, z
  <2>5. CASE z = q
    BY <1>1, <2>5
  <2>6. CASE z = [q EXCEPT !.stale = t]
    <3>1. /\ z \in JobType /\ z.classes = q.classes /\ z.draft = q.draft /\ z.claim = q.claim
          /\ z.view = q.view /\ z.rows = q.rows /\ z.valid = q.valid
      BY <2>3, <2>4, <2>6 DEF JobType
    <3>2. z.stale
      <4>1. z.stale = t
        BY <2>4, <2>6 DEF JobType
      <4>. QED
        BY <2>3, <4>1, Zenon
    <3>. QED
      BY <1>1, <3>1, <3>2 DEF JobShape
  <2>. QED
    BY <2>2, <2>5, <2>6
<1>3. I!SeenEntries(j)' = entry' \cup q.draft.entry
  BY <1>2 DEF I!SeenEntries
<1>4. \A c \in q.classes : c \notin C => \A e : <<e, c>> \in I!SeenEntries(j)' <=> <<e, c>> \in I!SeenEntries(j)
  BY <1>3 DEF I!SeenEntries, Committed
<1>5. Drafts(j)'
  <2>1. ASSUME NEW t \in {"link", "waiting", "resolved"}, NEW s \in q.draft[t]
        PROVE  About(j, s[1])'
    <3>1. PICK c \in q.classes : <<s[1], c>> \in I!SeenEntries(j)
      BY <1>1, <2>1 DEF Drafts, About
    <3>2. <<s[1], c>> \notin entry \ entry'
      BY <2>1
    <3>3. <<s[1], c>> \in I!SeenEntries(j)'
      BY <1>3, <3>1, <3>2 DEF I!SeenEntries
    <3>. QED
      BY <1>2, <3>3 DEF About
  <2>. QED
    BY <1>1, <1>2, <2>1 DEF Drafts
<1>6. ASSUME ~z.stale
      PROVE  /\ \A s \in z.claim \cup z.view : About(j, s[1])'
             /\ z.claim \subseteq I!SeenLinks(j)' \cup I!SeenWaiting(j)'
             /\ z.view \cup z.draft.resolved \subseteq I!SeenLinks(j)'
             /\ \A c \in z.classes, d, e \in Days :
                 <<d, c>> \in I!SeenEntries(j)' /\ <<e, c>> \in I!SeenEntries(j)'
                   => d = e \/ c \in strayed'
  <2>1. z = q /\ q.classes \cap C = {}
    BY <1>2, <1>6
  <2>2. /\ \A s \in q.claim \cup q.view : About(j, s[1])
        /\ \A s \in q.draft.resolved : About(j, s[1])
        /\ q.claim \subseteq I!SeenLinks(j) \cup I!SeenWaiting(j)
        /\ q.view \cup q.draft.resolved \subseteq I!SeenLinks(j)
        /\ \A c \in q.classes, d, e \in Days :
             <<d, c>> \in I!SeenEntries(j) /\ <<e, c>> \in I!SeenEntries(j) => d = e \/ c \in strayed
    BY <1>1, <1>6, <2>1 DEF Current, Drafts
  <2>3. \A x : About(j, x) => About(j, x)'
    BY <1>4, <2>1 DEF About
  <2>4. ASSUME NEW s, About(j, s[1]) PROVE s \notin link \ link' /\ s \notin waiting \ waiting'
    <3>1. PICK c \in q.classes : Known(s[1], c)
      BY <2>4 DEF About, Known
    <3>2. ~ \E x \in C : <<s[1], x>> \in entry \/ Known(s[1], x)
      <4>1. \A x : <<s[1], x>> \in entry => Known(s[1], x)
        BY DEF Known, I!SeenEntries
      <4>. QED
        BY <2>1, <3>1, <4>1 DEF ImportInv, OneClassPerId
    <3>. QED
      BY <3>2 DEF Committed
  <2>5. ASSUME NEW s, About(j, s[1]), s \in I!SeenLinks(j) PROVE s \in I!SeenLinks(j)'
    BY <2>1, <2>4, <2>5 DEF I!SeenLinks
  <2>6. ASSUME NEW s, About(j, s[1]), s \in I!SeenWaiting(j) PROVE s \in I!SeenWaiting(j)'
    BY <2>1, <2>4, <2>6 DEF I!SeenWaiting
  <2>. QED
    BY <1>4, <2>1, <2>2, <2>3, <2>5, <2>6 DEF Committed
<1>7. Current(j)'
  BY <1>6 DEF Current
<1>. QED
  BY <1>2, <1>5, <1>7

\* the jobs of those who are overtaken, and of the others
LEMMA Overtakes ==
  ASSUME NEW jobs, NEW C, job' = I!Overtake(jobs, C)
  PROVE  /\ job' = [j \in Requests |-> job'[j]]
         /\ \A j \in Requests :
              /\ jobs[j].classes \cap C = {} => job'[j] = jobs[j]
              /\ jobs[j].classes \cap C # {} => job'[j] = [jobs[j] EXCEPT !.stale = TRUE]
BY DEF I!Overtake

LEMMA Stale ==
  ASSUME NEW q, JobShape(q)
  PROVE  [q EXCEPT !.stale = TRUE].stale
<1>1. q \in JobType
  BY DEF JobShape
<1>2. [q EXCEPT !.stale = TRUE].stale = TRUE
  BY <1>1 DEF JobType
<1>. QED
  BY <1>2, Zenon

\* All imports go on after a commit, or are overtaken.
LEMMA AllKept ==
  ASSUME ImportInv, NEW C, Committed(C), NEW jobs, job' = I!Overtake(jobs, C),
         NEW O \in SUBSET Requests, \A j \in O : jobs[j] = job[j],
         \A j \in O : \A e, x : <<e, x>> \in entry \ entry' =>
            \A t \in {"link", "waiting", "resolved"} : \A s \in job[j].draft[t] : s[1] # e
  PROVE  \A j \in O : JobShape(job'[j]) /\ (Drafts(j) /\ Current(j))' /\ job'[j].draft = job[j].draft
<1>. SUFFICES ASSUME NEW j \in O
              PROVE  JobShape(job'[j]) /\ (Drafts(j) /\ Current(j))' /\ job'[j].draft = job[j].draft
  OBVIOUS
<1>1. /\ job[j].classes \cap C = {} => job'[j] = job[j]
      /\ job[j].classes \cap C # {} => job'[j] = [job[j] EXCEPT !.stale = TRUE]
  BY Overtakes
<1>2. JobShape(job[j])
  BY DEF ImportInv, ImportTypes
<1>3. job[j].classes \cap C # {} => job'[j].stale
  BY <1>1, <1>2, Stale, ZenonT(30)
<1>. QED
  BY <1>1, <1>3, Kept

LEMMA CommitInv ==
  ASSUME ImportInv, NEW i \in Requests, I!Commit(i)
  PROVE  ImportInv'
<1>0. PICK q : q = job[i]
  OBVIOUS
<1>. DEFINE C == q.classes
<1>1. /\ entry' = entry \cup q.draft.entry
      /\ link' = link \cup q.draft.link
      /\ waiting' = (waiting \cup q.draft.waiting) \ q.draft.resolved
      /\ resolved' = resolved \cup q.draft.resolved
      /\ q.stale => strayed' = strayed \cup q.classes /\ claimed' = claimed \ (q.draft.resolved \ link')
      /\ ~q.stale => claimed' = claimed \cup q.claim /\ strayed' = strayed
      /\ job' = I!Overtake([job EXCEPT ![i] = I!Idle], C)
  BY <1>0, Zenon DEF I!Commit
<1>2. JobShape(q) /\ Drafts(i) /\ Current(i)
  BY <1>0 DEF ImportInv, ImportTypes
<1>3. /\ q.classes \subseteq Physical
      /\ q.draft.entry \subseteq Days \X Physical /\ q.draft.link \subseteq Pairs
      /\ q.draft.waiting \subseteq Pairs /\ q.draft.resolved \subseteq Pairs
  BY <1>2, JobFields
<1>4. \A s \in q.draft.resolved : \E x \in C : Known(s[1], x)
  BY <1>0, <1>2 DEF Drafts, About, Known
<1>5. Committed(C)
  <2>1. \A e, x : <<e, x>> \in q.draft.entry => x \in C
    BY <1>0, <1>2 DEF Drafts
  <2>2. strayed \subseteq strayed'
    BY <1>1
  <2>3. waiting \ waiting' \subseteq q.draft.resolved /\ link \ link' = {}
    BY <1>1
  <2>4. entry \subseteq entry' /\ entry' \subseteq entry \cup q.draft.entry
    BY <1>1
  <2>. QED
    BY <1>4, <2>1, <2>2, <2>3, <2>4 DEF Committed
<1>6. PICK jobs : jobs = [job EXCEPT ![i] = I!Idle]
  OBVIOUS
<1>7. /\ job' = I!Overtake(jobs, C) /\ jobs[i] = I!Idle
      /\ \A j \in Requests \ {i} : jobs[j] = job[j]
  BY <1>1, <1>6 DEF ImportInv, ImportTypes
<1>8. \A j \in Requests \ {i} :
         JobShape(job'[j]) /\ (Drafts(j) /\ Current(j))' /\ job'[j].draft = job[j].draft
  <2>. DEFINE O == Requests \ {i}
  <2>1. O \in SUBSET Requests /\ \A j \in O : jobs[j] = job[j]
    BY <1>7
  <2>2. entry \subseteq entry'
    BY <1>1
  <2>. HIDE DEF O, C
  <2>3. \A j \in O : JobShape(job'[j]) /\ (Drafts(j) /\ Current(j))' /\ job'[j].draft = job[j].draft
    BY <1>5, <1>7, <2>1, <2>2, AllKept
  <2>. QED
    BY <2>3 DEF O
<1>9. job'[i] = I!Idle /\ job' = [j \in Requests |-> job'[j]]
  <2>1. jobs[i].classes \cap C = {}
    BY <1>7, NothingShape
  <2>2. job' = [j \in Requests |-> IF jobs[j].classes \cap C = {}
                                    THEN jobs[j] ELSE [jobs[j] EXCEPT !.stale = TRUE]]
    BY <1>7, Zenon DEF I!Overtake
  <2>. HIDE DEF C
  <2>3. job'[i] = IF jobs[i].classes \cap C = {}
                  THEN jobs[i] ELSE [jobs[i] EXCEPT !.stale = TRUE]
    BY <2>2, Zenon
  <2>4. job'[i] = I!Idle
    BY <2>1, <2>3, <1>7, Zenon
  <2>5. job' = [j \in Requests |-> job'[j]]
    BY <2>2
  <2>. QED
    BY <2>4, <2>5
<1>10. ImportTypes'
  <2>1. entry' \subseteq Days \X Physical /\ link' \subseteq Pairs
        /\ waiting' \subseteq Pairs /\ resolved' \subseteq Pairs
    BY <1>1, <1>3 DEF ImportInv, ImportTypes
  <2>2. \A j \in Requests : JobShape(job'[j])
    BY <1>8, <1>9, NothingShape
  <2>. QED
    BY <1>9, <2>1, <2>2 DEF ImportTypes
<1>11. OnePhysicalClass'
  <2>1. ASSUME NEW d \in Days, NEW e \in Days, NEW c \in Physical,
               <<d, c>> \in entry', <<e, c>> \in entry', d # e
        PROVE  c \in strayed'
    <3>1. CASE c \notin C
      <4>1. <<d, c>> \in entry /\ <<e, c>> \in entry
        BY <1>5, <2>1, <3>1 DEF Committed
      <4>2. c \in strayed
        BY <2>1, <4>1 DEF ImportInv, OnePhysicalClass, I!OnePhysicalClass
      <4>. QED
        BY <1>5, <4>2 DEF Committed
    <3>2. CASE c \in C /\ q.stale
      BY <1>1, <3>2
    <3>3. CASE c \in C /\ ~q.stale
      <4>1. <<d, c>> \in I!SeenEntries(i) /\ <<e, c>> \in I!SeenEntries(i)
        BY <1>0, <1>1, <2>1 DEF I!SeenEntries
      <4>2. d = e \/ c \in strayed
        BY <1>0, <1>2, <3>3, <4>1 DEF Current
      <4>. QED
        BY <1>5, <2>1, <4>2 DEF Committed
    <3>. QED
      BY <3>1, <3>2, <3>3
  <2>. QED
    BY <2>1 DEF OnePhysicalClass, I!OnePhysicalClass
<1>12. NothingForgotten'
  <2>1. claimed \subseteq link \cup waiting
    BY DEF ImportInv, NothingForgotten, I!NothingForgotten
  <2>2. CASE q.stale
    <3>1. claimed' \subseteq link' \cup waiting'
      BY <1>1, <2>1, <2>2
    <3>. QED
      BY <3>1 DEF NothingForgotten, I!NothingForgotten
  <2>3. CASE ~q.stale
    <3>1. q.claim \subseteq link' \cup waiting' /\ q.draft.resolved \subseteq link'
      BY <1>0, <1>1, <1>2, <2>3 DEF Current, I!SeenLinks, I!SeenWaiting
    <3>2. claimed' \subseteq link' \cup waiting'
      BY <1>1, <2>1, <2>3, <3>1
    <3>. QED
      BY <3>2 DEF NothingForgotten, I!NothingForgotten
  <2>. QED
    BY <2>2, <2>3
<1>13. OneClassPerId'
  <2>1. \A e, c : Known(e, c)' => Known(e, c)
    <3>1. ASSUME NEW e, NEW c, NEW j \in Requests, <<e, c>> \in I!SeenEntries(j)'
          PROVE  Known(e, c)
      <4>1. CASE j = i
        <5>1. <<e, c>> \in entry'
          BY <1>9, <3>1, <4>1, NothingShape DEF I!SeenEntries
        <5>2. <<e, c>> \in I!SeenEntries(i)
          BY <1>0, <1>1, <5>1 DEF I!SeenEntries
        <5>. QED
          BY <5>2 DEF Known
      <4>2. CASE j # i
        <5>1. <<e, c>> \in entry' \cup job[j].draft.entry
          BY <1>8, <3>1, <4>2 DEF I!SeenEntries
        <5>2. <<e, c>> \in I!SeenEntries(i) \/ <<e, c>> \in I!SeenEntries(j)
          BY <1>0, <1>1, <5>1 DEF I!SeenEntries
        <5>. QED
          BY <5>2 DEF Known
      <4>. QED
        BY <4>1, <4>2
    <3>. QED
      BY <3>1 DEF Known
  <2>. QED
    BY <2>1 DEF ImportInv, OneClassPerId
<1>14. (Drafts(i) /\ Current(i))'
  <2>1. /\ job'[i].draft.entry = {} /\ job'[i].draft.link = {}
        /\ job'[i].draft.waiting = {} /\ job'[i].draft.resolved = {}
        /\ job'[i].claim = {} /\ job'[i].view = {} /\ job'[i].classes = {}
    BY <1>9, NothingShape
  <2>. QED
    BY <2>1 DEF Drafts, Current
<1>. QED
  BY <1>8, <1>10, <1>11, <1>12, <1>13, <1>14 DEF ImportInv

\* A routine is created, updated or deleted by hand: entry e of class c.
LEMMA HandStep ==
  ASSUME ImportInv, NEW c, Committed({c}), job' = I!Overtake(job, {c}),
         entry' \subseteq Days \X Physical, link' \subseteq Pairs, waiting' \subseteq Pairs,
         resolved' \subseteq Pairs,
         \A j \in Requests : \A e, x : <<e, x>> \in entry \ entry' =>
            \A t \in {"link", "waiting", "resolved"} : \A s \in job[j].draft[t] : s[1] # e,
         \/ entry' \subseteq entry
         \/ \E e : (\A d : ~Known(e, d)) /\ entry' = entry \cup {<<e, c>>},
         NothingForgotten', OnePhysicalClass'
  PROVE  ImportInv'
<1>1. \A j \in Requests :
         JobShape(job'[j]) /\ (Drafts(j) /\ Current(j))' /\ job'[j].draft = job[j].draft
  <2>. DEFINE C == {c}
  <2>1. Committed(C) /\ job' = I!Overtake(job, C)
    OBVIOUS
  <2>. HIDE DEF C
  <2>. QED
    BY <2>1, AllKept
<1>2. ImportTypes'
  BY <1>1, Overtakes DEF ImportTypes
<1>3. OneClassPerId'
  <2>1. CASE entry' \subseteq entry
    <3>1. \A e, x : Known(e, x)' => Known(e, x)
      BY <1>1, <2>1 DEF Known, I!SeenEntries
    <3>. QED
      BY <3>1 DEF ImportInv, OneClassPerId
  <2>2. CASE \E e : (\A d : ~Known(e, d)) /\ entry' = entry \cup {<<e, c>>}
    <3>1. PICK e : (\A d : ~Known(e, d)) /\ entry' = entry \cup {<<e, c>>}
      BY <2>2
    <3>2. \A x, y : Known(x, y)' => Known(x, y) \/ (x = e /\ y = c)
      BY <1>1, <3>1 DEF Known, I!SeenEntries
    <3>. QED
      BY <3>1, <3>2 DEF ImportInv, OneClassPerId
  <2>. QED
    BY <2>1, <2>2
<1>. QED
  BY <1>1, <1>2, <1>3 DEF ImportInv

LEMMA NobodyKnows ==
  ASSUME ImportInv, NEW e, I!Fresh(e)
  PROVE  \A d : ~Known(e, d)
<1>1. ASSUME NEW d, NEW j \in Requests, <<e, d>> \in I!SeenEntries(j) PROVE FALSE
  <2>1. job[j].draft.entry \subseteq Days \X Physical /\ entry \subseteq Days \X Physical
    BY JobFields DEF ImportInv, ImportTypes
  <2>2. d \in Physical
    BY <1>1, <2>1 DEF I!SeenEntries
  <2>. QED
    BY <1>1, <2>2 DEF I!Fresh
<1>. QED
  BY <1>1 DEF Known

LEMMA CreateInv ==
  ASSUME ImportInv, NEW e \in Days, NEW c \in Physical, NEW S \in SUBSET Places,
         I!CreateRoutine(e, c, S)
  PROVE  ImportInv'
<1>1. /\ entry' = entry \cup {<<e, c>>} /\ link' = link \cup ({e} \X S)
      /\ \A d \in Days : <<d, c>> \notin entry
      /\ job' = I!Overtake(job, {c})
      /\ UNCHANGED <<waiting, resolved, claimed, strayed>>
  BY DEF I!CreateRoutine, I!Planned
<1>2. Committed({c})
  BY <1>1 DEF Committed
<1>3. \A d : ~Known(e, d)
  BY NobodyKnows DEF I!CreateRoutine
<1>4. entry' \subseteq Days \X Physical /\ link' \subseteq Pairs /\ waiting' \subseteq Pairs
      /\ resolved' \subseteq Pairs
  BY <1>1 DEF ImportInv, ImportTypes, Pairs
<1>5. NothingForgotten'
  BY <1>1 DEF ImportInv, NothingForgotten, I!NothingForgotten
<1>6. OnePhysicalClass'
  BY <1>1 DEF ImportInv, OnePhysicalClass, I!OnePhysicalClass
<1>. QED
  BY <1>1, <1>2, <1>3, <1>4, <1>5, <1>6, HandStep

LEMMA UpdateInv ==
  ASSUME ImportInv, NEW e \in Days, NEW c \in Physical, NEW S \in SUBSET Places,
         I!UpdateRoutine(e, c, S)
  PROVE  ImportInv'
<1>1. /\ <<e, c>> \in entry
      /\ link' = {l \in link : l[1] # e} \cup ({e} \X S)
      /\ claimed' = claimed \ ({e} \X (I!Of(e, link) \ S))
      /\ job' = I!Overtake(job, {c})
      /\ UNCHANGED <<entry, waiting, resolved, strayed>>
  BY DEF I!UpdateRoutine, I!Planned
<1>2. Committed({c})
  BY <1>1 DEF Committed
<1>3. entry' \subseteq Days \X Physical /\ link' \subseteq Pairs /\ waiting' \subseteq Pairs
      /\ resolved' \subseteq Pairs
  BY <1>1 DEF ImportInv, ImportTypes, Pairs
<1>4. NothingForgotten'
  <2>1. ASSUME NEW s \in claimed' PROVE s \in link' \cup waiting'
    <3>1. s \in link \cup waiting /\ s \notin {e} \X (I!Of(e, link) \ S)
      BY <1>1, <2>1 DEF ImportInv, NothingForgotten, I!NothingForgotten
    <3>2. CASE s \in waiting \/ s[1] # e
      BY <1>1, <3>1, <3>2
    <3>3. CASE s \in link /\ s[1] = e
      <4>1. s \in Pairs
        BY <3>3 DEF ImportInv, ImportTypes
      <4>2. PICK n \in Places : s = <<e, n>>
        BY <3>3, <4>1 DEF Pairs
      <4>3. n \in S
        BY <3>1, <3>3, <4>2 DEF I!Of
      <4>. QED
        BY <1>1, <4>2, <4>3
    <3>. QED
      BY <3>1, <3>2, <3>3
  <2>. QED
    BY <2>1 DEF NothingForgotten, I!NothingForgotten
<1>5. OnePhysicalClass'
  BY <1>1 DEF ImportInv, OnePhysicalClass, I!OnePhysicalClass
<1>. QED
  BY <1>1, <1>2, <1>3, <1>4, <1>5, HandStep

LEMMA DeleteInv ==
  ASSUME ImportInv, NEW e \in Days, NEW c \in Physical, I!DeleteRoutine(e, c)
  PROVE  ImportInv'
<1>1. /\ <<e, c>> \in entry
      /\ \A i \in Requests : \A t \in {"link", "waiting", "resolved"} : I!Of(e, job[i].draft[t]) = {}
      /\ entry' = entry \ {<<e, c>>}
      /\ link' = {l \in link : l[1] # e} /\ waiting' = {w \in waiting : w[1] # e}
      /\ resolved' = {w \in resolved : w[1] # e} /\ claimed' = {w \in claimed : w[1] # e}
      /\ job' = I!Overtake(job, {c}) /\ UNCHANGED strayed
  BY DEF I!DeleteRoutine
<1>2. Committed({c})
  BY <1>1 DEF Committed
<1>3. entry' \subseteq Days \X Physical /\ link' \subseteq Pairs /\ waiting' \subseteq Pairs
      /\ resolved' \subseteq Pairs
  BY <1>1 DEF ImportInv, ImportTypes
<1>4. ASSUME NEW j \in Requests, NEW x, NEW y, <<x, y>> \in entry \ entry',
             NEW t \in {"link", "waiting", "resolved"}, NEW s \in job[j].draft[t]
      PROVE  s[1] # x
  <2>1. x = e
    BY <1>1, <1>4
  <2>2. s \in Pairs
    BY <1>4, JobFields DEF ImportInv, ImportTypes
  <2>3. PICK d \in Days, n \in Places : s = <<d, n>>
    BY <2>2 DEF Pairs
  <2>4. d # e
    BY <1>1, <1>4, <2>3 DEF I!Of
  <2>. QED
    BY <2>1, <2>3, <2>4
<1>5. NothingForgotten'
  BY <1>1 DEF ImportInv, NothingForgotten, I!NothingForgotten
<1>6. OnePhysicalClass'
  BY <1>1 DEF ImportInv, OnePhysicalClass, I!OnePhysicalClass
<1>. QED
  BY <1>1, <1>2, <1>3, <1>4, <1>5, <1>6, HandStep

\* nothing that the invariant is about changes
LEMMA ImportRests ==
  ASSUME ImportInv, UNCHANGED <<entry, link, waiting, resolved, claimed, strayed, job>>
  PROVE  ImportInv'
<1>1. ASSUME NEW j PROVE /\ I!SeenEntries(j)' = I!SeenEntries(j) /\ I!SeenLinks(j)' = I!SeenLinks(j)
                         /\ I!SeenWaiting(j)' = I!SeenWaiting(j)
  BY DEF I!SeenEntries, I!SeenLinks, I!SeenWaiting
<1>2. ASSUME NEW j \in Requests PROVE (Drafts(j) /\ Current(j))'
  <2>1. Drafts(j) /\ Current(j)
    BY DEF ImportInv
  <2>2. Drafts(j)'
    BY <1>1, <2>1 DEF Drafts, About
  <2>3. Current(j)'
    BY <1>1, <2>1 DEF Current, About
  <2>. QED
    BY <2>2, <2>3
<1>3. OneClassPerId'
  BY <1>1 DEF ImportInv, OneClassPerId, Known
<1>4. ImportTypes' /\ NothingForgotten' /\ OnePhysicalClass'
  BY DEF ImportInv, ImportTypes, NothingForgotten, I!NothingForgotten,
         OnePhysicalClass, I!OnePhysicalClass
<1>. QED
  BY <1>2, <1>3, <1>4 DEF ImportInv

LEMMA ImportInit == I!Init => ImportInv
<1>. SUFFICES ASSUME I!Init PROVE ImportInv
  OBVIOUS
<1>1. /\ entry = {} /\ link = {} /\ waiting = {} /\ resolved = {} /\ claimed = {} /\ strayed = {}
      /\ job = [i \in Requests |-> I!Idle]
  BY DEF I!Init
<1>2. ImportTypes
  BY <1>1, NothingShape DEF ImportTypes
<1>3. ASSUME NEW i \in Requests PROVE I!SeenEntries(i) = {} /\ Drafts(i) /\ Current(i)
  <2>1. /\ job[i].draft.entry = {} /\ job[i].draft.link = {}
        /\ job[i].draft.waiting = {} /\ job[i].draft.resolved = {}
        /\ job[i].claim = {} /\ job[i].view = {} /\ job[i].classes = {}
    BY <1>1, NothingShape
  <2>. QED
    BY <1>1, <2>1 DEF I!SeenEntries, Drafts, Current
<1>4. OneClassPerId
  BY <1>3 DEF OneClassPerId, Known
<1>5. NothingForgotten /\ OnePhysicalClass
  BY <1>1 DEF NothingForgotten, I!NothingForgotten, OnePhysicalClass, I!OnePhysicalClass
<1>. QED
  BY <1>2, <1>3, <1>4, <1>5 DEF ImportInv

LEMMA ImportStep == ASSUME ImportInv, [I!Next]_importVars PROVE ImportInv'
<1>1. ASSUME NEW i \in Requests,
             \/ I!Upload(i) \/ I!Validate(i) \/ I!Apply(i) \/ I!ApplyBulk(i)
             \/ I!RefuseRow(i) \/ I!Commit(i) \/ I!Lose(i)
      PROVE  ImportInv'
  BY <1>1, UploadInv, ValidateInv, ApplyInv, ApplyBulkInv, RefuseRowInv, CommitInv, LoseInv
<1>2. ASSUME NEW n \in Places, I!SetReady(n) PROVE ImportInv'
  BY <1>2, ImportRests DEF I!SetReady, I!tables
<1>3. ASSUME NEW e \in Days, NEW c \in Physical,
             \/ \E S \in (SUBSET Places) \ {{}} : I!CreateRoutine(e, c, S) \/ I!UpdateRoutine(e, c, S)
             \/ I!DeleteRoutine(e, c)
      PROVE  ImportInv'
  BY <1>3, CreateInv, UpdateInv, DeleteInv
<1>4. CASE UNCHANGED importVars
  BY <1>4, ImportRests DEF importVars
<1>. QED
  BY <1>1, <1>2, <1>3, <1>4 DEF I!Next

\* The inductive invariant of the imports: whatever an import has written is
\* about its own classes, an id is one class's, and what an import has read and
\* will report is still there unless it was overtaken.
THEOREM ImportsInvariance == I!Spec => []ImportInv
<1>1. [I!Next]_I!importVars => [I!Next]_importVars
  BY DEF I!importVars, I!tables, importVars
<1>. QED
  BY <1>1, ImportInit, ImportStep, PTL DEF I!Spec

\* Every section of a row that an import reported attends the class or is pending
\* with it, until somebody removes it (import_section_routine, Commit).
THEOREM SectionsRemembered == I!Spec => []NothingForgotten
<1>1. ImportInv => NothingForgotten
  BY DEF ImportInv
<1>. QED
  BY <1>1, ImportsInvariance, PTL

\* A class has one row, however many worksheets name it, unless one of their
\* imports was overtaken (matching_physical_routine, create_or_merge_routine_entry).
THEOREM OneRowPerClass == I!Spec => []OnePhysicalClass
<1>1. ImportInv => OnePhysicalClass
  BY DEF ImportInv
<1>. QED
  BY <1>1, ImportsInvariance, PTL

\* The instance that is model-checked takes steps of the plan or of the imports
\* only, so all that is proved of the two holds of it.
THEOREM InstanceOfBoth == TimetableSpec => Spec /\ I!Spec
<1>1. TimetableInit => Init /\ I!Init
  BY DEF TimetableInit
<1>2. [TimetableNext]_<<part, vars, importVars>> => [Next]_vars /\ [I!Next]_I!importVars
  <2>1. UNCHANGED importVars => UNCHANGED I!importVars
    BY DEF I!importVars, I!tables, importVars
  <2>. QED
    BY <2>1 DEF TimetableNext
<1>. QED
  BY <1>1, <1>2, PTL DEF TimetableSpec, Spec, I!Spec

================================================================================
