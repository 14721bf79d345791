---------------------------- MODULE FollowUpProofs ----------------------------
(* Theorems about FollowUp, for any number of students, classes and requests *)
(* and any threshold.                                                        *)
EXTENDS FollowUp, FiniteSetTheorems, SequenceTheorems, TLAPS

-----------------------------------------------------------------------------
(* Requests. What each phase of a request holds.                             *)

Alert == [active : BOOLEAN, mails : Nat, quiet : BOOLEAN]
View == [alert : SUBSET Nat, unmailed : SUBSET Nat, case : SUBSET Nat]
Partial(S) == UNION {[T -> S] : T \in SUBSET Students}
Request ==
  [at : {"idle", "finalize", "collected", "past", "saved", "evaluate"}, class : SUBSET Classes,
   plan : Nat, missing : SUBSET Students, set : Partial({"pass", "miss"}),
   mails : BOOLEAN, left : SUBSET Students,
   rate : Partial({"good", "low", "few"}), seen : Partial(View)]

\* a request about a class knows which, and only an evaluation reads students
Shape(q) ==
  /\ q \in Request
  /\ q.at \in {"finalize", "collected", "past", "saved"} => \E c \in Classes : q.class = {c}
  /\ q.at # "evaluate" => q.mails = FALSE /\ DOMAIN q.rate = {} /\ DOMAIN q.seen = {}
  /\ DOMAIN q.seen \subseteq DOMAIN q.rate

RecordTypes ==
  /\ done \in [Classes -> BOOLEAN]
  /\ mark \in [Classes -> [Students -> {"none", "pass", "miss"}]]
  /\ conducted \in Nat

RequestTypes == req = [r \in Requests |-> req[r]] /\ \A r \in Requests : Shape(req[r])

LEMMA NothingRead ==
  /\ Idle.rate \in Partial({"good", "low", "few"}) /\ DOMAIN Idle.rate = {}
  /\ Idle.seen \in Partial(View) /\ DOMAIN Idle.seen = {}
  /\ Idle.set \in Partial({"pass", "miss"})
<1>1. {} \in SUBSET Students
  OBVIOUS
<1>2. \A S : [s \in {} |-> ""] \in [{} -> S] /\ [s \in {} |-> {}] \in [{} -> S]
  OBVIOUS
<1>3. /\ Idle.rate = [s \in {} |-> ""] /\ Idle.seen = [s \in {} |-> {}]
      /\ Idle.set = [s \in {} |-> ""]
  BY DEF Idle
<1>4. DOMAIN Idle.rate = {} /\ DOMAIN Idle.seen = {}
  BY <1>3
<1>5. ASSUME NEW S, NEW f \in [{} -> S] PROVE f \in Partial(S)
  BY <1>1 DEF Partial
<1>. QED
  BY <1>2, <1>3, <1>4, <1>5

\* a request that has read no student
Fresh(a, C, n, M, m, L) ==
  [at |-> a, class |-> C, plan |-> n, missing |-> M, set |-> Idle.set, mails |-> m, left |-> L,
   rate |-> Idle.rate, seen |-> Idle.seen]

LEMMA FreshShape ==
  ASSUME NEW a \in {"idle", "finalize", "collected", "saved", "evaluate"},
         NEW C \in SUBSET Classes, NEW n \in Nat, NEW M \in SUBSET Students,
         NEW m \in BOOLEAN, NEW L \in SUBSET Students,
         a \in {"finalize", "collected", "saved"} => \E c \in Classes : C = {c},
         a # "evaluate" => m = FALSE
  PROVE  Shape(Fresh(a, C, n, M, m, L))
<1>1. Fresh(a, C, n, M, m, L) \in Request
  BY NothingRead DEF Request, Fresh
<1>2. /\ Fresh(a, C, n, M, m, L).at = a /\ Fresh(a, C, n, M, m, L).class = C
      /\ Fresh(a, C, n, M, m, L).mails = m
      /\ Fresh(a, C, n, M, m, L).rate = Idle.rate /\ Fresh(a, C, n, M, m, L).seen = Idle.seen
  BY DEF Fresh
<1>. HIDE DEF Fresh
<1>. QED
  BY <1>1, <1>2, NothingRead DEF Shape

\* a completion by a mark after the date
Past(c, M, f) ==
  [at |-> "past", class |-> {c}, plan |-> 0, missing |-> M, set |-> f, mails |-> FALSE, left |-> {},
   rate |-> Idle.rate, seen |-> Idle.seen]

LEMMA PastShape ==
  ASSUME NEW c \in Classes, NEW M \in SUBSET Students, NEW f \in Partial({"pass", "miss"})
  PROVE  /\ Shape(Past(c, M, f)) /\ Past(c, M, f).at = "past" /\ Past(c, M, f).class = {c}
         /\ Past(c, M, f).missing = M
         /\ Past(c, M, f).rate = Idle.rate /\ Past(c, M, f).seen = Idle.seen
<1>1. /\ Past(c, M, f).at = "past" /\ Past(c, M, f).class = {c} /\ Past(c, M, f).missing = M
      /\ Past(c, M, f).mails = FALSE /\ Past(c, M, f).rate = Idle.rate /\ Past(c, M, f).seen = Idle.seen
  BY DEF Past
<1>2. Past(c, M, f) \in Request
  BY NothingRead DEF Request, Past
<1>. QED
  BY <1>1, <1>2, NothingRead DEF Shape

LEMMA IdleShape == Idle = Fresh("idle", {}, 0, {}, FALSE, {}) /\ Shape(Idle) /\ Idle.at = "idle"
<1>1. Idle = Fresh("idle", {}, 0, {}, FALSE, {})
  BY DEF Idle, Fresh
<1>. QED
  BY <1>1, FreshShape DEF Idle

LEMMA FromIdle ==
  ASSUME NEW a, NEW C, NEW m \in BOOLEAN, NEW L
  PROVE  /\ [Idle EXCEPT !.at = a, !.class = C] = Fresh(a, C, 0, {}, FALSE, {})
         /\ [Idle EXCEPT !.at = a, !.left = L] = Fresh(a, {}, 0, {}, FALSE, L)
         /\ [Idle EXCEPT !.at = a, !.mails = m, !.left = L] = Fresh(a, {}, 0, {}, m, L)
<1>1. ASSUME NEW q, q = [Idle EXCEPT !.at = a, !.class = C] PROVE q = Fresh(a, C, 0, {}, FALSE, {})
  BY <1>1 DEF Idle, Fresh
<1>2. ASSUME NEW q, q = [Idle EXCEPT !.at = a, !.left = L] PROVE q = Fresh(a, {}, 0, {}, FALSE, L)
  BY <1>2 DEF Idle, Fresh
<1>3. ASSUME NEW q, q = [Idle EXCEPT !.at = a, !.mails = m, !.left = L]
      PROVE  q = Fresh(a, {}, 0, {}, m, L)
  BY <1>3 DEF Idle, Fresh
<1>. QED
  BY <1>1, <1>2, <1>3, Zenon

\* requests move one at a time
LEMMA OneMove ==
  ASSUME RequestTypes, NEW r \in Requests, NEW q, Set(r, q)
  PROVE  /\ req'[r] = q /\ \A p \in Requests : p # r => req'[p] = req[p]
         /\ req' = [p \in Requests |-> req'[p]]
         /\ Shape(q) => RequestTypes'
BY DEF RequestTypes, Set
\* what has been read of some students
LEMMA PartialFacts ==
  ASSUME NEW S, NEW f
  PROVE  f \in Partial(S) <=> /\ DOMAIN f \subseteq Students /\ f = [s \in DOMAIN f |-> f[s]]
                             /\ \A s \in DOMAIN f : f[s] \in S
<1>1. ASSUME f \in Partial(S) 
      PROVE  /\ DOMAIN f \subseteq Students /\ f = [s \in DOMAIN f |-> f[s]]
             /\ \A s \in DOMAIN f : f[s] \in S
  BY <1>1 DEF Partial
<1>2. ASSUME DOMAIN f \subseteq Students, f = [s \in DOMAIN f |-> f[s]], \A s \in DOMAIN f : f[s] \in S
      PROVE  f \in Partial(S)
  <2>1. f \in [DOMAIN f -> S]
    BY <1>2
  <2>. QED
    BY <1>2, <2>1 DEF Partial
<1>. QED
  BY <1>1, <1>2

\* who a mark after the date is set for
LEMMA PastSet ==
  ASSUME NEW c, NEW s \in Students, NEW v \in {"pass", "miss"}
  PROVE  [t \in {s} \ {u \in Students : mark[c][u] = v} |-> v] \in Partial({"pass", "miss"})
<1>. DEFINE f == [t \in {s} \ {u \in Students : mark[c][u] = v} |-> v]
<1>1. DOMAIN f \subseteq Students /\ f = [t \in DOMAIN f |-> f[t]] /\ \A t \in DOMAIN f : f[t] = v
  OBVIOUS
<1>. HIDE DEF f
<1>2. f \in Partial({"pass", "miss"})
  BY <1>1, PartialFacts
<1>. QED
  BY <1>2 DEF f

\* what a mark after the date reads, and where it leaves the request
PastReading(r, c, q) ==
  /\ Set(r, q) /\ req[r] = Idle /\ Shape(q) /\ q.at = "past" /\ q.class = {c}
  /\ q.missing = Students \ Roster({c}) /\ q.rate = Idle.rate /\ q.seen = Idle.seen
  /\ UNCHANGED <<done, mark, conducted, completions, followups>>

LEMMA PastReads ==
  ASSUME NEW r, NEW c \in Classes, NEW s \in Students, NEW v \in {"pass", "miss"}, PastRead(r, c, s, v)
  PROVE  \E q : PastReading(r, c, q)
<1>. DEFINE M == Students \ Roster({c})
            f == [t \in {s} \ {u \in Students : mark[c][u] = v} |-> v]
<1>1. Set(r, Past(c, M, f))
  <2>1. ASSUME NEW q, q = [Idle EXCEPT !.at = "past", !.class = {c}, !.missing = M, !.set = f]
        PROVE  q = Past(c, M, f)
    BY <2>1 DEF Idle, Past
  <2>2. Set(r, [Idle EXCEPT !.at = "past", !.class = {c}, !.missing = M, !.set = f])
    BY DEF PastRead
  <2>. QED
    BY <2>1, <2>2, Zenon
<1>2. req[r] = Idle /\ UNCHANGED <<done, mark, conducted, completions, followups>>
  BY DEF PastRead
<1>3. f \in Partial({"pass", "miss"})
  BY PastSet
<1>4. M \in SUBSET Students
  OBVIOUS
<1>. HIDE DEF f
<1>. HIDE DEF M
<1>5. /\ Shape(Past(c, M, f)) /\ Past(c, M, f).at = "past" /\ Past(c, M, f).class = {c}
      /\ Past(c, M, f).missing = M
      /\ Past(c, M, f).rate = Idle.rate /\ Past(c, M, f).seen = Idle.seen
  BY <1>3, <1>4, PastShape
<1>6. PastReading(r, c, Past(c, M, f))
  BY <1>1, <1>2, <1>5, Zenon DEF PastReading, M
<1>. QED
  BY <1>6

\* what a completion leaves of its class
Saved(r, c) ==
  /\ req[r].class = {c} /\ Set(r, Fresh("saved", {c}, 0, {}, FALSE, {}))
  /\ Shape(Fresh("saved", {c}, 0, {}, FALSE, {})) /\ UNCHANGED followups
  /\ done' = [d \in Classes |-> done[d] \/ d = c]
  /\ mark' = [d \in Classes |-> [s \in Students |-> mark'[d][s]]]
  /\ \A d \in Classes, s \in Students :
       \/ mark'[d][s] = mark[d][s] /\ ~(d = c /\ s \in req[r].missing)
       \/ mark'[d][s] \in {"pass", "miss"}

LEMMA SavesClass ==
  ASSUME RequestTypes, NEW r \in Requests, req[r].at \in {"collected", "past"}, SaveClass(r)
  PROVE  \E c \in Classes : Saved(r, c)
<1>1. Shape(req[r]) /\ req[r].set \in Partial({"pass", "miss"})
  BY DEF RequestTypes, Shape, Request
<1>2. PICK c \in Classes : req[r].class = {c}
  BY <1>1 DEF Shape
<1>3. Set(r, Fresh("saved", {c}, 0, {}, FALSE, {}))
  BY <1>2, FromIdle DEF SaveClass
<1>4. Shape(Fresh("saved", {c}, 0, {}, FALSE, {}))
  BY FreshShape
<1>5. /\ done' = [d \in Classes |-> done[d] \/ d = c] /\ UNCHANGED followups
      /\ mark' = [d \in Classes |-> [s \in Students |->
                    IF d # c THEN mark[d][s]
                    ELSE IF s \in req[r].missing THEN "miss"
                    ELSE IF s \in DOMAIN req[r].set THEN req[r].set[s] ELSE mark[d][s]]]
  BY <1>2 DEF SaveClass
<1>6. \A s \in DOMAIN req[r].set : req[r].set[s] \in {"pass", "miss"}
  BY <1>1, PartialFacts
<1>7. \A d \in Classes, s \in Students :
        mark'[d][s] = IF d # c THEN mark[d][s]
                      ELSE IF s \in req[r].missing THEN "miss"
                      ELSE IF s \in DOMAIN req[r].set THEN req[r].set[s] ELSE mark[d][s]
  BY <1>5
<1>8. mark' = [d \in Classes |-> [s \in Students |-> mark'[d][s]]]
  BY <1>5
<1>9. \A d \in Classes, s \in Students :
        \/ mark'[d][s] = mark[d][s] /\ ~(d = c /\ s \in req[r].missing)
        \/ mark'[d][s] \in {"pass", "miss"}
  BY <1>6, <1>7
<1>10. done' = [d \in Classes |-> done[d] \/ d = c] /\ UNCHANGED followups
  BY <1>5
<1>. QED
  BY <1>2, <1>3, <1>4, <1>8, <1>9, <1>10, Zenon DEF Saved

FollowTypes == alert \in [Students -> Seq(Alert)] /\ case \in [Students -> Seq(BOOLEAN)]

LEMMA RateType == \A s : Rate(s) \in {"good", "low", "few"}
BY DEF Rate

LEMMA TypesInit == Init => RecordTypes /\ RequestTypes
<1>. SUFFICES ASSUME Init PROVE RecordTypes /\ RequestTypes
  OBVIOUS
<1>1. RecordTypes
  BY DEF Init, RecordTypes
<1>2. req = [r \in Requests |-> Idle]
  BY DEF Init
<1>. QED
  BY <1>1, <1>2, IdleShape DEF RequestTypes

LEMMA TypesStep ==
  RecordTypes /\ RequestTypes /\ FollowTypes /\ [Next]_vars => RecordTypes' /\ RequestTypes'
<1>. SUFFICES ASSUME RecordTypes, RequestTypes, FollowTypes, [Next]_vars
              PROVE  RecordTypes' /\ RequestTypes'
  OBVIOUS
<1>1. ASSUME NEW r \in Requests, NEW c \in Classes, FinalizeRead(r, c)
      PROVE  RecordTypes' /\ RequestTypes'
  <2>1. Set(r, Fresh("finalize", {c}, 0, {}, FALSE, {})) /\ UNCHANGED <<done, mark, conducted>>
    BY <1>1, FromIdle DEF FinalizeRead
  <2>2. Shape(Fresh("finalize", {c}, 0, {}, FALSE, {}))
    BY FreshShape
  <2>. QED
    BY <2>1, <2>2, OneMove DEF RecordTypes
<1>2. ASSUME NEW r \in Requests, FinalizeCollect(r) PROVE RecordTypes' /\ RequestTypes'
  <2>. DEFINE c == req[r].class  M == Students \ Roster(c)
              q == [req[r] EXCEPT !.at = "collected", !.plan = conducted, !.missing = M]
  <2>1. req[r].at = "finalize" /\ Set(r, q) /\ UNCHANGED <<done, mark, conducted>>
    BY <1>2 DEF FinalizeCollect, records
  <2>2. Shape(req[r])
    BY DEF RequestTypes
  <2>3. M \in SUBSET Students /\ conducted \in Nat
    BY DEF RecordTypes
  <2>. HIDE DEF M
  <2>4. /\ q.at = "collected" /\ q.class = req[r].class /\ q.mails = req[r].mails
        /\ q.rate = req[r].rate /\ q.seen = req[r].seen
    BY <2>2 DEF Shape, Request
  <2>5. q \in Request
    BY <2>2, <2>3 DEF Shape, Request
  <2>. HIDE DEF q
  <2>6. Shape(q)
    BY <2>1, <2>2, <2>4, <2>5 DEF Shape
  <2>. QED
    BY <2>1, <2>6, OneMove DEF RecordTypes
<1>3. ASSUME NEW r \in Requests, FinalizeCommit(r) \/ PastCommit(r) PROVE RecordTypes' /\ RequestTypes'
  <2>1. /\ req[r].at \in {"collected", "past"} /\ SaveClass(r)
        /\ conducted' = req[r].plan + 1 \/ conducted' = conducted
    BY <1>3 DEF FinalizeCommit, PastCommit
  <2>2. PICK c \in Classes : Saved(r, c)
    BY <2>1, SavesClass
  <2>3. \A d \in Classes, s \in Students : mark'[d][s] \in {"none", "pass", "miss"}
    BY <2>2 DEF Saved, RecordTypes
  <2>4. mark' \in [Classes -> [Students -> {"none", "pass", "miss"}]]
    BY <2>2, <2>3 DEF Saved
  <2>5. done' \in [Classes -> BOOLEAN]
    BY <2>2 DEF Saved, RecordTypes
  <2>6. conducted' \in Nat
    BY <2>1 DEF RecordTypes, RequestTypes, Shape, Request
  <2>. QED
    BY <2>2, <2>4, <2>5, <2>6, OneMove DEF Saved, RecordTypes
<1>15. ASSUME NEW r \in Requests, NEW c \in Classes, NEW s \in Students, NEW v \in {"pass", "miss"},
              PastRead(r, c, s, v)
       PROVE  RecordTypes' /\ RequestTypes'
  <2>1. PICK q : PastReading(r, c, q)
    BY <1>15, PastReads
  <2>. QED
    BY <2>1, OneMove DEF PastReading, RecordTypes
<1>4. ASSUME NEW r \in Requests, NEW c \in Classes, NEW s \in Students, NEW v \in {"pass", "miss"},
             ChangeMark(r, c, s, v)
      PROVE  RecordTypes' /\ RequestTypes'
  <2>1. Set(r, Fresh("saved", {c}, 0, {}, FALSE, {}))
    BY <1>4, FromIdle DEF ChangeMark
  <2>2. Shape(Fresh("saved", {c}, 0, {}, FALSE, {}))
    BY FreshShape
  <2>3. RecordTypes'
    BY <1>4 DEF ChangeMark, RecordTypes
  <2>. QED
    BY <2>1, <2>2, <2>3, OneMove
<1>5. ASSUME NEW c \in Classes, NEW s \in Students, Attend(c, s) PROVE RecordTypes' /\ RequestTypes'
  BY <1>5 DEF Attend, RecordTypes, RequestTypes
<1>6. ASSUME NEW r \in Requests, EvaluationStarts(r) PROVE RecordTypes' /\ RequestTypes'
  <2>. DEFINE L == Roster(req[r].class)
  <2>0. [Idle EXCEPT !.at = "evaluate", !.mails = TRUE, !.left = L] = Fresh("evaluate", {}, 0, {}, TRUE, L)
    <3>1. ASSUME NEW q, q = [Idle EXCEPT !.at = "evaluate", !.mails = TRUE, !.left = L]
          PROVE  q = Fresh("evaluate", {}, 0, {}, TRUE, L)
      BY <3>1 DEF Idle, Fresh
    <3>. QED
      BY <3>1, Zenon
  <2>1. /\ Set(r, Fresh("evaluate", {}, 0, {}, TRUE, L)) \/ Set(r, Idle)
        /\ UNCHANGED records
    BY <1>6, <2>0 DEF EvaluationStarts
  <2>2. L \in SUBSET Students
    BY DEF Roster
  <2>. HIDE DEF L
  <2>3. Shape(Fresh("evaluate", {}, 0, {}, TRUE, L))
    BY <2>2, FreshShape
  <2>. QED
    BY <2>1, <2>3, OneMove, IdleShape DEF RecordTypes, records
<1>7. ASSUME NEW r \in Requests, RunEvaluations(r) PROVE RecordTypes' /\ RequestTypes'
  <2>1. Set(r, Fresh("evaluate", {}, 0, {}, FALSE, Students)) /\ UNCHANGED records
    BY <1>7, FromIdle DEF RunEvaluations
  <2>2. Shape(Fresh("evaluate", {}, 0, {}, FALSE, Students))
    BY FreshShape
  <2>. QED
    BY <2>1, <2>2, OneMove DEF RecordTypes, records
<1>8. ASSUME NEW r \in Requests, NEW s \in Students, EvaluateSkip(r, s)
      PROVE  RecordTypes' /\ RequestTypes'
  <2>. DEFINE q == [req[r] EXCEPT !.left = @ \ {s}]
  <2>1. req[r].at = "evaluate" /\ Set(r, q) /\ UNCHANGED records
    BY <1>8 DEF EvaluateSkip
  <2>2. Shape(req[r])
    BY DEF RequestTypes
  <2>3. q \in Request
    BY <2>2 DEF Shape, Request
  <2>4. q.at = "evaluate" /\ q.rate = req[r].rate /\ q.seen = req[r].seen
    BY <2>1, <2>2 DEF Shape, Request
  <2>. HIDE DEF q
  <2>5. Shape(q)
    BY <2>2, <2>3, <2>4 DEF Shape
  <2>. QED
    BY <2>1, <2>5, OneMove DEF RecordTypes, records
<1>9. ASSUME NEW r \in Requests, NEW s \in Students, EvaluateStats(r, s)
      PROVE  RecordTypes' /\ RequestTypes'
  <2>. DEFINE f == [t \in Read(r) \cup {s} |-> IF t = s THEN Rate(s) ELSE req[r].rate[t]]
              q == [req[r] EXCEPT !.left = @ \ {s}, !.rate = f]
  <2>2. Shape(req[r]) /\ req[r] \in Request
    BY DEF RequestTypes, Shape
  <2>1. req[r].at = "evaluate" /\ Set(r, q) /\ UNCHANGED records
    BY <1>9, <2>2 DEF EvaluateStats, Request
  <2>3. req[r].rate \in Partial({"good", "low", "few"})
    BY <2>2 DEF Request
  <2>4. f \in Partial({"good", "low", "few"}) /\ DOMAIN f = DOMAIN req[r].rate \cup {s}
    BY <2>3, PartialFacts, RateType DEF Read
  <2>. HIDE DEF f
  <2>5. q \in Request
    BY <2>2, <2>4 DEF Request
  <2>6. q.at = "evaluate" /\ q.rate = f /\ q.seen = req[r].seen
    BY <2>1, <2>2 DEF Request
  <2>. HIDE DEF q
  <2>7. Shape(q)
    BY <2>2, <2>4, <2>5, <2>6 DEF Shape
  <2>. QED
    BY <2>1, <2>7, OneMove DEF RecordTypes, records
<1>10. ASSUME NEW r \in Requests, EvaluateView(r) PROVE RecordTypes' /\ RequestTypes'
  <2>. DEFINE f == [t \in Read(r) |-> IF t \in Seen(r) THEN req[r].seen[t]
                      ELSE [alert |-> Active(t), unmailed |-> Unmailed(t), case |-> OpenCase(t)]]
              q == [req[r] EXCEPT !.seen = f]
  <2>2. Shape(req[r]) /\ req[r] \in Request
    BY DEF RequestTypes, Shape
  <2>1. req[r].at = "evaluate" /\ Set(r, q) /\ UNCHANGED records
    BY <1>10, <2>2 DEF EvaluateView, Request
  <2>3. req[r].rate \in Partial({"good", "low", "few"}) /\ req[r].seen \in Partial(View)
    BY <2>2 DEF Request
  <2>4. \A t \in Students : Active(t) \in SUBSET Nat /\ Unmailed(t) \in SUBSET Nat /\ OpenCase(t) \in SUBSET Nat
    BY DEF FollowTypes, Active, Unmailed, OpenCase
  <2>0. DOMAIN req[r].rate \subseteq Students /\ \A t \in Seen(r) : req[r].seen[t] \in View
    BY <2>3, PartialFacts DEF Seen
  <2>a. DOMAIN f = DOMAIN req[r].rate /\ f = [t \in DOMAIN f |-> f[t]]
    BY DEF Read
  <2>b. \A t \in DOMAIN f : f[t] \in View
    BY <2>0, <2>4 DEF Read, View
  <2>5. f \in Partial(View) /\ DOMAIN f = DOMAIN req[r].rate
    BY <2>0, <2>a, <2>b, PartialFacts
  <2>. HIDE DEF f
  <2>6. q \in Request
    BY <2>2, <2>5 DEF Request
  <2>7. q.at = "evaluate" /\ q.rate = req[r].rate /\ q.seen = f
    BY <2>1, <2>2 DEF Request
  <2>. HIDE DEF q
  <2>8. Shape(q)
    BY <2>2, <2>5, <2>6, <2>7 DEF Shape
  <2>. QED
    BY <2>1, <2>8, OneMove DEF RecordTypes, records
<1>11. ASSUME NEW r \in Requests, EvaluateCommit(r) \/ Fails(r) PROVE RecordTypes' /\ RequestTypes'
  <2>1. Set(r, Idle) /\ UNCHANGED records
    BY <1>11 DEF EvaluateCommit, Fails
  <2>. QED
    BY <2>1, OneMove, IdleShape DEF RecordTypes, records
<1>12. ASSUME UNCHANGED <<records, req>> PROVE RecordTypes' /\ RequestTypes'
  BY <1>12 DEF RecordTypes, records, RequestTypes
<1>13. ASSUME NEW s \in Students, NEW k, NEW v, SetCase(s, k, v) PROVE RecordTypes' /\ RequestTypes'
  BY <1>12, <1>13 DEF SetCase
<1>14. ASSUME ScopeEnds \/ UNCHANGED vars PROVE RecordTypes' /\ RequestTypes'
  BY <1>12, <1>14 DEF ScopeEnds, vars
<1>. QED
  BY <1>1, <1>2, <1>3, <1>4, <1>5, <1>6, <1>7, <1>8, <1>9, <1>10, <1>11, <1>13, <1>14, <1>15
     DEF Next, Attendance, Evaluation

-----------------------------------------------------------------------------
(* What an evaluation makes of the alerts and cases of a student.            *)

Sent(r, s) == IF Mails(r, s) THEN 1 ELSE 0

\* alert a of student s as request r leaves it
AlertAfter(r, s, a) ==
  IF a \notin req[r].seen[s].alert THEN alert[s][a]
  ELSE CASE req[r].rate[s] = "low"  -> [alert[s][a] EXCEPT !.mails = @ + Sent(r, s)]
         [] req[r].rate[s] = "good" -> [alert[s][a] EXCEPT !.active = FALSE]
         [] OTHER -> alert[s][a]

AlertsAfter(r, s) == [a \in DOMAIN alert[s] |-> AlertAfter(r, s, a)]

NewAlert(r, s) == [active |-> TRUE, mails |-> Sent(r, s), quiet |-> Sent(r, s) = 0]

LEMMA AlertsAre ==
  ASSUME NEW r, NEW s
  PROVE  Alerts(r, s) = IF Opens(r, s) THEN Append(AlertsAfter(r, s), NewAlert(r, s))
                        ELSE AlertsAfter(r, s)
BY DEF Alerts, AlertsAfter, AlertAfter, NewAlert, Sent

LEMMA AlertAfterType ==
  ASSUME FollowTypes, NEW r, NEW s \in Students, NEW a \in DOMAIN alert[s]
  PROVE  /\ AlertAfter(r, s, a) \in Alert
         /\ AlertAfter(r, s, a).mails =
              alert[s][a].mails + IF a \in req[r].seen[s].alert /\ req[r].rate[s] = "low"
                                  THEN Sent(r, s) ELSE 0
         /\ AlertAfter(r, s, a).quiet = alert[s][a].quiet
<1>. DEFINE x == alert[s][a]
<1>1. x \in Alert
  BY DEF FollowTypes
<1>. HIDE DEF x
<1>2. Sent(r, s) \in Nat /\ x.mails + Sent(r, s) \in Nat /\ x.mails = x.mails + 0
  BY <1>1 DEF Sent, Alert
<1>3. /\ [x EXCEPT !.mails = @ + Sent(r, s)] \in Alert
      /\ [x EXCEPT !.mails = @ + Sent(r, s)].mails = x.mails + Sent(r, s)
      /\ [x EXCEPT !.mails = @ + Sent(r, s)].quiet = x.quiet
  BY <1>1, <1>2 DEF Alert
<1>4. /\ [x EXCEPT !.active = FALSE] \in Alert
      /\ [x EXCEPT !.active = FALSE].mails = x.mails
      /\ [x EXCEPT !.active = FALSE].quiet = x.quiet
  BY <1>1 DEF Alert
<1>5. \/ AlertAfter(r, s, a) = x /\ ~(a \in req[r].seen[s].alert /\ req[r].rate[s] = "low")
      \/ /\ AlertAfter(r, s, a) = [x EXCEPT !.mails = @ + Sent(r, s)]
         /\ a \in req[r].seen[s].alert /\ req[r].rate[s] = "low"
      \/ /\ AlertAfter(r, s, a) = [x EXCEPT !.active = FALSE]
         /\ ~(a \in req[r].seen[s].alert /\ req[r].rate[s] = "low")
  BY DEF AlertAfter, x
<1>. QED
  BY <1>1, <1>2, <1>3, <1>4, <1>5 DEF x

LEMMA AlertAfterQuiet ==
  ASSUME FollowTypes, NEW r, NEW s \in Students, NEW a \in DOMAIN alert[s]
  PROVE  AlertAfter(r, s, a).quiet = alert[s][a].quiet
BY AlertAfterType

\* an alert stays active unless the evaluation saw it and the rate is good
LEMMA AlertAfterActive ==
  ASSUME FollowTypes, NEW r, NEW s \in Students, NEW a \in DOMAIN alert[s]
  PROVE  AlertAfter(r, s, a).active
           <=> alert[s][a].active /\ ~(a \in req[r].seen[s].alert /\ req[r].rate[s] = "good")
<1>1. alert[s][a] \in Alert
  BY DEF FollowTypes
<1>. QED
  BY <1>1 DEF AlertAfter, Alert

\* appending to a sequence
LEMMA Appended ==
  ASSUME NEW S, NEW q \in Seq(S), NEW e \in S
  PROVE  /\ Append(q, e) \in Seq(S) /\ Len(q) + 1 \notin DOMAIN q
         /\ DOMAIN Append(q, e) = DOMAIN q \cup {Len(q) + 1}
         /\ Append(q, e)[Len(q) + 1] = e
         /\ \A i \in DOMAIN q : Append(q, e)[i] = q[i]
BY AppendProperties

\* replacing the elements of a sequence
LEMMA Replaced ==
  ASSUME NEW S, NEW T, NEW q \in Seq(S), NEW g, g = [i \in DOMAIN q |-> g[i]],
         \A i \in DOMAIN q : g[i] \in T
  PROVE  g \in Seq(T) /\ Len(g) = Len(q) /\ DOMAIN g = DOMAIN q
<1>1. DOMAIN q = 1..Len(q) /\ Len(q) \in Nat
  OBVIOUS
<1>2. g \in [1..Len(q) -> T]
  BY <1>1
<1>3. g \in Seq(T)
  BY <1>1, <1>2, SeqDef
<1>. QED
  BY <1>1, <1>2, <1>3

LEMMA AlertsChange ==
  ASSUME FollowTypes, NEW r, NEW s \in Students
  PROVE  /\ Alerts(r, s) \in Seq(Alert)
         /\ DOMAIN Alerts(r, s) = DOMAIN alert[s] \cup IF Opens(r, s) THEN {Len(alert[s]) + 1} ELSE {}
         /\ Len(alert[s]) + 1 \notin DOMAIN alert[s]
         /\ \A a \in DOMAIN alert[s] : Alerts(r, s)[a] = AlertAfter(r, s, a)
         /\ Opens(r, s) => Alerts(r, s)[Len(alert[s]) + 1] = NewAlert(r, s)
<1>1. alert[s] \in Seq(Alert)
  BY DEF FollowTypes
<1>2. /\ AlertsAfter(r, s) \in Seq(Alert) /\ Len(AlertsAfter(r, s)) = Len(alert[s])
      /\ DOMAIN AlertsAfter(r, s) = DOMAIN alert[s]
      /\ \A a \in DOMAIN alert[s] : AlertsAfter(r, s)[a] = AlertAfter(r, s, a)
  <2>1. AlertsAfter(r, s) = [a \in DOMAIN alert[s] |-> AlertsAfter(r, s)[a]]
    BY DEF AlertsAfter
  <2>2. \A a \in DOMAIN alert[s] : AlertsAfter(r, s)[a] = AlertAfter(r, s, a)
    BY DEF AlertsAfter
  <2>3. \A a \in DOMAIN alert[s] : AlertsAfter(r, s)[a] \in Alert
    BY <2>2, AlertAfterType
  <2>. DEFINE g == AlertsAfter(r, s)
  <2>. HIDE DEF g
  <2>4. g = [a \in DOMAIN alert[s] |-> g[a]] /\ \A a \in DOMAIN alert[s] : g[a] \in Alert
    BY <2>1, <2>3 DEF g
  <2>5. g \in Seq(Alert) /\ Len(g) = Len(alert[s]) /\ DOMAIN g = DOMAIN alert[s]
    BY <1>1, <2>4, Replaced
  <2>. QED
    BY <2>2, <2>5 DEF g
<1>3. NewAlert(r, s) \in Alert
  BY DEF NewAlert, Alert, Sent
<1>4. /\ Len(alert[s]) + 1 \notin DOMAIN alert[s]
      /\ Append(AlertsAfter(r, s), NewAlert(r, s)) \in Seq(Alert)
      /\ DOMAIN Append(AlertsAfter(r, s), NewAlert(r, s)) = DOMAIN alert[s] \cup {Len(alert[s]) + 1}
      /\ Append(AlertsAfter(r, s), NewAlert(r, s))[Len(alert[s]) + 1] = NewAlert(r, s)
      /\ \A i \in DOMAIN alert[s] :
           Append(AlertsAfter(r, s), NewAlert(r, s))[i] = AlertsAfter(r, s)[i]
  BY <1>2, <1>3, Appended
<1>. QED
  BY <1>2, <1>4, AlertsAre

\* the cases of a student as request r leaves them
LEMMA CasesChange ==
  ASSUME FollowTypes, NEW r, NEW s \in Students
  PROVE  /\ Cases(r, s) \in Seq(BOOLEAN)
         /\ \A k \in DOMAIN Cases(r, s) : Cases(r, s)[k] =>
              \/ k \in OpenCase(s)
              \/ Opens(r, s) /\ req[r].seen[s].case = {} /\ k = Len(case[s]) + 1
<1>1. case[s] \in Seq(BOOLEAN)
  BY DEF FollowTypes
<1>2. CASE Opens(r, s) /\ req[r].seen[s].case = {}
  <2>. DEFINE e == TRUE
  <2>1. Cases(r, s) = Append(case[s], e) /\ e \in BOOLEAN
    BY <1>2 DEF Cases
  <2>. HIDE DEF e
  <2>2. /\ Append(case[s], e) \in Seq(BOOLEAN)
        /\ DOMAIN Append(case[s], e) = DOMAIN case[s] \cup {Len(case[s]) + 1}
        /\ \A i \in DOMAIN case[s] : Append(case[s], e)[i] = case[s][i]
    BY <1>1, <2>1, Appended
  <2>. QED
    BY <1>2, <2>1, <2>2, Zenon DEF OpenCase
<1>3. CASE ~(Opens(r, s) /\ req[r].seen[s].case = {}) /\ ~Resolves(r, s)
  BY <1>1, <1>3, Zenon DEF Cases, OpenCase
<1>4. CASE ~(Opens(r, s) /\ req[r].seen[s].case = {}) /\ Resolves(r, s)
  <2>. DEFINE g == [k \in DOMAIN case[s] |-> case[s][k] /\ k \notin req[r].seen[s].case]
  <2>1. Cases(r, s) = g
    BY <1>4 DEF Cases
  <2>2. \A k \in DOMAIN case[s] : g[k] \in BOOLEAN /\ (g[k] => case[s][k])
    BY Zenon
  <2>3. g = [k \in DOMAIN case[s] |-> g[k]]
    BY Zenon
  <2>. HIDE DEF g
  <2>4. g \in Seq(BOOLEAN) /\ DOMAIN g = DOMAIN case[s]
    BY <1>1, <2>2, <2>3, Replaced
  <2>. QED
    BY <2>1, <2>2, <2>4, Zenon DEF OpenCase
<1>. QED
  BY <1>2, <1>3, <1>4

\* a request about the records leaves alerts and cases alone
LEMMA FollowupsKept == ASSUME NEW r, Attendance(r) PROVE UNCHANGED <<alert, case, doubt>>
BY DEF Attendance, FinalizeRead, FinalizeCollect, FinalizeCommit, PastRead, PastCommit, SaveClass,
   ChangeMark, followups

LEMMA FollowInit == Init => FollowTypes
BY DEF Init, FollowTypes

LEMMA FollowStep == FollowTypes /\ [Next]_vars => FollowTypes'
<1>. SUFFICES ASSUME FollowTypes, [Next]_vars PROVE FollowTypes'
  OBVIOUS
<1>1. ASSUME NEW r \in Requests, EvaluateCommit(r) PROVE FollowTypes'
  <2>1. /\ \A s \in Students : Alerts(r, s) \in Seq(Alert) /\ alert[s] \in Seq(Alert)
        /\ alert' = [s \in Students |-> IF s \in Seen(r) THEN Alerts(r, s) ELSE alert[s]]
    BY <1>1, AlertsChange DEF EvaluateCommit, FollowTypes
  <2>2. /\ \A s \in Students : Cases(r, s) \in Seq(BOOLEAN) /\ case[s] \in Seq(BOOLEAN)
        /\ case' = [s \in Students |-> IF s \in Seen(r) THEN Cases(r, s) ELSE case[s]]
    BY <1>1, CasesChange DEF EvaluateCommit, FollowTypes
  <2>3. alert' \in [Students -> Seq(Alert)]
    BY <2>1
  <2>4. case' \in [Students -> Seq(BOOLEAN)]
    BY <2>2
  <2>. QED
    BY <2>3, <2>4 DEF FollowTypes
<1>2. ASSUME NEW s \in Students, NEW v \in BOOLEAN, NEW k \in DOMAIN case[s], SetCase(s, k, v)
      PROVE  FollowTypes'
  <2>1. [case[s] EXCEPT ![k] = v] \in Seq(BOOLEAN)
    BY ExceptSeq DEF FollowTypes
  <2>2. case' = [case EXCEPT ![s] = [case[s] EXCEPT ![k] = v]] /\ alert' = alert
    BY <1>2 DEF SetCase
  <2>. QED
    BY <2>1, <2>2 DEF FollowTypes
<1>3. ASSUME UNCHANGED <<alert, case>> PROVE FollowTypes'
  BY <1>3 DEF FollowTypes
<1>. QED
  BY <1>1, <1>2, <1>3, FollowupsKept DEF Next, Evaluation, EvaluationStarts, RunEvaluations, EvaluateSkip, EvaluateStats, EvaluateView, Fails,
     Attend, ScopeEnds, followups, vars

-----------------------------------------------------------------------------
(* What a step makes of the students a request has read.                     *)

View1(s) == [alert |-> Active(s), unmailed |-> Unmailed(s), case |-> OpenCase(s)]

\* a request keeps what it had read, or reads it now
Kept(r) ==
  /\ \A s \in DOMAIN req'[r].seen :
       \/ s \in Seen(r) /\ req'[r].seen[s] = req[r].seen[s]
       \/ req'[r].seen[s] = View1(s) /\ UNCHANGED alert
  /\ \A s \in DOMAIN req'[r].rate :
       \/ s \in Read(r) /\ req'[r].rate[s] = req[r].rate[s]
       \/ req'[r].rate[s] = Rate(s) /\ UNCHANGED records

LEMMA ReadingStep ==
  ASSUME RequestTypes, [Next]_vars, NEW p \in Requests PROVE Kept(p)
<1>1. ASSUME req'[p].seen = req[p].seen, req'[p].rate = req[p].rate PROVE Kept(p)
  BY <1>1 DEF Kept, Seen, Read
<1>2. ASSUME NEW r \in Requests, NEW q, Set(r, q), p # r \/ (q.seen = req[r].seen /\ q.rate = req[r].rate)
      PROVE  Kept(p)
  BY <1>1, <1>2, OneMove
<1>3. ASSUME NEW r \in Requests, NEW q, Set(r, q), q.seen = Idle.seen, q.rate = Idle.rate
      PROVE  Kept(p)
  BY <1>2, <1>3, NothingRead, OneMove DEF Kept
<1>4. ASSUME NEW r \in Requests, NEW a, NEW C, Set(r, [Idle EXCEPT !.at = a, !.class = C]) PROVE Kept(p)
  BY <1>3, <1>4 DEF Idle
<1>5. ASSUME NEW r \in Requests, NEW a, NEW m, NEW L,
             \/ Set(r, [Idle EXCEPT !.at = a, !.mails = m, !.left = L])
             \/ Set(r, [Idle EXCEPT !.at = a, !.left = L])
      PROVE  Kept(p)
  BY <1>3, <1>5 DEF Idle
<1>6. ASSUME NEW r \in Requests, Set(r, Idle) PROVE Kept(p)
  BY <1>3, <1>6
<1>7. ASSUME NEW r \in Requests, NEW c, FinalizeRead(r, c) PROVE Kept(p)
  BY <1>4, <1>7 DEF FinalizeRead
<1>a. ASSUME NEW r \in Requests, NEW c, NEW s, NEW v, ChangeMark(r, c, s, v) PROVE Kept(p)
  BY <1>4, <1>a DEF ChangeMark
<1>b. ASSUME NEW r \in Requests, FinalizeCommit(r) \/ PastCommit(r) PROVE Kept(p)
  BY <1>4, <1>b DEF FinalizeCommit, PastCommit, SaveClass
<1>c. ASSUME NEW r \in Requests, NEW c \in Classes, NEW s \in Students, NEW v \in {"pass", "miss"},
             PastRead(r, c, s, v)
      PROVE  Kept(p)
  <2>1. PICK q : PastReading(r, c, q)
    BY <1>c, PastReads
  <2>. QED
    BY <1>3, <2>1 DEF PastReading
<1>8. ASSUME NEW r \in Requests, FinalizeCollect(r) PROVE Kept(p)
  <2>. DEFINE q == [req[r] EXCEPT !.at = "collected", !.plan = conducted,
                                  !.missing = Students \ Roster(req[r].class)]
  <2>1. Set(r, q) /\ req[r] \in Request
    BY <1>8 DEF FinalizeCollect, RequestTypes, Shape
  <2>2. q.seen = req[r].seen /\ q.rate = req[r].rate
    BY <2>1 DEF Request
  <2>. HIDE DEF q
  <2>. QED
    BY <1>2, <2>1, <2>2
<1>9. ASSUME NEW r \in Requests, EvaluationStarts(r) \/ RunEvaluations(r) PROVE Kept(p)
  BY <1>5, <1>6, <1>9 DEF EvaluationStarts, RunEvaluations
<1>10. ASSUME NEW r \in Requests, NEW s, EvaluateSkip(r, s) PROVE Kept(p)
  <2>. DEFINE q == [req[r] EXCEPT !.left = @ \ {s}]
  <2>1. Set(r, q) /\ req[r] \in Request
    BY <1>10 DEF EvaluateSkip, RequestTypes, Shape
  <2>2. q.seen = req[r].seen /\ q.rate = req[r].rate
    BY <2>1 DEF Request
  <2>. HIDE DEF q
  <2>. QED
    BY <1>2, <2>1, <2>2
<1>11. ASSUME NEW r \in Requests, NEW s, EvaluateStats(r, s) PROVE Kept(p)
  <2>. DEFINE f == [t \in Read(r) \cup {s} |-> IF t = s THEN Rate(s) ELSE req[r].rate[t]]
              q == [req[r] EXCEPT !.left = @ \ {s}, !.rate = f]
  <2>0. req[r] \in Request
    BY DEF RequestTypes, Shape
  <2>1. Set(r, q) /\ UNCHANGED records
    BY <1>11, <2>0 DEF EvaluateStats, Request
  <2>2. \A t \in DOMAIN f : (t \in Read(r) /\ f[t] = req[r].rate[t]) \/ f[t] = Rate(t)
    OBVIOUS
  <2>. HIDE DEF f
  <2>3. q.seen = req[r].seen /\ q.rate = f
    BY <2>0 DEF Request
  <2>. HIDE DEF q
  <2>4. CASE p = r
    BY <2>1, <2>2, <2>3, <2>4, OneMove DEF Kept, Seen
  <2>. QED
    BY <1>2, <2>1, <2>4
<1>12. ASSUME NEW r \in Requests, EvaluateView(r) PROVE Kept(p)
  <2>. DEFINE f == [t \in Read(r) |-> IF t \in Seen(r) THEN req[r].seen[t] ELSE View1(t)]
              q == [req[r] EXCEPT !.seen = f]
  <2>0. req[r] \in Request
    BY DEF RequestTypes, Shape
  <2>1. Set(r, q) /\ UNCHANGED alert
    BY <1>12, <2>0 DEF EvaluateView, Request, followups, View1
  <2>2. \A t \in DOMAIN f : (t \in Seen(r) /\ f[t] = req[r].seen[t]) \/ f[t] = View1(t)
    OBVIOUS
  <2>. HIDE DEF f
  <2>3. q.rate = req[r].rate /\ q.seen = f
    BY <2>0 DEF Request
  <2>. HIDE DEF q
  <2>4. CASE p = r
    BY <2>1, <2>2, <2>3, <2>4, OneMove DEF Kept, Read
  <2>. QED
    BY <1>2, <2>1, <2>4
<1>13. ASSUME NEW r \in Requests, EvaluateCommit(r) \/ Fails(r) PROVE Kept(p)
  BY <1>6, <1>13 DEF EvaluateCommit, Fails
<1>14. ASSUME UNCHANGED req PROVE Kept(p)
  BY <1>1, <1>14
<1>15. (\E r \in Requests : Attendance(r) \/ Evaluation(r)) \/ UNCHANGED req
  BY DEF Next, Attend, SetCase, ScopeEnds, vars
<1>16. ASSUME NEW r \in Requests, Attendance(r) PROVE Kept(p)
  BY <1>7, <1>a, <1>b, <1>c, <1>8, <1>16 DEF Attendance
<1>17. ASSUME NEW r \in Requests, Evaluation(r) PROVE Kept(p)
  BY <1>9, <1>10, <1>11, <1>12, <1>13, <1>17 DEF Evaluation
<1>. QED
  BY <1>14, <1>15, <1>16, <1>17

-----------------------------------------------------------------------------
(* One alert and one case at a time. An evaluation may have read an old one, *)
(* and then a unique index refuses what it opens.                            *)

AtMostOne(S) == \A a, b \in S : a = b

LEMMA OneIsAtMostOne ==
  ASSUME NEW S, AtMostOne(S) PROVE IsFiniteSet(S) /\ Cardinality(S) <= 1
<1>1. CASE S = {}
  BY <1>1, FS_EmptySet
<1>2. ASSUME NEW a \in S PROVE IsFiniteSet(S) /\ Cardinality(S) = 1
  <2>1. S = {a}
    BY DEF AtMostOne
  <2>. QED
    BY <2>1, FS_Singleton, Zenon
<1>. QED
  BY <1>1, <1>2

OneInv ==
  /\ \A s \in Students : AtMostOne(Active(s)) /\ AtMostOne(OpenCase(s))
  /\ \A r \in Requests : \A s \in Seen(r) :
       LET v == req[r].seen[s] IN
       /\ AtMostOne(v.alert) /\ AtMostOne(v.case)
       /\ v.unmailed \subseteq v.alert /\ v.alert \subseteq DOMAIN alert[s]

LEMMA OneInit == Init => OneInv
BY NothingRead DEF Init, OneInv, AtMostOne, Active, OpenCase, Seen

\* the alerts there were, and the one added
LEMMA AlertKept ==
  ASSUME FollowTypes, NEW r, NEW s \in Students
  PROVE  /\ DOMAIN alert[s] \subseteq DOMAIN Alerts(r, s)
         /\ \A a \in DOMAIN alert[s] : Alerts(r, s)[a] = AlertAfter(r, s, a)
BY AlertsChange

LEMMA AlertAdded ==
  ASSUME FollowTypes, NEW r, NEW s \in Students, NEW a \in DOMAIN Alerts(r, s) \ DOMAIN alert[s]
  PROVE  Alerts(r, s)[a] = NewAlert(r, s)
<1>1. /\ DOMAIN Alerts(r, s) = DOMAIN alert[s] \cup IF Opens(r, s) THEN {Len(alert[s]) + 1} ELSE {}
      /\ Opens(r, s) => Alerts(r, s)[Len(alert[s]) + 1] = NewAlert(r, s)
  BY AlertsChange
<1>2. Opens(r, s) /\ a = Len(alert[s]) + 1
  BY <1>1
<1>. QED
  BY <1>1, <1>2, Zenon

\* alerts are never removed, and only an evaluation writes them
LEMMA OnlyCommit == [Next]_vars => alert' = alert \/ \E r \in Requests : EvaluateCommit(r)
BY FollowupsKept DEF Next, Evaluation, EvaluationStarts, RunEvaluations, EvaluateSkip, EvaluateStats, EvaluateView, Fails,
   Attend, ScopeEnds, SetCase, followups, vars

LEMMA AlertsGrow ==
  ASSUME FollowTypes, [Next]_vars, NEW s \in Students PROVE DOMAIN alert[s] \subseteq DOMAIN alert'[s]
<1>1. ASSUME NEW r \in Requests, EvaluateCommit(r) PROVE DOMAIN alert[s] \subseteq DOMAIN alert'[s]
  <2>1. alert'[s] = IF s \in Seen(r) THEN Alerts(r, s) ELSE alert[s]
    BY <1>1 DEF EvaluateCommit
  <2>2. DOMAIN alert[s] \subseteq DOMAIN Alerts(r, s)
    BY AlertKept, Zenon
  <2>. QED
    BY <2>1, <2>2, Zenon
<1>. QED
  BY <1>1, OnlyCommit

\* what an evaluation leaves active of the alerts of a student
LEMMA ActiveAfter ==
  ASSUME FollowTypes, NEW r \in Requests, EvaluateCommit(r), NEW s \in Students
  PROVE  /\ s \notin Seen(r) => Active(s)' = Active(s)
         /\ s \in Seen(r) /\ Opens(r, s) => Active(s) = {} /\ Active(s)' = {Len(alert[s]) + 1}
         /\ s \in Seen(r) /\ Resolves(r, s) => Active(s)' = Active(s) \ req[r].seen[s].alert
         /\ s \in Seen(r) /\ ~Opens(r, s) /\ ~Resolves(r, s) => Active(s)' = Active(s)
<1>1. alert'[s] = IF s \in Seen(r) THEN Alerts(r, s) ELSE alert[s]
  BY DEF EvaluateCommit
<1>2. CASE s \notin Seen(r)
  BY <1>1, <1>2 DEF Active
<1>3. CASE s \in Seen(r)
  <2>1. /\ alert'[s] = Alerts(r, s)
        /\ \A a \in DOMAIN alert[s] : alert'[s][a] = AlertAfter(r, s, a)
        /\ DOMAIN alert'[s] = DOMAIN alert[s] \cup IF Opens(r, s) THEN {Len(alert[s]) + 1} ELSE {}
        /\ Len(alert[s]) + 1 \notin DOMAIN alert[s]
        /\ Opens(r, s) => alert'[s][Len(alert[s]) + 1] = NewAlert(r, s)
    <3>1. alert'[s] = Alerts(r, s)
      BY <1>1, <1>3, Zenon
    <3>2. /\ DOMAIN Alerts(r, s) = DOMAIN alert[s] \cup IF Opens(r, s) THEN {Len(alert[s]) + 1} ELSE {}
          /\ Len(alert[s]) + 1 \notin DOMAIN alert[s]
          /\ Opens(r, s) => Alerts(r, s)[Len(alert[s]) + 1] = NewAlert(r, s)
      BY AlertsChange
    <3>3. \A a \in DOMAIN alert[s] : Alerts(r, s)[a] = AlertAfter(r, s, a)
      BY AlertKept, Zenon
    <3>. QED
      BY <3>1, <3>2, <3>3, Zenon
  <2>2. \A a \in DOMAIN alert[s] : alert'[s][a].active
          <=> alert[s][a].active /\ ~(a \in req[r].seen[s].alert /\ req[r].rate[s] = "good")
    BY <2>1, AlertAfterActive
  <2>3. \A a \in DOMAIN alert[s] : a \in Active(s)'
          <=> a \in Active(s) /\ ~(a \in req[r].seen[s].alert /\ req[r].rate[s] = "good")
    BY <2>1, <2>2, Zenon DEF Active
  <2>4. Active(s) \subseteq DOMAIN alert[s] /\ Active(s)' \subseteq DOMAIN alert'[s]
    BY DEF Active
  <2>5. CASE Opens(r, s)
    <3>1. Active(s) = {} /\ req[r].rate[s] = "low"
      BY <1>3, <2>5 DEF EvaluateCommit, Refused, Opens
    <3>2. NewAlert(r, s).active = TRUE
      BY DEF NewAlert
    <3>3. Len(alert[s]) + 1 \in Active(s)'
      BY <2>1, <2>5, <3>2, Zenon DEF Active
    <3>. QED
      BY <1>3, <2>1, <2>3, <2>4, <2>5, <3>1, <3>3 DEF Resolves
  <2>6. CASE ~Opens(r, s)
    BY <1>3, <2>1, <2>3, <2>4, <2>6 DEF Resolves
  <2>. QED
    BY <1>3, <2>5, <2>6
<1>. QED
  BY <1>2, <1>3

LEMMA ReadStudents ==
  ASSUME RequestTypes, NEW r \in Requests PROVE Seen(r) \subseteq Read(r) /\ Read(r) \subseteq Students
BY PartialFacts DEF RequestTypes, Shape, Request, Seen, Read

LEMMA OneStep ==
  RequestTypes /\ RequestTypes' /\ FollowTypes /\ OneInv /\ [Next]_vars => OneInv'
<1>. SUFFICES ASSUME RequestTypes, RequestTypes', FollowTypes, OneInv, [Next]_vars PROVE OneInv'
  OBVIOUS
<1>1. ASSUME NEW r \in Requests, NEW s \in Seen(r)', NEW v, v = req'[r].seen[s], s \in Students
      PROVE  /\ AtMostOne(v.alert) /\ AtMostOne(v.case)
             /\ v.unmailed \subseteq v.alert /\ v.alert \subseteq DOMAIN alert'[s]
  <2>1. (s \in Seen(r) /\ v = req[r].seen[s]) \/ v = View1(s)
    BY <1>1, ReadingStep DEF Kept, Seen
  <2>2. CASE s \in Seen(r) /\ v = req[r].seen[s]
    BY <1>1, <2>2, AlertsGrow DEF OneInv
  <2>3. CASE v = View1(s)
    <3>1. v.alert = Active(s) /\ v.case = OpenCase(s) /\ v.unmailed = Unmailed(s)
      BY <2>3 DEF View1
    <3>2. Unmailed(s) \subseteq Active(s) /\ Active(s) \subseteq DOMAIN alert[s]
      BY DEF Unmailed, Active
    <3>. QED
      BY <1>1, <3>1, <3>2, AlertsGrow DEF OneInv
  <2>. QED
    BY <2>1, <2>2, <2>3
<1>2. ASSUME NEW s \in Students PROVE AtMostOne(Active(s)')
  <2>1. CASE alert' = alert
    BY <2>1 DEF Active, OneInv
  <2>2. ASSUME NEW r \in Requests, EvaluateCommit(r) PROVE AtMostOne(Active(s)')
    BY <2>2, ActiveAfter DEF OneInv, AtMostOne
  <2>. QED
    BY <2>1, <2>2, OnlyCommit
<1>3. ASSUME NEW s \in Students PROVE AtMostOne(OpenCase(s)')
  <2>1. ASSUME UNCHANGED case PROVE AtMostOne(OpenCase(s)')
    BY <2>1 DEF OpenCase, OneInv
  <2>2. ASSUME NEW r \in Requests, EvaluateCommit(r) PROVE AtMostOne(OpenCase(s)')
    <3>1. case'[s] = IF s \in Seen(r) THEN Cases(r, s) ELSE case[s]
      BY <2>2 DEF EvaluateCommit
    <3>2. CASE s \notin Seen(r)
      BY <3>1, <3>2 DEF OpenCase, OneInv
    <3>3. CASE s \in Seen(r)
      <4>1. \A k \in OpenCase(s)' : 
              \/ k \in OpenCase(s)
              \/ Opens(r, s) /\ req[r].seen[s].case = {} /\ k = Len(case[s]) + 1
        BY <3>1, <3>3, CasesChange DEF OpenCase
      <4>2. Opens(r, s) /\ req[r].seen[s].case = {} => OpenCase(s) = {}
        BY <2>2, <3>3 DEF EvaluateCommit, Refused
      <4>. QED
        BY <4>1, <4>2 DEF OneInv, AtMostOne
    <3>. QED
      BY <3>2, <3>3
  <2>3. ASSUME NEW t \in Students, NEW v \in BOOLEAN, NEW k \in DOMAIN case[t], SetCase(t, k, v)
        PROVE  AtMostOne(OpenCase(s)')
    <3>1. /\ case' = [case EXCEPT ![t] = [case[t] EXCEPT ![k] = v]]
          /\ v => OpenCase(t) = {}
      BY <2>3 DEF SetCase
    <3>2. \A j \in OpenCase(s)' : j \in OpenCase(s) \/ (s = t /\ v /\ j = k)
      BY <3>1 DEF OpenCase, FollowTypes
    <3>. QED
      BY <3>1, <3>2 DEF OneInv, AtMostOne
  <2>. QED
    BY <2>1, <2>2, <2>3, FollowupsKept DEF Next, Evaluation, EvaluationStarts, RunEvaluations, EvaluateSkip, EvaluateStats, EvaluateView, Fails,
     Attend, ScopeEnds, followups, vars
<1>4. \A r \in Requests : Seen(r)' \subseteq Students
  BY PartialFacts DEF RequestTypes, Shape, Request, Seen
<1>. QED
  BY <1>1, <1>2, <1>3, <1>4 DEF OneInv, Seen

-----------------------------------------------------------------------------
(* The count of the plan. A class no other completion came across is counted *)
(* by its finalization, and no finalization in flight will undo this: what   *)
(* commits beside one is overlapped or done by hand, so that there are no    *)
(* more such classes than when it read the plan.                             *)

DoneClasses == {c \in Classes : done[c]}
Plain == DoneClasses \ (byHand \cup overlapped)

\* a finalized class has a record of every student
RosterInv ==
  /\ \A c \in Classes : done[c] => \A s \in Students : mark[c][s] # "none"
  /\ \A r \in Requests : req[r].at \in {"collected", "past"} =>
       \A s \in Students : s \in req[r].missing \/ \E c \in req[r].class : mark[c][s] # "none"

\* two finalizations in flight are about overlapped classes
Apart == \A r, p \in Finalizing : r # p => req[r].class \subseteq overlapped

\* the plan as it is when nothing has overlapped
Exact ==
  /\ conducted = Cardinality(Plain)
  /\ \A r \in Finalizing : /\ \A c \in req[r].class : ~done[c]
                           /\ req[r].at = "collected" => req[r].plan = conducted

CountInv ==
  /\ byHand \subseteq DoneClasses /\ Apart
  /\ Cardinality(Plain) <= conducted
  /\ \A r \in Finalizing : req[r].at = "collected" => Cardinality(Plain) <= req[r].plan
  /\ overlapped = {} => Exact

LEMMA CountInit == Init => RosterInv /\ CountInv
<1>. SUFFICES ASSUME Init PROVE RosterInv /\ CountInv
  OBVIOUS
<1>1. /\ \A c \in Classes : done[c] = FALSE
      /\ \A r \in Requests : req[r].at = "idle"
  BY IdleShape DEF Init
<1>2. DoneClasses = {} /\ Plain = {} /\ Finalizing = {} /\ conducted = 0 /\ byHand = {}
  BY <1>1 DEF Init, DoneClasses, Plain, Finalizing
<1>. QED
  BY <1>1, <1>2, FS_EmptySet DEF RosterInv, CountInv, Apart, Exact

\* numbers of classes
LEMMA SomeClasses ==
  ASSUME NEW S \in SUBSET Classes
  PROVE  /\ Cardinality(S) \in Nat
         /\ \A T \in SUBSET S : Cardinality(T) \in Nat /\ Cardinality(T) <= Cardinality(S)
         /\ \A c : c \notin S => Cardinality(S \cup {c}) = Cardinality(S) + 1
<1>1. IsFiniteSet(S)
  BY FollowUpAssumption, FS_Subset
<1>. QED
  BY <1>1, FS_Subset, FS_CardinalityType, FS_AddElement

\* records are not withdrawn
MarksStay == \A c \in Classes, s \in Students : mark[c][s] # "none" => mark'[c][s] # "none"

LEMMA RosterKept ==
  ASSUME RequestTypes, RosterInv, MarksStay, UNCHANGED done, NEW r \in Requests, NEW q, Set(r, q),
         q.at \notin {"collected", "past"}
  PROVE  RosterInv'
<1>1. \A p \in Requests : req'[p].at \in {"collected", "past"} => p # r /\ req'[p] = req[p]
  BY OneMove
<1>2. \A p \in Requests : req[p].class \subseteq Classes
  BY DEF RequestTypes, Shape, Request
<1>. QED
  BY <1>1, <1>2 DEF RosterInv, MarksStay

\* a request collects the students without a record
LEMMA RosterCollected ==
  ASSUME RequestTypes, RosterInv, UNCHANGED <<done, mark>>, NEW r \in Requests, NEW q, Set(r, q),
         q.missing = Students \ Roster(q.class)
  PROVE  RosterInv'
<1>1. req'[r] = q /\ \A p \in Requests : p # r => req'[p] = req[p]
  BY OneMove
<1>. QED
  BY <1>1 DEF RosterInv, Roster

\* no finalization begins or moves
LEMMA CountKept ==
  ASSUME CountInv, UNCHANGED <<done, conducted, completions>>,
         Finalizing' \subseteq Finalizing, \A p \in Finalizing' : req'[p] = req[p]
  PROVE  CountInv'
<1>1. UNCHANGED <<byHand, overlapped, DoneClasses, Plain>>
  BY DEF completions, DoneClasses, Plain
<1>. QED
  BY <1>1 DEF CountInv, Apart, Exact

LEMMA CountLeft ==
  ASSUME RequestTypes, CountInv, UNCHANGED <<done, conducted, completions>>, NEW r \in Requests, NEW q,
         Set(r, q), q.at \notin {"finalize", "collected"}
  PROVE  CountInv'
<1>1. Finalizing' \subseteq Finalizing /\ \A p \in Finalizing' : p # r /\ req'[p] = req[p]
  BY OneMove DEF Finalizing
<1>. QED
  BY <1>1, CountKept

LEMMA SavedCounts ==
  ASSUME RequestTypes, RosterInv, NEW r \in Requests, req[r].at \in {"collected", "past"},
         NEW c \in Classes, Saved(r, c)
  PROVE  /\ RosterInv' /\ DoneClasses' = DoneClasses \cup {c}
         /\ Finalizing' = Finalizing \ {r} /\ \A p \in Finalizing' : req'[p] = req[p]
<1>. DEFINE q == Fresh("saved", {c}, 0, {}, FALSE, {})
<1>1. q.at = "saved"
  BY DEF Fresh
<1>2. Set(r, q)
  BY DEF Saved
<1>. HIDE DEF q
<1>3. req'[r] = q /\ \A p \in Requests : p # r => req'[p] = req[p]
  BY <1>2, OneMove
<1>4. /\ Finalizing' = Finalizing \ {r} /\ \A p \in Finalizing' : req'[p] = req[p]
      /\ \A p \in Requests : req'[p].at \in {"collected", "past"} => p # r /\ req'[p] = req[p]
  BY <1>1, <1>3 DEF Finalizing
<1>5. DoneClasses' = DoneClasses \cup {c} /\ \A d \in Classes : done'[d] => done[d] \/ d = c
  BY DEF DoneClasses, Saved
<1>6. \A s \in Students : mark'[c][s] # "none"
  BY DEF RosterInv, Saved
<1>7. \A d \in Classes, s \in Students : mark[d][s] # "none" => mark'[d][s] # "none"
  BY DEF Saved
<1>8. \A p \in Requests : req[p].class \subseteq Classes
  BY DEF RequestTypes, Shape, Request
<1>9. RosterInv'
  BY <1>4, <1>5, <1>6, <1>7, <1>8 DEF RosterInv
<1>. QED
  BY <1>4, <1>5, <1>9

LEMMA CountStep ==
  ASSUME RecordTypes, RequestTypes, RosterInv, CountInv, [Next]_vars PROVE RosterInv' /\ CountInv'
<1>0. Plain \in SUBSET Classes /\ DoneClasses \in SUBSET Classes
  BY DEF Plain, DoneClasses
<1>1. ASSUME NEW r \in Requests, NEW c \in Classes, FinalizeRead(r, c) PROVE RosterInv' /\ CountInv'
  <2>. DEFINE q == Fresh("finalize", {c}, 0, {}, FALSE, {})
  <2>1. /\ Set(r, q) /\ UNCHANGED <<done, mark, conducted, byHand>> /\ ~done[c] /\ req[r].at = "idle"
        /\ overlapped' = overlapped \cup IF Finalizing = {} THEN {} ELSE InFlight \cup {c}
    BY <1>1, FromIdle, IdleShape DEF FinalizeRead, MayFinalize
  <2>2. q.at = "finalize" /\ q.class = {c}
    BY DEF Fresh
  <2>. HIDE DEF q
  <2>3. RosterInv'
    BY <2>1, <2>2, RosterKept DEF MarksStay
  <2>4. /\ req'[r] = q /\ r \notin Finalizing /\ \A p \in Finalizing : req'[p] = req[p]
        /\ Finalizing' = Finalizing \cup {r}
    BY <2>1, <2>2, OneMove DEF Finalizing
  <2>5. /\ DoneClasses' = DoneClasses /\ Plain' \in SUBSET Plain /\ overlapped \subseteq overlapped'
        /\ overlapped' = {} => Plain' = Plain
    BY <2>1 DEF DoneClasses, Plain
  <2>6. Cardinality(Plain') \in Nat /\ Cardinality(Plain') <= Cardinality(Plain) /\ Cardinality(Plain) \in Nat
    BY <1>0, <2>5, SomeClasses
  <2>7. Apart'
    <3>1. \A p \in Finalizing : req[p].class \subseteq overlapped' /\ c \in overlapped'
      BY <2>1 DEF InFlight
    <3>. QED
      BY <2>2, <2>4, <3>1 DEF Apart
  <2>8. Cardinality(Plain') <= conducted'
    BY <2>1, <2>6 DEF CountInv, RecordTypes
  <2>9. ASSUME NEW p \in Finalizing', req'[p].at = "collected" PROVE Cardinality(Plain') <= req'[p].plan
    <3>1. p \in Finalizing /\ req'[p] = req[p]
      BY <2>2, <2>4, <2>9
    <3>2. req[p].plan \in Nat
      BY <3>1 DEF RequestTypes, Shape, Request, Finalizing
    <3>. QED
      BY <2>6, <2>9, <3>1, <3>2 DEF CountInv
  <2>10. ASSUME overlapped' = {} PROVE Exact'
    <3>1. Exact /\ Finalizing = {}
      BY <2>1, <2>10 DEF CountInv
    <3>. QED
      BY <2>1, <2>2, <2>4, <2>5, <2>10, <3>1 DEF Exact
  <2>. QED
    BY <2>1, <2>3, <2>5, <2>7, <2>8, <2>9, <2>10 DEF CountInv
<1>2. ASSUME NEW r \in Requests, FinalizeCollect(r) PROVE RosterInv' /\ CountInv'
  <2>. DEFINE M == Students \ Roster(req[r].class)
              q == [req[r] EXCEPT !.at = "collected", !.plan = conducted, !.missing = M]
  <2>1. /\ req[r].at = "finalize" /\ Set(r, q) /\ UNCHANGED <<done, mark, conducted, completions>>
        /\ req[r] \in Request
    BY <1>2 DEF FinalizeCollect, records, RequestTypes, Shape
  <2>2. q.at = "collected" /\ q.class = req[r].class /\ q.plan = conducted /\ q.missing = M
    BY <2>1 DEF Request
  <2>. HIDE DEF q
  <2>3. RosterInv'
    BY <2>1, <2>2, RosterCollected
  <2>4. /\ req'[r] = q /\ \A p \in Finalizing : p # r => req'[p] = req[p]
        /\ Finalizing' = Finalizing /\ r \in Finalizing
        /\ DoneClasses' = DoneClasses /\ byHand' = byHand /\ overlapped' = overlapped /\ Plain' = Plain
    BY <2>1, <2>2, OneMove DEF Finalizing, DoneClasses, Plain, completions
  <2>5. Apart'
    BY <2>2, <2>4 DEF CountInv, Apart
  <2>6. \A p \in Finalizing' : req'[p].at = "collected" => Cardinality(Plain') <= req'[p].plan
    BY <2>2, <2>4 DEF CountInv
  <2>7. ASSUME overlapped = {} PROVE Exact'
    <3>1. Exact
      BY <2>7 DEF CountInv
    <3>. QED
      BY <2>1, <2>2, <2>4, <3>1 DEF Exact
  <2>. QED
    BY <2>1, <2>3, <2>4, <2>5, <2>6, <2>7 DEF CountInv
<1>3. ASSUME NEW r \in Requests, FinalizeCommit(r) PROVE RosterInv' /\ CountInv'
  <2>1. /\ req[r].at = "collected" /\ SaveClass(r) /\ UNCHANGED <<byHand, overlapped>>
        /\ conducted' = req[r].plan + 1 /\ req[r].plan \in Nat /\ r \in Finalizing
    BY <1>3 DEF FinalizeCommit, completions, RequestTypes, Shape, Request, Finalizing
  <2>2. PICK c \in Classes : Saved(r, c) /\ req[r].class = {c} /\ done' = [d \in Classes |-> done[d] \/ d = c]
    BY <2>1, SavesClass DEF Saved
  <2>3. /\ RosterInv' /\ DoneClasses' = DoneClasses \cup {c}
        /\ Finalizing' = Finalizing \ {r} /\ \A p \in Finalizing' : req'[p] = req[p]
    BY <2>1, <2>2, SavedCounts
  <2>4. Plain' = Plain \cup ({c} \ (byHand \cup overlapped))
    BY <2>1, <2>3 DEF Plain
  <2>5. /\ Cardinality(Plain) \in Nat /\ Cardinality(Plain') \in Nat
        /\ Plain' # Plain => Cardinality(Plain') = Cardinality(Plain) + 1
    <3>1. CASE c \in Plain \/ c \in byHand \cup overlapped
      BY <1>0, <2>4, <3>1, SomeClasses
    <3>2. CASE c \notin Plain /\ c \notin byHand \cup overlapped
      <4>1. Plain' = Plain \cup {c}
        BY <2>4, <3>2
      <4>. QED
        BY <1>0, <3>2, <4>1, SomeClasses
    <3>. QED
      BY <3>1, <3>2
  <2>6. Cardinality(Plain') <= conducted'
    <3>1. Cardinality(Plain) <= req[r].plan
      BY <2>1 DEF CountInv
    <3>. QED
      BY <2>1, <2>5, <3>1
  <2>7. Apart'
    BY <2>1, <2>3 DEF CountInv, Apart
  <2>8. ASSUME NEW p \in Finalizing', req'[p].at = "collected" PROVE Cardinality(Plain') <= req'[p].plan
    <3>1. p \in Finalizing /\ p # r /\ req'[p] = req[p]
      BY <2>3
    <3>2. c \in overlapped
      BY <2>1, <2>2, <3>1 DEF CountInv, Apart
    <3>3. Plain' = Plain
      BY <2>4, <3>2
    <3>. QED
      BY <2>8, <3>1, <3>3 DEF CountInv
  <2>9. ASSUME overlapped' = {} PROVE Exact'
    <3>1. Exact /\ ~done[c] /\ req[r].plan = conducted
      BY <2>1, <2>2, <2>9 DEF CountInv, Exact
    <3>2. c \notin byHand /\ c \notin Plain
      BY <3>1 DEF CountInv, DoneClasses, Plain
    <3>3. Plain' = Plain \cup {c}
      BY <2>1, <2>4, <2>9, <3>2
    <3>4. Plain' # Plain
      BY <3>2, <3>3
    <3>5. conducted' = Cardinality(Plain')
      BY <2>1, <2>5, <3>1, <3>4 DEF Exact
    <3>6. Finalizing' = {}
      <4>1. ASSUME NEW p \in Finalizing, p # r PROVE FALSE
        BY <2>1, <2>2, <2>9, <4>1 DEF CountInv, Apart
      <4>. QED
        BY <2>3, <4>1
    <3>. QED
      BY <3>5, <3>6 DEF Exact
  <2>10. byHand' \subseteq DoneClasses'
    BY <2>1, <2>3 DEF CountInv
  <2>. QED
    BY <2>3, <2>6, <2>7, <2>8, <2>9, <2>10 DEF CountInv
<1>3a. ASSUME NEW r \in Requests, PastCommit(r) PROVE RosterInv' /\ CountInv'
  <2>1. /\ req[r].at = "past" /\ SaveClass(r) /\ r \notin Finalizing /\ conducted' = conducted
        /\ byHand' = byHand \cup {d \in req[r].class : ~done[d]}
        /\ overlapped' = overlapped \cup (req[r].class \cap InFlight)
    BY <1>3a DEF PastCommit, Finalizing
  <2>2. PICK c \in Classes : Saved(r, c) /\ req[r].class = {c} /\ done' = [d \in Classes |-> done[d] \/ d = c]
    BY <2>1, SavesClass DEF Saved
  <2>3. /\ RosterInv' /\ DoneClasses' = DoneClasses \cup {c}
        /\ Finalizing' = Finalizing \ {r} /\ \A p \in Finalizing' : req'[p] = req[p]
    BY <2>1, <2>2, SavedCounts
  <2>4. Finalizing' = Finalizing /\ overlapped \subseteq overlapped'
    BY <2>1, <2>3
  <2>5. Plain' \in SUBSET Plain /\ (overlapped' = {} => Plain' = Plain)
    <3>1. c \in DoneClasses \/ c \in byHand'
      BY <2>1, <2>2 DEF DoneClasses
    <3>2. byHand \subseteq byHand' /\ byHand' \cap DoneClasses \subseteq byHand
      BY <2>1 DEF DoneClasses
    <3>. QED
      BY <2>3, <2>4, <3>1, <3>2 DEF Plain
  <2>6. Cardinality(Plain') \in Nat /\ Cardinality(Plain') <= Cardinality(Plain) /\ Cardinality(Plain) \in Nat
    BY <1>0, <2>5, SomeClasses
  <2>7. Apart'
    BY <2>3, <2>4 DEF CountInv, Apart
  <2>8. Cardinality(Plain') <= conducted'
    BY <2>1, <2>6 DEF CountInv, RecordTypes
  <2>9. ASSUME NEW p \in Finalizing', req'[p].at = "collected" PROVE Cardinality(Plain') <= req'[p].plan
    <3>1. p \in Finalizing /\ req'[p] = req[p]
      BY <2>3, <2>4
    <3>2. req[p].plan \in Nat
      BY <3>1 DEF RequestTypes, Shape, Request, Finalizing
    <3>. QED
      BY <2>6, <2>9, <3>1, <3>2 DEF CountInv
  <2>10. ASSUME overlapped' = {} PROVE Exact'
    <3>1. Exact /\ c \notin InFlight
      BY <2>1, <2>2, <2>10 DEF CountInv
    <3>2. \A p \in Finalizing : c \notin req[p].class /\ req[p].class \subseteq Classes
      BY <3>1 DEF InFlight, RequestTypes, Shape, Request, Finalizing
    <3>3. \A p \in Finalizing : \A d \in req[p].class : ~done'[d]
      BY <2>2, <3>1, <3>2 DEF Exact
    <3>. QED
      BY <2>1, <2>3, <2>4, <2>5, <2>10, <3>1, <3>3 DEF Exact
  <2>11. byHand' \subseteq DoneClasses'
    BY <2>1, <2>2, <2>3 DEF CountInv
  <2>. QED
    BY <2>3, <2>7, <2>8, <2>9, <2>10, <2>11 DEF CountInv
<1>3b. ASSUME NEW r \in Requests, NEW c \in Classes, NEW s \in Students, NEW v \in {"pass", "miss"},
              PastRead(r, c, s, v)
       PROVE  RosterInv' /\ CountInv'
  <2>1. PICK q : PastReading(r, c, q)
    BY <1>3b, PastReads
  <2>. QED
    BY <2>1, RosterCollected, CountLeft DEF PastReading
<1>4. ASSUME NEW r \in Requests, NEW c \in Classes, NEW s \in Students, NEW v \in {"pass", "miss"},
             ChangeMark(r, c, s, v)
      PROVE  RosterInv' /\ CountInv'
  <2>1. /\ Set(r, Fresh("saved", {c}, 0, {}, FALSE, {}))
        /\ UNCHANGED <<done, conducted, completions>> /\ MarksStay
    BY <1>4, FromIdle DEF ChangeMark, MarksStay, RecordTypes
  <2>2. Fresh("saved", {c}, 0, {}, FALSE, {}).at = "saved"
    BY DEF Fresh
  <2>. QED
    BY <2>1, <2>2, RosterKept, CountLeft
<1>5. ASSUME NEW c \in Classes, NEW s \in Students, Attend(c, s) PROVE RosterInv' /\ CountInv'
  <2>1. MarksStay /\ UNCHANGED <<done, conducted, completions, req>>
    BY <1>5 DEF Attend, MarksStay, RecordTypes
  <2>2. \A p \in Requests : req[p].class \subseteq Classes
    BY DEF RequestTypes, Shape, Request
  <2>3. RosterInv'
    BY <2>1, <2>2 DEF RosterInv, MarksStay
  <2>4. Finalizing' = Finalizing
    BY <2>1 DEF Finalizing
  <2>. QED
    BY <2>1, <2>3, <2>4, CountKept
<1>6. ASSUME NEW r \in Requests, NEW q, Set(r, q), q.at \notin {"finalize", "collected", "past"},
             UNCHANGED records
      PROVE  RosterInv' /\ CountInv'
  BY <1>6, RosterKept, CountLeft DEF records, MarksStay
<1>7. ASSUME NEW r \in Requests, EvaluationStarts(r) \/ RunEvaluations(r) PROVE RosterInv' /\ CountInv'
  <2>1. \A L : /\ [Idle EXCEPT !.at = "evaluate", !.mails = TRUE, !.left = L].at = "evaluate"
              /\ [Idle EXCEPT !.at = "evaluate", !.left = L].at = "evaluate"
    BY DEF Idle
  <2>. QED
    BY <1>6, <1>7, <2>1, IdleShape DEF EvaluationStarts, RunEvaluations
<1>8. ASSUME NEW r \in Requests, NEW q, Set(r, q), q.at = req[r].at, req[r].at = "evaluate", UNCHANGED records
      PROVE  RosterInv' /\ CountInv'
  BY <1>6, <1>8
<1>9. ASSUME NEW r \in Requests, NEW s, EvaluateSkip(r, s) \/ EvaluateStats(r, s) \/ EvaluateView(r)
      PROVE  RosterInv' /\ CountInv'
  <2>1. req[r] \in Request
    BY DEF RequestTypes, Shape
  <2>2. \A L, f : [req[r] EXCEPT !.left = L].at = req[r].at /\ [req[r] EXCEPT !.left = L, !.rate = f].at = req[r].at
                /\ [req[r] EXCEPT !.seen = f].at = req[r].at
    BY <2>1 DEF Request
  <2>. QED
    BY <1>8, <1>9, <2>2 DEF EvaluateSkip, EvaluateStats, EvaluateView
<1>10. ASSUME NEW r \in Requests, EvaluateCommit(r) \/ Fails(r) PROVE RosterInv' /\ CountInv'
  BY <1>6, <1>10, IdleShape DEF EvaluateCommit, Fails
<1>11. ASSUME UNCHANGED <<records, req>> PROVE RosterInv' /\ CountInv'
  <2>1. RosterInv' /\ Finalizing' = Finalizing
    BY <1>11 DEF RosterInv, Finalizing, records
  <2>. QED
    BY <1>11, <2>1, CountKept DEF records
<1>12. \/ \E r \in Requests : Attendance(r) \/ Evaluation(r)
       \/ \E c \in Classes, s \in Students : Attend(c, s)
       \/ UNCHANGED <<records, req>>
  BY DEF Next, SetCase, ScopeEnds, vars
<1>13. ASSUME NEW r \in Requests, Attendance(r) PROVE RosterInv' /\ CountInv'
  BY <1>1, <1>2, <1>3, <1>3a, <1>3b, <1>4, <1>13 DEF Attendance
<1>14. ASSUME NEW r \in Requests, Evaluation(r) PROVE RosterInv' /\ CountInv'
  BY <1>7, <1>9, <1>10, <1>14 DEF Evaluation
<1>. QED
  BY <1>5, <1>11, <1>12, <1>13, <1>14

-----------------------------------------------------------------------------
(* Mails. An alert opened with its mail is never seen without one.           *)

Viewers(s, a) == {r \in Requests : s \in Seen(r) /\ a \in req[r].seen[s].unmailed}

MailInv ==
  \A s \in Students : \A a \in DOMAIN alert[s] :
    ~alert[s][a].quiet => alert[s][a].mails = 1 /\ Viewers(s, a) = {}

LEMMA MailInit == Init => MailInv
BY DEF Init, MailInv

LEMMA MailStep ==
  ASSUME RequestTypes, FollowTypes, OneInv, MailInv, [Next]_vars PROVE MailInv'
<1>1. CASE alert' = alert
  <2>. SUFFICES ASSUME NEW s \in Students, NEW a \in DOMAIN alert[s], ~alert[s][a].quiet
                PROVE  alert[s][a].mails = 1 /\ Viewers(s, a)' = {}
    BY <1>1 DEF MailInv
  <2>1. alert[s][a].mails = 1 /\ Viewers(s, a) = {}
    BY DEF MailInv
  <2>2. a \notin View1(s).unmailed
    BY <2>1 DEF View1, Unmailed
  <2>3. Viewers(s, a)' \subseteq Viewers(s, a)
    BY <2>2, ReadingStep DEF Kept, Viewers, Seen
  <2>. QED
    BY <2>1, <2>3
<1>2. ASSUME NEW r \in Requests, EvaluateCommit(r) PROVE MailInv'
  <2>1. /\ req'[r] = Idle /\ \A p \in Requests : p # r => req'[p] = req[p]
        /\ \A s \in Students : alert'[s] = IF s \in Seen(r) THEN Alerts(r, s) ELSE alert[s]
    BY <1>2, OneMove DEF EvaluateCommit
  <2>2. ASSUME NEW s, NEW a PROVE Viewers(s, a)' \subseteq Viewers(s, a)
    <3>1. \A p \in Requests : s \in Seen(p)' => p # r
      BY <2>1, NothingRead DEF Seen
    <3>. QED
      BY <2>1, <3>1 DEF Viewers, Seen
  <2>3. ASSUME NEW s \in Students, NEW a \in DOMAIN alert[s], ~alert'[s][a].quiet
        PROVE  alert'[s][a].mails = 1 /\ Viewers(s, a)' = {}
    <3>1. CASE s \notin Seen(r)
      <4>1. alert'[s] = alert[s]
        BY <2>1, <3>1
      <4>. QED
        BY <2>2, <2>3, <4>1 DEF MailInv
    <3>2. CASE s \in Seen(r)
      <4>1. alert'[s] = Alerts(r, s)
        BY <2>1, <3>2
      <4>2. alert'[s][a] = AlertAfter(r, s, a)
        BY <4>1, AlertKept, Zenon
      <4>3. ~alert[s][a].quiet
        BY <2>3, <4>2, AlertAfterQuiet, Zenon
      <4>4. alert[s][a].mails = 1 /\ Viewers(s, a) = {}
        BY <4>3, Zenon DEF MailInv
      <4>5. ~(a \in req[r].seen[s].alert /\ Mails(r, s))
        BY <3>2, <4>4 DEF Viewers, Mails
      <4>6. alert'[s][a].mails = 1
        BY <4>2, <4>4, <4>5, AlertAfterType DEF Sent
      <4>. QED
        BY <2>2, <4>4, <4>6
    <3>. QED
      BY <3>1, <3>2
  <2>4. ASSUME NEW s \in Students, NEW a \in DOMAIN alert'[s], a \notin DOMAIN alert[s], ~alert'[s][a].quiet
        PROVE  alert'[s][a].mails = 1 /\ Viewers(s, a)' = {}
    <3>0. alert'[s] = Alerts(r, s)
      BY <2>1, <2>4
    <3>1. alert'[s][a] = NewAlert(r, s)
      <4>1. a \in DOMAIN Alerts(r, s) \ DOMAIN alert[s]
        BY <2>4, <3>0, Zenon
      <4>2. Alerts(r, s)[a] = NewAlert(r, s)
        BY <4>1, AlertAdded
      <4>. QED
        BY <3>0, <4>2, Zenon
    <3>2. Viewers(s, a)' = {}
      BY <2>2, <2>4 DEF Viewers, OneInv
    <3>3. /\ NewAlert(r, s).mails = Sent(r, s) /\ NewAlert(r, s).quiet = (Sent(r, s) = 0)
          /\ Sent(r, s) \in {0, 1}
      BY DEF NewAlert, Sent
    <3>4. Sent(r, s) # 0
      BY <2>4, <3>1, <3>3
    <3>. QED
      BY <3>1, <3>2, <3>3, <3>4
  <2>. QED
    BY <2>3, <2>4 DEF MailInv
<1>. QED
  BY <1>1, <1>2, OnlyCommit

-----------------------------------------------------------------------------
(* Alerts and rates. A student's alert follows his rate, or an evaluation of *)
(* him is due, or his last one went wrong.                                   *)

Total(s) == Recorded(s, {"pass", "miss"})

\* who has an alert, or has been found low, has been observed often enough
RateInv ==
  \A s \in Students :
    /\ Active(s) # {} => Cardinality(Total(s)) >= MinObs
    /\ \A r \in Requests : s \in Read(r) /\ req[r].rate[s] = "low" => Cardinality(Total(s)) >= MinObs

TrackInv ==
  \A s \in Students :
    \/ s \in doubt
    \/ \E r \in Requests : s \in Due(r)
    \/ Active(s) # {} <=> Rate(s) = "low"

\* records are not withdrawn and classes not reopened
RecordsGrow == MarksStay /\ \A c \in Classes : done[c] => done'[c]

LEMMA Growing == RecordTypes /\ RequestTypes /\ [Next]_vars => RecordsGrow
<1>. SUFFICES ASSUME RecordTypes, RequestTypes, [Next]_vars PROVE RecordsGrow
  OBVIOUS
<1>1. ASSUME NEW c \in Classes, NEW s \in Students, NEW v \in {"pass", "miss"},
             mark' = [mark EXCEPT ![c][s] = v], UNCHANGED done
      PROVE  RecordsGrow
  BY <1>1 DEF RecordsGrow, MarksStay, RecordTypes
<1>2. ASSUME NEW r \in Requests, FinalizeCommit(r) \/ PastCommit(r) PROVE RecordsGrow
  <2>1. req[r].at \in {"collected", "past"} /\ SaveClass(r)
    BY <1>2 DEF FinalizeCommit, PastCommit
  <2>. QED
    BY <2>1, SavesClass DEF Saved, RecordsGrow, MarksStay
<1>3. ASSUME UNCHANGED <<done, mark>> PROVE RecordsGrow
  BY <1>3 DEF RecordsGrow, MarksStay
<1>4. ASSUME NEW r \in Requests, Attendance(r) PROVE RecordsGrow
  BY <1>1, <1>2, <1>3, <1>4 DEF Attendance, FinalizeRead, FinalizeCollect, PastRead, ChangeMark, records
<1>5. ASSUME NEW r \in Requests, Evaluation(r) PROVE RecordsGrow
  BY <1>3, <1>5 DEF Evaluation, EvaluationStarts, RunEvaluations, EvaluateSkip, EvaluateStats,
    EvaluateView, EvaluateCommit, Fails, records
<1>. QED
  BY <1>1, <1>3, <1>4, <1>5 DEF Next, Attend, ScopeEnds, SetCase, records, vars

LEMMA TotalGrows ==
  ASSUME RecordTypes, RecordTypes', RecordsGrow, NEW s \in Students
  PROVE  /\ Cardinality(Total(s)) \in Nat /\ Cardinality(Total(s)') \in Nat
         /\ Cardinality(Total(s)) <= Cardinality(Total(s)')
<1>1. Total(s) \subseteq Total(s)'
  BY DEF RecordTypes, RecordsGrow, MarksStay, Total, Recorded
<1>2. IsFiniteSet(Classes)
  BY FollowUpAssumption, Zenon
<1>3. IsFiniteSet(Total(s)')
  BY <1>2, FS_Subset DEF Total, Recorded
<1>4. IsFiniteSet(Total(s))
  BY <1>2, FS_Subset DEF Total, Recorded
<1>. QED
  BY <1>1, <1>3, <1>4, FS_Subset, FS_CardinalityType

LEMMA RateMeans ==
  ASSUME NEW s
  PROVE  /\ Rate(s) = "low" => Cardinality(Total(s)) >= MinObs
         /\ Rate(s) = "few" => ~(Cardinality(Total(s)) >= MinObs)
BY DEF Rate, Total

LEMMA TrackInit == Init => RateInv /\ TrackInv
<1>. SUFFICES ASSUME Init PROVE RateInv /\ TrackInv
  OBVIOUS
<1>1. \A s \in Students : Active(s) = {} /\ Total(s) = {}
  BY DEF Init, Active, Total, Recorded
<1>2. \A s \in Students : Rate(s) # "low"
  <2>1. MinObs \in Nat /\ ~(0 >= MinObs)
    BY FollowUpAssumption
  <2>2. \A s \in Students : Cardinality(Total(s)) = 0
    BY <1>1, FS_EmptySet
  <2>. QED
    BY <2>1, <2>2 DEF Rate, Total
<1>3. \A r \in Requests : Read(r) = {}
  BY NothingRead DEF Init, Read
<1>. QED
  BY <1>1, <1>2, <1>3 DEF RateInv, TrackInv

LEMMA RateStep ==
  ASSUME RecordTypes, RecordTypes', RequestTypes, FollowTypes, OneInv, RateInv, [Next]_vars
  PROVE  RateInv'
<1>1. ASSUME NEW s \in Students PROVE Cardinality(Total(s)) >= MinObs => Cardinality(Total(s)') >= MinObs
  <2>1. MinObs \in Nat
    BY FollowUpAssumption
  <2>. QED
    BY <2>1, Growing, TotalGrows
<1>2. ASSUME NEW s \in Students, Active(s)' # {} PROVE Cardinality(Total(s)') >= MinObs
  <2>1. CASE alert' = alert
    BY <1>1, <1>2, <2>1 DEF Active, RateInv
  <2>2. ASSUME NEW r \in Requests, EvaluateCommit(r) PROVE Cardinality(Total(s)') >= MinObs
    <3>1. CASE s \in Seen(r) /\ Opens(r, s)
      BY <1>1, <3>1, ReadStudents DEF Opens, RateInv
    <3>2. CASE ~(s \in Seen(r) /\ Opens(r, s))
      BY <1>1, <1>2, <2>2, <3>2, ActiveAfter DEF RateInv
    <3>. QED
      BY <3>1, <3>2
  <2>. QED
    BY <2>1, <2>2, OnlyCommit
<1>3. ASSUME NEW s \in Students, NEW r \in Requests, s \in Read(r)', req'[r].rate[s] = "low"
      PROVE  Cardinality(Total(s)') >= MinObs
  <2>1. (s \in Read(r) /\ req[r].rate[s] = "low") \/ Rate(s) = "low"
    BY <1>3, ReadingStep DEF Kept, Read
  <2>. QED
    BY <1>1, <2>1, RateMeans DEF RateInv
<1>. QED
  BY <1>2, <1>3 DEF RateInv

Tracked(s) == (Active(s) # {}) <=> (Rate(s) = "low")

\* a request that goes on as it was owes the same evaluations at least
LEMMA DueKept ==
  ASSUME RequestTypes, RecordsGrow, NEW p \in Requests, req'[p] = req[p] PROVE Due(p) \subseteq Due(p)'
<1>1. req[p].class \subseteq Classes
  BY DEF RequestTypes, Shape, Request
<1>2. Roster({c \in req[p].class : done[c]}) \subseteq Roster({c \in req[p].class : done[c]})'
  BY <1>1 DEF Roster, RecordsGrow, MarksStay
<1>. QED
  BY <1>2 DEF Due, Read

\* before it has saved anything a request owes none
LEMMA NothingDue ==
  ASSUME RequestTypes, NEW r \in Requests, req[r].at \notin {"saved", "evaluate"} PROVE Due(r) = {}
BY DEF RequestTypes, Shape, Due

\* what a request has saved and not begun to evaluate
DoneOf(C) == {c \in C : done[c]}

LEMMA SavedDue ==
  ASSUME NEW r, Shape(req[r]), req[r].at = "saved"
  PROVE  Due(r) = Roster(DoneOf(req[r].class))
<1>1. req[r].mails = FALSE
  BY DEF Shape
<1>. QED
  BY <1>1 DEF Due, DoneOf

LEMMA SavedDueNext ==
  ASSUME NEW r, Shape(req'[r]), req'[r].at = "saved"
  PROVE  Due(r)' = Roster(DoneOf(req[r].class))'
<1>1. req'[r].mails = FALSE
  BY DEF Shape
<1>. QED
  BY <1>1 DEF Due, DoneOf

\* an evaluation owes those it has not evaluated, if it mails
LEMMA EvaluationDue ==
  ASSUME NEW r, req[r].at = "evaluate"
  PROVE  Due(r) = IF req[r].mails THEN req[r].left \cup Read(r) ELSE {}
BY DEF Due

\* one request moves and leaves the alerts alone
LEMMA TrackKept ==
  ASSUME RequestTypes, RecordsGrow, TrackInv, alert' = alert, NEW r \in Requests, NEW q, Set(r, q),
         NEW s \in Students, doubt \subseteq doubt',
         s \in Due(r) => s \in Due(r)' \cup doubt',
         Rate(s)' = Rate(s) \/ s \in Due(r)'
  PROVE  s \in doubt' \/ (\E p \in Requests : s \in Due(p)') \/ Tracked(s)'
<1>1. \A p \in Requests : p # r => req'[p] = req[p]
  BY OneMove
<1>2. \A p \in Requests : p # r => Due(p) \subseteq Due(p)'
  BY <1>1, DueKept
<1>3. Active(s)' = Active(s)
  BY DEF Active
<1>4. s \in doubt \/ (\E p \in Requests : s \in Due(p)) \/ Tracked(s)
  BY Zenon DEF TrackInv, Tracked
<1>5. CASE s \in Due(r)'
  BY <1>5
<1>6. CASE Rate(s)' = Rate(s)
  BY <1>2, <1>3, <1>4, <1>6 DEF Tracked
<1>. QED
  BY <1>5, <1>6

\* the rate of a student depends on the finalized classes alone
LEMMA RateKept ==
  ASSUME NEW s \in Students,
         \A c \in Classes : (done'[c] <=> done[c]) /\ (done[c] => mark'[c][s] = mark[c][s])
  PROVE  Rate(s)' = Rate(s)
<1>1. \A v : Recorded(s, v)' = Recorded(s, v)
  BY DEF Recorded
<1>. QED
  BY <1>1 DEF Rate

LEMMA RateStays == ASSUME UNCHANGED records, NEW s \in Students PROVE Rate(s)' = Rate(s)
BY RateKept DEF records

\* what an evaluation leaves to a student it has seen as he was
LEMMA CommitTracks ==
  ASSUME RequestTypes, FollowTypes, RateInv, NEW r \in Requests, EvaluateCommit(r),
         NEW s \in Students, s \in Seen(r), UpToDate(r, s)
  PROVE  Tracked(s)'
<1>1. Rate(s)' = Rate(s) /\ req[r].rate[s] = Rate(s) /\ req[r].seen[s].alert = Active(s)
  BY RateStays DEF EvaluateCommit, UpToDate
<1>2. CASE Rate(s) = "low"
  BY <1>1, <1>2, ActiveAfter DEF Tracked, Opens, Resolves
<1>3. CASE Rate(s) = "good"
  BY <1>1, <1>3, ActiveAfter DEF Tracked, Opens, Resolves
<1>4. CASE Rate(s) = "few"
  <2>1. Active(s) = {}
    BY <1>4, RateMeans DEF RateInv
  <2>. QED
    BY <1>1, <1>4, <2>1, ActiveAfter DEF Tracked, Opens, Resolves
<1>. QED
  BY <1>2, <1>3, <1>4, RateType

LEMMA TrackStep ==
  ASSUME RecordTypes, RequestTypes, RequestTypes', FollowTypes, OneInv, RateInv, RosterInv, RosterInv',
         TrackInv, [Next]_vars
  PROVE  TrackInv'
<1>. DEFINE Fine(s) == s \in doubt' \/ (\E p \in Requests : s \in Due(p)') \/ Tracked(s)'
<1>g. RecordsGrow
  BY Growing
<1>f. (\A s \in Students : Fine(s)) => TrackInv'
  BY DEF TrackInv, Tracked
<1>1. ASSUME NEW r \in Requests, NEW s \in Students,
             \/ \E c \in Classes : FinalizeRead(r, c)
             \/ FinalizeCollect(r) \/ RunEvaluations(r)
             \/ \E c \in Classes, t \in Students, v \in {"pass", "miss"} : PastRead(r, c, t, v)
      PROVE  Fine(s)
  <2>1. /\ alert' = alert /\ doubt' = doubt /\ (\E q : Set(r, q)) /\ req[r].at \in {"idle", "finalize"}
        /\ UNCHANGED <<done, mark>>
    BY <1>1, IdleShape DEF FinalizeRead, FinalizeCollect, RunEvaluations, PastRead, records, followups
  <2>2. Due(r) = {} /\ Rate(s)' = Rate(s)
    BY <2>1, NothingDue, RateKept
  <2>. QED
    BY <1>g, <2>1, <2>2, TrackKept
<1>2. ASSUME NEW r \in Requests, FinalizeCommit(r) \/ PastCommit(r), NEW s \in Students PROVE Fine(s)
  <2>1. req[r].at \in {"collected", "past"} /\ SaveClass(r)
    BY <1>2 DEF FinalizeCommit, PastCommit
  <2>2. PICK c \in Classes : Saved(r, c) /\ req[r].class = {c}
    BY <2>1, SavesClass DEF Saved
  <2>3. Set(r, Fresh("saved", {c}, 0, {}, FALSE, {})) /\ done'[c]
    BY <2>2 DEF Saved
  <2>4. req'[r].at = "saved" /\ req'[r].class = {c}
    BY <2>3, OneMove DEF Fresh
  <2>5. mark'[c][s] # "none"
    BY <2>3 DEF RosterInv
  <2>6. Due(r)' = Roster(DoneOf(req[r].class))' /\ DoneOf(req[r].class)' = {c}
    BY <2>3, <2>4, SavedDueNext DEF DoneOf, RequestTypes
  <2>. QED
    BY <2>5, <2>6 DEF Roster
<1>3. ASSUME NEW r \in Requests, NEW c \in Classes, NEW t \in Students, NEW v \in {"pass", "miss"},
             ChangeMark(r, c, t, v), NEW s \in Students
      PROVE  Fine(s)
  <2>1. /\ alert' = alert /\ doubt' = doubt /\ req[r].at = "idle" /\ done' = done
        /\ mark' = [mark EXCEPT ![c][t] = v]
        /\ Set(r, Fresh("saved", {c}, 0, {}, FALSE, {}))
    BY <1>3, IdleShape, FromIdle DEF ChangeMark, followups
  <2>2. req'[r].at = "saved" /\ req'[r].class = {c}
    BY <2>1, OneMove DEF Fresh
  <2>3. CASE s = t /\ done[c]
    <3>1. mark'[c][s] # "none"
      BY <2>1, <2>3 DEF RecordTypes
    <3>2. Due(r)' = Roster(DoneOf(req[r].class))' /\ DoneOf(req[r].class)' = {c}
      BY <2>1, <2>2, <2>3, SavedDueNext DEF DoneOf, RequestTypes
    <3>. QED
      BY <3>1, <3>2 DEF Roster
  <2>4. CASE ~(s = t /\ done[c])
    <3>1. Rate(s)' = Rate(s)
      BY <2>1, <2>4, RateKept DEF RecordTypes
    <3>2. Due(r) = {}
      BY <2>1, NothingDue
    <3>. QED
      BY <1>g, <2>1, <3>1, <3>2, TrackKept
  <2>. QED
    BY <2>3, <2>4
<1>4. ASSUME NEW c \in Classes, NEW t \in Students, Attend(c, t), NEW s \in Students PROVE Fine(s)
  <2>1. /\ UNCHANGED <<alert, doubt, req, done>> /\ ~done[c] /\ mark' = [mark EXCEPT ![c][t] = "pass"]
    BY <1>4 DEF Attend, followups
  <2>2. Rate(s)' = Rate(s) /\ Active(s)' = Active(s)
    BY <2>1, RateKept DEF RecordTypes, Active
  <2>3. \A p \in Requests : Due(p) \subseteq Due(p)'
    BY <1>g, <2>1, DueKept
  <2>4. s \in doubt \/ (\E p \in Requests : s \in Due(p)) \/ Tracked(s)
    BY Zenon DEF TrackInv, Tracked
  <2>. QED
    BY <2>1, <2>2, <2>3, <2>4 DEF Tracked
<1>5. ASSUME NEW r \in Requests, EvaluationStarts(r), NEW s \in Students PROVE Fine(s)
  <2>1. Shape(req[r]) /\ req[r].at = "saved"
    BY <1>5 DEF EvaluationStarts, RequestTypes
  <2>2. PICK c \in Classes : req[r].class = {c}
    BY <2>1 DEF Shape
  <2>3. alert' = alert /\ doubt' = doubt /\ (\E q : Set(r, q)) /\ Rate(s)' = Rate(s)
    BY <1>5, RateStays DEF EvaluationStarts, followups
  <2>4. s \in Due(r) => done[c] /\ s \in Roster({c})
    <3>1. Due(r) = Roster(DoneOf(req[r].class))
      BY <2>1, SavedDue
    <3>2. DoneOf(req[r].class) = IF done[c] THEN {c} ELSE {}
      BY <2>2 DEF DoneOf
    <3>. QED
      BY <3>1, <3>2 DEF Roster
  <2>5. ASSUME done[c] PROVE Due(r)' = Roster({c})
    <3>1. /\ req'[r].at = "evaluate" /\ req'[r].mails = TRUE /\ req'[r].left = Roster({c})
          /\ DOMAIN req'[r].rate = {}
      <4>1. Set(r, [Idle EXCEPT !.at = "evaluate", !.mails = TRUE, !.left = Roster({c})])
        BY <1>5, <2>2, <2>5 DEF EvaluationStarts
      <4>. DEFINE q == [Idle EXCEPT !.at = "evaluate", !.mails = TRUE, !.left = Roster({c})]
      <4>2. q.at = "evaluate" /\ q.left = Roster({c}) /\ q.rate = Idle.rate
        BY DEF Idle
      <4>3. q.mails = TRUE
        BY DEF Idle
      <4>4. Set(r, q)
        BY <4>1
      <4>. HIDE DEF q
      <4>5. req'[r] = q
        BY <4>4, OneMove
      <4>. QED
        BY <4>2, <4>3, <4>5, NothingRead
    <3>. QED
      BY <3>1 DEF Due, Read
  <2>. QED
    BY <1>g, <2>3, <2>4, <2>5, TrackKept
<1>6. ASSUME NEW r \in Requests, NEW t \in Students, EvaluateSkip(r, t), NEW s \in Students PROVE Fine(s)
  <2>. DEFINE q == [req[r] EXCEPT !.left = @ \ {t}]
  <2>1. /\ alert' = alert /\ doubt' = doubt \cup {t} /\ Set(r, q) /\ Rate(s)' = Rate(s)
        /\ req[r].at = "evaluate" /\ req[r] \in Request
    BY <1>6, RateStays DEF EvaluateSkip, RequestTypes, Shape
  <2>2. q.at = "evaluate" /\ q.mails = req[r].mails /\ q.left = req[r].left \ {t} /\ q.rate = req[r].rate
    BY <2>1 DEF Request
  <2>. HIDE DEF q
  <2>3. req'[r] = q
    BY <2>1, OneMove
  <2>4. s \in Due(r) => s \in Due(r)' \cup doubt'
    BY <2>1, <2>2, <2>3 DEF Due, Read
  <2>. QED
    BY <1>g, <2>1, <2>4, TrackKept
<1>7. ASSUME NEW r \in Requests, NEW t \in Students, EvaluateStats(r, t), NEW s \in Students PROVE Fine(s)
  <2>. DEFINE f == [u \in Read(r) \cup {t} |-> IF u = t THEN Rate(t) ELSE req[r].rate[u]]
              q == [req[r] EXCEPT !.left = @ \ {t}, !.rate = f]
  <2>0. req[r] \in Request
    BY DEF RequestTypes, Shape
  <2>1. /\ alert' = alert /\ doubt' = doubt /\ Set(r, q) /\ Rate(s)' = Rate(s)
        /\ req[r].at = "evaluate"
    BY <1>7, <2>0, RateStays DEF EvaluateStats, Request, followups
  <2>2. DOMAIN f = Read(r) \cup {t}
    OBVIOUS
  <2>. HIDE DEF f
  <2>3. q.at = "evaluate" /\ q.mails = req[r].mails /\ q.left = req[r].left \ {t} /\ q.rate = f
    BY <2>0, <2>1 DEF Request
  <2>. HIDE DEF q
  <2>4. req'[r] = q
    BY <2>1, OneMove
  <2>5. s \in Due(r) => s \in Due(r)' \cup doubt'
    BY <2>1, <2>2, <2>3, <2>4 DEF Due, Read
  <2>. QED
    BY <1>g, <2>1, <2>5, TrackKept
<1>8. ASSUME NEW r \in Requests, EvaluateView(r), NEW s \in Students PROVE Fine(s)
  <2>0. req[r] \in Request
    BY DEF RequestTypes, Shape
  <2>1. PICK f : /\ Set(r, [req[r] EXCEPT !.seen = f]) /\ alert' = alert /\ doubt' = doubt
                 /\ Rate(s)' = Rate(s) /\ req[r].at = "evaluate"
    BY <1>8, <2>0, RateStays DEF EvaluateView, Request, followups
  <2>. DEFINE q == [req[r] EXCEPT !.seen = f]
  <2>2. q.at = "evaluate" /\ q.mails = req[r].mails /\ q.left = req[r].left /\ q.rate = req[r].rate
    BY <2>0, <2>1 DEF Request
  <2>3. Set(r, q)
    BY <2>1
  <2>. HIDE DEF q
  <2>4. req'[r] = q
    BY <2>3, OneMove
  <2>5. s \in Due(r) => s \in Due(r)' \cup doubt'
    BY <2>1, <2>2, <2>4 DEF Due, Read
  <2>. QED
    BY <1>g, <2>1, <2>3, <2>5, TrackKept
<1>9. ASSUME NEW r \in Requests, EvaluateCommit(r), NEW s \in Students PROVE Fine(s)
  <2>1. /\ Set(r, Idle) /\ Rate(s)' = Rate(s) /\ req[r].at = "evaluate" /\ req[r].left = {}
        /\ Read(r) = Seen(r)
        /\ doubt' = (doubt \ Seen(r)) \cup {t \in Seen(r) : ~UpToDate(r, t)}
    BY <1>9, RateStays DEF EvaluateCommit
  <2>2. CASE s \in Seen(r)
    BY <1>9, <2>1, <2>2, CommitTracks
  <2>3. CASE s \notin Seen(r)
    <3>1. Active(s)' = Active(s) /\ s \notin Due(r) /\ (s \in doubt => s \in doubt')
      BY <1>9, <2>1, <2>3, ActiveAfter, EvaluationDue
    <3>2. \A p \in Requests : p # r => Due(p) \subseteq Due(p)'
      BY <1>g, <2>1, OneMove, DueKept
    <3>3. s \in doubt \/ (\E p \in Requests : s \in Due(p)) \/ Tracked(s)
      BY Zenon DEF TrackInv, Tracked
    <3>. QED
      BY <2>1, <3>1, <3>2, <3>3 DEF Tracked
  <2>. QED
    BY <2>2, <2>3
<1>10. ASSUME NEW r \in Requests, Fails(r), NEW s \in Students PROVE Fine(s)
  <2>1. /\ Set(r, Idle) /\ Rate(s)' = Rate(s) /\ alert' = alert /\ doubt' = doubt \cup Due(r)
    BY <1>10, RateStays DEF Fails
  <2>. QED
    BY <1>g, <2>1, TrackKept
<1>11. ASSUME UNCHANGED <<records, req, alert, doubt>>, NEW s \in Students PROVE Fine(s)
  <2>1. Rate(s)' = Rate(s) /\ Active(s)' = Active(s)
    BY <1>11, RateStays DEF Active
  <2>2. \A p \in Requests : Due(p) \subseteq Due(p)'
    BY <1>g, <1>11, DueKept
  <2>4. s \in doubt \/ (\E p \in Requests : s \in Due(p)) \/ Tracked(s)
    BY Zenon DEF TrackInv, Tracked
  <2>. QED
    BY <1>11, <2>1, <2>2, <2>4 DEF Tracked
<1>12. \/ \E r \in Requests : Attendance(r) \/ Evaluation(r)
       \/ \E c \in Classes, s \in Students : Attend(c, s)
       \/ UNCHANGED <<records, req, alert, doubt>>
  BY DEF Next, SetCase, ScopeEnds, vars, followups
<1>13. ASSUME NEW r \in Requests, Attendance(r), NEW s \in Students PROVE Fine(s)
  BY <1>1, <1>2, <1>3, <1>13 DEF Attendance
<1>14. ASSUME NEW r \in Requests, Evaluation(r), NEW s \in Students PROVE Fine(s)
  BY <1>1, <1>5, <1>6, <1>7, <1>8, <1>9, <1>10, <1>14 DEF Evaluation
<1>. QED
  BY <1>f, <1>4, <1>11, <1>12, <1>13, <1>14

-----------------------------------------------------------------------------
(* The theorems.                                                             *)

FollowUpInv ==
  /\ RecordTypes /\ RequestTypes /\ FollowTypes
  /\ OneInv /\ RosterInv /\ CountInv /\ MailInv /\ RateInv /\ TrackInv

\* What every reachable state of the follow-up satisfies: besides the types, what
\* each request in flight has read of classes, alerts and cases
\* (attendance/router.py, analytics/service.py, crm/service.py).
THEOREM Invariance == Spec => []FollowUpInv
<1>1. Init => FollowUpInv
  BY TypesInit, FollowInit, OneInit, CountInit, MailInit, TrackInit DEF FollowUpInv
<1>2. FollowUpInv /\ [Next]_vars => FollowUpInv'
  <2>. SUFFICES ASSUME FollowUpInv, [Next]_vars PROVE FollowUpInv'
    OBVIOUS
  <2>1. RecordTypes' /\ RequestTypes' /\ FollowTypes'
    BY TypesStep, FollowStep DEF FollowUpInv
  <2>2. OneInv' /\ RosterInv' /\ CountInv' /\ MailInv'
    BY <2>1, OneStep, CountStep, MailStep DEF FollowUpInv
  <2>3. RateInv' /\ TrackInv'
    BY <2>1, <2>2, RateStep, TrackStep DEF FollowUpInv
  <2>. QED
    BY <2>1, <2>2, <2>3 DEF FollowUpInv
<1>. QED
  BY <1>1, <1>2, PTL DEF Spec

\* Types; a finalized class has a record of every student; an evaluation sees one
\* alert and one case to write to at most.
THEOREM FollowUpTypes == Spec => []TypeOK
<1>1. FollowUpInv => TypeOK
  <2>. SUFFICES ASSUME FollowUpInv PROVE TypeOK
    OBVIOUS
  <2>1. \A r \in Requests : \A s \in Seen(r) :
          Cardinality(req[r].seen[s].alert) <= 1 /\ Cardinality(req[r].seen[s].case) <= 1
    BY OneIsAtMostOne DEF FollowUpInv, OneInv
  <2>2. \A c \in Classes : done[c] => Roster({c}) = Students
    BY DEF FollowUpInv, RosterInv, Roster
  <2>. QED
    BY <2>1, <2>2 DEF FollowUpInv, RecordTypes, FollowTypes, TypeOK, Alert
<1>. QED
  BY <1>1, Invariance, PTL

\* A student has one active alert and one case in hand at most: what an evaluation
\* opens on an old view is refused by uq_active_attendance_alert_module or
\* uq_active_case (crm/models.py).
THEOREM OneAtATime == Spec => []OneActive
<1>1. FollowUpInv => OneActive
  BY OneIsAtMostOne DEF FollowUpInv, OneInv, OneActive
<1>. QED
  BY <1>1, Invariance, PTL

\* Every class completed by a finalization no other completion came across is in
\* the count of the course plan, whatever a lost increment or a mark after the date
\* makes of the others, and when there are no others it is counted once
\* (attendance/router.py:1142, 1178).
THEOREM PlanCounts == Spec => []CountedOnce
<1>1. FollowUpInv => CountedOnce
  <2>1. Plain = Done \ (byHand \cup overlapped)
    BY DEF Plain, DoneClasses, Done
  <2>. QED
    BY <2>1, Zenon DEF FollowUpInv, CountInv, Exact, CountedOnce
<1>. QED
  BY <1>1, Invariance, PTL

\* When no evaluation is due, the alert of a student tells whether his rate is
\* below the threshold, unless his last evaluation failed or committed on an old
\* view (analytics/service.py _evaluate_scope).
THEOREM AlertFollowsRate == Spec => []AlertTracksRate
<1>1. FollowUpInv => AlertTracksRate
  <2>. SUFFICES ASSUME FollowUpInv, \A r \in Requests : req[r].at \notin {"saved", "evaluate"},
                       NEW s \in Students, s \notin doubt
                PROVE  (Active(s) # {}) = (Rate(s) = "low")
    BY DEF AlertTracksRate
  <2>1. \A r \in Requests : Due(r) = {}
    BY NothingDue DEF FollowUpInv
  <2>2. Active(s) # {} <=> Rate(s) = "low"
    BY <2>1 DEF FollowUpInv, TrackInv
  <2>. QED
    BY <2>2, Zenon
<1>. QED
  BY <1>1, Invariance, PTL

\* An alert opened with its mail gets no other one: whoever read it has read that it
\* has been mailed (analytics/service.py:362-366).
THEOREM MailedOnce == Spec => []MailedAtOpening
<1>1. FollowUpInv => MailedAtOpening
  BY Zenon DEF FollowUpInv, MailInv, MailedAtOpening
<1>. QED
  BY <1>1, Invariance, PTL
===============================================================================
