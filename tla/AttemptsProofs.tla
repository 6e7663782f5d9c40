--------------------------- MODULE AttemptsProofs ---------------------------
(***************************************************************************)
(* Proofs about Attempts, for any set of students, requests and attempts.  *)
(***************************************************************************)
EXTENDS Attempts, FiniteSetTheorems, WellFoundedInduction, TLAPS

USE AttemptsAssumption

-----------------------------------------------------------------------------
(* Lemmas about the operators *)

\* A percentage is a natural number, whatever total_marks is.
LEMMA PercentType ==
    ASSUME NEW score \in Nat, NEW total \in Nat
    PROVE  Percent(score, total) \in Nat
<1>1. CASE total = 0
  BY <1>1 DEF Percent
<1>2. CASE total > 0
  BY <1>2 DEF Percent
<1> QED
  BY <1>1, <1>2

\* The upsert keeps the larger of each pair of columns.
LEMMA UpsertType ==
    ASSUME NEW e \in Entry, NEW g \in [score : Nat, pct : Nat, time : Nat]
    PROVE  /\ Upsert(e, g) \in Entry
           /\ Upsert(e, g).listed
           /\ Upsert(e, g).score \in {e.score, g.score}
           /\ Upsert(e, g).score >= e.score /\ Upsert(e, g).score >= g.score
           /\ Upsert(e, g).pct \in {e.pct, g.pct}
           /\ Upsert(e, g).pct >= e.pct /\ Upsert(e, g).pct >= g.pct
  BY DEF Upsert, Entry, Greatest

\* Setting the rank of an entry changes nothing else.
LEMMA RankedEntry ==
    ASSUME NEW e \in Entry, NEW k \in Nat
    PROVE  /\ [e EXCEPT !.rank = k] \in Entry
           /\ [e EXCEPT !.rank = k].listed = e.listed
           /\ [e EXCEPT !.rank = k].score = e.score
           /\ [e EXCEPT !.rank = k].pct = e.pct
           /\ [e EXCEPT !.rank = k].time = e.time
           /\ [e EXCEPT !.rank = k].rank = k
  BY DEF Entry

\* The blank rows have their types.
LEMMA NullTypes ==
    /\ NoRow \in AttemptRow
    /\ NoEntry \in Entry
    /\ NoJob \in [student : Students \cup {None}, attempt : AttemptIds \cup {None}]
    /\ NoGrade \in [score : Nat, pct : Nat, time : Nat]
    /\ NoRanks \in [Students -> Nat]
  BY DEF NoRow, AttemptRow, NoEntry, Entry, NoJob, NoGrade, NoRanks

-----------------------------------------------------------------------------
(* Type correctness *)

\* Ending a request keeps the types of what it resets.
LEMMA FinishType ==
    ASSUME TypeOK, NEW r \in Requests, Finish(r)
    PROVE  /\ rowLock' \in [AttemptIds -> Requests \cup {None}]
           /\ entryLock' \in [Students -> Requests \cup {None}]
           /\ pc' \in [Requests -> PCs]
           /\ job' \in [Requests -> [student : Students \cup {None},
                                     attempt : AttemptIds \cup {None}]]
           /\ graded' \in [Requests -> [score : Nat, pct : Nat, time : Nat]]
           /\ pending' \in [Requests -> Entry]
           /\ ranking' \in [Requests -> [Students -> Nat]]
           /\ todo' \in [Requests -> SUBSET Students]
  BY NullTypes DEF TypeOK, Finish, PCs

\* What a commit writes to a leaderboard row: the pending row of its own
\* student, the committed row of every other, and at most a new rank.
LEMMA RankedType ==
    ASSUME TypeOK, NEW r \in Requests, NEW t \in Students
    PROVE  LET e == IF t = job[r].student THEN pending[r] ELSE board[t] IN
           /\ Ranked(r, t) \in Entry
           /\ Ranked(r, t).listed = e.listed
           /\ Ranked(r, t).score = e.score
           /\ Ranked(r, t).pct = e.pct
           /\ Ranked(r, t).time = e.time
           /\ Ranked(r, t).rank = IF ranking[r][t] = 0 THEN e.rank ELSE ranking[r][t]
<1> DEFINE e == IF t = job[r].student THEN pending[r] ELSE board[t]
<1>1. e \in Entry /\ ranking[r][t] \in Nat
  BY DEF TypeOK
<1>2. Ranked(r, t) = IF ranking[r][t] = 0 THEN e ELSE [e EXCEPT !.rank = ranking[r][t]]
  BY DEF Ranked
<1> HIDE DEF e
<1>3. /\ Ranked(r, t) \in Entry
      /\ Ranked(r, t).listed = e.listed
      /\ Ranked(r, t).score = e.score
      /\ Ranked(r, t).pct = e.pct
      /\ Ranked(r, t).time = e.time
      /\ Ranked(r, t).rank = IF ranking[r][t] = 0 THEN e.rank ELSE ranking[r][t]
  BY <1>1, <1>2, RankedEntry
<1> QED
  BY <1>3 DEF e

\* At first every variable has its type.
LEMMA InitType == Init => TypeOK
<1> SUFFICES ASSUME Init PROVE TypeOK
  OBVIOUS
<1>1. assessment \in [published : BOOLEAN, start : Starts, end : Ends, total : Totals]
  BY DEF Init
<1>2. todo \in [Requests -> SUBSET Students]
  BY DEF Init
<1>3. pc \in [Requests -> PCs]
  BY DEF Init, PCs
<1>4. crossed \subseteq Requests /\ outdated \in BOOLEAN
  BY DEF Init
<1> QED
  BY <1>1, <1>2, <1>3, <1>4, NullTypes DEF Init, TypeOK

\* The types survive every step, given that a request works on what exists.
LEMMA NextType ==
    ASSUME TypeOK, RowsLocked, [Next]_vars
    PROVE  TypeOK'
<1> USE DEF tables, locks, local, history
<1>1. CASE Tick
  BY <1>1 DEF Tick, TypeOK
<1>2. CASE PublishAssessment
  BY <1>2 DEF PublishAssessment, TypeOK
<1>3. ASSUME NEW start \in Starts, NEW end \in Ends, NEW total \in Totals,
             UpdateAssessment(start, end, total)
      PROVE  TypeOK'
  BY <1>3 DEF UpdateAssessment, TypeOK
<1>4. ASSUME NEW r \in Requests, NEW s \in Students, StartAdmit(r, s)
      PROVE  TypeOK'
  <2>1. pc' \in [Requests -> PCs]
    BY <1>4 DEF StartAdmit, TypeOK, PCs
  <2>2. job' \in [Requests -> [student : Students \cup {None},
                               attempt : AttemptIds \cup {None}]]
    BY <1>4 DEF StartAdmit, TypeOK
  <2> QED
    BY <1>4, <2>1, <2>2 DEF StartAdmit, TypeOK
<1>5. ASSUME NEW r \in Requests, StartCheck(r)
      PROVE  TypeOK'
  <2>1. CASE Finish(r)
    BY <1>5, <2>1, FinishType DEF StartCheck, TypeOK
  <2>2. CASE pc' = [pc EXCEPT ![r] = "insert"] /\ UNCHANGED <<locks, local>>
    <3>1. pc' \in [Requests -> PCs]
      BY <2>2 DEF TypeOK, PCs
    <3> QED
      BY <1>5, <2>2, <3>1 DEF StartCheck, TypeOK
  <2> QED
    BY <1>5, <2>1, <2>2 DEF StartCheck
<1>6. ASSUME NEW r \in Requests, StartInsert(r)
      PROVE  TypeOK'
  <2>1. job[r].student \in Students
    BY <1>6 DEF StartInsert, RowsLocked, RowHeld
  <2>2. (CHOOSE x \in Absent : TRUE) \in AttemptIds
    BY <1>6 DEF StartInsert, Absent
  <2>3. Opened(job[r].student) \in AttemptRow
    BY <2>1 DEF Opened, AttemptRow, TypeOK
  <2>4. attempts' \in [AttemptIds -> AttemptRow]
    BY <1>6, <2>2, <2>3 DEF StartInsert, TypeOK
  <2> QED
    BY <1>6, <2>4, FinishType DEF StartInsert, TypeOK
<1>7. ASSUME NEW r \in Requests, NEW s \in Students, NEW a \in AttemptIds,
             SubmitLock(r, s, a)
      PROVE  TypeOK'
  <2>1. pc' \in [Requests -> PCs]
    BY <1>7 DEF SubmitLock, TypeOK, PCs, HoldsRow
  <2>2. job' \in [Requests -> [student : Students \cup {None},
                               attempt : AttemptIds \cup {None}]]
    BY <1>7 DEF SubmitLock, TypeOK
  <2>3. rowLock' \in [AttemptIds -> Requests \cup {None}]
    BY <1>7 DEF SubmitLock, TypeOK
  <2> QED
    BY <1>7, <2>1, <2>2, <2>3 DEF SubmitLock, TypeOK
<1>8. ASSUME NEW r \in Requests, SubmitGrade(r)
      PROVE  TypeOK'
  <2>1. PICK score \in Scores :
          graded' = [graded EXCEPT ![r] =
                       [score |-> score,
                        pct   |-> Percent(score, assessment.total),
                        time  |-> Elapsed(attempts[job[r].attempt].started)]]
    BY <1>8 DEF SubmitGrade
  <2>2. job[r].attempt \in AttemptIds
    BY <1>8 DEF SubmitGrade, RowsLocked, RowHeld, HoldsRow
  <2>3. Elapsed(attempts[job[r].attempt].started) \in Nat
    BY <2>2 DEF TypeOK, AttemptRow, Elapsed
  <2>4. Percent(score, assessment.total) \in Nat
    BY PercentType DEF TypeOK
  <2>5. graded' \in [Requests -> [score : Nat, pct : Nat, time : Nat]]
    BY <2>1, <2>3, <2>4 DEF TypeOK
  <2>6. pc' \in [Requests -> PCs]
    BY <1>8 DEF SubmitGrade, TypeOK, PCs, HoldsRow
  <2> QED
    BY <1>8, <2>5, <2>6 DEF SubmitGrade, TypeOK
<1>9. ASSUME NEW r \in Requests, SubmitEntry(r)
      PROVE  TypeOK'
  <2>1. job[r].student \in Students
    BY <1>9 DEF SubmitEntry, RowsLocked, RowHeld
  <2>2. Upsert(board[job[r].student], graded[r]) \in Entry
    BY <2>1, UpsertType DEF TypeOK
  <2>3. pending' \in [Requests -> Entry]
    BY <1>9, <2>2 DEF SubmitEntry, TypeOK
  <2>4. entryLock' \in [Students -> Requests \cup {None}]
    BY <1>9, <2>1 DEF SubmitEntry, TypeOK
  <2>5. pc' \in [Requests -> PCs]
    BY <1>9 DEF SubmitEntry, TypeOK, PCs, HoldsRow
  <2> QED
    BY <1>9, <2>3, <2>4, <2>5 DEF SubmitEntry, TypeOK
<1>10. ASSUME NEW r \in Requests, SubmitView(r)
       PROVE  TypeOK'
  <2>1. PICK k \in RowNumbers(View(r)) : ranking' = [ranking EXCEPT ![r] = k]
    BY <1>10 DEF SubmitView
  <2>2. k \in [Students -> Nat]
    BY DEF RowNumbers
  <2>3. ranking' \in [Requests -> [Students -> Nat]]
    BY <2>1, <2>2 DEF TypeOK
  <2>4. todo' \in [Requests -> SUBSET Students]
    BY <1>10 DEF SubmitView, TypeOK, Listed
  <2>5. pc' \in [Requests -> PCs]
    BY <1>10 DEF SubmitView, TypeOK, PCs, HoldsRow
  <2> QED
    BY <1>10, <2>3, <2>4, <2>5 DEF SubmitView, TypeOK
<1>11. ASSUME NEW r \in Requests, NEW t \in Students, SubmitRank(r, t)
       PROVE  TypeOK'
  BY <1>11 DEF SubmitRank, TypeOK
<1>12. ASSUME NEW r \in Requests, SubmitCommit(r)
       PROVE  TypeOK'
  <2>1. attempts' \in [AttemptIds -> AttemptRow]
    <3>1. Closed(attempts[job[r].attempt], graded[r]) \in AttemptRow
      <4>1. job[r].attempt \in AttemptIds
        BY <1>12 DEF SubmitCommit, RowsLocked, RowHeld, HoldsRow
      <4> QED
        BY <4>1 DEF Closed, AttemptRow, TypeOK
    <3> QED
      BY <1>12, <3>1 DEF SubmitCommit, TypeOK
  <2>2. \A t \in Students : Ranked(r, t) \in Entry
    BY RankedType
  <2>3. board' \in [Students -> Entry]
    BY <1>12, <2>2 DEF SubmitCommit
  <2> QED
    BY <1>12, <2>1, <2>3, FinishType DEF SubmitCommit, TypeOK
<1>13. ASSUME NEW r \in Requests, Drop(r) \/ DeadlockVictim(r)
       PROVE  TypeOK'
  BY <1>13, FinishType DEF Drop, DeadlockVictim, TypeOK
<1>14. CASE UNCHANGED vars
  BY <1>14 DEF vars, TypeOK
<1> QED
  BY <1>1, <1>2, <1>3, <1>4, <1>5, <1>6, <1>7, <1>8, <1>9, <1>10, <1>11, <1>12, <1>13, <1>14
     DEF Next, Faculty, Start, Submit

-----------------------------------------------------------------------------
(* The locks isolate the transactions *)

\* Ending r leaves the other requests, and the locks they hold, as they were.
LEMMA FinishOthers ==
    ASSUME TypeOK, NEW r \in Requests, Finish(r), NEW q \in Requests, q # r
    PROVE  /\ pc'[q] = pc[q]
           /\ job'[q] = job[q]
           /\ graded'[q] = graded[q]
           /\ pending'[q] = pending[q]
           /\ ranking'[q] = ranking[q]
           /\ todo'[q] = todo[q]
           /\ \A a \in AttemptIds : rowLock[a] = q <=> rowLock'[a] = q
           /\ \A s \in Students : entryLock[s] = q <=> entryLock'[s] = q
  BY DEF Finish, TypeOK

\* A request that has ended holds nothing and owes nothing.
LEMMA FinishSelf ==
    ASSUME TypeOK, NEW r \in Requests, Finish(r)
    PROVE  RowHeld(r)' /\ EntryHeld(r)'
<1>1. pc'[r] = "idle"
  BY DEF Finish, TypeOK
<1> QED
  BY <1>1 DEF RowHeld, EntryHeld, HoldsRow, HoldsEntry

\* Two transactions never work on the same attempt.
LEMMA RowsApart ==
    ASSUME RowsLocked, NEW r \in Requests, NEW q \in Requests, q # r,
           pc[r] \in HoldsRow, pc[q] \in HoldsRow
    PROVE  job[r].attempt # job[q].attempt
  BY DEF RowsLocked, RowHeld

\* Nor do they write the leaderboard row of the same student.
LEMMA EntriesApart ==
    ASSUME EntriesLocked, NEW r \in Requests, NEW q \in Requests, q # r,
           pc[r] \in HoldsEntry, pc[q] \in HoldsEntry
    PROVE  job[r].student # job[q].student
  BY DEF EntriesLocked, EntryHeld

\* At first nothing is locked.
LEMMA InitRows == Init => RowsLocked /\ EntriesLocked /\ BlankRows
<1> SUFFICES ASSUME Init PROVE RowsLocked /\ EntriesLocked /\ BlankRows
  OBVIOUS
<1>1. RowsLocked /\ EntriesLocked
  BY DEF Init, RowsLocked, RowHeld, EntriesLocked, EntryHeld, HoldsRow, HoldsEntry
<1>2. BlankRows
  BY DEF Init, BlankRows, NoRow, NoEntry
<1> QED
  BY <1>1, <1>2

\* A transaction's hold on its attempt survives every step.
LEMMA NextRows ==
    ASSUME TypeOK, RowsLocked, BlankRows, [Next]_vars
    PROVE  RowsLocked'
<1> USE DEF tables, locks, local, history
<1> SUFFICES ASSUME NEW q \in Requests PROVE RowHeld(q)'
  BY DEF RowsLocked
<1>0. RowHeld(q)
  BY DEF RowsLocked
<1>1. CASE UNCHANGED <<attempts, rowLock, pc, job>>
  BY <1>0, <1>1 DEF RowHeld
<1>2. CASE Tick
  BY <1>1, <1>2 DEF Tick
<1>3. CASE Faculty
  BY <1>1, <1>3 DEF Faculty, PublishAssessment, UpdateAssessment
<1>4. ASSUME NEW r \in Requests, NEW s \in Students, StartAdmit(r, s)
      PROVE  RowHeld(q)'
  <2>1. CASE q = r
    BY <1>4, <2>1 DEF StartAdmit, RowHeld, HoldsRow, TypeOK
  <2>2. CASE q # r
    BY <1>0, <1>4, <2>2 DEF StartAdmit, RowHeld, TypeOK
  <2> QED
    BY <2>1, <2>2
<1>5. ASSUME NEW r \in Requests, Finish(r), UNCHANGED attempts
      PROVE  RowHeld(q)'
  <2>1. CASE q = r
    BY <1>5, <2>1, FinishSelf
  <2>2. CASE q # r
    <3>1. /\ pc'[q] = pc[q]
          /\ job'[q] = job[q]
          /\ \A a \in AttemptIds : rowLock[a] = q => rowLock'[a] = q
      BY <1>5, <2>2, FinishOthers
    <3> QED
      BY <1>0, <1>5, <3>1 DEF RowHeld
  <2> QED
    BY <2>1, <2>2
<1>6. ASSUME NEW r \in Requests, StartCheck(r)
      PROVE  RowHeld(q)'
  <2>1. CASE Finish(r)
    BY <1>5, <1>6, <2>1 DEF StartCheck
  <2>2. CASE pc' = [pc EXCEPT ![r] = "insert"] /\ UNCHANGED <<locks, local>>
    BY <1>0, <1>6, <2>2 DEF StartCheck, RowHeld, HoldsRow, TypeOK
  <2> QED
    BY <1>6, <2>1, <2>2 DEF StartCheck
<1>7. ASSUME NEW r \in Requests, StartInsert(r)
      PROVE  RowHeld(q)'
  <2>1. CASE q = r
    BY <1>7, <2>1, FinishSelf DEF StartInsert
  <2>2. CASE q # r
    <3>1. /\ pc'[q] = pc[q]
          /\ job'[q] = job[q]
          /\ \A a \in AttemptIds : rowLock[a] = q => rowLock'[a] = q
      BY <1>7, <2>2, FinishOthers DEF StartInsert
    <3>2. PICK a \in Absent : attempts' = [attempts EXCEPT ![a] = Opened(job[r].student)]
      BY <1>7 DEF StartInsert
    <3>3. pc[q] \in HoldsRow => attempts'[job[q].attempt] = attempts[job[q].attempt]
      BY <1>0, <3>2 DEF RowHeld, Absent, TypeOK
    <3> QED
      BY <1>0, <3>1, <3>3 DEF RowHeld
  <2> QED
    BY <2>1, <2>2
<1>8. ASSUME NEW r \in Requests, NEW s \in Students, NEW a \in AttemptIds,
             SubmitLock(r, s, a)
      PROVE  RowHeld(q)'
  <2>1. CASE q = r
    <3>1. /\ pc'[q] = "grade"
          /\ job'[q] = [student |-> s, attempt |-> a]
          /\ rowLock'[a] = q
      BY <1>8, <2>1 DEF SubmitLock, TypeOK
    <3> QED
      BY <1>8, <3>1 DEF SubmitLock, RowHeld
  <2>2. CASE q # r
    <3>1. pc'[q] = pc[q] /\ job'[q] = job[q]
      BY <1>8, <2>2 DEF SubmitLock, TypeOK
    <3>2. pc[q] \in HoldsRow => rowLock'[job[q].attempt] = q
      BY <1>0, <1>8, <2>2 DEF SubmitLock, RowHeld, TypeOK
    <3> QED
      BY <1>0, <1>8, <3>1, <3>2 DEF SubmitLock, RowHeld
  <2> QED
    BY <2>1, <2>2
<1>9. ASSUME NEW r \in Requests,
             SubmitGrade(r) \/ SubmitEntry(r) \/ SubmitView(r)
      PROVE  RowHeld(q)'
  <2>1. pc[r] \in HoldsRow /\ UNCHANGED <<attempts, rowLock, job>>
    BY <1>9 DEF SubmitGrade, SubmitEntry, SubmitView, HoldsRow
  <2>2. pc'[q] = pc[q] \/ q = r
    BY <1>9 DEF SubmitGrade, SubmitEntry, SubmitView, TypeOK
  <2> QED
    BY <1>0, <2>1, <2>2 DEF RowHeld, HoldsRow
<1>10. ASSUME NEW r \in Requests, NEW t \in Students, SubmitRank(r, t)
       PROVE  RowHeld(q)'
  BY <1>1, <1>10 DEF SubmitRank
<1>11. ASSUME NEW r \in Requests, SubmitCommit(r)
       PROVE  RowHeld(q)'
  <2>1. CASE q = r
    BY <1>11, <2>1, FinishSelf DEF SubmitCommit
  <2>2. CASE q # r
    <3>1. /\ pc'[q] = pc[q]
          /\ job'[q] = job[q]
          /\ \A a \in AttemptIds : rowLock[a] = q => rowLock'[a] = q
      BY <1>11, <2>2, FinishOthers DEF SubmitCommit
    <3>2. pc[q] \in HoldsRow => attempts'[job[q].attempt] = attempts[job[q].attempt]
      BY <1>0, <1>11, <2>2, RowsApart DEF SubmitCommit, RowHeld, HoldsRow, TypeOK
    <3> QED
      BY <1>0, <3>1, <3>2 DEF RowHeld
  <2> QED
    BY <2>1, <2>2
<1>12. ASSUME NEW r \in Requests, Drop(r) \/ DeadlockVictim(r)
       PROVE  RowHeld(q)'
  BY <1>5, <1>12 DEF Drop, DeadlockVictim
<1>13. CASE UNCHANGED vars
  BY <1>1, <1>13 DEF vars
<1> QED
  BY <1>2, <1>3, <1>4, <1>6, <1>7, <1>8, <1>9, <1>10, <1>11, <1>12, <1>13
     DEF Next, Start, Submit

\* A step that leaves q, its lock and the columns of its leaderboard row alone
\* keeps q's entry held.
LEMMA EntryKept ==
    ASSUME NEW q \in Requests, EntryHeld(q),
           pc'[q] = pc[q], job'[q] = job[q],
           graded'[q] = graded[q], pending'[q] = pending[q],
           pc[q] \in HoldsEntry =>
               /\ entryLock'[job[q].student] = q
               /\ board'[job[q].student].score = board[job[q].student].score
               /\ board'[job[q].student].pct = board[job[q].student].pct
    PROVE  EntryHeld(q)'
  BY DEF EntryHeld, Upsert

\* A transaction's hold on its leaderboard row survives every step.
LEMMA NextEntries ==
    ASSUME TypeOK, RowsLocked, EntriesLocked, [Next]_vars
    PROVE  EntriesLocked'
<1> USE DEF tables, locks, local, history
<1> SUFFICES ASSUME NEW q \in Requests PROVE EntryHeld(q)'
  BY DEF EntriesLocked
<1>0. EntryHeld(q) /\ (pc[q] \in HoldsEntry => entryLock[job[q].student] = q)
  BY DEF EntriesLocked, EntryHeld
<1>a. pc[q] # "idle" => job[q].student \in Students
  BY DEF RowsLocked, RowHeld
<1>1. CASE UNCHANGED <<board, entryLock, pc, job, graded, pending>>
  BY <1>0, <1>1, EntryKept
<1>2. CASE Tick
  BY <1>1, <1>2 DEF Tick
<1>3. CASE Faculty
  BY <1>1, <1>3 DEF Faculty, PublishAssessment, UpdateAssessment
<1>4. ASSUME NEW r \in Requests, NEW s \in Students, StartAdmit(r, s)
      PROVE  EntryHeld(q)'
  <2>1. CASE q = r
    BY <1>4, <2>1 DEF StartAdmit, EntryHeld, HoldsEntry, TypeOK
  <2>2. CASE q # r
    <3>1. /\ pc'[q] = pc[q] /\ job'[q] = job[q]
          /\ graded'[q] = graded[q] /\ pending'[q] = pending[q]
          /\ board' = board /\ entryLock' = entryLock
      BY <1>4, <2>2 DEF StartAdmit, TypeOK
    <3> QED
      BY <1>0, <3>1, EntryKept
  <2> QED
    BY <2>1, <2>2
<1>5. ASSUME NEW r \in Requests, Finish(r), UNCHANGED board
      PROVE  EntryHeld(q)'
  <2>1. CASE q = r
    BY <1>5, <2>1, FinishSelf
  <2>2. CASE q # r
    <3>1. /\ pc'[q] = pc[q] /\ job'[q] = job[q]
          /\ graded'[q] = graded[q] /\ pending'[q] = pending[q]
          /\ \A s \in Students : entryLock[s] = q => entryLock'[s] = q
      BY <1>5, <2>2, FinishOthers
    <3>2. pc[q] \in HoldsEntry => entryLock'[job[q].student] = q
      BY <1>0, <1>a, <3>1 DEF HoldsEntry
    <3> QED
      BY <1>0, <1>5, <3>1, <3>2, EntryKept
  <2> QED
    BY <2>1, <2>2
<1>6. ASSUME NEW r \in Requests, StartCheck(r)
      PROVE  EntryHeld(q)'
  <2>1. CASE Finish(r)
    BY <1>5, <1>6, <2>1 DEF StartCheck
  <2>2. CASE pc' = [pc EXCEPT ![r] = "insert"] /\ UNCHANGED <<locks, local>>
    <3>1. CASE q = r
      BY <1>6, <2>2, <3>1 DEF EntryHeld, HoldsEntry, TypeOK
    <3>2. CASE q # r
      <4>1. /\ pc'[q] = pc[q] /\ UNCHANGED <<board, entryLock, job, graded, pending>>
        BY <1>6, <2>2, <3>2 DEF StartCheck, TypeOK
      <4> QED
        BY <1>0, <4>1, EntryKept
    <3> QED
      BY <3>1, <3>2
  <2> QED
    BY <1>6, <2>1, <2>2 DEF StartCheck
<1>7. ASSUME NEW r \in Requests, StartInsert(r)
      PROVE  EntryHeld(q)'
  BY <1>5, <1>7 DEF StartInsert
<1>8. ASSUME NEW r \in Requests, NEW s \in Students, NEW a \in AttemptIds,
             SubmitLock(r, s, a)
      PROVE  EntryHeld(q)'
  <2>1. CASE q = r
    BY <1>8, <2>1 DEF SubmitLock, EntryHeld, HoldsEntry, TypeOK
  <2>2. CASE q # r
    <3>1. /\ pc'[q] = pc[q] /\ job'[q] = job[q]
          /\ UNCHANGED <<board, entryLock, graded, pending>>
      BY <1>8, <2>2 DEF SubmitLock, TypeOK
    <3> QED
      BY <1>0, <3>1, EntryKept
  <2> QED
    BY <2>1, <2>2
<1>9. ASSUME NEW r \in Requests, SubmitGrade(r)
      PROVE  EntryHeld(q)'
  <2>1. CASE q = r
    BY <1>9, <2>1 DEF SubmitGrade, EntryHeld, HoldsEntry, TypeOK
  <2>2. CASE q # r
    <3>1. /\ pc'[q] = pc[q] /\ graded'[q] = graded[q]
          /\ UNCHANGED <<board, entryLock, job, pending>>
      BY <1>9, <2>2 DEF SubmitGrade, TypeOK
    <3> QED
      BY <1>0, <3>1, EntryKept
  <2> QED
    BY <2>1, <2>2
<1>10. ASSUME NEW r \in Requests, SubmitEntry(r)
       PROVE  EntryHeld(q)'
  <2>0. job[r].student \in Students
    BY <1>10 DEF SubmitEntry, RowsLocked, RowHeld
  <2>1. CASE q = r
    <3>1. /\ entryLock'[job[r].student] = r
          /\ pending'[r] = Upsert(board[job[r].student], graded[r])
          /\ UNCHANGED <<board, job, graded>>
      BY <1>10, <2>0 DEF SubmitEntry, TypeOK
    <3> QED
      BY <2>1, <3>1 DEF EntryHeld
  <2>2. CASE q # r
    <3>1. /\ pc'[q] = pc[q] /\ pending'[q] = pending[q]
          /\ UNCHANGED <<board, job, graded>>
      BY <1>10, <2>2 DEF SubmitEntry, TypeOK
    <3>2. pc[q] \in HoldsEntry => entryLock'[job[q].student] = q
      BY <1>0, <1>a, <1>10, <2>0 DEF SubmitEntry, TypeOK, HoldsEntry
    <3> QED
      BY <1>0, <3>1, <3>2, EntryKept
  <2> QED
    BY <2>1, <2>2
<1>11. ASSUME NEW r \in Requests, SubmitView(r)
       PROVE  EntryHeld(q)'
  <2>1. UNCHANGED <<board, entryLock, job, graded, pending>>
    BY <1>11 DEF SubmitView
  <2>2. CASE q = r
    BY <1>0, <1>11, <2>1, <2>2 DEF SubmitView, EntryHeld, HoldsEntry
  <2>3. CASE q # r
    <3>1. pc'[q] = pc[q]
      BY <1>11, <2>3 DEF SubmitView, TypeOK
    <3> QED
      BY <1>0, <2>1, <3>1, EntryKept
  <2> QED
    BY <2>2, <2>3
<1>12. ASSUME NEW r \in Requests, NEW t \in Students, SubmitRank(r, t)
       PROVE  EntryHeld(q)'
  <2>1. UNCHANGED <<board, pc, job, graded, pending>>
    BY <1>12 DEF SubmitRank
  <2>2. pc[q] \in HoldsEntry => entryLock'[job[q].student] = q
    BY <1>0, <1>a, <1>12 DEF SubmitRank, TypeOK, HoldsEntry
  <2> QED
    BY <1>0, <2>1, <2>2, EntryKept
<1>13. ASSUME NEW r \in Requests, SubmitCommit(r)
       PROVE  EntryHeld(q)'
  <2>1. CASE q = r
    BY <1>13, <2>1, FinishSelf DEF SubmitCommit
  <2>2. CASE q # r
    <3>1. /\ pc'[q] = pc[q] /\ job'[q] = job[q]
          /\ graded'[q] = graded[q] /\ pending'[q] = pending[q]
          /\ \A s \in Students : entryLock[s] = q => entryLock'[s] = q
      BY <1>13, <2>2, FinishOthers DEF SubmitCommit
    <3>2. ASSUME pc[q] \in HoldsEntry
          PROVE  /\ entryLock'[job[q].student] = q
                 /\ board'[job[q].student].score = board[job[q].student].score
                 /\ board'[job[q].student].pct = board[job[q].student].pct
      <4>1. job[q].student \in Students
        BY <1>a, <3>2 DEF HoldsEntry
      <4>2. job[q].student # job[r].student
        BY <1>13, <2>2, <3>2, EntriesApart DEF SubmitCommit, HoldsEntry
      <4>3. board'[job[q].student] = Ranked(r, job[q].student)
        BY <1>13, <4>1 DEF SubmitCommit
      <4> QED
        BY <1>0, <3>1, <3>2, <4>1, <4>2, <4>3, RankedType
    <3> QED
      BY <1>0, <3>1, <3>2, EntryKept
  <2> QED
    BY <2>1, <2>2
<1>14. ASSUME NEW r \in Requests, Drop(r) \/ DeadlockVictim(r)
       PROVE  EntryHeld(q)'
  BY <1>5, <1>14 DEF Drop, DeadlockVictim
<1>15. CASE UNCHANGED vars
  BY <1>1, <1>15 DEF vars
<1> QED
  BY <1>2, <1>3, <1>4, <1>6, <1>7, <1>8, <1>9, <1>10, <1>11, <1>12, <1>13, <1>14, <1>15
     DEF Next, Start, Submit

-----------------------------------------------------------------------------
(* What a commit writes *)

\* A commit closes the attempt the transaction holds and leaves every other
\* attempt alone; the columns of its student's entry become the upserted ones
\* and no other student's entry changes but for its rank.
LEMMA CommitWrites ==
    ASSUME TypeOK, RowsLocked, EntriesLocked, NEW r \in Requests, SubmitCommit(r)
    PROVE  LET a == job[r].attempt
               s == job[r].student
               e == Upsert(board[s], graded[r]) IN
           /\ a \in AttemptIds /\ s \in Students
           /\ attempts[a].student = s /\ attempts[a].status = "in_progress"
           /\ attempts'[a] = Closed(attempts[a], graded[r])
           /\ \A b \in AttemptIds : b # a => attempts'[b] = attempts[b]
           /\ board'[s].listed /\ board'[s].score = e.score /\ board'[s].pct = e.pct
           /\ \A t \in Students : t # s =>
                 /\ board'[t].listed = board[t].listed
                 /\ board'[t].score = board[t].score
                 /\ board'[t].pct = board[t].pct
<1> DEFINE a == job[r].attempt
           s == job[r].student
           e == Upsert(board[s], graded[r])
<1>1. pc[r] = "rank" /\ attempts' = [attempts EXCEPT ![a] = Closed(@, graded[r])]
      /\ board' = [t \in Students |-> Ranked(r, t)]
  BY DEF SubmitCommit
<1>2. /\ a \in AttemptIds /\ s \in Students
      /\ attempts[a].student = s /\ attempts[a].status = "in_progress"
  BY <1>1 DEF RowsLocked, RowHeld, HoldsRow
<1>3. /\ attempts'[a] = Closed(attempts[a], graded[r])
      /\ \A b \in AttemptIds : b # a => attempts'[b] = attempts[b]
  BY <1>1, <1>2 DEF TypeOK
<1>4. pending[r].listed /\ pending[r].score = e.score /\ pending[r].pct = e.pct
  BY <1>1, Zenon DEF EntriesLocked, EntryHeld, HoldsEntry, Upsert
<1>5. board'[s].listed /\ board'[s].score = e.score /\ board'[s].pct = e.pct
  BY <1>1, <1>2, <1>4, RankedType
<1>6. \A t \in Students : t # s =>
         /\ board'[t].listed = board[t].listed
         /\ board'[t].score = board[t].score
         /\ board'[t].pct = board[t].pct
  BY <1>1, RankedType
<1> QED
  BY <1>2, <1>3, <1>5, <1>6

\* An insert fills one absent row, for the student of the request.
LEMMA InsertWrites ==
    ASSUME TypeOK, RowsLocked, NEW r \in Requests, StartInsert(r)
    PROVE  \E a \in Absent :
              /\ a \in AttemptIds
              /\ job[r].student \in Students
              /\ attempts'[a] = Opened(job[r].student)
              /\ \A b \in AttemptIds : b # a => attempts'[b] = attempts[b]
              /\ attempts' = [attempts EXCEPT ![a] = Opened(job[r].student)]
<1>1. PICK a \in Absent : attempts' = [attempts EXCEPT ![a] = Opened(job[r].student)]
  BY DEF StartInsert
<1>2. job[r].student \in Students
  BY DEF StartInsert, RowsLocked, RowHeld
<1>3. a \in AttemptIds
  BY DEF Absent
<1> QED
  BY <1>1, <1>2, <1>3 DEF TypeOK

\* Only those two steps write the tables of attempts and entries.
LEMMA OthersWriteNothing ==
    ASSUME [Next]_vars
    PROVE  \/ \E r \in Requests : StartInsert(r) \/ SubmitCommit(r)
           \/ UNCHANGED <<attempts, board, outdated>>
  BY DEF Next, Faculty, Start, Submit, Tick, PublishAssessment, UpdateAssessment,
         StartAdmit, StartCheck, SubmitLock, SubmitGrade, SubmitEntry, SubmitView,
         SubmitRank, Drop, DeadlockVictim, vars, tables, history

\* Rows that are absent stay blank.
LEMMA NextBlank ==
    ASSUME TypeOK, RowsLocked, EntriesLocked, BlankRows, [Next]_vars
    PROVE  BlankRows'
<1>1. CASE UNCHANGED <<attempts, board>>
  BY <1>1 DEF BlankRows
<1>2. ASSUME NEW r \in Requests, StartInsert(r)
      PROVE  BlankRows'
  <2>1. board' = board
    BY <1>2 DEF StartInsert
  <2>2. PICK a \in Absent : /\ a \in AttemptIds
                            /\ job[r].student \in Students
                            /\ attempts'[a] = Opened(job[r].student)
                            /\ \A b \in AttemptIds : b # a => attempts'[b] = attempts[b]
    BY <1>2, InsertWrites
  <2> QED
    BY <2>1, <2>2 DEF BlankRows, Opened
<1>3. ASSUME NEW r \in Requests, SubmitCommit(r)
      PROVE  BlankRows'
  <2> DEFINE b == job[r].attempt
             e == Upsert(board[job[r].student], graded[r])
  <2>1. \A a \in AttemptIds :
          /\ attempts'[a].status = "absent" <=> attempts'[a].student = None
          /\ attempts'[a].status # "submitted" =>
                attempts'[a].score = 0 /\ attempts'[a].pct = 0
    <3>1. /\ b \in AttemptIds /\ job[r].student \in Students
          /\ attempts[b].student = job[r].student
          /\ attempts'[b] = Closed(attempts[b], graded[r])
          /\ \A a \in AttemptIds : a # b => attempts'[a] = attempts[a]
      BY <1>3, CommitWrites
    <3>2. attempts'[b].status = "submitted" /\ attempts'[b].student # None
      BY <3>1 DEF Closed
    <3> QED
      BY <3>1, <3>2 DEF BlankRows
  <2>2. \A s \in Students : ~board'[s].listed => board'[s].score = 0 /\ board'[s].pct = 0
    BY <1>3, CommitWrites DEF BlankRows
  <2> QED
    BY <2>1, <2>2 DEF BlankRows
<1> QED
  BY <1>1, <1>2, <1>3, OthersWriteNothing

\* A score with its percentage is a result.
LEMMA ResultOf ==
    ASSUME NEW score \in Scores, NEW total \in Totals
    PROVE  [score |-> score, pct |-> Percent(score, total)] \in Results
<1>1. \E sc \in Scores, tot \in Totals :
         [score |-> score, pct |-> Percent(score, total)]
           = [score |-> sc, pct |-> Percent(sc, tot)]
  OBVIOUS
<1> QED
  BY <1>1 DEF Results

\* A grade stays what grading can give until its transaction is over.
LEMMA NextGrades ==
    ASSUME TypeOK, GradesPossible, [Next]_vars
    PROVE  GradesPossible'
<1> USE DEF tables, locks, local, history
<1> SUFFICES ASSUME NEW q \in Requests, pc'[q] \in {"entry"} \cup HoldsEntry
             PROVE  [score |-> graded'[q].score, pct |-> graded'[q].pct] \in Results
  BY DEF GradesPossible
<1>0. pc[q] \in {"entry"} \cup HoldsEntry =>
         [score |-> graded[q].score, pct |-> graded[q].pct] \in Results
  BY DEF GradesPossible
<1>1. CASE pc[q] \in {"entry"} \cup HoldsEntry /\ graded'[q] = graded[q]
  BY <1>0, <1>1
<1>2. ASSUME NEW r \in Requests, Finish(r)
      PROVE  pc[q] \in {"entry"} \cup HoldsEntry /\ graded'[q] = graded[q]
  <2>1. q # r
    BY <1>2 DEF Finish, TypeOK, HoldsEntry
  <2> QED
    BY <1>2, <2>1, FinishOthers
<1>3. ASSUME NEW r \in Requests, SubmitGrade(r)
      PROVE  [score |-> graded'[q].score, pct |-> graded'[q].pct] \in Results
  <2>1. CASE q = r
    <3>1. PICK sc \in Scores :
            graded' = [graded EXCEPT ![r] =
                         [score |-> sc,
                          pct   |-> Percent(sc, assessment.total),
                          time  |-> Elapsed(attempts[job[r].attempt].started)]]
      BY <1>3 DEF SubmitGrade
    <3>2. graded'[q].score = sc /\ graded'[q].pct = Percent(sc, assessment.total)
      BY <2>1, <3>1 DEF TypeOK
    <3>3. assessment.total \in Totals
      BY DEF TypeOK
    <3>4. [score |-> sc, pct |-> Percent(sc, assessment.total)] \in Results
      BY <3>3, ResultOf
    <3> QED
      BY <3>2, <3>4
  <2>2. CASE q # r
    BY <1>1, <1>3, <2>2 DEF SubmitGrade, TypeOK
  <2> QED
    BY <2>1, <2>2
<1>4. ASSUME NEW r \in Requests, NEW s \in Students, StartAdmit(r, s)
      PROVE  pc[q] \in {"entry"} \cup HoldsEntry /\ graded'[q] = graded[q]
  BY <1>4 DEF StartAdmit, TypeOK, HoldsEntry
<1>5. ASSUME NEW r \in Requests, StartCheck(r)
      PROVE  pc[q] \in {"entry"} \cup HoldsEntry /\ graded'[q] = graded[q]
  <2>1. CASE Finish(r)
    BY <1>2, <2>1
  <2>2. CASE pc' = [pc EXCEPT ![r] = "insert"] /\ UNCHANGED <<locks, local>>
    BY <2>2 DEF TypeOK, HoldsEntry
  <2> QED
    BY <1>5, <2>1, <2>2 DEF StartCheck
<1>6. ASSUME NEW r \in Requests, NEW s \in Students, NEW a \in AttemptIds,
             SubmitLock(r, s, a)
      PROVE  pc[q] \in {"entry"} \cup HoldsEntry /\ graded'[q] = graded[q]
  BY <1>6 DEF SubmitLock, TypeOK, HoldsEntry
<1>7. ASSUME NEW r \in Requests, SubmitEntry(r) \/ SubmitView(r)
      PROVE  pc[q] \in {"entry"} \cup HoldsEntry /\ graded'[q] = graded[q]
  BY <1>7 DEF SubmitEntry, SubmitView, TypeOK, HoldsEntry
<1>8. ASSUME NEW r \in Requests, NEW t \in Students, SubmitRank(r, t)
      PROVE  pc[q] \in {"entry"} \cup HoldsEntry /\ graded'[q] = graded[q]
  BY <1>8 DEF SubmitRank
<1>9. ASSUME NEW r \in Requests,
             StartInsert(r) \/ SubmitCommit(r) \/ Drop(r) \/ DeadlockVictim(r)
      PROVE  pc[q] \in {"entry"} \cup HoldsEntry /\ graded'[q] = graded[q]
  BY <1>2, <1>9 DEF StartInsert, SubmitCommit, Drop, DeadlockVictim
<1>10. CASE Tick \/ Faculty \/ UNCHANGED vars
  BY <1>1, <1>10 DEF Tick, Faculty, PublishAssessment, UpdateAssessment, vars
<1> QED
  BY <1>1, <1>3, <1>4, <1>5, <1>6, <1>7, <1>8, <1>9, <1>10 DEF Next, Start, Submit

-----------------------------------------------------------------------------
(* The leaderboard keeps every student's best *)

\* The part of BoardKeepsBest about one student.
BestOf(s) ==
    /\ board[s].listed <=> Submitted(s) # {}
    /\ \A a \in Submitted(s) : /\ attempts[a].score <= board[s].score
                               /\ attempts[a].pct <= board[s].pct
    /\ board[s].listed =>
          /\ \E a \in Submitted(s) : attempts[a].score = board[s].score
          /\ \E a \in Submitted(s) : attempts[a].pct = board[s].pct

\* At first nobody is listed, and nothing has been submitted.
LEMMA InitBest == Init => BoardKeepsBest
<1> SUFFICES ASSUME Init, NEW s \in Students PROVE BestOf(s)
  BY DEF BoardKeepsBest, BestOf
<1>1. Submitted(s) = {}
  BY DEF Init, Submitted, NoRow
<1>2. ~board[s].listed
  BY DEF Init, NoEntry
<1> QED
  BY <1>1, <1>2 DEF BestOf

\* A step that changes no submitted attempt of s and no column of its entry.
LEMMA BestKept ==
    ASSUME NEW s \in Students, BestOf(s),
           Submitted(s)' = Submitted(s),
           \A a \in Submitted(s) : attempts'[a] = attempts[a],
           board'[s].listed = board[s].listed,
           board'[s].score = board[s].score,
           board'[s].pct = board[s].pct
    PROVE  BestOf(s)'
  BY DEF BestOf

\* A commit adds one submission, and the best of what there was with it.
LEMMA NextBest ==
    ASSUME TypeOK, RowsLocked, EntriesLocked, BlankRows, BoardKeepsBest, [Next]_vars
    PROVE  BoardKeepsBest'
<1> SUFFICES ASSUME NEW s \in Students PROVE BestOf(s)'
  BY DEF BoardKeepsBest, BestOf
<1>0. BestOf(s)
  BY DEF BoardKeepsBest, BestOf
<1>1. CASE UNCHANGED <<attempts, board>>
  BY <1>0, <1>1 DEF BestOf, Submitted
<1>2. ASSUME NEW r \in Requests, StartInsert(r)
      PROVE  BestOf(s)'
  <2>1. board' = board
    BY <1>2 DEF StartInsert
  <2>2. PICK a \in Absent : /\ attempts'[a] = Opened(job[r].student)
                            /\ \A b \in AttemptIds : b # a => attempts'[b] = attempts[b]
    BY <1>2, InsertWrites
  <2>3. \A b \in Submitted(s) : b # a
    BY DEF Submitted, Absent
  <2>4. Submitted(s)' = Submitted(s)
    BY <2>2, <2>3 DEF Submitted, Opened, Absent
  <2>5. \A b \in Submitted(s) : attempts'[b] = attempts[b]
    BY <2>2, <2>3 DEF Submitted
  <2> QED
    BY <1>0, <2>1, <2>4, <2>5, BestKept
<1>3. ASSUME NEW r \in Requests, SubmitCommit(r)
      PROVE  BestOf(s)'
  <2> DEFINE a == job[r].attempt
             e == board[s]
             g == graded[r]
  <2>1. /\ a \in AttemptIds
        /\ attempts[a].student = job[r].student /\ attempts[a].status = "in_progress"
        /\ attempts'[a] = Closed(attempts[a], g)
        /\ \A b \in AttemptIds : b # a => attempts'[b] = attempts[b]
    BY <1>3, CommitWrites
  <2>2. \A b \in Submitted(s) : b # a /\ attempts'[b] = attempts[b]
    BY <2>1 DEF Submitted
  <2>3. CASE s # job[r].student
    <3>1. Submitted(s)' = Submitted(s)
      BY <2>1, <2>2, <2>3 DEF Submitted, Closed
    <3>2. /\ board'[s].listed = board[s].listed
          /\ board'[s].score = board[s].score
          /\ board'[s].pct = board[s].pct
      BY <1>3, <2>3, CommitWrites
    <3> QED
      BY <1>0, <2>2, <3>1, <3>2, BestKept
  <2>4. CASE s = job[r].student
    <3>1. Submitted(s)' = Submitted(s) \cup {a}
      BY <2>1, <2>2, <2>4 DEF Submitted, Closed
    <3>2. attempts'[a].score = g.score /\ attempts'[a].pct = g.pct
      BY <2>1 DEF Closed
    <3>3. /\ board'[s].listed
          /\ board'[s].score = Greatest(e.score, g.score)
          /\ board'[s].pct = Greatest(e.pct, g.pct)
      BY <1>3, <2>4, CommitWrites DEF Upsert
    <3>4. /\ e.score \in Nat /\ e.pct \in Nat /\ g.score \in Nat /\ g.pct \in Nat
          /\ \A b \in Submitted(s) : attempts[b].score \in Nat /\ attempts[b].pct \in Nat
      BY DEF TypeOK, Entry, AttemptRow, Submitted
    <3>5. \A b \in Submitted(s)' : /\ attempts'[b].score <= board'[s].score
                                   /\ attempts'[b].pct <= board'[s].pct
      <4>1. ASSUME NEW b \in Submitted(s)
            PROVE  /\ attempts'[b].score <= board'[s].score
                   /\ attempts'[b].pct <= board'[s].pct
        <5>1. attempts[b].score <= e.score /\ attempts[b].pct <= e.pct
          BY <1>0 DEF BestOf
        <5> QED
          BY <2>2, <3>3, <3>4, <5>1 DEF Greatest
      <4> QED
        BY <3>1, <3>2, <3>3, <3>4, <4>1 DEF Greatest
    <3>6. \E b \in Submitted(s)' : attempts'[b].score = board'[s].score
      <4>1. CASE e.listed
        <5>1. PICK b \in Submitted(s) : attempts[b].score = e.score
          BY <1>0, <4>1 DEF BestOf
        <5> QED
          BY <2>2, <3>1, <3>2, <3>3, <5>1 DEF Greatest
      <4>2. CASE ~e.listed
        <5>1. e.score = 0
          BY <4>2 DEF BlankRows
        <5>2. board'[s].score = g.score
          BY <3>3, <3>4, <5>1 DEF Greatest
        <5> QED
          BY <3>1, <3>2, <5>2
      <4> QED
        BY <4>1, <4>2
    <3>7. \E b \in Submitted(s)' : attempts'[b].pct = board'[s].pct
      <4>1. CASE e.listed
        <5>1. PICK b \in Submitted(s) : attempts[b].pct = e.pct
          BY <1>0, <4>1 DEF BestOf
        <5> QED
          BY <2>2, <3>1, <3>2, <3>3, <5>1 DEF Greatest
      <4>2. CASE ~e.listed
        <5>1. e.pct = 0
          BY <4>2 DEF BlankRows
        <5>2. board'[s].pct = g.pct
          BY <3>3, <3>4, <5>1 DEF Greatest
        <5> QED
          BY <3>1, <3>2, <5>2
      <4> QED
        BY <4>1, <4>2
    <3> QED
      BY <3>1, <3>3, <3>5, <3>6, <3>7 DEF BestOf
  <2> QED
    BY <2>3, <2>4
<1> QED
  BY <1>1, <1>2, <1>3, OthersWriteNothing

-----------------------------------------------------------------------------
(* What ROW_NUMBER() returns *)

\* Rows can be counted.
LEMMA ListedFinite ==
    ASSUME NEW b
    PROVE  IsFiniteSet(Listed(b)) /\ Cardinality(Listed(b)) \in Nat
<1>1. Listed(b) \in SUBSET Students
  BY DEF Listed
<1>2. IsFiniteSet(Listed(b))
  BY <1>1, FS_Subset
<1> QED
  BY <1>2, FS_CardinalityType

\* More rows, a larger number of them.
LEMMA ListedGrows ==
    ASSUME NEW b, NEW c, \A s \in Students : b[s].listed => c[s].listed
    PROVE  Cardinality(Listed(b)) <= Cardinality(Listed(c))
<1>1. Listed(b) \in SUBSET Listed(c)
  BY DEF Listed
<1> QED
  BY <1>1, ListedFinite, FS_Subset

\* The ranks depend on who is listed, on the percentages and on the times.
LEMMA RowNumbersSame ==
    ASSUME NEW b, NEW c,
           \A s \in Students : /\ c[s].listed = b[s].listed
                               /\ c[s].pct = b[s].pct
                               /\ c[s].time = b[s].time
    PROVE  Listed(c) = Listed(b) /\ RowNumbers(c) = RowNumbers(b)
<1>1. Listed(c) = Listed(b)
  BY DEF Listed
<1>2. \A s, t \in Listed(b) : Ahead(c[s], c[t]) <=> Ahead(b[s], b[t])
  BY DEF Listed, Ahead
<1>3. ASSUME NEW k \in [Students -> 0 .. Cardinality(Listed(b))]
      PROVE  k \in RowNumbers(c) <=> k \in RowNumbers(b)
  BY <1>1, <1>2 DEF RowNumbers
<1> QED
  BY <1>1, <1>3 DEF RowNumbers

\* A set of numbered things that fits into an interval is no larger than it.
LEMMA FitsInto ==
    ASSUME NEW A, NEW m \in Nat, NEW n \in Nat, NEW f, f \in [A -> m .. n], m <= n + 1,
           \A x, y \in A : x # y => f[x] # f[y]
    PROVE  IsFiniteSet(A) /\ Cardinality(A) \in Nat /\ Cardinality(A) + m <= n + 1
<1>1. f \in Injection(A, m .. n)
  BY DEF Injection, IsInjective
<1>2. IsFiniteSet(m .. n) /\ Cardinality(m .. n) + m = n + 1
  <2>1. m \in Int /\ n \in Int
    OBVIOUS
  <2>2. IsFiniteSet(m .. n) /\ Cardinality(m .. n) = IF m > n THEN 0 ELSE n - m + 1
    BY <2>1, FS_Interval
  <2> QED
    BY <2>2
<1>3. IsFiniteSet(A) /\ Cardinality(A) <= Cardinality(m .. n)
  BY <1>1, <1>2, FS_Injection
<1>4. Cardinality(A) \in Nat /\ Cardinality(m .. n) \in Nat
  BY <1>2, <1>3, FS_CardinalityType
<1> QED
  BY <1>2, <1>3, <1>4

\* A row's number is greater than that of the rows ahead of it, and leaves room for
\* those behind: for a row that ties with no other it is its position.
LEMMA RankIsPosition ==
    ASSUME NEW b, NEW k \in RowNumbers(b), NEW s \in Listed(b)
    PROVE  /\ k[s] \in 1 .. Cardinality(Listed(b))
           /\ Cardinality({t \in Listed(b) : Ahead(b[t], b[s])}) < k[s]
           /\ k[s] + Cardinality({t \in Listed(b) : Ahead(b[s], b[t])})
                <= Cardinality(Listed(b))
<1> DEFINE n == Cardinality(Listed(b))
           A == {t \in Listed(b) : Ahead(b[t], b[s])}
           B == {t \in Listed(b) : Ahead(b[s], b[t])}
<1>1. n \in Nat
  BY ListedFinite
<1>2. /\ k \in [Students -> 0 .. n]
      /\ \A t \in Listed(b) : t \in Students /\ k[t] # 0
      /\ \A t, u \in Listed(b) : t # u => k[t] # k[u]
      /\ \A t, u \in Listed(b) : Ahead(b[t], b[u]) => k[t] < k[u]
  BY Zenon DEF RowNumbers, Listed
<1> HIDE DEF n
<1>3. \A t \in Listed(b) : k[t] \in 1 .. n
  BY <1>1, <1>2
<1>4. Cardinality(A) + 1 <= k[s]
  <2>1. [t \in A |-> k[t]] \in [A -> 1 .. (k[s] - 1)]
    BY <1>1, <1>2, <1>3
  <2>2. \A t, u \in A : t # u => [x \in A |-> k[x]][t] # [x \in A |-> k[x]][u]
    BY <1>2
  <2>3. k[s] - 1 \in Nat /\ 1 \in Nat /\ 1 <= (k[s] - 1) + 1
    BY <1>1, <1>3
  <2> HIDE DEF A
  <2>4. Cardinality(A) \in Nat /\ Cardinality(A) + 1 <= (k[s] - 1) + 1
    BY <2>1, <2>2, <2>3, FitsInto
  <2> QED
    BY <1>1, <1>3, <2>4
<1>5. k[s] + Cardinality(B) <= n
  <2>1. [t \in B |-> k[t]] \in [B -> (k[s] + 1) .. n]
    BY <1>1, <1>2, <1>3
  <2>2. \A t, u \in B : t # u => [x \in B |-> k[x]][t] # [x \in B |-> k[x]][u]
    BY <1>2
  <2>3. k[s] + 1 \in Nat /\ k[s] + 1 <= n + 1
    BY <1>1, <1>3
  <2> HIDE DEF B
  <2>4. Cardinality(B) \in Nat /\ Cardinality(B) + (k[s] + 1) <= n + 1
    BY <1>1, <2>1, <2>2, <2>3, FitsInto
  <2> QED
    BY <1>1, <1>3, <2>4
<1>6. Cardinality(A) \in Nat
  <2>1. A \in SUBSET Listed(b)
    OBVIOUS
  <2> QED
    BY <2>1, ListedFinite, FS_Subset, FS_CardinalityType
<1> QED
  BY <1>1, <1>3, <1>4, <1>5, <1>6 DEF n

\* Whatever is on the leaderboard, the rows can be numbered.
LEMMA RowNumbersExist ==
    ASSUME NEW b \in [Students -> Entry]
    PROVE  RowNumbers(b) # {}
<1> DEFINE L == Listed(b)
<1>1. L \subseteq Students /\ IsFiniteSet(L) /\ Cardinality(L) \in Nat
  BY ListedFinite DEF Listed
<1>2. PICK e : /\ e \in [Students -> Nat]
               /\ \A s, t \in Students : e[s] = e[t] => s = t
  <2>1. Cardinality(Students) \in Nat
    BY FS_CardinalityType
  <2>2. /\ IsFiniteSet(1 .. Cardinality(Students))
        /\ Cardinality(1 .. Cardinality(Students)) = Cardinality(Students)
    BY <2>1, FS_Interval
  <2>3. ExistsBijection(Students, 1 .. Cardinality(Students))
    BY <2>2, FS_SameCardinalityBij
  <2>4. PICK f \in Bijection(Students, 1 .. Cardinality(Students)) : TRUE
    BY <2>3 DEF ExistsBijection
  <2>5. f \in [Students -> 1 .. Cardinality(Students)]
        /\ \A s, t \in Students : f[s] = f[t] => s = t
    BY <2>4 DEF Bijection, Injection, IsInjective
  <2>6. f \in [Students -> Nat]
    BY <2>1, <2>5
  <2> QED
    BY <2>5, <2>6
<1> DEFINE Before(s, t) == \/ Ahead(b[s], b[t])
                           \/ ~Ahead(b[t], b[s]) /\ e[s] <= e[t]
           D(t) == {s \in L : Before(s, t)}
           k == [t \in Students |-> IF t \in L THEN Cardinality(D(t)) ELSE 0]
<1>3. \A s \in L : b[s].pct \in Nat /\ b[s].time \in Nat /\ e[s] \in Nat
  BY <1>1, <1>2 DEF Entry
<1>4. \A s \in L : Before(s, s)
  BY <1>3 DEF Ahead
<1>5. \A s, t \in L : s # t => (Before(s, t) <=> ~Before(t, s))
  BY <1>1, <1>2, <1>3 DEF Ahead
<1>6. \A s, t, u \in L : Before(s, t) /\ Before(t, u) => Before(s, u)
  BY <1>3 DEF Ahead
<1>7. \A s, t \in L : Ahead(b[s], b[t]) => s # t /\ Before(s, t)
  BY <1>3 DEF Ahead
<1> HIDE DEF Before
<1>8. ASSUME NEW t \in L
      PROVE  /\ IsFiniteSet(D(t))
             /\ Cardinality(D(t)) \in 1 .. Cardinality(L)
  <2>1. D(t) \in SUBSET L
    OBVIOUS
  <2>2. IsFiniteSet(D(t)) /\ Cardinality(D(t)) <= Cardinality(L)
    BY <1>1, <2>1, FS_Subset
  <2>3. Cardinality(D(t)) \in Nat
    BY <2>2, FS_CardinalityType
  <2>4. D(t) # {}
    BY <1>4
  <2>5. Cardinality(D(t)) # 0
    BY <2>2, <2>4, FS_EmptySet
  <2> QED
    BY <1>1, <2>2, <2>3, <2>5
<1>9. ASSUME NEW s \in L, NEW t \in L, s # t, Before(s, t)
      PROVE  Cardinality(D(s)) < Cardinality(D(t))
  <2>1. D(s) \in SUBSET D(t)
    BY <1>6, <1>9
  <2>2. t \in D(t) /\ t \notin D(s)
    BY <1>4, <1>5, <1>9
  <2>3. IsFiniteSet(D(t))
    BY <1>8
  <2>4. Cardinality(D(s)) <= Cardinality(D(t)) /\ Cardinality(D(s)) # Cardinality(D(t))
    BY <2>1, <2>2, <2>3, FS_Subset
  <2> HIDE DEF D
  <2>5. Cardinality(D(s)) \in Nat /\ Cardinality(D(t)) \in Nat
    BY <1>1, <1>8
  <2> QED
    BY <2>4, <2>5
<1> HIDE DEF D
<1>10. k \in [Students -> 0 .. Cardinality(L)]
  BY <1>1, <1>8
<1>11. \A s \in Students : k[s] = 0 <=> ~b[s].listed
  BY <1>1, <1>8 DEF Listed
<1>12. \A s, t \in L : s # t => k[s] # k[t]
  <2> SUFFICES ASSUME NEW s \in L, NEW t \in L, s # t
               PROVE  Cardinality(D(s)) # Cardinality(D(t))
    BY <1>1
  <2>1. Cardinality(D(s)) \in Nat /\ Cardinality(D(t)) \in Nat
    BY <1>1, <1>8
  <2>2. CASE Before(s, t)
    BY <1>9, <2>1, <2>2
  <2>3. CASE Before(t, s)
    BY <1>9, <2>1, <2>3
  <2> QED
    BY <1>5, <2>2, <2>3
<1>13. \A s, t \in L : Ahead(b[s], b[t]) => k[s] < k[t]
  BY <1>1, <1>7, <1>9
<1> HIDE DEF k
<1>14. k \in RowNumbers(b)
  BY <1>10, <1>11, <1>12, <1>13 DEF RowNumbers
<1> QED
  BY <1>14

-----------------------------------------------------------------------------
(* No lock outlives its transaction *)

\* At first nothing is locked.
LEMMA InitLocks == Init => LocksOwned
  BY DEF Init, LocksOwned

\* The locks of a request that ends are free, and those of the others are as before.
LEMMA FinishLocks ==
    ASSUME TypeOK, LocksOwned, NEW r \in Requests, Finish(r)
    PROVE  LocksOwned'
<1>1. /\ \A a \in AttemptIds : rowLock'[a] # r
      /\ \A s \in Students : entryLock'[s] # r
  BY DEF Finish, TypeOK
<1>2. ASSUME NEW q \in Requests, NEW a \in AttemptIds, rowLock'[a] = q
      PROVE  pc'[q] \in HoldsRow /\ job'[q].attempt = a
  BY <1>1, <1>2, FinishOthers DEF LocksOwned
<1>3. ASSUME NEW q \in Requests, NEW s \in Students, entryLock'[s] = q
      PROVE  /\ pc'[q] \in HoldsEntry
             /\ s # job'[q].student => pc'[q] = "rank" /\ s \notin todo'[q]
  <2>1. q # r
    BY <1>1, <1>3
  <2>2. /\ pc'[q] = pc[q] /\ job'[q] = job[q] /\ todo'[q] = todo[q]
        /\ entryLock[s] = q
    BY <1>3, <2>1, FinishOthers
  <2> QED
    BY <2>2 DEF LocksOwned
<1> QED
  BY <1>2, <1>3 DEF LocksOwned

\* A request that is not in a transaction holds no lock.
LEMMA OutsideNoLocks ==
    ASSUME LocksOwned, NEW r \in Requests
    PROVE  /\ pc[r] \notin HoldsRow => \A a \in AttemptIds : rowLock[a] # r
           /\ pc[r] \notin HoldsEntry => \A s \in Students : entryLock[s] # r
  BY DEF LocksOwned

\* A lock is taken by the transaction that is at the statement for it, and given up
\* by the end of the request only.
LEMMA NextLocks ==
    ASSUME TypeOK, RowsLocked, LocksOwned, [Next]_vars
    PROVE  LocksOwned'
<1> USE DEF tables, locks, local, history
<1>1. CASE UNCHANGED <<rowLock, entryLock, pc, job, todo>>
  BY <1>1 DEF LocksOwned
<1>2. CASE Tick \/ Faculty \/ UNCHANGED vars
  BY <1>1, <1>2 DEF Tick, Faculty, PublishAssessment, UpdateAssessment, vars
<1>3. ASSUME NEW r \in Requests, Drop(r) \/ DeadlockVictim(r) \/ StartInsert(r)
                                   \/ SubmitCommit(r)
      PROVE  LocksOwned'
  BY <1>3, FinishLocks DEF Drop, DeadlockVictim, StartInsert, SubmitCommit
<1>4. ASSUME NEW r \in Requests, NEW s \in Students, StartAdmit(r, s)
      PROVE  LocksOwned'
  <2>1. /\ \A a \in AttemptIds : rowLock[a] # r
        /\ \A t \in Students : entryLock[t] # r
    BY <1>4, OutsideNoLocks DEF StartAdmit, HoldsRow, HoldsEntry
  <2>2. /\ rowLock' = rowLock /\ entryLock' = entryLock /\ todo' = todo
        /\ \A q \in Requests : q # r => pc'[q] = pc[q] /\ job'[q] = job[q]
    BY <1>4 DEF StartAdmit, TypeOK
  <2> QED
    BY <2>1, <2>2 DEF LocksOwned
<1>5. ASSUME NEW r \in Requests, StartCheck(r)
      PROVE  LocksOwned'
  <2>1. CASE Finish(r)
    BY <2>1, FinishLocks
  <2>2. CASE pc' = [pc EXCEPT ![r] = "insert"] /\ UNCHANGED <<locks, local>>
    <3>1. /\ \A a \in AttemptIds : rowLock[a] # r
          /\ \A t \in Students : entryLock[t] # r
      BY <1>5, OutsideNoLocks DEF StartCheck, HoldsRow, HoldsEntry
    <3>2. \A q \in Requests : q # r => pc'[q] = pc[q]
      BY <2>2 DEF TypeOK
    <3> QED
      BY <2>2, <3>1, <3>2 DEF LocksOwned
  <2> QED
    BY <1>5, <2>1, <2>2 DEF StartCheck
<1>6. ASSUME NEW r \in Requests, NEW s \in Students, NEW a \in AttemptIds,
             SubmitLock(r, s, a)
      PROVE  LocksOwned'
  <2>1. /\ \A b \in AttemptIds : rowLock[b] # r
        /\ \A t \in Students : entryLock[t] # r
    BY <1>6, OutsideNoLocks DEF SubmitLock, HoldsRow, HoldsEntry
  <2>2. /\ rowLock' = [rowLock EXCEPT ![a] = r] /\ entryLock' = entryLock /\ todo' = todo
        /\ \A q \in Requests : q # r => pc'[q] = pc[q] /\ job'[q] = job[q]
        /\ pc'[r] = "grade" /\ job'[r].attempt = a
    BY <1>6 DEF SubmitLock, TypeOK
  <2>3. ASSUME NEW b \in AttemptIds, NEW q \in Requests, rowLock'[b] = q
        PROVE  pc'[q] \in HoldsRow /\ job'[q].attempt = b
    BY <2>1, <2>2, <2>3 DEF LocksOwned, HoldsRow, TypeOK
  <2>4. ASSUME NEW t \in Students, NEW q \in Requests, entryLock'[t] = q
        PROVE  /\ pc'[q] \in HoldsEntry
               /\ t # job'[q].student => pc'[q] = "rank" /\ t \notin todo'[q]
    BY <2>1, <2>2, <2>4 DEF LocksOwned
  <2> QED
    BY <2>3, <2>4 DEF LocksOwned
<1>7. ASSUME NEW r \in Requests, SubmitGrade(r)
      PROVE  LocksOwned'
  <2>1. \A t \in Students : entryLock[t] # r
    BY <1>7, OutsideNoLocks DEF SubmitGrade, HoldsEntry
  <2>2. /\ UNCHANGED <<rowLock, entryLock, job, todo>>
        /\ \A q \in Requests : q # r => pc'[q] = pc[q]
        /\ pc'[r] = "entry"
    BY <1>7 DEF SubmitGrade, TypeOK
  <2> QED
    BY <2>1, <2>2 DEF LocksOwned, HoldsRow
<1>8. ASSUME NEW r \in Requests, SubmitEntry(r)
      PROVE  LocksOwned'
  <2>1. \A t \in Students : entryLock[t] # r
    BY <1>8, OutsideNoLocks DEF SubmitEntry, HoldsEntry
  <2>2. /\ UNCHANGED <<rowLock, job, todo>>
        /\ entryLock' = [entryLock EXCEPT ![job[r].student] = r]
        /\ \A q \in Requests : q # r => pc'[q] = pc[q]
        /\ pc'[r] = "view"
    BY <1>8 DEF SubmitEntry, TypeOK
  <2>3. ASSUME NEW t \in Students, NEW q \in Requests, entryLock'[t] = q
        PROVE  /\ pc'[q] \in HoldsEntry
               /\ t # job'[q].student => pc'[q] = "rank" /\ t \notin todo'[q]
    BY <2>1, <2>2, <2>3 DEF LocksOwned, HoldsEntry, TypeOK
  <2>4. ASSUME NEW b \in AttemptIds, NEW q \in Requests, rowLock'[b] = q
        PROVE  pc'[q] \in HoldsRow /\ job'[q].attempt = b
    BY <2>2, <2>4 DEF LocksOwned, HoldsRow
  <2> QED
    BY <2>3, <2>4 DEF LocksOwned
<1>9. ASSUME NEW r \in Requests, SubmitView(r)
      PROVE  LocksOwned'
  <2>1. /\ UNCHANGED <<rowLock, entryLock, job>>
        /\ \A q \in Requests : q # r => pc'[q] = pc[q] /\ todo'[q] = todo[q]
        /\ pc[r] = "view" /\ pc'[r] = "rank"
    BY <1>9 DEF SubmitView, TypeOK
  <2>2. ASSUME NEW t \in Students, NEW q \in Requests, entryLock'[t] = q
        PROVE  /\ pc'[q] \in HoldsEntry
               /\ t # job'[q].student => pc'[q] = "rank" /\ t \notin todo'[q]
    BY <2>1, <2>2 DEF LocksOwned, HoldsEntry
  <2>3. ASSUME NEW b \in AttemptIds, NEW q \in Requests, rowLock'[b] = q
        PROVE  pc'[q] \in HoldsRow /\ job'[q].attempt = b
    BY <2>1, <2>3 DEF LocksOwned, HoldsRow
  <2> QED
    BY <2>2, <2>3 DEF LocksOwned
<1>10. ASSUME NEW r \in Requests, NEW t \in Students, SubmitRank(r, t)
       PROVE  LocksOwned'
  <2>1. /\ UNCHANGED <<rowLock, pc, job>>
        /\ entryLock' = [entryLock EXCEPT ![t] = r]
        /\ \A q \in Requests : todo'[q] = IF q = r THEN todo[r] \ {t} ELSE todo[q]
        /\ pc[r] = "rank"
    BY <1>10 DEF SubmitRank, TypeOK
  <2>2. ASSUME NEW u \in Students, NEW q \in Requests, entryLock'[u] = q
        PROVE  /\ pc'[q] \in HoldsEntry
               /\ u # job'[q].student => pc'[q] = "rank" /\ u \notin todo'[q]
    <3>1. CASE u = t
      BY <2>1, <2>2, <3>1 DEF HoldsEntry, TypeOK
    <3>2. CASE u # t
      <4>1. entryLock[u] = q
        BY <2>1, <2>2, <3>2 DEF TypeOK
      <4>2. /\ pc[q] \in HoldsEntry
            /\ u # job[q].student => pc[q] = "rank" /\ u \notin todo[q]
        BY <4>1 DEF LocksOwned
      <4>3. u \notin todo[q] => u \notin todo'[q]
        BY <2>1
      <4> QED
        BY <2>1, <4>2, <4>3
    <3> QED
      BY <3>1, <3>2
  <2> QED
    BY <2>1, <2>2 DEF LocksOwned
<1> QED
  BY <1>2, <1>3, <1>4, <1>5, <1>6, <1>7, <1>8, <1>9, <1>10 DEF Next, Start, Submit

-----------------------------------------------------------------------------
(* Open attempts of one student *)

\* Requests about to insert an attempt of student s.
Inserting(s) == {r \in Requests : pc[r] = "insert" /\ job[r].student = s}

\* Open attempts can be counted, and requests that insert.
LEMMA OpenFinite ==
    ASSUME NEW s
    PROVE  /\ IsFiniteSet(Open(s)) /\ Cardinality(Open(s)) \in Nat
           /\ IsFiniteSet(Inserting(s)) /\ Cardinality(Inserting(s)) \in Nat
           /\ Cardinality(Inserting(s)) <= Cardinality(Requests)
           /\ Cardinality(Requests) \in Nat
<1>1. Open(s) \in SUBSET AttemptIds /\ Inserting(s) \in SUBSET Requests
  BY DEF Open, Inserting
<1> QED
  BY <1>1, FS_Subset, FS_CardinalityType

\* The same after a step.
LEMMA OpenFiniteNext ==
    ASSUME NEW s
    PROVE  /\ IsFiniteSet(Open(s)') /\ Cardinality(Open(s)') \in Nat
           /\ IsFiniteSet(Inserting(s)') /\ Cardinality(Inserting(s)') \in Nat
           /\ Cardinality(Inserting(s)') <= Cardinality(Requests)
<1>1. Open(s)' \in SUBSET AttemptIds /\ Inserting(s)' \in SUBSET Requests
  BY DEF Open, Inserting
<1> QED
  BY <1>1, FS_Subset, FS_CardinalityType

\* The bound for student s.
Bounded(s) == Cardinality(Open(s)) + Cardinality(Inserting(s)) <= Cardinality(Requests)

\* The invariant, student by student.
LEMMA DuplicatesBounded ==
    DuplicatesNeedOverlap <=> \A s \in Students : Bounded(s)
  BY DEF DuplicatesNeedOverlap, Bounded, Inserting

\* With no new open attempt, and nobody new who inserts, the bound stays.
LEMMA FewerOpen ==
    ASSUME NEW s, Bounded(s), Open(s)' \subseteq Open(s),
           Inserting(s)' \subseteq Inserting(s)
    PROVE  Bounded(s)'
<1>1. /\ Cardinality(Open(s)') <= Cardinality(Open(s))
      /\ Cardinality(Inserting(s)') <= Cardinality(Inserting(s))
  BY OpenFinite, FS_Subset
<1> QED
  BY <1>1, OpenFinite, OpenFiniteNext DEF Bounded

\* At first nobody has an open attempt.
LEMMA InitDuplicates == Init => DuplicatesNeedOverlap
<1> SUFFICES ASSUME Init, NEW s \in Students PROVE Bounded(s)
  BY DuplicatesBounded
<1>1. Open(s) = {}
  BY DEF Init, Open, NoRow
<1>2. Cardinality(Open(s)) = 0
  BY <1>1, FS_EmptySet
<1> QED
  BY <1>2, OpenFinite DEF Bounded

\* Ending a request adds nobody who inserts.
LEMMA FinishInserting ==
    ASSUME TypeOK, NEW r \in Requests, Finish(r), NEW s
    PROVE  Inserting(s)' = Inserting(s) \ {r}
<1>1. pc'[r] = "idle"
  BY DEF Finish, TypeOK
<1> QED
  BY <1>1, FinishOthers DEF Inserting

\* A request goes on to insert only when its student has no open attempt, and its
\* insert trades one who inserts for one open attempt.
LEMMA NextDuplicates ==
    ASSUME TypeOK, RowsLocked, EntriesLocked, BlankRows, DuplicatesNeedOverlap, [Next]_vars
    PROVE  DuplicatesNeedOverlap'
<1> USE DEF tables, locks, local, history
<1> SUFFICES ASSUME NEW s \in Students PROVE Bounded(s)'
  BY DEF DuplicatesNeedOverlap, Bounded, Inserting
<1>0. Bounded(s)
  BY DuplicatesBounded
<1>1. CASE UNCHANGED <<attempts, pc, job>>
  BY <1>0, <1>1, FewerOpen DEF Open, Inserting
<1>2. CASE Tick \/ Faculty \/ UNCHANGED vars
  BY <1>1, <1>2 DEF Tick, Faculty, PublishAssessment, UpdateAssessment, vars
<1>3. ASSUME NEW r \in Requests, NEW t \in Students, StartAdmit(r, t)
      PROVE  Bounded(s)'
  <2>1. Open(s)' = Open(s) /\ Inserting(s)' \subseteq Inserting(s)
    BY <1>3 DEF StartAdmit, Open, Inserting, TypeOK
  <2> QED
    BY <1>0, <2>1, FewerOpen
<1>4. ASSUME NEW r \in Requests, Finish(r), UNCHANGED attempts
      PROVE  Bounded(s)'
  <2>1. Open(s)' = Open(s) /\ Inserting(s)' \subseteq Inserting(s)
    BY <1>4, FinishInserting DEF Open
  <2> QED
    BY <1>0, <2>1, FewerOpen
<1>5. ASSUME NEW r \in Requests, StartCheck(r)
      PROVE  Bounded(s)'
  <2>1. CASE Finish(r)
    BY <1>4, <1>5, <2>1 DEF StartCheck
  <2>2. CASE /\ Open(job[r].student) = {}
             /\ pc' = [pc EXCEPT ![r] = "insert"]
             /\ UNCHANGED <<locks, local>>
    <3>1. Open(s)' = Open(s) /\ job' = job
      BY <1>5, <2>2 DEF StartCheck, Open
    <3>2. CASE s = job[r].student
      <4>1. Cardinality(Open(s)') = 0
        BY <2>2, <3>1, <3>2, FS_EmptySet
      <4> QED
        BY <4>1, OpenFinite, OpenFiniteNext DEF Bounded
    <3>3. CASE s # job[r].student
      <4>1. Inserting(s)' \subseteq Inserting(s)
        BY <2>2, <3>1, <3>3 DEF Inserting, TypeOK
      <4> QED
        BY <1>0, <3>1, <4>1, FewerOpen
    <3> QED
      BY <3>2, <3>3
  <2> QED
    BY <1>5, <2>1, <2>2 DEF StartCheck
<1>6. ASSUME NEW r \in Requests, StartInsert(r)
      PROVE  Bounded(s)'
  <2>1. PICK a \in Absent : /\ a \in AttemptIds
                            /\ job[r].student \in Students
                            /\ attempts'[a] = Opened(job[r].student)
                            /\ \A b \in AttemptIds : b # a => attempts'[b] = attempts[b]
    BY <1>6, InsertWrites
  <2>2. Inserting(s)' = Inserting(s) \ {r}
    BY <1>6, FinishInserting DEF StartInsert
  <2>3. CASE s = job[r].student
    <3>1. Open(s)' = Open(s) \cup {a} /\ a \notin Open(s)
      BY <2>1, <2>3 DEF Open, Opened, Absent
    <3>2. r \in Inserting(s)
      BY <1>6, <2>3 DEF StartInsert, Inserting
    <3>3. Cardinality(Open(s)') = Cardinality(Open(s)) + 1
      BY <3>1, OpenFinite, FS_AddElement
    <3>4. Cardinality(Inserting(s)') = Cardinality(Inserting(s)) - 1
      BY <2>2, <3>2, OpenFinite, FS_RemoveElement
    <3> QED
      BY <1>0, <3>3, <3>4, OpenFinite, OpenFiniteNext DEF Bounded
  <2>4. CASE s # job[r].student
    <3>1. Open(s)' \subseteq Open(s)
      BY <2>1, <2>4 DEF Open, Opened
    <3> QED
      BY <1>0, <2>2, <3>1, FewerOpen
  <2> QED
    BY <2>3, <2>4
<1>7. ASSUME NEW r \in Requests,
             \/ \E t \in Students, a \in AttemptIds : SubmitLock(r, t, a)
             \/ SubmitGrade(r) \/ SubmitEntry(r) \/ SubmitView(r)
             \/ \E t \in Students : SubmitRank(r, t)
      PROVE  Bounded(s)'
  <2>1. Open(s)' = Open(s) /\ Inserting(s)' \subseteq Inserting(s)
    BY <1>7 DEF SubmitLock, SubmitGrade, SubmitEntry, SubmitView, SubmitRank,
                Open, Inserting, TypeOK
  <2> QED
    BY <1>0, <2>1, FewerOpen
<1>8. ASSUME NEW r \in Requests, SubmitCommit(r)
      PROVE  Bounded(s)'
  <2>1. Open(s)' \subseteq Open(s)
    <3>1. /\ job[r].attempt \in AttemptIds
          /\ attempts'[job[r].attempt] = Closed(attempts[job[r].attempt], graded[r])
          /\ \A b \in AttemptIds : b # job[r].attempt => attempts'[b] = attempts[b]
      BY <1>8, CommitWrites
    <3>2. attempts'[job[r].attempt].status = "submitted"
      BY <3>1 DEF Closed
    <3> QED
      BY <3>1, <3>2 DEF Open
  <2>2. Inserting(s)' \subseteq Inserting(s)
    BY <1>8, FinishInserting DEF SubmitCommit
  <2> QED
    BY <1>0, <2>1, <2>2, FewerOpen
<1>9. ASSUME NEW r \in Requests, Drop(r) \/ DeadlockVictim(r)
      PROVE  Bounded(s)'
  BY <1>4, <1>9 DEF Drop, DeadlockVictim
<1> QED
  BY <1>2, <1>3, <1>5, <1>6, <1>7, <1>8, <1>9 DEF Next, Start, Submit

-----------------------------------------------------------------------------
(* The ranks that commits write *)

\* What r sees is the board with its own row, and nobody is missing in it.
LEMMA ViewRows ==
    ASSUME TypeOK, NEW r \in Requests, NEW t \in Students
    PROVE  View(r)[t] = IF t = job[r].student THEN pending[r] ELSE board[t]
  BY DEF View, TypeOK

\* At first nobody ranks.
LEMMA InitSound == Init => RankingsSound
  BY DEF Init, RankingsSound, RankingSound

\* At first nobody is listed.
LEMMA InitExact == Init => RanksExact
<1> SUFFICES ASSUME Init PROVE RanksExact
  OBVIOUS
<1>1. \A s \in Students : board[s] = NoEntry
  BY DEF Init
<1>2. Listed(board) = {}
  BY <1>1 DEF Listed, NoEntry
<1>3. Cardinality(Listed(board)) = 0
  BY <1>2, FS_EmptySet
<1>4. RanksWithin
  BY <1>1, <1>3 DEF RanksWithin, NoEntry
<1>5. [s \in Students |-> board[s].rank] \in RowNumbers(board)
  BY <1>1, <1>2, <1>3 DEF RowNumbers, NoEntry
<1> QED
  BY <1>4, <1>5 DEF RanksExact

\* A step that leaves q, the rows it sees and the locks it has alone.
LEMMA SoundKept ==
    ASSUME NEW q \in Requests, RankingSound(q),
           pc'[q] = pc[q], job'[q] = job[q], ranking'[q] = ranking[q], todo'[q] = todo[q],
           View(q)' = View(q),
           pc[q] = "rank" => \A t \in Students : entryLock[t] = q => entryLock'[t] = q,
           q \notin crossed' => q \notin crossed
    PROVE  RankingSound(q)'
  BY DEF RankingSound

\* A commit writes the rows that the transaction sees, with the ranks it has given
\* them; a row it has not ranked, that of a student who was not listed then, keeps
\* its rank.
LEMMA CommitBoard ==
    ASSUME TypeOK, RowsLocked, NEW r \in Requests, SubmitCommit(r), NEW t \in Students
    PROVE  /\ board'[t].listed = View(r)[t].listed
           /\ board'[t].pct = View(r)[t].pct
           /\ board'[t].time = View(r)[t].time
           /\ board'[t].rank = IF ranking[r][t] = 0 THEN View(r)[t].rank ELSE ranking[r][t]
<1>1. board'[t] = Ranked(r, t)
  BY DEF SubmitCommit
<1> QED
  BY <1>1, ViewRows, RankedType

\* No row leaves the leaderboard.
LEMMA CommitKeepsListed ==
    ASSUME TypeOK, RowsLocked, EntriesLocked, NEW r \in Requests, SubmitCommit(r),
           NEW t \in Students
    PROVE  /\ board[t].listed => board'[t].listed
           /\ View(r)[job[r].student].listed
<1>1. job[r].student \in Students /\ pending[r].listed
  <2>1. pc[r] = "rank"
    BY DEF SubmitCommit
  <2>2. job[r].student \in Students
    BY <2>1 DEF RowsLocked, RowHeld
  <2> QED
    BY <2>1, <2>2, Zenon DEF EntriesLocked, EntryHeld, HoldsEntry, Upsert
<1>2. View(r)[job[r].student].listed
  BY <1>1, ViewRows
<1>3. board[t].listed => View(r)[t].listed
  BY <1>1, ViewRows
<1> QED
  BY <1>2, <1>3, CommitBoard

\* The ranks a transaction is about to write stay sound, whoever commits meanwhile:
\* what it sees can only have more rows.
LEMMA NextSound ==
    ASSUME TypeOK, RowsLocked, EntriesLocked, LocksOwned, RankingsSound, [Next]_vars
    PROVE  RankingsSound'
<1> USE DEF tables, locks, local, history
<1> SUFFICES ASSUME NEW q \in Requests PROVE RankingSound(q)'
  BY DEF RankingsSound
<1>0. RankingSound(q)
  BY DEF RankingsSound
<1>1. CASE UNCHANGED <<board, entryLock, pc, job, pending, ranking, todo, crossed>>
  BY <1>0, <1>1, SoundKept DEF View
<1>2. CASE Tick \/ Faculty \/ UNCHANGED vars
  BY <1>1, <1>2 DEF Tick, Faculty, PublishAssessment, UpdateAssessment, vars
<1>3. ASSUME NEW r \in Requests, Finish(r), UNCHANGED board,
             crossed' = crossed \/ crossed' = crossed \ {r}
      PROVE  RankingSound(q)'
  <2>1. CASE q = r
    <3>1. pc'[q] = "idle"
      BY <1>3, <2>1 DEF Finish, TypeOK
    <3> QED
      BY <3>1 DEF RankingSound
  <2>2. CASE q # r
    <3>1. /\ pc'[q] = pc[q] /\ job'[q] = job[q] /\ pending'[q] = pending[q]
          /\ ranking'[q] = ranking[q] /\ todo'[q] = todo[q]
          /\ \A s \in Students : entryLock[s] = q => entryLock'[s] = q
      BY <1>3, <2>2, FinishOthers
    <3>2. View(q)' = View(q) /\ (q \notin crossed' => q \notin crossed)
      BY <1>3, <2>2, <3>1 DEF View
    <3> QED
      BY <1>0, <3>1, <3>2, SoundKept
  <2> QED
    BY <2>1, <2>2
<1>4. ASSUME NEW r \in Requests, NEW s \in Students, StartAdmit(r, s)
      PROVE  RankingSound(q)'
  <2>1. CASE q = r
    <3>1. pc'[q] = "check"
      BY <1>4, <2>1 DEF StartAdmit, TypeOK
    <3> QED
      BY <3>1 DEF RankingSound
  <2>2. CASE q # r
    <3>1. /\ pc'[q] = pc[q] /\ job'[q] = job[q]
          /\ UNCHANGED <<board, entryLock, pending, ranking, todo, crossed>>
      BY <1>4, <2>2 DEF StartAdmit, TypeOK
    <3> QED
      BY <1>0, <3>1, SoundKept DEF View
  <2> QED
    BY <2>1, <2>2
<1>5. ASSUME NEW r \in Requests, StartCheck(r)
      PROVE  RankingSound(q)'
  <2>1. CASE Finish(r)
    BY <1>3, <1>5, <2>1 DEF StartCheck
  <2>2. CASE pc' = [pc EXCEPT ![r] = "insert"] /\ UNCHANGED <<locks, local>>
    <3>1. CASE q = r
      <4>1. pc'[q] = "insert"
        BY <2>2, <3>1 DEF TypeOK
      <4> QED
        BY <4>1 DEF RankingSound
    <3>2. CASE q # r
      <4>1. /\ pc'[q] = pc[q]
            /\ UNCHANGED <<board, entryLock, job, pending, ranking, todo, crossed>>
        BY <1>5, <2>2, <3>2 DEF StartCheck, TypeOK
      <4> QED
        BY <1>0, <4>1, SoundKept DEF View
    <3> QED
      BY <3>1, <3>2
  <2> QED
    BY <1>5, <2>1, <2>2 DEF StartCheck
<1>6. ASSUME NEW r \in Requests, StartInsert(r)
      PROVE  RankingSound(q)'
  BY <1>3, <1>6 DEF StartInsert
<1>7. ASSUME NEW r \in Requests, NEW s \in Students, NEW a \in AttemptIds,
             SubmitLock(r, s, a)
      PROVE  RankingSound(q)'
  <2>1. CASE q = r
    <3>1. pc'[q] = "grade"
      BY <1>7, <2>1 DEF SubmitLock, TypeOK
    <3> QED
      BY <3>1 DEF RankingSound
  <2>2. CASE q # r
    <3>1. /\ pc'[q] = pc[q] /\ job'[q] = job[q]
          /\ UNCHANGED <<board, entryLock, pending, ranking, todo, crossed>>
      BY <1>7, <2>2 DEF SubmitLock, TypeOK
    <3> QED
      BY <1>0, <3>1, SoundKept DEF View
  <2> QED
    BY <2>1, <2>2
<1>8. ASSUME NEW r \in Requests, SubmitGrade(r)
      PROVE  RankingSound(q)'
  <2>1. CASE q = r
    <3>1. pc'[q] = "entry"
      BY <1>8, <2>1 DEF SubmitGrade, TypeOK
    <3> QED
      BY <3>1 DEF RankingSound
  <2>2. CASE q # r
    <3>1. /\ pc'[q] = pc[q]
          /\ UNCHANGED <<board, entryLock, job, pending, ranking, todo, crossed>>
      BY <1>8, <2>2 DEF SubmitGrade, TypeOK
    <3> QED
      BY <1>0, <3>1, SoundKept DEF View
  <2> QED
    BY <2>1, <2>2
<1>9. ASSUME NEW r \in Requests, SubmitEntry(r)
      PROVE  RankingSound(q)'
  <2>1. CASE q = r
    <3>1. pc'[q] = "view"
      BY <1>9, <2>1 DEF SubmitEntry, TypeOK
    <3> QED
      BY <3>1 DEF RankingSound
  <2>2. CASE q # r
    <3>1. /\ pc'[q] = pc[q] /\ pending'[q] = pending[q]
          /\ UNCHANGED <<board, job, ranking, todo, crossed>>
          /\ \A t \in Students : entryLock[t] = q => entryLock'[t] = q
      BY <1>9, <2>2 DEF SubmitEntry, TypeOK
    <3> QED
      BY <1>0, <3>1, SoundKept DEF View
  <2> QED
    BY <2>1, <2>2
<1>10. ASSUME NEW r \in Requests, SubmitView(r)
       PROVE  RankingSound(q)'
  <2>1. CASE q = r
    <3> DEFINE s == job[r].student
    <3>1. PICK k \in RowNumbers(View(r)) : ranking' = [ranking EXCEPT ![r] = k]
      BY <1>10 DEF SubmitView
    <3>2. /\ pc[r] = "view" /\ UNCHANGED <<board, entryLock, job, pending, crossed>>
          /\ todo' = [todo EXCEPT ![r] = Listed(View(r)) \ {s}]
      BY <1>10 DEF SubmitView
    <3>3. todo'[r] = Listed(View(r)) \ {s} /\ ranking'[r] = k /\ View(r)' = View(r)
      BY <3>1, <3>2 DEF TypeOK, View
    <3>4. s \in Students /\ entryLock[s] = r /\ pending[r].listed
      <4>1. s \in Students
        BY <3>2 DEF RowsLocked, RowHeld
      <4> QED
        BY <3>2, <4>1, Zenon DEF EntriesLocked, EntryHeld, HoldsEntry, Upsert
    <3>5. /\ k \in [Students -> 0 .. Cardinality(Listed(View(r)))]
          /\ \A t \in Students : k[t] = 0 <=> ~View(r)[t].listed
      BY DEF RowNumbers
    <3>6. k[s] # 0
      BY <3>4, <3>5, ViewRows
    <3>7. Cardinality(Listed(View(r))) \in Nat
      BY ListedFinite
    <3>8. ASSUME NEW t \in Students
          PROVE  /\ k[t] <= Cardinality(Listed(View(r)))
                 /\ k[t] # 0 => /\ View(r)[t].listed
                                /\ t \in todo'[r] \/ entryLock'[t] = r
      BY <3>2, <3>3, <3>4, <3>5, <3>7 DEF Listed
    <3> QED
      BY <2>1, <3>2, <3>3, <3>6, <3>8 DEF RankingSound
  <2>2. CASE q # r
    <3>1. /\ pc'[q] = pc[q] /\ ranking'[q] = ranking[q] /\ todo'[q] = todo[q]
          /\ UNCHANGED <<board, entryLock, job, pending, crossed>>
      BY <1>10, <2>2 DEF SubmitView, TypeOK
    <3> QED
      BY <1>0, <3>1, SoundKept DEF View
  <2> QED
    BY <2>1, <2>2
<1>11. ASSUME NEW r \in Requests, NEW u \in Students, SubmitRank(r, u)
       PROVE  RankingSound(q)'
  <2>1. /\ UNCHANGED <<board, pc, job, pending, ranking, crossed>>
        /\ entryLock[u] = None /\ entryLock' = [entryLock EXCEPT ![u] = r]
        /\ todo'[r] = todo[r] \ {u} /\ \A p \in Requests : p # r => todo'[p] = todo[p]
        /\ u \in todo[r]
    BY <1>11 DEF SubmitRank, TypeOK
  <2>2. View(q)' = View(q)
    BY <2>1 DEF View
  <2>3. CASE q = r
    <3>1. \A t \in Students : t \in todo[r] \/ entryLock[t] = r
                                => t \in todo'[r] \/ entryLock'[t] = r
      BY <2>1 DEF TypeOK
    <3> QED
      BY <1>0, <2>1, <2>2, <2>3, <3>1 DEF RankingSound
  <2>4. CASE q # r
    <3>1. todo'[q] = todo[q] /\ \A t \in Students : entryLock[t] = q => entryLock'[t] = q
      BY <2>1, <2>4 DEF TypeOK
    <3> QED
      BY <1>0, <2>1, <2>2, <3>1, SoundKept
  <2> QED
    BY <2>3, <2>4
<1>12. ASSUME NEW r \in Requests, SubmitCommit(r)
       PROVE  RankingSound(q)'
  <2>1. CASE q = r
    <3>1. pc'[q] = "idle"
      BY <1>12, <2>1 DEF SubmitCommit, Finish, TypeOK
    <3> QED
      BY <3>1 DEF RankingSound
  <2>2. CASE q # r
    <3>1. /\ pc'[q] = pc[q] /\ job'[q] = job[q] /\ pending'[q] = pending[q]
          /\ ranking'[q] = ranking[q] /\ todo'[q] = todo[q]
          /\ \A s \in Students : entryLock[s] = q => entryLock'[s] = q
      BY <1>12, <2>2, FinishOthers DEF SubmitCommit
    <3> SUFFICES ASSUME pc[q] = "rank" PROVE RankingSound(q)'
      BY <3>1 DEF RankingSound
    <3>2. q \in crossed'
      BY <1>12, <2>2 DEF SubmitCommit
    <3>3. board' \in [Students -> Entry]
      BY <1>12, RankedType DEF SubmitCommit
    <3>4. ASSUME NEW t \in Students
          PROVE  View(q)[t].listed => View(q)'[t].listed
      <4>1. View(q)[t] = IF t = job[q].student THEN pending[q] ELSE board[t]
        BY ViewRows
      <4>2. View(q)'[t] = IF t = job[q].student THEN pending[q] ELSE board'[t]
        BY <3>1, <3>3 DEF View
      <4>3. board[t].listed => board'[t].listed
        BY <1>12, CommitKeepsListed
      <4> QED
        BY <4>1, <4>2, <4>3
    <3>5. /\ Cardinality(Listed(View(q))) <= Cardinality(Listed(View(q)'))
          /\ Cardinality(Listed(View(q))) \in Nat /\ Cardinality(Listed(View(q)')) \in Nat
      BY <3>4, ListedGrows, ListedFinite
    <3>6. \A t \in Students : ranking[q][t] \in Nat
      BY DEF TypeOK
    <3>7. Listed(View(q))' = Listed(View(q)')
      BY DEF Listed
    <3> HIDE DEF View
    <3>8. ASSUME NEW t \in Students
          PROVE  /\ ranking'[q][t] <= Cardinality(Listed(View(q))')
                 /\ ranking'[q][t] # 0 => /\ View(q)'[t].listed
                                          /\ t \in todo'[q] \/ entryLock'[t] = q
      BY <1>0, <3>1, <3>4, <3>5, <3>6, <3>7 DEF RankingSound
    <3> QED
      BY <1>0, <3>1, <3>2, <3>8 DEF RankingSound
  <2> QED
    BY <2>1, <2>2
<1>13. ASSUME NEW r \in Requests, Drop(r) \/ DeadlockVictim(r)
       PROVE  RankingSound(q)'
  BY <1>3, <1>13 DEF Drop, DeadlockVictim
<1> QED
  BY <1>2, <1>4, <1>5, <1>6, <1>7, <1>8, <1>9, <1>10, <1>11, <1>12, <1>13
     DEF Next, Start, Submit

\* Every commit leaves a rank in every row, and exact ranks if it was not crossed.
LEMMA NextExact ==
    ASSUME TypeOK, RowsLocked, EntriesLocked, RankingsSound, RanksExact, [Next]_vars
    PROVE  RanksExact'
<1>1. CASE UNCHANGED <<attempts, board, outdated>>
  BY <1>1 DEF RanksExact, RanksWithin
<1>2. ASSUME NEW r \in Requests, StartInsert(r)
      PROVE  RanksExact'
  BY <1>2 DEF StartInsert, RanksExact, RanksWithin, history
<1>3. ASSUME NEW r \in Requests, SubmitCommit(r)
      PROVE  RanksExact'
  <2> DEFINE n == Cardinality(Listed(View(r)))
             s == job[r].student
  <2>1. /\ pc[r] = "rank" /\ outdated' = (r \in crossed)
        /\ s \in Students /\ RankingSound(r)
    BY <1>3 DEF SubmitCommit, RowsLocked, RowHeld, RankingsSound
  <2>2. Listed(board') = Listed(View(r)) /\ RowNumbers(board') = RowNumbers(View(r))
    BY <1>3, CommitBoard, RowNumbersSame
  <2>3. n \in Nat /\ Cardinality(Listed(board)) \in Nat /\ Cardinality(Listed(board)) <= n
    <3>1. \A t \in Students : board[t].listed => board'[t].listed
      BY <1>3, CommitKeepsListed
    <3> QED
      BY <2>2, <3>1, ListedGrows, ListedFinite
  <2>4. ASSUME NEW t \in Students
        PROVE  board'[t].rank \in IF board'[t].listed THEN 1 .. n ELSE {0}
    <3>1. /\ board'[t].listed = View(r)[t].listed
          /\ board'[t].rank = IF ranking[r][t] = 0 THEN View(r)[t].rank ELSE ranking[r][t]
      BY <1>3, CommitBoard
    <3>2. CASE ranking[r][t] # 0
      <4>1. ranking[r][t] \in Nat /\ ranking[r][t] <= n /\ View(r)[t].listed
        BY <2>1, <3>2 DEF RankingSound, TypeOK
      <4> QED
        BY <2>3, <3>1, <3>2, <4>1
    <3>3. CASE ranking[r][t] = 0
      <4>1. t # s
        BY <2>1, <3>3 DEF RankingSound
      <4>2. View(r)[t] = board[t]
        BY <4>1, ViewRows
      <4>3. board[t].rank \in IF board[t].listed THEN 1 .. Cardinality(Listed(board)) ELSE {0}
        BY DEF RanksExact, RanksWithin
      <4> QED
        BY <2>3, <3>1, <3>3, <4>2, <4>3
    <3> QED
      BY <3>2, <3>3
  <2>5. RanksWithin'
    BY <2>2, <2>4 DEF RanksWithin
  <2>6. ASSUME ~outdated'
        PROVE  [t \in Students |-> board'[t].rank] \in RowNumbers(board')
    <3>1. ranking[r] \in RowNumbers(View(r))
      BY <2>1, <2>6 DEF RankingSound
    <3>2. /\ ranking[r] \in [Students -> 0 .. n]
          /\ \A t \in Students : ranking[r][t] = 0 <=> ~View(r)[t].listed
      BY <3>1 DEF RowNumbers
    <3>3. ASSUME NEW t \in Students
          PROVE  board'[t].rank = ranking[r][t]
      <4>1. /\ board'[t].listed = View(r)[t].listed
            /\ board'[t].rank = IF ranking[r][t] = 0 THEN View(r)[t].rank ELSE ranking[r][t]
        BY <1>3, CommitBoard
      <4> QED
        BY <2>4, <3>2, <4>1
    <3>4. [t \in Students |-> board'[t].rank] = ranking[r]
      BY <3>2, <3>3
    <3> QED
      BY <2>2, <3>1, <3>4
  <2> QED
    BY <2>5, <2>6 DEF RanksExact
<1> QED
  BY <1>1, <1>2, <1>3, OthersWriteNothing

-----------------------------------------------------------------------------
(* Nobody is stuck *)

\* Behind r are the requests of the least set with r that waits for nobody outside.
LEMMA AwaitedLeast ==
    ASSUME NEW r \in Requests
    PROVE  /\ Awaited(r) \in SUBSET Requests
           /\ r \in Awaited(r)
           /\ WaitClosed(Awaited(r))
           /\ \A W \in SUBSET Requests : r \in W /\ WaitClosed(W) => Awaited(r) \subseteq W
  BY DEF Awaited, WaitClosed

\* Who is waited for has a leaderboard row.
LEMMA AwaitedHolds ==
    ASSUME TypeOK, RowsLocked, LocksOwned,
           NEW p \in Requests, NEW q \in Requests, WaitsFor(p, q)
    PROVE  pc[q] \in HoldsEntry
<1>1. PICK s \in Students : entryLock[s] = q
  <2>1. CASE pc[p] = "entry" /\ entryLock[job[p].student] = q
    BY <2>1 DEF RowsLocked, RowHeld
  <2>2. CASE pc[p] = "rank" /\ \E t \in todo[p] : entryLock[t] = q
    BY <2>2 DEF TypeOK
  <2> QED
    BY <2>1, <2>2 DEF WaitsFor
<1> QED
  BY <1>1 DEF LocksOwned

\* A transaction that has its leaderboard row and waits for nobody can go on: the
\* rows it sees can be numbered, and the next it has to lock is free.
LEMMA HolderGoesOn ==
    ASSUME TypeOK, RowsLocked, LocksOwned, RankingsSound,
           NEW p \in Requests, pc[p] \in HoldsEntry, ~Waits(p)
    PROVE  CanGoOn(p)
<1>1. CASE pc[p] = "view"
  <2>1. View(p) \in [Students -> Entry]
    BY DEF View, TypeOK
  <2> QED
    BY <1>1, <2>1, RowNumbersExist DEF CanGoOn
<1>2. CASE pc[p] = "rank"
  <2>1. ASSUME NEW t \in todo[p] PROVE entryLock[t] = None
    <3>1. t \in Students /\ entryLock[t] \in Requests \cup {None}
      BY DEF TypeOK
    <3>2. entryLock[t] # p
      BY <1>2, <3>1 DEF LocksOwned, RankingsSound, RankingSound
    <3>3. ASSUME entryLock[t] \in Requests PROVE FALSE
      BY <1>2, <3>2, <3>3 DEF Waits, WaitsFor
    <3> QED
      BY <3>1, <3>3
  <2> QED
    BY <1>2, <2>1 DEF CanGoOn
<1> QED
  BY <1>1, <1>2 DEF HoldsEntry

\* Among the sets of requests that wait for nobody outside there is a smallest.
LEMMA SmallestClosed ==
    ASSUME NEW A \in SUBSET Requests, A # {}, WaitClosed(A)
    PROVE  \E W \in SUBSET A :
              /\ W # {} /\ WaitClosed(W)
              /\ \A V \in SUBSET A : V # {} /\ WaitClosed(V)
                                       => Cardinality(W) <= Cardinality(V)
<1> DEFINE C == {W \in SUBSET A : W # {} /\ WaitClosed(W)}
           N == {Cardinality(W) : W \in C}
<1>1. \A W \in C : Cardinality(W) \in Nat
  <2> TAKE W \in C
  <2>1. W \in SUBSET Requests
    OBVIOUS
  <2> QED
    BY <2>1, FS_Subset, FS_CardinalityType
<1>2. A \in C
  OBVIOUS
<1> HIDE DEF C
<1>3. N \in SUBSET Nat /\ N # {}
  BY <1>1, <1>2
<1>4. PICK n \in N : \A m \in N : ~(<<m, n>> \in OpToRel(<, Nat))
  BY <1>3, NatLessThanWellFounded, WFMin
<1>5. PICK W \in C : n = Cardinality(W)
  OBVIOUS
<1>6. ASSUME NEW V \in C PROVE Cardinality(W) <= Cardinality(V)
  <2>1. Cardinality(V) \in N /\ Cardinality(V) \in Nat /\ Cardinality(W) \in Nat
    BY <1>1
  <2>2. ~(Cardinality(V) < Cardinality(W))
    BY <1>4, <1>5, <2>1 DEF OpToRel
  <2> QED
    BY <2>1, <2>2
<1> QED
  BY <1>5, <1>6 DEF C

\* If everyone behind r waits, some of them wait in a circle: those of a smallest set
\* that waits for nobody outside.
LEMMA SomeoneMoves ==
    ASSUME TypeOK, RowsLocked, LocksOwned, RankingsSound, NEW r \in Requests, Waits(r)
    PROVE  \E p \in Awaited(r) : CanGoOn(p) \/ Deadlocked(p)
<1>1. CASE \E p \in Awaited(r) : ~Waits(p)
  <2> DEFINE H == {r} \cup {q \in Requests : pc[q] \in HoldsEntry}
  <2>1. PICK p \in Awaited(r) : ~Waits(p)
    BY <1>1
  <2>2. WaitClosed(H)
    BY AwaitedHolds DEF WaitClosed
  <2>3. Awaited(r) \subseteq H /\ p \in Requests
    <3> H \in SUBSET Requests /\ r \in H
      OBVIOUS
    <3> HIDE DEF H
    <3> QED
      BY <2>2, AwaitedLeast
  <2>4. pc[p] \in HoldsEntry
    BY <2>1, <2>3
  <2> QED
    BY <2>1, <2>3, <2>4, HolderGoesOn
<1>2. CASE \A p \in Awaited(r) : Waits(p)
  <2>1. /\ Awaited(r) \in SUBSET Requests /\ Awaited(r) # {}
        /\ WaitClosed(Awaited(r))
    BY AwaitedLeast
  <2>2. PICK W \in SUBSET Awaited(r) :
            /\ W # {} /\ WaitClosed(W)
            /\ \A V \in SUBSET Awaited(r) : V # {} /\ WaitClosed(V)
                                     => Cardinality(W) <= Cardinality(V)
    BY <2>1, SmallestClosed
  <2>3. PICK p \in W : TRUE
    BY <2>2
  <2>4. PICK q \in Requests : WaitsFor(p, q)
    BY <1>2, <2>3 DEF Waits
  <2>5. q \in W
    BY <2>1, <2>2, <2>3, <2>4 DEF WaitClosed
  <2>6. /\ Awaited(q) \in SUBSET W /\ q \in Awaited(q) /\ WaitClosed(Awaited(q))
        /\ W \in SUBSET Requests
    BY <2>1, <2>2, <2>5, AwaitedLeast
  <2>7. Cardinality(W) <= Cardinality(Awaited(q))
    BY <2>2, <2>6
  <2>8. Awaited(q) = W
    <3>1. IsFiniteSet(W) /\ Cardinality(W) \in Nat
      BY <2>6, FS_Subset, FS_CardinalityType
    <3>2. IsFiniteSet(Awaited(q)) /\ Cardinality(Awaited(q)) \in Nat
      BY <2>6, <3>1, FS_Subset, FS_CardinalityType
    <3>3. Cardinality(Awaited(q)) <= Cardinality(W)
      BY <2>6, <3>1, FS_Subset
    <3> QED
      BY <2>6, <2>7, <3>1, <3>2, <3>3, FS_Subset
  <2> QED
    BY <2>3, <2>4, <2>8 DEF Deadlocked
<1> QED
  BY <1>1, <1>2

-----------------------------------------------------------------------------
(* Nobody runs for ever *)

\* An upper bound of the statements that request r still has to run.
Left(r) ==
    CASE pc[r] = "idle"   -> 0
      [] pc[r] = "insert" -> 1
      [] pc[r] = "check"  -> 2
      [] pc[r] = "rank"   -> 1 + Cardinality(todo[r])
      [] pc[r] = "view"   -> 2 + Cardinality(Students)
      [] pc[r] = "entry"  -> 3 + Cardinality(Students)
      [] pc[r] = "grade"  -> 4 + Cardinality(Students)

\* Each of the statements of a request brings it nearer to its end, and what others
\* do, or the clock, puts it back at none.
Nearer(r) ==
    pc[r] # "idle" => \/ Left(r)' < Left(r)
                      \/ /\ pc'[r] = pc[r] /\ job'[r] = job[r] /\ graded'[r] = graded[r]
                         /\ pending'[r] = pending[r] /\ ranking'[r] = ranking[r]
                         /\ todo'[r] = todo[r]

\* Of every request.
RequestsAdvance == [][\A r \in Requests : Nearer(r)]_vars

\* The rows still to be locked can be counted.
LEMMA TodoFinite ==
    ASSUME TypeOK, NEW r \in Requests
    PROVE  /\ IsFiniteSet(todo[r]) /\ Cardinality(todo[r]) \in Nat
           /\ Cardinality(todo[r]) <= Cardinality(Students)
           /\ Cardinality(Students) \in Nat
<1>1. todo[r] \in SUBSET Students
  BY DEF TypeOK
<1> QED
  BY <1>1, FS_Subset, FS_CardinalityType

\* A request in flight has something left to do.
LEMMA SomethingLeft ==
    ASSUME TypeOK, NEW r \in Requests, pc[r] # "idle"
    PROVE  Left(r) \in Nat /\ Left(r) > 0
<1>1. pc[r] \in PCs
  BY DEF TypeOK
<1> QED
  BY <1>1, TodoFinite DEF Left, PCs, HoldsRow

\* An end is the end.
LEMMA FinishAdvances ==
    ASSUME TypeOK, NEW r \in Requests, Finish(r), NEW q \in Requests
    PROVE  Nearer(q)
<1>1. CASE q = r
  <2>1. pc'[r] = "idle"
    BY DEF Finish, TypeOK
  <2>2. Left(r)' = 0
    BY <2>1 DEF Left
  <2> QED
    BY <1>1, <2>2, SomethingLeft DEF Nearer
<1>2. CASE q # r
  BY <1>2, FinishOthers DEF Nearer
<1> QED
  BY <1>1, <1>2

\* A statement is run once, and the rank update locks a row fewer each time.
LEMMA NextAdvances ==
    ASSUME TypeOK, [Next]_vars, NEW q \in Requests
    PROVE  Nearer(q)
<1> USE DEF tables, locks, local, history
<1>1. CASE UNCHANGED <<pc, job, graded, pending, ranking, todo>>
  BY <1>1 DEF Nearer
<1>2. CASE Tick \/ Faculty \/ UNCHANGED vars
  BY <1>1, <1>2 DEF Tick, Faculty, PublishAssessment, UpdateAssessment, vars
<1>3. ASSUME NEW r \in Requests, NEW s \in Students, StartAdmit(r, s)
      PROVE  Nearer(q)
  BY <1>3 DEF StartAdmit, Nearer, TypeOK
<1>4. ASSUME NEW r \in Requests, NEW s \in Students, NEW a \in AttemptIds,
             SubmitLock(r, s, a)
      PROVE  Nearer(q)
  BY <1>4 DEF SubmitLock, Nearer, TypeOK
<1>5. ASSUME NEW r \in Requests,
             \/ StartInsert(r) \/ SubmitCommit(r) \/ Drop(r) \/ DeadlockVictim(r)
             \/ StartCheck(r) /\ Finish(r)
      PROVE  Nearer(q)
  BY <1>5, FinishAdvances DEF StartInsert, SubmitCommit, Drop, DeadlockVictim
<1>6. ASSUME NEW r \in Requests, StartCheck(r), ~Finish(r)
      PROVE  Nearer(q)
  <2>1. /\ pc[r] = "check" /\ pc' = [pc EXCEPT ![r] = "insert"]
        /\ UNCHANGED <<job, graded, pending, ranking, todo>>
    BY <1>6 DEF StartCheck
  <2>2. CASE q = r
    <3>1. Left(r) = 2 /\ Left(r)' = 1
      BY <2>1 DEF Left, TypeOK
    <3> QED
      BY <2>2, <3>1 DEF Nearer
  <2>3. CASE q # r
    BY <2>1, <2>3 DEF Nearer, TypeOK
  <2> QED
    BY <2>2, <2>3
<1>7. ASSUME NEW r \in Requests, SubmitGrade(r)
      PROVE  Nearer(q)
  <2>1. CASE q = r
    <3>1. Left(r) = 4 + Cardinality(Students) /\ Left(r)' = 3 + Cardinality(Students)
      BY <1>7 DEF SubmitGrade, Left, TypeOK
    <3> QED
      BY <2>1, <3>1, TodoFinite DEF Nearer
  <2>2. CASE q # r
    BY <1>7, <2>2 DEF SubmitGrade, Nearer, TypeOK
  <2> QED
    BY <2>1, <2>2
<1>8. ASSUME NEW r \in Requests, SubmitEntry(r)
      PROVE  Nearer(q)
  <2>1. CASE q = r
    <3>1. Left(r) = 3 + Cardinality(Students) /\ Left(r)' = 2 + Cardinality(Students)
      BY <1>8 DEF SubmitEntry, Left, TypeOK
    <3> QED
      BY <2>1, <3>1, TodoFinite DEF Nearer
  <2>2. CASE q # r
    BY <1>8, <2>2 DEF SubmitEntry, Nearer, TypeOK
  <2> QED
    BY <2>1, <2>2
<1>9. ASSUME NEW r \in Requests, SubmitView(r)
      PROVE  Nearer(q)
  <2>1. CASE q = r
    <3>1. todo'[r] \in SUBSET Students /\ pc[r] = "view" /\ pc'[r] = "rank"
      BY <1>9 DEF SubmitView, TypeOK, Listed
    <3>2. /\ Cardinality(todo'[r]) \in Nat
          /\ Cardinality(todo'[r]) <= Cardinality(Students)
      BY <3>1, FS_Subset, FS_CardinalityType
    <3>3. Left(r) = 2 + Cardinality(Students) /\ Left(r)' = 1 + Cardinality(todo'[r])
      BY <3>1 DEF Left
    <3> QED
      BY <2>1, <3>2, <3>3, TodoFinite DEF Nearer
  <2>2. CASE q # r
    BY <1>9, <2>2 DEF SubmitView, Nearer, TypeOK
  <2> QED
    BY <2>1, <2>2
<1>10. ASSUME NEW r \in Requests, NEW t \in Students, SubmitRank(r, t)
       PROVE  Nearer(q)
  <2>1. CASE q = r
    <3>1. /\ pc[r] = "rank" /\ pc'[r] = "rank"
          /\ t \in todo[r] /\ todo'[r] = todo[r] \ {t}
      BY <1>10 DEF SubmitRank, TypeOK
    <3>2. Cardinality(todo'[r]) = Cardinality(todo[r]) - 1
      <4>1. Cardinality(todo[r] \ {t}) = Cardinality(todo[r]) - 1
        BY <3>1, TodoFinite, FS_RemoveElement
      <4> QED
        BY <3>1, <4>1
    <3>3. Left(r) = 1 + Cardinality(todo[r]) /\ Left(r)' = 1 + Cardinality(todo'[r])
      BY <3>1 DEF Left
    <3> QED
      BY <2>1, <3>2, <3>3, TodoFinite DEF Nearer
  <2>2. CASE q # r
    BY <1>10, <2>2 DEF SubmitRank, Nearer, TypeOK
  <2> QED
    BY <2>1, <2>2
<1> QED
  BY <1>2, <1>3, <1>4, <1>5, <1>6, <1>7, <1>8, <1>9, <1>10 DEF Next, Start, Submit

-----------------------------------------------------------------------------
(* Theorems *)

\* The invariant that the other theorems rest on is inductive; but for the types,
\* none of its parts is by itself. The leaderboard is right because the entry a
\* commit writes was computed from the row it replaces, that is so because the row
\* is locked, and a lock protects what its holder read only while each transaction
\* works on an attempt of its own. The ranks are right because a transaction ranks
\* only rows it sees, and those it sees only become more until it commits.
THEOREM Invariance == Spec => []IInv
<1>1. Init => IInv
  <2>1. Init => GradesPossible
    BY DEF Init, GradesPossible, HoldsEntry
  <2> QED
    BY <2>1, InitType, InitRows, InitBest, InitLocks, InitDuplicates, InitSound, InitExact
       DEF IInv, TransactionsIsolated
<1>2. IInv /\ [Next]_vars => IInv'
  BY NextType, NextRows, NextEntries, NextBlank, NextGrades, NextBest, NextLocks,
     NextDuplicates, NextSound, NextExact
     DEF IInv, TransactionsIsolated
<1> QED
  BY <1>1, <1>2, PTL DEF Spec

\* Every variable keeps its type.
THEOREM TypeCorrect == Spec => []TypeOK
<1>1. IInv => TypeOK
  BY DEF IInv
<1> QED
  BY <1>1, Invariance, PTL

\* The row locks isolate the submissions from one another, for any number of
\* students, attempts and concurrent requests (attempt.rs:179).
THEOREM Isolation == Spec => []TransactionsIsolated
<1>1. IInv => TransactionsIsolated
  BY DEF IInv
<1> QED
  BY <1>1, Invariance, PTL

\* No submission is lost from the leaderboard: an entry is the best of the
\* student's submitted attempts, whatever submissions overlap.
THEOREM KeepsBest == Spec => []BoardKeepsBest
<1>1. IInv => BoardKeepsBest
  BY DEF IInv
<1> QED
  BY <1>1, Invariance, PTL

\* A student has no more open attempts than requests were in flight together: once
\* one is open, a request that begins later resumes it (attempt.rs:107).
THEOREM FewOpen == Spec => []DuplicatesNeedOverlap
<1>1. IInv => DuplicatesNeedOverlap
  BY DEF IInv
<1> QED
  BY <1>1, Invariance, PTL

\* Overlapping submissions leave every student on the leaderboard a rank between one
\* and their number, and one that nobody has committed under leaves exact ranks.
THEOREM Ranks == Spec => []RanksExact
<1>1. IInv => RanksExact
  BY DEF IInv
<1> QED
  BY <1>1, Invariance, PTL

\* An exact rank is more than the number of students ahead by percentage and time,
\* and leaves room for all of those behind.
Positions ==
    ~outdated =>
        \A s \in Listed(board) :
            /\ Cardinality({t \in Listed(board) : Ahead(board[t], board[s])})
                 < board[s].rank
            /\ board[s].rank
                 + Cardinality({t \in Listed(board) : Ahead(board[s], board[t])})
                 <= Cardinality(Listed(board))

\* What RanksExact says to the student who reads the rank: it is the position in the
\* order of the update (attempt.rs:305), but for the order of those who tie.
THEOREM RanksArePositions == Spec => []Positions
<1>1. IInv => Positions
  <2> SUFFICES ASSUME IInv, ~outdated, NEW s \in Listed(board)
               PROVE  /\ Cardinality({t \in Listed(board) : Ahead(board[t], board[s])})
                           < board[s].rank
                      /\ board[s].rank
                           + Cardinality({t \in Listed(board) : Ahead(board[s], board[t])})
                           <= Cardinality(Listed(board))
    BY DEF Positions
  <2> DEFINE k == [t \in Students |-> board[t].rank]
  <2>1. k \in RowNumbers(board)
    BY DEF IInv, RanksExact
  <2>2. k[s] = board[s].rank
    BY DEF Listed
  <2> HIDE DEF k
  <2> QED
    BY <2>1, <2>2, RankIsPosition
<1> QED
  BY <1>1, Invariance, PTL

\* No submission is kept waiting by anything but another that can go on or that the
\* database aborts: the safety half of RequestsFinish, for any number of requests.
THEOREM NoneStuck == Spec => []NobodyStuck
<1>1. IInv => NobodyStuck
  BY SomeoneMoves DEF IInv, TransactionsIsolated, NobodyStuck
<1> QED
  BY <1>1, Invariance, PTL

\* The ranks that two students share (attempts_ranks) come of overlaps alone: after a
\* commit that was not crossed no two are the same (ASSESSMENT_ARCHITECTURE.md:333).
THEOREM DistinctUnlessCrossed == Spec => [](~outdated => RanksDistinct)
<1>1. IInv => (~outdated => RanksDistinct)
  <2> SUFFICES ASSUME IInv, ~outdated, NEW s \in Students, NEW t \in Students,
                      s # t, board[s].listed, board[t].listed
               PROVE  board[s].rank # board[t].rank
    BY DEF RanksDistinct
  <2> DEFINE k == [u \in Students |-> board[u].rank]
  <2>1. k \in RowNumbers(board)
    BY DEF IInv, RanksExact
  <2>2. k[s] # k[t]
    <3> HIDE DEF k
    <3> QED
      BY <2>1 DEF RowNumbers, Listed
  <2> QED
    BY <2>2
<1> QED
  BY <1>1, Invariance, PTL

\* So do several open attempts of one student (attempts_duplicate): where requests
\* come one at a time there is at most one (attempt.rs:107).
THEOREM OneOpenUnlessOverlap ==
    ASSUME Cardinality(Requests) = 1
    PROVE  Spec => []OneOpenAttempt
<1>1. IInv => OneOpenAttempt
  <2> SUFFICES ASSUME IInv, NEW s \in Students
               PROVE  Cardinality(Open(s)) <= 1
    BY DEF OneOpenAttempt
  <2>1. Bounded(s)
    BY DuplicatesBounded DEF IInv
  <2> QED
    BY <2>1, OpenFinite DEF Bounded
<1> QED
  BY <1>1, Invariance, PTL

\* No request runs for ever, whatever the others do: with NoneStuck, what RequestsFinish
\* needs besides fairness.
THEOREM Advances == Spec => RequestsAdvance
<1> DEFINE A == \A r \in Requests : Nearer(r)
<1>1. IInv /\ [Next]_vars => [A]_vars
  BY NextAdvances DEF IInv
<1>2. RequestsAdvance <=> [][A]_vars
  BY DEF RequestsAdvance
<1> HIDE DEF A
<1> QED
  BY <1>1, <1>2, Invariance, PTL DEF Spec

\* A submitted attempt never changes (testcases.md, TC-ASSESS-006).
THEOREM Final == Spec => ResultIsFinal
<1> DEFINE Kept == \A a \in AttemptIds :
                      attempts[a].status = "submitted" => attempts'[a] = attempts[a]
<1>1. IInv /\ [Next]_vars => [Kept]_vars
  <2> SUFFICES ASSUME IInv, [Next]_vars, NEW a \in AttemptIds,
                      attempts[a].status = "submitted"
               PROVE  attempts'[a] = attempts[a]
    OBVIOUS
  <2>1. CASE UNCHANGED <<attempts, board>>
    BY <2>1
  <2>2. ASSUME NEW r \in Requests, StartInsert(r)
        PROVE  attempts'[a] = attempts[a]
    BY <2>2, InsertWrites DEF IInv, TransactionsIsolated, Absent
  <2>3. ASSUME NEW r \in Requests, SubmitCommit(r)
        PROVE  attempts'[a] = attempts[a]
    BY <2>3, CommitWrites DEF IInv, TransactionsIsolated
  <2> QED
    BY <2>1, <2>2, <2>3, OthersWriteNothing
<1>2. ResultIsFinal <=> [][Kept]_vars
  BY DEF ResultIsFinal
<1> HIDE DEF Kept
<1> QED
  BY <1>1, <1>2, Invariance, PTL DEF Spec

-----------------------------------------------------------------------------
(* The handlers implement AttemptPromise *)

\* The initial tables are the initial state of the promise.
LEMMA InitPromise == Init => Promise!Init
  BY DEF Init, Promise!Init, Promise!NoResult, Promise!Unlisted, NoRow, NoEntry

\* A function built point by point is the updated function.
LEMMA PointUpdate ==
    ASSUME NEW S, NEW f, NEW g, NEW a \in S, NEW v,
           f = [x \in S |-> f[x]], g = [x \in S |-> g[x]],
           g[a] = v, \A x \in S : x # a => g[x] = f[x]
    PROVE  g = [f EXCEPT ![a] = v]
  OBVIOUS

\* An insert opens an attempt.
LEMMA InsertOpens ==
    ASSUME TypeOK, RowsLocked, BlankRows, NEW r \in Requests, StartInsert(r)
    PROVE  \E a \in AttemptIds, s \in Students : Promise!Open(a, s)
<1>1. PICK a \in Absent : /\ a \in AttemptIds
                          /\ job[r].student \in Students
                          /\ attempts'[a] = Opened(job[r].student)
                          /\ \A b \in AttemptIds : b # a => attempts'[b] = attempts[b]
  BY InsertWrites
<1>2. board' = board
  BY DEF StartInsert
<1>3. attempts[a].status = "absent" /\ attempts[a].score = 0 /\ attempts[a].pct = 0
  BY <1>1 DEF Absent, BlankRows
<1>4. /\ attempts'[a].status = "in_progress" /\ attempts'[a].student = job[r].student
      /\ attempts'[a].score = 0 /\ attempts'[a].pct = 0
  BY <1>1 DEF Opened
<1>5. Promise!Open(a, job[r].student)
  <2>1. [b \in AttemptIds |-> attempts[b].status][a] = "absent"
    BY <1>1, <1>3
  <2>2. [b \in AttemptIds |-> attempts'[b].status]
          = [[b \in AttemptIds |-> attempts[b].status] EXCEPT ![a] = "in_progress"]
    <3> DEFINE f == [b \in AttemptIds |-> attempts[b].status]
               g == [b \in AttemptIds |-> attempts'[b].status]
    <3>1. g[a] = "in_progress" /\ \A b \in AttemptIds : b # a => g[b] = f[b]
      BY <1>1, <1>4
    <3>2. f = [b \in AttemptIds |-> f[b]] /\ g = [b \in AttemptIds |-> g[b]]
      OBVIOUS
    <3> HIDE DEF f, g
    <3>3. g = [f EXCEPT ![a] = "in_progress"]
      BY <1>1, <3>1, <3>2, PointUpdate
    <3> QED
      BY <3>3 DEF f, g
  <2>3. [b \in AttemptIds |-> attempts'[b].student]
          = [[b \in AttemptIds |-> attempts[b].student] EXCEPT ![a] = job[r].student]
    <3> DEFINE f == [b \in AttemptIds |-> attempts[b].student]
               g == [b \in AttemptIds |-> attempts'[b].student]
    <3>1. g[a] = job[r].student /\ \A b \in AttemptIds : b # a => g[b] = f[b]
      BY <1>1, <1>4
    <3>2. f = [b \in AttemptIds |-> f[b]] /\ g = [b \in AttemptIds |-> g[b]]
      OBVIOUS
    <3> HIDE DEF f, g
    <3>3. g = [f EXCEPT ![a] = job[r].student]
      BY <1>1, <3>1, <3>2, PointUpdate
    <3> QED
      BY <3>3 DEF f, g
  <2>4. [b \in AttemptIds |-> [score |-> attempts'[b].score, pct |-> attempts'[b].pct]]
          = [b \in AttemptIds |-> [score |-> attempts[b].score, pct |-> attempts[b].pct]]
    BY <1>1, <1>3, <1>4
  <2> QED
    BY <1>2, <2>1, <2>2, <2>3, <2>4 DEF Promise!Open
<1>6. PICK s \in Students : s = job[r].student
  BY <1>1
<1>7. Promise!Open(a, s)
  BY <1>5, <1>6 DEF Promise!Open
<1> QED
  BY <1>1, <1>7

\* A commit closes one, with a result that grading can give.
LEMMA CommitCloses ==
    ASSUME TypeOK, RowsLocked, EntriesLocked, GradesPossible,
           NEW r \in Requests, SubmitCommit(r)
    PROVE  \E a \in AttemptIds, s \in Students, res \in Results :
              Promise!Close(a, s, res)
<1> DEFINE a   == job[r].attempt
           s   == job[r].student
           res == [score |-> graded[r].score, pct |-> graded[r].pct]
<1>1. res \in Results
  BY DEF SubmitCommit, GradesPossible, HoldsEntry
<1>2. /\ a \in AttemptIds /\ s \in Students
      /\ attempts[a].student = s /\ attempts[a].status = "in_progress"
      /\ attempts'[a] = Closed(attempts[a], graded[r])
      /\ \A b \in AttemptIds : b # a => attempts'[b] = attempts[b]
      /\ board'[s].listed
      /\ board'[s].score = Upsert(board[s], graded[r]).score
      /\ board'[s].pct = Upsert(board[s], graded[r]).pct
      /\ \A t \in Students : t # s =>
            /\ board'[t].listed = board[t].listed
            /\ board'[t].score = board[t].score
            /\ board'[t].pct = board[t].pct
  BY CommitWrites
<1>3. /\ board'[s].listed = TRUE
      /\ board'[s].score = Promise!Larger(board[s].score, res.score)
      /\ board'[s].pct = Promise!Larger(board[s].pct, res.pct)
  <2>1. board'[s].listed \in BOOLEAN
    BY <1>2, NextType DEF Next, Submit, TypeOK, Entry
  <2> QED
    BY <1>2, <2>1 DEF Upsert, Greatest, Promise!Larger
<1>4. /\ attempts'[a].status = "submitted" /\ attempts'[a].student = s
      /\ attempts'[a].score = res.score /\ attempts'[a].pct = res.pct
  BY <1>2 DEF Closed
<1> HIDE DEF a, s
<1>5. Promise!Close(a, s, res)
  <2>1. [b \in AttemptIds |-> attempts[b].status][a] = "in_progress"
    BY <1>2
  <2>2. [b \in AttemptIds |-> attempts[b].student][a] = s
    BY <1>2
  <2>3. [b \in AttemptIds |-> attempts'[b].status]
          = [[b \in AttemptIds |-> attempts[b].status] EXCEPT ![a] = "submitted"]
    <3> DEFINE f == [b \in AttemptIds |-> attempts[b].status]
               g == [b \in AttemptIds |-> attempts'[b].status]
    <3>1. g[a] = "submitted" /\ \A b \in AttemptIds : b # a => g[b] = f[b]
      BY <1>2, <1>4
    <3>2. f = [b \in AttemptIds |-> f[b]] /\ g = [b \in AttemptIds |-> g[b]]
      OBVIOUS
    <3> HIDE DEF f, g
    <3>3. g = [f EXCEPT ![a] = "submitted"]
      BY <1>2, <3>1, <3>2, PointUpdate
    <3> QED
      BY <3>3 DEF f, g
  <2>4. [b \in AttemptIds |-> [score |-> attempts'[b].score, pct |-> attempts'[b].pct]]
          = [[b \in AttemptIds |-> [score |-> attempts[b].score, pct |-> attempts[b].pct]]
               EXCEPT ![a] = res]
    <3> DEFINE f == [b \in AttemptIds |->
                       [score |-> attempts[b].score, pct |-> attempts[b].pct]]
               g == [b \in AttemptIds |->
                       [score |-> attempts'[b].score, pct |-> attempts'[b].pct]]
    <3>1. g[a] = res /\ \A b \in AttemptIds : b # a => g[b] = f[b]
      BY <1>2, <1>4
    <3>2. f = [b \in AttemptIds |-> f[b]] /\ g = [b \in AttemptIds |-> g[b]]
      OBVIOUS
    <3> HIDE DEF f, g
    <3>3. g = [f EXCEPT ![a] = res]
      BY <1>2, <3>1, <3>2, PointUpdate
    <3> QED
      BY <3>3 DEF f, g
  <2>5. [t \in Students |-> [listed |-> board'[t].listed,
                             score |-> board'[t].score, pct |-> board'[t].pct]]
          = [[t \in Students |-> [listed |-> board[t].listed,
                                  score |-> board[t].score, pct |-> board[t].pct]]
               EXCEPT ![s] = Promise!Raised([t \in Students |->
                                  [listed |-> board[t].listed,
                                   score |-> board[t].score, pct |-> board[t].pct]][s], res)]
    <3> DEFINE f == [t \in Students |-> [listed |-> board[t].listed,
                                        score |-> board[t].score, pct |-> board[t].pct]]
               g == [t \in Students |-> [listed |-> board'[t].listed,
                                        score |-> board'[t].score, pct |-> board'[t].pct]]
    <3>1. g[s] = Promise!Raised(f[s], res) /\ \A t \in Students : t # s => g[t] = f[t]
      BY <1>2, <1>3 DEF Promise!Raised
    <3>2. f = [t \in Students |-> f[t]] /\ g = [t \in Students |-> g[t]]
      OBVIOUS
    <3> HIDE DEF f, g
    <3>3. g = [f EXCEPT ![s] = Promise!Raised(f[s], res)]
      BY <1>2, <3>1, <3>2, PointUpdate
    <3> QED
      BY <3>3 DEF f, g
  <2>6. [b \in AttemptIds |-> attempts'[b].student]
          = [b \in AttemptIds |-> attempts[b].student]
    BY <1>2, <1>4
  <2> HIDE DEF res
  <2> QED
    BY <2>1, <2>2, <2>3, <2>4, <2>5, <2>6 DEF Promise!Close
<1> HIDE DEF res
<1>6. PICK b \in AttemptIds, t \in Students, g \in Results : b = a /\ t = s /\ g = res
  BY <1>1, <1>2
<1>7. Promise!Close(b, t, g)
  BY <1>5, <1>6 DEF Promise!Close, Promise!Raised
<1> QED
  BY <1>7

\* Every behaviour of the handlers, seen through the committed tables, is a
\* behaviour of AttemptPromise: attempts are opened and closed one at a time,
\* and each closing raises the leaderboard entry in the same step.
THEOREM Refinement == Spec => PromiseKept
<1>1. IInv /\ [Next]_vars => [Promise!Next]_(Promise!vars)
  <2> SUFFICES ASSUME IInv, [Next]_vars PROVE [Promise!Next]_(Promise!vars)
    OBVIOUS
  <2>1. CASE UNCHANGED <<attempts, board>>
    BY <2>1 DEF Promise!vars
  <2>2. ASSUME NEW r \in Requests, StartInsert(r)
        PROVE  Promise!Next
    BY <2>2, InsertOpens DEF IInv, TransactionsIsolated, Promise!Next
  <2>3. ASSUME NEW r \in Requests, SubmitCommit(r)
        PROVE  Promise!Next
    BY <2>3, CommitCloses DEF IInv, TransactionsIsolated, Promise!Next
  <2> QED
    BY <2>1, <2>2, <2>3, OthersWriteNothing
<1> QED
  BY <1>1, InitPromise, Invariance, PTL DEF Spec, PromiseKept, Promise!Spec

=============================================================================
