------------------------------ MODULE Attempts ------------------------------
(***************************************************************************)
(* start_attempt and submit_attempt (janv-api/src/assessment/attempt.rs)   *)
(* for one assessment, as Axum runs them: every request is a task that     *)
(* interleaves with the others at each await, over PostgreSQL at READ      *)
(* COMMITTED.                                                              *)
(*                                                                         *)
(* start_attempt runs its statements outside any transaction.              *)
(* submit_attempt is one transaction: what it writes is held in pending    *)
(* and ranking and reaches the tables at SubmitCommit, the rows it has     *)
(* touched stay locked until then, and a transaction that is dropped       *)
(* leaves no trace.                                                        *)
(***************************************************************************)
EXTENDS Naturals, FiniteSets

CONSTANTS
    Students,    \* users.email of the students
    Requests,    \* HTTP requests in flight at the same time
    AttemptIds,  \* primary keys of the attempts table (bounds its rows)
    Scores,      \* the totals that grading the answers can give
    Totals,      \* the values assessments.total_marks can have
    Starts,      \* the values update_assessment may give start_time
    Ends,        \* the values update_assessment may give end_time
    MaxTime,     \* the clock stops here (a bound of the model)
    None         \* no student, no attempt, no request, no time bound

ASSUME AttemptsAssumption ==
    /\ None \notin Students \cup AttemptIds \cup Requests \cup Nat
    /\ IsFiniteSet(Students) /\ IsFiniteSet(Requests) /\ IsFiniteSet(AttemptIds)
    /\ Scores \subseteq Nat
    /\ Totals \subseteq Nat /\ Totals # {}
    /\ Starts \subseteq Nat \cup {None} /\ Starts # {}
    /\ Ends \subseteq Nat \cup {None} /\ Ends # {}
    /\ MaxTime \in Nat

VARIABLES
    clock,       \* NOW() and Utc::now()
    assessment,  \* the row of assessments: [published, start, end, total]
    attempts,    \* the committed rows of attempts
    board,       \* the committed rows of leaderboard_entries, by student
    rowLock,     \* per attempt: the request whose transaction locks its row
    entryLock,   \* per student: the same for the leaderboard row
    pc,          \* per request: the statement it is about to run
    job,         \* per request: [student, attempt] it works for
    graded,      \* per request: [score, pct, time] of the graded answers
    pending,     \* per request: the leaderboard row it is writing
    ranking,     \* per request: the ranks it is writing, 0 = not in the view
    todo,        \* per request: the students whose row it still has to lock
    crossed,     \* history: requests that another has committed under since they
                 \* have numbered the rows
    outdated     \* history: the last submission to commit had been crossed

tables == <<clock, assessment, attempts, board>>
locks  == <<rowLock, entryLock>>
local  == <<job, graded, pending, ranking, todo>>
history == <<crossed, outdated>>
vars   == <<tables, locks, pc, local, history>>

-----------------------------------------------------------------------------
(* Rows *)

AttemptRow == [student : Students \cup {None},
               status  : {"absent", "in_progress", "submitted"},
               started : Nat, score : Nat, pct : Nat]

NoRow == [student |-> None, status |-> "absent",
          started |-> 0, score |-> 0, pct |-> 0]

Entry == [listed : BOOLEAN, score : Nat, pct : Nat, time : Nat, rank : Nat]

NoEntry == [listed |-> FALSE, score |-> 0, pct |-> 0, time |-> 0, rank |-> 0]

NoJob   == [student |-> None, attempt |-> None]
NoGrade == [score |-> 0, pct |-> 0, time |-> 0]
NoRanks == [s \in Students |-> 0]

\* percentage: guarded against total_marks = 0
Percent(score, total) == IF total > 0 THEN (100 * score) \div total ELSE 0

Greatest(m, n) == IF m >= n THEN m ELSE n

\* Faulty: the row is overwritten, as repository.rs does it.
UpsertExcluded(e, g) == [listed |-> TRUE, score |-> g.score, pct |-> g.pct,
                         time |-> g.time, rank |-> e.rank]

\* INSERT ... ON CONFLICT (assessment_id, student_id) DO UPDATE: the best
\* score, the best percentage, the latest time.
Upsert(e, g) == [listed |-> TRUE,
                 score  |-> Greatest(e.score, g.score),
                 pct    |-> Greatest(e.pct, g.pct),
                 time   |-> g.time,
                 rank   |-> e.rank]

-----------------------------------------------------------------------------
(* Ranks *)

\* ORDER BY percentage DESC, time_taken_secs ASC
Ahead(e, f) ==
    \/ e.pct > f.pct
    \/ e.pct = f.pct /\ e.time < f.time

Listed(b) == {s \in Students : b[s].listed}

\* What ROW_NUMBER() may return for the rows of b: 1, 2, ... along the order,
\* rows that tie in any order. A student without a row gets none (0).
RowNumbers(b) ==
    {k \in [Students -> 0 .. Cardinality(Listed(b))] :
        /\ \A s \in Students : k[s] = 0 <=> ~b[s].listed
        /\ \A s, t \in Listed(b) :
               /\ s # t => k[s] # k[t]
               /\ Ahead(b[s], b[t]) => k[s] < k[t]}

-----------------------------------------------------------------------------
(* Initial state: a draft that no student has seen *)

Init ==
    /\ clock = 0
    /\ assessment \in [published : {FALSE}, start : Starts, end : Ends, total : Totals]
    /\ attempts  = [a \in AttemptIds |-> NoRow]
    /\ board     = [s \in Students |-> NoEntry]
    /\ rowLock   = [a \in AttemptIds |-> None]
    /\ entryLock = [s \in Students |-> None]
    /\ pc        = [r \in Requests |-> "idle"]
    /\ job       = [r \in Requests |-> NoJob]
    /\ graded    = [r \in Requests |-> NoGrade]
    /\ pending   = [r \in Requests |-> NoEntry]
    /\ ranking   = [r \in Requests |-> NoRanks]
    /\ todo      = [r \in Requests |-> {}]
    /\ crossed = {} /\ outdated = FALSE

\* Faulty: the leaderboard rows stay locked.
FinishHolding(r) ==
    /\ pc'        = [pc EXCEPT ![r] = "idle"]
    /\ job'       = [job EXCEPT ![r] = NoJob]
    /\ graded'    = [graded EXCEPT ![r] = NoGrade]
    /\ pending'   = [pending EXCEPT ![r] = NoEntry]
    /\ ranking'   = [ranking EXCEPT ![r] = NoRanks]
    /\ todo'      = [todo EXCEPT ![r] = {}]
    /\ rowLock'   = [a \in AttemptIds |-> IF rowLock[a] = r THEN None ELSE rowLock[a]]
    /\ UNCHANGED entryLock

\* The request ends, by an answer or by being dropped, and its transaction,
\* if it has one, is over: its locks are free again.
Finish(r) ==
    /\ pc'        = [pc EXCEPT ![r] = "idle"]
    /\ job'       = [job EXCEPT ![r] = NoJob]
    /\ graded'    = [graded EXCEPT ![r] = NoGrade]
    /\ pending'   = [pending EXCEPT ![r] = NoEntry]
    /\ ranking'   = [ranking EXCEPT ![r] = NoRanks]
    /\ todo'      = [todo EXCEPT ![r] = {}]
    /\ rowLock'   = [a \in AttemptIds |-> IF rowLock[a] = r THEN None ELSE rowLock[a]]
    /\ entryLock' = [s \in Students |-> IF entryLock[s] = r THEN None ELSE entryLock[s]]

-----------------------------------------------------------------------------
(* The faculty's side *)

PublishAssessment ==
    /\ ~assessment.published
    /\ assessment' = [assessment EXCEPT !.published = TRUE]
    /\ UNCHANGED <<clock, attempts, board, locks, pc, local, history>>

\* COALESCE keeps the time that the request leaves out. A start in the past is
\* refused when the request comes in, but the row is written later, perhaps
\* after that start: the draft is there at time 0, so no start is too early.
UpdateAssessment(start, end, total) ==
    /\ start \in {assessment.start} \cup (Starts \ {None})
    /\ end \in {assessment.end} \cup (Ends \ {None})
    /\ assessment' = [assessment EXCEPT !.start = start, !.end = end, !.total = total]
    /\ UNCHANGED <<clock, attempts, board, locks, pc, local, history>>

Tick ==
    /\ clock < MaxTime
    /\ clock' = clock + 1
    /\ UNCHANGED <<assessment, attempts, board, locks, pc, local, history>>

-----------------------------------------------------------------------------
(* start_attempt *)

InWindow ==
    /\ assessment.start # None => clock >= assessment.start
    /\ assessment.end # None => clock <= assessment.end

\* The primary keys that no row has yet.
Absent == {a \in AttemptIds : attempts[a].status = "absent"}

\* Bound of the model: a start request is sent only while a row is left for it.
IdsLeft ==
    Cardinality({q \in Requests : pc[q] \in {"check", "insert"}}) < Cardinality(Absent)

\* The published flag, the window and the passcode gate. A request the gate
\* refuses changes nothing here; Passcode state is not part of this module,
\* so any request may be one that gets through.
StartAdmit(r, s) ==
    /\ pc[r] = "idle"
    /\ IdsLeft
    /\ assessment.published
    /\ InWindow
    /\ pc'  = [pc EXCEPT ![r] = "check"]
    /\ job' = [job EXCEPT ![r] = [student |-> s, attempt |-> None]]
    /\ UNCHANGED <<tables, locks, graded, pending, ranking, todo, history>>

Open(s) == {a \in AttemptIds : /\ attempts[a].status = "in_progress"
                               /\ attempts[a].student = s}

\* Faulty: no look for an open attempt.
AlwaysInsert(r) ==
    /\ pc[r] = "check"
    /\ pc' = [pc EXCEPT ![r] = "insert"]
    /\ UNCHANGED <<tables, locks, local, history>>

\* SELECT ... status = 'in_progress': a student with an open attempt resumes
\* it, and the request ends.
StartCheck(r) ==
    /\ pc[r] = "check"
    /\ \/ /\ Open(job[r].student) # {}
          /\ Finish(r)
       \/ /\ Open(job[r].student) = {}
          /\ pc' = [pc EXCEPT ![r] = "insert"]
          /\ UNCHANGED <<locks, local>>
    /\ UNCHANGED <<tables, history>>

Opened(s) == [student |-> s, status |-> "in_progress",
              started |-> clock, score |-> 0, pct |-> 0]

\* The id is a fresh UUID: which of the unused ids it is makes no difference.
StartInsert(r) ==
    LET a == CHOOSE x \in Absent : TRUE IN
    /\ pc[r] = "insert"
    /\ Absent # {}
    /\ attempts' = [attempts EXCEPT ![a] = Opened(job[r].student)]
    /\ Finish(r)
    /\ UNCHANGED <<clock, assessment, board, history>>

-----------------------------------------------------------------------------
(* submit_attempt *)

\* Faulty: SELECT without FOR UPDATE.
SubmitUnlocked(r, s, a) ==
    /\ pc[r] = "idle"
    /\ attempts[a].student = s
    /\ attempts[a].status = "in_progress"
    /\ rowLock' = [rowLock EXCEPT ![a] = r]
    /\ pc'  = [pc EXCEPT ![r] = "grade"]
    /\ job' = [job EXCEPT ![r] = [student |-> s, attempt |-> a]]
    /\ UNCHANGED <<tables, entryLock, graded, pending, ranking, todo, history>>

\* SELECT ... FOR UPDATE returns once no other transaction holds the row, with
\* the row as it is then. A request for a missing row, another student's row
\* or a submitted attempt is refused here and changes nothing.
SubmitLock(r, s, a) ==
    /\ pc[r] = "idle"
    /\ rowLock[a] = None
    /\ attempts[a].student = s
    /\ attempts[a].status = "in_progress"
    /\ rowLock' = [rowLock EXCEPT ![a] = r]
    /\ pc'  = [pc EXCEPT ![r] = "grade"]
    /\ job' = [job EXCEPT ![r] = [student |-> s, attempt |-> a]]
    /\ UNCHANGED <<tables, entryLock, graded, pending, ranking, todo, history>>

\* time_taken_secs: (now - started_at), at least 0.
Elapsed(from) == IF clock >= from THEN clock - from ELSE 0

\* Reads the assessment and its questions, grades the answers against
\* total_marks as it is now, and updates the attempt, which stays invisible to
\* the others. A late submission is only logged.
SubmitGrade(r) ==
    /\ pc[r] = "grade"
    /\ \E score \in Scores :
          graded' = [graded EXCEPT ![r] =
                       [score |-> score,
                        pct   |-> Percent(score, assessment.total),
                        time  |-> Elapsed(attempts[job[r].attempt].started)]]
    /\ pc' = [pc EXCEPT ![r] = "entry"]
    /\ UNCHANGED <<tables, locks, job, pending, ranking, todo, history>>

\* Faulty: the old entry is read, and written back later, without a lock.
SubmitEntryUnlocked(r) ==
    LET s == job[r].student IN
    /\ pc[r] = "entry"
    /\ entryLock' = [entryLock EXCEPT ![s] = r]
    /\ pending'   = [pending EXCEPT ![r] = Upsert(board[s], graded[r])]
    /\ pc'        = [pc EXCEPT ![r] = "view"]
    /\ UNCHANGED <<tables, rowLock, job, graded, ranking, todo, history>>

\* The upsert waits for a transaction that is writing the same row, and then
\* starts from what that one committed.
SubmitEntry(r) ==
    LET s == job[r].student IN
    /\ pc[r] = "entry"
    /\ entryLock[s] = None
    /\ entryLock' = [entryLock EXCEPT ![s] = r]
    /\ pending'   = [pending EXCEPT ![r] = Upsert(board[s], graded[r])]
    /\ pc'        = [pc EXCEPT ![r] = "view"]
    /\ UNCHANGED <<tables, rowLock, job, graded, ranking, todo, history>>

\* Faulty: the ranks are computed before the new row is there.
ViewCommitted(r) == board

\* The leaderboard as r's statement sees it: what is committed, and r's row.
View(r) == [board EXCEPT ![job[r].student] = pending[r]]

\* The rank update numbers the rows of its snapshot ...
SubmitView(r) ==
    /\ pc[r] = "view"
    /\ \E k \in RowNumbers(View(r)) : ranking' = [ranking EXCEPT ![r] = k]
    /\ todo' = [todo EXCEPT ![r] = Listed(View(r)) \ {job[r].student}]
    /\ pc'   = [pc EXCEPT ![r] = "rank"]
    /\ UNCHANGED <<tables, locks, job, graded, pending, history>>

\* ... and locks them one by one, in no particular order, waiting for any that
\* another transaction has written.
SubmitRank(r, t) ==
    /\ pc[r] = "rank"
    /\ t \in todo[r]
    /\ entryLock[t] = None
    /\ entryLock' = [entryLock EXCEPT ![t] = r]
    /\ todo'      = [todo EXCEPT ![r] = @ \ {t}]
    /\ UNCHANGED <<tables, rowLock, pc, job, graded, pending, ranking, history>>

Closed(row, g) == [student |-> row.student, status |-> "submitted",
                   started |-> row.started, score |-> g.score, pct |-> g.pct]

\* The row of student t once r commits: r's own row, or a row r has ranked, in
\* the version that is committed now and with the rank of r's snapshot.
Ranked(r, t) ==
    LET e == IF t = job[r].student THEN pending[r] ELSE board[t]
    IN  IF ranking[r][t] = 0 THEN e ELSE [e EXCEPT !.rank = ranking[r][t]]

SubmitCommit(r) ==
    LET a == job[r].attempt IN
    /\ pc[r] = "rank"
    /\ todo[r] = {}
    /\ attempts' = [attempts EXCEPT ![a] = Closed(@, graded[r])]
    /\ board' = [t \in Students |-> Ranked(r, t)]
    /\ Finish(r)
    /\ crossed'  = (crossed \cup {q \in Requests : pc[q] = "rank"}) \ {r}
    /\ outdated' = (r \in crossed)
    /\ UNCHANGED <<clock, assessment>>

-----------------------------------------------------------------------------
(* Failures *)

\* The client goes away, the process dies or a statement fails: the future is
\* dropped and PostgreSQL rolls its transaction back.
Drop(r) ==
    /\ pc[r] # "idle"
    /\ Finish(r)
    /\ crossed' = crossed \ {r}
    /\ UNCHANGED <<tables, outdated>>

\* r cannot go on before q's transaction is over.
WaitsFor(r, q) ==
    /\ q # r
    /\ \/ pc[r] = "entry" /\ entryLock[job[r].student] = q
       \/ pc[r] = "rank" /\ \E t \in todo[r] : entryLock[t] = q

\* Requests that wait for nobody outside.
WaitClosed(W) == \A p \in W, q \in Requests : WaitsFor(p, q) => q \in W

\* r, the requests it waits for, those they wait for, and so on.
Awaited(r) ==
    {q \in Requests : \A W \in SUBSET Requests : r \in W /\ WaitClosed(W) => q \in W}

\* r is on a cycle of requests each of which waits for the next.
Deadlocked(r) == \E q \in Requests : WaitsFor(r, q) /\ r \in Awaited(q)

\* PostgreSQL aborts one transaction of a wait cycle: the handler returns a
\* database error.
DeadlockVictim(r) ==
    /\ Deadlocked(r)
    /\ Finish(r)
    /\ crossed' = crossed \ {r}
    /\ UNCHANGED <<tables, outdated>>

-----------------------------------------------------------------------------
(* Specification *)

Start(r) ==
    \/ \E s \in Students : StartAdmit(r, s)
    \/ StartCheck(r)
    \/ StartInsert(r)

Submit(r) ==
    \/ \E s \in Students, a \in AttemptIds : SubmitLock(r, s, a)
    \/ SubmitGrade(r)
    \/ SubmitEntry(r)
    \/ SubmitView(r)
    \/ \E t \in Students : SubmitRank(r, t)
    \/ SubmitCommit(r)

Faculty ==
    \/ PublishAssessment
    \/ \E start \in Starts, end \in Ends, total \in Totals :
          UpdateAssessment(start, end, total)

Next ==
    \/ Tick
    \/ Faculty
    \/ \E r \in Requests : Start(r) \/ Submit(r) \/ Drop(r) \/ DeadlockVictim(r)

Spec == Init /\ [][Next]_vars

\* The runtime polls a request that can run, PostgreSQL hands a lock to its
\* waiters in the order they came, and finds every deadlock. No request has to
\* be sent, and none has to be dropped.
Fairness ==
    \A r \in Requests :
        /\ WF_vars(StartCheck(r))
        /\ WF_vars(StartInsert(r))
        /\ WF_vars(SubmitGrade(r))
        /\ WF_vars(SubmitView(r))
        /\ WF_vars(SubmitCommit(r))
        /\ WF_vars(DeadlockVictim(r))
        /\ SF_vars(SubmitEntry(r))
        /\ \A t \in Students : SF_vars(SubmitRank(r, t))

FairSpec == Spec /\ Fairness
-----------------------------------------------------------------------------
(* Invariants *)

\* Statements of submit_attempt that run while it holds the attempt's row ...
HoldsRow == {"grade", "entry", "view", "rank"}

\* ... and while it holds the student's leaderboard row.
HoldsEntry == {"view", "rank"}

PCs == {"idle", "check", "insert"} \cup HoldsRow

\* Every variable has its type.
TypeOK ==
    /\ clock \in 0 .. MaxTime
    /\ assessment \in [published : BOOLEAN, start : Starts, end : Ends, total : Totals]
    /\ attempts \in [AttemptIds -> AttemptRow]
    /\ board \in [Students -> Entry]
    /\ rowLock \in [AttemptIds -> Requests \cup {None}]
    /\ entryLock \in [Students -> Requests \cup {None}]
    /\ pc \in [Requests -> PCs]
    /\ job \in [Requests -> [student : Students \cup {None},
                             attempt : AttemptIds \cup {None}]]
    /\ graded \in [Requests -> [score : Nat, pct : Nat, time : Nat]]
    /\ pending \in [Requests -> Entry]
    /\ ranking \in [Requests -> [Students -> Nat]]
    /\ todo \in [Requests -> SUBSET Students]
    /\ crossed \subseteq Requests /\ outdated \in BOOLEAN

\* A request past its first statement works for a student; a transaction of
\* submit_attempt works on an attempt of that student that is still open, and
\* holds its row, so that no other transaction grades it.
RowHeld(r) ==
    LET a == job[r].attempt IN
    /\ pc[r] # "idle" => job[r].student \in Students
    /\ pc[r] \in HoldsRow =>
          /\ a \in AttemptIds
          /\ rowLock[a] = r
          /\ attempts[a].status = "in_progress"
          /\ attempts[a].student = job[r].student

RowsLocked == \A r \in Requests : RowHeld(r)

\* A transaction that has upserted its leaderboard row holds it, so what it is
\* about to commit still is the committed row with its own result added.
EntryHeld(r) ==
    LET s == job[r].student
        e == Upsert(board[s], graded[r])
    IN  pc[r] \in HoldsEntry =>
          /\ entryLock[s] = r
          /\ pending[r].listed = e.listed
          /\ pending[r].score = e.score
          /\ pending[r].pct = e.pct
          /\ pending[r].time = e.time

EntriesLocked == \A r \in Requests : EntryHeld(r)

\* No lock outlives its transaction: whoever holds an attempt's row works on it, and
\* whoever holds a leaderboard row has written its own or ranked it.
LocksOwned ==
    /\ \A a \in AttemptIds : \A r \in Requests :
          rowLock[a] = r => pc[r] \in HoldsRow /\ job[r].attempt = a
    /\ \A s \in Students : \A r \in Requests :
          entryLock[s] = r =>
              /\ pc[r] \in HoldsEntry
              /\ s # job[r].student => pc[r] = "rank" /\ s \notin todo[r]

\* A row that is absent is blank: no student, no result.
BlankRows ==
    /\ \A a \in AttemptIds :
          /\ attempts[a].status = "absent" <=> attempts[a].student = None
          /\ attempts[a].status # "submitted" => attempts[a].score = 0 /\ attempts[a].pct = 0
    /\ \A s \in Students :
          ~board[s].listed => board[s].score = 0 /\ board[s].pct = 0

\* The row locks isolate the submissions from one another: what a transaction
\* has read of the attempt and of the leaderboard entry it is about to write
\* is still true when it commits (the comment at attempt.rs:179), and when it is
\* over, however it ends, its locks are gone.
TransactionsIsolated ==
    /\ RowsLocked
    /\ EntriesLocked
    /\ LocksOwned
    /\ BlankRows

Submitted(s) == {a \in AttemptIds : /\ attempts[a].student = s
                                    /\ attempts[a].status = "submitted"}

\* A student is on the leaderboard exactly when one of their attempts has been
\* submitted; the score and the percentage shown are each the best of those
\* attempts: no result is lost, whatever submissions overlap (attempt.rs,
\* the upsert with GREATEST).
BoardKeepsBest ==
    \A s \in Students :
        /\ board[s].listed <=> Submitted(s) # {}
        /\ \A a \in Submitted(s) : /\ attempts[a].score <= board[s].score
                                   /\ attempts[a].pct <= board[s].pct
        /\ board[s].listed =>
              /\ \E a \in Submitted(s) : attempts[a].score = board[s].score
              /\ \E a \in Submitted(s) : attempts[a].pct = board[s].pct

\* The check for an open attempt and the insert are two statements of no
\* transaction (attempt.rs): a student can end up with several open attempts,
\* but only one per start request that was in flight at the same time. Once an
\* attempt is open, a request that begins later resumes it.
DuplicatesNeedOverlap ==
    \A s \in Students :
        Cardinality(Open(s))
          + Cardinality({r \in Requests : pc[r] = "insert" /\ job[r].student = s})
        <= Cardinality(Requests)

\* Who is on the leaderboard has a rank, at most the number of those who are,
\* whatever ranks submissions that overlap write over one another.
RanksWithin ==
    \A s \in Students :
        board[s].rank \in IF board[s].listed THEN 1 .. Cardinality(Listed(board)) ELSE {0}

\* A submission that nobody commits under between its numbering of the rows and its
\* own commit leaves exact ranks: the positions in the order by percentage and time.
\* Whatever overlaps have left behind is healed by the next one that is not crossed.
RanksExact ==
    /\ RanksWithin
    /\ ~outdated => [s \in Students |-> board[s].rank] \in RowNumbers(board)

Waits(r) == \E q \in Requests : WaitsFor(r, q)

\* A transaction that waits for nobody and whose next statement has what it needs.
CanGoOn(r) ==
    /\ ~Waits(r)
    /\ \/ pc[r] = "view" /\ RowNumbers(View(r)) # {}
       \/ pc[r] = "rank" /\ \A t \in todo[r] : entryLock[t] = None

\* Leaderboard rows are locked in no order, so submissions can wait for one another
\* in a circle (attempt.rs:305). But nothing else can keep one waiting: behind every
\* request that waits there is a transaction that can go on, or one that PostgreSQL
\* finds on a cycle and aborts.
NobodyStuck ==
    \A r \in Requests : Waits(r) => \E p \in Awaited(r) : CanGoOn(p) \/ Deadlocked(p)

\* What grading an attempt can give.
Results == {[score |-> sc, pct |-> Percent(sc, tot)] : sc \in Scores, tot \in Totals}

\* What a request has graded and not yet committed is such a result.
GradesPossible ==
    \A r \in Requests :
        pc[r] \in {"entry"} \cup HoldsEntry =>
            [score |-> graded[r].score, pct |-> graded[r].pct] \in Results

\* The ranks a transaction is about to write: to rows it has locked or is about to
\* lock, its own among them, none higher than the rows it sees, and exact unless
\* another has committed since.
RankingSound(r) ==
    pc[r] = "rank" =>
        /\ job[r].student \notin todo[r]
        /\ ranking[r][job[r].student] # 0
        /\ \A t \in Students :
              /\ ranking[r][t] <= Cardinality(Listed(View(r)))
              /\ ranking[r][t] # 0 => /\ View(r)[t].listed
                                      /\ t \in todo[r] \/ entryLock[t] = r
        /\ r \notin crossed => ranking[r] \in RowNumbers(View(r))

RankingsSound == \A r \in Requests : RankingSound(r)

\* The inductive invariant of the proofs.
IInv ==
    /\ TypeOK
    /\ TransactionsIsolated
    /\ GradesPossible
    /\ BoardKeepsBest
    /\ DuplicatesNeedOverlap
    /\ RankingsSound
    /\ RanksExact

-----------------------------------------------------------------------------
(* Action properties *)

\* Once an attempt is submitted its row never changes: a second submission, one
\* that overlaps or one that is retried cannot alter the result
\* (testcases.md, TC-ASSESS-006).
ResultIsFinal ==
    [][\A a \in AttemptIds :
          attempts[a].status = "submitted" => attempts'[a] = attempts[a]]_vars

-----------------------------------------------------------------------------
(* Liveness *)

\* Every request ends: transactions that wait for one another's leaderboard
\* rows do not wait for ever.
RequestsFinish ==
    \A r \in Requests : pc[r] # "idle" ~> pc[r] = "idle"

-----------------------------------------------------------------------------
(* Refinement *)

Promise == INSTANCE AttemptPromise WITH
    status  <- [a \in AttemptIds |-> attempts[a].status],
    owner   <- [a \in AttemptIds |-> attempts[a].student],
    result  <- [a \in AttemptIds |-> [score |-> attempts[a].score, pct |-> attempts[a].pct]],
    best    <- [s \in Students |-> [listed |-> board[s].listed,
                                    score  |-> board[s].score,
                                    pct    |-> board[s].pct]]

\* The handlers implement AttemptPromise: every behaviour of theirs, seen
\* through the committed tables, is one of opening and closing attempts.
PromiseKept == Promise!Spec

-----------------------------------------------------------------------------
(* What comments and documents say, and the code does not do *)

\* "Prevent duplicate in-progress attempts" (attempt.rs:107).
OneOpenAttempt ==
    \A s \in Students : Cardinality(Open(s)) <= 1

\* "Atomically records highest score and fastest time" (ASSESSMENT_ARCHITECTURE
\* .md:333): the time of an entry never grows.
FastestTime ==
    [][\A s \in Students :
          board[s].listed => board'[s].time <= board[s].time]_vars

\* "... recalculating ranks using ROW_NUMBER() OVER (ORDER BY percentage DESC,
\* time_taken_secs ASC)" (the same line): no two students share a rank.
RanksDistinct ==
    \A s, t \in Students :
        s # t /\ board[s].listed /\ board[t].listed => board[s].rank # board[t].rank

=============================================================================
