----------------------------- MODULE Lifecycle ------------------------------
(***************************************************************************)
(* The life of an assessment: the faculty's handlers                       *)
(* (janv-api/src/assessment/handlers.rs) and the background scheduler      *)
(* (janv-api/src/assessment/scheduler.rs), which every API process runs    *)
(* against the same PostgreSQL.                                            *)
(*                                                                         *)
(* A scheduler tick is one transaction. The rows its two UPDATEs match are *)
(* held in over and opened, locked against every other writer, and change  *)
(* in the table at Commit; a tick that fails, or whose process stops,      *)
(* leaves no trace. NOW() is the time the transaction began.               *)
(***************************************************************************)
EXTENDS Naturals

CONSTANTS
    Assessments,  \* primary keys of the assessments table
    Servers,      \* API processes, each with its scheduler task
    Starts,       \* the values start_time can have
    Ends,         \* the values end_time can have
    MaxTime,      \* the clock stops here (a bound of the model)
    MaxEdits,     \* calls of update_assessment (a bound of the model)
    None          \* no time bound, no server

ASSUME LifecycleAssumption ==
    /\ None \notin Nat \cup Servers
    /\ Starts \subseteq Nat \cup {None} /\ None \in Starts
    /\ Ends \subseteq Nat \cup {None} /\ None \in Ends
    /\ MaxTime \in Nat
    /\ MaxEdits \in Nat

VARIABLES
    clock,   \* the database's clock
    row,     \* the committed rows: [status, published, created, start, end]
    edits,   \* calls of update_assessment so far
    holder,  \* the server whose transaction has the advisory lock
    pc,      \* per server: the statement of the tick it is about to run
    now,     \* per server: NOW() of its transaction
    over,    \* per server: the rows its first UPDATE has written
    opened   \* per server: the rows its second UPDATE has written

table == <<clock, row, edits>>
ticks == <<holder, pc, now, over, opened>>
vars  == <<table, ticks>>

-----------------------------------------------------------------------------
(* Rows *)

\* The enum assessment_status, and the two ways for a row not to be there.
Statuses == {"absent", "draft", "scheduled", "ongoing", "completed",
             "cancelled", "deleted"}

Gone == {"absent", "deleted"}

Rows == [status : Statuses, published : BOOLEAN, created : 0 .. MaxTime,
         start : Starts, end : Ends]

Blank(s) == [status |-> s, published |-> FALSE, created |-> 0,
             start |-> None, end |-> None]

NoRow == Blank("absent")

Draft(start, end) ==
    [status |-> "draft", published |-> FALSE, created |-> clock,
     start |-> start, end |-> end]

Deleted == Blank("deleted")

\* status IN ('scheduled', 'ongoing') AND end_time < NOW()
IsOver(r, t) ==
    /\ r.status \in {"scheduled", "ongoing"}
    /\ r.end # None /\ r.end < t

\* Faulty: the second UPDATE relies on the first one having run.
IsDueAnyEnd(r, t) ==
    /\ r.status = "scheduled"
    /\ r.start # None /\ r.start <= t

\* status = 'scheduled' AND start_time <= NOW()
\*   AND (end_time IS NULL OR end_time >= NOW())
IsDue(r, t) ==
    /\ r.status = "scheduled"
    /\ r.start # None /\ r.start <= t
    /\ r.end # None => r.end >= t

\* Faulty: rows are read first and written later by their ids.
NeverLocked(a) == FALSE

\* A tick that has not committed has written the row.
Locked(a) == \E i \in Servers : a \in over[i] \cup opened[i]

Init ==
    /\ clock = 0
    /\ row = [a \in Assessments |-> NoRow]
    /\ edits = 0
    /\ holder = None
    /\ pc = [i \in Servers |-> "down"]
    /\ now = [i \in Servers |-> 0]
    /\ over = [i \in Servers |-> {}]
    /\ opened = [i \in Servers |-> {}]

Tick ==
    /\ clock < MaxTime
    /\ clock' = clock + 1
    /\ UNCHANGED <<row, edits, ticks>>

-----------------------------------------------------------------------------
(* Handlers: each writes one row in one statement, which waits for the row *)

CreateAssessment(a, start, end) ==
    /\ row[a].status = "absent"
    /\ row' = [row EXCEPT ![a] = Draft(start, end)]
    /\ UNCHANGED <<clock, edits, ticks>>

\* The copy of an assessment has no times.
DuplicateAssessment(a, b) ==
    /\ row[a].status \notin Gone
    /\ row[b].status = "absent"
    /\ row' = [row EXCEPT ![b] = Draft(None, None)]
    /\ UNCHANGED <<clock, edits, ticks>>

\* COALESCE keeps the time that the request leaves out. A start in the past is
\* refused when the request comes in, and the row is written later, when it is
\* free: the start may be over by then, but the request came in after the row
\* was there.
UpdateAssessment(a, start, end) ==
    /\ edits < MaxEdits
    /\ row[a].status \notin Gone
    /\ ~Locked(a)
    /\ start = row[a].start \/ (start # None /\ start >= row[a].created)
    /\ end = row[a].end \/ end # None
    /\ row' = [row EXCEPT ![a].start = start, ![a].end = end]
    /\ edits' = edits + 1
    /\ UNCHANGED <<clock, ticks>>

\* Only for an assessment with questions, which are not modelled here.
PublishAssessment(a) ==
    /\ row[a].status \notin Gone
    /\ ~Locked(a)
    /\ ~row[a].published
    /\ row' = [row EXCEPT ![a].published = TRUE]
    /\ UNCHANGED <<clock, edits, ticks>>

DeleteAssessment(a) ==
    /\ row[a].status \notin Gone
    /\ ~Locked(a)
    /\ row' = [row EXCEPT ![a] = Deleted]
    /\ UNCHANGED <<clock, edits, ticks>>

\* No handler writes the status: the rows the scheduler works on get it from
\* outside (scheduler.rs tests it on such rows).
Schedule(a) ==
    /\ row[a].status = "draft"
    /\ ~Locked(a)
    /\ row' = [row EXCEPT ![a].status = "scheduled"]
    /\ UNCHANGED <<clock, edits, ticks>>

Cancel(a) ==
    /\ row[a].status \in {"draft", "scheduled", "ongoing"}
    /\ ~Locked(a)
    /\ row' = [row EXCEPT ![a].status = "cancelled"]
    /\ UNCHANGED <<clock, edits, ticks>>

-----------------------------------------------------------------------------
(* scheduler.rs *)

\* spawn: the first tick runs at once.
Boot(i) ==
    /\ pc[i] = "down"
    /\ pc' = [pc EXCEPT ![i] = "waiting"]
    /\ UNCHANGED <<table, holder, now, over, opened>>

\* The interval fires and the transaction begins. The 60 seconds between two
\* ticks are not modelled: a tick may come at any time.
Begin(i) ==
    /\ pc[i] = "waiting"
    /\ pc'  = [pc EXCEPT ![i] = "lock"]
    /\ now' = [now EXCEPT ![i] = clock]
    /\ UNCHANGED <<table, holder, over, opened>>

\* Faulty: pg_try_advisory_lock, which belongs to the session and outlives the
\* transaction.
EndKeepingLock(i, next) ==
    /\ pc'     = [pc EXCEPT ![i] = next]
    /\ now'    = [now EXCEPT ![i] = 0]
    /\ over'   = [over EXCEPT ![i] = {}]
    /\ opened' = [opened EXCEPT ![i] = {}]
    /\ UNCHANGED holder

\* The transaction is over, and with it the advisory lock and the row locks.
End(i, next) ==
    /\ pc'     = [pc EXCEPT ![i] = next]
    /\ now'    = [now EXCEPT ![i] = 0]
    /\ over'   = [over EXCEPT ![i] = {}]
    /\ opened' = [opened EXCEPT ![i] = {}]
    /\ holder' = IF holder = i THEN None ELSE holder

\* Faulty: the answer is not looked at.
LockAnyway(i) ==
    /\ pc[i] = "lock"
    /\ holder' = i
    /\ pc' = [pc EXCEPT ![i] = "complete"]
    /\ UNCHANGED <<table, now, over, opened>>

\* pg_try_advisory_xact_lock: another server's tick is under way, or this one
\* goes on.
TryLock(i) ==
    /\ pc[i] = "lock"
    /\ \/ /\ holder # None
          /\ End(i, "waiting")
       \/ /\ holder = None
          /\ holder' = i
          /\ pc' = [pc EXCEPT ![i] = "complete"]
          /\ UNCHANGED <<now, over, opened>>
    /\ UNCHANGED table

\* UPDATE ... SET status = 'completed'. A row that another tick has written
\* would have to be waited for.
CompleteOver(i) ==
    LET found == {a \in Assessments : IsOver(row[a], now[i])} IN
    /\ pc[i] = "complete"
    /\ \A a \in found : ~Locked(a)
    /\ over' = [over EXCEPT ![i] = found]
    /\ pc'   = [pc EXCEPT ![i] = "open"]
    /\ UNCHANGED <<table, holder, now, opened>>

\* UPDATE ... SET is_published = true, status = 'ongoing'. The statement sees
\* what has been committed meanwhile, and the rows of its own transaction as
\* they will be.
OpenDue(i) ==
    LET found == {a \in Assessments \ over[i] : IsDue(row[a], now[i])} IN
    /\ pc[i] = "open"
    /\ \A a \in found : ~Locked(a)
    /\ opened' = [opened EXCEPT ![i] = found]
    /\ pc'     = [pc EXCEPT ![i] = "commit"]
    /\ UNCHANGED <<table, holder, now, over>>

\* Faulty: the flag is forgotten.
StatusOnly(i, a) ==
    IF a \in over[i] THEN [row[a] EXCEPT !.status = "completed"]
    ELSE IF a \in opened[i] THEN [row[a] EXCEPT !.status = "ongoing"]
    ELSE row[a]

\* Row a once the tick of server i has committed.
Advanced(i, a) ==
    IF a \in over[i] THEN [row[a] EXCEPT !.status = "completed"]
    ELSE IF a \in opened[i] THEN [row[a] EXCEPT !.status = "ongoing", !.published = TRUE]
    ELSE row[a]

Commit(i) ==
    /\ pc[i] = "commit"
    /\ row' = [a \in Assessments |-> Advanced(i, a)]
    /\ End(i, "waiting")
    /\ UNCHANGED <<clock, edits>>

\* A statement fails or runs into its timeout, the query for the advisory lock
\* included: its error is passed over, but the transaction is aborted and the
\* first UPDATE returns an error. Logged, and tried again at the next tick.
Fail(i) ==
    /\ pc[i] \notin {"down", "waiting"}
    /\ End(i, "waiting")
    /\ UNCHANGED table

\* The process stops, or main aborts the task: the transaction is rolled back.
Stop(i) ==
    /\ pc[i] # "down"
    /\ End(i, "down")
    /\ UNCHANGED table

-----------------------------------------------------------------------------
(* Specification *)

Handlers ==
    \E a \in Assessments :
        \/ \E start \in Starts, end \in Ends :
              CreateAssessment(a, start, end) \/ UpdateAssessment(a, start, end)
        \/ \E b \in Assessments : DuplicateAssessment(a, b)
        \/ PublishAssessment(a)
        \/ DeleteAssessment(a)

Outside == \E a \in Assessments : Schedule(a) \/ Cancel(a)

Scheduler(i) ==
    \/ Boot(i)
    \/ Begin(i)
    \/ TryLock(i)
    \/ CompleteOver(i)
    \/ OpenDue(i)
    \/ Commit(i)

Next ==
    \/ Tick
    \/ Handlers
    \/ Outside
    \/ \E i \in Servers : Scheduler(i) \/ Fail(i) \/ Stop(i)

Spec == Init /\ [][Next]_vars

\* A stopped process is started again, and processes and statements do not fail
\* every time: a tick that is tried for ever gets a statement further now and
\* then. Nobody has to edit anything.
Fairness ==
    \A i \in Servers :
        /\ WF_vars(Boot(i))
        /\ SF_vars(Begin(i))
        /\ SF_vars(TryLock(i))
        /\ SF_vars(CompleteOver(i))
        /\ SF_vars(OpenDue(i))
        /\ SF_vars(Commit(i))

FairSpec == Spec /\ Fairness

-----------------------------------------------------------------------------
(* Invariants *)

\* Every variable has its type.
TypeOK ==
    /\ clock \in 0 .. MaxTime
    /\ row \in [Assessments -> Rows]
    /\ edits \in 0 .. MaxEdits
    /\ holder \in Servers \cup {None}
    /\ pc \in [Servers -> {"down", "waiting", "lock", "complete", "open", "commit"}]
    /\ now \in [Servers -> 0 .. MaxTime]
    /\ over \in [Servers -> SUBSET Assessments]
    /\ opened \in [Servers -> SUBSET Assessments]

\* Statements a tick runs under the advisory lock.
Ticking == {"complete", "open", "commit"}

\* The advisory lock is held by the one server that is between it and the end
\* of its tick: no two servers advance the schedule at the same time, and none
\* is left holding the lock (MICROSERVICE_STRUCTURE.md:13).
OneTickAtATime ==
    \A i \in Servers : pc[i] \in Ticking <=> holder = i

\* What a tick is about to commit is still so: between its UPDATEs and its
\* commit nobody has moved the times, cancelled or deleted a row it found.
FoundStillTrue ==
    \A i \in Servers :
        /\ \A a \in over[i] : pc[i] \in {"open", "commit"} /\ IsOver(row[a], now[i])
        /\ \A a \in opened[i] :
              /\ pc[i] = "commit"
              /\ row[a].status = "scheduled"
              /\ row[a].start # None /\ row[a].start <= now[i]
              /\ row[a].end # None => row[a].end >= now[i]

\* NOW() is a time that has been.
TimesPast == \A i \in Servers : now[i] <= clock

\* The inductive invariant of the proofs.
IInv == TypeOK /\ OneTickAtATime /\ FoundStillTrue

-----------------------------------------------------------------------------
(* Action properties *)

\* A test that opens is published in the same step, and by the row that is in
\* the table its start has come and its end has not, at the time of a tick:
\* no downtime and no edit that overlaps the tick makes the scheduler publish
\* an expired test (scheduler.rs:42, ASSESSMENT_ARCHITECTURE.md:76).
OpensInTime ==
    [][\A a \in Assessments :
          row[a].status = "scheduled" /\ row'[a].status = "ongoing" =>
              /\ row'[a].published
              /\ \E i \in Servers :
                    /\ pc[i] = "commit"
                    /\ row[a].start # None /\ row[a].start <= now[i]
                    /\ row[a].end # None => row[a].end >= now[i]]_vars

\* The ways a status may change.
Moves == {<<"absent", "draft">>, <<"draft", "scheduled">>,
          <<"scheduled", "ongoing">>, <<"scheduled", "completed">>, <<"ongoing", "completed">>}
           \cup {<<s, "cancelled">> : s \in {"draft", "scheduled", "ongoing"}}
           \cup {<<s, "deleted">> : s \in Statuses \ Gone}

\* Drafts and cancelled tests keep their state whatever tick is under way
\* (scheduler.rs:43), a completed test is never opened again, a deleted one
\* never comes back, and a published one stays published.
StatusMovesForward ==
    [][\A a \in Assessments :
          /\ row'[a].status = row[a].status \/ <<row[a].status, row'[a].status>> \in Moves
          /\ {row[a].status, row'[a].status} \cap Gone = {} =>
                (row[a].published => row'[a].published)]_vars

-----------------------------------------------------------------------------
(* Liveness *)

\* A test whose time has come is opened or completed, whatever ticks fail and
\* whatever processes stop: the lock never stays with a server that is gone.
DueIsServed ==
    \A a \in Assessments :
        IsOver(row[a], clock) \/ IsDue(row[a], clock) ~>
            ~(IsOver(row[a], clock) \/ IsDue(row[a], clock))

-----------------------------------------------------------------------------
(* Refinement *)

Promise == INSTANCE SchedulePromise

\* Any number of servers, whose ticks overlap, fail and are cut short, look like one
\* schedule that acts in an instant on rows of which what it acts on is still true;
\* nobody ever sees half a tick (scheduler.rs:31).
ScheduleKept == Promise!Spec

=============================================================================
