-------------------------- MODULE SchedulePromise ---------------------------
(***************************************************************************)
(* What the life of the assessments looks like to whoever reads their      *)
(* table, with no server, transaction or lock in sight: a handler writes   *)
(* one row, and the schedule advances any number of rows in one instant,   *)
(* each for a reason that its row gives at that instant.                   *)
(*                                                                         *)
(* Lifecycle.tla, which models the handlers and the scheduler that every   *)
(* server runs, is shown to implement this.                                *)
(***************************************************************************)
EXTENDS Naturals

CONSTANTS
    Assessments,  \* primary keys of the assessments table
    Starts,       \* the values start_time can have
    Ends,         \* the values end_time can have
    MaxTime,      \* the clock stops here (a bound of the model)
    None          \* no time bound

VARIABLES
    clock,        \* the database's clock
    row           \* the rows: [status, published, created, start, end]

vars == <<clock, row>>

Row(status, created, start, end) ==
    [status |-> status, published |-> FALSE, created |-> created,
     start |-> start, end |-> end]

Init ==
    /\ clock = 0
    /\ row = [a \in Assessments |-> Row("absent", 0, None, None)]

Tick ==
    /\ clock < MaxTime
    /\ clock' = clock + 1
    /\ UNCHANGED row

-----------------------------------------------------------------------------
(* Writes of one row *)

There(a) == row[a].status \notin {"absent", "deleted"}

Write(a, new) ==
    /\ row' = [row EXCEPT ![a] = new]
    /\ UNCHANGED clock

Create(a, start, end) ==
    /\ row[a].status = "absent"
    /\ Write(a, Row("draft", clock, start, end))

\* A time is moved, never taken away, and no start is moved before the row.
Retime(a, start, end) ==
    /\ There(a)
    /\ start = row[a].start \/ (start # None /\ start >= row[a].created)
    /\ end = row[a].end \/ end # None
    /\ Write(a, [row[a] EXCEPT !.start = start, !.end = end])

Publish(a) ==
    /\ There(a)
    /\ Write(a, [row[a] EXCEPT !.published = TRUE])

Delete(a) ==
    /\ There(a)
    /\ Write(a, Row("deleted", 0, None, None))

\* By hand, as no handler does it.
Restate(a, status) ==
    /\ <<row[a].status, status>> \in
          {<<"draft", "scheduled">>, <<"draft", "cancelled">>,
           <<"scheduled", "cancelled">>, <<"ongoing", "cancelled">>}
    /\ Write(a, [row[a] EXCEPT !.status = status])

-----------------------------------------------------------------------------
(* The schedule *)

\* The test ended before t, and nobody has called it off.
HasEnded(a, t) ==
    /\ row[a].status \in {"scheduled", "ongoing"}
    /\ row[a].end # None /\ row[a].end < t

\* At t the test has started and not ended.
HasStarted(a, t) ==
    /\ row[a].status = "scheduled"
    /\ row[a].start # None /\ row[a].start <= t
    /\ row[a].end # None => row[a].end >= t

\* The schedule acts for a time t that has been, on rows of which what it acts on
\* is true now; it completes some and opens others, all at once.
Advance(t, ended, started) ==
    /\ \A a \in ended : HasEnded(a, t)
    /\ \A a \in started : HasStarted(a, t)
    /\ row' = [a \in Assessments |->
                  IF a \in ended THEN [row[a] EXCEPT !.status = "completed"]
                  ELSE IF a \in started
                       THEN [row[a] EXCEPT !.status = "ongoing", !.published = TRUE]
                  ELSE row[a]]
    /\ UNCHANGED clock

Next ==
    \/ Tick
    \/ \E a \in Assessments :
          \/ \E start \in Starts, end \in Ends : Create(a, start, end) \/ Retime(a, start, end)
          \/ Publish(a) \/ Delete(a)
          \/ \E status \in {"scheduled", "cancelled"} : Restate(a, status)
    \/ \E t \in 0 .. clock, ended, started \in SUBSET Assessments : Advance(t, ended, started)

Spec == Init /\ [][Next]_vars
=============================================================================
