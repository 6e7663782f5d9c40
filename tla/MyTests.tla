-------------------------------- MODULE MyTests --------------------------------
(***************************************************************************)
(* assessment/page.tsx, "My Tests": the table of tests, its tabs and       *)
(* badges, and what its rows offer: schedule, duplicate and delete.        *)
(*                                                                         *)
(* After a write that succeeds the page fetches the list again; after one  *)
(* that fails it changes its own rows as if it had succeeded, and says the *)
(* same. No button is ever disabled: while a write is under way the same   *)
(* one may be sent again, its modal cancelled and others opened. A modal   *)
(* is drawn over the page only, so that both may be open. (The ones for a  *)
(* passcode and for a test without questions change nothing: left out.)    *)
(*                                                                         *)
(* The server is external: it carries out a write or not, its answer may   *)
(* be lost, and others change the tests as well. A schedule sets the start *)
(* and the end of a test and nothing else: the server ignores is_published *)
(* as the page sends it.                                                   *)
(***************************************************************************)
EXTENDS Naturals, FiniteSets

CONSTANTS
    TestRows,    \* ids of tests
    EmptyTests,  \* those without questions
    Windows,     \* the start and end times that are typed
    OtherRows,   \* what others make of each test: their windows are not checked
    Instants,    \* the times at which the table is drawn
    CallSlots,   \* a bound of the model on the requests under way
    NoTime, NoTest, NoWindow

\* A test as the page reads it; none is NoTest.
Row(p, w) == [published |-> p, start |-> w.start, end |-> w.end]

RowType == [published : BOOLEAN, start : Nat \cup {NoTime}, end : Nat \cup {NoTime}] \cup {NoTest}

ASSUME MyTestsAssumption ==
    /\ EmptyTests \subseteq TestRows
    /\ Windows \subseteq [start : Nat, end : Nat]
    /\ OtherRows \in [TestRows -> SUBSET RowType]
    /\ Instants \subseteq Nat
    /\ NoTime \notin Nat /\ NoTest \notin TestRows /\ NoWindow \notin Windows

VARIABLES
    known,         \* the server: its tests
    tableRows,     \* the page: its list
    loading,       \* the page shows no rows
    scheduleModal, \* scheduleModalTest
    deleteModal,   \* deleteModalTest
    calls,         \* requests under way
    suspect        \* history: tests that others have changed, a request of which has
                   \* failed, or that were written after a list under way was read

modalVars   == <<scheduleModal, deleteModal>>
myTestsVars == <<known, tableRows, loading, modalVars, calls, suspect>>

Unscheduled == [start |-> NoTime, end |-> NoTime]

NoRows   == [t \in TestRows |-> NoTest]
Shown(l) == {t \in TestRows : l[t] # NoTest}

\* A request: a fetch holds what the server has read for it, a write the test that it
\* has changed, once it has been carried out (done).
Fetch == [kind |-> "fetch", test |-> NoTest, window |-> NoWindow, done |-> FALSE,
          seen |-> NoRows, hit |-> NoTest]

NoCall == [Fetch EXCEPT !.kind = "idle"]

Call(kind, t, w) == [Fetch EXCEPT !.kind = kind, !.test = t, !.window = w]

\* What is under way: fetches, those the server has read, and writes.
Fetches == {s \in CallSlots : calls[s].kind = "fetch"}
Read    == {s \in Fetches : calls[s].done}
Writes  == {s \in CallSlots : calls[s].kind \in {"schedule", "delete", "duplicate"}}

MyTestsInit ==
    /\ known = NoRows /\ tableRows = NoRows /\ loading = TRUE
    /\ scheduleModal = NoTest /\ deleteModal = NoTest
    /\ \E f \in CallSlots : calls = [s \in CallSlots |-> IF s = f THEN Fetch ELSE NoCall]
    /\ suspect = TestRows

\* Somebody creates, changes, schedules, publishes or deletes a test.
Elsewhere(t) ==
    /\ known' \in {[known EXCEPT ![t] = r] : r \in OtherRows[t] \cup {NoTest}}
    /\ suspect' = suspect \cup {t}
    /\ UNCHANGED <<tableRows, loading, modalVars, calls>>

-----------------------------------------------------------------------------
(* Badges and tabs *)

HasStart(r) == r.start # NoTime
HasEnd(r)   == r.end # NoTime

\* getStatusBadge
Badge(r, now) ==
    CASE ~r.published \/ (HasStart(r) /\ r.start > now) -> "yet"
      [] r.published /\ ~(HasStart(r) /\ r.start > now) /\ HasEnd(r) /\ r.end < now -> "completed"
      [] OTHER -> "ongoing"

\* Faulty: "Completed" from the end of the test on.
InTabEarly(r, b, now) ==
    CASE b = "ongoing"   -> r.published /\ HasStart(r) /\ r.start <= now /\ HasEnd(r) /\ r.end > now
      [] b = "completed" -> HasEnd(r) /\ r.end <= now
      [] b = "yet"       -> ~r.published \/ (HasStart(r) /\ r.start > now)

\* The filter of the table: isOngoing, isCompleted, isYetToStart.
InTab(r, b, now) ==
    CASE b = "ongoing"   -> /\ r.published
                            /\ HasStart(r) /\ r.start <= now /\ HasEnd(r) /\ r.end >= now
      [] b = "completed" -> HasEnd(r) /\ r.end < now
      [] b = "yet"       -> ~r.published \/ (HasStart(r) /\ r.start > now)

Tabs3 == {"yet", "ongoing", "completed"}

-----------------------------------------------------------------------------
(* What the rows and modals offer *)

\* The rows are there to be used.
Offered == IF loading THEN {} ELSE Shown(tableRows)

\* handleScheduleClick, of a row without a start: not without questions.
ScheduleClick(t) ==
    /\ t \in Offered \ EmptyTests /\ ~HasStart(tableRows[t])
    /\ scheduleModal' = t
    /\ UNCHANGED <<known, tableRows, loading, deleteModal, calls, suspect>>

DeleteClick(t) ==
    /\ t \in Offered
    /\ deleteModal' = t
    /\ UNCHANGED <<known, tableRows, loading, scheduleModal, calls, suspect>>

\* Cancel, of either modal.
CloseModal ==
    /\ \/ scheduleModal # NoTest /\ scheduleModal' = NoTest /\ UNCHANGED deleteModal
       \/ deleteModal # NoTest /\ deleteModal' = NoTest /\ UNCHANGED scheduleModal
    /\ UNCHANGED <<known, tableRows, loading, calls, suspect>>

\* A request leaves, the same one again or another.
Ask(c) ==
    /\ \E s \in CallSlots : calls[s] = NoCall /\ calls' = [calls EXCEPT ![s] = c]
    /\ UNCHANGED <<known, tableRows, loading, modalVars, suspect>>

\* handleScheduleSubmit: a window that is not over before it begins, and has not begun
\* yet. The modal stays until the answer.
ScheduleSubmit(w) ==
    /\ scheduleModal # NoTest /\ w.start < w.end
    /\ Ask(Call("schedule", scheduleModal, w))

\* handleDeleteConfirm, handleDuplicate
DeleteConfirm == deleteModal # NoTest /\ Ask(Call("delete", deleteModal, NoWindow))

Duplicate(t) == t \in Offered /\ Ask(Call("duplicate", t, NoWindow))

-----------------------------------------------------------------------------
(* The server *)

\* The list is read.
FetchRead(s) ==
    /\ s \in Fetches \ Read
    /\ calls' = [calls EXCEPT ![s].done = TRUE, ![s].seen = known]
    /\ UNCHANGED <<known, tableRows, loading, modalVars, suspect>>

\* What a write makes of which test: a schedule keeps the flag of a test, a duplicate
\* is a test of its own.
Written(c) ==
    CASE c.kind = "schedule"  -> {<<t, Row(known[t].published, c.window)>>
                                    : t \in {c.test} \cap Shown(known)}
      [] c.kind = "delete"    -> {<<c.test, NoTest>>}
      [] c.kind = "duplicate" ->
            IF known[c.test] = NoTest THEN {}
              ELSE {<<u, Row(FALSE, Unscheduled)>> : u \in TestRows \ Shown(known)}

\* A write is carried out. A list that has been read before does not know of it.
WriteDone(s) ==
    /\ s \in Writes /\ ~calls[s].done
    /\ \E w \in Written(calls[s]) :
          /\ known' = [known EXCEPT ![w[1]] = w[2]]
          /\ calls' = [calls EXCEPT ![s].done = TRUE, ![s].hit = w[1]]
          /\ suspect' = IF Read = {} THEN suspect ELSE suspect \cup {w[1]}
    /\ UNCHANGED <<tableRows, loading, modalVars>>

-----------------------------------------------------------------------------
(* The answers *)

\* The list is shown. A row of it is past suspicion if no other list that the server
\* has read is to say something else.
FetchAnswered(s) ==
    /\ s \in Read
    /\ tableRows' = calls[s].seen /\ loading' = FALSE
    /\ calls' = [calls EXCEPT ![s] = NoCall]
    /\ suspect' = {t \in suspect : \E r \in Read : calls[r].seen[t] # known[t]}
    /\ UNCHANGED <<known, modalVars>>

\* An error empties the list, and says so.
FetchFails(s) ==
    /\ s \in Fetches
    /\ tableRows' = NoRows /\ loading' = FALSE
    /\ calls' = [calls EXCEPT ![s] = NoCall]
    /\ suspect' = TestRows
    /\ UNCHANGED <<known, modalVars>>

\* After an answer the modal of the write closes, for whichever test it is open by now.
Closes(kind) ==
    /\ scheduleModal' = IF kind = "schedule" THEN NoTest ELSE scheduleModal
    /\ deleteModal' = IF kind = "delete" THEN NoTest ELSE deleteModal

\* Faulty: the page counts on its own rows.
WriteUnfetched(s) ==
    /\ s \in Writes /\ calls[s].done
    /\ calls' = [calls EXCEPT ![s] = NoCall]
    /\ Closes(calls[s].kind)
    /\ UNCHANGED <<known, tableRows, loading, suspect>>

\* A write has succeeded, and the list is fetched again.
WriteAnswered(s) ==
    /\ s \in Writes /\ calls[s].done
    /\ calls' = [calls EXCEPT ![s] = Fetch]
    /\ loading' = TRUE
    /\ Closes(calls[s].kind)
    /\ UNCHANGED <<known, tableRows, suspect>>

\* What a failed write makes of the page's rows: what it should have, except that a
\* duplicate has no row, and a schedule also publishes.
Pretended(c) ==
    CASE c.kind = "schedule"  ->
            [tableRows EXCEPT ![c.test] = IF @ = NoTest THEN @ ELSE Row(TRUE, c.window)]
      [] c.kind = "delete"    -> [tableRows EXCEPT ![c.test] = NoTest]
      [] c.kind = "duplicate" -> tableRows

\* It has failed, or only its answer has.
WriteFails(s) ==
    /\ s \in Writes
    /\ tableRows' = Pretended(calls[s])
    /\ calls' = [calls EXCEPT ![s] = NoCall]
    /\ suspect' = suspect \cup ({calls[s].test, calls[s].hit} \cap TestRows)
    /\ Closes(calls[s].kind)
    /\ UNCHANGED <<known, loading>>

MyTestsNext ==
    \/ \E t \in TestRows : Elsewhere(t) \/ ScheduleClick(t) \/ DeleteClick(t) \/ Duplicate(t)
    \/ CloseModal \/ DeleteConfirm
    \/ \E w \in Windows : ScheduleSubmit(w)
    \/ \E s \in CallSlots :
          \/ FetchRead(s) \/ FetchAnswered(s) \/ FetchFails(s)
          \/ WriteDone(s) \/ WriteAnswered(s) \/ WriteFails(s)

MyTestsSpec == MyTestsInit /\ [][MyTestsNext]_myTestsVars

-----------------------------------------------------------------------------
(* Properties *)

CallType == [kind : {"idle", "fetch", "schedule", "delete", "duplicate"},
             test : TestRows \cup {NoTest}, window : Windows \cup {NoWindow}, done : BOOLEAN,
             seen : [TestRows -> RowType], hit : TestRows \cup {NoTest}]

\* Every variable has its type.
MyTestsTypeOK ==
    /\ known \in [TestRows -> RowType] /\ tableRows \in [TestRows -> RowType]
    /\ loading \in BOOLEAN
    /\ {scheduleModal, deleteModal} \subseteq TestRows \cup {NoTest}
    /\ calls \in [CallSlots -> CallType]
    /\ suspect \subseteq TestRows

\* When no request is under way, the row of a test is what the server has, whatever
\* has been asked for other tests, and answered in whichever order. Exceptions: a test
\* that others have changed, that a failed request was about (the page makes its row
\* look as if it had succeeded, and empties a list it cannot fetch), or that was
\* written while an older list was under way, until the next list has come.
RowsAreTrue ==
    (\A s \in CallSlots : calls[s] = NoCall) =>
        \A t \in TestRows \ suspect : tableRows[t] = known[t]

Progress(b) == CASE b = "yet" -> 0 [] b = "ongoing" -> 1 [] b = "completed" -> 2

\* At every instant a row is under the tab that its badge names and no other. One that
\* is "ON GOING" without a start or an end is under none; one that is "YET TO START"
\* past its end, since it is not published or starts after it, is under "completed" as
\* well. And a badge only moves forward as time passes.
BadgeNamesTab ==
    \A t \in Shown(tableRows), now \in Instants :
        LET r == tableRows[t]
            b == Badge(r, now)
        IN  /\ {u \in Tabs3 : InTab(r, u, now)} =
                 CASE b = "ongoing" /\ ~(HasStart(r) /\ HasEnd(r))   -> {}
                   [] b = "yet" /\ HasEnd(r) /\ r.end < now          -> {"yet", "completed"}
                   [] OTHER                                          -> {b}
            /\ \A later \in Instants :
                  now <= later => Progress(b) <= Progress(Badge(r, later))

=============================================================================
