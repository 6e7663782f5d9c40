# A TLA+ model of janv

janv is an online examination platform: a Rust API (`janv-api`, Axum and SQLx over
PostgreSQL and Redis), a code executor (`janv-executor`, a client of Judge0) and a
Next.js front end (`janv-web-next`). These modules model the parts of it where
concurrent requests, failures and the clock decide whether an exam is conducted
correctly. TLC checks them on small instances; TLAPS proves the main safety
properties for instances of every size.

    tlc -workers 2 -config MCAttempts.cfg MCAttempts        # one run
    tlapm AttemptsProofs.tla                                # one module of proofs

## 1. Inventory

| Component | State it keeps | Operations | Hard behaviour | What must hold | Modules |
|---|---|---|---|---|---|
| Attempt engine, `assessment/attempt.rs` | `attempts`, `leaderboard_entries` | start, submit | requests of one student overlap; a submission is one transaction, a start is none; row locks, deadlocks, dropped requests | a result is final; the leaderboard keeps the best; nothing is half done; requests end | `AttemptPromise`, `Attempts` |
| Lifecycle, `assessment/handlers.rs` and `scheduler.rs` | `assessments.status`, `is_published`, times; an advisory lock | create, update, publish, delete, duplicate; the tick of every server | several servers tick at once, fail, restart; edits overlap a tick; downtime past the end of a test | one tick at a time; opened only inside the window; every due test is served | `SchedulePromise`, `Lifecycle` |
| Passcodes, `assessment/passcode.rs` and the gate in `start_attempt` | `institution_passcodes`, `assessment_passcodes`, a flag per student in Redis | current, regenerate, set, verify, remove | statements without a transaction, an error that is dropped, a flag that outlives the passcode | the tables agree after a renewal; a gate passed only with a passcode | `Passcodes` |
| Sessions, `auth/handlers.rs`, web `lib/auth.tsx` and login page | `refresh_tokens`; tokens in two storages of the browser, one of them shared by its tabs | login, refresh, load, log out | a refresh is three statements; three awaits in the client; the old token is stored again | requests are made as the user who is shown; a row pays for one refresh | `Session` |
| Test wizard, `create/page.tsx`, `createSection/page.tsx` | a draft in sessionStorage, forms | fill in, go back and forth, finish | answers that come late; one form for every section | the draft keeps its code; what is shown locked is what is saved; every section sent is valid | `CreateTest`, `SectionForms` |
| Next.js authoring routes, `api/v2/assessment` | `assessments`, `assessment_sections` | propose a code, create, delete | a loop of INSERTs in no transaction; retries after a lost answer | one test per draft; success means the whole test | `TestCreation` |
| Question forms, `addQuestion*`, `editQuestion*`, `question.rs` | a question, its links | create and link, load, warn, update | a form that can be sent again before its page is left, and while a save runs; requests that outlive the page | one right answer; the last save stands; no questions unaccounted for | `QuestionForms` |
| Test editor, `[id]/edit/page.tsx` with `question.rs` and `handlers.rs` | `assessment_questions`, `is_published` | tick, link, count, publish, delete a question | several tabs; INSERTs in no transaction; count and publish in two statements | what is said to be published is, with what was ticked | `TestEditor` |
| My Tests, `assessment/page.tsx` | the rows shown, its requests | fetch, schedule, duplicate, delete | rows changed as if a failed write had succeeded; overlapping requests | the rows are the server's; tab and badge agree | `MyTests` |
| Exam page, `take/page.tsx` | answers and a countdown in the browser | start, resume, answer, submit, retake | the countdown ends during a submit, or before the start is answered; a failed submit looks like a success | what is shown is graded; time up means submitted | `ExamPage` |
| Listings, `overallReport`, `testDetails`, `search` | a query, a table | filter, page, search | answers out of order | the table answers the query that is shown | `Listings` |
| Passcode card of `learn/dashboard` | a passcode and a countdown | fetch, rotate, copy | the countdown ends during a rotation | the newest passcode is shown | `PasscodeCard` |
| Executor, compiler endpoint, practice, job queue | permits of a semaphore; a Redis list | | | | - |
| Reads: leaderboard, analytics, results, reports | none | queries | | | - |
| Templates, courses, users, institutions, audit log | one table each | single statements | | | - |
| `assessment/service.rs`, `repository.rs` | as the attempt engine | not routed | | | - |
| Other pages, migrations, deployment, tools | | | | | - |

How they interact: the web client calls the API, and its own Next.js routes, over HTTP;
each request is a task that gives way to the others at every `await`. The tasks share
nothing but PostgreSQL (READ COMMITTED), Redis and the executor. The scheduler is one
more task in every API process; it shares the table `assessments` with the faculty's
handlers, and `start_attempt` reads what both write. `submit_attempt` reads
`assessments` and the questions, and writes `attempts` and `leaderboard_entries`. The pages
of the web client share no state but the tokens (Session) and the draft of a test
(CreateTest, TestCreation): a page that is left loses its own.

The hazards of this code, each with its line and the properties that cover it, are the
list "hazards" in `PROJECT.json`. Where a property has an exception that is part of the hazard,
its entry says so. Four have no property. A completed test stays published
and can be started again once its end is moved (`scheduler.rs` 45), which joins the status
of `Lifecycle` to the attempts of `Attempts`. The other three are things the code lets
happen, which the runs reach and the properties except: two refreshes that both find a row
before either deletes it (`auth/handlers.rs` 183), the used refresh token that the client
stores again (`auth.tsx` 65), and the last section of a test under two deletions at once
(`createSuccess/page.tsx` 43).

## 2. How the project is built

1. The server: `AttemptPromise` (what the attempt engine promises) and `Attempts` (its
   statements), `SchedulePromise` and `Lifecycle` likewise, `Passcodes`. They share tables, but
   no property needs two of them: each lets the others' effects on its rows happen at any time
   (`PublishAssessment`, `UpdateAssessment` and the clock in `Attempts`; the gate is a free
   choice there).
2. The web client, one module per page or per flow, each with the handlers it calls:
   `Session`, `CreateTest`, `SectionForms`, `TestCreation`, `QuestionForms`, `TestEditor`,
   `MyTests`, `ExamPage`, `Listings`, `PasscodeCard`.
3. `WebClient`, which puts the ten side by side. Since they share no variable, a behaviour
   of it is about one of them (`scene`), and one run checks them all.
4. The `MC` modules and `.cfg` files, which give the instances for TLC, and the modules of
   proofs: `AttemptsProofs`, `LifecycleProofs`, `PasscodesProofs`, `SessionProofs`,
   `FormsProofs` (wizard and question forms), `TestCreationProofs`, `ScreensProofs` (card,
   exam, listings, My Tests, test editor), `WebClientProofs` (the composition).

Each module has its parameters as CONSTANTS with a named ASSUME, one action per
statement, handler or control, and no RECURSIVE operator, so that it can be proved about.
Variables named *history* are read by no guard of the program; they say which of the
exceptions in a property has occurred.

## 3. The modules and the code

### Attempts (`janv-api/src/assessment/attempt.rs`, for one assessment)

A request is an element of `Requests` with a program counter `pc` and what its handler
has in local variables: `job`, `graded`, `pending`, `ranking`, `todo`. An element is
used again once its request has ended, so `Requests` bounds how many are in flight, not
how many there are.

| Action | Code |
|---|---|
| `StartAdmit` | 16-105: published flag, window, passcode gate |
| `StartCheck` | 107-123: the SELECT for an open attempt, resuming it |
| `StartInsert` | 125-169: the INSERT, a statement of its own |
| `SubmitLock` | 177-192: BEGIN, SELECT ... FOR UPDATE, refusal of a submitted attempt |
| `SubmitGrade` | 194-283: reads the assessment, grades, updates the attempt (not yet visible) |
| `SubmitEntry` | 285-303: the upsert, which waits for a transaction writing the same row |
| `SubmitView`, `SubmitRank` | 305-316: the rank UPDATE, as PostgreSQL runs it: it numbers the rows of its snapshot, then locks them one by one |
| `SubmitCommit` | 318-330 |
| `Drop` | the client goes away, the process dies or a statement fails, anywhere |
| `DeadlockVictim` | PostgreSQL aborts one transaction of a wait cycle |
| `PublishAssessment`, `UpdateAssessment`, `Tick` | the faculty's handlers and the clock |

What PostgreSQL does at READ COMMITTED is modelled from how the code relies on it: a
statement sees what was committed when it began and what its own transaction wrote; a
row another transaction has written is waited for and then taken in its committed
version. Of the rows the rank UPDATE finds newer than its snapshot it takes the newer
version and writes the rank it had numbered (`Ranked`). An uncommitted transaction is
entirely in its own variables, so to roll it back is to forget them (`Finish`).

Abstractions: the answers of a student are the total they score (`Scores`); `score` and
`percentage` are whole numbers; completed_at, is_passed and the stored answers are not
there. `Percent` keeps the guard against `total_marks = 0`. A late submission is only
logged by the code, so `SubmitGrade` has no time guard. `StartAdmit` lets any request
through the passcode gate, since whether it gets through is up to tables of another
module. `IdsLeft` is a bound of the model: starts stop being admitted when
`AttemptIds` is used up.

`AttemptPromise` says the same without requests, transactions or locks: `Open` an
attempt, `Close` it with a result and raise the leaderboard entry in one step. The
refinement mapping (`Promise` in `Attempts`) reads its variables off the committed
tables.

Two variables are history: `crossed` has the requests under which another has committed
since they numbered the rows, `outdated` tells whether the last commit was by one of them.
`RanksExact` needs them to say when the ranks are exact. PostgreSQL's detector aborts a
transaction on a cycle of waits, and no other: `Awaited(r)` is the least set with r that
waits for nobody outside, and r is `Deadlocked` if it waits for a request behind which it
stands itself.

### Lifecycle (`handlers.rs`, `scheduler.rs`)

`row` is the committed table; the rows a tick has written and not committed are in
`over` and `opened`, and are locked (`Locked`) for every handler and every other tick.

| Action | Code |
|---|---|
| `CreateAssessment`, `UpdateAssessment`, `DeleteAssessment`, `PublishAssessment`, `DuplicateAssessment` | `handlers.rs` 97-316, one each |
| `Boot`, `Begin` | `scheduler.rs` 4-25: the task is spawned, the interval fires, the transaction begins and fixes NOW() |
| `TryLock` | 27-37: pg_try_advisory_xact_lock |
| `CompleteOver`, `OpenDue` | 42-59: the two UPDATEs |
| `Commit` | 61: the rows change, the locks go (`End`) |
| `Fail` | any statement fails or times out; logged, tried again at the next tick |
| `Stop` | the process dies, or `main.rs` 61 aborts the task |
| `Schedule`, `Cancel` | no code of the repository writes these statuses; the scheduler's own test uses rows that have them |

`SchedulePromise` is the same table without servers, transactions and locks: every handler
writes one row, and `Advance(t, ended, started)` completes and opens any number of rows in
one instant, of each of which its reason is true for the time t. The variables of both have
the same names, so the mapping (`Promise` in `Lifecycle`) is the identity on the table.

The handlers read the row and then write it in a second statement; what they read
(owner, existence) does not change except by deletion, after which the second statement
finds nothing, so one action stands for both. The check of update_assessment that the
new start is not in the past is made when the request comes in; the write may be later,
so the action accepts every start that was not in the past at some moment since the row
was there (`created`). Left out: the 60 seconds between ticks (a tick may come at any
time), and the questions that publish counts, which are in `TestEditor`.

### Passcodes (`passcode.rs`, and the gate in `attempt.rs`, for one institution)

`live` is what `institution_passcodes` has in force, `gate` the active rows of
`assessment_passcodes`, `flag` the keys `passcode_verified` in Redis. The handlers run in
no transaction, so every statement is an action.

| Action | Code |
|---|---|
| `CurrentExpired` | `passcode.rs` 21-63: no passcode in force, so a renewal begins (with one in force it is a read) |
| `Regenerate` | 105-129: the UPDATE that deactivates |
| `Insert`, `Copy` | 131-152, as 64-86: the new passcode, then the copy |
| `SetPasscode`, `RemovePasscode` | 167-205, 298-323 |
| `VerifyMatch`, `VerifyPick`, `VerifyDirect`, `VerifyFlag` | 207-296 |
| `GateRead`, `GateFlag`, `GateCompare` | `attempt.rs` 58-105 |
| `Drop` | the end of a request without another effect: a refusal, a failed statement, the errors of the copy and of SETEX that are passed over, a client that goes away |
| `ExpirePasscode`, `ExpireFlag` | the 6 hours and the 900 seconds, whenever they end |

Time is abstracted to "may expire at any moment", so the properties hold for any window
and any delay of a request. Several rows with one passcode are one element of `live`.
Which of several assessments with the same passcode the fallback finds is left open.
Deletion of an assessment is left out. The variables `alone`, `settled`, `apart` and
`shown` are history: no guard of a handler reads them.

`Own` is the set of assessments with an institution_id. No statement of the repository
sets that column, so the rows that have it are there from the start, and
`CreateAssessment` makes rows without. For `Own = {}`, which is all the program produces
by itself, `VerifyPick` always falls back and `Copy` writes nothing.

### Session (`auth.tsx`, `adminLogin/page.tsx`, `auth/handlers.rs`, `jwt.rs`)

The tabs of one browser share localStorage (`local`) and have a sessionStorage each
(`session`). One number stands for an access token and its refresh token, which are stored
together. `issues` is the sequence of issues; two of one second carry the same number,
because a token contains the time in whole seconds and nothing random.

| Action | Code |
|---|---|
| `LoadTab`, `Mounted` | AuthProvider is mounted and runs fetchUser, `auth.tsx` 79-90 |
| `MeAnswered`, `MeFails` | 48-77: the request for the user, and the refresh after a failure |
| `SelectRow`, `DeleteRow`, `InsertRow` | `auth/handlers.rs` 172-248, with the answer, after which the page stores the old refresh token |
| `RefreshFails` | refused, lost, or the handler stops |
| `Login`, `SignedIn` | `adminLogin/page.tsx` 17-40, `auth/handlers.rs` 15-82, `auth.tsx` 92-97 |
| `Logout` | 99-106; the server is not told |

Any request may be refused or lost, which covers expiry and disabled accounts. Which page a
tab shows is left out: the login page can be reached from every page.

### CreateTest, SectionForms, TestCreation (the wizard and its routes)

`CreateTest` is step 1: `DepartmentMenu`, `BatchMenu`, `ClickOutside` (the menus, 93-155 and
492-750 of `create/page.tsx`), `ListAnswered`, `CodeAnswered` (the requests of a mounted page),
one action per field, `SubmitDraft`, and `ComeBack` or `NewTest` when the page is mounted
again with or without a draft.

`SectionForms` is step 2: one form for all sections. One action per field, `ToggleEdit`,
`SaveSection` (114-149 of `createSection/page.tsx`), `Previous`, `NextSection`, `Finish`,
`FinishAnswered`. A typed zero and the number zero are different values of a field, since
JavaScript's `||` tells them apart.

`TestCreation` is what both do to the database, with every tab going through the wizard once:

| Action | Code |
|---|---|
| `ProposeCode`, `ToSections`, `ToCreate` | `currentTestCode/route.ts`, which `create/page.tsx` 81 calls, and the moves between the steps |
| `FinishTest`, `GiveUp`, `Answered` | `createSection/page.tsx` 167-215; the connection may break while the server goes on |
| `InsertTest`, `InsertSection`, `StatementFails`, `ServerDies` | `api/v2/assessment/route.ts` 74-233, one INSERT each |
| `DeleteTest` | `api/v2/assessment/[id]/route.ts` 46-57 |
| `LoadSections`, `ClickDelete`, `DeleteAnswered`, `DeleteLost` | `createSuccess/page.tsx` |
| `DeleteSection` | `api/v2/assessment/section/[id]/route.ts` 52-83 |

The route writes the column test_type. Migration 024 drops it, but the exported schema in
`rds_exports` still has it, so the route is modelled as one that works. In `next.config`
the rewrite of `/api/:path*` to janv-api is applied before dynamic routes, so a
deployment may send requests for `[id]` there, where they fail:
these failures are among the outcomes of every request.

### QuestionForms (`addQuestion`, `addQuestioncoding`, `editQuestion`, `editQuestioncoding`)

A tab has one of the four pages (`screen`). The texts of a form are the set of its parts that
are filled in.

| Action | Code |
|---|---|
| `OpenQuestion`, `LoadChoice`, `LoadCoding`, `LoadFails` | the pages and their first requests: an edit page may load whatever an add page stores, `multi_select` and `true_false` included |
| `SelectType`, `ToggleCorrect`, `AddTestCase`, `RemoveTestCase`, ... | the fields |
| `SubmitChoice`, `SubmitCoding` | handleSubmit of `addQuestion` 63-145 and `addQuestioncoding`; Save is disabled while a submit is under way |
| `SaveChoice`, `SaveCoding`, `ChoiceWarning`, `CodingWarning` | handleSave of `editQuestion` 118-171 and `editQuestioncoding`, with the modal, 185-260 |
| `ServeCreate`, `ServeLink`, `ServeUpdate` | the server, which may also carry out what the page was told had failed |
| `LinkCreated`, `SubmitAnswered`, `Error` (`Finally`) | the answers: the second request, success, the catch block; the finally block enables Save again |
| `LeaveQuestion` | Cancel, the router, or the browser |

`router.push` does not wait: after a success the page is there for a while, with its form
filled in and Save enabled, so it may create a second question (`LeaveQuestion` is an
action of its own). What covers the form of an edit page is drawn over it and nothing more: with the
warning up its fields can be reached from the keyboard, Enter in one of them
saves (`editQuestion` 290-294), and "Proceed & Save" (239-254) is not disabled while a save
runs. All of these are in the model, and requests outlive the page.

janv-api has no route that creates a question outside a bank, reads one, lists those of a
bank, or lists the tests that use one. The pages are modelled for a server that has them
and may fail each; with today's janv-api all of these requests take the failing branch.

### TestEditor (`[id]/edit/page.tsx`, `question.rs`, `handlers.rs`)

| Action | Code |
|---|---|
| `LoadTest`, `LoadBank` | 52-82 of the page, `handlers.rs` 66-95 |
| `ToggleSelect`, `SelectAll`, `AddCustom`, `LeaveEditor` | the list, its buttons and the modal |
| `SaveTest` | handleSave, 90-103: one request for everything that is ticked, then publish |
| `AddQuestion`, `BodyRejected` | `add_questions_to_assessment`, one INSERT; a body that is no list of UUIDs is refused as a whole |
| `CountQuestions`, `Publish` | `publish_assessment`, 221-261, its two statements |
| `RequestLost` | a request or an answer is lost, a statement fails, or a publish takes effect whose answer is lost; the catch block says "Test saved!" |
| `OpenDueTest`, `DeleteQuestion` | `scheduler.rs` 52-61; `question.rs` 160-170 |

What this makes plain: the page sends what the test already has as well, and the link's
primary key refuses it, so a test that has a question can be saved only with all of them
unticked; a custom question's id is no UUID, so that a list with one is refused; and both
failures are shown as "Test saved!" although nothing has been published. The properties
say what remains true: "Test saved & published" is.

### MyTests (`assessment/page.tsx`)

`known` is what the server has, `tableRows` what the page shows, `calls` the requests under
way. `InTab` and `Badge` are the two classifications of a row (53-134).

| Action | Code |
|---|---|
| `ScheduleClick`, `DeleteClick`, `CloseModal` | the buttons of a row, and Cancel of the two modals |
| `ScheduleSubmit`, `DeleteConfirm`, `Duplicate` | 137-220, each of which nothing disables: the same request may be sent twice (`Ask`) |
| `FetchRead`, `FetchAnswered`, `FetchFails` | the list is read, its answer comes, or an error |
| `WriteDone`, `WriteAnswered`, `WriteFails` | a write takes effect, is answered, and the list fetched again; or it fails, and the page changes its rows as if it had succeeded (`Pretended`), with the same message |
| `Elsewhere` | other users |

The page sends `is_published` with a schedule (187), which `update_assessment`
(`handlers.rs` 163-175) does not write: a test that is scheduled before it is published stays
unpublished, with a window. After a failed schedule the page shows the row as published. The
windows of other users (`OtherRows`) may end before they begin, since neither
`create_assessment` nor `update_assessment` compares the two.

### ExamPage (`take/page.tsx`)

| Action | Code |
|---|---|
| `ServeStart`, `Started`, `StartFails` | 22-35; the server finds an open attempt or opens one (`attempt.rs` 107-169) |
| `Tick` | 37-47, the effect that counts, and submits at zero; `closure` is what it has closed over |
| `SelectOption`, `Navigate` | the questions |
| `ClickSubmit`, `HandleSubmit`, `Submitted`, `SubmitLost` | 56-74; the server grades the first submit of an attempt (what `Attempts` promises) |
| `LeaveExam`, `OpenExam` | "Back", the end of a submit, the browser; a reload, or a retake after a graded attempt |

An open attempt is answered without questions and without a duration, so that a page which
comes back to it shows "No Questions Available" and counts half an hour. The toast is left out: its
two texts, "Test submitted successfully!" (62) and, after an error, "Test submitted!"
(65), tell the student the same, whatever has become of the request.

### Listings (`overallReport`, `testDetails`, `learn/search`)

One module for three pages: a query (filter, rows per page and page), the requests in flight
(`flights`) and the query whose rows the table has (`rowsOf`). `PickFilter`, `PickCardFilter`,
`PickSize`, `PreviousPage`, `NextPage`, `SearchReport`, `SearchFromPage1`, `TypeQuery`,
`DoSearch`, `RetryListing` ask; `Answer` and `AnswerError` come in any order. The number of
pages follows the last total and the rows per page of the moment (`overallReport` 147). Only
testDetails ignores the requests before the last one (its effect's cleanup). janv-api has no
route `/assessments/{id}/details` (`assessment/mod.rs` 19-82): testDetails is modelled for a
server that has it, and with today's only `AnswerError` happens there.

### PasscodeCard (`learn/dashboard/page.tsx`)

`CountDown` (76-89), `PasscodeFetched`, `FetchLost` (36-47), `Rotate`, `RotationAnswered`,
`RotationLost` (49-62, 389-415), `CopyCode`; `ServeFetch` and `ServeRotation` are the two
handlers of `passcode.rs` as the card sees them. The server rounds the remaining seconds
down, so a fetch in the last second of a passcode is told 0: the card starts no
countdown then and keeps a passcode that expires (`lapsed` in `ZeroFetches`).

## 4. What the runs check

| Run | Instance | Shows |
|---|---|---|
| `attempts_safety` | 2 students, 2 requests, 3 attempts, 2 scores, totals 0 and 2, 2 clock values | `TransactionsIsolated`; `BoardKeepsBest`; `DuplicatesNeedOverlap`; `RanksExact`; `ResultIsFinal`; the handlers implement `AttemptPromise` |
| `attempts_live` | 2 students, 2 requests, 4 attempts | `NobodyStuck`; `RequestsFinish` |
| `attempts_duplicate` | as `attempts_safety` | violated: `OneOpenAttempt` |
| `attempts_fastest` | as `attempts_safety` | violated: `FastestTime` |
| `attempts_ranks` | as `attempts_safety` | violated: `RanksDistinct` |
| `lifecycle_safety` | 2 assessments, 2 servers, 3 clock values, 1 edit | `OneTickAtATime`; `FoundStillTrue`; `OpensInTime`; `StatusMovesForward`; the handlers and the scheduler implement `SchedulePromise`; no deadlock |
| `lifecycle_live` | 1 assessment, 2 servers | `DueIsServed` |
| `passcodes_safety` | 2 passcodes, 2 requests, 1 student, 2 assessments, 1 of them with an institution | `LiveNeedsOverlap`; `TablesAgree`; `ShownBefore`; no deadlock |
| `passcodes_sync` | the same | violated: `SyncReachesAll` |
| `web_client` | the ten parts, below | the safety properties of every part |
| `creation_partial` | 1 tab, 2 requests, 2 sections | violated: `NoPartialTest` |
| `exam_resume` | the exam page alone, as in `web_client` | violated: `ResumesSeamlessly` |

What `web_client` checks of its parts:

| Part | Instance | Properties |
|---|---|---|
| Session | 2 tabs, 2 users, 2 issues | `ActsAsShown`; `RowSpentOnce`; `StoredIsKnown` |
| CreateTest | 2 departments, no batch, 2 codes | `AllIsAll`; `CodeKept` |
| SectionForms | 2 sections, a duration in and one out of range, a typed zero | `LockedShowsSaved`; `SentComplete` |
| TestCreation | 1 tab, 2 requests, 2 tests, 2 sections | `OneTestPerDraft`; `SuccessMeansWhole`; `LastSectionStays` |
| QuestionForms | 2 options, 2 test cases, 2 submits | `OneRightAnswer`; `LastSaveStands`; `QuestionsAccounted` |
| TestEditor | 2 tabs, a question of the bank, another one, a custom one | `PublishedAsTicked`; `PublishedHasQuestions` |
| MyTests | 2 tests, 1 window that is typed, 1 that is over before it begins, a test published without one, 4 instants, 2 requests | `RowsAreTrue`; `BadgeNamesTab` |
| ExamPage | 2 questions, 1 option, 2 ticks, opened twice, 2 attempts | `GradedAsShown`; `TimeUpSubmits` |
| Listings | 2 filters, of 3 pages or 2 by rows per page, and of 1; 2 requests | `TableAnswersQuery`; `PageExists` |
| PasscodeCard | 4 renewals, 0 to 2 seconds | `NewestShown`; `ZeroFetches` |

Why these bounds. Two requests are enough for every pair of statements to interleave; three
attempts let one student retake, two submissions of one student overlap, and two starts race. A
wait cycle between submissions needs two students who are both on the leaderboard and both
submit again: four attempts, in `attempts_live`. Two scores order results either way; a total of
0 is the guarded division, and a total that is edited between two attempts makes score and
percentage disagree. For the lifecycle, two servers are enough to contend for the lock, three
clock values separate before, at and after a time bound, and two assessments let one tick both
complete and open. For the passcodes, two requests let a renewal meet another one, a
verification or a start, and two passcodes tell an old one from a new one; the instance has no
other bound. `MaxTime` and `MaxEdits` stop the clock and the edits, `AttemptIds` the attempts;
`attempts_*` runs therefore do not check deadlock: when the clock has stopped, the attempts are
used up and no request is in flight, the instance has nothing left to do.

For the web client: two issues (`MaxIssues`) are a login and a refresh, or two of either, in two
tabs; two test ids are a test and the one that a retry must not make; two options (of the page's
four, `OptionCount`) allow one tick, several and another one; two submits of a form
(`MaxSubmits`) are a save and another before or after its answer; two requests of My Tests
(`CallSlots`), two `Slots` of the listings, two tabs of the editor overlap; two ticks of the
exam put a submit by hand before, between and after them; a page that is opened twice
(`MaxLoads`) comes back to its attempt or, after it is graded, to a second one (`MaxAttempts`);
four renewals (`MaxRenewals`) are two on either side of a rotation; four instants are before,
at, between and after the ends of a window. The page moves from 1 to 3 and back. No guard and no
property tells the elements of `CallSlots` apart, so they are symmetric. Pages are left for good
and bounded numbers run out, so `web_client` and `creation_partial` do not check deadlock. The
type invariants are not checked by a run: they are proved for every instance (section 6).

Every property has a mutant in `PROJECT.json`: a faulty variant of a definition, the kind of
slip a change to the code could make (no FOR UPDATE, the upsert of `repository.rs`, an
advisory lock of the session instead of the transaction, a tick that does not look at
the lock's answer, a setTokens that leaves the other storage as it is, a form that is loaded by
the state the handler has not changed yet, a question that is linked while its page goes on,
a page that does not submit twice), under which TLC finds the property violated. The variants stand
beside the definitions they replace, marked "Faulty".

### Where the code and its documents differ

* `attempt.rs` 107 says "Prevent duplicate in-progress attempts". Two overlapping starts
  open two (`attempts_duplicate`). `DuplicatesNeedOverlap` bounds it: never more than
  there were starts in flight.
* `ASSESSMENT_ARCHITECTURE.md` 333 says the leaderboard records the fastest time. It
  records the latest (`attempts_fastest`).
* The same line says the ranks are recalculated with ROW_NUMBER, under which no two rows
  share one. Submissions that overlap leave two students at the same rank until somebody
  submits again (`attempts_ranks`); `RanksExact` shows that the overlap is needed, and that
  one commit that is not crossed puts everything right.
* `ASSESSMENT_ARCHITECTURE.md` 371 says a new passcode is synchronised to all assessments
  under the institution. It reaches only rows with an institution_id, which no handler
  sets (`passcodes_sync`).
* `testcases.md` 210 says of the creation of a test that "a forced failure leaves no partial
  assessment". The route's INSERTs run in no transaction: a failure at a section leaves the
  test without it (`creation_partial`). `SuccessMeansWhole` bounds it: never behind a page
  that says it was created.
* `ASSESSMENT_ARCHITECTURE.md` 319 says that a start with an open attempt "resumes the session
  seamlessly". It answers with the attempt alone (`attempt.rs` 116-123), and the page takes
  what is missing for an empty list and half an hour (`take/page.tsx` 27-28, 80):
  the student sees no questions (`exam_resume`).

## 5. Fairness

`Attempts`: weak fairness of the steps a request can take by itself (the runtime polls a task
that is ready), strong fairness of the two that wait for a row lock (PostgreSQL queues the
waiters, so one that is let in again and again gets its turn), weak fairness of the deadlock
detector. None for sending a request or for dropping one: the property must not depend on
clients giving up. `Lifecycle`: weak fairness of `Boot` (the deployment restarts a process that
stopped) and strong fairness of the steps of a tick, since `Fail` and `Stop` may undo them any
number of times: if ticks are tried for ever they do not all fail. None for the handlers and the
clock. `Passcodes` and the parts of the web client have no fairness, since they have no liveness
property: requests may stop anywhere, and users need not do anything.

## 6. What is proved

For every value of the constants that satisfies the ASSUME of the module: sentinels are none
of the other values, numbers are numbers, and sets that are counted are finite. Each module of
proofs has an inductive invariant, `Init => Inv` and `Inv /\ [Next]_vars => Inv'` as lemmas,
and the properties as consequences. Every safety property of a passing run is proved.

`AttemptsProofs`: with `IInv == TypeOK /\ TransactionsIsolated /\ GradesPossible /\
BoardKeepsBest /\ DuplicatesNeedOverlap /\ RankingsSound /\ RanksExact`, `Init => IInv` and
`IInv /\ [Next]_vars => IInv'` (`Invariance`).

* `BoardKeepsBest` is not inductive by itself. A commit writes a leaderboard row that was
  computed earlier; that it still is the maximum of everything committed since holds only
  because the entry was locked in between. That is `EntriesLocked` in
  `TransactionsIsolated`: the pending row equals the upsert of the result into the row as
  it is committed *now*. That in turn needs `RowsLocked` (the attempt is still open and
  still this student's) and the disjointness that comes with a lock having one holder.
  `LocksOwned` is the converse: a lock has a holder that is in a transaction, and of the
  leaderboard it holds its own row and those it has ranked.
* `FewOpen` (`DuplicatesNeedOverlap`) counts: a request goes on to insert only when its
  student has no open attempt, so at that moment there are at most as many open ones and
  inserts to come as requests; an insert trades one for the other, by the theorems about
  the cardinality of a set with one element more or less.
* `Ranks` (`RanksExact`) needs `RankingsSound`: the ranks a transaction is going to write are
  for rows it has locked or will lock, are no higher than the number of rows it sees, and are
  the numbers of those rows until somebody else commits. A commit only adds rows, so a rank
  stays within the board. `RanksArePositions` says what the numbers are, whichever way ties are
  broken: more than the number of students ahead (by an injection into the numbers below), and
  room for those behind. `RowNumbersExist`: there always are such numbers, those that
  count for each row the rows that are not behind it.
* `NoneStuck` (`NobodyStuck`) is about every number of requests. Who is waited for holds a
  leaderboard row and so has only statements ahead that need nothing but rows. If behind r
  somebody does not wait, that one can go on. If all wait, take a smallest nonempty
  set among them that waits for nobody outside (well-foundedness of < on the cardinalities);
  what stands behind any of its members is a set of that kind too, so it is the whole, and the
  members wait in a circle.
* `Advances`: every statement of a request reduces a bound of those it has left (`Left`), and no
  step of another request does anything to it. `NoneStuck` and `Advances` are what
  `RequestsFinish` needs of the program; the rest is fairness.
* `DistinctUnlessCrossed` and `OneOpenUnlessOverlap` say of two of the violations that the
  overlap in the counterexample is needed.
* `Final` (`ResultIsFinal`) follows from the same invariant: a commit writes only an
  attempt in progress.
* `Refinement` (`PromiseKept`): every step but `StartInsert` and `SubmitCommit` leaves
  the mapped variables alone; those two map to `Open` and `Close`. `Close` wants a result
  that grading can give, which is `GradesPossible`.

`LifecycleProofs`: `IInv == TypeOK /\ OneTickAtATime /\ FoundStillTrue`. `FoundStillTrue`
needs the advisory lock (no other tick may commit in between) and the row locks (no
handler writes a row that was found). `OpensInTime` and `StatusMovesForward` follow:
what `Commit` writes is what the statements found, and that is still true. `NeverWait`: once a
tick has the advisory lock the rows it matches are free, so it neither waits nor deadlocks.

* `Refinement` (`ScheduleKept`): a handler's step is the write of one row; a commit is
  `Advance(now[i], over[i], opened[i])`, by `FoundStillTrue` for the reasons and by
  `TimesPast` (`Past`) for the time; all other steps leave the table alone.

`PasscodesProofs`: `Inv == TypeOK /\ Grounded /\ Flagged /\ Orderly /\ TablesAgree /\
LiveNeedsOverlap`.

* `TablesAgree` speaks of a renewal that has ended; that it is so then needs `Orderly`,
  which follows a renewal that is alone: at its insert nothing is in force, at its copy
  nothing but its own passcode, and nobody else renews.
* `ShownBefore` needs `Grounded`: what the student has shown before the step to come, for
  each statement between the one that found a passcode and the one that uses it.
* `LiveNeedsOverlap` is inductive by itself: an insert moves one request from one count to
  the other, and a renewal begins only with nothing in force.
* `SyncReachesOwn`: where every assessment has an institution, the sentence that
  `passcodes_sync` refutes is true.

`SessionProofs`: `SessionInv == SessionTypeOK /\ IssuesOK /\ SeatsOK /\ TokensKnown /\
RowsSpent /\ TabsInStep`.

* `StoredIsKnown` needs `TokensKnown`, which also speaks of the token that a refresh under way
  will store again, and `IssuesOK`: the number of a token is that of an issue to the same user.
* `RowSpentOnce` needs `RowsSpent`: a tab that has found a row already used, or two that have
  found the same one, are among the exceptions before they delete it.
* `ActsAsShown` needs `TabsInStep`: until a tab is overtaken, what fetchUser is at work on is
  what the tab would send now.

`TestCreationProofs`: `CreationInv == CreationTypeOK /\ RequestInv /\ DraftInv /\ PagesInv /\
CarefulInv`.

* `SuccessMeansWhole` needs `RequestInv`: a request at its n-th section has stored the n-1
  before it, requests write to different tests, and an answer 200 stands for all of them.
* `OneTestPerDraft` needs `DraftInv`: codes are unique, and the tests of a draft, and its
  requests that have not inserted yet, carry the draft's code until it is replaced.
* `LastSectionStays` needs `PagesInv` and `CarefulInv`: a tab without overlapping deletions
  shows what is stored, but for the one row that its only request deletes.

`FormsProofs`: `CreateInv`, `SectionsInv` and `QuestionsInv`. `AllIsAll` needs that a ticked
"All" over an empty list is in `early`, and that cardinalities of finite sets of which one
contains the other decide equality. `LockedShowsSaved` needs `NewSectionSound`: a valid form
becomes a section that it agrees with. `SentComplete` needs the same of every saved section
(`SavedOK`). `OneRightAnswer` needs `TicksOK` (with a single-choice type at most one option is
ticked, or `switched`) and `SubmitOK`, which says the same of what is under way.
`LastSaveStands` is about updates that land after their page was answered: `UpdatesStand` says
it of every update that has been carried out, and needs `OneAtATime` (only "Proceed" sends while
another save waits) and `NotCrossed` (what was not crossed left after all before it had been
answered). `QuestionsAccounted` needs `SubmitOK`, step by step of a submit, and `AllMade`.

`ScreensProofs`: `CardInv`, `ExamInv`, `ListingsInv`, `MyTestsInv` and `EditorInv`.

* `NewestShown` needs `Fresh`: unless crossed, one request is under way and what it brings is
  no older than what the card has heard.
* `GradedAsShown` needs `Faithful`: every submit under way for the page's attempt holds the answers
  shown, until one is touched after a submit. `TimeUpSubmits` is inductive with the types: an
  attempt arrives with time left, and what the countdown sends is graded or `missed`.
* `TableAnswersQuery` needs `Settled`, of the one request under way when none overlap;
  `PageExists` is inductive with `Untouched`: Next goes by the rows shown and the rows per page of
  the moment, and a new filter or other rows per page go back to page 1.
* `RowsAreTrue` needs `InStep`: of a test that is not suspect every list under way tells the truth,
  and if the table does not, a list is on its way or a write of that test will ask for one.
  `BadgeNamesTab` is about any row, with windows that end before they begin (`TabsOfRow`,
  `BadgeForward`).
* `PublishedAsTicked` needs `SavesInStep`: what handleSave is through with is linked or
  deleted, at every INSERT of its loop, whatever other tabs do. `PublishedHasQuestions` needs it
  too: between the count and the UPDATE there is a question, or `uncounted` says why not.

`WebClientProofs`: a step of `WebClient` is a step of one part and leaves the variables of
the others alone, so a behaviour of it is, for each part, a behaviour of that part
(`WebParts`). All that is proved of the parts alone holds of their composition (`WebTypes`,
`WebSafety`).

## 7. What is only model-checked

Liveness (`RequestsFinish`, `DueIsServed`): TLAPS has no rules for fairness here. Their safety
halves are proved: `NoneStuck` and `Advances`, `NeverWait`. The six violations are
counterexamples of TLC.

## 8. What is not modelled

* Executor, compiler endpoint, practice submissions: calls of an external judge under a
  semaphore whose permits Rust returns on every path, and results paired with test cases by
  position. The job queue is a list that nothing in the repository reads.
* Reads (leaderboard, analytics, results, the timer, reports): single queries without state.
* Templates, courses, users, institutions, audit log, question banks: one statement per
  handler on a table nobody else contends for. `duplicate_assessment` copies the questions
  with one INSERT ... SELECT (`handlers.rs` 306-313), in no transaction with the INSERT of the
  assessment; `Lifecycle` has the copy without its questions.
* `service.rs` and `repository.rs` implement the attempt engine a second time and no route
  reaches them; their upsert serves as a mutant. The grading of one answer is abstracted to
  the total it gives; streaks are a pure read.
* Roles and ownership are checks of one request's claims against a row, without interaction;
  the models have only requests that pass them, or let any be refused. `register` relies on a
  unique index.
* Pages with one load and one request per press (`testQuestions`, `myTestLibrary`,
  `editAssessment`, `selectProctoring`, `customReport`, `leaderboard`, `institute/passcode`):
  what can go wrong between their requests is what My Tests, the question forms and the listings
  show. Several call routes that no server of the repository has, among them the details of a
  test (testDetails), linked-assessments, the student's list, sections, library, live tests,
  hackathons, the report as PDF, proctoring and the removal of a link.
* Formatting, layout, seed data, infrastructure and the proxy configuration have no
  behaviour to check. The 60 seconds between ticks, the 6 hours of a passcode and the seconds of
  a request are abstracted to "at any time".
