-------------------------------- MODULE ExamPage --------------------------------
(***************************************************************************)
(* assessment/[id]/take/page.tsx: the page on which a student takes a      *)
(* test. It starts the attempt, counts down, and submits the answers when  *)
(* the student says so or the time is up; whatever has become of the       *)
(* request it then goes back to the list.                                  *)
(*                                                                         *)
(* The countdown runs from DefaultTime before the attempt has started and  *)
(* when it could not; a submit by hand does not stop it, so that a second  *)
(* one may overtake the first. The page may be left and opened again at    *)
(* any time, with requests under way; after a failed submit or a reload it *)
(* comes back to the attempt it had, after a graded one to a new one.      *)
(*                                                                         *)
(* The server is external: it starts an attempt or finds the open one, and *)
(* grades the first submit that reaches it. With an open attempt it        *)
(* answers neither the questions nor the duration. (That two starts that   *)
(* overlap may open two attempts is Attempts' matter.) The toast, one text *)
(* for an answer and another for an error, both "submitted", is left out.  *)
(***************************************************************************)
EXTENDS Naturals, FiniteSets

CONSTANTS
    ExamQuestions,  \* 1..n
    ExamOptions,
    DefaultTime,    \* 1800 seconds, in ticks of the model
    TestTimes,      \* durations of a test, in ticks
    MaxLoads,       \* a bound of the model on how often the page is opened
    MaxAttempts,    \* and on the attempts that are started
    NoAnswer,
    NotGraded

ASSUME ExamAssumption ==
    /\ ExamQuestions \subseteq Nat /\ IsFiniteSet(ExamQuestions) /\ 1 \in ExamQuestions
    /\ DefaultTime \in Nat \ {0}
    /\ TestTimes \subseteq Nat \ {0}
    /\ MaxLoads \in Nat \ {0} /\ MaxAttempts \in Nat \ {0}
    /\ NoAnswer \notin ExamOptions
    /\ NotGraded \notin [ExamQuestions -> ExamOptions \cup {NoAnswer}]

VARIABLES
    view,         \* loading; the questions, none of them, or an error; or gone
    attempt,      \* the id of the attempt, 0 while the page has none
    remaining,    \* remainingSecs
    answers,
    closure,      \* the answers that the countdown's effect has closed over
    currentIdx,
    handingIn,    \* submitting
    loads,        \* how often the page has been opened
    reply,        \* what the server has done for this page's start
    strays,       \* starts under way that no page waits for
    sends,        \* submits under way
    opened,       \* the server: the attempts of this student are 1..opened
    asked,        \* those of them that were started with questions
    graded,       \* the answers of each that were graded
    touched,      \* history: of this attempt a submit was under way or graded when the
                  \* page got it or an option was chosen
    missed        \* history: the submit of this countdown has failed

clockVars   == <<remaining, closure>>
sheetVars   == <<answers, currentIdx>>
startVars   == <<loads, reply, strays, opened, asked>>
historyVars == <<touched, missed>>
examVars    == <<view, attempt, clockVars, sheetVars, handingIn, startVars, sends, graded,
                 historyVars>>

Sheets  == [ExamQuestions -> ExamOptions \cup {NoAnswer}]
NoSheet == [q \in ExamQuestions |-> NoAnswer]

AttemptIds == 1..MaxAttempts

\* A start's reply: an attempt, found open or new.
NoReply == [attempt |-> 0, resumed |-> FALSE]

\* A submit: of which attempt, by which page, by hand or by the countdown.
Submit(how, sheet) == [attempt |-> attempt, load |-> loads, how |-> how, sheet |-> sheet]

Open == view # "gone"

Unanswered == view = "loading" /\ reply = NoReply

ExamInit ==
    /\ view = "loading" /\ attempt = 0
    /\ remaining = DefaultTime
    /\ answers = NoSheet /\ closure = NoSheet
    /\ currentIdx = 1
    /\ handingIn = FALSE /\ sends = {}
    /\ loads = 1 /\ reply = NoReply /\ strays = 0 /\ opened = 0
    /\ graded = [a \in AttemptIds |-> NotGraded]
    /\ asked = {}
    /\ touched = FALSE /\ missed = FALSE

-----------------------------------------------------------------------------
(* Starting *)

InProgress == {a \in 1..opened : graded[a] = NotGraded}

\* What a start does: it finds an open attempt, or opens one, with the questions that the
\* test has by now, if any.
StartServed(r) ==
    IF InProgress # {} THEN /\ r \in [attempt : InProgress, resumed : {TRUE}]
                            /\ UNCHANGED <<opened, asked>>
                       ELSE /\ opened < MaxAttempts
                            /\ r = [attempt |-> opened + 1, resumed |-> FALSE]
                            /\ opened' = opened + 1
                            /\ asked' \in {asked, asked \cup {opened + 1}}

\* The server carries out this page's start, or one that no page waits for.
ServeStart ==
    /\ \/ /\ Unanswered
          /\ \E r \in [attempt : AttemptIds, resumed : BOOLEAN] : StartServed(r) /\ reply' = r
          /\ UNCHANGED strays
       \/ /\ strays > 0 /\ strays' = strays - 1
          /\ \E r \in [attempt : AttemptIds, resumed : BOOLEAN] : StartServed(r)
          /\ UNCHANGED reply
    /\ UNCHANGED <<view, attempt, clockVars, sheetVars, handingIn, loads, sends, graded,
                   historyVars>>

\* start is answered: a new attempt with the questions and the test's duration, an open
\* one without either, which is half an hour and "No Questions Available".
Started ==
    /\ view = "loading" /\ reply # NoReply
    /\ attempt' = reply.attempt
    /\ IF reply.resumed
         THEN view' = "empty" /\ remaining' = DefaultTime
         ELSE /\ view' = IF attempt' \in asked THEN "exam" ELSE "empty"
              /\ remaining' \in TestTimes
    /\ touched' = (graded[reply.attempt] # NotGraded
                     \/ \E m \in sends : m.attempt = reply.attempt)
    /\ UNCHANGED <<closure, sheetVars, handingIn, startVars, sends, graded, missed>>

\* An error, after the server has served the start, before, or instead: the page says
\* so, and goes on counting.
StartFails ==
    /\ view = "loading"
    /\ view' = "error"
    /\ strays' \in IF Unanswered THEN {strays, strays + 1} ELSE {strays}
    /\ UNCHANGED <<attempt, clockVars, sheetVars, handingIn, loads, reply, sends, opened,
                   graded, asked, historyVars>>

-----------------------------------------------------------------------------
(* The questions *)

\* handleSelectOption, also while a submit is under way.
SelectOption(o) ==
    /\ view = "exam"
    /\ answers' = [answers EXCEPT ![currentIdx] = o]
    /\ touched' = (touched \/ graded[attempt] # NotGraded
                     \/ \E m \in sends : m.attempt = attempt)
    /\ UNCHANGED <<view, attempt, clockVars, currentIdx, handingIn, startVars, sends,
                   graded, missed>>

GoTo(i) ==
    /\ view = "exam" /\ i \in ExamQuestions
    /\ currentIdx' = i
    /\ UNCHANGED <<view, attempt, clockVars, answers, handingIn, startVars, sends, graded,
                   historyVars>>

\* Previous and Next stop at the ends; a number leads anywhere.
Navigate ==
    \/ currentIdx # 1 /\ GoTo(currentIdx - 1)
    \/ currentIdx # Cardinality(ExamQuestions) /\ GoTo(currentIdx + 1)
    \/ \E i \in ExamQuestions : GoTo(i)

-----------------------------------------------------------------------------
(* Submitting *)

\* handleSubmit with the answers of the render it belongs to. Without an attempt there
\* is nothing to send.
HandleSubmit(how, sheet) ==
    /\ handingIn' = TRUE
    /\ sends' = IF attempt = 0 THEN sends ELSE sends \cup {Submit(how, sheet)}

ClickSubmit ==
    /\ view = "exam" /\ ~handingIn
    /\ HandleSubmit("hand", answers)
    /\ UNCHANGED <<view, attempt, clockVars, sheetVars, startVars, graded, historyVars>>

\* Faulty: the interval submits, with the answers of the render before.
TickStale ==
    /\ Open /\ remaining > 0
    /\ remaining' = remaining - 1
    /\ closure' = answers
    /\ IF remaining = 1 THEN HandleSubmit("time", closure) ELSE UNCHANGED <<handingIn, sends>>
    /\ UNCHANGED <<view, attempt, sheetVars, startVars, graded, historyVars>>

\* Faulty: a page that has submitted does not submit again.
TickOnce ==
    /\ Open /\ remaining > 0
    /\ remaining' = remaining - 1
    /\ closure' = answers
    /\ IF remaining = 1 /\ ~handingIn THEN HandleSubmit("time", closure')
                                       ELSE UNCHANGED <<handingIn, sends>>
    /\ UNCHANGED <<view, attempt, sheetVars, startVars, graded, historyVars>>

\* A second passes, and the effect runs again: at zero it submits, with the answers
\* of the render it comes from, whether a submit is under way or not.
Tick ==
    /\ Open /\ remaining > 0
    /\ remaining' = remaining - 1
    /\ closure' = answers
    /\ IF remaining = 1 THEN HandleSubmit("time", closure') ELSE UNCHANGED <<handingIn, sends>>
    /\ UNCHANGED <<view, attempt, sheetVars, startVars, graded, historyVars>>

\* A submit reaches the server, which grades the first of an attempt and refuses the
\* others.
Submitted(m) ==
    /\ graded' = [graded EXCEPT ![m.attempt] = IF @ = NotGraded THEN m.sheet ELSE @]
    /\ sends' = sends \ {m}
    /\ UNCHANGED <<view, attempt, clockVars, sheetVars, handingIn, startVars, historyVars>>

\* It does not. Nothing tells the student, and Submit stays disabled.
SubmitLost(m) ==
    /\ sends' = sends \ {m}
    /\ missed' = (missed \/ (m.load = loads /\ m.how = "time"))
    /\ UNCHANGED <<view, attempt, clockVars, sheetVars, handingIn, startVars, graded, touched>>

-----------------------------------------------------------------------------
(* Leaving and coming back *)

\* "Back", the browser's, or the page itself, 1200 ms after any submit.
LeaveExam ==
    /\ Open
    /\ view' = "gone"
    /\ strays' = IF Unanswered THEN strays + 1 ELSE strays
    /\ UNCHANGED <<attempt, clockVars, sheetVars, handingIn, loads, reply, sends, opened,
                   graded, asked, historyVars>>

\* The page is reloaded or opened again: its answers are gone, its requests are not.
OpenExam ==
    /\ loads < MaxLoads /\ loads' = loads + 1
    /\ view' = "loading" /\ attempt' = 0
    /\ remaining' = DefaultTime
    /\ answers' = NoSheet /\ closure' = NoSheet /\ currentIdx' = 1
    /\ handingIn' = FALSE
    /\ reply' = NoReply /\ strays' = IF Unanswered THEN strays + 1 ELSE strays
    /\ touched' = FALSE /\ missed' = FALSE
    /\ UNCHANGED <<sends, opened, graded, asked>>

ExamNext ==
    \/ ServeStart \/ Started \/ StartFails
    \/ (\E o \in ExamOptions : SelectOption(o)) \/ Navigate
    \/ ClickSubmit \/ Tick \/ (\E m \in sends : Submitted(m) \/ SubmitLost(m))
    \/ LeaveExam \/ OpenExam

ExamSpec == ExamInit /\ [][ExamNext]_examVars

-----------------------------------------------------------------------------
(* Properties *)

ExamSubmitType == [attempt : AttemptIds, load : Nat, how : {"hand", "time"}, sheet : Sheets]

\* Every variable has its type.
ExamTypeOK ==
    /\ view \in {"loading", "exam", "empty", "error", "gone"}
    /\ attempt \in 0..MaxAttempts /\ opened \in 0..MaxAttempts
    /\ remaining \in Nat /\ loads \in Nat /\ strays \in Nat
    /\ answers \in Sheets /\ closure \in Sheets
    /\ currentIdx \in ExamQuestions
    /\ reply \in [attempt : AttemptIds, resumed : BOOLEAN] \cup {NoReply}
    /\ sends \subseteq ExamSubmitType
    /\ graded \in [AttemptIds -> Sheets \cup {NotGraded}]
    /\ asked \subseteq AttemptIds
    /\ {handingIn, touched, missed} \subseteq BOOLEAN

\* What is graded of an attempt is what its page shows: by hand or by the countdown, the
\* answers sent are those chosen until then, the last one included, also when an earlier
\* submit has failed. Only what is chosen while a submit is under way, or after one has
\* been graded, is not, nor what a page shows that finds an attempt submitted already.
GradedAsShown ==
    attempt # 0 /\ graded[attempt] # NotGraded /\ ~touched => graded[attempt] = answers

\* Time up means submitted: when the countdown of a page with an attempt is at zero, the
\* attempt has been graded or the countdown's submit is on its way, unless that one has
\* failed; so a submit by hand that has failed, or a countdown that was at zero before the
\* start was answered, does not leave the answers unsent.
TimeUpSubmits ==
    attempt # 0 /\ remaining = 0 =>
        \/ graded[attempt] # NotGraded
        \/ \E m \in sends : m.attempt = attempt /\ m.load = loads /\ m.how = "time"
        \/ missed

\* What ASSESSMENT_ARCHITECTURE.md says of an open attempt, that it "resumes the session
\* seamlessly": a page with an attempt that was started with questions shows them.
ResumesSeamlessly == attempt \in asked => view # "empty"

=============================================================================
