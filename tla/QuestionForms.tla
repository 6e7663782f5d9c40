----------------------------- MODULE QuestionForms -----------------------------
(***************************************************************************)
(* The pages that write one question: addQuestion, addQuestioncoding,      *)
(* editQuestion and editQuestioncoding. A tab has one of them (screen).    *)
(*                                                                         *)
(* An add page creates the question with one request and links it to its   *)
(* test with another. An edit page loads the question together with the    *)
(* tests that use it, and asks before it changes a question in use.        *)
(*                                                                         *)
(* A page that has been answered asks the router for another page and is   *)
(* left later, by this or in any other way; until then its form may be     *)
(* sent again, and requests that are under way go on after it. What covers *)
(* the form of an edit page is drawn over it only: its fields can be used  *)
(* from the keyboard, and Enter sends it.                                  *)
(*                                                                         *)
(* The texts of a form are the set of its parts that are filled in, and    *)
(* all options, or all test cases, are one part; difficulty, points,       *)
(* penalty, limits, explanation, constraints and tags are one value,       *)
(* settings.                                                               *)
(* The server is external. It carries out a request once or never, also    *)
(* after the page has been told of an error, and in any order.             *)
(* (The router of janv-api has no route for creating a question outside a  *)
(* bank, for reading one, or for the tests that use it: there they fail.)  *)
(***************************************************************************)
EXTENDS Naturals, Sequences, FiniteSets

CONSTANTS
    OptionCount,   \* options of a question that is not true/false: four
    Settings, DefaultSettings,
    MaxCases,      \* a bound of the model on the test cases of a problem
    MaxSubmits,    \* a bound of the model on the submits of one page
    NoRequest

ASSUME QuestionsAssumption ==
    /\ OptionCount \in Nat /\ OptionCount >= 2
    /\ DefaultSettings \in Settings
    /\ MaxCases \in Nat \ {0, 1} /\ MaxSubmits \in Nat

VARIABLES
    screen,     \* the page: its job and kind, and whether it has an assessmentId
    phase,      \* unopened, loading, open or gone
    submitting,
    modal,      \* showWarningModal
    knowsLinks, \* linkedAssessments is not empty
    fields,     \* the form
    switched,   \* history: single choice was selected with several options ticked,
                \* and none has been ticked since
    sent,       \* how often the page has sent its form
    submits,    \* what has become of each of these
    questions,  \* the questions that the server has stored for this page
    inTest,     \* those that are linked to the page's test
    writer      \* history: the submit whose update is stored

pageVars     == <<screen, phase, submitting, modal, knowsLinks>>
formVars     == <<fields, switched>>
submitVars   == <<sent, submits>>
serverVars   == <<questions, inTest, writer>>
questionVars == <<pageVars, formVars, submitVars, serverVars>>

Kinds   == {"choice", "coding"}
Single  == {"mcq", "true_false"}
QTypes  == Single \cup {"multi_select"}
Parts   == {"content", "options", "title", "cases"}
Screens == [job : {"add"}, kind : Kinds, test : BOOLEAN]
             \cup [job : {"edit"}, kind : Kinds, test : {FALSE}]

\* The parts that a page insists on.
Needed(kind) == IF kind = "choice" THEN {"content", "options"} ELSE {"content", "title", "cases"}

OptionsOf(type) == 1..(IF type = "true_false" THEN 2 ELSE OptionCount)

NoFields == [type |-> "mcq", filled |-> {}, correct |-> {1}, cases |-> 2,
             settings |-> DefaultSettings]

\* A stored question: what grading reads, and by which name an option has its text:
\* the add pages store it as "input", the edit page as "text". It is mixed when it
\* was sent with single choice selected over several ticks.
Stored(key, type, correct, mixed) ==
    [key |-> key, type |-> type, correct |-> correct, mixed |-> mixed]

Bodies == [key : {"input", "text"}, type : QTypes \cup {"coding"},
           correct : SUBSET (1..OptionCount), mixed : BOOLEAN]

ASSUME BodiesAssumption == NoRequest \notin Bodies

\* What the pages may have stored before.
Storable(kind) ==
    IF kind = "coding"
      THEN {Stored(key, "coding", {1}, FALSE) : key \in {"input", "text"}}
      ELSE {b \in Bodies :
              /\ b.type \in QTypes /\ b.correct # {} /\ b.correct \subseteq OptionsOf(b.type)
              /\ b.mixed <=> b.type = "mcq" /\ Cardinality(b.correct) > 1
              /\ b.type = "true_false" => Cardinality(b.correct) = 1}

\* A submit: its request under way, or its last one; whether the server has carried
\* that out, and the page been answered; what it carries; the question it has made;
\* and whether another waited for its answer when it left.
Unsent == [step |-> "none", served |-> FALSE, page |-> "waits", body |-> NoRequest,
           made |-> 0, crossed |-> FALSE]

Numbers    == 1..MaxSubmits
Waiting(n) == submits[n].step # "none" /\ submits[n].page = "waits"

QuestionsInit ==
    /\ screen = [job |-> "add", kind |-> "choice", test |-> FALSE]
    /\ phase = "unopened" /\ submitting = FALSE /\ modal = FALSE /\ knowsLinks = FALSE
    /\ fields = NoFields /\ switched = FALSE
    /\ sent = 0 /\ submits = [n \in Numbers |-> Unsent]
    /\ questions = <<>> /\ inTest = {} /\ writer = 0

On(job, kind) == screen.job = job /\ screen.kind = kind

\* One of the pages is opened, an edit page for a question that is stored.
OpenQuestion(s) ==
    /\ phase = "unopened"
    /\ screen' = s
    /\ phase' = IF s.job = "edit" THEN "loading" ELSE "open"
    /\ IF s.job = "edit" THEN \E q \in Storable(s.kind) : questions' = <<q>>
                         ELSE UNCHANGED questions
    /\ UNCHANGED <<submitting, modal, knowsLinks, formVars, submitVars, inTest, writer>>

\* The page is left, and its form with it: by Cancel, by the router, or otherwise.
LeaveQuestion ==
    /\ phase \in {"loading", "open"}
    /\ phase' = "gone"
    /\ submitting' = FALSE /\ modal' = FALSE
    /\ fields' = NoFields /\ switched' = FALSE
    /\ UNCHANGED <<screen, knowsLinks, submitVars, serverVars>>

-----------------------------------------------------------------------------
(* The fields: usable at any time, also behind the modal and while a request is under way *)

FillIn(f) ==
    /\ phase = "open"
    /\ fields' = f
    /\ UNCHANGED <<pageVars, submitVars, serverVars>>

Edit(f) == FillIn(f) /\ UNCHANGED switched

\* Texts are typed until all of a part are there, or some of it is blank again.
SetPart(p, b)  == Edit([fields EXCEPT !.filled = IF b THEN @ \cup {p} ELSE @ \ {p}])
SetOption(b)   == SetPart("options", b)
SetSettings(v) == Edit([fields EXCEPT !.settings = v])

\* The type selected: true/false has options of its own, and leaving it brings new
\* ones; otherwise the options and their ticks stay.
SelectType(t) ==
    /\ FillIn([fields EXCEPT !.type = t,
                  !.filled  = CASE t = "true_false" -> @ \cup {"options"}
                                [] t # "true_false" /\ fields.type = "true_false" -> @ \ {"options"}
                                [] OTHER -> @,
                  !.correct = IF "true_false" \in {t, fields.type} THEN {1} ELSE @])
    /\ switched' = (t = "mcq" /\ fields.type # "true_false"
                       /\ (switched \/ Cardinality(fields.correct) > 1))

\* Faulty: a radio button that adds a tick.
ToggleAdding(i) ==
    /\ i \in OptionsOf(fields.type)
    /\ FillIn([fields EXCEPT !.correct = @ \cup {i}])
    /\ switched' = FALSE

\* handleCorrectToggle
ToggleCorrect(i) ==
    /\ i \in OptionsOf(fields.type)
    /\ FillIn([fields EXCEPT !.correct = CASE fields.type \in Single -> {i}
                                           [] fields.type \notin Single /\ i \in @ -> @ \ {i}
                                           [] OTHER -> @ \cup {i}])
    /\ switched' = FALSE

AddTestCase ==
    /\ fields.cases < MaxCases
    /\ Edit([fields EXCEPT !.cases = @ + 1, !.filled = @ \ {"cases"}])

\* handleRemoveTestCase: the last one stays. The one that goes may be the blank one.
RemoveTestCase ==
    /\ fields.cases > 1
    /\ \E blank \in SUBSET {"cases"} :
          Edit([fields EXCEPT !.cases = @ - 1, !.filled = @ \cup blank])

ChangeTestCase(b) == SetPart("cases", b)

Common ==
    \/ \E b \in BOOLEAN : SetPart("content", b)
    \/ \E v \in Settings : SetSettings(v)

ChoiceForm ==
    Common \/ (\E b \in BOOLEAN : SetOption(b)) \/ \E i \in 1..OptionCount : ToggleCorrect(i)

CodingForm ==
    \/ Common \/ AddTestCase \/ RemoveTestCase
    \/ \E b \in BOOLEAN : ChangeTestCase(b) \/ SetPart("title", b)

\* The forms of the four pages.
AddChoiceForm  == On("add", "choice") /\ (ChoiceForm \/ \E t \in QTypes : SelectType(t))
AddCodingForm  == On("add", "coding") /\ CodingForm
EditChoiceForm == On("edit", "choice") /\ ChoiceForm
EditCodingForm == On("edit", "coding") /\ CodingForm

-----------------------------------------------------------------------------
(* Loading *)

\* Both requests are answered; that the question is in no test may also be an error
\* of the second.
LoadQuestion(f, m) ==
    /\ phase = "loading"
    /\ phase' = "open"
    /\ knowsLinks' \in BOOLEAN
    /\ fields' = f /\ switched' = m
    /\ UNCHANGED <<screen, submitting, modal, submitVars, serverVars>>

\* Options stored by the add page come without a text.
LoadChoice ==
    /\ On("edit", "choice")
    /\ LoadQuestion([NoFields EXCEPT
          !.type = questions[1].type, !.correct = questions[1].correct,
          !.filled = IF questions[1].key = "text" THEN Needed("choice") ELSE {"content"}],
          questions[1].mixed)

\* Nothing of the answer is called title or test_cases.
LoadCoding ==
    /\ On("edit", "coding")
    /\ LoadQuestion([NoFields EXCEPT !.type = "coding", !.filled = {"content"}], FALSE)

\* An error, and a form as of a new question.
LoadFails ==
    /\ phase = "loading"
    /\ phase' = "open"
    /\ UNCHANGED <<screen, submitting, modal, knowsLinks, formVars, submitVars, serverVars>>

-----------------------------------------------------------------------------
(* Saving *)

Complete(kind) == Needed(kind) \subseteq fields.filled

ChoiceValid == Complete("choice") /\ fields.correct # {}
CodingValid == Complete("coding")

\* A request leaves with the fields as they are.
Send(step, type, key) ==
    /\ phase = "open" /\ sent < MaxSubmits
    /\ sent' = sent + 1
    /\ submits' = [submits EXCEPT ![sent + 1] =
                     [Unsent EXCEPT !.step = step,
                        !.body    = Stored(key, type, fields.correct, switched),
                        !.crossed = \E m \in Numbers : Waiting(m)]]
    /\ submitting' = TRUE
    /\ UNCHANGED <<screen, phase, modal, knowsLinks, formVars, serverVars>>

\* handleSubmit of addQuestion and of addQuestioncoding. Their button, and with it
\* Enter, is disabled while submitting.
SubmitChoice ==
    On("add", "choice") /\ ~submitting /\ ChoiceValid /\ Send("create", fields.type, "input")
SubmitCoding ==
    On("add", "coding") /\ ~submitting /\ CodingValid /\ Send("create", "coding", "input")

ShowWarning ==
    /\ phase = "open"
    /\ modal' = TRUE
    /\ UNCHANGED <<screen, phase, submitting, knowsLinks, formVars, submitVars, serverVars>>

\* Faulty: a button that is not disabled while submitting.
SaveChoiceTwice ==
    /\ On("edit", "choice") /\ ChoiceValid
    /\ IF knowsLinks /\ ~modal THEN ShowWarning ELSE Send("update", fields.type, "text")

\* handleSave of editQuestion, from the form: the first time it warns of the tests in
\* use. With the warning up, Enter in a field is taken for its answer.
SaveChoice ==
    /\ On("edit", "choice") /\ ~submitting /\ ChoiceValid
    /\ IF knowsLinks /\ ~modal THEN ShowWarning ELSE Send("update", fields.type, "text")

SaveCoding ==
    /\ On("edit", "coding") /\ ~submitting /\ CodingValid
    /\ IF knowsLinks /\ ~modal THEN ShowWarning ELSE Send("update", "coding", "text")

\* Cancel closes the modal; a request that is under way goes on.
CancelWarning(kind) ==
    /\ On("edit", kind) /\ modal
    /\ modal' = FALSE
    /\ UNCHANGED <<screen, phase, submitting, knowsLinks, formVars, submitVars, serverVars>>

\* "Proceed & Save" calls handleSave from the modal, which stays until the answer: it
\* is never disabled.
ChoiceWarning ==
    \/ CancelWarning("choice")
    \/ modal /\ On("edit", "choice") /\ ChoiceValid /\ Send("update", fields.type, "text")
CodingWarning ==
    \/ CancelWarning("coding")
    \/ modal /\ On("edit", "coding") /\ CodingValid /\ Send("update", "coding", "text")

-----------------------------------------------------------------------------
(* The server *)

\* Submit n's request is carried out.
Carried(n, made) ==
    submits' = [submits EXCEPT ![n].served = TRUE, ![n].body = NoRequest, ![n].made = made]

ServeCreate(n) ==
    /\ submits[n].step = "create" /\ ~submits[n].served
    /\ questions' = Append(questions, submits[n].body)
    /\ Carried(n, Len(questions) + 1)
    /\ UNCHANGED <<pageVars, formVars, sent, inTest, writer>>

ServeLink(n) ==
    /\ submits[n].step = "link" /\ ~submits[n].served
    /\ inTest' = inTest \cup {submits[n].made}
    /\ Carried(n, submits[n].made)
    /\ UNCHANGED <<pageVars, formVars, sent, questions, writer>>

\* update_question: the question as sent; of a problem neither title nor test cases.
ServeUpdate(n) ==
    /\ submits[n].step = "update" /\ ~submits[n].served
    /\ questions' = IF screen.kind = "choice" THEN <<submits[n].body>> ELSE questions
    /\ writer' = n
    /\ Carried(n, submits[n].made)
    /\ UNCHANGED <<pageVars, formVars, sent, inTest>>

-----------------------------------------------------------------------------
(* The answers *)

\* The finally block: the form can be sent again, the modal closes.
Finally ==
    /\ submitting' = FALSE /\ modal' = FALSE
    /\ UNCHANGED <<screen, phase, knowsLinks, formVars, sent, serverVars>>

\* Faulty: the question is linked while the page goes on.
SubmitAnsweredAtOnce(n) ==
    /\ Waiting(n) /\ submits[n].served
    /\ submits' = IF submits[n].step = "create" /\ screen.test
                    THEN [submits EXCEPT ![n].step = "link", ![n].served = FALSE, ![n].page = "ok"]
                    ELSE [submits EXCEPT ![n].page = "ok"]
    /\ Finally

\* The question has been created, and a page with an assessmentId links it.
LinkCreated(n) ==
    /\ Waiting(n) /\ submits[n].served
    /\ submits[n].step = "create" /\ screen.test
    /\ submits' = [submits EXCEPT ![n].step = "link", ![n].served = FALSE]
    /\ UNCHANGED <<pageVars, formVars, sent, serverVars>>

\* The last request of a submit has succeeded, and the router is asked for another page.
SubmitAnswered(n) ==
    /\ Waiting(n) /\ submits[n].served
    /\ ~(submits[n].step = "create" /\ screen.test)
    /\ submits' = [submits EXCEPT ![n].page = "ok"]
    /\ Finally

\* An error is shown, whatever has become of the request.
Error(n) ==
    /\ Waiting(n)
    /\ submits' = [submits EXCEPT ![n].page = "error"]
    /\ Finally

QuestionsNext ==
    \/ \E s \in Screens : OpenQuestion(s)
    \/ LeaveQuestion
    \/ LoadChoice \/ LoadCoding \/ LoadFails
    \/ AddChoiceForm \/ AddCodingForm \/ EditChoiceForm \/ EditCodingForm
    \/ SubmitChoice \/ SubmitCoding
    \/ SaveChoice \/ SaveCoding \/ ChoiceWarning \/ CodingWarning
    \/ \E n \in Numbers :
          \/ ServeCreate(n) \/ ServeLink(n) \/ ServeUpdate(n)
          \/ LinkCreated(n) \/ SubmitAnswered(n) \/ Error(n)

QuestionsSpec == QuestionsInit /\ [][QuestionsNext]_questionVars

-----------------------------------------------------------------------------
(* Properties *)

SubmitType == [step : {"none", "create", "link", "update"}, served : BOOLEAN,
               page : {"waits", "ok", "error"}, body : Bodies \cup {NoRequest},
               made : Nat, crossed : BOOLEAN]

\* Every variable has its type.
QuestionsTypeOK ==
    /\ screen \in Screens
    /\ phase \in {"unopened", "loading", "open", "gone"}
    /\ {submitting, modal, knowsLinks, switched} \subseteq BOOLEAN
    /\ modal => knowsLinks
    /\ fields \in [type : QTypes \cup {"coding"}, filled : SUBSET Parts,
                   correct : SUBSET (1..OptionCount), cases : 1..MaxCases,
                   settings : Settings]
    /\ sent \in 0..MaxSubmits /\ submits \in [Numbers -> SubmitType]
    /\ questions \in Seq(Bodies) /\ inTest \subseteq 1..Len(questions)
    /\ writer \in 0..sent

\* A stored single-choice question has one right answer, which grade_single_choice
\* relies on: ticking, changing the type and changing it back, loading and saving
\* keep it so. One exception: single choice was selected with several options ticked
\* and the question sent without ticking one.
OneRightAnswer ==
    \A i \in 1..Len(questions) :
        questions[i].type \in Single /\ ~questions[i].mixed
            => Cardinality(questions[i].correct) = 1

\* What an edit page was told is saved stays, until the page saves again: no older
\* update lands after it. Two exceptions: one that the page was told had failed, and
\* one that "Proceed" was pressed again for, which nothing disables.
LastSaveStands ==
    screen.job = "edit" =>
        \A n \in Numbers : submits[n].page = "ok" =>
            \/ writer >= n
            \/ writer # 0 /\ submits[writer].page = "error"
            \/ knowsLinks /\ submits[n].crossed

\* A submit that an add page was told has succeeded has made a question, which is in
\* the page's test. A question outside of it belongs to a submit that is still under
\* way or was answered with an error, and one at most is under way.
QuestionsAccounted ==
    screen.job = "add" =>
        /\ \A n \in Numbers : submits[n].page = "ok" =>
              submits[n].made # 0 /\ (screen.test => submits[n].made \in inTest)
        /\ \A i \in 1..Len(questions) :
              \E n \in Numbers : /\ submits[n].made = i
                                 /\ screen.test /\ i \notin inTest => submits[n].page # "ok"
        /\ \A m, n \in Numbers : Waiting(m) /\ Waiting(n) => m = n

=============================================================================
