------------------------------- MODULE TestEditor -------------------------------
(***************************************************************************)
(* The questions of one test: the page assessment/[id]/edit in several     *)
(* tabs, and the handlers of janv-api that it calls, statement by          *)
(* statement: add_questions_to_assessment links one question after the     *)
(* other, in no transaction; publish_assessment counts and then publishes; *)
(* delete_question takes a question out of every test.                     *)
(*                                                                         *)
(* The page sends everything that is ticked, what the test has already     *)
(* included, and says "Test saved!" whatever has failed. The order of the  *)
(* ticks is the order of the INSERTs: every order can be clicked, so the   *)
(* next one is any. (janv-api has no route for the questions of a bank:    *)
(* there that request fails, and the page lists what the test has.)        *)
(***************************************************************************)
EXTENDS Naturals, FiniteSets

CONSTANTS
    Editors,        \* tabs
    BankQuestions,  \* those of the first bank
    OldQuestions,   \* other questions that the test may have
    Customs         \* what "Create Custom Question" makes: known to the page only

ASSUME EditorAssumption ==
    /\ IsFiniteSet(BankQuestions \cup OldQuestions)
    /\ Customs \cap (BankQuestions \cup OldQuestions) = {}

VARIABLES
    stored,     \* questions: those of the two sets that have a row
    linked,     \* assessment_questions of the test
    published,  \* is_published
    editor,     \* per tab: the page and what its handleSave is about to do
    uncounted   \* history: the test has lost a question since it was counted to be
                \* published, or was published by the scheduler, which does not count

editorVars == <<stored, linked, published, editor, uncounted>>

DbQuestions == BankQuestions \cup OldQuestions
Pickable    == DbQuestions \cup Customs

\* pc: where the page is: waiting for the test, then for the bank, in use, or done with.
\* save: what its handleSave waits for, and how it has ended.
Unopened == [pc |-> "test", available |-> {}, selected |-> {}, save |-> "none",
             sent |-> {}, todo |-> {}]

EditorInit ==
    /\ stored = DbQuestions
    /\ linked \in SUBSET OldQuestions
    /\ published = FALSE
    /\ editor = [e \in Editors |-> Unopened]
    /\ uncounted = FALSE

-----------------------------------------------------------------------------
(* Loading *)

\* get_assessment: the linked questions, listed and ticked, or nothing on an error.
LoadTest(e) ==
    /\ editor[e].pc = "test"
    /\ \E qs \in {linked, {}} :
          editor' = [editor EXCEPT ![e].pc = "bank", ![e].available = qs, ![e].selected = qs]
    /\ UNCHANGED <<stored, linked, published, uncounted>>

\* The questions of the first bank are listed besides; an error is ignored, as is a bank
\* that there is not.
LoadBank(e) ==
    /\ editor[e].pc = "bank"
    /\ \E qs \in {BankQuestions \cap stored, {}} :
          editor' = [editor EXCEPT ![e].pc = "open", ![e].available = @ \cup qs]
    /\ UNCHANGED <<stored, linked, published, uncounted>>

-----------------------------------------------------------------------------
(* The list *)

InUse(e) == editor[e].pc = "open"

Pick(e, s) ==
    /\ InUse(e)
    /\ editor' = [editor EXCEPT ![e].selected = s]
    /\ UNCHANGED <<stored, linked, published, uncounted>>

ToggleSelect(e) ==
    \E q \in editor[e].available :
        Pick(e, IF q \in editor[e].selected THEN editor[e].selected \ {q}
                                            ELSE editor[e].selected \cup {q})

\* Select All / Deselect All goes by the numbers.
SelectAll(e) ==
    Pick(e, IF Cardinality(editor[e].selected) = Cardinality(editor[e].available)
              THEN {} ELSE editor[e].available)

\* handleAddCustomQuestion: listed and ticked; nothing is sent.
AddCustom(e) ==
    /\ InUse(e)
    /\ \E c \in Customs \ editor[e].available :
          editor' = [editor EXCEPT ![e].available = @ \cup {c}, ![e].selected = @ \cup {c}]
    /\ UNCHANGED <<stored, linked, published, uncounted>>

\* "Save Draft" and "Cancel" only leave.
LeaveEditor(e) ==
    /\ InUse(e)
    /\ editor' = [editor EXCEPT ![e] = [Unopened EXCEPT !.pc = "left"]]
    /\ UNCHANGED <<stored, linked, published, uncounted>>

-----------------------------------------------------------------------------
(* handleSave *)

\* One request for all that is ticked, if anything is. The button is not offered again,
\* and handleSave goes on with this list: what is clicked from here on, "Cancel" as well,
\* has no effect, and afterwards the page is left.
SaveTest(e) ==
    /\ InUse(e)
    /\ editor' = [editor EXCEPT ![e] =
                    [Unopened EXCEPT !.pc = "left",
                                     !.save = IF editor[e].selected = {} THEN "count" ELSE "add",
                                     !.sent = editor[e].selected, !.todo = editor[e].selected]]
    /\ UNCHANGED <<stored, linked, published, uncounted>>

Saved(e, end, sent) ==
    editor' = [editor EXCEPT ![e].save = end, ![e].sent = sent, ![e].todo = {}]

\* The catch block says "Test saved!".
SaveFails(e) == Saved(e, "failed", {})

\* Faulty: an error of the first request is passed over.
RequestPassedOver(e) ==
    /\ editor[e].save \in {"add", "count", "publish"}
    /\ IF editor[e].save = "add" THEN editor' = [editor EXCEPT ![e].save = "count", ![e].todo = {}]
                                 ELSE SaveFails(e)
    /\ UNCHANGED <<stored, linked, published, uncounted>>

\* A request is lost, a statement fails, or a process stops: whatever has been written
\* stays. When only the answer of publish was lost, the test is published all the same.
RequestLost(e) ==
    /\ editor[e].save \in {"add", "count", "publish"}
    /\ SaveFails(e)
    /\ published' \in (IF editor[e].save = "publish" THEN {published, TRUE} ELSE {published})
    /\ UNCHANGED <<stored, linked, uncounted>>

\* A body with a custom question is no list of UUIDs: no statement is run.
BodyRejected(e) ==
    /\ editor[e].save = "add" /\ editor[e].sent \cap Customs # {}
    /\ SaveFails(e)
    /\ UNCHANGED <<stored, linked, published, uncounted>>

\* add_questions_to_assessment, one INSERT: an error if the test has the question
\* already, or if there is none; what came before it stays. After the last, publish is
\* sent.
AddQuestion(e) ==
    /\ editor[e].save = "add" /\ editor[e].sent \cap Customs = {}
    /\ \E q \in editor[e].todo :
          IF q \in stored \ linked
            THEN /\ linked' = linked \cup {q}
                 /\ editor' = [editor EXCEPT
                                 ![e].todo = @ \ {q},
                                 ![e].save = IF editor[e].todo = {q} THEN "count" ELSE @]
            ELSE SaveFails(e) /\ UNCHANGED linked
    /\ UNCHANGED <<stored, published, uncounted>>

\* Faulty: an empty test passes.
CountNothing(e) ==
    /\ editor[e].save = "count"
    /\ editor' = [editor EXCEPT ![e].save = "publish"]
    /\ UNCHANGED <<stored, linked, published, uncounted>>

\* publish_assessment: SELECT COUNT(*), which refuses a test without questions.
CountQuestions(e) ==
    /\ editor[e].save = "count"
    /\ IF linked # {} THEN editor' = [editor EXCEPT ![e].save = "publish"] ELSE SaveFails(e)
    /\ UNCHANGED <<stored, linked, published, uncounted>>

\* UPDATE assessments SET is_published = true, and the answer: "Test saved & published".
Publish(e) ==
    /\ editor[e].save = "publish"
    /\ published' = TRUE
    /\ Saved(e, "done", editor[e].sent)
    /\ UNCHANGED <<stored, linked, uncounted>>

\* The scheduler's tick opens a test that is due.
OpenDueTest ==
    /\ ~published
    /\ published' = TRUE /\ uncounted' = TRUE
    /\ UNCHANGED <<stored, linked, editor>>

Counted == \E e \in Editors : editor[e].save = "publish"

\* delete_question, from elsewhere, with its links.
DeleteQuestion(q) ==
    /\ q \in stored
    /\ stored' = stored \ {q}
    /\ linked' = linked \ {q}
    /\ uncounted' = (uncounted \/ (q \in linked /\ (published \/ Counted)))
    /\ UNCHANGED <<published, editor>>

EditorNext ==
    \/ \E e \in Editors :
          \/ LoadTest(e) \/ LoadBank(e)
          \/ ToggleSelect(e) \/ SelectAll(e) \/ AddCustom(e) \/ LeaveEditor(e)
          \/ SaveTest(e) \/ RequestLost(e) \/ BodyRejected(e)
          \/ AddQuestion(e) \/ CountQuestions(e) \/ Publish(e)
    \/ OpenDueTest
    \/ \E q \in DbQuestions : DeleteQuestion(q)

EditorSpec == EditorInit /\ [][EditorNext]_editorVars

-----------------------------------------------------------------------------
(* Properties *)

\* Every variable has its type.
EditorTypeOK ==
    /\ stored \subseteq DbQuestions /\ linked \subseteq stored
    /\ {published, uncounted} \subseteq BOOLEAN
    /\ editor \in [Editors -> [pc : {"test", "bank", "open", "left"},
                               available : SUBSET Pickable, selected : SUBSET Pickable,
                               save : {"none", "add", "count", "publish", "done", "failed"},
                               sent : SUBSET Pickable, todo : SUBSET Pickable]]

\* "Test saved & published" is true of everything that was ticked: the test is published,
\* and every question that was sent is one of it, but for those that were deleted. A save
\* that stops half way through never gets as far as publishing.
PublishedAsTicked ==
    \A e \in Editors :
        editor[e].save = "done" => published /\ editor[e].sent \cap stored \subseteq linked
                                    /\ editor[e].sent \cap Customs = {}

\* A test that is published has a question, although they are counted in one statement
\* and it is published in another: it has none only if one was deleted after the count,
\* or if the scheduler has published it.
PublishedHasQuestions == published => linked # {} \/ uncounted

=============================================================================
