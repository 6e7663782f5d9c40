----------------------------- MODULE SectionForms -----------------------------
(***************************************************************************)
(* Step 2 of the test wizard, createSection/page.tsx: one form, filled in  *)
(* and saved once for every section of the draft, with a way back to what  *)
(* was saved. A saved section locks the form; "Edit" opens it again.       *)
(*                                                                         *)
(* A field holds what was typed (a text) or what was loaded or picked (a   *)
(* number), and the two differ in one value: a typed zero, ZeroText, is    *)
(* true for JavaScript, the number 0 is not. Names are taken up to the     *)
(* blanks around them. What is lost with the page is lost here as well.    *)
(***************************************************************************)
EXTENDS Naturals, Sequences

CONSTANTS
    Required,      \* testDraft.numSections
    SectionNames,  \* of letters, digits and blanks
    BadNames,      \* any other that is not empty
    Durations,     \* numbers typed for a duration
    Marks, Penalties, Displays,
                   \* what is typed or picked there: numbers other than 0, or
                   \* ZeroText, or Blank
    Texts,         \* instructions
    ZeroText,      \* a typed zero
    Blank          \* the empty text; no number

ASSUME SectionsAssumption ==
    /\ Required \in Nat \ {0}
    /\ Durations \subseteq Nat
    /\ Marks \cup Penalties \cup Displays \subseteq (Nat \ {0}) \cup {ZeroText, Blank}
    /\ Blank \notin Nat \cup SectionNames \cup BadNames \cup Texts \cup {ZeroText}
    /\ ZeroText \notin Nat

VARIABLES
    form,       \* the fields of the active section
    at,         \* currentSectionIndex + 1
    saved,      \* savedSections
    editing,    \* isEditing
    posting,    \* the sections of the request that Finish has sent, or <<>>
    left,       \* the page has gone on to createSuccess
    cancelled   \* history: "Cancel Edit" has locked fields that differ from what
                \* is saved

sectionVars == <<form, at, saved, editing, posting, left, cancelled>>

Types  == {"MCQ", "Coding"}
Number == Nat \cup {ZeroText, Blank}

Forms == [name : SectionNames \cup BadNames \cup {Blank}, duration : Durations \cup {Blank},
          type : Types, instructions : Texts \cup {Blank},
          marks : Number, penalty : Number, display : Number]

EmptyForm == [name |-> Blank, duration |-> Blank, type |-> "MCQ", instructions |-> Blank,
              marks |-> 1, penalty |-> Blank, display |-> Blank]

SectionsInit ==
    /\ form = EmptyForm
    /\ at = 1
    /\ saved = <<>>
    /\ editing = FALSE
    /\ posting = <<>>
    /\ left = FALSE
    /\ cancelled = FALSE

\* isCurrentSectionSaved, isFieldDisabled, allSectionsSaved, isNextLocked.
CurrentSaved == at <= Len(saved)

FieldDisabled == CurrentSaved /\ ~editing

AllSectionsSaved == Len(saved) = Required

NextLocked == at >= Required \/ ~CurrentSaved

-----------------------------------------------------------------------------
(* What becomes of the fields *)

\* validate: the fields can be saved.
Valid(f) ==
    /\ f.name \in SectionNames
    /\ f.duration \in 1..300
    /\ f.type = "MCQ" => f.marks # Blank

\* Number(v)
AsNumber(v) == IF v = ZeroText THEN 0 ELSE v

\* newSec: Number(defaultMarks || 1) makes 1 of the number 0 and 0 of a typed
\* zero; a section of coding problems has neither marks nor a penalty.
NewSection(f) ==
    [f EXCEPT !.marks   = CASE f.type = "Coding" -> 0
                            [] f.type = "MCQ" /\ f.marks \in {0, Blank} -> 1
                            [] OTHER -> AsNumber(f.marks),
              !.penalty = IF f.type = "Coding" \/ f.penalty = Blank THEN 0
                                                                    ELSE AsNumber(f.penalty),
              !.display = AsNumber(@)]

\* The row of handleFinish's payload: displayQuestions || 10.
Payload(s) == [s EXCEPT !.display = IF @ \in {Blank, 0} THEN 10 ELSE @]

\* loadSectionIntoForm
LoadSection(i, list) ==
    /\ form' = IF i <= Len(list) THEN list[i] ELSE EmptyForm
    /\ editing' = FALSE
    /\ cancelled' = FALSE

-----------------------------------------------------------------------------
(* The controls *)

\* A field takes input unless the section is saved and not being edited.
Type(f) ==
    /\ ~left /\ ~FieldDisabled
    /\ form' = f
    /\ UNCHANGED <<at, saved, editing, posting, left, cancelled>>

SetName(v)         == Type([form EXCEPT !.name = v])
SetDuration(v)     == Type([form EXCEPT !.duration = v])
SetInstructions(v) == Type([form EXCEPT !.instructions = v])
SetType(v)         == Type([form EXCEPT !.type = v])

\* Marks and penalty are offered for multiple choice only, to type or to pick;
\* the number of questions displayed is there for both, but disabled for coding.
SetMarks(v)   == form.type # "Coding" /\ Type([form EXCEPT !.marks = v])
SetPenalty(v) == form.type # "Coding" /\ Type([form EXCEPT !.penalty = v])
SetDisplay(v) == form.type # "Coding" /\ Type([form EXCEPT !.display = v])

\* The fields say the same as section s.
Agrees(f, s) ==
    /\ f.name = s.name /\ f.duration = s.duration
    /\ f.type = s.type /\ f.instructions = s.instructions
    /\ AsNumber(f.display) = s.display
    /\ f.type = "MCQ" => /\ AsNumber(f.marks) = s.marks
                        /\ s.penalty = IF f.penalty = Blank THEN 0 ELSE AsNumber(f.penalty)

\* Edit / Cancel Edit: nothing but the lock changes.
ToggleEdit ==
    /\ ~left /\ CurrentSaved
    /\ editing' = ~editing
    /\ cancelled' = (editing /\ ~Agrees(form, saved[at]))
    /\ UNCHANGED <<form, at, saved, posting, left>>

SaveOffered   == ~AllSectionsSaved \/ editing
FinishOffered == ~SaveOffered /\ posting = <<>>

\* Faulty: saved whatever the fields hold.
SaveUnvalidated ==
    /\ ~left /\ SaveOffered /\ ~FieldDisabled
    /\ saved' = IF CurrentSaved THEN [saved EXCEPT ![at] = NewSection(form)]
                               ELSE Append(saved, NewSection(form))
    /\ editing' = FALSE
    /\ cancelled' = FALSE
    /\ UNCHANGED <<form, at, posting, left>>

\* handleSaveSection: with an error in the fields it only says so.
SaveSection ==
    /\ ~left /\ SaveOffered /\ ~FieldDisabled
    /\ Valid(form)
    /\ saved' = IF CurrentSaved THEN [saved EXCEPT ![at] = NewSection(form)]
                               ELSE Append(saved, NewSection(form))
    /\ editing' = FALSE
    /\ cancelled' = FALSE
    /\ UNCHANGED <<form, at, posting, left>>

PreviousButton == ~left /\ at > 1
NextButton     == ~left /\ ~NextLocked

\* Faulty: loads by the state, which the handler has not changed yet.
PreviousStale ==
    /\ PreviousButton
    /\ at' = at - 1
    /\ LoadSection(at, saved)
    /\ UNCHANGED <<saved, posting, left>>

\* handlePrevious, handleNext: what is typed and not saved is dropped.
Previous ==
    /\ PreviousButton
    /\ at' = at - 1
    /\ LoadSection(at - 1, saved)
    /\ UNCHANGED <<saved, posting, left>>

NextSection ==
    /\ NextButton
    /\ at' = at + 1
    /\ LoadSection(at + 1, saved)
    /\ UNCHANGED <<saved, posting, left>>

\* handleFinish: the payload is fixed here; fields stay usable while it is sent.
Finish ==
    /\ ~left /\ FinishOffered
    /\ Len(saved) >= Required
    /\ posting' = [i \in 1..Len(saved) |-> Payload(saved[i])]
    /\ UNCHANGED <<form, at, saved, editing, left, cancelled>>

\* Its answer: on to createSuccess, or a message and another try.
FinishAnswered ==
    /\ posting # <<>>
    /\ left' \in BOOLEAN
    /\ posting' = <<>>
    /\ UNCHANGED <<form, at, saved, editing, cancelled>>

Fields ==
    \/ \E v \in SectionNames \cup BadNames \cup {Blank} : SetName(v)
    \/ \E v \in Durations \cup {Blank} : SetDuration(v)
    \/ \E v \in Texts \cup {Blank} : SetInstructions(v)
    \/ \E v \in Types : SetType(v)
    \/ \E v \in Marks : SetMarks(v)
    \/ \E v \in Penalties : SetPenalty(v)
    \/ \E v \in Displays : SetDisplay(v)

SectionsNext ==
    Fields \/ ToggleEdit \/ SaveSection \/ Previous \/ NextSection \/ Finish \/ FinishAnswered

SectionsSpec == SectionsInit /\ [][SectionsNext]_sectionVars

-----------------------------------------------------------------------------
(* Properties *)

\* The rows of the preview beside the form: name and duration of each section.
Preview == [i \in 1..Len(saved) |-> <<saved[i].name, saved[i].duration>>]

\* Every variable has its type; no section is saved before the one before it.
SectionsTypeOK ==
    /\ form \in Forms
    /\ at \in 1..Required
    /\ saved \in Seq(Forms) /\ Len(saved) <= Required /\ at <= Len(saved) + 1
    /\ editing \in BOOLEAN
    /\ posting \in Seq(Forms)
    /\ left \in BOOLEAN
    /\ cancelled \in BOOLEAN

\* A locked form shows what is saved of the section, and so what Finish would
\* send and the preview lists: after every way of saving, moving and editing. Two
\* exceptions: an edit was cancelled, which locks the fields as they are; and marks
\* of 0 that were loaded, which "Update" saves as 1 while the form goes on to show 0.
LockedShowsSaved ==
    FieldDisabled =>
        \/ cancelled
        \/ /\ \/ Agrees(form, saved[at])
              \/ form.marks = 0 /\ Agrees([form EXCEPT !.marks = 1], saved[at])
           /\ Preview[at] = <<form.name, form.duration>>

\* What Finish sends is every section of the draft, each of which has passed the
\* validation of its fields, although only the one in the form is validated and
\* the page is left forwards and backwards in between.
SentComplete ==
    posting # <<>> =>
        /\ Len(posting) = Required
        /\ \A i \in 1..Len(posting) :
              posting[i].name \in SectionNames /\ posting[i].duration \in 1..300

=============================================================================
