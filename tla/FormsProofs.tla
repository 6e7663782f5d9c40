------------------------------ MODULE FormsProofs ------------------------------
(***************************************************************************)
(* Proofs about the forms: the two steps of the test wizard that fill in a *)
(* draft, and the pages that write a question.                             *)
(***************************************************************************)
EXTENDS CreateTest, SectionForms, QuestionForms, FiniteSetTheorems, TLAPS

-----------------------------------------------------------------------------
(* The draft of a test *)

DraftType == [about : Details, code : NextCodes,
              chosen : {c \in [Menus -> SUBSET (Departments \cup Batches)] :
                          \A m \in Menus : c[m] \subseteq Items(m)}]

MenuMaps == {c \in [Menus -> SUBSET (Departments \cup Batches \cup {All})] :
               \A m \in Menus : c[m] \subseteq Items(m) \cup {All}}

\* The type invariant, in parts.
MenusOK ==
    /\ offered \in MenuMaps /\ listed \in MenuMaps /\ chosen \in MenuMaps
    /\ \A m \in Menus : All \notin offered[m] /\ All \notin listed[m]
    /\ menuOpen \in {{}} \cup {{m} : m \in Menus}

FieldsOK ==
    /\ about \in Details
    /\ testCode \in NextCodes
    /\ draft # NoDraft => draft \in DraftType

CreateFlags == here \in BOOLEAN /\ early \in [Menus -> BOOLEAN]

\* Over an empty list, "All" has been ticked early.
EarlyOnly == \A m \in Menus : All \in chosen[m] /\ listed[m] = {} => early[m]

\* The page keeps the code of the draft it has stored.
CodeHeld == draft # NoDraft /\ draft.code # DefaultCode => testCode = draft.code

CreateInv == MenusOK /\ FieldsOK /\ CreateFlags /\ EarlyOnly /\ CodeHeld /\ AllIsAll

LEMMA NothingIsMap == Nothing \in MenuMaps /\ \A m \in Menus : Nothing[m] = {}
  BY DEF Nothing, MenuMaps

LEMMA NoDetailsTyped == NoDetails \in Details
  BY DEF NoDetails, Details

LEMMA ItemsFinite ==
  ASSUME NEW m \in Menus
  PROVE  /\ IsFiniteSet(Items(m)) /\ All \notin Items(m)
         /\ Items(m) \subseteq Departments \cup Batches
  BY CreateTestAssumption DEF Items

LEMMA CreateInvInit == CreateInit => CreateInv
<1> SUFFICES ASSUME CreateInit PROVE CreateInv
  OBVIOUS
<1> USE DEF CreateInit
<1>1. MenusOK
  BY NothingIsMap, ItemsFinite DEF MenusOK, MenuMaps, Nothing
<1>2. FieldsOK /\ CreateFlags
  BY NoDetailsTyped, CreateTestAssumption DEF FieldsOK, CreateFlags
<1>3. EarlyOnly /\ CodeHeld /\ AllIsAll
  BY NothingIsMap DEF EarlyOnly, CodeHeld, AllIsAll
<1> QED
  BY <1>1, <1>2, <1>3 DEF CreateInv

\* A click on an entry: what is chosen then, and what a ticked "All" means then.
LEMMA ToggledSound ==
  ASSUME NEW items, IsFiniteSet(items), All \notin items,
         NEW list \in SUBSET items, NEW old \in SUBSET (items \cup {All}),
         NEW x \in list \cup {All}
  PROVE  /\ Toggled(x, old, list) \subseteq items \cup {All}
         /\ All \in Toggled(x, old, list) =>
              \/ list \subseteq Toggled(x, old, list) \ {All}
              \/ ~(Toggled(x, old, list) \ {All} \subseteq list)
         /\ x # All => list # {}
         /\ x = All /\ All \in Toggled(x, old, list) => All \notin old
<1>1. CASE x = All
  BY <1>1 DEF Toggled
<1>2. CASE x # All /\ x \in old
  BY <1>2 DEF Toggled
<1>3. CASE x # All /\ x \notin old
  <2> DEFINE next == (old \ {All}) \cup {x}
  <2>1. next \subseteq items /\ All \notin next
    BY <1>3
  <2>2. CASE Cardinality(next) = Cardinality(list)
    <3>1. Toggled(x, old, list) = {All} \cup next
      BY <1>3, <2>2 DEF Toggled
    <3>2. Toggled(x, old, list) \ {All} = next
      BY <2>1, <3>1
    <3>3. IsFiniteSet(list)
      BY FS_Subset
    <3>4. next \subseteq list => list = next
      BY <2>2, <3>3, FS_Subset
    <3> HIDE DEF next
    <3> QED
      BY <1>3, <2>1, <3>1, <3>2, <3>4
  <2>3. CASE Cardinality(next) # Cardinality(list)
    <3>1. Toggled(x, old, list) = next
      BY <1>3, <2>3 DEF Toggled
    <3> QED
      BY <1>3, <2>1, <3>1
  <2> QED
    BY <2>2, <2>3
<1> QED
  BY <1>1, <1>2, <1>3

LEMMA ChooseStep ==
  ASSUME CreateInv, NEW m \in Menus, NEW x, Choose(m, x)
  PROVE  CreateInv'
<1> USE DEF CreateInv
<1>0. /\ x \in listed[m] \cup {All}
      /\ chosen' = [chosen EXCEPT ![m] = Toggled(x, chosen[m], listed[m])]
      /\ UNCHANGED <<offered, listed, menuOpen, about, testCode, draft, here>>
  BY DEF Choose, MenusOK, MenuMaps
<1>1. /\ listed[m] \in SUBSET Items(m) /\ chosen[m] \in SUBSET (Items(m) \cup {All})
  BY DEF MenusOK, MenuMaps
<1>2. /\ Toggled(x, chosen[m], listed[m]) \subseteq Items(m) \cup {All}
      /\ All \in Toggled(x, chosen[m], listed[m]) =>
           \/ listed[m] \subseteq Toggled(x, chosen[m], listed[m]) \ {All}
           \/ ~(Toggled(x, chosen[m], listed[m]) \ {All} \subseteq listed[m])
      /\ x # All => listed[m] # {}
      /\ x = All /\ All \in Toggled(x, chosen[m], listed[m]) => All \notin chosen[m]
  BY <1>0, <1>1, ItemsFinite, ToggledSound
<1>3. /\ chosen'[m] = Toggled(x, chosen[m], listed[m])
      /\ \A n \in Menus \ {m} : chosen'[n] = chosen[n]
  BY <1>0 DEF MenusOK, MenuMaps
<1>4. MenusOK'
  <2>1. chosen' \in MenuMaps
    BY <1>0, <1>2, ItemsFinite DEF MenusOK, MenuMaps
  <2> QED
    BY <1>0, <2>1 DEF MenusOK
<1>5. FieldsOK' /\ CodeHeld'
  BY <1>0 DEF FieldsOK, CodeHeld
<1>6. CreateFlags'
  <2>1. PICK b \in BOOLEAN : early' = [early EXCEPT ![m] = b]
    <3>1. (IF x = All THEN All \notin chosen[m] /\ listed[m] = {}
                      ELSE early[m] /\ All \in chosen'[m]) \in BOOLEAN
      BY Zenon DEF CreateFlags
    <3> QED
      BY <3>1, Zenon DEF Choose
  <2> QED
    BY <1>0, <2>1 DEF CreateFlags
<1>7. EarlyOnly'
  <2>1. \A n \in Menus \ {m} : early'[n] = early[n]
    BY DEF Choose, CreateFlags
  <2>2. x = All => early'[m] = (All \notin chosen[m] /\ listed[m] = {})
    BY DEF Choose, CreateFlags
  <2>3. ASSUME All \in chosen'[m], listed[m] = {} PROVE early'[m]
    BY <1>2, <1>3, <2>2, <2>3
  <2> QED
    BY <1>0, <1>3, <2>1, <2>3 DEF EarlyOnly
<1>8. AllIsAll'
  <2>1. \A n \in Menus \ {m} : early'[n] = early[n]
    BY DEF Choose, CreateFlags
  <2> QED
    BY <1>0, <1>2, <1>3, <2>1 DEF AllIsAll, Display
<1> QED
  BY <1>4, <1>5, <1>6, <1>7, <1>8

LEMMA ReturnStep ==
  ASSUME CreateInv, NEW d \in {draft, NoDraft}, Return(d)
  PROVE  CreateInv'
<1> USE DEF CreateInv
<1>0. /\ here' = TRUE /\ draft' = d /\ listed' = Nothing /\ menuOpen' = {}
      /\ early' = [m \in Menus |-> FALSE] /\ UNCHANGED offered
  BY DEF Return
<1>1. d # NoDraft => d \in DraftType
  BY DEF FieldsOK
<1>2. /\ chosen' \in MenuMaps /\ \A m \in Menus : All \notin chosen'[m]
  <2>1. CASE d = NoDraft
    BY <2>1, NothingIsMap DEF Return
  <2>2. CASE d # NoDraft
    BY <1>1, <2>2, ItemsFinite DEF Return, DraftType, MenuMaps
  <2> QED
    BY <2>1, <2>2
<1>3. about' \in Details /\ testCode' \in NextCodes
  BY <1>1, NoDetailsTyped, CreateTestAssumption DEF Return, DraftType
<1>4. MenusOK'
  BY <1>0, <1>2, NothingIsMap DEF MenusOK
<1>5. FieldsOK' /\ CreateFlags'
  BY <1>0, <1>1, <1>3 DEF FieldsOK, CreateFlags
<1>6. EarlyOnly' /\ AllIsAll'
  BY <1>2 DEF EarlyOnly, AllIsAll
<1>7. CodeHeld'
  BY <1>0 DEF Return, CodeHeld
<1> QED
  BY <1>4, <1>5, <1>6, <1>7

LEMMA CreateInvStep == CreateInv /\ [CreateNext]_createVars => CreateInv'
<1> SUFFICES ASSUME CreateInv, [CreateNext]_createVars PROVE CreateInv'
  OBVIOUS
<1> USE DEF CreateInv
<1>1. ASSUME NEW m \in Menus, ListChanges(m) PROVE CreateInv'
  <2>1. PICK s \in SUBSET Items(m) : offered' = [offered EXCEPT ![m] = s]
    BY <1>1 DEF ListChanges
  <2>2. MenusOK'
    BY <1>1, <2>1, ItemsFinite DEF ListChanges, MenusOK, MenuMaps
  <2> QED
    BY <1>1, <2>2 DEF ListChanges, FieldsOK, CreateFlags, EarlyOnly, CodeHeld, AllIsAll, Display
<1>2. ASSUME NEW m \in Menus, ListAnswered(m) PROVE CreateInv'
  <2>1. MenusOK'
    BY <1>2 DEF ListAnswered, MenusOK, MenuMaps
  <2>2. /\ \A n \in Menus \ {m} : listed'[n] = listed[n]
        /\ listed[m] = {} /\ UNCHANGED <<chosen, early>>
    BY <1>2 DEF ListAnswered, MenusOK, MenuMaps
  <2>3. EarlyOnly'
    BY <2>2 DEF EarlyOnly
  <2>4. AllIsAll'
    BY <2>2 DEF AllIsAll, Display, EarlyOnly
  <2> QED
    BY <1>2, <2>1, <2>3, <2>4 DEF ListAnswered, FieldsOK, CreateFlags, CodeHeld
<1>3. CASE CodeAnswered
  BY <1>3 DEF CodeAnswered, MenusOK, FieldsOK, CreateFlags, EarlyOnly, CodeHeld, AllIsAll, Display
<1>4. ASSUME \/ ClickOutside \/ \E m \in Menus : ClickMenu(m) PROVE CreateInv'
  <2>1. menuOpen' \in {{}} \cup {{m} : m \in Menus}
    BY <1>4 DEF ClickOutside, ClickMenu
  <2>2. UNCHANGED <<offered, listed, chosen, about, testCode, draft, here, early>>
    BY <1>4 DEF ClickOutside, ClickMenu
  <2> QED
    BY <2>1, <2>2 DEF MenusOK, FieldsOK, CreateFlags, EarlyOnly, CodeHeld, AllIsAll, Display
<1>5. ASSUME NEW d \in Details, Fill(d) PROVE CreateInv'
  BY <1>5 DEF Fill, MenusOK, FieldsOK, CreateFlags, EarlyOnly, CodeHeld, AllIsAll, Display
<1>6. CASE SubmitDraft
  <2>1. draft' \in DraftType
    <3>1. [m \in Menus |-> chosen[m] \ {All}] \in
             {c \in [Menus -> SUBSET (Departments \cup Batches)] :
                          \A m \in Menus : c[m] \subseteq Items(m)}
      BY ItemsFinite DEF MenusOK, MenuMaps
    <3> QED
      BY <1>6, <3>1 DEF SubmitDraft, DraftType, FieldsOK
  <2> QED
    BY <1>6, <2>1 DEF SubmitDraft, MenusOK, FieldsOK, CreateFlags, EarlyOnly, CodeHeld, AllIsAll,
                      Display
<1>7. CASE ComeBack \/ NewTest
  BY <1>7, ReturnStep DEF ComeBack, NewTest
<1>8. CASE DepartmentMenu \/ BatchMenu
  <2>1. \E m \in Menus : ClickMenu(m) \/ \E x : Choose(m, x)
    BY <1>8 DEF DepartmentMenu, BatchMenu, ToggleDepartment, ToggleBatch, Menus
  <2> QED
    BY <1>4, <2>1, ChooseStep
<1>9. CASE \/ \E v \in TestNames \cup {NoText} : SetTestName(v)
           \/ \E n \in Counts : SetNumSections(n)
           \/ \E v \in Prose \cup {NoText} : SetProse(v)
           \/ \E n \in Limits : SetSwitches(n)
           \/ \E b \in Answers : SetJumble(b) \/ SetReport(b)
  <2>1. \E d \in Details : Fill(d)
    BY <1>9, CreateTestAssumption DEF SetTestName, SetNumSections, SetProse, SetSwitches, SetJumble,
                                     SetReport, FieldsOK, Details
  <2> QED
    BY <1>5, <2>1
<1>10. CASE UNCHANGED createVars
  BY <1>10 DEF createVars, MenusOK, FieldsOK, CreateFlags, EarlyOnly, CodeHeld, AllIsAll, Display
<1> QED
  BY <1>1, <1>2, <1>3, <1>4, <1>6, <1>7, <1>8, <1>9, <1>10 DEF CreateNext

\* The invariant of the draft's form, from which the theorems follow.
THEOREM CreateInvariance == CreateSpec => []CreateInv
  BY CreateInvInit, CreateInvStep, PTL DEF CreateSpec

\* Every variable of the draft's form has its type.
THEOREM CreateTypes == CreateSpec => []CreateTypeOK
<1>1. CreateInv => CreateTypeOK
  <2> SUFFICES ASSUME CreateInv PROVE CreateTypeOK
    OBVIOUS
  <2>1. \A m \in Menus : /\ offered[m] \subseteq Items(m) /\ listed[m] \subseteq Items(m)
                         /\ chosen[m] \subseteq Items(m) \cup {All}
                         /\ early[m] \in BOOLEAN
    BY DEF CreateInv, MenusOK, MenuMaps, CreateFlags
  <2> QED
    BY <2>1 DEF CreateInv, MenusOK, FieldsOK, CreateFlags, DraftType, CreateTypeOK
<1> QED
  BY <1>1, CreateInvariance, PTL

\* A ticked "All" is true, unless it was ticked too early or an item is listed no more:
\* two finite sets of one size, one of them within the other, are equal.
THEOREM CreateAll == CreateSpec => []AllIsAll
<1>1. CreateInv => AllIsAll
  BY DEF CreateInv
<1> QED
  BY <1>1, CreateInvariance, PTL

\* A draft keeps the test code it has been stored with.
THEOREM CreateCode == CreateSpec => CodeKept
<1> DEFINE Keeps == draft # NoDraft /\ draft' # NoDraft /\ draft.code # DefaultCode
                      => draft'.code = draft.code
<1>1. CreateInv /\ [CreateNext]_createVars => [Keeps]_createVars
  <2> SUFFICES ASSUME CreateInv, CreateNext PROVE Keeps
    OBVIOUS
  <2>1. CASE draft' \in {draft, NoDraft}
    BY <2>1
  <2>2. CASE draft' \notin {draft, NoDraft}
    <3>1. SubmitDraft
      BY <2>2 DEF CreateNext, ListChanges, ListAnswered, CodeAnswered, ClickOutside, DepartmentMenu,
           BatchMenu, ToggleDepartment, ToggleBatch, ClickMenu, Choose, SetTestName, SetNumSections,
           SetProse, SetSwitches, SetJumble, SetReport, Fill, ComeBack, NewTest, Return
    <3> QED
      BY <3>1 DEF SubmitDraft, CreateInv, CodeHeld
  <2> QED
    BY <2>1, <2>2
<1> QED
  BY <1>1, CreateInvariance, PTL DEF CreateSpec, CodeKept

-----------------------------------------------------------------------------
(* The sections of the draft *)

\* What a section is once it is saved: its numbers are numbers.
SavedForms ==
    {s \in Forms : /\ s.name \in SectionNames /\ s.duration \in 1..300
                   /\ s.marks \in Nat /\ s.penalty \in Nat /\ s.display \in Nat \cup {Blank}}

SavedOK ==
    /\ at \in 1..Required
    /\ saved \in Seq(SavedForms) /\ Len(saved) <= Required /\ at <= Len(saved) + 1
    /\ posting \in Seq(SavedForms)

SectionFlags == editing \in BOOLEAN /\ left \in BOOLEAN /\ cancelled \in BOOLEAN

SectionsInv ==
    /\ form \in Forms /\ SavedOK /\ SectionFlags
    /\ LockedShowsSaved /\ (posting # <<>> => Len(posting) = Required)

LEMMA EmptyFormTyped == EmptyForm \in Forms
  BY DEF EmptyForm, Forms, Types, Number

\* A form that is valid becomes a section that it agrees with, but for marks of 0.
LEMMA NewSectionSound ==
  ASSUME NEW f \in Forms, Valid(f)
  PROVE  /\ NewSection(f) \in SavedForms
         /\ \/ Agrees(f, NewSection(f))
            \/ f.marks = 0 /\ Agrees([f EXCEPT !.marks = 1], NewSection(f))
         /\ NewSection(f).name = f.name /\ NewSection(f).duration = f.duration
<1> DEFINE s == NewSection(f)
<1>0. Blank \notin Nat /\ ZeroText \notin Nat /\ ZeroText # Blank
  BY SectionsAssumption
<1>1. /\ s.name = f.name /\ s.duration = f.duration /\ s.type = f.type
      /\ s.instructions = f.instructions /\ s.display = AsNumber(f.display)
      /\ DOMAIN s = DOMAIN f
  BY DEF NewSection, Forms
<1>2. f.type = "Coding" => s.marks = 0 /\ s.penalty = 0
  BY DEF NewSection, Forms
<1>3. f.type = "MCQ" => s.penalty = IF f.penalty = Blank THEN 0 ELSE AsNumber(f.penalty)
  BY DEF NewSection, Forms
<1>4. f.type = "MCQ" => f.marks # Blank /\ s.marks = IF f.marks = 0 THEN 1 ELSE AsNumber(f.marks)
  BY DEF NewSection, Forms, Valid
<1>5. f.type \in {"MCQ", "Coding"} /\ {f.marks, f.penalty, f.display} \subseteq Number
  BY DEF Forms, Types
<1>6. s.marks \in Nat /\ s.penalty \in Nat /\ s.display \in Nat \cup {Blank}
  BY <1>0, <1>1, <1>2, <1>3, <1>4, <1>5 DEF AsNumber, Number
<1>7. s \in Forms
  <2>1. PICK m, p : s = [f EXCEPT !.marks = m, !.penalty = p, !.display = AsNumber(@)]
    BY DEF NewSection
  <2> HIDE DEF s
  <2>2. s.marks = m /\ s.penalty = p
    BY <2>1 DEF Forms
  <2>3. m \in Number /\ p \in Number /\ AsNumber(f.display) \in Number
    BY <1>1, <1>6, <2>2 DEF Number
  <2> QED
    BY <2>1, <2>3 DEF Forms
<1>8. s.name \in SectionNames /\ s.duration \in 1..300
  BY <1>1 DEF Valid
<1>9. Agrees(f, s) \/ (f.marks = 0 /\ Agrees([f EXCEPT !.marks = 1], s))
  <2> HIDE DEF s
  <2>1. CASE f.type = "Coding"
    BY <1>1, <2>1 DEF Agrees
  <2>2. CASE f.type = "MCQ" /\ f.marks # 0
    BY <1>1, <1>3, <1>4, <2>2 DEF Agrees
  <2>3. CASE f.type = "MCQ" /\ f.marks = 0
    <3> DEFINE g == [f EXCEPT !.marks = 1]
    <3>1. /\ g.name = f.name /\ g.duration = f.duration /\ g.type = f.type
          /\ g.instructions = f.instructions /\ g.display = f.display /\ g.penalty = f.penalty
          /\ g.marks = 1
      BY DEF Forms
    <3>2. AsNumber(1) = 1
      BY <1>0 DEF AsNumber
    <3> HIDE DEF g
    <3>3. Agrees(g, s)
      BY <1>1, <1>3, <1>4, <2>3, <3>1, <3>2 DEF Agrees
    <3> QED
      BY <2>3, <3>3 DEF g
  <2> QED
    BY <1>5, <2>1, <2>2, <2>3
<1> QED
  BY <1>1, <1>6, <1>7, <1>8, <1>9 DEF SavedForms

\* A saved section agrees with itself.
LEMMA SavedAgrees ==
  ASSUME NEW s \in SavedForms
  PROVE  Agrees(s, s)
<1>1. Blank \notin Nat /\ ZeroText \notin Nat /\ ZeroText # Blank
  BY SectionsAssumption
<1>2. s.marks \in Nat /\ s.penalty \in Nat /\ s.display \in Nat \cup {Blank}
  BY DEF SavedForms
<1> QED
  BY <1>1, <1>2 DEF Agrees, AsNumber

LEMMA PayloadSound ==
  ASSUME NEW s \in SavedForms
  PROVE  Payload(s) \in SavedForms
  BY DEF Payload, SavedForms, Forms, Number

LEMMA SectionsInvInit == SectionsInit => SectionsInv
<1> SUFFICES ASSUME SectionsInit PROVE SectionsInv
  OBVIOUS
<1> USE SectionsAssumption DEF SectionsInit
<1>1. form \in Forms /\ SavedOK /\ SectionFlags
  <2>1. SectionFlags
    BY DEF SectionFlags
  <2>2. saved \in Seq(SavedForms) /\ posting \in Seq(SavedForms) /\ Len(saved) = 0
    OBVIOUS
  <2> QED
    BY <2>1, <2>2, EmptyFormTyped DEF SavedOK
<1>2. LockedShowsSaved
  BY DEF LockedShowsSaved, FieldDisabled, CurrentSaved
<1> QED
  BY <1>1, <1>2 DEF SectionsInv

\* Typing into a field that is not locked.
LEMMA TypeStep ==
  ASSUME SectionsInv, NEW f \in Forms, Type(f)
  PROVE  SectionsInv'
<1>1. form' \in Forms /\ SavedOK' /\ SectionFlags'
  BY DEF SectionsInv, Type, SavedOK, SectionFlags
<1>2. LockedShowsSaved'
  BY DEF Type, LockedShowsSaved, FieldDisabled, CurrentSaved
<1> QED
  BY <1>1, <1>2 DEF SectionsInv, Type

\* Another section comes into the form.
LEMMA LoadSectionStep ==
  ASSUME SectionsInv, at' \in 1..Required, at' <= Len(saved) + 1, LoadSection(at', saved),
         UNCHANGED <<saved, posting, left>>
  PROVE  SectionsInv'
<1> USE DEF SectionsInv, LoadSection
<1>1. SavedOK' /\ SectionFlags'
  BY DEF SavedOK, SectionFlags
<1>2. CASE at' <= Len(saved)
  <2>1. saved[at'] \in SavedForms /\ form' = saved[at']
    BY <1>2 DEF SavedOK
  <2>2. form' \in Forms /\ Agrees(form', saved'[at'])
    BY <2>1, SavedAgrees DEF SavedForms
  <2>3. Preview'[at'] = <<form'.name, form'.duration>>
    BY <1>2, <2>1 DEF Preview, SavedOK
  <2> QED
    BY <1>1, <2>2, <2>3 DEF LockedShowsSaved
<1>3. CASE ~(at' <= Len(saved))
  <2>1. form' \in Forms
    BY <1>3, EmptyFormTyped
  <2>2. LockedShowsSaved'
    BY <1>3 DEF LockedShowsSaved, FieldDisabled, CurrentSaved
  <2> QED
    BY <1>1, <2>1, <2>2
<1> QED
  BY <1>2, <1>3

LEMMA SectionsInvStep == SectionsInv /\ [SectionsNext]_sectionVars => SectionsInv'
<1> SUFFICES ASSUME SectionsInv, [SectionsNext]_sectionVars PROVE SectionsInv'
  OBVIOUS
<1> USE DEF SectionsInv
<1>0. Required \in Nat \ {0} /\ Len(saved) \in Nat /\ at \in Nat
  BY SectionsAssumption DEF SavedOK
<1>1. CASE Fields
  <2>1. \E f \in Forms : Type(f)
    <3>1. Marks \cup Penalties \cup Displays \subseteq Number
      BY SectionsAssumption DEF Number
    <3> QED
      BY <1>1, <3>1 DEF Fields, SetName, SetDuration, SetInstructions, SetType, SetMarks,
                        SetPenalty, SetDisplay, Forms, Types
  <2> QED
    BY <2>1, TypeStep
<1>2. CASE ToggleEdit
  <2>1. /\ form' \in Forms /\ SavedOK' /\ UNCHANGED <<form, at, saved, posting, left>>
    BY <1>2 DEF ToggleEdit, SavedOK
  <2>2. editing' \in BOOLEAN /\ cancelled' \in BOOLEAN /\ left' \in BOOLEAN
    BY <1>2, Zenon DEF ToggleEdit, SectionFlags
  <2>3. CurrentSaved /\ (~editing' => cancelled' \/ Agrees(form, saved[at]))
    BY <1>2, Zenon DEF ToggleEdit, SectionFlags
  <2>4. ~editing' => editing
    BY <1>2, Zenon DEF ToggleEdit, SectionFlags
  <2>5. Preview'[at'] = Preview[at]
    BY <2>1 DEF Preview
  <2>6. CurrentSaved => Preview[at] = <<saved[at].name, saved[at].duration>>
    BY <1>0 DEF Preview, CurrentSaved, SavedOK
  <2>7. Agrees(form, saved[at]) =>
           <<form.name, form.duration>> = <<saved[at].name, saved[at].duration>>
    BY DEF Agrees
  <2>8. LockedShowsSaved'
    <3>1. CASE editing'
      BY <3>1 DEF LockedShowsSaved, FieldDisabled
    <3>2. CASE ~editing'
      BY <2>1, <2>3, <2>5, <2>6, <2>7, <3>2 DEF LockedShowsSaved
    <3> QED
      BY <3>1, <3>2
  <2> QED
    BY <2>1, <2>2, <2>8 DEF SectionFlags
<1>3. CASE SaveSection
  <2> DEFINE s == NewSection(form)
  <2>1. /\ s \in SavedForms /\ s.name = form.name /\ s.duration = form.duration
        /\ Agrees(form, s) \/ (form.marks = 0 /\ Agrees([form EXCEPT !.marks = 1], s))
    BY <1>3, NewSectionSound DEF SaveSection
  <2>2. /\ saved' = IF at <= Len(saved) THEN [saved EXCEPT ![at] = s] ELSE Append(saved, s)
        /\ editing' = FALSE /\ cancelled' = FALSE /\ UNCHANGED <<form, at, posting, left>>
    BY <1>3 DEF SaveSection, CurrentSaved
  <2> HIDE DEF s
  <2>3. at > Len(saved) => Len(saved) + 1 <= Required
    BY <1>0 DEF SavedOK
  <2>4. saved' \in Seq(SavedForms) /\ Len(saved') <= Required /\ at <= Len(saved')
          /\ saved'[at] = s
    <3>1. CASE at <= Len(saved)
      BY <1>0, <2>1, <2>2, <3>1 DEF SavedOK
    <3>2. CASE at > Len(saved)
      <4>1. at = Len(saved) + 1
        BY <1>0, <3>2 DEF SavedOK
      <4> QED
        BY <1>0, <2>1, <2>2, <2>3, <3>2, <4>1 DEF SavedOK
    <3> QED
      BY <1>0, <3>1, <3>2
  <2>5. SavedOK' /\ SectionFlags'
    <3>1. Len(saved') \in Nat
      BY <2>4
    <3>2. SectionFlags'
      BY <2>2 DEF SectionFlags
    <3>3. at <= Len(saved') + 1
      BY <1>0, <2>4, <3>1
    <3> QED
      BY <2>2, <2>4, <3>2, <3>3 DEF SavedOK
  <2>6. Preview'[at'] = <<s.name, s.duration>>
    BY <1>0, <2>2, <2>4 DEF Preview, SavedOK
  <2>7. LockedShowsSaved'
    BY <2>1, <2>2, <2>4, <2>6 DEF LockedShowsSaved
  <2> QED
    BY <2>2, <2>5, <2>7
<1>4. CASE Previous
  BY <1>0, <1>4, LoadSectionStep DEF Previous, PreviousButton, SavedOK
<1>5. CASE NextSection
  BY <1>0, <1>5, LoadSectionStep DEF NextSection, NextButton, NextLocked, CurrentSaved, SavedOK
<1>6. CASE Finish
  <2>1. posting' \in Seq(SavedForms) /\ Len(posting') = Required
    <3>1. Len(saved) = Required
      BY <1>0, <1>6 DEF Finish, SavedOK
    <3>2. \A i \in 1..Len(saved) : Payload(saved[i]) \in SavedForms
      BY PayloadSound DEF SavedOK
    <3> QED
      BY <1>0, <1>6, <3>1, <3>2 DEF Finish
  <2> QED
    BY <1>6, <2>1 DEF Finish, SavedOK, SectionFlags, LockedShowsSaved, FieldDisabled, CurrentSaved,
                      Preview
<1>7. CASE FinishAnswered
  BY <1>7 DEF FinishAnswered, SavedOK, SectionFlags, LockedShowsSaved, FieldDisabled, CurrentSaved,
              Preview
<1>8. CASE UNCHANGED sectionVars
  BY <1>8 DEF sectionVars, SavedOK, SectionFlags, LockedShowsSaved, FieldDisabled, CurrentSaved,
              Preview
<1> QED
  BY <1>1, <1>2, <1>3, <1>4, <1>5, <1>6, <1>7, <1>8 DEF SectionsNext

\* The invariant of the sections' form, from which the theorems follow.
THEOREM SectionsInvariance == SectionsSpec => []SectionsInv
  BY SectionsInvInit, SectionsInvStep, PTL DEF SectionsSpec

\* Every variable of the sections' form has its type.
THEOREM SectionsTypes == SectionsSpec => []SectionsTypeOK
<1>1. SectionsInv => SectionsTypeOK
  <2>1. SavedForms \subseteq Forms
    BY DEF SavedForms
  <2> QED
    BY <2>1 DEF SectionsInv, SavedOK, SectionFlags, SectionsTypeOK
<1> QED
  BY <1>1, SectionsInvariance, PTL

\* A locked form shows what is saved, but for a cancelled edit and for marks of 0.
THEOREM SectionsShown == SectionsSpec => []LockedShowsSaved
<1>1. SectionsInv => LockedShowsSaved
  BY DEF SectionsInv
<1> QED
  BY <1>1, SectionsInvariance, PTL

\* What Finish sends is every section of the draft, each one validated.
THEOREM SectionsSent == SectionsSpec => []SentComplete
<1>1. SectionsInv => SentComplete
  BY DEF SectionsInv, SavedOK, SavedForms, SentComplete
<1> QED
  BY <1>1, SectionsInvariance, PTL

-----------------------------------------------------------------------------
(* Questions *)

FieldType == [type : QTypes \cup {"coding"}, filled : SUBSET Parts,
              correct : SUBSET (1..OptionCount), cases : 1..MaxCases, settings : Settings]

\* The type invariant of the page, in parts.
PageOK ==
    /\ screen \in Screens /\ phase \in {"unopened", "loading", "open", "gone"}
    /\ sent \in 0..MaxSubmits /\ writer \in 0..sent
    /\ questions \in Seq(Bodies) /\ inTest \subseteq 1..Len(questions)
    /\ screen.job = "edit" /\ phase # "unopened" => Len(questions) = 1

QuestionFlags ==
    /\ submitting \in BOOLEAN /\ modal \in BOOLEAN /\ knowsLinks \in BOOLEAN
    /\ switched \in BOOLEAN
    /\ modal => knowsLinks

\* A page that has not loaded has neither warned nor sent anything.
NewForm ==
    /\ phase \in {"unopened", "loading"} => sent = 0 /\ ~modal /\ ~knowsLinks
    /\ phase = "unopened" => questions = <<>> /\ screen.job = "add"
    /\ phase = "loading" => screen.job = "edit"

\* One element at most.
AtMostOne(s) == \A i, j \in s : i = j

\* A stored question, or one on its way, that has one right answer if it must.
Right(q) == q.type \in Single /\ ~q.mixed => \E i : q.correct = {i}

LEMMA OneQuestion ==
  ASSUME NEW b \in Bodies
  PROVE  /\ <<b>> \in Seq(Bodies) /\ Len(<<b>>) = 1 /\ <<b>>[1] = b
         /\ Right(b) => \A i \in 1..Len(<<b>>) : Right(<<b>>[i])
<1>1. <<b>> \in Seq(Bodies) /\ Len(<<b>>) = 1 /\ <<b>>[1] = b
  OBVIOUS
<1>2. \A i \in 1..1 : i = 1
  OBVIOUS
<1> QED
  BY <1>1, <1>2

\* A form that can be sent has one right answer if it must; so has what is stored.
TicksOK ==
    /\ fields \in FieldType
    /\ fields.type \in Single /\ ~switched => AtMostOne(fields.correct)
    /\ \A i \in 1..Len(questions) : Right(questions[i])

\* A submit, by its steps: a request that is not carried out has its question, a
\* question that is made is counted, a link that is carried out is in the test.
SubmitOK(n) ==
    /\ submits[n].step = "none" <=> n > sent
    /\ submits[n].step = "none" => submits[n] = Unsent
    /\ submits[n].step \in {"create", "update"} /\ ~submits[n].served =>
          submits[n].body \in Bodies /\ Right(submits[n].body)
    /\ submits[n].step = "update" => screen.job = "edit"
    /\ submits[n].step \in {"create", "link"} => screen.job = "add"
    /\ submits[n].made \in 0..Len(questions)
    /\ submits[n].step = "create" => (submits[n].served <=> submits[n].made # 0)
    /\ submits[n].step = "link" => submits[n].made # 0
    /\ submits[n].step = "link" /\ submits[n].served => submits[n].made \in inTest
    /\ submits[n].page = "ok" =>
          submits[n].served /\ ~(submits[n].step = "create" /\ screen.test)

SubmitsOK ==
    /\ submits \in [Numbers -> SubmitType]
    /\ \A n \in Numbers : SubmitOK(n)

\* Only "Proceed" sends while another submit waits for its answer.
OneAtATime ==
    screen.job = "add" \/ ~knowsLinks =>
        /\ \A m, n \in Numbers : Waiting(m) /\ Waiting(n) => m = n
        /\ \A n \in Numbers : phase = "open" /\ Waiting(n) => submitting
        /\ \A n \in Numbers : ~submits[n].crossed

\* What was not crossed left after all before it had been answered.
NotCrossed ==
    \A m, n \in Numbers :
        m < n /\ n <= sent /\ ~submits[n].crossed => submits[m].page # "waits"

\* Every question of an add page was made by a submit.
AllMade ==
    screen.job = "add" =>
        \A i \in 1..Len(questions) : \E n \in Numbers : submits[n].made = i

\* No update that is carried out is undone, but for the two exceptions.
Stands(n) ==
    \/ writer >= n
    \/ writer # 0 /\ submits[writer].page = "error"
    \/ knowsLinks /\ submits[n].crossed

UpdatesStand ==
    screen.job = "edit" => \A n \in Numbers : submits[n].served => Stands(n)

QuestionsInv ==
    /\ PageOK /\ QuestionFlags /\ NewForm /\ TicksOK
    /\ SubmitsOK /\ OneAtATime /\ NotCrossed /\ AllMade /\ UpdatesStand

LEMMA NoFieldsTyped == NoFields \in FieldType /\ AtMostOne(NoFields.correct)
  BY QuestionsAssumption DEF NoFields, FieldType, AtMostOne, QTypes, Single

\* Some ticks, one of them at most: exactly one.
LEMMA OneTick ==
  ASSUME NEW s, AtMostOne(s), s # {}
  PROVE  \E i : s = {i}
<1>1. PICK i : i \in s
  OBVIOUS
<1>2. s = {i}
  BY <1>1 DEF AtMostOne
<1> QED
  BY <1>2

\* What the page counts is what it ticks.
LEMMA CountedTicks ==
  ASSUME NEW s \in SUBSET (1..OptionCount), ~(Cardinality(s) > 1)
  PROVE  AtMostOne(s)
<1>1. IsFiniteSet(1..OptionCount)
  BY QuestionsAssumption, FS_Interval
<1>2. IsFiniteSet(s)
  BY <1>1, FS_Subset
<1>3. Cardinality(s) \in Nat
  BY <1>2, FS_CardinalityType
<1>4. Cardinality(s) = 0 \/ Cardinality(s) = 1
  BY <1>3
<1>5. s = {} \/ \E x : s = {x}
  BY <1>2, <1>4, FS_EmptySet, FS_Singleton
<1> QED
  BY <1>5 DEF AtMostOne

LEMMA UnsentTyped ==
    /\ Unsent \in SubmitType
    /\ Unsent.step = "none" /\ Unsent.page = "waits" /\ Unsent.made = 0
    /\ ~Unsent.served /\ ~Unsent.crossed
  BY DEF Unsent, SubmitType

LEMMA QuestionsInvInit == QuestionsInit => QuestionsInv
<1> SUFFICES ASSUME QuestionsInit PROVE QuestionsInv
  OBVIOUS
<1> USE DEF QuestionsInit
<1>1. PageOK /\ NewForm
  BY QuestionsAssumption DEF PageOK, NewForm, Screens, Kinds
<1>2. QuestionFlags
  BY DEF QuestionFlags
<1>3. TicksOK
  BY NoFieldsTyped DEF TicksOK
<1>4. \A n \in Numbers : submits[n] = Unsent /\ n > sent
  BY QuestionsAssumption DEF Numbers
<1>5. SubmitsOK
  BY <1>4, UnsentTyped DEF SubmitsOK, SubmitOK
<1>6. OneAtATime /\ UpdatesStand
  BY <1>4, UnsentTyped DEF OneAtATime, UpdatesStand, Waiting
<1>7. NotCrossed
  BY <1>4 DEF NotCrossed, Numbers
<1>8. AllMade
  BY DEF AllMade
<1> QED
  BY <1>1, <1>2, <1>3, <1>5, <1>6, <1>7, <1>8 DEF QuestionsInv

\* Something is typed or ticked.
LEMMA FillStep ==
  ASSUME QuestionsInv, NEW f \in FieldType, FillIn(f), switched' \in BOOLEAN,
         f.type \in Single /\ ~switched' => AtMostOne(f.correct)
  PROVE  QuestionsInv'
<1> USE DEF QuestionsInv, FillIn, pageVars, submitVars, serverVars
<1>1. PageOK' /\ NewForm'
  BY DEF PageOK, NewForm
<1>2. QuestionFlags'
  BY DEF QuestionFlags
<1>3. TicksOK'
  BY DEF TicksOK
<1>4. SubmitsOK'
  BY DEF SubmitsOK, SubmitOK
<1>5. OneAtATime' /\ NotCrossed' /\ AllMade' /\ UpdatesStand'
  BY DEF OneAtATime, NotCrossed, AllMade, UpdatesStand, Stands, Waiting
<1> QED
  BY <1>1, <1>2, <1>3, <1>4, <1>5

\* The controls of a form that leave the ticks alone.
LEMMA PlainEditStep ==
  ASSUME QuestionsInv, NEW f \in FieldType, Edit(f),
         f.type = fields.type, f.correct = fields.correct
  PROVE  QuestionsInv'
<1>1. switched' = switched /\ switched \in BOOLEAN /\ FillIn(f)
  BY DEF Edit, QuestionsInv, QuestionFlags
<1>2. f.type \in Single /\ ~switched => AtMostOne(f.correct)
  BY DEF QuestionsInv, TicksOK
<1> QED
  BY <1>1, <1>2, FillStep

LEMMA FormStep ==
  ASSUME QuestionsInv, AddChoiceForm \/ AddCodingForm \/ EditChoiceForm \/ EditCodingForm
  PROVE  QuestionsInv'
<1>0. fields \in FieldType /\ MaxCases \in Nat /\ OptionCount \in Nat /\ OptionCount >= 2
  BY QuestionsAssumption DEF QuestionsInv, TicksOK
<1>1. ASSUME NEW p \in Parts, NEW b \in BOOLEAN, SetPart(p, b) PROVE QuestionsInv'
  <2> DEFINE f == [fields EXCEPT !.filled = IF b THEN @ \cup {p} ELSE @ \ {p}]
  <2>1. f \in FieldType /\ f.type = fields.type /\ f.correct = fields.correct
    BY <1>0 DEF FieldType
  <2>2. Edit(f)
    BY <1>1 DEF SetPart
  <2> QED
    BY <2>1, <2>2, PlainEditStep
<1>2. ASSUME NEW v \in Settings, SetSettings(v) PROVE QuestionsInv'
  <2> DEFINE f == [fields EXCEPT !.settings = v]
  <2>1. f \in FieldType /\ f.type = fields.type /\ f.correct = fields.correct
    BY <1>0 DEF FieldType
  <2>2. Edit(f)
    BY <1>2 DEF SetSettings
  <2> QED
    BY <2>1, <2>2, PlainEditStep
<1>3. CASE AddTestCase
  <2> DEFINE f == [fields EXCEPT !.cases = @ + 1, !.filled = @ \ {"cases"}]
  <2>1. f \in FieldType /\ f.type = fields.type /\ f.correct = fields.correct
    <3>1. fields.cases + 1 \in 1..MaxCases /\ fields.filled \ {"cases"} \in SUBSET Parts
      BY <1>0, <1>3 DEF FieldType, AddTestCase
    <3> QED
      BY <1>0, <3>1 DEF FieldType
  <2>2. Edit(f)
    BY <1>3 DEF AddTestCase
  <2> QED
    BY <2>1, <2>2, PlainEditStep
<1>4. CASE RemoveTestCase
  <2>1. PICK blank \in SUBSET {"cases"} :
           Edit([fields EXCEPT !.cases = @ - 1, !.filled = @ \cup blank])
    BY <1>4 DEF RemoveTestCase
  <2> DEFINE f == [fields EXCEPT !.cases = @ - 1, !.filled = @ \cup blank]
  <2>2. f \in FieldType /\ f.type = fields.type /\ f.correct = fields.correct
    <3>1. fields.cases - 1 \in 1..MaxCases /\ fields.filled \cup blank \in SUBSET Parts
      BY <1>0, <1>4 DEF FieldType, RemoveTestCase, Parts
    <3> QED
      BY <1>0, <3>1 DEF FieldType
  <2> QED
    BY <2>1, <2>2, PlainEditStep
<1>5. ASSUME NEW i, ToggleCorrect(i) PROVE QuestionsInv'
  <2>1. PICK f : /\ f = [fields EXCEPT !.correct = CASE fields.type \in Single -> {i}
                                           [] fields.type \notin Single /\ i \in @ -> @ \ {i}
                                           [] OTHER -> @ \cup {i}]
                 /\ FillIn(f) /\ switched' = FALSE
    BY <1>5 DEF ToggleCorrect
  <2>2. i \in 1..OptionCount
    BY <1>0, <1>5 DEF ToggleCorrect, OptionsOf
  <2>3. f \in FieldType /\ f.type = fields.type
    BY <1>0, <2>1, <2>2 DEF FieldType
  <2>4. f.type \in Single => AtMostOne(f.correct)
    BY <1>0, <2>1, <2>3 DEF AtMostOne, FieldType
  <2> QED
    BY <2>1, <2>3, <2>4, FillStep
<1>6. ASSUME NEW t \in QTypes, SelectType(t) PROVE QuestionsInv'
  <2>1. PICK f : /\ f = [fields EXCEPT !.type = t,
                  !.filled  = CASE t = "true_false" -> @ \cup {"options"}
                                [] t # "true_false" /\ fields.type = "true_false" -> @ \ {"options"}
                                [] OTHER -> @,
                  !.correct = IF "true_false" \in {t, fields.type} THEN {1} ELSE @]
                 /\ FillIn(f)
    BY <1>6 DEF SelectType
  <2>2. /\ f.type = t
        /\ f.correct = IF "true_false" \in {t, fields.type} THEN {1} ELSE fields.correct
    BY <1>0, <2>1 DEF FieldType
  <2>3. f \in FieldType
    <3>1. PICK p, c : f = [fields EXCEPT !.type = t, !.filled = p, !.correct = c]
      BY <2>1
    <3>2. f.filled = p /\ f.correct = c
      BY <1>0, <3>1 DEF FieldType
    <3>3. p \in SUBSET Parts
      BY <1>0, <2>1, <3>2 DEF FieldType, Parts
    <3>4. c \in SUBSET (1..OptionCount)
      BY <1>0, <2>2, <3>2 DEF FieldType
    <3> QED
      BY <1>0, <3>1, <3>3, <3>4 DEF FieldType
  <2>4. switched' = (t = "mcq" /\ fields.type # "true_false"
                       /\ (switched \/ Cardinality(fields.correct) > 1))
    BY <1>6 DEF SelectType
  <2>5. switched' \in BOOLEAN
    BY <2>4, Zenon
  <2>6. ASSUME t \in Single, ~switched' PROVE AtMostOne(f.correct)
    <3>1. CASE "true_false" \in {t, fields.type}
      BY <2>2, <3>1 DEF AtMostOne
    <3>2. CASE "true_false" \notin {t, fields.type}
      <4>1. t = "mcq" /\ ~(Cardinality(fields.correct) > 1)
        BY <2>4, <2>6, <3>2 DEF Single
      <4>2. AtMostOne(fields.correct)
        BY <1>0, <4>1, CountedTicks DEF FieldType
      <4> QED
        BY <2>2, <3>2, <4>2
    <3> QED
      BY <3>1, <3>2
  <2> QED
    BY <2>1, <2>2, <2>3, <2>5, <2>6, FillStep
<1> QED
  BY <1>1, <1>2, <1>3, <1>4, <1>5, <1>6
     DEF AddChoiceForm, AddCodingForm, EditChoiceForm, EditCodingForm, ChoiceForm, CodingForm,
         Common, SetOption, ChangeTestCase, Parts

\* A page is opened.
LEMMA OpenFormStep ==
  ASSUME QuestionsInv, NEW s \in Screens, OpenQuestion(s)
  PROVE  QuestionsInv'
<1> USE DEF QuestionsInv
<1>0. /\ phase = "unopened" /\ screen' = s /\ questions = <<>> /\ inTest = {} /\ sent = 0
      /\ phase' = IF s.job = "edit" THEN "loading" ELSE "open"
      /\ UNCHANGED <<submitting, modal, knowsLinks, fields, switched, sent, submits, inTest,
                     writer>>
  BY DEF OpenQuestion, NewForm, PageOK, formVars, submitVars
<1>1. \A n \in Numbers : submits[n] = Unsent /\ n > sent
  BY <1>0 DEF SubmitsOK, SubmitOK, Numbers
<1>2. /\ questions' \in Seq(Bodies) /\ Len(questions') \in Nat
      /\ s.job = "edit" => Len(questions') = 1
      /\ s.job # "edit" => questions' = questions
      /\ \A i \in 1..Len(questions') : Right(questions'[i])
  <2>1. CASE s.job = "edit"
    <3>1. PICK q \in Storable(s.kind) : questions' = <<q>>
      BY <2>1 DEF OpenQuestion
    <3>2. q \in Bodies
      <4>1. {1} \in SUBSET (1..OptionCount)
        BY QuestionsAssumption
      <4>2. CASE s.kind = "coding"
        <5>1. PICK key \in {"input", "text"} : q = Stored(key, "coding", {1}, FALSE)
          BY <3>1, <4>2 DEF Storable
        <5> QED
          BY <4>1, <5>1 DEF Stored, Bodies
      <4>3. CASE s.kind # "coding"
        BY <3>1, <4>3 DEF Storable
      <4> QED
        BY <4>2, <4>3
    <3>3. Right(q)
      <4>1. CASE s.kind = "coding"
        BY <3>1, <4>1 DEF Storable, Stored, Right, Single
      <4>2. CASE s.kind # "coding" /\ q.type \in Single /\ ~q.mixed
        <5>1. /\ q.correct # {} /\ q.correct \in SUBSET (1..OptionCount)
              /\ q.mixed <=> q.type = "mcq" /\ Cardinality(q.correct) > 1
              /\ q.type = "true_false" => Cardinality(q.correct) = 1
          BY <3>1, <3>2, <4>2 DEF Storable, Bodies
        <5>2. ~(Cardinality(q.correct) > 1)
          BY <4>2, <5>1 DEF Single
        <5> QED
          BY <5>1, <5>2, CountedTicks, OneTick DEF Right
      <4>3. CASE s.kind # "coding" /\ ~(q.type \in Single /\ ~q.mixed)
        BY <4>3 DEF Right
      <4> QED
        BY <4>1, <4>2, <4>3
    <3> HIDE DEF Storable
    <3> QED
      BY <2>1, <3>1, <3>2, <3>3, OneQuestion
  <2>2. CASE s.job # "edit"
    BY <1>0, <2>2 DEF OpenQuestion, PageOK
  <2> QED
    BY <2>1, <2>2
<1>3. PageOK' /\ NewForm'
  BY <1>0, <1>2 DEF PageOK, NewForm, Screens
<1>4. TicksOK' /\ QuestionFlags'
  BY <1>0, <1>2 DEF TicksOK, QuestionFlags
<1>5. SubmitsOK'
  BY <1>0, <1>1, <1>2, UnsentTyped DEF SubmitsOK, SubmitOK
<1>6. OneAtATime' /\ NotCrossed' /\ UpdatesStand'
  BY <1>0, <1>1, UnsentTyped DEF OneAtATime, NotCrossed, UpdatesStand, Waiting
<1>7. AllMade'
  BY <1>0, <1>2 DEF AllMade, Screens
<1> QED
  BY <1>3, <1>4, <1>5, <1>6, <1>7

\* The question that an edit page loads.
LEMMA LoadedQuestion ==
  ASSUME NEW s \in Seq(Bodies), Len(s) = 1
  PROVE  1 \in 1..Len(s) /\ s[1] \in Bodies
  OBVIOUS

\* The form is filled with the question, or is not.
LEMMA LoadedStep ==
  ASSUME QuestionsInv, LoadChoice \/ LoadCoding \/ LoadFails
  PROVE  QuestionsInv'
<1> USE DEF QuestionsInv
<1>0. /\ phase = "loading" /\ phase' = "open" /\ screen.job = "edit" /\ sent = 0
      /\ Len(questions) = 1 /\ ~modal
      /\ UNCHANGED <<screen, submitting, modal, sent, submits, questions, inTest, writer>>
  BY DEF LoadChoice, LoadCoding, LoadFails, LoadQuestion, NewForm, PageOK, submitVars, serverVars
<1>q. questions[1] \in Bodies /\ Right(questions[1])
  <2>1. questions \in Seq(Bodies)
    BY DEF PageOK
  <2>2. 1 \in 1..Len(questions) /\ questions[1] \in Bodies
    BY <1>0, <2>1, LoadedQuestion
  <2> QED
    BY <2>2 DEF TicksOK
<1>1. knowsLinks' \in BOOLEAN /\ switched' \in BOOLEAN
  <2>1. questions[1].mixed \in BOOLEAN
    BY <1>q DEF Bodies
  <2>2. knowsLinks' \in BOOLEAN /\ switched' \in {questions[1].mixed, FALSE, switched}
    BY DEF LoadChoice, LoadCoding, LoadFails, LoadQuestion, QuestionFlags, formVars
  <2> QED
    BY <2>1, <2>2 DEF QuestionFlags
<1>2. /\ fields' \in FieldType
      /\ fields'.type \in Single /\ ~switched' => AtMostOne(fields'.correct)
  <2>1. CASE LoadChoice
    <3>1. PICK p \in SUBSET Parts :
             fields' = [NoFields EXCEPT !.type = questions[1].type,
                                        !.correct = questions[1].correct, !.filled = p]
      BY <2>1 DEF LoadChoice, LoadQuestion, Needed, Parts
    <3>2. /\ fields'.type = questions[1].type /\ fields'.correct = questions[1].correct
          /\ fields' \in FieldType
      BY <1>q, <3>1, NoFieldsTyped DEF FieldType, Bodies
    <3>3. switched' = questions[1].mixed
      BY <2>1 DEF LoadChoice, LoadQuestion
    <3> QED
      BY <1>q, <3>2, <3>3 DEF Right, AtMostOne
  <2>2. CASE LoadCoding
    <3>1. fields' = [NoFields EXCEPT !.type = "coding", !.filled = {"content"}]
      BY <2>2 DEF LoadCoding, LoadQuestion
    <3> QED
      BY <3>1, NoFieldsTyped DEF FieldType, Parts, Single
  <2>3. CASE LoadFails
    BY <2>3 DEF LoadFails, TicksOK, formVars
  <2> QED
    BY <2>1, <2>2, <2>3
<1>3. \A n \in Numbers : submits[n] = Unsent /\ n > sent
  BY <1>0 DEF SubmitsOK, SubmitOK, Numbers
<1>4. PageOK' /\ NewForm'
  BY <1>0 DEF PageOK, NewForm
<1>5. QuestionFlags' /\ TicksOK'
  BY <1>0, <1>1, <1>2 DEF QuestionFlags, TicksOK
<1>6. SubmitsOK'
  BY <1>0 DEF SubmitsOK, SubmitOK
<1>7. OneAtATime' /\ NotCrossed' /\ AllMade' /\ UpdatesStand'
  BY <1>0, <1>3, UnsentTyped DEF OneAtATime, NotCrossed, AllMade, UpdatesStand, Waiting
<1> QED
  BY <1>4, <1>5, <1>6, <1>7

\* The page is left, or its modal is shown or closed: what is under way goes on.
LEMMA PageStep ==
  ASSUME QuestionsInv,
         LeaveQuestion \/ (ShowWarning /\ knowsLinks) \/ (\E kind : CancelWarning(kind))
  PROVE  QuestionsInv'
<1> USE DEF QuestionsInv
<1>0. /\ phase' \in {phase, "gone"} /\ modal' \in BOOLEAN /\ (modal' => knowsLinks)
      /\ (phase' = "open" => UNCHANGED submitting) /\ submitting' \in BOOLEAN
      /\ UNCHANGED <<screen, knowsLinks, sent, submits, questions, inTest, writer>>
      /\ UNCHANGED <<fields, switched>> \/ (fields' = NoFields /\ switched' = FALSE)
      /\ modal' => phase = "open" \/ phase' = "gone"
  BY DEF LeaveQuestion, ShowWarning, CancelWarning, QuestionFlags, pageVars, formVars, submitVars,
         serverVars
<1>1. PageOK' /\ NewForm'
  BY <1>0 DEF PageOK, NewForm
<1>2. QuestionFlags'
  BY <1>0 DEF QuestionFlags
<1>3. TicksOK'
  BY <1>0, NoFieldsTyped DEF TicksOK
<1>4. SubmitsOK'
  BY <1>0 DEF SubmitsOK, SubmitOK
<1>5. OneAtATime' /\ NotCrossed' /\ AllMade' /\ UpdatesStand'
  BY <1>0 DEF OneAtATime, NotCrossed, AllMade, UpdatesStand, Stands, Waiting
<1> QED
  BY <1>1, <1>2, <1>3, <1>4, <1>5

\* A request leaves.
LEMMA SendStep ==
  ASSUME QuestionsInv, NEW step \in {"create", "update"}, NEW type \in QTypes \cup {"coding"},
         NEW key \in {"input", "text"}, Send(step, type, key),
         type = "coding" \/ (type = fields.type /\ fields.correct # {}),
         step = "create" <=> screen.job = "add",
         ~submitting \/ (screen.job = "edit" /\ modal)
  PROVE  QuestionsInv'
<1> DEFINE b == Stored(key, type, fields.correct, switched)
           c == \E m \in Numbers : Waiting(m)
           r == [Unsent EXCEPT !.step = step, !.body = b, !.crossed = c]
           k == sent + 1
<1> USE DEF QuestionsInv
<1>0. /\ phase = "open" /\ sent < MaxSubmits /\ sent' = k /\ submitting' = TRUE
      /\ submits' = [submits EXCEPT ![k] = r]
      /\ UNCHANGED <<screen, phase, modal, knowsLinks, fields, switched, questions, inTest, writer>>
  BY DEF Send, formVars, serverVars
<1>1. b \in Bodies /\ Right(b)
  <2>1. b \in Bodies /\ b.type = type /\ b.correct = fields.correct /\ b.mixed = switched
    BY DEF Bodies, Stored, TicksOK, FieldType, QuestionFlags
  <2>2. CASE type = "coding"
    BY <2>1, <2>2 DEF Right, Single
  <2>3. CASE type = fields.type /\ fields.correct # {}
    BY <2>1, <2>3, OneTick DEF Right, TicksOK
  <2> QED
    BY <2>1, <2>2, <2>3
<1>2. /\ r \in SubmitType /\ r.step = step /\ r.body = b /\ r.crossed = c /\ ~r.served
      /\ r.page = "waits" /\ r.made = 0 /\ c \in BOOLEAN
  BY <1>1 DEF Unsent, SubmitType
<1>3. /\ k \in Numbers /\ sent \in Nat /\ k \in Nat
      /\ submits \in [Numbers -> SubmitType] /\ submits' \in [Numbers -> SubmitType]
      /\ submits'[k] = r /\ \A n \in Numbers : n # k => submits'[n] = submits[n]
  BY <1>0, <1>2, QuestionsAssumption DEF PageOK, Numbers, SubmitsOK
<1> HIDE DEF r, b
<1>4. PageOK' /\ NewForm' /\ TicksOK'
  <2>1. sent' \in 0..MaxSubmits /\ writer' \in 0..sent'
    BY <1>0, <1>3, QuestionsAssumption DEF PageOK
  <2>2. PageOK'
    BY <1>0, <2>1 DEF PageOK
  <2>3. NewForm' /\ TicksOK'
    BY <1>0 DEF NewForm, TicksOK
  <2> QED
    BY <2>2, <2>3
<1>5. QuestionFlags'
  BY <1>0 DEF QuestionFlags
<1>6. SubmitsOK'
  <2>1. ASSUME NEW n \in Numbers, n # k PROVE SubmitOK(n)'
    BY <1>0, <1>3, <2>1 DEF SubmitsOK, SubmitOK, Numbers, PageOK
  <2>2. ASSUME NEW n \in Numbers, n = k PROVE SubmitOK(n)'
    <3>1. /\ screen.job \in {"add", "edit"}
          /\ Len(questions) \in Nat
      <4>1. screen \in Screens /\ questions \in Seq(Bodies)
        BY DEF PageOK
      <4>2. screen.job \in {"add", "edit"}
        BY <4>1 DEF Screens
      <4> QED
        BY <4>1, <4>2
    <3>2. /\ submits'[n].step = step /\ submits'[n].body = b /\ ~submits'[n].served
          /\ submits'[n].page = "waits" /\ submits'[n].made = 0 /\ ~(n > sent')
          /\ screen' = screen /\ questions' = questions
      BY <1>0, <1>2, <1>3, <2>2
    <3> QED
      BY <1>1, <3>1, <3>2 DEF SubmitOK
  <2>3. \A n \in Numbers : SubmitOK(n)'
    BY <2>1, <2>2
  <2> QED
    BY <1>3, <2>3 DEF SubmitsOK
<1>7. \A n \in Numbers : Waiting(n)' <=> n = k \/ Waiting(n)
  BY <1>2, <1>3 DEF Waiting
<1>8. OneAtATime'
  <2> SUFFICES ASSUME screen.job = "add" \/ ~knowsLinks PROVE OneAtATime'
    BY <1>0 DEF OneAtATime
  <2>1. ~submitting
    BY DEF QuestionFlags, Screens, PageOK
  <2>2. ~c
    BY <1>0, <2>1 DEF OneAtATime
  <2> QED
    BY <1>0, <1>2, <1>3, <1>7, <2>2 DEF OneAtATime
<1>9. NotCrossed'
  <2> SUFFICES ASSUME NEW m \in Numbers, NEW n \in Numbers,
                      m < n, n <= k, ~submits'[n].crossed
               PROVE  submits'[m].page # "waits"
    BY <1>0 DEF NotCrossed
  <2>1. m # k /\ submits'[m] = submits[m] /\ m \in Nat /\ n \in Nat
    BY <1>3 DEF Numbers
  <2>2. CASE n = k
    <3>1. ~c
      BY <1>2, <1>3, <2>2
    <3>2. ~Waiting(m)
      BY <3>1
    <3>3. ~(m > sent) /\ SubmitOK(m)
      BY <1>3, <2>1, <2>2 DEF SubmitsOK
    <3>4. submits[m].step # "none"
      BY <3>3 DEF SubmitOK
    <3> QED
      BY <2>1, <3>2, <3>4 DEF Waiting
  <2>3. CASE n # k
    BY <1>3, <2>1, <2>3 DEF NotCrossed
  <2> QED
    BY <2>2, <2>3
<1>10. AllMade'
  <2> SUFFICES ASSUME screen.job = "add", NEW i \in 1..Len(questions)
               PROVE  \E n \in Numbers : submits'[n].made = i
    BY <1>0 DEF AllMade
  <2>1. PICK n \in Numbers : submits[n].made = i
    BY DEF AllMade
  <2>2. n # k
    BY <1>3, <2>1, UnsentTyped DEF SubmitsOK, SubmitOK
  <2> QED
    BY <1>3, <2>1, <2>2
<1>11. UpdatesStand'
  <2> SUFFICES ASSUME screen.job = "edit", NEW n \in Numbers, submits'[n].served
               PROVE  Stands(n)'
    BY <1>0 DEF UpdatesStand
  <2>1. n # k /\ Stands(n) /\ submits'[n] = submits[n]
    BY <1>2, <1>3 DEF UpdatesStand
  <2>2. writer # 0 => submits'[writer] = submits[writer]
    BY <1>0, <1>3 DEF PageOK, Numbers
  <2> QED
    BY <1>0, <2>1, <2>2 DEF Stands
<1> QED
  BY <1>4, <1>5, <1>6, <1>8, <1>9, <1>10, <1>11

LEMMA SaveStep ==
  ASSUME QuestionsInv,
         SubmitChoice \/ SubmitCoding \/ SaveChoice \/ SaveCoding \/ ChoiceWarning \/ CodingWarning
  PROVE  QuestionsInv'
<1>0. fields.type \in QTypes \cup {"coding"}
  BY DEF QuestionsInv, TicksOK, FieldType
<1>1. CASE (ShowWarning /\ knowsLinks) \/ \E kind : CancelWarning(kind)
  BY <1>1, PageStep
<1>2. CASE SubmitChoice \/ SubmitCoding
  BY <1>0, <1>2, SendStep DEF SubmitChoice, SubmitCoding, On, ChoiceValid
<1>3. CASE (SaveChoice \/ SaveCoding) /\ ~(knowsLinks /\ ~modal)
  BY <1>0, <1>3, SendStep DEF SaveChoice, SaveCoding, On, ChoiceValid
<1>4. CASE (ChoiceWarning \/ CodingWarning) /\ ~\E kind : CancelWarning(kind)
  BY <1>0, <1>4, SendStep DEF ChoiceWarning, CodingWarning, On, ChoiceValid
<1> QED
  BY <1>1, <1>2, <1>3, <1>4 DEF SaveChoice, SaveCoding

\* A request is carried out: what changes is its submit.
LEMMA CarriedStep ==
  ASSUME QuestionsInv, NEW n \in Numbers, NEW made \in Nat, Carried(n, made)
  PROVE  /\ submits' \in [Numbers -> SubmitType]
         /\ submits'[n] = [submits[n] EXCEPT !.served = TRUE, !.body = NoRequest, !.made = made]
         /\ submits[n] \in SubmitType
         /\ submits'[n].step = submits[n].step /\ submits'[n].page = submits[n].page
         /\ submits'[n].crossed = submits[n].crossed /\ submits'[n].made = made
         /\ submits'[n].served
         /\ \A m \in Numbers : m # n => submits'[m] = submits[m]
  BY DEF Carried, QuestionsInv, SubmitsOK, SubmitType

LEMMA ServeCreateStep ==
  ASSUME QuestionsInv, NEW n \in Numbers, ServeCreate(n)
  PROVE  QuestionsInv'
<1> USE DEF QuestionsInv
<1> DEFINE b == submits[n].body
           k == Len(questions) + 1
<1>0. /\ submits[n].step = "create" /\ ~submits[n].served /\ questions' = Append(questions, b)
      /\ Carried(n, k)
      /\ UNCHANGED <<screen, phase, submitting, modal, knowsLinks, fields, switched, sent, inTest,
                     writer>>
  BY DEF ServeCreate, pageVars, formVars
<1>1. /\ b \in Bodies /\ Right(b) /\ screen.job = "add" /\ n <= sent
      /\ questions \in Seq(Bodies) /\ Len(questions) \in Nat /\ k \in Nat
  BY <1>0 DEF SubmitsOK, SubmitOK, PageOK, Numbers
<1>2. /\ submits' \in [Numbers -> SubmitType] /\ submits'[n].step = "create"
      /\ submits'[n].page = submits[n].page
      /\ submits'[n].crossed = submits[n].crossed /\ submits'[n].made = k /\ submits'[n].served
      /\ \A m \in Numbers : m # n => submits'[m] = submits[m]
  BY <1>0, <1>1, CarriedStep
<1> HIDE DEF b
<1>3. /\ questions' \in Seq(Bodies) /\ Len(questions') = k
      /\ \A i \in 1..Len(questions) : questions'[i] = questions[i]
      /\ questions'[k] = b
  BY <1>0, <1>1
<1>4. PageOK' /\ NewForm' /\ QuestionFlags'
  <2>1. phase \notin {"unopened", "loading"} /\ screen.job # "edit"
    BY <1>1 DEF NewForm, Numbers
  <2>2. inTest' \subseteq 1..Len(questions')
    BY <1>0, <1>1, <1>3 DEF PageOK
  <2> QED
    BY <1>0, <1>3, <2>1, <2>2 DEF PageOK, NewForm, QuestionFlags
<1>5. TicksOK'
  <2>1. ASSUME NEW i \in 1..k PROVE Right(questions'[i])
    BY <1>1, <1>3 DEF TicksOK
  <2> QED
    BY <1>0, <1>3, <2>1 DEF TicksOK
<1>6. SubmitsOK'
  <2>1. ASSUME NEW m \in Numbers, m # n PROVE SubmitOK(m)'
    BY <1>0, <1>1, <1>2, <1>3, <2>1 DEF SubmitsOK, SubmitOK
  <2>2. SubmitOK(n)'
    <3>1. SubmitOK(n)
      BY DEF SubmitsOK
    <3>2. submits[n].page # "ok"
      BY <1>0, <3>1 DEF SubmitOK
    <3> QED
      BY <1>0, <1>1, <1>2, <1>3, <3>1, <3>2 DEF SubmitOK, Numbers, PageOK
  <2> QED
    BY <1>2, <2>1, <2>2 DEF SubmitsOK
<1>7. OneAtATime' /\ NotCrossed'
  <2>1. \A m \in Numbers : /\ Waiting(m)' <=> Waiting(m)
                           /\ submits'[m].crossed = submits[m].crossed
                           /\ submits'[m].page = submits[m].page
    BY <1>0, <1>2 DEF Waiting
  <2> QED
    BY <1>0, <2>1 DEF OneAtATime, NotCrossed
<1>8. AllMade'
  <2> SUFFICES ASSUME NEW i \in 1..k PROVE \E m \in Numbers : submits'[m].made = i
    BY <1>3 DEF AllMade
  <2>1. CASE i = k
    BY <1>2, <2>1
  <2>2. CASE i # k
    <3>1. PICK m \in Numbers : submits[m].made = i
      BY <1>1, <2>2 DEF AllMade
    <3>3. CASE m # n
      BY <1>2, <3>1, <3>3
    <3>4. CASE m = n
      BY <1>0, <3>1, <3>4 DEF SubmitsOK, SubmitOK
    <3> QED
      BY <3>3, <3>4
  <2> QED
    BY <2>1, <2>2
<1>9. UpdatesStand'
  BY <1>0, <1>1 DEF UpdatesStand
<1> QED
  BY <1>4, <1>5, <1>6, <1>7, <1>8, <1>9

LEMMA ServeLinkStep ==
  ASSUME QuestionsInv, NEW n \in Numbers, ServeLink(n)
  PROVE  QuestionsInv'
<1> USE DEF QuestionsInv
<1> DEFINE k == submits[n].made
<1>0. /\ submits[n].step = "link" /\ ~submits[n].served /\ inTest' = inTest \cup {k}
      /\ Carried(n, k)
      /\ UNCHANGED <<screen, phase, submitting, modal, knowsLinks, fields, switched, sent,
                     questions, writer>>
  BY DEF ServeLink, pageVars, formVars
<1>1. /\ SubmitOK(n) /\ screen.job = "add" /\ n <= sent /\ Len(questions) \in Nat
      /\ k \in 1..Len(questions) /\ submits[n].page # "ok"
  BY <1>0 DEF SubmitsOK, SubmitOK, PageOK, Numbers
<1>2. /\ submits' \in [Numbers -> SubmitType] /\ submits'[n].step = "link"
      /\ submits'[n].page = submits[n].page
      /\ submits'[n].crossed = submits[n].crossed /\ submits'[n].made = k /\ submits'[n].served
      /\ \A m \in Numbers : m # n => submits'[m] = submits[m]
  <2>1. k \in Nat
    BY DEF SubmitsOK, SubmitType
  <2> QED
    BY <1>0, <1>1, <2>1, CarriedStep
<1>3. PageOK' /\ NewForm' /\ QuestionFlags' /\ TicksOK'
  BY <1>0, <1>1 DEF PageOK, NewForm, QuestionFlags, TicksOK
<1>4. SubmitsOK'
  <2>1. ASSUME NEW m \in Numbers, m # n PROVE SubmitOK(m)'
    BY <1>0, <1>2, <2>1 DEF SubmitsOK, SubmitOK
  <2>2. SubmitOK(n)'
    BY <1>0, <1>1, <1>2 DEF SubmitOK
  <2> QED
    BY <1>2, <2>1, <2>2 DEF SubmitsOK
<1>5. OneAtATime' /\ NotCrossed'
  <2>1. \A m \in Numbers : /\ Waiting(m)' <=> Waiting(m)
                           /\ submits'[m].crossed = submits[m].crossed
                           /\ submits'[m].page = submits[m].page
    BY <1>0, <1>2 DEF Waiting
  <2> QED
    BY <1>0, <2>1 DEF OneAtATime, NotCrossed
<1>6. AllMade'
  <2>1. \A m \in Numbers : submits'[m].made = submits[m].made
    BY <1>2
  <2> QED
    BY <1>0, <2>1 DEF AllMade
<1>7. UpdatesStand'
  BY <1>0, <1>1 DEF UpdatesStand
<1> QED
  BY <1>3, <1>4, <1>5, <1>6, <1>7

\* An update is carried out: an earlier one that it passes had been answered with an
\* error, or "Proceed" was pressed again.
LEMMA ServeUpdateStep ==
  ASSUME QuestionsInv, NEW n \in Numbers, ServeUpdate(n)
  PROVE  QuestionsInv'
<1> USE DEF QuestionsInv
<1> DEFINE b == submits[n].body
           k == submits[n].made
<1>0. /\ submits[n].step = "update" /\ ~submits[n].served /\ writer' = n
      /\ questions' \in {<<b>>, questions}
      /\ Carried(n, k)
      /\ UNCHANGED <<screen, phase, submitting, modal, knowsLinks, fields, switched, sent, inTest>>
  BY DEF ServeUpdate, pageVars, formVars
<1>1. /\ SubmitOK(n) /\ b \in Bodies /\ Right(b) /\ screen.job = "edit" /\ n <= sent
      /\ questions \in Seq(Bodies) /\ k \in 0..Len(questions)
      /\ n \in Nat /\ sent \in Nat /\ n # 0
  BY <1>0, QuestionsAssumption DEF SubmitsOK, SubmitOK, PageOK, Numbers
<1>2. phase \notin {"unopened", "loading"} /\ Len(questions) = 1
  BY <1>1 DEF NewForm, PageOK
<1>3. /\ submits' \in [Numbers -> SubmitType] /\ submits'[n].step = "update"
      /\ submits'[n].page = submits[n].page
      /\ submits'[n].crossed = submits[n].crossed /\ submits'[n].made = k /\ submits'[n].served
      /\ \A m \in Numbers : m # n => submits'[m] = submits[m]
  <2>1. k \in Nat
    BY DEF SubmitsOK, SubmitType
  <2> QED
    BY <1>0, <1>1, <2>1, CarriedStep
<1> HIDE DEF b
<1>4. /\ questions' \in Seq(Bodies) /\ Len(questions') = 1
      /\ \A i \in 1..Len(questions') : Right(questions'[i])
  <2>1. CASE questions' = <<b>>
    BY <1>1, <2>1, OneQuestion
  <2>2. CASE questions' = questions
    BY <1>1, <1>2, <2>2 DEF TicksOK
  <2> QED
    BY <1>0, <2>1, <2>2
<1>5. PageOK' /\ NewForm' /\ QuestionFlags' /\ TicksOK'
  <2>1. writer' \in 0..sent' /\ inTest' \subseteq 1..Len(questions')
    BY <1>0, <1>1, <1>2, <1>4 DEF PageOK
  <2>2. PageOK'
    BY <1>0, <1>4, <2>1 DEF PageOK
  <2> QED
    BY <1>0, <1>2, <1>4, <2>2 DEF NewForm, QuestionFlags, TicksOK
<1>6. SubmitsOK'
  <2>1. ASSUME NEW m \in Numbers, m # n PROVE SubmitOK(m)'
    BY <1>0, <1>2, <1>3, <1>4, <2>1 DEF SubmitsOK, SubmitOK
  <2>2. SubmitOK(n)'
    BY <1>0, <1>1, <1>2, <1>3, <1>4 DEF SubmitOK
  <2> QED
    BY <1>3, <2>1, <2>2 DEF SubmitsOK
<1>7. \A m \in Numbers : /\ Waiting(m)' <=> Waiting(m)
                         /\ submits'[m].crossed = submits[m].crossed
                         /\ submits'[m].page = submits[m].page
  BY <1>0, <1>3 DEF Waiting
<1>8. OneAtATime' /\ NotCrossed'
  BY <1>0, <1>7 DEF OneAtATime, NotCrossed
<1>9. AllMade'
  BY <1>0, <1>1 DEF AllMade
<1>10. UpdatesStand'
  <2> SUFFICES ASSUME NEW m \in Numbers, submits'[m].served PROVE Stands(m)'
    BY DEF UpdatesStand
  <2>0. m \in Nat
    BY DEF Numbers
  <2>1. CASE m <= n
    BY <1>0, <1>1, <2>0, <2>1 DEF Stands
  <2>2. CASE n < m /\ submits[m].crossed
    <3>1. knowsLinks
      BY <2>2 DEF OneAtATime
    <3> QED
      BY <1>0, <1>7, <2>2, <3>1 DEF Stands
  <2>3. CASE n < m /\ ~submits[m].crossed
    <3>1. submits'[m] = submits[m] /\ m <= sent
      <4>1. submits'[m] = submits[m]
        BY <1>1, <1>3, <2>0, <2>3
      <4>2. submits[m].served /\ SubmitOK(m)
        BY <4>1 DEF SubmitsOK
      <4> QED
        BY <1>1, <2>0, <4>1, <4>2, UnsentTyped DEF SubmitOK
    <3>2. submits[n].page # "waits" /\ submits[n].page # "ok"
      BY <1>0, <1>1, <2>3, <3>1 DEF NotCrossed, SubmitOK
    <3>3. submits[n].page = "error"
      BY <3>2 DEF SubmitsOK, SubmitType
    <3> QED
      BY <1>0, <1>1, <1>7, <3>3 DEF Stands
  <2> QED
    BY <1>1, <2>0, <2>1, <2>2, <2>3
<1> QED
  BY <1>5, <1>6, <1>8, <1>9, <1>10

\* The page gets on: with the link, with the router, or with an error.
LEMMA SubmitAnswerStep ==
  ASSUME QuestionsInv, NEW n \in Numbers, LinkCreated(n) \/ SubmitAnswered(n) \/ Error(n)
  PROVE  QuestionsInv'
<1> USE DEF QuestionsInv
<1>0. /\ Waiting(n)
      /\ UNCHANGED <<screen, phase, knowsLinks, fields, switched, sent, questions, inTest, writer>>
      /\ submits \in [Numbers -> SubmitType] /\ SubmitOK(n)
  BY DEF LinkCreated, SubmitAnswered, Error, Finally, formVars, serverVars, pageVars, SubmitsOK
<1>1. /\ submits' \in [Numbers -> SubmitType]
      /\ submits'[n].made = submits[n].made /\ submits'[n].crossed = submits[n].crossed
      /\ submits'[n].body = submits[n].body
      /\ \A m \in Numbers : m # n => submits'[m] = submits[m]
  <2>1. CASE LinkCreated(n)
    BY <1>0, <2>1 DEF LinkCreated, SubmitType
  <2>2. CASE SubmitAnswered(n) \/ Error(n)
    BY <1>0, <2>2 DEF SubmitAnswered, Error, SubmitType
  <2> QED
    BY <2>1, <2>2
<1>2. \/ /\ UNCHANGED <<submitting, modal>>
         /\ submits'[n].step = "link" /\ ~submits'[n].served /\ submits'[n].page = "waits"
         /\ submits[n].step = "create" /\ submits[n].served
      \/ /\ ~submitting' /\ ~modal' /\ submitting' \in BOOLEAN /\ modal' \in BOOLEAN
         /\ submits'[n].step = submits[n].step /\ submits'[n].served = submits[n].served
         /\ \/ submits'[n].page = "error"
            \/ /\ submits'[n].page = "ok"
               /\ submits[n].served /\ ~(submits[n].step = "create" /\ screen.test)
  <2>1. CASE LinkCreated(n)
    BY <1>0, <2>1 DEF LinkCreated, SubmitType, Waiting, pageVars
  <2>2. CASE SubmitAnswered(n)
    BY <1>0, <2>2 DEF SubmitAnswered, Finally, SubmitType
  <2>3. CASE Error(n)
    BY <1>0, <2>3 DEF Error, Finally, SubmitType
  <2> QED
    BY <2>1, <2>2, <2>3
<1>3. PageOK' /\ NewForm' /\ TicksOK'
  <2>1. phase \notin {"unopened", "loading"}
    BY <1>0 DEF NewForm, Waiting, SubmitOK, Numbers
  <2> QED
    BY <1>0, <2>1 DEF PageOK, NewForm, TicksOK
<1>4. QuestionFlags'
  BY <1>0, <1>2 DEF QuestionFlags
<1>5. SubmitsOK'
  <2>1. ASSUME NEW m \in Numbers, m # n PROVE SubmitOK(m)'
    BY <1>0, <1>1, <2>1 DEF SubmitsOK, SubmitOK
  <2>2. SubmitOK(n)'
    <3>1. submits[n].step # "none" /\ submits[n].page = "waits"
      BY <1>0 DEF Waiting
    <3> QED
      BY <1>0, <1>1, <1>2, <3>1 DEF SubmitOK
  <2> QED
    BY <1>1, <2>1, <2>2 DEF SubmitsOK
<1>6. \A m \in Numbers : /\ Waiting(m)' => Waiting(m)
                         /\ submits'[m].crossed = submits[m].crossed
                         /\ submits'[m].made = submits[m].made
                         /\ submits[m].page # "waits" => submits'[m].page = submits[m].page
  BY <1>0, <1>1 DEF Waiting
<1>7. OneAtATime'
  <2> SUFFICES ASSUME screen.job = "add" \/ ~knowsLinks PROVE OneAtATime'
    BY <1>0 DEF OneAtATime
  <2>1. /\ \A l, m \in Numbers : Waiting(l)' /\ Waiting(m)' => l = m
        /\ \A m \in Numbers : ~submits'[m].crossed
        /\ \A m \in Numbers : Waiting(m) => m = n
    BY <1>0, <1>6 DEF OneAtATime
  <2>2. ASSUME NEW m \in Numbers, phase = "open", Waiting(m)' PROVE submitting'
    <3>1. m = n
      BY <1>6, <2>1, <2>2
    <3>2. submits'[n].page = "waits" /\ submitting
      BY <1>0, <2>2, <3>1 DEF Waiting, OneAtATime
    <3> QED
      BY <1>2, <3>2
  <2> QED
    BY <1>0, <2>1, <2>2 DEF OneAtATime
<1>8. NotCrossed'
  BY <1>0, <1>6 DEF NotCrossed
<1>9. AllMade'
  BY <1>0, <1>6 DEF AllMade
<1>10. UpdatesStand'
  <2> SUFFICES ASSUME screen.job = "edit", NEW m \in Numbers, submits'[m].served
               PROVE  Stands(m)'
    BY <1>0 DEF UpdatesStand
  <2>1. submits[m].served
    BY <1>1, <1>2
  <2>2. Stands(m)
    BY <2>1 DEF UpdatesStand
  <2>3. writer # 0 /\ submits[writer].page = "error" => submits'[writer].page = "error"
    BY <1>6, QuestionsAssumption DEF PageOK, Numbers
  <2> QED
    BY <1>0, <1>6, <2>2, <2>3 DEF Stands
<1> QED
  BY <1>3, <1>4, <1>5, <1>7, <1>8, <1>9, <1>10

LEMMA QuestionsInvStep == QuestionsInv /\ [QuestionsNext]_questionVars => QuestionsInv'
<1> SUFFICES ASSUME QuestionsInv, [QuestionsNext]_questionVars PROVE QuestionsInv'
  OBVIOUS
<1>1. ASSUME NEW s \in Screens, OpenQuestion(s) PROVE QuestionsInv'
  BY <1>1, OpenFormStep
<1>2. CASE LeaveQuestion
  BY <1>2, PageStep
<1>3. CASE LoadChoice \/ LoadCoding \/ LoadFails
  BY <1>3, LoadedStep
<1>4. CASE AddChoiceForm \/ AddCodingForm \/ EditChoiceForm \/ EditCodingForm
  BY <1>4, FormStep
<1>5. CASE \/ SubmitChoice \/ SubmitCoding
           \/ SaveChoice \/ SaveCoding \/ ChoiceWarning \/ CodingWarning
  BY <1>5, SaveStep
<1>6. ASSUME NEW n \in Numbers,
             \/ ServeCreate(n) \/ ServeLink(n) \/ ServeUpdate(n)
             \/ LinkCreated(n) \/ SubmitAnswered(n) \/ Error(n)
      PROVE  QuestionsInv'
  BY <1>6, ServeCreateStep, ServeLinkStep, ServeUpdateStep, SubmitAnswerStep
<1>7. CASE UNCHANGED questionVars
  BY <1>7 DEF questionVars, pageVars, formVars, submitVars, serverVars, QuestionsInv, PageOK,
              QuestionFlags, NewForm, TicksOK, SubmitsOK, SubmitOK, OneAtATime, NotCrossed, AllMade,
              UpdatesStand, Stands, Waiting
<1> QED
  BY <1>1, <1>2, <1>3, <1>4, <1>5, <1>6, <1>7 DEF QuestionsNext

\* The invariant of the question pages, from which the theorems follow.
THEOREM QuestionsInvariance == QuestionsSpec => []QuestionsInv
  BY QuestionsInvInit, QuestionsInvStep, PTL DEF QuestionsSpec

\* Every variable of the question pages has its type.
THEOREM QuestionsTypes == QuestionsSpec => []QuestionsTypeOK
<1>1. QuestionsInv => QuestionsTypeOK
  BY DEF QuestionsInv, PageOK, QuestionFlags, TicksOK, FieldType, SubmitsOK, QuestionsTypeOK
<1> QED
  BY <1>1, QuestionsInvariance, PTL

\* A stored single-choice question has one right answer, unless single choice was
\* selected over several ticks: whatever was ticked, switched, loaded and sent again.
THEOREM QuestionsRight == QuestionsSpec => []OneRightAnswer
<1>1. QuestionsInv => OneRightAnswer
  BY FS_Singleton DEF QuestionsInv, TicksOK, Right, OneRightAnswer
<1> QED
  BY <1>1, QuestionsInvariance, PTL

\* A save that was answered with success is not undone by an older one, however the
\* requests of an edit page pass each other: unless the older one had been answered
\* with an error, or was left behind by "Proceed".
THEOREM QuestionsLastSave == QuestionsSpec => []LastSaveStands
<1>1. QuestionsInv => LastSaveStands
  BY DEF QuestionsInv, SubmitsOK, SubmitOK, UpdatesStand, Stands, LastSaveStands
<1> QED
  BY <1>1, QuestionsInvariance, PTL

\* The questions of an add page are those of its submits: in the test for those that
\* succeeded, and outside of it only for an error or the one that is under way.
THEOREM QuestionsCounted == QuestionsSpec => []QuestionsAccounted
<1>1. QuestionsInv => QuestionsAccounted
  <2> SUFFICES ASSUME QuestionsInv, screen.job = "add" PROVE QuestionsAccounted
    BY DEF QuestionsAccounted
  <2> USE DEF QuestionsInv
  <2>1. ASSUME NEW n \in Numbers, submits[n].page = "ok"
        PROVE  submits[n].made # 0 /\ (screen.test => submits[n].made \in inTest)
    <3>1. SubmitOK(n) /\ submits[n] \in SubmitType
      BY DEF SubmitsOK
    <3>2. submits[n].step \in {"create", "link"}
      <4>1. submits[n].step \in {"none", "create", "link", "update"}
        BY <3>1 DEF SubmitType
      <4>2. submits[n].step # "none" /\ submits[n].step # "update"
        BY <2>1, <3>1, UnsentTyped DEF SubmitOK
      <4> QED
        BY <4>1, <4>2
    <3> QED
      BY <2>1, <3>1, <3>2 DEF SubmitOK
  <2>2. ASSUME NEW i \in 1..Len(questions)
        PROVE  \E n \in Numbers : /\ submits[n].made = i
                                  /\ screen.test /\ i \notin inTest => submits[n].page # "ok"
    BY <2>1 DEF AllMade
  <2>3. \A m, n \in Numbers : Waiting(m) /\ Waiting(n) => m = n
    BY DEF OneAtATime
  <2> QED
    BY <2>1, <2>2, <2>3 DEF QuestionsAccounted
<1> QED
  BY <1>1, QuestionsInvariance, PTL

=============================================================================
