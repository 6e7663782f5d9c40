------------------------------ MODULE CreateTest ------------------------------
(***************************************************************************)
(* Step 1 of the test wizard, create/page.tsx: a form whose two menus are  *)
(* filled by requests, whose test code another request proposes, and which *)
(* is kept as a draft in sessionStorage for step 2 and for coming back.    *)
(*                                                                         *)
(* The answers arrive at any time, also after the user has chosen from a   *)
(* menu that is still empty, and the lists may have changed since the      *)
(* draft was made.                                                         *)
(***************************************************************************)
EXTENDS Naturals, FiniteSets

CONSTANTS
    Departments, Batches,  \* what the institution may have at some time
    TestNames,             \* names that are not empty
    Counts,                \* numbers of sections that are chosen, from 1 to 8
    Limits,                \* numbers of tab switches that are typed
    Answers,               \* answers to the two yes/no questions that are clicked
    Prose,                 \* descriptions and instructions
    NextCodes,             \* codes that the server may propose
    DefaultCode,           \* SVET00370
    All,                   \* the entry "All" of a menu
    NoText,                \* an empty text
    NoDraft

Menus == {"departments", "batches"}

Items(m) == IF m = "departments" THEN Departments ELSE Batches

ASSUME CreateTestAssumption ==
    /\ IsFiniteSet(Departments) /\ IsFiniteSet(Batches)
    /\ All \notin Departments \cup Batches
    /\ NoText \notin TestNames \cup Prose
    /\ Counts \subseteq 1..8
    /\ Limits \subseteq Nat
    /\ Answers \subseteq BOOLEAN
    /\ DefaultCode \in NextCodes

VARIABLES
    offered,   \* per menu: what the server has
    listed,    \* per menu: what the page has been answered; empty before
    chosen,    \* per menu: testVisibility, batchVisibility
    menuOpen,  \* the menu that is open, if one is
    about,     \* the other fields
    testCode,
    draft,     \* sessionStorage's currentTestDraft
    here,      \* the page is mounted; otherwise the user is at step 2
    early      \* history, per menu: "All" was ticked while nothing was listed

createVars == <<offered, listed, chosen, menuOpen, about, testCode, draft, here, early>>

Details == [name : TestNames \cup {NoText}, sections : 1..8,
            description : Prose \cup {NoText}, instructions : Prose \cup {NoText},
            tabSwitches : Nat, jumble : BOOLEAN, report : BOOLEAN]

NoDetails == [name |-> NoText, sections |-> 1, description |-> NoText, instructions |-> NoText,
              tabSwitches |-> 10, jumble |-> FALSE, report |-> FALSE]

Nothing == [m \in Menus |-> {}]

CreateInit ==
    /\ offered = [m \in Menus |-> Items(m)]
    /\ listed = Nothing
    /\ chosen = Nothing
    /\ menuOpen = {}
    /\ about = NoDetails
    /\ testCode = DefaultCode
    /\ draft = NoDraft
    /\ here = TRUE
    /\ early = [m \in Menus |-> FALSE]

\* The institution's departments, or the users' batches, change.
ListChanges(m) ==
    /\ \E s \in SUBSET Items(m) : offered' = [offered EXCEPT ![m] = s]
    /\ UNCHANGED <<listed, chosen, menuOpen, about, testCode, draft, here, early>>

-----------------------------------------------------------------------------
(* The requests of a page that has just been mounted *)

\* The answer of /departments or /batches; an empty one, or an error, is ignored.
ListAnswered(m) ==
    /\ here /\ listed[m] = {}
    /\ listed' = [listed EXCEPT ![m] = offered[m]]
    /\ UNCHANGED <<offered, chosen, menuOpen, about, testCode, draft, here, early>>

\* Faulty: the proposal replaces whatever is there.
CodeAnsweredAlways ==
    /\ here
    /\ testCode' \in NextCodes
    /\ UNCHANGED <<offered, listed, chosen, menuOpen, about, draft, here, early>>

\* The answer of /currentTestCode, which may be the default: a code other than the
\* default stays. (A later answer would change nothing.)
CodeAnswered ==
    /\ here
    /\ testCode = DefaultCode
    /\ testCode' \in NextCodes
    /\ UNCHANGED <<offered, listed, chosen, menuOpen, about, draft, here, early>>

-----------------------------------------------------------------------------
(* The menus *)

\* Faulty: "All" stays when an item goes.
ToggledKeepingAll(x, old, list) ==
    IF x = All
      THEN IF All \in old THEN {} ELSE {All} \cup list
      ELSE IF x \in old THEN old \ {x}
           ELSE LET next == (old \ {All}) \cup {x}
                IN  IF Cardinality(next) = Cardinality(list) THEN {All} \cup next ELSE next

\* What is chosen after a click on x; the items are counted, not compared.
Toggled(x, old, list) ==
    IF x = All
      THEN IF All \in old THEN {} ELSE {All} \cup list
      ELSE IF x \in old THEN old \ {x, All}
           ELSE LET next == (old \ {All}) \cup {x}
                IN  IF Cardinality(next) = Cardinality(list) THEN {All} \cup next ELSE next

\* A press outside an open menu closes it, and so one on the other menu does.
ClickOutside ==
    /\ here /\ menuOpen # {}
    /\ menuOpen' = {}
    /\ UNCHANGED <<offered, listed, chosen, about, testCode, draft, here, early>>

ClickMenu(m) ==
    /\ here
    /\ menuOpen' = {m} \ menuOpen
    /\ UNCHANGED <<offered, listed, chosen, about, testCode, draft, here, early>>

Choose(m, x) ==
    /\ here /\ m \in menuOpen
    /\ x \in listed[m] \cup {All}
    /\ chosen' = [chosen EXCEPT ![m] = Toggled(x, @, listed[m])]
    /\ early' = [early EXCEPT ![m] = IF x = All THEN All \notin chosen[m] /\ listed[m] = {}
                                                ELSE @ /\ All \in chosen'[m]]
    /\ UNCHANGED <<offered, listed, menuOpen, about, testCode, draft, here>>

ToggleDepartment(x) == Choose("departments", x)
ToggleBatch(x)      == Choose("batches", x)

\* The two menus: the field opens and closes one, its entries choose.
DepartmentMenu ==
    ClickMenu("departments") \/ \E x \in Departments \cup {All} : ToggleDepartment(x)

BatchMenu ==
    ClickMenu("batches") \/ \E x \in Batches \cup {All} : ToggleBatch(x)

-----------------------------------------------------------------------------
(* The other fields; the test code is locked *)

Fill(d) ==
    /\ here
    /\ about' = d
    /\ UNCHANGED <<offered, listed, chosen, menuOpen, testCode, draft, here, early>>

SetTestName(v)  == Fill([about EXCEPT !.name = v])
SetNumSections(n) == Fill([about EXCEPT !.sections = n])
SetProse(v)     == Fill([about EXCEPT !.description = v]) \/ Fill([about EXCEPT !.instructions = v])
SetSwitches(n)  == Fill([about EXCEPT !.tabSwitches = n])
SetJumble(b)    == Fill([about EXCEPT !.jumble = b])
SetReport(b)    == Fill([about EXCEPT !.report = b])

-----------------------------------------------------------------------------
(* To step 2 and back *)

\* handleSubmit: with a name, the draft is stored without the entries "All".
SubmitDraft ==
    /\ here
    /\ about.name # NoText
    /\ draft' = [about |-> about, code |-> testCode, chosen |-> [m \in Menus |-> chosen[m] \ {All}]]
    /\ here' = FALSE
    /\ UNCHANGED <<offered, listed, chosen, menuOpen, about, testCode, early>>

\* The page is mounted again and restores the draft, if step 2 has not removed it.
Return(d) ==
    /\ ~here
    /\ here' = TRUE
    /\ draft' = d
    /\ about' = IF d = NoDraft THEN NoDetails ELSE d.about
    /\ testCode' = IF d = NoDraft THEN DefaultCode ELSE d.code
    /\ chosen' = IF d = NoDraft THEN Nothing ELSE d.chosen
    /\ listed' = Nothing
    /\ menuOpen' = {}
    /\ early' = [m \in Menus |-> FALSE]
    /\ UNCHANGED offered

ComeBack == Return(draft)
NewTest  == Return(NoDraft)

CreateNext ==
    \/ \E m \in Menus : ListChanges(m) \/ ListAnswered(m)
    \/ CodeAnswered \/ ClickOutside \/ DepartmentMenu \/ BatchMenu
    \/ \E v \in TestNames \cup {NoText} : SetTestName(v)
    \/ \E n \in Counts : SetNumSections(n)
    \/ \E v \in Prose \cup {NoText} : SetProse(v)
    \/ \E n \in Limits : SetSwitches(n)
    \/ \E b \in Answers : SetJumble(b) \/ SetReport(b)
    \/ SubmitDraft \/ ComeBack \/ NewTest

CreateSpec == CreateInit /\ [][CreateNext]_createVars

-----------------------------------------------------------------------------
(* Properties *)

\* What displayTestVisibility and displayBatchVisibility list, and the draft stores.
Display(m) == chosen[m] \ {All}

\* Every variable has its type; one menu is open at most.
CreateTypeOK ==
    /\ \A m \in Menus :
          /\ offered[m] \subseteq Items(m) /\ listed[m] \subseteq Items(m)
          /\ chosen[m] \subseteq Items(m) \cup {All}
          /\ early[m] \in BOOLEAN
    /\ menuOpen \in {{}} \cup {{m} : m \in Menus}
    /\ about \in Details
    /\ testCode \in NextCodes
    /\ here \in BOOLEAN
    /\ draft # NoDraft => draft.about \in Details /\ draft.code \in NextCodes

\* A ticked "All" is true: everything the menu lists is chosen. Two exceptions:
\* "All" was ticked before the list had come, which chooses nothing, so that the
\* draft says "visible to all" by being blank; or the draft holds an item that is
\* listed no more, which counts as if it were.
AllIsAll ==
    \A m \in Menus :
        All \in chosen[m] => \/ listed[m] \subseteq Display(m)
                             \/ early[m]
                             \/ ~ (Display(m) \subseteq listed[m])

\* A draft keeps the test code under which its test may have been stored already:
\* neither coming back to the form nor a late proposal changes it. Only the default
\* code, which the page shows for want of another, gives way.
CodeKept ==
    [][draft # NoDraft /\ draft' # NoDraft /\ draft.code # DefaultCode
        => draft'.code = draft.code]_createVars

=============================================================================
