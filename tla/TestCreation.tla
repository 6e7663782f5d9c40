----------------------------- MODULE TestCreation -----------------------------
(***************************************************************************)
(* What the test wizard does to the database: the code proposed by         *)
(* currentTestCode, the request that Finish sends, the route that inserts  *)
(* the test and then its sections one by one, in no transaction, and the   *)
(* deletion of sections on createSuccess.                                  *)
(*                                                                         *)
(* Every tab goes through the wizard once, with Sections sections. A       *)
(* request outlives the page that sent it: its answer may be lost, and the *)
(* user may try again while it is still running on the server.             *)
(***************************************************************************)
EXTENDS Naturals, FiniteSets

CONSTANTS
    Tabs,      \* browser tabs, of one user or several
    Requests,  \* POST requests in flight at the same time
    TestIds,   \* the tests there can be: a bound of the model
    Sections,  \* sections of a test
    Others,    \* tests that are not made here, with codes of another form
    None       \* no row, no tab, no test

First == 370  \* SVET00370, the code of the first test, and the one for want of another

ASSUME CreationAssumption ==
    /\ IsFiniteSet(TestIds) /\ IsFiniteSet(Tabs)
    /\ Sections \in Nat \ {0} /\ Others \in Nat
    /\ None \notin Nat \cup Tabs \cup TestIds

VARIABLES
    tests,    \* assessments: per id the test_code, None without a row
    secs,     \* assessment_sections: per test the sort_order of its rows
    tab,      \* per tab: the page, its code, whether Finish waits, and what
              \* createSuccess shows
    request,  \* per request: the statement it is about to run, and what for
    deletes,  \* the DELETE requests of createSuccess that are under way
    made,     \* history, per tab: the tests that its draft has become
    recoded,  \* history: tabs whose draft got another code after a Finish
    broken,   \* history: tests whose request failed between two statements
    cut,      \* history: tests of which a section has been deleted
    blind     \* history: tabs in which two deletions were under way at once, or the
              \* answer of one was lost

creationVars == <<tests, secs, tab, request, deletes, made, recoded, broken, cut, blind>>

Existing     == {i \in TestIds : tests[i] # None}
EverySection == 1..Sections
Rows         == TestIds \X EverySection  \* sections as createSuccess shows them
Codes        == First..(First + Cardinality(TestIds) + Others)
Idle         == [pc |-> "idle", tab |-> None, code |-> None, test |-> None, next |-> 1,
                 heard |-> FALSE]

CreationInit ==
    /\ tests = [i \in TestIds |-> None]
    /\ secs = [i \in TestIds |-> {}]
    /\ tab = [t \in Tabs |-> [page |-> "create", code |-> First, waits |-> FALSE, tried |-> FALSE,
                              test |-> None, shown |-> {}]]
    /\ request = [r \in Requests |-> Idle]
    /\ deletes = {}
    /\ made = [t \in Tabs |-> {}]
    /\ recoded = {} /\ broken = {} /\ cut = {} /\ blind = {}

history == <<made, recoded, broken, cut, blind>>

-----------------------------------------------------------------------------
(* The wizard in its tab *)

\* currentTestCode: the number of tests there are, plus 370; on an error, 370. The
\* page takes it in the place of the first code only.
ProposeCode(t) ==
    /\ tab[t].page = "create" /\ tab[t].code = First
    /\ \E c \in {First + Others + Cardinality(Existing), First} :
          /\ tab' = [tab EXCEPT ![t].code = c]
          /\ recoded' = IF c # First /\ tab[t].tried THEN recoded \cup {t} ELSE recoded
    /\ UNCHANGED <<tests, secs, request, deletes, made, broken, cut, blind>>

ToSections(t) ==
    /\ tab[t].page = "create"
    /\ tab' = [tab EXCEPT ![t].page = "sections"]
    /\ UNCHANGED <<tests, secs, request, deletes, history>>

\* Back to step 1 and its draft; coming again mounts a page that does not wait.
ToCreate(t) ==
    /\ tab[t].page = "sections"
    /\ tab' = [tab EXCEPT ![t].page = "create", ![t].waits = FALSE]
    /\ UNCHANGED <<tests, secs, request, deletes, history>>

\* handleFinish: one request at a time from one mounted page.
FinishTest(t, r) ==
    /\ tab[t].page = "sections" /\ ~tab[t].waits
    /\ request[r].pc = "idle"
    /\ tab' = [tab EXCEPT ![t].waits = TRUE, ![t].tried = TRUE]
    /\ request' = [request EXCEPT ![r] = [Idle EXCEPT !.pc = "test", !.tab = t,
                                                     !.code = tab[t].code, !.heard = TRUE]]
    /\ UNCHANGED <<tests, secs, deletes, history>>

\* The connection breaks while the server goes on: "Network error occurred".
GiveUp(r) ==
    /\ request[r].pc # "idle" /\ request[r].heard
    /\ tab' = [tab EXCEPT ![request[r].tab].waits = FALSE]
    /\ request' = [request EXCEPT ![r].heard = FALSE]
    /\ UNCHANGED <<tests, secs, deletes, history>>

-----------------------------------------------------------------------------
(* POST /api/v2/assessment *)

\* Faulty: test_code is not unique.
InsertTestAnyway(r) ==
    /\ request[r].pc = "test"
    /\ \E i \in TestIds \ Existing :
          /\ tests' = [tests EXCEPT ![i] = request[r].code]
          /\ request' = [request EXCEPT ![r].pc = "section", ![r].test = i]
          /\ made' = [made EXCEPT ![request[r].tab] = @ \cup {i}]
          /\ broken' = broken \ {i} /\ cut' = cut \ {i}
    /\ UNCHANGED <<secs, tab, deletes, recoded, blind>>

\* An id that nothing refers to: the model uses it again.
Unused(i) ==
    /\ i \notin Existing
    /\ \A q \in Requests : request[q].test # i
    /\ \A t \in Tabs : tab[t].test # i /\ \A x \in tab[t].shown : x[1] # i
    /\ \A d \in deletes : d.row[1] # i

\* INSERT INTO assessments, whose test_code is unique.
InsertTest(r) ==
    /\ request[r].pc = "test"
    /\ \/ /\ \E i \in Existing : tests[i] = request[r].code
          /\ request' = [request EXCEPT ![r].pc = "error"]
          /\ UNCHANGED <<tests, made, broken, cut>>
       \/ /\ \A i \in Existing : tests[i] # request[r].code
          /\ \E i \in TestIds :
                /\ Unused(i)
                /\ tests' = [tests EXCEPT ![i] = request[r].code]
                /\ request' = [request EXCEPT ![r].pc = "section", ![r].test = i]
                /\ made' = [t \in Tabs |-> IF t = request[r].tab THEN made[t] \cup {i}
                                                                 ELSE made[t] \ {i}]
                /\ broken' = broken \ {i} /\ cut' = cut \ {i}
    /\ UNCHANGED <<secs, tab, deletes, recoded, blind>>

\* Faulty: an error of a section is passed over.
InsertSectionOrNot(r) ==
    /\ request[r].pc = "section"
    /\ \E s \in SUBSET {request[r].next} :
          secs' = [secs EXCEPT ![request[r].test] =
                      IF request[r].test \in Existing THEN @ \cup s ELSE @]
    /\ request' = [request EXCEPT ![r].next = @ + 1,
                                  ![r].pc = IF request[r].next = Sections THEN "ok" ELSE @]
    /\ UNCHANGED <<tests, tab, deletes, history>>

\* INSERT INTO assessment_sections, which refers to the test: an error without it.
InsertSection(r) ==
    /\ request[r].pc = "section"
    /\ IF request[r].test \in Existing
         THEN /\ secs' = [secs EXCEPT ![request[r].test] = @ \cup {request[r].next}]
              /\ request' = [request EXCEPT
                                ![r].next = @ + 1,
                                ![r].pc = IF request[r].next = Sections THEN "ok" ELSE @]
         ELSE /\ request' = [request EXCEPT ![r].pc = "error"]
              /\ UNCHANGED secs
    /\ UNCHANGED <<tests, tab, deletes, history>>

\* A statement fails: the answer is an error, and what was inserted stays.
StatementFails(r) ==
    /\ request[r].pc \in {"test", "section"}
    /\ request' = [request EXCEPT ![r].pc = "error"]
    /\ broken' = broken \cup (IF request[r].pc = "section" THEN {request[r].test} ELSE {})
    /\ UNCHANGED <<tests, secs, tab, deletes, made, recoded, cut, blind>>

\* The answer, if somebody still listens: with 200 the draft is removed and the tab
\* goes to createSuccess, also from a page mounted since; otherwise a message.
Answered(r) ==
    /\ request[r].pc \in {"ok", "error"}
    /\ tab' = CASE ~request[r].heard -> tab
                [] request[r].heard /\ request[r].pc = "error" ->
                     [tab EXCEPT ![request[r].tab].waits = FALSE]
                [] OTHER ->
                     [tab EXCEPT ![request[r].tab].waits = FALSE,
                                 ![request[r].tab].page = "success",
                                 ![request[r].tab].test = request[r].test,
                                 ![request[r].tab].shown = {}]
    /\ request' = [request EXCEPT ![r] = Idle]
    /\ UNCHANGED <<tests, secs, deletes, history>>

\* The server's process dies in the middle.
ServerDies(r) ==
    /\ request[r].pc # "idle"
    /\ broken' = broken \cup (IF request[r].pc = "section" THEN {request[r].test} ELSE {})
    /\ tab' = [t \in Tabs |-> IF request[r].heard /\ t = request[r].tab
                                THEN [tab[t] EXCEPT !.waits = FALSE] ELSE tab[t]]
    /\ request' = [request EXCEPT ![r] = Idle]
    /\ UNCHANGED <<tests, secs, deletes, made, recoded, cut, blind>>

\* DELETE /api/v2/assessment/[id]: the sections go with the test.
DeleteTest(i) ==
    /\ i \in Existing
    /\ tests' = [tests EXCEPT ![i] = None]
    /\ secs' = [secs EXCEPT ![i] = {}]
    /\ UNCHANGED <<tab, request, deletes, history>>

-----------------------------------------------------------------------------
(* createSuccess *)

\* The list of sections, read once.
LoadSections(t) ==
    /\ tab[t].page = "success" /\ tab[t].shown = {}
    /\ tab' = [tab EXCEPT ![t].shown = {tab[t].test} \X secs[tab[t].test]]
    /\ UNCHANGED <<tests, secs, request, deletes, history>>

DeletesOf(t) == {d \in deletes : d.tab = t}

\* Faulty: no look at how many there are.
ClickDeleteAny(t, x) ==
    /\ tab[t].page = "success" /\ x \in tab[t].shown
    /\ deletes' = deletes \cup {[tab |-> t, row |-> x, seen |-> tab[t].shown, done |-> FALSE]}
    /\ blind' = IF DeletesOf(t) # {} THEN blind \cup {t} ELSE blind
    /\ UNCHANGED <<tests, secs, tab, request, made, recoded, broken, cut>>

\* handleDeleteSection: not the last of those it sees, which stay what it filters.
ClickDelete(t, x) ==
    /\ tab[t].page = "success" /\ x \in tab[t].shown
    /\ Cardinality(tab[t].shown) > 1
    /\ deletes' = deletes \cup {[tab |-> t, row |-> x, seen |-> tab[t].shown, done |-> FALSE]}
    /\ blind' = IF DeletesOf(t) # {} THEN blind \cup {t} ELSE blind
    /\ UNCHANGED <<tests, secs, tab, request, made, recoded, broken, cut>>

\* DELETE FROM assessment_sections ... RETURNING id: 404 without a row.
DeleteSection(d) ==
    /\ d \in deletes /\ ~d.done
    /\ LET i == d.row[1]
       IN  IF d.row[2] \in secs[i]
             THEN /\ secs' = [secs EXCEPT ![i] = @ \ {d.row[2]}]
                  /\ cut' = cut \cup {i}
                  /\ deletes' = (deletes \ {d}) \cup {[d EXCEPT !.done = TRUE]}
             ELSE /\ deletes' = deletes \ {d}
                  /\ UNCHANGED <<secs, cut>>
    /\ UNCHANGED <<tests, tab, request, made, recoded, broken, blind>>

DeleteAnswered(d) ==
    /\ d \in deletes /\ d.done
    /\ deletes' = deletes \ {d}
    /\ tab' = [tab EXCEPT ![d.tab].shown = d.seen \ {d.row}]
    /\ UNCHANGED <<tests, secs, request, history>>

\* The request or its answer is lost: the rows on the page stay.
DeleteLost(d) ==
    /\ d \in deletes
    /\ deletes' = deletes \ {d}
    /\ blind' = IF d.done THEN blind \cup {d.tab} ELSE blind
    /\ UNCHANGED <<tests, secs, tab, request, made, recoded, broken, cut>>

-----------------------------------------------------------------------------
Route(r) ==
    \/ GiveUp(r) \/ InsertTest(r) \/ InsertSection(r) \/ StatementFails(r) \/ Answered(r)
    \/ ServerDies(r)

CreationNext ==
    \/ \E t \in Tabs : \/ ProposeCode(t) \/ ToSections(t) \/ ToCreate(t) \/ LoadSections(t)
                       \/ \E r \in Requests : FinishTest(t, r)
                       \/ \E x \in Rows : ClickDelete(t, x)
    \/ \E r \in Requests : Route(r)
    \/ \E i \in TestIds : DeleteTest(i)
    \/ \E d \in deletes : DeleteSection(d) \/ DeleteAnswered(d) \/ DeleteLost(d)

CreationSpec == CreationInit /\ [][CreationNext]_creationVars

-----------------------------------------------------------------------------
(* Properties *)

PCs == {"idle", "test", "section", "ok", "error"}

\* Every variable has its type.
CreationTypeOK ==
    /\ tests \in [TestIds -> Codes \cup {None}]
    /\ secs \in [TestIds -> SUBSET EverySection]
    /\ tab \in [Tabs -> [page : {"create", "sections", "success"}, code : Codes, waits : BOOLEAN,
                         tried : BOOLEAN, test : TestIds \cup {None}, shown : SUBSET Rows]]
    /\ request \in [Requests -> [pc : PCs, tab : Tabs \cup {None}, code : Codes \cup {None},
                                 test : TestIds \cup {None}, next : 1..(Sections + 1),
                                 heard : BOOLEAN]]
    /\ deletes \subseteq [tab : Tabs, row : Rows, seen : SUBSET Rows, done : BOOLEAN]
    /\ made \in [Tabs -> SUBSET TestIds]
    /\ recoded \subseteq Tabs /\ blind \subseteq Tabs
    /\ broken \subseteq TestIds /\ cut \subseteq TestIds

\* However often Finish is tried again, and whatever answers are lost, a draft becomes
\* one test at most: it keeps its code, and the code is unique. Only a draft with the
\* first code, which step 1 replaces when the user comes back, can become two.
OneTestPerDraft ==
    \A t \in Tabs : t \notin recoded => Cardinality(made[t] \cap Existing) <= 1

\* The page that congratulates stands for a whole test: all sections of the draft are
\* stored, unless the user has deleted some since, or somebody the test.
SuccessMeansWhole ==
    \A t \in Tabs :
        tab[t].page = "success" /\ tab[t].test \in Existing \ cut
            => secs[tab[t].test] = EverySection

\* A test loses its last section on createSuccess only if two deletions have been under
\* way at once or an answer was lost: the page counts the sections it shows, not those
\* that are left.
LastSectionStays ==
    \A t \in Tabs :
        tab[t].page = "success" /\ tab[t].test \in Existing /\ t \notin blind
            => secs[tab[t].test] # {}

\* testcases.md:210 of the route: "a forced failure leaves no partial assessment".
NoPartialTest ==
    \A i \in Existing \ cut :
        (\A r \in Requests : request[r].test # i) => secs[i] = EverySection

=============================================================================
