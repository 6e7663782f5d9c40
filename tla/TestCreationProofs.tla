-------------------------- MODULE TestCreationProofs --------------------------
(***************************************************************************)
(* Proofs about what the test wizard does to the database.                 *)
(*                                                                         *)
(* The invariant has three parts. The requests: each writes a test of its  *)
(* own, whose sections are those inserted so far. The drafts: until it is  *)
(* recoded, all that a draft has become or may still become has its code,  *)
(* and codes are unique. The pages: the rows a tab shows or deletes are of *)
(* tests that no other tab and no request is about, and until two of its   *)
(* deletions overlap or an answer is lost, they are rows of the database.  *)
(***************************************************************************)
EXTENDS TestCreation, FiniteSetTheorems, TLAPS

\* The fields of a request, by the statement it is about to run.
RequestsOK ==
    \A r \in Requests :
        /\ request[r].pc \in {"idle", "test"} => request[r].test = None /\ request[r].next = 1
        /\ request[r].pc # "idle" => request[r].tab \in Tabs /\ request[r].code \in Codes
        /\ request[r].pc \in {"section", "ok"} => request[r].test \in TestIds
        /\ request[r].pc = "section" => request[r].next \in 1..Sections

\* No two requests, no two tabs, no request and tab are about one test.
Distinct ==
    /\ \A q, r \in Requests : request[q].test # None /\ request[q].test = request[r].test => q = r
    /\ \A t, u \in Tabs : tab[t].test # None /\ tab[t].test = tab[u].test => t = u
    /\ \A r \in Requests, t \in Tabs : request[r].test # None => request[r].test # tab[t].test
    /\ \A t \in Tabs : tab[t].page = "success" <=> tab[t].test # None

\* What a request has written of its test so far.
Writing ==
    /\ \A r \in Requests :
          /\ request[r].test \notin cut
          /\ request[r].test \in Existing =>
                /\ request[r].pc = "section" => secs[request[r].test] = 1..(request[r].next - 1)
                /\ request[r].pc = "ok" => secs[request[r].test] = EverySection
    /\ \A i \in TestIds \ Existing : secs[i] = {}

RequestInv == RequestsOK /\ Distinct /\ Writing /\ SuccessMeansWhole

DraftInv ==
    /\ \A i, j \in Existing : tests[i] = tests[j] => i = j
    /\ \A t \in Tabs : made[t] # {} => tab[t].tried
    /\ \A r \in Requests : request[r].pc # "idle" => tab[request[r].tab].tried
    /\ \A t \in Tabs \ recoded : \A i \in made[t] \cap Existing : tests[i] = tab[t].code
    /\ \A r \in Requests : request[r].pc = "test" /\ request[r].tab \notin recoded
          => request[r].code = tab[request[r].tab].code

\* The test of row x is the concern of tab t, if of anybody.
Concerns(x, t) ==
    /\ \A r \in Requests : request[r].test # x[1]
    /\ \A u \in Tabs : tab[u].test = x[1] => u = t

\* Rows of one test, which concerns tab t if anybody.
RowsFor(s, t) == \A x, y \in s : Concerns(x, t) /\ x[1] = y[1]

PagesInv ==
    /\ \A t \in Tabs : RowsFor(tab[t].shown, t)
    /\ \A d \in deletes : RowsFor(d.seen, d.tab) /\ d.row \in d.seen

\* A tab whose deletions have not overlapped and of which no answer was lost.
Careful(t) ==
    /\ \A d, e \in DeletesOf(t) : d = e
    /\ \A d \in DeletesOf(t) :
          d.row[1] = tab[t].test => d.seen = tab[t].shown /\ d.seen # {d.row}
    /\ \A x \in tab[t].shown :
          x[1] = tab[t].test /\ x[1] \in Existing =>
              x[2] \in secs[x[1]] \/ \E d \in DeletesOf(t) : d.done /\ d.row = x
    /\ tab[t].page = "success" /\ tab[t].test \in Existing => secs[tab[t].test] # {}

CarefulInv == \A t \in Tabs \ blind : Careful(t)

CreationInv == CreationTypeOK /\ RequestInv /\ DraftInv /\ PagesInv /\ CarefulInv

-----------------------------------------------------------------------------
(* Types *)

LEMMA FirstCode == First \in Codes /\ \A c \in Codes : c \in Nat /\ c # None
<1>1. Cardinality(TestIds) \in Nat
  BY CreationAssumption, FS_CardinalityType
<1> QED
  BY <1>1, CreationAssumption DEF First, Codes

LEMMA ProposedCode == CreationTypeOK => First + Others + Cardinality(Existing) \in Codes
<1>1. IsFiniteSet(TestIds) /\ Existing \subseteq TestIds
  BY CreationAssumption DEF Existing
<1>2. Cardinality(Existing) <= Cardinality(TestIds) /\ IsFiniteSet(Existing)
  BY <1>1, FS_Subset
<1>3. Cardinality(Existing) \in Nat /\ Cardinality(TestIds) \in Nat
  BY <1>1, <1>2, FS_CardinalityType
<1> QED
  BY <1>2, <1>3, CreationAssumption DEF First, Codes

LEMMA IdleTyped ==
  Idle \in [pc : PCs, tab : Tabs \cup {None}, code : Codes \cup {None},
            test : TestIds \cup {None}, next : 1..(Sections + 1), heard : BOOLEAN]
  BY CreationAssumption DEF Idle, PCs

LEMMA CreationInvInit == CreationInit => CreationInv
<1> SUFFICES ASSUME CreationInit PROVE CreationInv
  OBVIOUS
<1> USE DEF CreationInit
<1>1. CreationTypeOK
  BY IdleTyped, FirstCode DEF CreationTypeOK
<1>2. RequestInv
  BY DEF RequestInv, RequestsOK, Distinct, Writing, SuccessMeansWhole, Idle, Existing
<1>3. DraftInv
  BY DEF DraftInv, Idle, Existing
<1>4. PagesInv /\ CarefulInv
  BY DEF PagesInv, CarefulInv, Careful, DeletesOf, RowsFor
<1> QED
  BY <1>1, <1>2, <1>3, <1>4 DEF CreationInv

TabType == [page : {"create", "sections", "success"}, code : Codes, waits : BOOLEAN,
            tried : BOOLEAN, test : TestIds \cup {None}, shown : SUBSET Rows]

RequestType == [pc : PCs, tab : Tabs \cup {None}, code : Codes \cup {None},
                test : TestIds \cup {None}, next : 1..(Sections + 1), heard : BOOLEAN]

DeleteType == [tab : Tabs, row : Rows, seen : SUBSET Rows, done : BOOLEAN]

\* A tab gets another value of its type.
LEMMA TabTyped ==
  ASSUME CreationTypeOK, NEW t, NEW v, t \in Tabs => v \in TabType,
         tab' = [tab EXCEPT ![t] = v]
  PROVE  tab' \in [Tabs -> TabType]
  BY DEF CreationTypeOK, TabType

\* And a request.
LEMMA RequestTyped ==
  ASSUME CreationTypeOK, NEW r \in Requests, NEW v \in RequestType,
         request' = [request EXCEPT ![r] = v]
  PROVE  request' \in [Requests -> RequestType]
  BY DEF CreationTypeOK, RequestType

\* The values they get.
LEMMA TabValues ==
  ASSUME NEW v \in TabType, NEW b \in BOOLEAN, NEW k \in TestIds \cup {None},
         NEW s \in SUBSET Rows
  PROVE  /\ [v EXCEPT !.waits = b] \in TabType
         /\ [v EXCEPT !.waits = TRUE, !.tried = TRUE] \in TabType
         /\ [v EXCEPT !.shown = s] \in TabType
         /\ [v EXCEPT !.waits = FALSE, !.page = "success", !.test = k, !.shown = {}] \in TabType
<1> USE DEF TabType
<1>1. [v EXCEPT !.waits = b] \in TabType
  OBVIOUS
<1>2. [v EXCEPT !.waits = TRUE, !.tried = TRUE] \in TabType
  OBVIOUS
<1>3. [v EXCEPT !.shown = s] \in TabType
  OBVIOUS
<1>4. [v EXCEPT !.waits = FALSE, !.page = "success", !.test = k, !.shown = {}] \in TabType
  <2>1. {} \in SUBSET Rows
    OBVIOUS
  <2> QED
    BY <2>1
<1> QED
  BY <1>1, <1>2, <1>3, <1>4

\* Each action keeps the types.
LEMMA CreationTypeStep == CreationInv /\ [CreationNext]_creationVars => CreationTypeOK'
<1> SUFFICES ASSUME CreationInv, [CreationNext]_creationVars PROVE CreationTypeOK'
  OBVIOUS
<1> USE DEF CreationInv, history
<1>0. /\ CreationTypeOK /\ RequestsOK
      /\ tab \in [Tabs -> TabType] /\ request \in [Requests -> RequestType]
      /\ deletes \subseteq DeleteType
  BY DEF CreationTypeOK, RequestInv, TabType, RequestType, DeleteType
<1>1. ASSUME NEW t \in Tabs, ProposeCode(t) PROVE CreationTypeOK'
  <2>1. PICK c \in Codes : /\ tab' = [tab EXCEPT ![t].code = c]
                           /\ recoded' = recoded \/ recoded' = recoded \cup {t}
    BY <1>1, ProposedCode, FirstCode DEF ProposeCode
  <2>2. tab' \in [Tabs -> TabType]
    BY <1>0, <2>1 DEF TabType
  <2> QED
    BY <1>1, <2>1, <2>2 DEF ProposeCode, CreationTypeOK, TabType
<1>2. ASSUME NEW t \in Tabs, ToSections(t) \/ ToCreate(t) \/ LoadSections(t) PROVE CreationTypeOK'
  <2>1. tab' \in [Tabs -> TabType]
    <3>1. CASE ToSections(t) \/ ToCreate(t)
      BY <1>0, <3>1 DEF ToSections, ToCreate, TabType
    <3>2. CASE LoadSections(t)
      <4>1. tab[t].test \in TestIds
        BY <3>2, <1>0 DEF LoadSections, RequestInv, Distinct, TabType
      <4>2. {tab[t].test} \X secs[tab[t].test] \in SUBSET Rows
        BY <4>1 DEF CreationTypeOK, Rows
      <4> QED
        BY <1>0, <3>2, <4>2 DEF LoadSections, TabType
    <3> QED
      BY <1>2, <3>1, <3>2
  <2> QED
    BY <1>2, <2>1 DEF ToSections, ToCreate, LoadSections, CreationTypeOK, TabType
<1>3. ASSUME NEW t \in Tabs, NEW r \in Requests, FinishTest(t, r) PROVE CreationTypeOK'
  <2>1. tab' \in [Tabs -> TabType]
    <3>1. tab[t] \in TabType /\ tab' = [tab EXCEPT ![t].waits = TRUE, ![t].tried = TRUE]
      BY <1>0, <1>3 DEF FinishTest
    <3>2. tab' = [tab EXCEPT ![t] = [tab[t] EXCEPT !.waits = TRUE, !.tried = TRUE]]
      BY <1>0, <3>1
    <3> QED
      BY <3>1, <3>2, TabValues, TabTyped
  <2>2. request' \in [Requests -> RequestType]
    BY <1>0, <1>3, IdleTyped DEF FinishTest, RequestType, TabType, Idle, PCs
  <2> QED
    BY <1>3, <2>1, <2>2 DEF FinishTest, CreationTypeOK, TabType, RequestType
<1>4. ASSUME NEW r \in Requests, GiveUp(r) PROVE CreationTypeOK'
  <2>1. tab' \in [Tabs -> TabType]
    <3> DEFINE t == request[r].tab
    <3>1. t \in Tabs /\ tab[t] \in TabType /\ tab' = [tab EXCEPT ![t].waits = FALSE]
      BY <1>0, <1>4 DEF GiveUp, RequestsOK
    <3> HIDE DEF t
    <3>2. tab' = [tab EXCEPT ![t] = [tab[t] EXCEPT !.waits = FALSE]]
      BY <1>0, <3>1
    <3> QED
      BY <3>1, <3>2, TabValues, TabTyped
  <2>2. request' \in [Requests -> RequestType]
    BY <1>0, <1>4 DEF GiveUp, RequestType
  <2> QED
    BY <1>4, <2>1, <2>2 DEF GiveUp, CreationTypeOK, TabType, RequestType
<1>5. ASSUME NEW r \in Requests, InsertTest(r) PROVE CreationTypeOK'
  <2>1. request[r].code \in Codes /\ request[r] \in RequestType
    BY <1>0, <1>5 DEF InsertTest, RequestsOK
  <2>2. CASE UNCHANGED <<tests, made, broken, cut>>
    <3>1. request' \in [Requests -> RequestType]
      BY <1>0, <1>5, <2>2 DEF InsertTest, RequestType, PCs
    <3> QED
      BY <1>5, <2>2, <3>1 DEF InsertTest, CreationTypeOK, RequestType
  <2>3. ASSUME NEW i \in TestIds, tests' = [tests EXCEPT ![i] = request[r].code],
               request' = [request EXCEPT ![r].pc = "section", ![r].test = i],
               made' = [t \in Tabs |-> IF t = request[r].tab THEN made[t] \cup {i}
                                                             ELSE made[t] \ {i}],
               broken' = broken \ {i}, cut' = cut \ {i}
        PROVE  CreationTypeOK'
    <3>1. request' \in [Requests -> RequestType]
      <4> DEFINE v == [request[r] EXCEPT !.pc = "section", !.test = i]
      <4>1. v \in RequestType
        BY <2>1 DEF RequestType, PCs
      <4>2. request' = [request EXCEPT ![r] = v]
        BY <1>0, <2>3
      <4> HIDE DEF v
      <4> QED
        BY <4>1, <4>2, RequestTyped
    <3>2. tests' \in [TestIds -> Codes \cup {None}] /\ made' \in [Tabs -> SUBSET TestIds]
      BY <2>1, <2>3 DEF CreationTypeOK
    <3> QED
      BY <1>5, <2>3, <3>1, <3>2 DEF InsertTest, CreationTypeOK, RequestType
  <2> QED
    BY <1>5, <2>2, <2>3 DEF InsertTest
<1>6. ASSUME NEW r \in Requests, InsertSection(r) PROVE CreationTypeOK'
  <2>1. request[r].next \in 1..Sections /\ request[r].test \in TestIds
    BY <1>0, <1>6 DEF InsertSection, RequestsOK
  <2>2. secs' \in [TestIds -> SUBSET EverySection]
    <3>1. CASE secs' = [secs EXCEPT ![request[r].test] = @ \cup {request[r].next}]
      BY <2>1, <3>1 DEF CreationTypeOK, EverySection
    <3>2. CASE secs' = secs
      BY <3>2 DEF CreationTypeOK
    <3> QED
      BY <1>6, <3>1, <3>2 DEF InsertSection
  <2>3. request' \in [Requests -> RequestType]
    <3>1. request[r].next + 1 \in 1..(Sections + 1) /\ {"ok", "error"} \subseteq PCs
      BY <2>1, CreationAssumption DEF PCs
    <3> QED
      BY <1>0, <1>6, <3>1 DEF InsertSection, RequestType
  <2> QED
    BY <1>6, <2>2, <2>3 DEF InsertSection, CreationTypeOK, RequestType
<1>7. ASSUME NEW r \in Requests, StatementFails(r) PROVE CreationTypeOK'
  <2>1. request' \in [Requests -> RequestType]
    BY <1>0, <1>7 DEF StatementFails, RequestType, PCs
  <2>2. broken' \subseteq TestIds
    BY <1>0, <1>7 DEF StatementFails, RequestsOK, CreationTypeOK
  <2> QED
    BY <1>7, <2>1, <2>2 DEF StatementFails, CreationTypeOK, RequestType
<1>8. ASSUME NEW r \in Requests, Answered(r) PROVE CreationTypeOK'
  <2>1. request' \in [Requests -> RequestType]
    BY <1>0, <1>8, IdleTyped DEF Answered, RequestType
  <2>2. tab' \in [Tabs -> TabType]
    <3> DEFINE t == request[r].tab
    <3>0. t \in Tabs /\ tab[t] \in TabType /\ request[r].test \in TestIds \cup {None}
      BY <1>0, <1>8 DEF Answered, RequestsOK, RequestType
    <3> HIDE DEF t
    <3>1. CASE tab' = [tab EXCEPT ![t].waits = FALSE]
      <4>1. tab' = [tab EXCEPT ![t] = [tab[t] EXCEPT !.waits = FALSE]]
        BY <1>0, <3>0, <3>1
      <4> QED
        BY <3>0, <4>1, TabValues, TabTyped
    <3>2. CASE tab' = [tab EXCEPT ![t].waits = FALSE, ![t].page = "success",
                                  ![t].test = request[r].test, ![t].shown = {}]
      <4>1. tab' = [tab EXCEPT ![t] = [tab[t] EXCEPT !.waits = FALSE, !.page = "success",
                                                  !.test = request[r].test, !.shown = {}]]
        BY <1>0, <3>0, <3>2
      <4> QED
        BY <3>0, <4>1, TabValues, TabTyped
    <3>3. CASE tab' = tab
      BY <1>0, <3>3
    <3> QED
      BY <1>8, <3>1, <3>2, <3>3 DEF Answered, t
  <2> QED
    BY <1>8, <2>1, <2>2 DEF Answered, CreationTypeOK, TabType, RequestType
<1>9. ASSUME NEW r \in Requests, ServerDies(r) PROVE CreationTypeOK'
  <2>1. request' \in [Requests -> RequestType]
    BY <1>0, <1>9, IdleTyped DEF ServerDies, RequestType
  <2>2. tab' \in [Tabs -> TabType]
    <3>1. \A t \in Tabs : tab[t] \in TabType /\ [tab[t] EXCEPT !.waits = FALSE] \in TabType
      BY <1>0, TabValues
    <3> QED
      BY <1>0, <1>9, <3>1 DEF ServerDies
  <2>3. broken' \subseteq TestIds
    BY <1>0, <1>9 DEF ServerDies, RequestsOK, CreationTypeOK
  <2> QED
    BY <1>9, <2>1, <2>2, <2>3 DEF ServerDies, CreationTypeOK, TabType, RequestType
<1>10. ASSUME NEW i \in TestIds, DeleteTest(i) PROVE CreationTypeOK'
  BY <1>10 DEF DeleteTest, CreationTypeOK
<1>11. ASSUME NEW t \in Tabs, NEW x \in Rows, ClickDelete(t, x) PROVE CreationTypeOK'
  <2>1. deletes' \subseteq DeleteType /\ blind' \subseteq Tabs
    <3>1. blind' \subseteq Tabs
      BY <1>0, <1>11 DEF ClickDelete, CreationTypeOK
    <3>2. [tab |-> t, row |-> x, seen |-> tab[t].shown, done |-> FALSE] \in DeleteType
      BY <1>0 DEF DeleteType, TabType
    <3> QED
      BY <1>0, <1>11, <3>1, <3>2 DEF ClickDelete
  <2> QED
    BY <1>11, <2>1 DEF ClickDelete, CreationTypeOK, DeleteType
<1>12. ASSUME NEW d \in deletes, DeleteSection(d) \/ DeleteAnswered(d) \/ DeleteLost(d)
       PROVE  CreationTypeOK'
  <2>1. d \in DeleteType /\ d.row[1] \in TestIds
    BY <1>0, <1>12 DEF DeleteType, Rows
  <2>2. CASE DeleteSection(d)
    <3>1. deletes' \subseteq DeleteType
      <4>1. [d EXCEPT !.done = TRUE] \in DeleteType
        BY <2>1 DEF DeleteType
      <4> QED
        BY <1>0, <2>2, <4>1 DEF DeleteSection
    <3>2. secs' \in [TestIds -> SUBSET EverySection] /\ cut' \subseteq TestIds
      BY <2>1, <2>2 DEF DeleteSection, CreationTypeOK
    <3> QED
      BY <2>2, <3>1, <3>2 DEF DeleteSection, CreationTypeOK, DeleteType
  <2>3. CASE DeleteAnswered(d)
    <3>1. tab' \in [Tabs -> TabType]
      <4>1. d.tab \in Tabs /\ d.seen \ {d.row} \in SUBSET Rows
        BY <2>1 DEF DeleteType
      <4>2. tab' = [tab EXCEPT ![d.tab] = [tab[d.tab] EXCEPT !.shown = d.seen \ {d.row}]]
        BY <1>0, <2>3, <4>1 DEF DeleteAnswered
      <4> QED
        BY <1>0, <4>1, <4>2, TabValues, TabTyped
    <3> QED
      BY <2>3, <3>1 DEF DeleteAnswered, CreationTypeOK, TabType
  <2>4. CASE DeleteLost(d)
    BY <2>1, <2>4 DEF DeleteLost, CreationTypeOK, DeleteType
  <2> QED
    BY <1>12, <2>2, <2>3, <2>4
<1>13. CASE UNCHANGED creationVars
  BY <1>13 DEF creationVars, CreationTypeOK
<1> QED
  BY <1>1, <1>2, <1>3, <1>4, <1>5, <1>6, <1>7, <1>8, <1>9, <1>10, <1>11, <1>12, <1>13
     DEF CreationNext, Route

-----------------------------------------------------------------------------
(* Steps that leave a part of the invariant alone *)

\* A tab that goes on with the test and the rows it has.
KeptTab(t) ==
    /\ tab'[t].test = tab[t].test /\ tab'[t].shown = tab[t].shown
    /\ tab'[t].page = "success" <=> tab[t].page = "success"

\* A draft that keeps its code.
KeptDraft(t) == tab'[t].code = tab[t].code /\ (tab[t].tried => tab'[t].tried)

\* A request that waits, and one that ends or is about to answer with an error.
KeptRequest(r) ==
    /\ request'[r].pc = request[r].pc /\ request'[r].tab = request[r].tab
    /\ request'[r].code = request[r].code /\ request'[r].test = request[r].test
    /\ request'[r].next = request[r].next

StoppedRequest(r) ==
    \/ request'[r] = Idle
    \/ /\ request'[r].pc = "error" /\ request[r].pc # "idle" /\ request'[r].tab = request[r].tab
       /\ request'[r].code = request[r].code /\ request'[r].test = request[r].test

\* A step of the wizard or of a request that tells the database nothing.
Dull ==
    /\ \A t \in Tabs : KeptTab(t) /\ KeptDraft(t)
    /\ \A r \in Requests : KeptRequest(r) \/ StoppedRequest(r)
    /\ UNCHANGED <<tests, secs, deletes, made, recoded, cut, blind>>

LEMMA RequestsKept ==
  ASSUME CreationInv, \A t \in Tabs : KeptTab(t),
         \A r \in Requests : KeptRequest(r) \/ StoppedRequest(r), UNCHANGED <<tests, secs, cut>>
  PROVE  RequestInv'
<1> USE DEF CreationInv, RequestInv
<1>0. Existing' = Existing /\ None \notin cut
  BY CreationAssumption DEF Existing, CreationTypeOK
<1>1. RequestsOK'
  BY DEF RequestsOK, KeptRequest, StoppedRequest, Idle
<1>2. Distinct'
  BY DEF Distinct, KeptTab, KeptRequest, StoppedRequest, Idle
<1>3. Writing'
  BY <1>0, CreationAssumption DEF Writing, KeptRequest, StoppedRequest, Idle, Existing
<1>4. SuccessMeansWhole'
  BY <1>0 DEF SuccessMeansWhole, KeptTab
<1> QED
  BY <1>1, <1>2, <1>3, <1>4

\* No draft gets a test, or a request to insert one.
LEMMA DraftsKept ==
  ASSUME CreationInv, \A t \in Tabs : KeptDraft(t), UNCHANGED <<made, recoded>>,
         \A i \in TestIds : tests'[i] \in {tests[i], None},
         \A r \in Requests :
            /\ request'[r].pc # "idle" => request[r].pc # "idle" /\ request'[r].tab = request[r].tab
            /\ request'[r].pc = "test" =>
                  request[r].pc = "test" /\ request'[r].code = request[r].code
  PROVE  DraftInv'
<1>1. \A i \in Existing' : i \in Existing /\ tests'[i] = tests[i]
  BY DEF Existing
<1>2. \A r \in Requests : request[r].pc # "idle" => request[r].tab \in Tabs
  BY DEF CreationInv, RequestInv, RequestsOK
<1> QED
  BY <1>1, <1>2 DEF CreationInv, DraftInv, KeptDraft

LEMMA RowsAreRows ==
  ASSUME CreationTypeOK
  PROVE  /\ \A t \in Tabs : \A x \in tab[t].shown : x \in Rows
         /\ \A d \in deletes : d.tab \in Tabs /\ d.row \in Rows /\ \A x \in d.seen : x \in Rows
         /\ \A x \in Rows : x[1] \in TestIds /\ x[1] # None /\ x[2] \in EverySection
  BY CreationAssumption DEF CreationTypeOK, Rows

LEMMA PagesKept ==
  ASSUME CreationInv, \A t \in Tabs : KeptTab(t), deletes' \subseteq deletes,
         \A r \in Requests : request'[r].test \in {request[r].test, None}
  PROVE  PagesInv'
  BY RowsAreRows DEF CreationInv, PagesInv, RowsFor, Concerns, KeptTab

\* Neither a test of a tab nor a section of one goes.
LEMMA CarefulKept ==
  ASSUME CreationInv, \A t \in Tabs : KeptTab(t), UNCHANGED <<deletes, blind>>,
         \A t \in Tabs : tab[t].test \in Existing' =>
            tab[t].test \in Existing /\ secs[tab[t].test] \subseteq secs'[tab[t].test]
  PROVE  CarefulInv'
  BY DEF CreationInv, CarefulInv, Careful, DeletesOf, KeptTab

LEMMA DullStep ==
  ASSUME CreationInv, Dull
  PROVE  RequestInv' /\ DraftInv' /\ PagesInv' /\ CarefulInv'
<1>1. RequestInv'
  BY RequestsKept DEF Dull
<1>2. DraftInv'
  BY DraftsKept DEF Dull, KeptRequest, StoppedRequest, Idle
<1>3. PagesInv'
  BY PagesKept DEF Dull, KeptRequest, StoppedRequest, Idle
<1>4. CarefulInv'
  BY CarefulKept DEF Dull, Existing
<1> QED
  BY <1>1, <1>2, <1>3, <1>4

\* Which steps those are.
LEMMA DullSteps ==
  ASSUME CreationInv,
         \/ \E t \in Tabs : ToSections(t) \/ ToCreate(t)
         \/ \E r \in Requests :
               \/ GiveUp(r) \/ StatementFails(r) \/ ServerDies(r)
               \/ InsertTest(r) /\ tests' = tests
               \/ InsertSection(r) /\ request[r].test \notin Existing
               \/ Answered(r) /\ ~(request[r].heard /\ request[r].pc = "ok")
         \/ UNCHANGED creationVars
  PROVE  Dull
<1> USE DEF Dull, history
<1>0. tab \in [Tabs -> TabType] /\ request \in [Requests -> RequestType]
        /\ tests \in [TestIds -> Codes \cup {None}]
  BY DEF CreationInv, CreationTypeOK, TabType, RequestType
<1>a. ASSUME NEW t, tab' = [tab EXCEPT ![t].waits = FALSE]
      PROVE  \A u \in Tabs : KeptTab(u) /\ KeptDraft(u)
  BY <1>0, <1>a DEF TabType, KeptTab, KeptDraft
<1>b. ASSUME tab' = tab PROVE \A u \in Tabs : KeptTab(u) /\ KeptDraft(u)
  BY <1>b DEF KeptTab, KeptDraft
<1>c. ASSUME NEW r \in Requests, request' = [request EXCEPT ![r] = Idle]
      PROVE  \A q \in Requests : KeptRequest(q) \/ StoppedRequest(q)
  BY <1>0, <1>c DEF KeptRequest, StoppedRequest
<1>d. ASSUME NEW r \in Requests, request[r].pc # "idle",
             request' = [request EXCEPT ![r].pc = "error"]
      PROVE  \A q \in Requests : KeptRequest(q) \/ StoppedRequest(q)
  BY <1>0, <1>d DEF KeptRequest, StoppedRequest, RequestType
<1>1. CASE \E t \in Tabs : ToSections(t) \/ ToCreate(t)
  <2>1. \A u \in Tabs : KeptTab(u) /\ KeptDraft(u)
    BY <1>0, <1>1 DEF ToSections, ToCreate, TabType, KeptTab, KeptDraft
  <2>2. \A q \in Requests : KeptRequest(q)
    BY <1>1 DEF ToSections, ToCreate, KeptRequest
  <2> QED
    BY <1>1, <2>1, <2>2 DEF ToSections, ToCreate
<1>2. ASSUME NEW r \in Requests, GiveUp(r) PROVE Dull
  <2>1. \A u \in Tabs : KeptTab(u) /\ KeptDraft(u)
    BY <1>2, <1>a DEF GiveUp
  <2>2. \A q \in Requests : KeptRequest(q)
    BY <1>0, <1>2 DEF GiveUp, KeptRequest, RequestType
  <2> QED
    BY <1>2, <2>1, <2>2 DEF GiveUp
<1>3. ASSUME NEW r \in Requests, StatementFails(r) PROVE Dull
  BY <1>3, <1>b, <1>d DEF StatementFails
<1>4. ASSUME NEW r \in Requests, ServerDies(r) PROVE Dull
  <2>1. \A u \in Tabs : KeptTab(u) /\ KeptDraft(u)
    BY <1>0, <1>4 DEF ServerDies, TabType, KeptTab, KeptDraft
  <2> QED
    BY <1>4, <1>c, <2>1 DEF ServerDies
<1>5. ASSUME NEW r \in Requests, InsertTest(r), tests' = tests PROVE Dull
  <2>1. request' = [request EXCEPT ![r].pc = "error"] /\ UNCHANGED <<tests, made, broken, cut>>
    <3>1. ASSUME NEW i \in TestIds, Unused(i), tests' = [tests EXCEPT ![i] = request[r].code]
          PROVE  FALSE
      <4>1. tests[i] = None /\ tests'[i] = request[r].code
        BY <1>0, <3>1 DEF Unused, Existing
      <4>2. request[r].code # None
        BY <1>5, FirstCode DEF InsertTest, CreationInv, RequestInv, RequestsOK
      <4> QED
        BY <1>5, <4>1, <4>2
    <3> QED
      BY <1>5, <3>1 DEF InsertTest
  <2> QED
    BY <1>5, <1>b, <1>d, <2>1 DEF InsertTest
<1>6. ASSUME NEW r \in Requests, InsertSection(r), request[r].test \notin Existing PROVE Dull
  BY <1>6, <1>b, <1>d DEF InsertSection
<1>7. ASSUME NEW r \in Requests, Answered(r), ~(request[r].heard /\ request[r].pc = "ok") PROVE Dull
  <2>1. tab' = tab \/ tab' = [tab EXCEPT ![request[r].tab].waits = FALSE]
    BY <1>7 DEF Answered
  <2> QED
    BY <1>7, <1>a, <1>b, <1>c, <2>1 DEF Answered
<1>8. CASE UNCHANGED creationVars
  BY <1>8, <1>b DEF creationVars, KeptRequest
<1> QED
  BY <1>1, <1>2, <1>3, <1>4, <1>5, <1>6, <1>7, <1>8

-----------------------------------------------------------------------------
(* The other steps of drafts and requests *)

LEMMA CreationTyped ==
  ASSUME CreationInv
  PROVE  /\ tab \in [Tabs -> TabType] /\ request \in [Requests -> RequestType]
         /\ tests \in [TestIds -> Codes \cup {None}]
         /\ secs \in [TestIds -> SUBSET EverySection]
         /\ deletes \subseteq DeleteType /\ made \in [Tabs -> SUBSET TestIds]
         /\ None \notin cut /\ None \notin TestIds /\ Existing \subseteq TestIds
  BY CreationAssumption
     DEF CreationInv, CreationTypeOK, TabType, RequestType, DeleteType, Existing

LEMMA ProposeStep ==
  ASSUME CreationInv, NEW t \in Tabs, ProposeCode(t)
  PROVE  RequestInv' /\ DraftInv' /\ PagesInv' /\ CarefulInv'
<1>1. PICK c : /\ tab' = [tab EXCEPT ![t].code = c] /\ tab[t].code = First
               /\ recoded' = IF c # First /\ tab[t].tried THEN recoded \cup {t} ELSE recoded
               /\ UNCHANGED <<tests, secs, request, deletes, made, broken, cut, blind>>
  BY DEF ProposeCode
<1>2. \A u \in Tabs : /\ KeptTab(u) /\ tab'[u].tried = tab[u].tried
                      /\ u # t => tab'[u].code = tab[u].code
                      /\ u = t => tab'[u].code = c
  BY <1>1, CreationTyped DEF KeptTab, TabType
<1>3. \A r \in Requests : KeptRequest(r)
  BY <1>1 DEF KeptRequest
<1>4. RequestInv' /\ PagesInv' /\ CarefulInv'
  BY <1>1, <1>2, <1>3, RequestsKept, PagesKept, CarefulKept DEF KeptRequest, Existing
<1>5. DraftInv'
  <2> USE DEF CreationInv, DraftInv
  <2>0. Existing' = Existing
    BY <1>1 DEF Existing
  <2>1. \A u \in Tabs \ recoded' :
           u \in Tabs \ recoded /\ (tab'[u].code = tab[u].code \/ ~tab[u].tried)
    BY <1>1, <1>2
  <2>2. \A r \in Requests : request[r].pc # "idle" => request[r].tab \in Tabs
    BY DEF RequestInv, RequestsOK
  <2> QED
    BY <1>1, <1>2, <2>0, <2>1, <2>2
<1> QED
  BY <1>4, <1>5

LEMMA FinishStep ==
  ASSUME CreationInv, NEW t \in Tabs, NEW r \in Requests, FinishTest(t, r)
  PROVE  RequestInv' /\ DraftInv' /\ PagesInv' /\ CarefulInv'
<1>1. /\ request[r].pc = "idle" /\ tab' = [tab EXCEPT ![t].waits = TRUE, ![t].tried = TRUE]
      /\ request' = [request EXCEPT ![r] = [Idle EXCEPT !.pc = "test", !.tab = t,
                                                       !.code = tab[t].code, !.heard = TRUE]]
      /\ UNCHANGED <<tests, secs, deletes, made, recoded, broken, cut, blind>>
  BY DEF FinishTest, history
<1>2. \A u \in Tabs : KeptTab(u) /\ KeptDraft(u) /\ tab'[u].code = tab[u].code
  BY <1>1, CreationTyped DEF KeptTab, KeptDraft, TabType
<1>3. /\ request'[r].pc = "test" /\ request'[r].tab = t /\ request'[r].code = tab[t].code
      /\ request'[r].test = None /\ request'[r].next = 1 /\ tab'[t].tried
      /\ \A q \in Requests \ {r} : request'[q] = request[q]
  BY <1>1, CreationTyped DEF Idle, TabType
<1>4. request[r].test = None /\ tab[t].code \in Codes
  BY <1>1, CreationTyped DEF CreationInv, RequestInv, RequestsOK, TabType
<1>5. Existing' = Existing
  BY <1>1 DEF Existing
<1>6. RequestInv'
  <2> USE DEF CreationInv, RequestInv
  <2>1. RequestsOK'
    BY <1>3, <1>4 DEF RequestsOK
  <2>2. Distinct'
    BY <1>2, <1>3, <1>4 DEF Distinct, KeptTab
  <2>3. Writing'
    BY <1>1, <1>3, <1>4, <1>5, CreationTyped DEF Writing
  <2>4. SuccessMeansWhole'
    BY <1>1, <1>2, <1>5 DEF SuccessMeansWhole, KeptTab
  <2> QED
    BY <2>1, <2>2, <2>3, <2>4
<1>7. PagesInv'
  BY <1>1, <1>2, <1>3, <1>4, PagesKept
<1>8. CarefulInv'
  BY <1>1, <1>2, <1>5, CarefulKept
<1>9. DraftInv'
  <2>1. \A q \in Requests : request[q].pc # "idle" => request[q].tab \in Tabs
    BY DEF CreationInv, RequestInv, RequestsOK
  <2>u. UNCHANGED <<tests, made, recoded>>
    BY <1>1
  <2> USE DEF CreationInv, DraftInv, KeptDraft
  <2>2. \A i, j \in Existing' : tests'[i] = tests'[j] => i = j
    BY <2>u, <1>5
  <2>3. \A u \in Tabs : made'[u] # {} => tab'[u].tried
    BY <2>u, <1>2
  <2>4. \A q \in Requests : request'[q].pc # "idle" => tab'[request'[q].tab].tried
    BY <2>1, <1>2, <1>3
  <2>5. \A u \in Tabs \ recoded' : \A i \in made'[u] \cap Existing' : tests'[i] = tab'[u].code
    BY <2>u, <1>2, <1>5
  <2>6. \A q \in Requests : request'[q].pc = "test" /\ request'[q].tab \notin recoded'
          => request'[q].code = tab'[request'[q].tab].code
    BY <2>u, <2>1, <1>2, <1>3
  <2> QED
    BY <2>2, <2>3, <2>4, <2>5, <2>6
<1> QED
  BY <1>6, <1>7, <1>8, <1>9

\* A new test: nothing is about its id, and no test has its code.
LEMMA InsertTestStep ==
  ASSUME CreationInv, NEW r \in Requests, InsertTest(r), tests' # tests
  PROVE  RequestInv' /\ DraftInv' /\ PagesInv' /\ CarefulInv'
<1>1. PICK i \in TestIds :
         /\ Unused(i) /\ \A j \in Existing : tests[j] # request[r].code
         /\ tests' = [tests EXCEPT ![i] = request[r].code]
         /\ request' = [request EXCEPT ![r].pc = "section", ![r].test = i]
         /\ made' = [t \in Tabs |-> IF t = request[r].tab THEN made[t] \cup {i}
                                                         ELSE made[t] \ {i}]
         /\ cut' = cut \ {i}
         /\ request[r].pc = "test" /\ UNCHANGED <<secs, tab, deletes, recoded, blind>>
  BY DEF InsertTest
<1>u. UNCHANGED <<secs, tab, deletes, recoded, blind>> /\ i \notin cut'
        /\ \A j : j # i => (j \in cut' <=> j \in cut)
  BY <1>1
<1>2. /\ request[r].test = None /\ request[r].next = 1 /\ request[r].tab \in Tabs
      /\ request[r].code \in Codes /\ request[r].code # None
  BY <1>1, FirstCode DEF CreationInv, RequestInv, RequestsOK
<1>3. /\ request'[r].pc = "section" /\ request'[r].test = i /\ request'[r].next = 1
      /\ request'[r].tab = request[r].tab /\ request'[r].code = request[r].code
      /\ \A q \in Requests \ {r} : request'[q] = request[q]
  BY <1>1, <1>2, CreationTyped DEF RequestType
<1>4. /\ i \notin Existing /\ Existing' = Existing \cup {i} /\ tests'[i] = request[r].code
      /\ \A j \in Existing : tests'[j] = tests[j]
  BY <1>1, <1>2, CreationTyped DEF Existing, Unused
<1>5. /\ \A q \in Requests : request[q].test # i
      /\ \A t \in Tabs : tab[t].test # i /\ \A x \in tab[t].shown : x[1] # i
      /\ \A d \in deletes : d.row[1] # i
  BY <1>1 DEF Unused
<1>6. RequestInv'
  <2> USE DEF CreationInv, RequestInv
  <2>1. RequestsOK'
    BY <1>2, <1>3, CreationAssumption DEF RequestsOK
  <2>2. Distinct'
    <3>1. \A p, q \in Requests :
             request'[q].test # None /\ request'[q].test = request'[p].test => q = p
      BY <1>3, <1>5 DEF Distinct
    <3>2. \A q \in Requests, t \in Tabs : request'[q].test # None => request'[q].test # tab[t].test
      BY <1>3, <1>5 DEF Distinct
    <3> QED
      BY <1>u, <3>1, <3>2 DEF Distinct
  <2>3. Writing'
    <3>1. secs[i] = {} /\ 1..(1 - 1) = {}
      BY <1>4 DEF Writing
    <3>2. /\ request'[r].test \notin cut' /\ secs'[request'[r].test] = 1..(request'[r].next - 1)
          /\ request'[r].pc = "section"
      BY <1>u, <1>3, <3>1
    <3>3. ASSUME NEW q \in Requests
          PROVE  /\ request'[q].test \notin cut'
                 /\ request'[q].test \in Existing' =>
                     /\ request'[q].pc = "section" =>
                           secs'[request'[q].test] = 1..(request'[q].next - 1)
                     /\ request'[q].pc = "ok" => secs'[request'[q].test] = EverySection
      <4>1. CASE q = r
        BY <3>2, <4>1
      <4>2. CASE q # r
        BY <1>u, <1>3, <1>4, <1>5, <4>2 DEF Writing
      <4> QED
        BY <4>1, <4>2
    <3>4. \A j \in TestIds \ Existing' : secs'[j] = {}
      BY <1>u, <1>4 DEF Writing
    <3> QED
      BY <3>3, <3>4 DEF Writing
  <2>4. SuccessMeansWhole'
    BY <1>1, <1>4, <1>5 DEF SuccessMeansWhole
  <2> QED
    BY <2>1, <2>2, <2>3, <2>4
<1>7. PagesInv'
  <2>1. \A d \in deletes : \A x \in d.seen : x[1] # i
    BY <1>5 DEF CreationInv, PagesInv, RowsFor
  <2>2. \A x, t : Concerns(x, t) /\ x[1] # i => Concerns(x, t)'
    BY <1>1, <1>3 DEF Concerns
  <2> QED
    BY <1>1, <1>5, <2>1, <2>2 DEF CreationInv, PagesInv, RowsFor
<1>8. CarefulInv'
  <2>1. \A t \in Tabs : KeptTab(t)
    BY <1>1 DEF KeptTab
  <2> QED
    BY <1>1, <1>4, <1>5, <2>1, CarefulKept
<1>9. DraftInv'
  <2> USE DEF CreationInv, DraftInv
  <2>1. \A j, k \in Existing' : tests'[j] = tests'[k] => j = k
    BY <1>1, <1>4
  <2>2. \A t \in Tabs : made'[t] # {} => tab'[t].tried
    BY <1>1
  <2>3. \A q \in Requests : request'[q].pc # "idle" => tab'[request'[q].tab].tried
    BY <1>1, <1>3
  <2>4. ASSUME NEW t \in Tabs \ recoded, NEW j \in made'[t] \cap Existing'
        PROVE  tests'[j] = tab'[t].code
    BY <1>1, <1>2, <1>4, <2>4
  <2>5. \A q \in Requests : request'[q].pc = "test" /\ request'[q].tab \notin recoded'
          => request'[q].code = tab'[request'[q].tab].code
    BY <1>u, <1>3
  <2> QED
    BY <1>u, <2>1, <2>2, <2>3, <2>4, <2>5
<1> QED
  BY <1>6, <1>7, <1>8, <1>9

LEMMA InsertSectionStep ==
  ASSUME CreationInv, NEW r \in Requests, InsertSection(r), request[r].test \in Existing
  PROVE  RequestInv' /\ DraftInv' /\ PagesInv' /\ CarefulInv'
<1> DEFINE i == request[r].test
           n == request[r].next
<1>1. /\ request[r].pc = "section" /\ secs' = [secs EXCEPT ![i] = secs[i] \cup {n}]
      /\ request' = [request EXCEPT ![r].next = n + 1,
                                   ![r].pc = IF n = Sections THEN "ok" ELSE "section"]
      /\ UNCHANGED <<tests, tab, deletes, made, recoded, broken, cut, blind>>
      /\ i \in TestIds
  BY CreationTyped DEF InsertSection, history
<1>u. UNCHANGED <<tests, tab, deletes, made, recoded, broken, cut, blind>>
  BY <1>1
<1>2. n \in 1..Sections /\ secs[i] = 1..(n - 1)
  BY <1>1 DEF CreationInv, RequestInv, RequestsOK, Writing
<1>3. /\ request'[r].test = i /\ request'[r].next = n + 1
      /\ request'[r].pc = IF n = Sections THEN "ok" ELSE "section"
      /\ request'[r].tab = request[r].tab /\ request'[r].code = request[r].code
      /\ \A q \in Requests \ {r} : request'[q] = request[q]
  BY <1>1, CreationTyped DEF RequestType
<1>4. /\ secs'[i] = 1..n /\ \A j \in TestIds \ {i} : secs'[j] = secs[j]
      /\ Existing' = Existing
  <2>1. \A k \in Nat \ {0} : 1..(k - 1) \cup {k} = 1..k
    OBVIOUS
  <2>2. n \in Nat \ {0}
    BY <1>2, CreationAssumption
  <2> QED
    BY <1>1, <1>2, <2>1, <2>2, CreationTyped DEF Existing
<1>5. /\ \A q \in Requests \ {r} : request[q].test # i
      /\ \A t \in Tabs : tab[t].test # i
  BY <1>1, CreationTyped DEF CreationInv, RequestInv, Distinct
<1> HIDE DEF i, n
<1>6. RequestInv'
  <2> USE DEF CreationInv, RequestInv
  <2>1. RequestsOK'
    <3>1. n # Sections => n + 1 \in 1..Sections
      BY <1>2, CreationAssumption
    <3>2. request[r].tab \in Tabs /\ request[r].code \in Codes
      BY <1>1 DEF RequestsOK
    <3> QED
      <4>1. request'[r].pc \in {"section", "ok"} /\ request[r].pc = "section" /\ i \in TestIds
        BY <1>1, <1>3
      <4>2. request'[r].pc = "section" => request'[r].next \in 1..Sections
        BY <1>3, <3>1
      <4> QED
        BY <1>3, <3>2, <4>1, <4>2 DEF RequestsOK
  <2>2. Distinct'
    BY <1>u, <1>3, <1>5 DEF Distinct, i
  <2>3. Writing'
    <3>1. i \notin cut /\ i \in Existing
      BY DEF Writing, i
    <3>2. (n + 1) - 1 = n /\ 1..Sections = EverySection
      BY <1>2 DEF EverySection
    <3>3. \A q \in Requests \ {r} : request'[q].test \in Existing =>
             request'[q].test \in TestIds /\ secs'[request'[q].test] = secs[request'[q].test]
      BY <1>3, <1>4, <1>5, CreationTyped
    <3>4. /\ request'[r].pc = "section" => secs'[i] = 1..(request'[r].next - 1)
          /\ request'[r].pc = "ok" => secs'[i] = EverySection
      BY <1>3, <1>4, <3>2
    <3>5. \A q \in Requests \ {r} : request'[q] = request[q] /\ request'[q].test \notin cut'
      BY <1>u, <1>3 DEF Writing
    <3>6. \A q \in Requests \ {r} : request'[q].test \in Existing' =>
             /\ request'[q].pc = "section" => secs'[request'[q].test] = 1..(request'[q].next - 1)
             /\ request'[q].pc = "ok" => secs'[request'[q].test] = EverySection
      BY <1>4, <3>3, <3>5 DEF Writing
    <3>7. \A j \in TestIds \ Existing' : secs'[j] = {}
      BY <1>4, <3>1 DEF Writing
    <3> QED
      BY <1>u, <1>3, <3>1, <3>4, <3>5, <3>6, <3>7 DEF Writing
  <2>4. SuccessMeansWhole'
    BY <1>1, <1>4, <1>5, CreationTyped DEF SuccessMeansWhole
  <2> QED
    BY <2>1, <2>2, <2>3, <2>4
<1>7. \A t \in Tabs : KeptTab(t) /\ KeptDraft(t)
  BY <1>1 DEF KeptTab, KeptDraft
<1>8. DraftInv'
  <2>1. \A q \in Requests :
           /\ request'[q].pc # "idle" => request[q].pc # "idle" /\ request'[q].tab = request[q].tab
           /\ request'[q].pc = "test" =>
                 request[q].pc = "test" /\ request'[q].code = request[q].code
    <3>1. request[r].pc # "idle" /\ request'[r].pc # "test"
      BY <1>1, <1>3
    <3> QED
      BY <1>3, <3>1
  <2> QED
    BY <1>u, <1>7, <2>1, DraftsKept
<1>9. PagesInv'
  <2>1. \A q \in Requests : request'[q].test \in {request[q].test, None}
    BY <1>3 DEF i
  <2> QED
    BY <1>1, <1>7, <2>1, PagesKept
<1>10. CarefulInv'
  BY <1>1, <1>4, <1>5, <1>7, CreationTyped, CarefulKept
<1> QED
  BY <1>6, <1>8, <1>9, <1>10

\* The answer 200 is heard: the test that was written becomes the tab's.
LEMMA SuccessStep ==
  ASSUME CreationInv, NEW r \in Requests, Answered(r), request[r].heard, request[r].pc = "ok"
  PROVE  RequestInv' /\ DraftInv' /\ PagesInv' /\ CarefulInv'
<1> DEFINE t == request[r].tab
           i == request[r].test
<1>1. /\ tab' = [tab EXCEPT ![t].waits = FALSE, ![t].page = "success", ![t].test = i,
                            ![t].shown = {}]
      /\ request' = [request EXCEPT ![r] = Idle]
      /\ UNCHANGED <<tests, secs, deletes, made, recoded, broken, cut, blind>>
  BY DEF Answered, history
<1>u. UNCHANGED <<tests, secs, deletes, made, recoded, broken, cut, blind>>
  BY <1>1
<1>2. t \in Tabs /\ i \in TestIds /\ i # None /\ i \notin cut
        /\ (i \in Existing => secs[i] = EverySection)
  BY CreationTyped DEF CreationInv, RequestInv, RequestsOK, Writing
<1>3. /\ tab'[t].page = "success" /\ tab'[t].test = i /\ tab'[t].shown = {}
      /\ \A u \in Tabs : tab'[u].code = tab[u].code /\ tab'[u].tried = tab[u].tried
      /\ \A u \in Tabs \ {t} : tab'[u] = tab[u]
  BY <1>1, <1>2, CreationTyped DEF TabType
<1>4. /\ request'[r] = Idle /\ \A q \in Requests \ {r} : request'[q] = request[q]
      /\ Existing' = Existing
  BY <1>1, CreationTyped DEF Existing
<1>5. /\ \A q \in Requests \ {r} : request[q].test # i
      /\ \A u \in Tabs : tab[u].test # i
  BY <1>2 DEF CreationInv, RequestInv, Distinct
<1> HIDE DEF t, i
<1>6. RequestInv'
  <2> USE DEF CreationInv, RequestInv
  <2>1. RequestsOK'
    BY <1>4 DEF RequestsOK, Idle
  <2>2. Distinct'
    <3>1. request'[r].test = None
      BY <1>4 DEF Idle
    <3> QED
      BY <1>2, <1>3, <1>4, <1>5, <3>1 DEF Distinct
  <2>3. Writing'
    BY <1>1, <1>4, CreationTyped DEF Writing, Idle
  <2>4. SuccessMeansWhole'
    BY <1>u, <1>2, <1>3, <1>4 DEF SuccessMeansWhole
  <2> QED
    BY <2>1, <2>2, <2>3, <2>4
<1>7. DraftInv'
  <2>1. \A u \in Tabs : KeptDraft(u)
    BY <1>3 DEF KeptDraft
  <2>2. request'[r].pc = "idle"
    BY <1>4 DEF Idle
  <2>3. \A k \in TestIds : tests'[k] \in {tests[k], None}
    BY <1>u
  <2> QED
    BY <1>u, <1>4, <2>1, <2>2, <2>3, DraftsKept
<1>8. \A x, u : Concerns(x, u) /\ x \in Rows => Concerns(x, u)' /\ x[1] # i
  <2>1. \A x, u : Concerns(x, u) => x[1] # i
    BY DEF Concerns, i
  <2>2. request'[r].test = None /\ \A x \in Rows : x[1] # None
    BY <1>4, RowsAreRows DEF Idle, CreationInv
  <2> QED
    BY <1>3, <1>4, <2>1, <2>2 DEF Concerns
<1>9. PagesInv'
  <2>0. CreationTypeOK /\ PagesInv
    BY DEF CreationInv
  <2>1. \A u \in Tabs : \A x \in tab'[u].shown : x \in tab[u].shown
    BY <1>3
  <2>2. \A u \in Tabs : \A x \in tab[u].shown : Concerns(x, u)'
    BY <1>8, <2>0, RowsAreRows DEF PagesInv, RowsFor
  <2>3. \A d \in deletes : \A x \in d.seen : Concerns(x, d.tab)'
    BY <1>8, <2>0, RowsAreRows DEF PagesInv, RowsFor
  <2>4. \A u \in Tabs : RowsFor(tab[u].shown, u)'
    BY <2>0, <2>1, <2>2 DEF PagesInv, RowsFor
  <2>5. \A d \in deletes : RowsFor(d.seen, d.tab)' /\ d.row \in d.seen
    BY <2>0, <2>3 DEF PagesInv, RowsFor
  <2> QED
    BY <1>u, <2>4, <2>5 DEF PagesInv
<1>10. CarefulInv'
  <2> USE DEF CreationInv, CarefulInv
  <2>1. ASSUME NEW u \in Tabs \ blind, u # t PROVE Careful(u)'
    BY <1>u, <1>3, <1>4, <2>1 DEF Careful, DeletesOf
  <2>2. ASSUME NEW u \in Tabs \ blind, u = t PROVE Careful(u)'
    <3>1. \A d \in DeletesOf(u) : d.row[1] # i
      BY <1>8, RowsAreRows DEF DeletesOf, PagesInv, RowsFor
    <3>2. \A d, e \in DeletesOf(u) : d = e
      BY <2>2 DEF Careful
    <3>3. i \in Existing => secs[i] # {}
      <4>1. 1 \in EverySection
        BY CreationAssumption DEF EverySection
      <4> QED
        BY <1>2, <4>1
    <3>4. DeletesOf(u)' = DeletesOf(u)
      BY <1>u DEF DeletesOf
    <3>5. \A d, e \in DeletesOf(u)' : d = e
      BY <3>2, <3>4
    <3>6. \A d \in DeletesOf(u)' : d.row[1] # tab'[u].test
      BY <1>3, <2>2, <3>1, <3>4
    <3>7. tab'[u].test \in Existing' => secs'[tab'[u].test] # {}
      BY <1>u, <1>3, <1>4, <2>2, <3>3
    <3> QED
      BY <1>3, <2>2, <3>5, <3>6, <3>7 DEF Careful
  <2> QED
    BY <1>u, <2>1, <2>2
<1> QED
  BY <1>6, <1>7, <1>9, <1>10

LEMMA DeleteTestStep ==
  ASSUME CreationInv, NEW i \in TestIds, DeleteTest(i)
  PROVE  RequestInv' /\ DraftInv' /\ PagesInv' /\ CarefulInv'
<1>1. /\ tests' = [tests EXCEPT ![i] = None] /\ secs' = [secs EXCEPT ![i] = {}]
      /\ UNCHANGED <<tab, request, deletes, made, recoded, broken, cut, blind>>
  BY DEF DeleteTest, history
<1>2. /\ Existing' = Existing \ {i} /\ secs'[i] = {}
      /\ \A j \in TestIds \ {i} : secs'[j] = secs[j]
  BY <1>1, CreationTyped DEF Existing
<1>3. \A t \in Tabs : KeptTab(t) /\ KeptDraft(t)
  BY <1>1 DEF KeptTab, KeptDraft
<1>4. RequestInv'
  <2> USE DEF CreationInv, RequestInv
  <2>1. RequestsOK' /\ Distinct'
    BY <1>1 DEF RequestsOK, Distinct
  <2>2. \A j \in Existing' : j \in Existing /\ secs'[j] = secs[j]
    BY <1>2, CreationTyped
  <2>3. Writing'
    BY <1>1, <1>2, <2>2 DEF Writing
  <2>4. SuccessMeansWhole'
    BY <1>1, <2>2 DEF SuccessMeansWhole
  <2> QED
    BY <2>1, <2>3, <2>4
<1>5. DraftInv'
  <2>1. \A j \in TestIds : tests'[j] \in {tests[j], None}
    BY <1>1, CreationTyped
  <2> QED
    BY <1>1, <1>3, <2>1, DraftsKept
<1>6. PagesInv'
  BY <1>1, <1>3, PagesKept
<1>7. CarefulInv'
  BY <1>1, <1>2, <1>3, CreationTyped, CarefulKept
<1> QED
  BY <1>4, <1>5, <1>6, <1>7

-----------------------------------------------------------------------------
(* The steps of createSuccess *)

\* No request and no draft has to do with these.
LEMMA DeletionsKeep ==
  ASSUME CreationInv, UNCHANGED <<tests, request, made, recoded>>,
         \A t \in Tabs : KeptDraft(t)
  PROVE  DraftInv'
  BY DraftsKept

LEMMA LoadSectionsStep ==
  ASSUME CreationInv, NEW t \in Tabs, LoadSections(t)
  PROVE  RequestInv' /\ DraftInv' /\ PagesInv' /\ CarefulInv'
<1> DEFINE i == tab[t].test
           s == {i} \X secs[i]
<1>1. tab[t].page = "success" /\ tab[t].shown = {} /\ tab' = [tab EXCEPT ![t].shown = s]
  BY DEF LoadSections
<1>u. UNCHANGED <<tests, secs, request, deletes, made, recoded, broken, cut, blind>>
  BY DEF LoadSections, history
<1>2. i \in TestIds /\ i # None /\ \A x \in s : x[1] = i /\ x[2] \in secs[i]
  BY <1>1, CreationTyped DEF CreationInv, RequestInv, Distinct, TabType
<1> HIDE DEF i, s
<1>3. /\ tab'[t].shown = s
      /\ \A u \in Tabs : /\ tab'[u].test = tab[u].test /\ tab'[u].page = tab[u].page
                         /\ tab'[u].code = tab[u].code /\ tab'[u].tried = tab[u].tried
      /\ \A u \in Tabs \ {t} : tab'[u] = tab[u]
  BY <1>1, CreationTyped DEF TabType
<1>4. /\ \A r \in Requests : request[r].test # i
      /\ \A u \in Tabs : tab[u].test = i => u = t
  BY <1>2 DEF CreationInv, RequestInv, Distinct, i
<1>5. Existing' = Existing
  BY <1>u DEF Existing
<1>6. RequestInv'
  <2> USE DEF CreationInv, RequestInv
  <2>1. RequestsOK' /\ Writing'
    BY <1>u, <1>5 DEF RequestsOK, Writing
  <2>2. Distinct'
    BY <1>u, <1>3 DEF Distinct
  <2>3. SuccessMeansWhole'
    BY <1>u, <1>3, <1>5 DEF SuccessMeansWhole
  <2> QED
    BY <2>1, <2>2, <2>3
<1>7. DraftInv'
  BY <1>u, <1>3, DeletionsKeep DEF KeptDraft
<1>8. \A x, u : Concerns(x, u) <=> Concerns(x, u)'
  BY <1>u, <1>3 DEF Concerns
<1>9. PagesInv'
  <2>1. RowsFor(s, t)
    BY <1>2, <1>4 DEF RowsFor, Concerns
  <2>2. \A u \in Tabs : RowsFor(tab'[u].shown, u)
    BY <1>3, <2>1 DEF CreationInv, PagesInv
  <2>3. \A q, u : RowsFor(q, u) => RowsFor(q, u)'
    BY <1>8 DEF RowsFor
  <2>4. \A u \in Tabs : RowsFor(tab[u].shown, u)'
    BY <1>8, <2>2 DEF RowsFor
  <2>5. \A d \in deletes : RowsFor(d.seen, d.tab)' /\ d.row \in d.seen
    BY <2>3 DEF CreationInv, PagesInv
  <2> QED
    BY <1>u, <2>4, <2>5 DEF PagesInv
<1>10. CarefulInv'
  <2> USE DEF CreationInv, CarefulInv
  <2>1. ASSUME NEW u \in Tabs \ blind, u # t PROVE Careful(u)'
    BY <1>u, <1>3, <1>5, <2>1 DEF Careful, DeletesOf
  <2>2. ASSUME NEW u \in Tabs \ blind, u = t PROVE Careful(u)'
    <3>1. Careful(u) /\ DeletesOf(u)' = DeletesOf(u) /\ tab[u].test = i
      BY <1>u, <2>2 DEF DeletesOf, i
    <3>2. \A d, e \in DeletesOf(u)' : d = e
      BY <3>1 DEF Careful
    <3>3. \A d \in DeletesOf(u)' : d.row[1] # i
      BY <1>1, <2>2, <3>1 DEF Careful, PagesInv, DeletesOf
    <3>4. \A x \in tab'[u].shown : x[2] \in secs'[x[1]]
      BY <1>u, <1>2, <1>3, <2>2
    <3>5. tab'[u].page = "success" /\ tab'[u].test \in Existing' => secs'[tab'[u].test] # {}
      BY <1>u, <1>3, <1>5, <2>2, <3>1 DEF Careful
    <3>6. tab'[u].test = i
      BY <1>3, <2>2, <3>1
    <3> QED
      BY <3>2, <3>3, <3>4, <3>5, <3>6 DEF Careful
  <2> QED
    BY <1>u, <2>1, <2>2
<1> QED
  BY <1>6, <1>7, <1>9, <1>10

\* More than one row is shown, so the row is not all of them.
LEMMA ClickStep ==
  ASSUME CreationInv, NEW t \in Tabs, NEW x \in Rows, ClickDelete(t, x)
  PROVE  RequestInv' /\ DraftInv' /\ PagesInv' /\ CarefulInv'
<1> DEFINE n == [tab |-> t, row |-> x, seen |-> tab[t].shown, done |-> FALSE]
<1>1. /\ x \in tab[t].shown /\ deletes' = deletes \cup {n}
      /\ blind' = IF DeletesOf(t) # {} THEN blind \cup {t} ELSE blind
  BY DEF ClickDelete
<1>u. UNCHANGED <<tests, secs, tab, request, made, recoded, broken, cut>>
  BY DEF ClickDelete
<1>2. tab[t].shown # {x}
  BY FS_Singleton DEF ClickDelete
<1>3. n.tab = t /\ n.row = x /\ n.seen = tab[t].shown
  OBVIOUS
<1> HIDE DEF n
<1>4. \A u \in Tabs : KeptTab(u) /\ KeptDraft(u)
  BY <1>u DEF KeptTab, KeptDraft
<1>5. \A r \in Requests : KeptRequest(r)
  BY <1>u DEF KeptRequest
<1>6. RequestInv' /\ DraftInv'
  BY <1>u, <1>4, <1>5, RequestsKept, DeletionsKeep
<1>7. PagesInv'
  <2>1. \A q, u : RowsFor(q, u) => RowsFor(q, u)'
    BY <1>u DEF RowsFor, Concerns
  <2>2. \A u \in Tabs : RowsFor(tab[u].shown, u)'
    BY <1>u, <2>1 DEF CreationInv, PagesInv, RowsFor
  <2>3. \A d \in deletes' : RowsFor(d.seen, d.tab) /\ d.row \in d.seen
    BY <1>1, <1>3 DEF CreationInv, PagesInv
  <2>4. \A d \in deletes' : RowsFor(d.seen, d.tab)' /\ d.row \in d.seen
    BY <2>1, <2>3
  <2> QED
    BY <2>2, <2>4 DEF PagesInv
<1>8. CarefulInv'
  <2> SUFFICES ASSUME NEW u \in Tabs \ blind' PROVE Careful(u)'
    BY DEF CarefulInv
  <2>0. u \notin blind /\ Careful(u) /\ Existing' = Existing
    BY <1>1, <1>u DEF CreationInv, CarefulInv, Existing
  <2>1. CASE u # t
    <3>1. DeletesOf(u)' = DeletesOf(u)
      BY <1>1, <1>3, <2>1 DEF DeletesOf
    <3> QED
      BY <1>u, <2>0, <3>1 DEF Careful
  <2>2. CASE u = t
    <3>1. DeletesOf(t) = {}
      BY <1>1, <2>2
    <3>2. DeletesOf(u)' = {n}
      BY <1>1, <1>3, <2>2, <3>1 DEF DeletesOf
    <3>3. \A d \in DeletesOf(u)' : d.seen = tab'[u].shown /\ d.seen # {d.row}
      BY <1>u, <1>2, <1>3, <2>2, <3>2
    <3>4. \A y \in tab'[u].shown : y[1] = tab'[u].test /\ y[1] \in Existing' => y[2] \in secs'[y[1]]
      BY <1>u, <2>0, <2>2, <3>1 DEF Careful
    <3>5. tab'[u].page = "success" /\ tab'[u].test \in Existing' => secs'[tab'[u].test] # {}
      BY <1>u, <2>0 DEF Careful
    <3> QED
      BY <3>2, <3>3, <3>4, <3>5 DEF Careful
  <2> QED
    BY <2>1, <2>2
<1> QED
  BY <1>6, <1>7, <1>8

\* Fewer deletions under way: the rows that are shown stay, and so does the database.
LEMMA FewerDeletes ==
  ASSUME CreationInv, NEW d \in deletes, deletes' = deletes \ {d}, ~d.done,
         blind' = blind, UNCHANGED <<tests, secs, tab, request, made, recoded, cut>>
  PROVE  RequestInv' /\ DraftInv' /\ PagesInv' /\ CarefulInv'
<1>1. \A u \in Tabs : KeptTab(u) /\ KeptDraft(u)
  BY DEF KeptTab, KeptDraft
<1>2. \A r \in Requests : KeptRequest(r)
  BY DEF KeptRequest
<1>3. RequestInv' /\ DraftInv'
  BY <1>1, <1>2, RequestsKept, DeletionsKeep
<1>4. PagesInv'
  BY <1>1, PagesKept
<1>5. CarefulInv'
  <2> SUFFICES ASSUME NEW u \in Tabs \ blind PROVE Careful(u)'
    BY DEF CarefulInv
  <2>1. Careful(u) /\ Existing' = Existing
    BY DEF CreationInv, CarefulInv, Existing
  <2>2. \A e : e \in DeletesOf(u)' <=> e \in DeletesOf(u) /\ e # d
    BY DEF DeletesOf
  <2> QED
    BY <2>1, <2>2 DEF Careful
<1> QED
  BY <1>3, <1>4, <1>5

\* The row is deleted: it is of a test that only its own tab is about.
LEMMA DeleteRowStep ==
  ASSUME CreationInv, NEW d \in deletes, DeleteSection(d), d.row[2] \in secs[d.row[1]]
  PROVE  RequestInv' /\ DraftInv' /\ PagesInv' /\ CarefulInv'
<1> DEFINE i == d.row[1]
           n == [d EXCEPT !.done = TRUE]
<1>1. /\ ~d.done /\ secs' = [secs EXCEPT ![i] = secs[i] \ {d.row[2]}] /\ cut' = cut \cup {i}
      /\ deletes' = (deletes \ {d}) \cup {n}
  BY DEF DeleteSection
<1>u. UNCHANGED <<tests, tab, request, made, recoded, broken, blind>>
  BY DEF DeleteSection
<1>2. /\ d \in DeleteType /\ d.tab \in Tabs /\ d.row \in Rows /\ i \in TestIds /\ i # None
      /\ \A x \in d.seen : x \in Rows
  BY CreationTyped, RowsAreRows DEF CreationInv
<1>3. n.tab = d.tab /\ n.row = d.row /\ n.seen = d.seen /\ n.done
  BY <1>2 DEF DeleteType
<1>4. /\ secs'[i] = secs[i] \ {d.row[2]}
      /\ \A j \in TestIds \ {i} : secs'[j] = secs[j]
  BY <1>1, <1>2, CreationTyped
<1> HIDE DEF n
<1>5. PagesInv /\ RowsFor(d.seen, d.tab) /\ d.row \in d.seen
  BY DEF CreationInv, PagesInv
<1>6. /\ \A r \in Requests : request[r].test # i
      /\ \A u \in Tabs : tab[u].test = i => u = d.tab
  BY <1>5 DEF RowsFor, Concerns
<1> HIDE DEF i
<1>7. \A u \in Tabs : KeptTab(u) /\ KeptDraft(u)
  BY <1>u DEF KeptTab, KeptDraft
<1>8. Existing' = Existing /\ Existing \subseteq TestIds
  BY <1>u DEF Existing
<1>9. DraftInv'
  BY <1>u, <1>7, DeletionsKeep
<1>10. RequestInv'
  <2> USE DEF CreationInv, RequestInv
  <2>1. RequestsOK' /\ Distinct'
    BY <1>u DEF RequestsOK, Distinct
  <2>2. Writing'
    <3>1. \A r \in Requests : request[r].test \notin cut'
      BY <1>1, <1>6 DEF Writing
    <3>2. \A r \in Requests : request[r].test \in Existing =>
             secs'[request[r].test] = secs[request[r].test]
      BY <1>4, <1>6, <1>8
    <3>3. \A j \in TestIds \ Existing : secs'[j] = {}
      BY <1>4 DEF Writing
    <3> QED
      BY <1>u, <1>8, <3>1, <3>2, <3>3 DEF Writing
  <2>3. SuccessMeansWhole'
    <3>1. \A j \in Existing \ cut' : j \in Existing \ cut /\ secs'[j] = secs[j]
      BY <1>1, <1>4, <1>8
    <3> QED
      BY <1>u, <1>8, <3>1 DEF SuccessMeansWhole
  <2> QED
    BY <2>1, <2>2, <2>3
<1>11. PagesInv'
  <2>1. \A q, u : RowsFor(q, u) => RowsFor(q, u)'
    BY <1>u DEF RowsFor, Concerns
  <2>2. \A u \in Tabs : RowsFor(tab[u].shown, u)'
    BY <1>u, <1>5, <2>1 DEF PagesInv, RowsFor
  <2>3. \A e \in deletes' : RowsFor(e.seen, e.tab) /\ e.row \in e.seen
    BY <1>1, <1>3, <1>5 DEF PagesInv
  <2>4. \A e \in deletes' : RowsFor(e.seen, e.tab)' /\ e.row \in e.seen
    BY <2>1, <2>3
  <2> QED
    BY <2>2, <2>4 DEF PagesInv
<1>12. CarefulInv'
  <2> SUFFICES ASSUME NEW u \in Tabs \ blind PROVE Careful(u)'
    BY <1>u DEF CarefulInv
  <2>0. Careful(u)
    BY DEF CreationInv, CarefulInv
  <2>1. CASE u # d.tab
    <3>1. DeletesOf(u)' = DeletesOf(u)
      BY <1>1, <1>3, <2>1 DEF DeletesOf
    <3>2. tab[u].test \in Existing => secs'[tab[u].test] = secs[tab[u].test]
      BY <1>4, <1>6, <1>8, <2>1
    <3> QED
      BY <1>u, <1>8, <2>0, <3>1, <3>2 DEF Careful
  <2>2. CASE u = d.tab
    <3>1. \A e \in DeletesOf(u) : e = d
      BY <2>0, <2>2 DEF Careful, DeletesOf
    <3>2. DeletesOf(u)' = {n}
      BY <1>1, <1>3, <2>2, <3>1 DEF DeletesOf
    <3>3. i = tab[u].test => d.seen = tab[u].shown /\ d.seen # {d.row}
      BY <2>0, <2>2 DEF Careful, DeletesOf, i
    <3>4. \A x \in tab[u].shown : x[1] = tab[u].test /\ x[1] \in Existing => x[2] \in secs[x[1]]
      BY <1>1, <2>0, <3>1 DEF Careful
    <3>5. ASSUME NEW x \in tab[u].shown, x[1] = tab[u].test, x[1] \in Existing, x # d.row
          PROVE  x[2] \in secs'[x[1]]
      <4>1. x \in Rows
        BY RowsAreRows DEF CreationInv
      <4>2. x[1] = i => x[2] # d.row[2]
        BY <1>2, <3>5, <4>1 DEF Rows, i
      <4> QED
        BY <1>4, <1>8, <3>4, <3>5, <4>2
    <3>6. ASSUME tab[u].page = "success", tab[u].test \in Existing PROVE secs'[tab[u].test] # {}
      <4>1. CASE tab[u].test # i
        BY <1>4, <1>8, <2>0, <3>6, <4>1 DEF Careful
      <4>2. CASE tab[u].test = i
        <5>1. PICK y \in tab[u].shown : y # d.row
          BY <1>5, <3>3, <4>2
        <5>2. y[1] = i
          BY <1>5, <3>3, <4>2, <5>1 DEF RowsFor, i
        <5> QED
          BY <3>5, <3>6, <4>2, <5>1, <5>2
      <4> QED
        BY <4>1, <4>2
    <3>7. \A e \in DeletesOf(u)' :
             e.row[1] = tab'[u].test => e.seen = tab'[u].shown /\ e.seen # {e.row}
      BY <1>u, <1>3, <3>2, <3>3 DEF i
    <3>8. \A x \in tab'[u].shown : x[1] = tab'[u].test /\ x[1] \in Existing' =>
             x[2] \in secs'[x[1]] \/ \E e \in DeletesOf(u)' : e.done /\ e.row = x
      BY <1>u, <1>3, <1>8, <3>2, <3>5
    <3> QED
      BY <1>u, <1>8, <3>2, <3>6, <3>7, <3>8 DEF Careful
  <2> QED
    BY <2>1, <2>2
<1> QED
  BY <1>9, <1>10, <1>11, <1>12

\* The page takes the row out of those it saw.
LEMMA RowGoneStep ==
  ASSUME CreationInv, NEW d \in deletes, DeleteAnswered(d)
  PROVE  RequestInv' /\ DraftInv' /\ PagesInv' /\ CarefulInv'
<1> DEFINE s == d.seen \ {d.row}
<1>1. d.done /\ deletes' = deletes \ {d} /\ tab' = [tab EXCEPT ![d.tab].shown = s]
  BY DEF DeleteAnswered
<1>u. UNCHANGED <<tests, secs, request, made, recoded, broken, cut, blind>>
  BY DEF DeleteAnswered, history
<1>2. d.tab \in Tabs
  BY CreationTyped DEF DeleteType
<1>3. \A x \in s : x \in d.seen /\ x # d.row
  OBVIOUS
<1> HIDE DEF s
<1>4. /\ tab'[d.tab].shown = s
      /\ \A u \in Tabs : /\ tab'[u].test = tab[u].test /\ tab'[u].page = tab[u].page
                         /\ tab'[u].code = tab[u].code /\ tab'[u].tried = tab[u].tried
      /\ \A u \in Tabs \ {d.tab} : tab'[u] = tab[u]
  BY <1>1, <1>2, CreationTyped DEF TabType
<1>5. PagesInv /\ RowsFor(d.seen, d.tab) /\ d.row \in d.seen
  BY DEF CreationInv, PagesInv
<1>6. Existing' = Existing
  BY <1>u DEF Existing
<1>7. RequestInv'
  <2> USE DEF CreationInv, RequestInv
  <2>1. RequestsOK' /\ Writing'
    BY <1>u, <1>6 DEF RequestsOK, Writing
  <2>2. Distinct'
    BY <1>u, <1>4 DEF Distinct
  <2>3. SuccessMeansWhole'
    BY <1>u, <1>4, <1>6 DEF SuccessMeansWhole
  <2> QED
    BY <2>1, <2>2, <2>3
<1>8. DraftInv'
  BY <1>u, <1>4, DeletionsKeep DEF KeptDraft
<1>9. PagesInv'
  <2>1. \A x, u : Concerns(x, u) <=> Concerns(x, u)'
    BY <1>u, <1>4 DEF Concerns
  <2>2. \A q, u : RowsFor(q, u) => RowsFor(q, u)'
    BY <2>1 DEF RowsFor
  <2>3. RowsFor(s, d.tab)
    BY <1>3, <1>5 DEF RowsFor
  <2>4. \A u \in Tabs : RowsFor(tab'[u].shown, u)
    BY <1>4, <1>5, <2>3 DEF PagesInv
  <2>5. \A u \in Tabs : RowsFor(tab[u].shown, u)'
    BY <2>1, <2>4 DEF RowsFor
  <2>6. \A e \in deletes' : RowsFor(e.seen, e.tab)' /\ e.row \in e.seen
    BY <1>1, <1>5, <2>2 DEF PagesInv
  <2> QED
    BY <2>5, <2>6 DEF PagesInv
<1>10. CarefulInv'
  <2> SUFFICES ASSUME NEW u \in Tabs \ blind PROVE Careful(u)'
    BY <1>u DEF CarefulInv
  <2>0. Careful(u)
    BY DEF CreationInv, CarefulInv
  <2>1. CASE u # d.tab
    <3>1. DeletesOf(u)' = DeletesOf(u)
      BY <1>1, <2>1 DEF DeletesOf
    <3> QED
      BY <1>u, <1>4, <1>6, <2>0, <2>1, <3>1 DEF Careful
  <2>2. CASE u = d.tab
    <3>1. \A e \in DeletesOf(u) : e = d
      BY <2>0, <2>2 DEF Careful, DeletesOf
    <3>2. DeletesOf(u)' = {}
      BY <1>1, <3>1 DEF DeletesOf
    <3>3. d.row[1] = tab[u].test => d.seen = tab[u].shown
      BY <2>0, <2>2 DEF Careful, DeletesOf
    <3>4. ASSUME NEW x \in s, x[1] = tab[u].test, x[1] \in Existing PROVE x[2] \in secs[x[1]]
      <4>1. x[1] = d.row[1]
        BY <1>3, <1>5 DEF RowsFor
      <4>2. x \in tab[u].shown /\ x # d.row
        BY <1>3, <3>3, <3>4, <4>1
      <4> QED
        BY <2>0, <3>1, <3>4, <4>2 DEF Careful
    <3>5. \A x \in tab'[u].shown : x[1] = tab'[u].test /\ x[1] \in Existing' => x[2] \in secs'[x[1]]
      BY <1>u, <1>4, <1>6, <2>2, <3>4
    <3>6. tab'[u].page = "success" /\ tab'[u].test \in Existing' => secs'[tab'[u].test] # {}
      BY <1>u, <1>4, <1>6, <2>0, <2>2 DEF Careful
    <3> QED
      BY <3>2, <3>5, <3>6 DEF Careful
  <2> QED
    BY <2>1, <2>2
<1> QED
  BY <1>7, <1>8, <1>9, <1>10

\* Its answer is lost: the page goes on showing what is gone.
LEMMA LostStep ==
  ASSUME CreationInv, NEW d \in deletes, DeleteLost(d)
  PROVE  RequestInv' /\ DraftInv' /\ PagesInv' /\ CarefulInv'
<1>1. deletes' = deletes \ {d} /\ blind' = IF d.done THEN blind \cup {d.tab} ELSE blind
  BY DEF DeleteLost
<1>u. UNCHANGED <<tests, secs, tab, request, made, recoded, cut>>
  BY DEF DeleteLost
<1>2. CASE ~d.done
  BY <1>1, <1>u, <1>2, FewerDeletes
<1>3. CASE d.done
  <2>1. \A u \in Tabs : KeptTab(u) /\ KeptDraft(u)
    BY <1>u DEF KeptTab, KeptDraft
  <2>2. \A r \in Requests : KeptRequest(r)
    BY <1>u DEF KeptRequest
  <2>3. RequestInv' /\ DraftInv'
    BY <1>u, <2>1, <2>2, RequestsKept, DeletionsKeep
  <2>4. PagesInv'
    BY <1>1, <1>u, <2>1, PagesKept
  <2>5. ASSUME NEW u \in Tabs \ blind' PROVE Careful(u)'
    <3>1. Careful(u) /\ Existing' = Existing
      BY <1>1, <1>u DEF CreationInv, CarefulInv, Existing
    <3>2. DeletesOf(u)' = DeletesOf(u)
      BY <1>1, <1>3 DEF DeletesOf
    <3> QED
      BY <1>u, <3>1, <3>2 DEF Careful
  <2> QED
    BY <2>3, <2>4, <2>5 DEF CarefulInv
<1> QED
  BY <1>2, <1>3

-----------------------------------------------------------------------------
(* The theorems *)

\* The invariant that the properties follow from.
THEOREM CreationInvariance == CreationSpec => []CreationInv
<1>1. CreationInv /\ [CreationNext]_creationVars => CreationInv'
  <2> SUFFICES ASSUME CreationInv, [CreationNext]_creationVars
               PROVE  RequestInv' /\ DraftInv' /\ PagesInv' /\ CarefulInv'
    BY CreationTypeStep DEF CreationInv
  <2>1. ASSUME NEW t \in Tabs, ProposeCode(t)
        PROVE  RequestInv' /\ DraftInv' /\ PagesInv' /\ CarefulInv'
    BY <2>1, ProposeStep
  <2>2. ASSUME NEW t \in Tabs, ToSections(t) \/ ToCreate(t)
        PROVE  RequestInv' /\ DraftInv' /\ PagesInv' /\ CarefulInv'
    BY <2>2, DullSteps, DullStep
  <2>3. ASSUME NEW t \in Tabs, LoadSections(t)
        PROVE  RequestInv' /\ DraftInv' /\ PagesInv' /\ CarefulInv'
    BY <2>3, LoadSectionsStep
  <2>4. ASSUME NEW t \in Tabs, NEW r \in Requests, FinishTest(t, r)
        PROVE  RequestInv' /\ DraftInv' /\ PagesInv' /\ CarefulInv'
    BY <2>4, FinishStep
  <2>5. ASSUME NEW t \in Tabs, NEW x \in Rows, ClickDelete(t, x)
        PROVE  RequestInv' /\ DraftInv' /\ PagesInv' /\ CarefulInv'
    BY <2>5, ClickStep
  <2>6. ASSUME NEW r \in Requests, Route(r)
        PROVE  RequestInv' /\ DraftInv' /\ PagesInv' /\ CarefulInv'
    <3>1. CASE InsertTest(r)
      BY <3>1, InsertTestStep, DullSteps, DullStep
    <3>2. CASE InsertSection(r)
      BY <3>2, InsertSectionStep, DullSteps, DullStep
    <3>3. CASE Answered(r)
      BY <3>3, SuccessStep, DullSteps, DullStep
    <3>4. CASE GiveUp(r) \/ StatementFails(r) \/ ServerDies(r)
      BY <3>4, DullSteps, DullStep
    <3> QED
      BY <2>6, <3>1, <3>2, <3>3, <3>4 DEF Route
  <2>7. ASSUME NEW i \in TestIds, DeleteTest(i)
        PROVE  RequestInv' /\ DraftInv' /\ PagesInv' /\ CarefulInv'
    BY <2>7, DeleteTestStep
  <2>8. ASSUME NEW d \in deletes, DeleteSection(d)
        PROVE  RequestInv' /\ DraftInv' /\ PagesInv' /\ CarefulInv'
    <3>1. CASE d.row[2] \in secs[d.row[1]]
      BY <2>8, <3>1, DeleteRowStep
    <3>2. CASE d.row[2] \notin secs[d.row[1]]
      BY <2>8, <3>2, FewerDeletes DEF DeleteSection
    <3> QED
      BY <3>1, <3>2
  <2>9. ASSUME NEW d \in deletes, DeleteAnswered(d) \/ DeleteLost(d)
        PROVE  RequestInv' /\ DraftInv' /\ PagesInv' /\ CarefulInv'
    BY <2>9, RowGoneStep, LostStep
  <2>10. CASE UNCHANGED creationVars
    BY <2>10, DullSteps, DullStep
  <2> QED
    BY <2>1, <2>2, <2>3, <2>4, <2>5, <2>6, <2>7, <2>8, <2>9, <2>10 DEF CreationNext
<1> QED
  BY <1>1, CreationInvInit, PTL DEF CreationSpec

\* Every variable has its type.
THEOREM CreationTypes == CreationSpec => []CreationTypeOK
<1>1. CreationInv => CreationTypeOK
  BY DEF CreationInv
<1> QED
  BY <1>1, CreationInvariance, PTL

\* A draft becomes one test at most unless its code changed after a Finish: all the
\* tests it became have one code, and codes are unique.
THEOREM OneTest == CreationSpec => []OneTestPerDraft
<1>1. CreationInv => OneTestPerDraft
  <2> SUFFICES ASSUME CreationInv, NEW t \in Tabs, t \notin recoded
               PROVE  Cardinality(made[t] \cap Existing) <= 1
    BY DEF OneTestPerDraft
  <2> DEFINE s == made[t] \cap Existing
  <2>1. \A i, j \in s : i = j
    BY DEF CreationInv, DraftInv
  <2>2. CASE s = {}
    <3>1. Cardinality({}) = 0
      BY FS_EmptySet
    <3> QED
      BY <2>2, <3>1
  <2>3. CASE s # {}
    <3>1. PICK i : s = {i}
      BY <2>1, <2>3
    <3>2. Cardinality({i}) = 1
      BY FS_Singleton
    <3> QED
      BY <3>1, <3>2
  <2> QED
    BY <2>2, <2>3
<1> QED
  BY <1>1, CreationInvariance, PTL

\* createSuccess stands for a whole test.
THEOREM Whole == CreationSpec => []SuccessMeansWhole
<1>1. CreationInv => SuccessMeansWhole
  BY DEF CreationInv, RequestInv
<1> QED
  BY <1>1, CreationInvariance, PTL

\* Who deletes one section at a time, and gets every answer, leaves one.
THEOREM LastSection == CreationSpec => []LastSectionStays
<1>1. CreationInv => LastSectionStays
  BY DEF CreationInv, CarefulInv, Careful, LastSectionStays
<1> QED
  BY <1>1, CreationInvariance, PTL

=============================================================================
