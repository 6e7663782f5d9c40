----------------------------- MODULE ScreensProofs -----------------------------
(***************************************************************************)
(* Proofs about the pages that show what a server keeps: the passcode card *)
(* of the dashboard, the exam page, the listings, "My Tests" and the       *)
(* editor of a test.                                                       *)
(***************************************************************************)
EXTENDS PasscodeCard, ExamPage, Listings, MyTests, TestEditor, FiniteSetTheorems, TLAPS

-----------------------------------------------------------------------------
(* The passcode card *)

\* The two parts of the type invariant.
CardFlags == crossed \in BOOLEAN /\ lapsed \in BOOLEAN

CardData ==
    /\ renewals \in 0..MaxRenewals
    /\ card \in [code : 0..MaxRenewals, secs : Nat]
    /\ fetching \in 1..MaxRenewals \cup {NotSent, Sent}
    /\ rotating \in 1..MaxRenewals \cup {NotSent, Sent}
    /\ stats \in {"loading", "ready", "error"}
    /\ clipboard \in 0..MaxRenewals /\ heard \in 0..renewals

\* A passcode on its way has been made.
Reached == /\ fetching \in Nat => fetching <= renewals
           /\ rotating \in Nat => rotating <= renewals

\* Unless the countdown has crossed a rotation, only one request is under way, and
\* what it brings back is not older than what the card has heard.
Fresh ==
    ~crossed => /\ rotating = NotSent \/ fetching = NotSent
                /\ fetching \in Nat => heard <= fetching
                /\ rotating \in Nat => heard <= rotating

CardInv == CardFlags /\ CardData /\ Reached /\ Fresh /\ NewestShown /\ ZeroFetches

LEMMA CardInvInit == CardInit => CardInv
<1> SUFFICES ASSUME CardInit PROVE CardInv
  OBVIOUS
<1> USE CardAssumption DEF CardInit
<1>1. CardFlags
  BY DEF CardFlags
<1>2. CardData
  BY DEF CardData
<1>3. Reached /\ Fresh
  BY DEF Reached, Fresh
<1>4. NewestShown /\ ZeroFetches
  BY DEF NewestShown, ZeroFetches
<1> QED
  BY <1>1, <1>2, <1>3, <1>4 DEF CardInv

\* Every step of the card and of its server keeps the invariant.
LEMMA CardInvStep == CardInv /\ [CardNext]_cardVars => CardInv'
<1> SUFFICES ASSUME CardInv, [CardNext]_cardVars PROVE CardInv'
  OBVIOUS
<1> USE CardAssumption DEF CardInv
<1>1. CardFlags'
  BY DEF CardFlags, CardNext, cardVars, StatsAnswered, RenewedElsewhere, ServeFetch,
         ServeRotation, PasscodeFetched, FetchLost, Rotate, RotationAnswered, RotationLost,
         CountDown, CopyCode
<1>2. CardData'
  <2> USE DEF CardData, Reached
  <2>1. CASE StatsAnswered \/ RenewedElsewhere \/ FetchLost \/ Rotate \/ RotationLost \/ CopyCode
    BY <2>1 DEF StatsAnswered, RenewedElsewhere, FetchLost, Rotate, RotationLost, CopyCode
  <2>2. CASE ServeFetch \/ ServeRotation
    BY <2>2 DEF ServeFetch, ServeRotation
  <2>3. CASE RotationAnswered \/ \E s \in Seconds : PasscodeFetched(s)
    BY <2>3 DEF RotationAnswered, PasscodeFetched, Show
  <2>4. CASE CountDown
    BY <2>4 DEF CountDown
  <2>5. CASE UNCHANGED cardVars
    BY <2>5 DEF cardVars
  <2> QED
    BY <2>1, <2>2, <2>3, <2>4, <2>5 DEF CardNext
<1>3. Reached' /\ Fresh' /\ NewestShown'
  <2> USE DEF CardData, CardFlags, Reached, Fresh, NewestShown
  <2>1. CASE StatsAnswered \/ RenewedElsewhere \/ FetchLost \/ Rotate \/ RotationLost \/ CopyCode
    BY <2>1 DEF StatsAnswered, RenewedElsewhere, FetchLost, Rotate, RotationLost, CopyCode
  <2>2. CASE ServeFetch \/ ServeRotation
    BY <2>2 DEF ServeFetch, ServeRotation
  <2>3. CASE RotationAnswered \/ \E s \in Seconds : PasscodeFetched(s)
    BY <2>3 DEF RotationAnswered, PasscodeFetched, Show
  <2>4. CASE CountDown
    <3>1. CASE card.secs = 1 /\ fetching = NotSent /\ fetching' = Sent
      <4>1. ~crossed' => ~crossed /\ rotating = NotSent
        BY <2>4, <3>1 DEF CountDown
      <4> QED
        BY <2>4, <3>1, <4>1 DEF CountDown
    <3>2. CASE UNCHANGED <<fetching, crossed>>
      BY <2>4, <3>2 DEF CountDown
    <3> QED
      BY <2>4, <3>1, <3>2 DEF CountDown
  <2>5. CASE UNCHANGED cardVars
    BY <2>5 DEF cardVars
  <2> QED
    BY <2>1, <2>2, <2>3, <2>4, <2>5 DEF CardNext
<1>4. ZeroFetches'
  <2> USE DEF CardData, CardFlags, ZeroFetches
  <2>1. CASE StatsAnswered \/ RenewedElsewhere \/ FetchLost \/ Rotate \/ RotationLost \/ CopyCode
    BY <2>1 DEF StatsAnswered, RenewedElsewhere, FetchLost, Rotate, RotationLost, CopyCode
  <2>2. CASE ServeFetch \/ ServeRotation
    BY <2>2 DEF ServeFetch, ServeRotation
  <2>3. CASE RotationAnswered \/ \E s \in Seconds : PasscodeFetched(s)
    <3>1. CASE RotationAnswered
      BY <3>1 DEF RotationAnswered, Show
    <3>2. ASSUME NEW s \in Seconds, PasscodeFetched(s) PROVE ZeroFetches'
      <4>1. card'.secs = s /\ lapsed' = (s = 0)
        BY <3>2 DEF PasscodeFetched, Show
      <4> QED
        BY <4>1
    <3> QED
      BY <2>3, <3>1, <3>2
  <2>4. CASE CountDown
    BY <2>4 DEF CountDown
  <2>5. CASE UNCHANGED cardVars
    BY <2>5 DEF cardVars
  <2> QED
    BY <2>1, <2>2, <2>3, <2>4, <2>5 DEF CardNext
<1> QED
  BY <1>1, <1>2, <1>3, <1>4

\* The invariant of the card and of its server, from which the theorems follow.
THEOREM CardInvariance == CardSpec => []CardInv
  BY CardInvInit, CardInvStep, PTL DEF CardSpec

\* Every variable of the card has its type.
THEOREM CardTypes == CardSpec => []CardTypeOK
<1>1. CardInv => CardTypeOK
  BY DEF CardInv, CardFlags, CardData, CardTypeOK
<1> QED
  BY <1>1, CardInvariance, PTL

\* The card never goes back to a passcode that a rotation has replaced, unless the
\* countdown has run out in the middle of the rotation.
THEOREM CardShowsNewest == CardSpec => []NewestShown
<1>1. CardInv => NewestShown
  BY DEF CardInv
<1> QED
  BY <1>1, CardInvariance, PTL

\* A card at zero is fetching, unless its last fetch failed or was told 0 seconds.
THEOREM CardFetchesAtZero == CardSpec => []ZeroFetches
<1>1. CardInv => ZeroFetches
  BY DEF CardInv
<1> QED
  BY <1>1, CardInvariance, PTL

-----------------------------------------------------------------------------
(* The exam page *)

\* Until something is touched after a submit, every submit under way for the attempt of
\* the page carries the answers that it shows.
Faithful ==
    attempt # 0 /\ ~touched => \A m \in sends : m.attempt = attempt => m.sheet = answers

ExamInv == ExamTypeOK /\ Faithful /\ GradedAsShown /\ TimeUpSubmits

LEMMA ExamInvInit == ExamInit => ExamInv
<1> SUFFICES ASSUME ExamInit PROVE ExamInv
  OBVIOUS
<1> USE ExamAssumption DEF ExamInit
<1>1. ExamTypeOK
  <2>1. answers \in Sheets /\ closure \in Sheets
    BY DEF Sheets, NoSheet
  <2>2. graded \in [AttemptIds -> Sheets \cup {NotGraded}]
    OBVIOUS
  <2>3. attempt \in 0..MaxAttempts /\ opened \in 0..MaxAttempts
    OBVIOUS
  <2> QED
    BY <2>1, <2>2, <2>3 DEF ExamTypeOK
<1>2. Faithful /\ GradedAsShown /\ TimeUpSubmits
  BY DEF Faithful, GradedAsShown, TimeUpSubmits
<1> QED
  BY <1>1, <1>2 DEF ExamInv

\* What handleSubmit sends is of the page's attempt, with the sheet it was given.
LEMMA WhatIsSent ==
  ASSUME ExamTypeOK, NEW how \in {"hand", "time"}, NEW sheet \in Sheets, HandleSubmit(how, sheet)
  PROVE  /\ handingIn' = TRUE /\ sends' \subseteq ExamSubmitType /\ sends \subseteq sends'
         /\ \A m \in sends' : m \in sends \/ (m.attempt = attempt /\ m.sheet = sheet)
         /\ attempt # 0 => \E m \in sends' : /\ m.attempt = attempt /\ m.load = loads
                                             /\ m.how = how
<1> USE DEF ExamTypeOK
<1> DEFINE s == Submit(how, sheet)
<1>1. s.attempt = attempt /\ s.load = loads /\ s.how = how /\ s.sheet = sheet
  BY DEF Submit
<1>2. attempt # 0 => s \in ExamSubmitType
  BY ExamAssumption DEF Submit, ExamSubmitType, AttemptIds
<1>3. handingIn' = TRUE /\ sends' = IF attempt = 0 THEN sends ELSE sends \cup {s}
  BY DEF HandleSubmit
<1> HIDE DEF s
<1> QED
  BY <1>1, <1>2, <1>3

\* Every step of the page, of the student and of the server keeps the types.
LEMMA ExamTypeStep == ExamInv /\ [ExamNext]_examVars => ExamTypeOK'
<1> SUFFICES ASSUME ExamInv, [ExamNext]_examVars PROVE ExamTypeOK'
  OBVIOUS
<1>a. ExamTypeOK
  BY DEF ExamInv
<1> USE ExamAssumption, <1>a DEF clockVars, sheetVars, startVars, historyVars
<1>1. CASE ServeStart
  <2>1. opened' \in 0..MaxAttempts /\ asked' \subseteq AttemptIds
    <3>1. PICK r \in [attempt : AttemptIds, resumed : BOOLEAN] : StartServed(r)
      BY <1>1 DEF ServeStart
    <3>2. \/ opened' = opened /\ asked' = asked
          \/ /\ opened < MaxAttempts /\ opened' = opened + 1
             /\ asked' \in {asked, asked \cup {opened + 1}}
      BY <3>1, Zenon DEF StartServed
    <3>3. opened \in 0..MaxAttempts /\ asked \subseteq 1..MaxAttempts
      BY DEF ExamTypeOK, AttemptIds
    <3>4. CASE opened' = opened /\ asked' = asked
      BY <3>3, <3>4 DEF AttemptIds
    <3>5. CASE /\ opened < MaxAttempts /\ opened' = opened + 1
               /\ asked' \in {asked, asked \cup {opened + 1}}
      <4>1. opened' \in 0..MaxAttempts /\ opened + 1 \in 1..MaxAttempts
        BY <3>3, <3>5
      <4> QED
        BY <3>3, <3>5, <4>1 DEF AttemptIds
    <3> QED
      BY <3>2, <3>4, <3>5
  <2>2. reply' \in [attempt : AttemptIds, resumed : BOOLEAN] \cup {NoReply}
    BY <1>1 DEF ServeStart, ExamTypeOK
  <2>3. strays' \in Nat
    BY <1>1 DEF ServeStart, ExamTypeOK
  <2> QED
    BY <1>1, <2>1, <2>2, <2>3 DEF ServeStart, ExamTypeOK
<1>2. CASE Started
  <2>1. attempt' \in 0..MaxAttempts
    BY <1>2 DEF Started, ExamTypeOK, AttemptIds
  <2>2. touched' \in BOOLEAN
    BY <1>2, Zenon DEF Started
  <2>3. remaining' \in Nat /\ view' \in {"loading", "exam", "empty", "error", "gone"}
    BY <1>2 DEF Started
  <2> QED
    BY <1>2, <2>1, <2>2, <2>3 DEF Started, ExamTypeOK
<1>3. CASE StartFails \/ LeaveExam
  BY <1>3 DEF StartFails, LeaveExam, ExamTypeOK
<1>4. ASSUME NEW o \in ExamOptions, SelectOption(o) PROVE ExamTypeOK'
  <2>1. answers' \in Sheets
    BY <1>4 DEF SelectOption, Sheets, ExamTypeOK
  <2>2. touched' \in BOOLEAN
    BY <1>4, Zenon DEF SelectOption
  <2> QED
    BY <1>4, <2>1, <2>2 DEF SelectOption, ExamTypeOK
<1>5. CASE Navigate
  BY <1>5 DEF Navigate, GoTo, ExamTypeOK
<1>6. CASE ClickSubmit
  <2>1. handingIn' = TRUE /\ sends' \subseteq ExamSubmitType
    BY <1>6, WhatIsSent DEF ClickSubmit, ExamTypeOK
  <2> QED
    BY <1>6, <2>1 DEF ClickSubmit, ExamTypeOK
<1>7. CASE Tick
  <2>1. handingIn' \in BOOLEAN /\ sends' \subseteq ExamSubmitType
    <3>1. closure' \in Sheets
      BY <1>7 DEF Tick, ExamTypeOK
    <3>2. CASE remaining = 1
      BY <1>7, <3>1, <3>2, WhatIsSent DEF Tick
    <3>3. CASE remaining # 1
      BY <1>7, <3>3 DEF Tick, ExamTypeOK
    <3> QED
      BY <3>2, <3>3
  <2> QED
    BY <1>7, <2>1 DEF Tick, ExamTypeOK
<1>8. ASSUME NEW m \in sends, Submitted(m) PROVE ExamTypeOK'
  <2>1. m.attempt \in AttemptIds /\ m.sheet \in Sheets
    BY DEF ExamTypeOK, ExamSubmitType
  <2>2. graded' \in [AttemptIds -> Sheets \cup {NotGraded}]
    BY <1>8, <2>1 DEF Submitted, ExamTypeOK
  <2> QED
    BY <1>8, <2>2 DEF Submitted, ExamTypeOK
<1>9. ASSUME NEW m \in sends, SubmitLost(m) PROVE ExamTypeOK'
  <2>1. missed' \in BOOLEAN
    BY <1>9, Zenon DEF SubmitLost
  <2> QED
    BY <1>9, <2>1 DEF SubmitLost, ExamTypeOK
<1>10. CASE OpenExam
  <2>1. NoSheet \in Sheets /\ 0 \in 0..MaxAttempts
    BY DEF Sheets, NoSheet
  <2>2. strays' \in Nat /\ loads' \in Nat
    BY <1>10 DEF OpenExam, ExamTypeOK
  <2> QED
    BY <1>10, <2>1, <2>2 DEF OpenExam, ExamTypeOK
<1>11. CASE UNCHANGED examVars
  BY <1>11 DEF examVars, ExamTypeOK
<1> QED
  BY <1>1, <1>2, <1>3, <1>4, <1>5, <1>6, <1>7, <1>8, <1>9, <1>10, <1>11 DEF ExamNext

\* And what the submits carry, what was graded, and what has become of the countdown's.
LEMMA ExamInvStep == ExamInv /\ [ExamNext]_examVars => ExamInv'
<1> SUFFICES ASSUME ExamInv, [ExamNext]_examVars
             PROVE  (Faithful /\ GradedAsShown /\ TimeUpSubmits)'
  BY ExamTypeStep DEF ExamInv
<1>a. ExamTypeOK /\ Faithful /\ GradedAsShown /\ TimeUpSubmits
  BY DEF ExamInv
<1> USE ExamAssumption, <1>a DEF clockVars, sheetVars, startVars, historyVars
<1>1. CASE ServeStart \/ StartFails \/ Navigate \/ LeaveExam
  BY <1>1 DEF ServeStart, StartFails, Navigate, GoTo, LeaveExam,
     Faithful, GradedAsShown, TimeUpSubmits
<1>2. CASE Started
  <2>1. remaining' # 0
    BY <1>2 DEF Started
  <2>2. /\ UNCHANGED <<answers, sends, graded>>
        /\ ~touched' => graded[attempt'] = NotGraded /\ \A m \in sends : m.attempt # attempt'
    BY <1>2 DEF Started
  <2> QED
    BY <2>1, <2>2 DEF Faithful, GradedAsShown, TimeUpSubmits
<1>3. ASSUME NEW o \in ExamOptions, SelectOption(o)
      PROVE  (Faithful /\ GradedAsShown /\ TimeUpSubmits)'
  <2>1. /\ UNCHANGED <<attempt, remaining, loads, sends, graded, missed>>
        /\ ~touched' => graded[attempt] = NotGraded /\ \A m \in sends : m.attempt # attempt
    BY <1>3 DEF SelectOption
  <2> QED
    BY <2>1 DEF Faithful, GradedAsShown, TimeUpSubmits
<1>4. CASE ClickSubmit
  <2>1. /\ UNCHANGED <<attempt, answers, remaining, loads, graded, touched, missed>>
        /\ HandleSubmit("hand", answers) /\ answers \in Sheets
    BY <1>4 DEF ClickSubmit, ExamTypeOK
  <2>2. /\ sends \subseteq sends'
        /\ \A m \in sends' : m \in sends \/ (m.attempt = attempt /\ m.sheet = answers)
    BY <2>1, WhatIsSent
  <2> QED
    BY <2>1, <2>2 DEF Faithful, GradedAsShown, TimeUpSubmits
<1>5. CASE Tick
  <2>1. /\ UNCHANGED <<attempt, answers, loads, graded, touched, missed>>
        /\ remaining > 0 /\ remaining' = remaining - 1 /\ closure' = answers
    BY <1>5 DEF Tick
  <2>2. CASE remaining = 1
    <3>1. HandleSubmit("time", answers) /\ answers \in Sheets
      BY <1>5, <2>1, <2>2 DEF Tick, ExamTypeOK
    <3>2. /\ \A m \in sends' : m \in sends \/ (m.attempt = attempt /\ m.sheet = answers)
          /\ attempt # 0 => \E m \in sends' : /\ m.attempt = attempt /\ m.load = loads
                                              /\ m.how = "time"
      BY <3>1, WhatIsSent
    <3> QED
      BY <2>1, <3>2 DEF Faithful, GradedAsShown, TimeUpSubmits
  <2>3. CASE remaining # 1
    <3>1. sends' = sends /\ remaining' # 0
      BY <1>5, <2>1, <2>3 DEF Tick, ExamTypeOK
    <3> QED
      BY <2>1, <3>1 DEF Faithful, GradedAsShown, TimeUpSubmits
  <2> QED
    BY <2>2, <2>3
<1>6. ASSUME NEW m \in sends, Submitted(m)
      PROVE  (Faithful /\ GradedAsShown /\ TimeUpSubmits)'
  <2>1. /\ UNCHANGED <<attempt, answers, remaining, loads, touched, missed>>
        /\ sends' = sends \ {m}
        /\ graded' = [graded EXCEPT ![m.attempt] = IF @ = NotGraded THEN m.sheet ELSE @]
    BY <1>6 DEF Submitted
  <2>2. m.attempt \in AttemptIds /\ m.sheet \in Sheets /\ NotGraded \notin Sheets
    BY DEF ExamTypeOK, ExamSubmitType, Sheets
  <2>3. /\ \A a \in AttemptIds : a # m.attempt => graded'[a] = graded[a]
        /\ graded'[m.attempt] # NotGraded
        /\ graded'[m.attempt] = graded[m.attempt] \/ graded'[m.attempt] = m.sheet
        /\ graded'[m.attempt] = graded[m.attempt] => graded[m.attempt] # NotGraded
    BY <2>1, <2>2 DEF ExamTypeOK
  <2>4. attempt # 0 => attempt \in AttemptIds
    BY DEF ExamTypeOK, AttemptIds
  <2>5. Faithful'
    BY <2>1 DEF Faithful
  <2>6. GradedAsShown'
    BY <2>1, <2>3, <2>4 DEF GradedAsShown, Faithful
  <2>7. TimeUpSubmits'
    BY <2>1, <2>3, <2>4 DEF TimeUpSubmits
  <2> QED
    BY <2>5, <2>6, <2>7
<1>7. ASSUME NEW m \in sends, SubmitLost(m)
      PROVE  (Faithful /\ GradedAsShown /\ TimeUpSubmits)'
  BY <1>7 DEF SubmitLost, Faithful, GradedAsShown, TimeUpSubmits
<1>8. CASE OpenExam
  BY <1>8 DEF OpenExam, Faithful, GradedAsShown, TimeUpSubmits
<1>9. CASE UNCHANGED examVars
  BY <1>9 DEF examVars, Faithful, GradedAsShown, TimeUpSubmits
<1> QED
  BY <1>1, <1>2, <1>3, <1>4, <1>5, <1>6, <1>7, <1>8, <1>9 DEF ExamNext

\* The invariant of the exam page, from which the theorems follow.
THEOREM ExamInvariance == ExamSpec => []ExamInv
  BY ExamInvInit, ExamInvStep, PTL DEF ExamSpec

\* Every variable of the exam page has its type.
THEOREM ExamTypes == ExamSpec => []ExamTypeOK
<1>1. ExamInv => ExamTypeOK
  BY DEF ExamInv
<1> QED
  BY <1>1, ExamInvariance, PTL

\* What is graded is what the page shows, unless it was touched after a submit.
THEOREM ExamGrades == ExamSpec => []GradedAsShown
<1>1. ExamInv => GradedAsShown
  BY DEF ExamInv
<1> QED
  BY <1>1, ExamInvariance, PTL

\* Time up means submitted, unless the countdown's own submit has failed, whatever
\* happened to a submit by hand and however often the page was opened.
THEOREM ExamTimeUp == ExamSpec => []TimeUpSubmits
<1>1. ExamInv => TimeUpSubmits
  BY DEF ExamInv
<1> QED
  BY <1>1, ExamInvariance, PTL

-----------------------------------------------------------------------------
(* The listings *)

LEMMA UnlistedIsNoQuery == Unlisted \notin Queries
  BY ListingsAssumption DEF Queries

\* The requests that count: all of them ask for what the page asks for; one at most.
Latest == \A s \in Slots : flights[s] # Unlisted => flights[s] = query
Alone  == \A s, t \in Slots : flights[s] # Unlisted /\ flights[t] # Unlisted => s = t

\* And when it has been answered, the rows are those.
Settles(ok) == Latest /\ Alone /\ (flights = Nowhere => ok)

Settled ==
    /\ listing = "details" => Settles(failed \/ rowsOf = query)
    /\ listing = "report" /\ ~overlap => Settles(rowsOf \in {query, Unlisted})
    /\ listing = "search" /\ ~overlap /\ searched /\ ~due => Settles(rowsOf \in {query, Unlisted})

\* What the pages have not used: a page that is not open, the 400 ms of another page,
\* the pages of learn/search.
Untouched ==
    /\ listing = "none" => flights = Nowhere /\ ~searched
    /\ due => listing = "search"
    /\ listing \in {"none", "search"} => query.page = 1

ListingsInv == ListingsTypeOK /\ Settled /\ Untouched /\ PageExists

LEMMA ListingsInvInit == ListingsInit => ListingsInv
<1> SUFFICES ASSUME ListingsInit PROVE ListingsInv
  OBVIOUS
<1> USE ListingsAssumption DEF ListingsInit
<1>1. ListingsTypeOK
  <2>1. query \in Queries /\ flights \in [Slots -> Queries \cup {Unlisted}]
    BY DEF Queries, Nowhere
  <2>2. {busy, failed, due, searched, overlap, hasty} \subseteq BOOLEAN
    OBVIOUS
  <2>3. listing = "none" /\ rowsOf = Unlisted
    OBVIOUS
  <2> QED
    BY ONLY <2>1, <2>2, <2>3 DEF ListingsTypeOK
<1>2. Settled /\ Untouched
  BY DEF Settled, Untouched
<1>3. PageExists
  BY DEF PageExists
<1> QED
  BY <1>1, <1>2, <1>3 DEF ListingsInv

\* What a request leaves under way.
LEMMA RequestSends ==
  ASSUME ListingsTypeOK, NEW k, NEW q \in Queries, Request(k, q)
  PROVE  /\ flights' \in [Slots -> Queries \cup {Unlisted}]
         /\ flights' # Nowhere
         /\ overlap' \in BOOLEAN
         /\ k = "details" \/ ~overlap' =>
              /\ \A s \in Slots : flights'[s] # Unlisted => flights'[s] = q
              /\ Alone'
<1> USE UnlistedIsNoQuery DEF ListingsTypeOK, Nowhere, Alone
<1>1. CASE k = "details"
  <2>1. PICK s \in Slots : flights' = [Nowhere EXCEPT ![s] = q]
    BY <1>1 DEF Request
  <2>2. overlap' = FALSE
    BY <1>1 DEF Request
  <2> QED
    BY <2>1, <2>2
<1>2. CASE k # "details"
  <2>1. PICK s \in Slots : flights[s] = Unlisted /\ flights' = [flights EXCEPT ![s] = q]
    BY <1>2 DEF Request
  <2>2. overlap' = (flights # Nowhere)
    BY <1>2 DEF Request
  <2>3. CASE flights = Nowhere
    BY <1>2, <2>1, <2>2, <2>3
  <2>4. CASE flights # Nowhere
    BY <1>2, <2>1, <2>2, <2>4
  <2> QED
    BY <2>3, <2>4
<1> QED
  BY <1>1, <1>2

\* An answer that lands.
LEMMA Lands ==
  ASSUME ListingsTypeOK, NEW s \in Slots, Landed(s)
  PROVE  /\ flights' \in [Slots -> Queries \cup {Unlisted}]
         /\ flights[s] \in Queries
         /\ \A t \in Slots : flights'[t] # Unlisted => flights'[t] = flights[t] /\ t # s
         /\ Alone => flights' = Nowhere
<1> USE DEF ListingsTypeOK, Landed
<1>1. flights' \in [Slots -> Queries \cup {Unlisted}] /\ flights[s] \in Queries
  OBVIOUS
<1>2. \A t \in Slots : flights'[t] # Unlisted => flights'[t] = flights[t] /\ t # s
  OBVIOUS
<1>3. ASSUME Alone PROVE flights' = Nowhere
  <2>1. \A t \in Slots : flights'[t] = Unlisted
    BY <1>3, <1>2 DEF Alone
  <2> QED
    BY <2>1, <1>1 DEF Nowhere
<1> QED
  BY <1>1, <1>2, <1>3

\* A change of the query, on any page and by any control.
LEMMA AskStep ==
  ASSUME ListingsInv, NEW q \in Queries, AskFor(q), hasty' \in BOOLEAN,
         ~hasty' => q.page <= PagesOf[q.filter][q.size]
  PROVE  ListingsInv'
<1>1. /\ flights' \in [Slots -> Queries \cup {Unlisted}]
      /\ flights' # Nowhere
      /\ overlap' \in BOOLEAN
      /\ listing = "details" \/ ~overlap' =>
           (\A s \in Slots : flights'[s] # Unlisted => flights'[s] = q) /\ Alone'
  BY RequestSends DEF AskFor, ListingsInv
<1>2. /\ query' = q /\ listing \in {"report", "details"}
      /\ UNCHANGED <<listing, rowsOf, failed, due, searched>>
      /\ busy' = (busy \/ listing = "report")
  BY DEF AskFor
<1>3. ListingsTypeOK'
  <2>1. busy' \in BOOLEAN
    BY <1>2 DEF ListingsInv, ListingsTypeOK
  <2> QED
    BY <1>1, <1>2, <2>1 DEF ListingsInv, ListingsTypeOK
<1>4. Settled'
  BY <1>1, <1>2 DEF Settled, Settles, Latest, Nowhere
<1>5. Untouched'
  BY <1>2 DEF ListingsInv, Untouched
<1>6. PageExists'
  BY <1>2 DEF PageExists
<1> QED
  BY <1>3, <1>4, <1>5, <1>6 DEF ListingsInv

\* A step that leaves the query and the requests alone.
LEMMA QuietStep ==
  ASSUME ListingsInv, UNCHANGED listingVars
  PROVE  ListingsInv'
<1> USE DEF ListingsInv, listingVars
<1>1. ListingsTypeOK'
  BY DEF ListingsTypeOK
<1>2. Settled'
  BY DEF Settled, Settles, Latest, Alone
<1>3. Untouched' /\ PageExists'
  BY DEF Untouched, PageExists
<1> QED
  BY <1>1, <1>2, <1>3

\* The controls that change the query.
LEMMA ControlStep ==
  ASSUME ListingsInv,
         \/ \E f \in Filters : PickFilter(f) \/ PickCardFilter(f)
         \/ \E n \in Sizes : PickSize(n)
         \/ PreviousPage \/ NextPage
  PROVE  ListingsInv'
<1> USE DEF ListingsInv
<1>0. query \in Queries /\ hasty \in BOOLEAN /\ PagesOf \in [Filters -> [Sizes -> Nat \ {0}]]
  BY ListingsAssumption DEF ListingsTypeOK
<1>a. query \in Queries
  BY <1>0
<1>1. ASSUME NEW f \in Filters, PickFilter(f) PROVE ListingsInv'
  <2> DEFINE q == [filter |-> f, size |-> query.size, page |-> 1]
  <2>1. q \in Queries /\ q.page <= PagesOf[q.filter][q.size]
    <3>1. f \in Filters /\ query.size \in Sizes
      BY <1>a DEF Queries
    <3>2. q \in Queries /\ q.filter = f /\ q.size = query.size /\ q.page = 1
      BY <3>1 DEF Queries
    <3> HIDE DEF q
    <3> QED
      BY <1>0, <3>1, <3>2
  <2>2. AskFor(q) /\ hasty' = FALSE
    BY <1>1 DEF PickFilter
  <2> HIDE DEF q
  <2> QED
    BY <2>1, <2>2, AskStep
<1>2. ASSUME NEW f \in Filters, PickCardFilter(f) PROVE ListingsInv'
  <2>1. [query EXCEPT !.filter = f] \in Queries
    BY <1>0 DEF Queries
  <2>2. AskFor([query EXCEPT !.filter = f]) /\ hasty' = TRUE
    BY <1>2 DEF PickCardFilter
  <2> QED
    BY <2>1, <2>2, AskStep
<1>3. CASE PreviousPage
  <2> DEFINE q == [query EXCEPT !.page = @ - 1]
  <2>1. q \in Queries /\ q.filter = query.filter /\ q.size = query.size /\ q.page <= query.page
    BY <1>0, <1>3 DEF Queries, PreviousPage
  <2>2. ~hasty => q.page <= PagesOf[q.filter][q.size]
    BY <1>0, <2>1 DEF PageExists, Queries
  <2>3. AskFor(q) /\ hasty' = hasty
    BY <1>3 DEF PreviousPage
  <2> HIDE DEF q
  <2> QED
    BY <1>0, <2>1, <2>2, <2>3, AskStep
<1>4. CASE NextPage
  <2> DEFINE q == [query EXCEPT !.page = @ + 1]
  <2>1. q \in Queries /\ q.filter = query.filter /\ q.size = query.size /\ q.page = query.page + 1
    BY <1>0 DEF Queries
  <2>2. AskFor(q) /\ query.page < totalPages
    BY <1>4 DEF NextPage
  <2>3. hasty' = (hasty \/ rowsOf.filter # query.filter)
    BY <1>4 DEF NextPage
  <2>4. query.page \in Nat \ {0}
    BY <1>0 DEF Queries
  <2>6. rowsOf # Unlisted /\ totalPages = PagesOf[rowsOf.filter][query.size]
    BY <2>2, <2>4 DEF totalPages
  <2>7. hasty' \in BOOLEAN
    BY <1>0, <2>3
  <2>8. ~hasty' => rowsOf.filter = query.filter
    BY <2>3
  <2>9. ~hasty' => q.page <= PagesOf[q.filter][q.size]
    BY <1>0, <2>1, <2>2, <2>4, <2>6, <2>8 DEF Queries
  <2> HIDE DEF q
  <2> QED
    BY <2>1, <2>2, <2>7, <2>9, AskStep
<1>5. ASSUME NEW n \in Sizes, PickSize(n) PROVE ListingsInv'
  <2> DEFINE q == [filter |-> query.filter, size |-> n, page |-> 1]
  <2>1. q \in Queries /\ q.page <= PagesOf[q.filter][q.size]
    <3>1. query.filter \in Filters /\ n \in Sizes
      BY <1>a DEF Queries
    <3>2. q \in Queries /\ q.filter = query.filter /\ q.size = n /\ q.page = 1
      BY <3>1 DEF Queries
    <3> HIDE DEF q
    <3> QED
      BY <1>0, <3>1, <3>2
  <2>2. AskFor(q) /\ hasty' = FALSE
    BY <1>5 DEF PickSize
  <2> HIDE DEF q
  <2> QED
    BY <2>1, <2>2, AskStep
<1> QED
  BY <1>1, <1>2, <1>3, <1>4, <1>5

\* "Search" of the report, "Retry" of testDetails: the same query once more.
LEMMA AgainStep ==
  ASSUME ListingsInv, SearchReport \/ SearchFromPage1 \/ RetryListing
  PROVE  ListingsInv'
<1> USE DEF ListingsInv
<1>0. query \in Queries /\ PagesOf \in [Filters -> [Sizes -> Nat \ {0}]]
  BY ListingsAssumption DEF ListingsTypeOK
<1>1. ASSUME Request(listing, query), listing \in {"report", "details"}, busy' \in BOOLEAN,
             UNCHANGED <<listing, query, rowsOf, failed, due, searched, hasty>>
      PROVE  ListingsInv'
  <2>1. /\ flights' \in [Slots -> Queries \cup {Unlisted}]
        /\ flights' # Nowhere
        /\ overlap' \in BOOLEAN
        /\ listing = "details" \/ ~overlap' =>
             (\A s \in Slots : flights'[s] # Unlisted => flights'[s] = query) /\ Alone'
    BY <1>0, <1>1, RequestSends
  <2>2. ListingsTypeOK'
    BY <1>1, <2>1 DEF ListingsTypeOK
  <2>3. Settled'
    BY <1>1, <2>1 DEF Settled, Settles, Latest, Nowhere
  <2>4. Untouched' /\ PageExists'
    BY <1>1 DEF Untouched, PageExists
  <2> QED
    BY <2>2, <2>3, <2>4
<1>2. CASE SearchReport
  BY <1>1, <1>2 DEF SearchReport
<1>3. CASE RetryListing
  BY <1>1, <1>3 DEF RetryListing, ListingsTypeOK
<1>4. CASE SearchFromPage1
  <2>1. PICK s \in Slots, t \in Slots :
           flights' = [flights EXCEPT ![s] = query, ![t] = query']
    BY <1>4 DEF SearchFromPage1
  <2>2. /\ query' \in Queries /\ query'.page = 1
        /\ query'.filter = query.filter /\ query'.size = query.size
    BY <1>0, <1>4 DEF SearchFromPage1, Queries
  <2>3. /\ listing' = "report" /\ overlap' = TRUE /\ busy' = TRUE /\ hasty' = FALSE
        /\ UNCHANGED <<listing, rowsOf, failed, due, searched>>
    BY <1>4 DEF SearchFromPage1
  <2>4. ListingsTypeOK'
    BY <1>0, <2>1, <2>2, <2>3 DEF ListingsTypeOK
  <2>5. Settled'
    BY <2>3 DEF Settled
  <2>6. Untouched'
    BY <2>3 DEF Untouched
  <2>7. PageExists'
    BY <1>0, <2>2 DEF PageExists, Queries
  <2> QED
    BY <2>4, <2>5, <2>6, <2>7
<1> QED
  BY <1>2, <1>3, <1>4

\* A page is opened.
LEMMA OpenStep ==
  ASSUME ListingsInv, NEW k \in {"report", "details", "search"}, OpenListing(k)
  PROVE  ListingsInv'
<1> USE DEF ListingsInv
<1>0. /\ query \in Queries /\ listing = "none" /\ listing' = k /\ flights = Nowhere /\ ~searched
      /\ UNCHANGED <<query, rowsOf, failed, searched, hasty>>
  BY DEF OpenListing, ListingsTypeOK, Untouched
<1>1. CASE k = "search"
  <2>1. due' = TRUE /\ UNCHANGED <<flights, busy, overlap>>
    BY <1>1 DEF OpenListing
  <2>2. ListingsTypeOK'
    BY <1>0, <1>1, <2>1 DEF ListingsTypeOK
  <2>3. Settled'
    BY <1>0, <1>1, <2>1 DEF Settled
  <2>4. Untouched' /\ PageExists'
    BY <1>0, <1>1, <2>1 DEF Untouched, PageExists
  <2> QED
    BY <2>2, <2>3, <2>4
<1>2. CASE k # "search"
  <2>0. Request(k, query) /\ busy' = TRUE /\ due' = due
    BY <1>2 DEF OpenListing
  <2>1. /\ flights' \in [Slots -> Queries \cup {Unlisted}]
        /\ flights' # Nowhere
        /\ overlap' \in BOOLEAN
        /\ k = "details" \/ ~overlap' =>
             (\A s \in Slots : flights'[s] # Unlisted => flights'[s] = query) /\ Alone'
    BY <1>0, <2>0, RequestSends
  <2>2. ListingsTypeOK'
    BY <1>0, <1>2, <2>0, <2>1 DEF ListingsTypeOK
  <2>3. Settled'
    BY <1>0, <1>2, <2>1 DEF Settled, Settles, Latest, Nowhere
  <2>4. Untouched' /\ PageExists'
    BY <1>0, <1>2, <2>0 DEF Untouched, PageExists
  <2> QED
    BY <2>2, <2>3, <2>4
<1> QED
  BY <1>1, <1>2

\* The query of learn/search is typed, and its search runs.
LEMMA SearchStep ==
  ASSUME ListingsInv, DoSearch \/ \E f \in Filters : TypeQuery(f)
  PROVE  ListingsInv'
<1> USE DEF ListingsInv
<1>0. query \in Queries /\ PagesOf \in [Filters -> [Sizes -> Nat \ {0}]]
  BY ListingsAssumption DEF ListingsTypeOK
<1>1. ASSUME NEW f \in Filters, TypeQuery(f) PROVE ListingsInv'
  <2>1. /\ listing = "search" /\ query' = [query EXCEPT !.filter = f] /\ due' = TRUE
        /\ UNCHANGED <<listing, flights, rowsOf, busy, failed, searched>>
        /\ UNCHANGED <<overlap, hasty>>
    BY <1>1 DEF TypeQuery
  <2>2. query' \in Queries /\ query'.page = query.page /\ query'.filter = f
    BY <1>0, <2>1 DEF Queries
  <2>3. query'.page = 1
    BY <2>1, <2>2 DEF Untouched
  <2>4. ListingsTypeOK'
    BY <2>1, <2>2 DEF ListingsTypeOK
  <2>5. Settled'
    BY <2>1 DEF Settled
  <2>6. Untouched'
    BY <2>1, <2>3 DEF Untouched
  <2>7. PageExists'
    BY <1>0, <2>2, <2>3 DEF PageExists, Queries
  <2> QED
    BY <2>4, <2>5, <2>6, <2>7
<1>2. CASE DoSearch
  <2>0. /\ listing = "search" /\ due' = FALSE
        /\ UNCHANGED <<listing, query, hasty>>
    BY <1>2 DEF DoSearch, Untouched
  <2>1. CASE ClearSearch
    <3>1. /\ rowsOf' = Unlisted /\ searched' = FALSE
          /\ UNCHANGED <<flights, busy, failed, overlap>>
      BY <2>1 DEF ClearSearch
    <3>2. ListingsTypeOK'
      BY <2>0, <3>1 DEF ListingsTypeOK
    <3>3. Settled'
      BY <2>0, <3>1 DEF Settled
    <3>4. Untouched' /\ PageExists'
      BY <2>0, <3>1 DEF Untouched, PageExists
    <3> QED
      BY <3>2, <3>3, <3>4
  <2>2. CASE ~ClearSearch
    <3>0. Request(listing, query) /\ busy' = TRUE /\ failed' = FALSE /\ searched' = TRUE
            /\ rowsOf' = rowsOf
      BY <1>2, <2>2 DEF DoSearch
    <3>1. /\ flights' \in [Slots -> Queries \cup {Unlisted}]
          /\ flights' # Nowhere
          /\ overlap' \in BOOLEAN
          /\ ~overlap' =>
               (\A s \in Slots : flights'[s] # Unlisted => flights'[s] = query) /\ Alone'
      BY <1>0, <3>0, RequestSends
    <3>2. ListingsTypeOK'
      BY <2>0, <3>0, <3>1 DEF ListingsTypeOK
    <3>3. Settled'
      BY <2>0, <3>1 DEF Settled, Settles, Latest, Nowhere
    <3>4. Untouched' /\ PageExists'
      BY <2>0, <3>0 DEF Untouched, PageExists
    <3> QED
      BY <3>2, <3>3, <3>4
  <2> QED
    BY <2>1, <2>2
<1> QED
  BY <1>1, <1>2

\* An answer, with rows or with an error.
LEMMA AnswerStep ==
  ASSUME ListingsInv, NEW s \in Slots, Answer(s) \/ AnswerError(s)
  PROVE  ListingsInv'
<1> USE DEF ListingsInv
<1>0. /\ Landed(s) /\ busy' = FALSE /\ failed' \in BOOLEAN
      /\ UNCHANGED <<listing, query, due, searched, overlap, hasty>>
  BY DEF Answer, AnswerError
<1>1. /\ flights' \in [Slots -> Queries \cup {Unlisted}]
      /\ flights[s] \in Queries
      /\ \A t \in Slots : flights'[t] # Unlisted => flights'[t] = flights[t] /\ t # s
      /\ Alone => flights' = Nowhere
  BY <1>0, Lands
<1>3. /\ rowsOf' \in Queries \cup {Unlisted}
      /\ rowsOf' = flights[s] \/ rowsOf' = Unlisted \/ (failed' /\ listing = "details")
  BY <1>1 DEF Answer, AnswerError, ListingsTypeOK
<1>4. ListingsTypeOK'
  BY <1>0, <1>1, <1>3 DEF ListingsTypeOK
<1>5. Settled'
  <2>1. ASSUME Latest PROVE Latest' /\ flights[s] = query
    BY <1>0, <1>1, <2>1, UnlistedIsNoQuery DEF Latest
  <2>2. ASSUME Alone PROVE Alone'
    BY <1>1, <2>2 DEF Alone
  <2>3. ASSUME listing = "details" PROVE Settles(failed \/ rowsOf = query)'
    <3>1. Latest /\ Alone
      BY <2>3 DEF Settled, Settles
    <3>2. failed' \/ rowsOf' = flights[s]
      BY <2>3 DEF Answer, AnswerError
    <3> QED
      BY <1>0, <2>1, <2>2, <3>1, <3>2 DEF Settles
  <2>4. ASSUME Latest, Alone, listing # "details" PROVE Settles(rowsOf \in {query, Unlisted})'
    BY <1>0, <1>3, <2>1, <2>2, <2>4 DEF Settles
  <2> QED
    BY <1>0, <2>3, <2>4 DEF Settled, Settles
<1>6. Untouched'
  <2>1. listing # "none"
    BY <1>1, UnlistedIsNoQuery DEF Untouched, Nowhere
  <2> QED
    BY <1>0, <2>1 DEF Untouched
<1>8. PageExists'
  BY <1>0 DEF PageExists
<1> QED
  BY <1>4, <1>5, <1>6, <1>8

\* The invariant of the listings, from which the theorems follow.
THEOREM ListingsInvariance == ListingsSpec => []ListingsInv
<1>1. ListingsInv /\ [ListingsNext]_listingVars => ListingsInv'
  BY QuietStep, ControlStep, AgainStep, OpenStep, SearchStep, AnswerStep DEF ListingsNext
<1> QED
  BY ListingsInvInit, <1>1, PTL DEF ListingsSpec

\* Every variable of the listings has its type.
THEOREM ListingsTypes == ListingsSpec => []ListingsTypeOK
<1>1. ListingsInv => ListingsTypeOK
  BY DEF ListingsInv
<1> QED
  BY <1>1, ListingsInvariance, PTL

\* Once everything is answered, a table shows what its page asks for, unless requests
\* have overlapped on a page that does not ignore the older one.
THEOREM ListingsAnswer == ListingsSpec => []TableAnswersQuery
<1>1. ListingsInv => TableAnswersQuery
  BY DEF ListingsInv, ListingsTypeOK, Settled, Settles, TableAnswersQuery, Table, ReportTable,
         DetailsTable, SearchTable
<1> QED
  BY <1>1, ListingsInvariance, PTL

\* A page that is asked for exists, unless Next went by another filter's total.
THEOREM ListingsPages == ListingsSpec => []PageExists
<1>1. ListingsInv => PageExists
  BY DEF ListingsInv
<1> QED
  BY <1>1, ListingsInvariance, PTL

-----------------------------------------------------------------------------
(* "My Tests" *)

RowMaps == [TestRows -> RowType]

\* The type invariant, in parts; a write is about some test, and so is what it did.
RowsOK == known \in RowMaps /\ tableRows \in RowMaps /\ suspect \subseteq TestRows

TestModalsOK ==
    /\ loading \in BOOLEAN
    /\ scheduleModal \in TestRows \cup {NoTest} /\ deleteModal \in TestRows \cup {NoTest}

CallsOK ==
    /\ calls \in [CallSlots -> CallType]
    /\ \A s \in Writes : /\ calls[s].test \in TestRows
                         /\ calls[s].done => calls[s].hit \in TestRows
                         /\ calls[s].kind = "schedule" => calls[s].window \in Windows

\* Of a test that is not suspect every list under way tells the truth, and if the table
\* does not, a list is on its way or will be asked for.
InStep ==
    \A t \in TestRows \ suspect :
        /\ \A s \in Read : calls[s].seen[t] = known[t]
        /\ \/ tableRows[t] = known[t]
           \/ Fetches # {}
           \/ \E s \in Writes : calls[s].done /\ calls[s].hit = t

MyTestsInv == RowsOK /\ TestModalsOK /\ CallsOK /\ InStep

LEMMA SomeRows ==
  /\ NoTest \in RowType /\ NoRows \in RowMaps /\ OtherRows \in [TestRows -> SUBSET RowType]
  /\ Row(FALSE, Unscheduled) \in RowType
  /\ \A p \in BOOLEAN, w \in Windows : Row(p, w) \in RowType
  BY MyTestsAssumption DEF RowType, RowMaps, NoRows, Row, Unscheduled

LEMMA CallsTyped ==
  /\ Fetch \in CallType /\ Fetch.kind = "fetch" /\ ~Fetch.done
  /\ NoCall \in CallType /\ NoCall.kind = "idle"
  /\ \A k \in {"schedule", "delete", "duplicate"}, t \in TestRows, w \in Windows \cup {NoWindow} :
        /\ Call(k, t, w) \in CallType /\ Call(k, t, w).kind = k /\ Call(k, t, w).test = t
        /\ Call(k, t, w).window = w /\ ~Call(k, t, w).done
<1>1. Fetch \in CallType /\ Fetch.kind = "fetch" /\ ~Fetch.done
  BY SomeRows DEF Fetch, CallType, RowMaps
<1>2. NoCall \in CallType /\ NoCall.kind = "idle"
  BY <1>1 DEF NoCall, CallType
<1>3. ASSUME NEW k \in {"schedule", "delete", "duplicate"}, NEW t \in TestRows,
             NEW w \in Windows \cup {NoWindow}
      PROVE  /\ Call(k, t, w) \in CallType /\ Call(k, t, w).kind = k /\ Call(k, t, w).test = t
             /\ Call(k, t, w).window = w /\ ~Call(k, t, w).done
  BY <1>1 DEF Call, CallType
<1> QED
  BY <1>1, <1>2, <1>3

\* What one slot's change means for the slots of each kind.
LEMMA SlotChanges ==
  ASSUME CallsOK, NEW s \in CallSlots, NEW c \in CallType, calls' = [calls EXCEPT ![s] = c]
  PROVE  /\ calls' \in [CallSlots -> CallType] /\ calls'[s] = c
         /\ \A r \in CallSlots : r # s => calls'[r] = calls[r]
         /\ c.kind = "fetch" => Fetches' = Fetches \cup {s}
         /\ c.kind # "fetch" => Fetches' = Fetches \ {s}
         /\ c.kind = "fetch" /\ c.done => Read' = Read \cup {s}
         /\ c.kind # "fetch" \/ ~c.done => Read' = Read \ {s}
         /\ c.kind \in {"schedule", "delete", "duplicate"} => Writes' = Writes \cup {s}
         /\ c.kind \notin {"schedule", "delete", "duplicate"} => Writes' = Writes \ {s}
<1>1. /\ calls' \in [CallSlots -> CallType] /\ calls'[s] = c
      /\ \A r \in CallSlots : r # s => calls'[r] = calls[r]
  BY DEF CallsOK
<1>2. /\ c.kind = "fetch" => Fetches' = Fetches \cup {s}
      /\ c.kind # "fetch" => Fetches' = Fetches \ {s}
  BY <1>1 DEF Fetches
<1>3. /\ c.kind = "fetch" /\ c.done => Read' = Read \cup {s}
      /\ c.kind # "fetch" \/ ~c.done => Read' = Read \ {s}
  BY <1>1 DEF Read, Fetches
<1>4. /\ c.kind \in {"schedule", "delete", "duplicate"} => Writes' = Writes \cup {s}
      /\ c.kind \notin {"schedule", "delete", "duplicate"} => Writes' = Writes \ {s}
  BY <1>1 DEF Writes
<1> QED
  BY <1>1, <1>2, <1>3, <1>4

LEMMA MyTestsInvInit == MyTestsInit => MyTestsInv
<1> SUFFICES ASSUME MyTestsInit PROVE MyTestsInv
  OBVIOUS
<1> USE DEF MyTestsInit
<1>1. RowsOK /\ TestModalsOK
  BY SomeRows DEF RowsOK, TestModalsOK
<1>2. calls \in [CallSlots -> CallType] /\ Writes = {}
  <2>1. PICK f \in CallSlots : calls = [s \in CallSlots |-> IF s = f THEN Fetch ELSE NoCall]
    OBVIOUS
  <2> QED
    BY <2>1, CallsTyped DEF Writes
<1>3. CallsOK /\ InStep
  BY <1>2 DEF CallsOK, InStep
<1> QED
  BY <1>1, <1>3 DEF MyTestsInv

\* A write leaves.
LEMMA AskedStep ==
  ASSUME MyTestsInv, NEW k \in {"schedule", "delete", "duplicate"}, NEW t \in TestRows,
         NEW w \in Windows \cup {NoWindow}, k = "schedule" => w \in Windows, Ask(Call(k, t, w))
  PROVE  MyTestsInv'
<1> DEFINE c == Call(k, t, w)
<1>1. c \in CallType /\ c.kind = k /\ c.test = t /\ c.window = w /\ ~c.done
  BY CallsTyped
<1>2. PICK s \in CallSlots : calls[s] = NoCall /\ calls' = [calls EXCEPT ![s] = c]
  BY DEF Ask
<1>3. UNCHANGED <<known, tableRows, loading, scheduleModal, deleteModal, suspect>>
  BY DEF Ask, modalVars
<1> HIDE DEF c
<1>4. /\ calls' \in [CallSlots -> CallType] /\ calls'[s] = c
      /\ \A r \in CallSlots : r # s => calls'[r] = calls[r]
      /\ s \notin Read /\ s \notin Writes
      /\ Fetches' = Fetches /\ Read' = Read /\ Writes' = Writes \cup {s}
  <2>1. s \notin Fetches /\ s \notin Read /\ s \notin Writes
    BY <1>2, CallsTyped DEF Fetches, Read, Writes
  <2>2. /\ calls' \in [CallSlots -> CallType] /\ calls'[s] = c
        /\ \A r \in CallSlots : r # s => calls'[r] = calls[r]
        /\ Fetches' = Fetches \ {s} /\ Read' = Read \ {s} /\ Writes' = Writes \cup {s}
    BY <1>1, <1>2, SlotChanges DEF MyTestsInv
  <2> QED
    BY <2>1, <2>2
<1>5. RowsOK' /\ TestModalsOK'
  BY <1>3 DEF MyTestsInv, RowsOK, TestModalsOK
<1>6. CallsOK'
  BY <1>1, <1>4 DEF MyTestsInv, CallsOK, Writes
<1>7. InStep'
  BY <1>3, <1>4 DEF MyTestsInv, InStep, Fetches, Read, Writes
<1> QED
  BY <1>5, <1>6, <1>7 DEF MyTestsInv

\* Others change a test, or a modal opens or closes.
LEMMA QuietTestsStep ==
  ASSUME MyTestsInv,
         \/ \E t \in TestRows : Elsewhere(t) \/ ScheduleClick(t) \/ DeleteClick(t)
         \/ CloseModal \/ UNCHANGED myTestsVars
  PROVE  MyTestsInv'
<1> USE DEF MyTestsInv
<1>1. UNCHANGED <<tableRows, loading, calls>>
  BY DEF Elsewhere, ScheduleClick, DeleteClick, CloseModal, myTestsVars
<1>2. TestModalsOK'
  BY <1>1, MyTestsAssumption
     DEF TestModalsOK, Elsewhere, ScheduleClick, DeleteClick, CloseModal, myTestsVars,
         modalVars, Offered, Shown
<1>3. UNCHANGED <<known, suspect>> \/ \E t \in TestRows : Elsewhere(t)
  BY DEF ScheduleClick, DeleteClick, CloseModal, myTestsVars
<1>4. RowsOK' /\ \A t \in TestRows \ suspect' : t \notin suspect /\ known'[t] = known[t]
  <2>1. CASE UNCHANGED <<known, suspect>>
    BY <1>1, <2>1 DEF RowsOK
  <2>2. ASSUME NEW t \in TestRows, Elsewhere(t)
        PROVE  RowsOK' /\ \A u \in TestRows \ suspect' : u \notin suspect /\ known'[u] = known[u]
    <3>1. PICK r \in RowType : known' = [known EXCEPT ![t] = r] /\ suspect' = suspect \cup {t}
      BY <2>2, SomeRows DEF Elsewhere
    <3> QED
      BY <1>1, <3>1 DEF RowsOK, RowMaps
  <2> QED
    BY <1>3, <2>1, <2>2
<1>5. CallsOK'
  BY <1>1 DEF CallsOK, Writes
<1>6. InStep'
  BY <1>1, <1>4 DEF InStep, Fetches, Read, Writes
<1> QED
  BY <1>2, <1>4, <1>5, <1>6

\* The list is read, shown, or fails.
LEMMA FetchSteps ==
  ASSUME MyTestsInv, NEW s \in CallSlots, FetchRead(s) \/ FetchAnswered(s) \/ FetchFails(s)
  PROVE  MyTestsInv'
<1> USE DEF MyTestsInv
<1>0. s \in Fetches /\ calls[s] \in CallType /\ calls[s].kind = "fetch" /\ s \notin Writes
  BY DEF FetchRead, FetchAnswered, FetchFails, Read, Fetches, Writes, CallsOK
<1>a. NoCall \in CallType /\ NoCall.kind = "idle"
  BY CallsTyped
<1>1. CASE FetchRead(s)
  <2> DEFINE c == [calls[s] EXCEPT !.done = TRUE, !.seen = known]
  <2>1. /\ calls' = [calls EXCEPT ![s] = c]
        /\ UNCHANGED <<known, tableRows, loading, scheduleModal, deleteModal, suspect>>
    BY <1>0, <1>1 DEF FetchRead, modalVars, CallType, CallsOK
  <2>2. c \in CallType /\ c.kind = "fetch" /\ c.done /\ c.seen = known
    BY <1>0 DEF CallType, RowsOK, RowMaps
  <2> HIDE DEF c
  <2>3. /\ calls' \in [CallSlots -> CallType] /\ calls'[s] = c
        /\ \A r \in CallSlots : r # s => calls'[r] = calls[r]
        /\ Fetches' = Fetches /\ Read' = Read \cup {s} /\ Writes' = Writes
    <3>1. /\ calls' \in [CallSlots -> CallType] /\ calls'[s] = c
          /\ \A r \in CallSlots : r # s => calls'[r] = calls[r]
          /\ Fetches' = Fetches \cup {s} /\ Read' = Read \cup {s} /\ Writes' = Writes \ {s}
      BY <2>1, <2>2, SlotChanges
    <3> QED
      BY <1>0, <3>1
  <2>4. RowsOK' /\ TestModalsOK' /\ CallsOK'
    BY <1>0, <2>1, <2>3 DEF RowsOK, TestModalsOK, CallsOK, Writes
  <2>5. InStep'
    BY <1>0, <2>1, <2>2, <2>3 DEF InStep, Read, Fetches
  <2> QED
    BY <2>4, <2>5
<1>2. CASE FetchAnswered(s)
  <2>1. /\ s \in Read /\ tableRows' = calls[s].seen /\ loading' = FALSE
        /\ calls' = [calls EXCEPT ![s] = NoCall]
        /\ suspect' = {t \in suspect : \E r \in Read : calls[r].seen[t] # known[t]}
        /\ UNCHANGED <<known, scheduleModal, deleteModal>>
    BY <1>2 DEF FetchAnswered, modalVars
  <2>2. /\ calls' \in [CallSlots -> CallType] /\ calls'[s] = NoCall
        /\ \A r \in CallSlots : r # s => calls'[r] = calls[r]
        /\ Read' = Read \ {s} /\ Writes' = Writes
    <3>1. /\ calls' \in [CallSlots -> CallType] /\ calls'[s] = NoCall
          /\ \A r \in CallSlots : r # s => calls'[r] = calls[r]
          /\ Read' = Read \ {s} /\ Writes' = Writes \ {s}
      BY <1>a, <2>1, SlotChanges
    <3> QED
      BY <1>0, <3>1
  <2>3. RowsOK' /\ TestModalsOK' /\ CallsOK'
    BY <1>0, <2>1, <2>2 DEF RowsOK, TestModalsOK, CallsOK, Writes, CallType, RowMaps
  <2>4. ASSUME NEW t \in TestRows \ suspect'
        PROVE  \A r \in Read : calls[r].seen[t] = known[t]
    BY <2>1, <2>4 DEF InStep
  <2>5. InStep'
    BY <2>1, <2>2, <2>4 DEF InStep, Read, Fetches
  <2> QED
    BY <2>3, <2>5
<1>3. CASE FetchFails(s)
  <2>1. /\ tableRows' = NoRows /\ loading' = FALSE /\ suspect' = TestRows
        /\ calls' = [calls EXCEPT ![s] = NoCall]
        /\ UNCHANGED <<known, scheduleModal, deleteModal>>
    BY <1>3 DEF FetchFails, modalVars
  <2>2. /\ calls' \in [CallSlots -> CallType]
        /\ \A r \in CallSlots : r # s => calls'[r] = calls[r]
        /\ Writes' = Writes
    <3>1. /\ calls' \in [CallSlots -> CallType]
          /\ \A r \in CallSlots : r # s => calls'[r] = calls[r]
          /\ Writes' = Writes \ {s}
      BY <1>a, <2>1, SlotChanges
    <3> QED
      BY <1>0, <3>1
  <2>3. RowsOK' /\ TestModalsOK' /\ CallsOK'
    BY <1>0, <2>1, <2>2, SomeRows DEF RowsOK, TestModalsOK, CallsOK, Writes
  <2> QED
    BY <2>1, <2>3 DEF InStep
<1> QED
  BY <1>1, <1>2, <1>3

\* A write is carried out, or answered, or fails.
LEMMA WriteSteps ==
  ASSUME MyTestsInv, NEW s \in CallSlots, WriteDone(s) \/ WriteAnswered(s) \/ WriteFails(s)
  PROVE  MyTestsInv'
<1> USE DEF MyTestsInv
<1>0. /\ s \in Writes /\ calls[s] \in CallType /\ s \notin Fetches /\ s \notin Read
      /\ calls[s].kind \in {"schedule", "delete", "duplicate"} /\ calls[s].test \in TestRows
      /\ calls[s].kind = "schedule" => calls[s].window \in Windows
  BY DEF WriteDone, WriteAnswered, WriteFails, Writes, Fetches, Read, CallsOK
<1>a. NoCall \in CallType /\ NoCall.kind = "idle"
  BY CallsTyped
<1>1. CASE WriteDone(s)
  <2>1. PICK w \in Written(calls[s]) :
           /\ known' = [known EXCEPT ![w[1]] = w[2]]
           /\ calls' = [calls EXCEPT ![s].done = TRUE, ![s].hit = w[1]]
           /\ suspect' = IF Read = {} THEN suspect ELSE suspect \cup {w[1]}
    BY <1>1 DEF WriteDone
  <2>2. UNCHANGED <<tableRows, loading, scheduleModal, deleteModal>> /\ ~calls[s].done
    BY <1>1 DEF WriteDone, modalVars
  <2>3. w[1] \in TestRows /\ w[2] \in RowType
    <3>1. CASE calls[s].kind = "schedule"
      <4>1. PICK t \in {calls[s].test} \cap Shown(known) :
               w = <<t, Row(known[t].published, calls[s].window)>>
        BY <3>1 DEF Written
      <4>2. known[t] # NoTest /\ known[t] \in RowType /\ t \in TestRows
        BY <4>1 DEF Shown, RowsOK, RowMaps
      <4>3. known[t].published \in BOOLEAN
        BY <4>2 DEF RowType
      <4> QED
        BY <1>0, <3>1, <4>1, <4>2, <4>3, SomeRows
    <3>2. CASE calls[s].kind = "delete"
      <4>1. w = <<calls[s].test, NoTest>>
        BY <3>2 DEF Written
      <4> QED
        BY <1>0, <4>1, SomeRows
    <3>3. CASE calls[s].kind = "duplicate"
      <4>1. PICK u \in TestRows : w = <<u, Row(FALSE, Unscheduled)>>
        BY <3>3 DEF Written
      <4> QED
        BY <4>1, SomeRows
    <3> QED
      BY <1>0, <3>1, <3>2, <3>3
  <2> DEFINE c == [calls[s] EXCEPT !.done = TRUE, !.hit = w[1]]
             t == w[1]
  <2>4. calls' = [calls EXCEPT ![s] = c]
    BY <1>0, <2>1 DEF CallType, CallsOK
  <2>5. /\ c \in CallType /\ c.kind = calls[s].kind /\ c.done /\ c.hit = t
        /\ c.test = calls[s].test /\ c.window = calls[s].window
    BY <1>0, <2>3 DEF CallType
  <2> HIDE DEF c
  <2>6. /\ calls' \in [CallSlots -> CallType] /\ calls'[s] = c
        /\ \A r \in CallSlots : r # s => calls'[r] = calls[r]
        /\ Fetches' = Fetches /\ Read' = Read /\ Writes' = Writes
    <3>1. c.kind \in {"schedule", "delete", "duplicate"} /\ c.kind # "fetch"
      BY <1>0, <2>5
    <3>2. /\ calls' \in [CallSlots -> CallType] /\ calls'[s] = c
          /\ \A r \in CallSlots : r # s => calls'[r] = calls[r]
          /\ Fetches' = Fetches \ {s} /\ Read' = Read \ {s} /\ Writes' = Writes \cup {s}
      BY <2>4, <2>5, <3>1, SlotChanges
    <3> QED
      BY <1>0, <3>2
  <2>7. /\ t \in TestRows /\ known' \in RowMaps /\ suspect' \subseteq TestRows
        /\ \A u \in TestRows : u # t => known'[u] = known[u]
        /\ suspect \subseteq suspect' /\ (t \in suspect' \/ Read = {})
    BY <2>1, <2>3 DEF RowsOK, RowMaps
  <2>8. RowsOK' /\ TestModalsOK' /\ CallsOK'
    BY <1>0, <2>2, <2>3, <2>5, <2>6, <2>7 DEF RowsOK, TestModalsOK, CallsOK, Writes
  <2>9. InStep'
    <3> SUFFICES ASSUME NEW u \in TestRows \ suspect'
                 PROVE  /\ \A r \in Read : calls'[r].seen[u] = known'[u]
                        /\ \/ tableRows[u] = known'[u]
                           \/ Fetches # {}
                           \/ \E r \in Writes : calls'[r].done /\ calls'[r].hit = u
      BY <2>2, <2>6 DEF InStep
    <3>1. CASE u = t
      BY <1>0, <2>5, <2>6, <2>7, <3>1
    <3>2. CASE u # t
      <4>1. known'[u] = known[u] /\ u \notin suspect
        BY <2>7, <3>2
      <4>2. \A r \in Read : calls'[r].seen[u] = known'[u]
        BY <1>0, <2>6, <4>1 DEF InStep, Read, Fetches
      <4>3. \A r \in Writes : calls[r].done => calls'[r] = calls[r]
        BY <2>2, <2>6 DEF Writes
      <4> QED
        BY <4>1, <4>2, <4>3 DEF InStep
    <3> QED
      BY <3>1, <3>2
  <2> QED
    BY <2>8, <2>9
<1>2. CASE WriteAnswered(s)
  <2>1. /\ calls' = [calls EXCEPT ![s] = Fetch] /\ loading' = TRUE /\ Closes(calls[s].kind)
        /\ UNCHANGED <<known, tableRows, suspect>>
    BY <1>2 DEF WriteAnswered
  <2>2. /\ calls' \in [CallSlots -> CallType] /\ calls'[s] = Fetch
        /\ \A r \in CallSlots : r # s => calls'[r] = calls[r]
        /\ Fetches' = Fetches \cup {s} /\ Read' = Read /\ Writes' = Writes \ {s}
    <3>1. Fetch \in CallType /\ Fetch.kind = "fetch" /\ ~Fetch.done
      BY CallsTyped
    <3>2. /\ calls' \in [CallSlots -> CallType] /\ calls'[s] = Fetch
          /\ \A r \in CallSlots : r # s => calls'[r] = calls[r]
          /\ Fetches' = Fetches \cup {s} /\ Read' = Read \ {s} /\ Writes' = Writes \ {s}
      BY <2>1, <3>1, SlotChanges
    <3> QED
      BY <1>0, <3>2
  <2>3. RowsOK' /\ TestModalsOK' /\ CallsOK'
    BY <2>1, <2>2 DEF RowsOK, TestModalsOK, CallsOK, Writes, Closes
  <2>4. InStep'
    BY <1>0, <2>1, <2>2 DEF InStep, Read, Fetches
  <2> QED
    BY <2>3, <2>4
<1>3. CASE WriteFails(s)
  <2>1. /\ tableRows' = Pretended(calls[s]) /\ calls' = [calls EXCEPT ![s] = NoCall]
        /\ suspect' = suspect \cup ({calls[s].test, calls[s].hit} \cap TestRows)
        /\ Closes(calls[s].kind) /\ UNCHANGED <<known, loading>>
    BY <1>3 DEF WriteFails
  <2>2. /\ calls' \in [CallSlots -> CallType] /\ calls'[s] = NoCall
        /\ \A r \in CallSlots : r # s => calls'[r] = calls[r]
        /\ Fetches' = Fetches /\ Read' = Read /\ Writes' = Writes \ {s}
    <3>1. /\ calls' \in [CallSlots -> CallType] /\ calls'[s] = NoCall
          /\ \A r \in CallSlots : r # s => calls'[r] = calls[r]
          /\ Fetches' = Fetches \ {s} /\ Read' = Read \ {s} /\ Writes' = Writes \ {s}
      BY <1>a, <2>1, SlotChanges
    <3> QED
      BY <1>0, <3>1
  <2>3. /\ tableRows' \in RowMaps
        /\ \A t \in TestRows : t # calls[s].test => tableRows'[t] = tableRows[t]
    <3>1. calls[s].kind = "schedule" => Row(TRUE, calls[s].window) \in RowType
      BY <1>0, SomeRows
    <3> QED
      BY <1>0, <2>1, <3>1, SomeRows DEF Pretended, RowsOK, RowMaps
  <2>4. RowsOK' /\ TestModalsOK' /\ CallsOK'
    BY <2>1, <2>2, <2>3 DEF RowsOK, TestModalsOK, CallsOK, Writes, Closes
  <2>5. InStep'
    <3> SUFFICES ASSUME NEW t \in TestRows \ suspect'
                 PROVE  /\ \A r \in Read : calls'[r].seen[t] = known[t]
                        /\ \/ tableRows'[t] = known[t]
                           \/ Fetches # {}
                           \/ \E r \in Writes' : calls'[r].done /\ calls'[r].hit = t
      BY <2>1, <2>2 DEF InStep
    <3>1. t \notin suspect /\ t # calls[s].test /\ t # calls[s].hit
      BY <2>1
    <3>2. \A r \in Read : calls'[r].seen[t] = known[t]
      BY <1>0, <2>2, <3>1 DEF InStep, Read, Fetches
    <3>3. \A r \in Writes : calls[r].hit = t => r \in Writes' /\ calls'[r] = calls[r]
      BY <2>2, <3>1 DEF Writes
    <3> QED
      BY <2>3, <3>1, <3>2, <3>3 DEF InStep
  <2> QED
    BY <2>4, <2>5
<1> QED
  BY <1>1, <1>2, <1>3

LEMMA MyTestsInvStep == MyTestsInv /\ [MyTestsNext]_myTestsVars => MyTestsInv'
<1> SUFFICES ASSUME MyTestsInv, [MyTestsNext]_myTestsVars PROVE MyTestsInv'
  OBVIOUS
<1>1. ASSUME NEW w \in Windows, ScheduleSubmit(w) PROVE MyTestsInv'
  <2>1. scheduleModal \in TestRows /\ Ask(Call("schedule", scheduleModal, w))
    BY <1>1 DEF ScheduleSubmit, MyTestsInv, TestModalsOK
  <2> QED
    BY <2>1, AskedStep
<1>2. CASE DeleteConfirm
  <2>1. deleteModal \in TestRows /\ Ask(Call("delete", deleteModal, NoWindow))
    BY <1>2 DEF DeleteConfirm, MyTestsInv, TestModalsOK
  <2> QED
    BY <2>1, AskedStep
<1>3. ASSUME NEW t \in TestRows, Duplicate(t) PROVE MyTestsInv'
  <2>1. Ask(Call("duplicate", t, NoWindow))
    BY <1>3 DEF Duplicate
  <2> QED
    BY <2>1, AskedStep
<1>4. ASSUME NEW s \in CallSlots,
             \/ FetchRead(s) \/ FetchAnswered(s) \/ FetchFails(s)
             \/ WriteDone(s) \/ WriteAnswered(s) \/ WriteFails(s)
      PROVE  MyTestsInv'
  BY <1>4, FetchSteps, WriteSteps
<1> QED
  BY <1>1, <1>2, <1>3, <1>4, QuietTestsStep DEF MyTestsNext

\* The invariant of "My Tests", from which the theorems follow.
THEOREM MyTestsInvariance == MyTestsSpec => []MyTestsInv
  BY MyTestsInvInit, MyTestsInvStep, PTL DEF MyTestsSpec

\* Every variable of "My Tests" has its type.
THEOREM MyTestsTypes == MyTestsSpec => []MyTestsTypeOK
<1>1. MyTestsInv => MyTestsTypeOK
  BY DEF MyTestsInv, RowsOK, TestModalsOK, CallsOK, RowMaps, MyTestsTypeOK
<1> QED
  BY <1>1, MyTestsInvariance, PTL

\* With no request under way every row is what the server has, in whichever order
\* the lists and the answers came, but for the tests that are suspect.
THEOREM MyTestsRows == MyTestsSpec => []RowsAreTrue
<1>1. MyTestsInv => RowsAreTrue
  <2> SUFFICES ASSUME MyTestsInv, \A s \in CallSlots : calls[s] = NoCall,
                      NEW t \in TestRows \ suspect
               PROVE  tableRows[t] = known[t]
    BY DEF RowsAreTrue
  <2>1. Fetches = {} /\ Writes = {}
    BY CallsTyped DEF Fetches, Writes
  <2> QED
    BY <2>1 DEF MyTestsInv, InStep
<1> QED
  BY <1>1, MyTestsInvariance, PTL

\* The comparisons behind the badge and the tabs of a row, by cases of the clock.
LEMMA TabsOfRow ==
  ASSUME NEW r \in [published : BOOLEAN, start : Nat \cup {NoTime}, end : Nat \cup {NoTime}],
         NEW now \in Nat
  PROVE  {u \in Tabs3 : InTab(r, u, now)} =
            CASE Badge(r, now) = "ongoing" /\ ~(HasStart(r) /\ HasEnd(r)) -> {}
              [] Badge(r, now) = "yet" /\ HasEnd(r) /\ r.end < now        -> {"yet", "completed"}
              [] OTHER                                                   -> {Badge(r, now)}
<1> DEFINE early == ~r.published \/ (HasStart(r) /\ r.start > now)
           late  == HasEnd(r) /\ r.end < now
           badge == Badge(r, now)
           tabs  == {u \in Tabs3 : InTab(r, u, now)}
           sits  == CASE badge = "ongoing" /\ ~(HasStart(r) /\ HasEnd(r)) -> {}
                      [] badge = "yet" /\ HasEnd(r) /\ r.end < now        -> {"yet", "completed"}
                      [] OTHER                                            -> {badge}
<1>0. (HasStart(r) => r.start \in Nat) /\ (HasEnd(r) => r.end \in Nat)
  BY DEF HasStart, HasEnd
<1>1. CASE early
  <2>1. badge = "yet" /\ InTab(r, "yet", now) /\ ~InTab(r, "ongoing", now)
    BY <1>0, <1>1 DEF Badge, InTab
  <2>2. InTab(r, "completed", now) <=> late
    BY DEF InTab
  <2>3. tabs = IF late THEN {"yet", "completed"} ELSE {"yet"}
    BY <2>1, <2>2 DEF Tabs3
  <2>4. sits = IF late THEN {"yet", "completed"} ELSE {"yet"}
    BY <2>1
  <2> QED
    BY <2>3, <2>4
<1>2. CASE ~early /\ late
  <2>1. badge = "completed" /\ InTab(r, "completed", now)
    BY <1>0, <1>2 DEF Badge, InTab
  <2>2. ~InTab(r, "yet", now) /\ ~InTab(r, "ongoing", now)
    BY <1>0, <1>2 DEF InTab
  <2>3. tabs = {"completed"}
    BY <2>1, <2>2 DEF Tabs3
  <2>4. sits = {"completed"}
    BY <2>1
  <2> QED
    BY <2>3, <2>4
<1>3. CASE ~early /\ ~late
  <2>1. badge = "ongoing" /\ ~InTab(r, "completed", now) /\ ~InTab(r, "yet", now)
    BY <1>0, <1>3 DEF Badge, InTab
  <2>2. InTab(r, "ongoing", now) <=> HasStart(r) /\ HasEnd(r)
    BY <1>0, <1>3 DEF InTab
  <2>3. tabs = IF HasStart(r) /\ HasEnd(r) THEN {"ongoing"} ELSE {}
    BY <2>1, <2>2 DEF Tabs3
  <2>4. sits = IF HasStart(r) /\ HasEnd(r) THEN {"ongoing"} ELSE {}
    BY <2>1
  <2> QED
    BY <2>3, <2>4
<1>4. tabs = sits
  BY <1>1, <1>2, <1>3
<1> QED
  BY <1>4

\* A badge moves forward only.
LEMMA BadgeForward ==
  ASSUME NEW r \in [published : BOOLEAN, start : Nat \cup {NoTime}, end : Nat \cup {NoTime}],
         NEW now \in Nat, NEW later \in Nat, now <= later
  PROVE  Progress(Badge(r, now)) <= Progress(Badge(r, later))
<1>0. (HasStart(r) => r.start \in Nat) /\ (HasEnd(r) => r.end \in Nat)
  BY DEF HasStart, HasEnd
<1>1. Progress("yet") = 0 /\ Progress("ongoing") = 1 /\ Progress("completed") = 2
  BY DEF Progress
<1>2. \A i \in Nat : Badge(r, i) \in {"yet", "ongoing", "completed"}
  BY DEF Badge
<1>3. CASE Badge(r, now) = "yet"
  BY <1>1, <1>2, <1>3
<1>4. CASE Badge(r, now) = "ongoing"
  <2>1. Badge(r, later) # "yet"
    BY <1>0, <1>4 DEF Badge
  <2> QED
    BY <1>1, <1>2, <1>4, <2>1
<1>5. CASE Badge(r, now) = "completed"
  <2>1. Badge(r, later) = "completed"
    BY <1>0, <1>5 DEF Badge
  <2> QED
    BY <1>1, <1>5, <2>1
<1> QED
  BY <1>2, <1>3, <1>4, <1>5

\* A row is under the tab of its badge and no other, but for the two kinds of rows that
\* BadgeNamesTab names, whatever window others have given it.
THEOREM MyTestsTabs == MyTestsSpec => []BadgeNamesTab
<1>1. MyTestsInv => BadgeNamesTab
  <2> SUFFICES ASSUME MyTestsInv, NEW t \in Shown(tableRows), NEW now \in Instants
               PROVE  /\ {u \in Tabs3 : InTab(tableRows[t], u, now)} =
                            CASE /\ Badge(tableRows[t], now) = "ongoing"
                                 /\ ~(HasStart(tableRows[t]) /\ HasEnd(tableRows[t])) -> {}
                              [] /\ Badge(tableRows[t], now) = "yet"
                                 /\ HasEnd(tableRows[t]) /\ tableRows[t].end < now
                                    -> {"yet", "completed"}
                              [] OTHER -> {Badge(tableRows[t], now)}
                      /\ \A later \in Instants : now <= later =>
                            Progress(Badge(tableRows[t], now))
                              <= Progress(Badge(tableRows[t], later))
    BY DEF BadgeNamesTab
  <2>1. tableRows[t] \in [published : BOOLEAN, start : Nat \cup {NoTime}, end : Nat \cup {NoTime}]
    BY DEF MyTestsInv, RowsOK, RowMaps, RowType, Shown
  <2>2. Instants \subseteq Nat
    BY MyTestsAssumption
  <2>3. PICK r \in [published : BOOLEAN, start : Nat \cup {NoTime}, end : Nat \cup {NoTime}] :
           r = tableRows[t]
    BY <2>1
  <2> QED
    BY <2>2, <2>3, TabsOfRow, BadgeForward
<1> QED
  BY <1>1, MyTestsInvariance, PTL

-----------------------------------------------------------------------------
(* The editor of a test *)

\* How far handleSave of tab e has come, and what it knows by then: the questions it has
\* sent and is through with are linked unless deleted, and once it has counted them there
\* is one, or one has been lost since.
SaveInStep(e) ==
    LET s == editor[e] IN
    /\ s.save = "add" => (s.sent \ s.todo) \cap stored \subseteq linked
    /\ s.save \in {"count", "publish", "done"} =>
          s.sent \cap stored \subseteq linked /\ s.sent \cap Customs = {}
    /\ s.save = "publish" => linked # {} \/ uncounted
    /\ s.save = "done" => published

SavesInStep == \A e \in Editors : SaveInStep(e)

EditorInv == EditorTypeOK /\ SavesInStep /\ PublishedHasQuestions

LEMMA EditorInvInit == EditorInit => EditorInv
<1> SUFFICES ASSUME EditorInit PROVE EditorInv
  OBVIOUS
<1> USE DEF EditorInit, Unopened
<1>1. EditorTypeOK
  BY DEF EditorTypeOK, DbQuestions
<1>2. SavesInStep
  BY DEF SavesInStep, SaveInStep
<1>3. PublishedHasQuestions
  BY DEF PublishedHasQuestions
<1> QED
  BY <1>1, <1>2, <1>3 DEF EditorInv

\* The steps of the list: nothing is sent.
LEMMA EditorListSteps ==
  ASSUME EditorInv, NEW e \in Editors,
         \/ LoadTest(e) \/ LoadBank(e)
         \/ ToggleSelect(e) \/ SelectAll(e) \/ AddCustom(e) \/ LeaveEditor(e)
  PROVE  EditorInv'
<1> USE DEF EditorInv
<1>u. UNCHANGED <<stored, linked, published, uncounted>>
  BY DEF LoadTest, LoadBank, ToggleSelect, SelectAll, AddCustom, LeaveEditor, Pick
<1>2. EditorTypeOK'
  <2> USE <1>u DEF EditorTypeOK
  <2>1. CASE LoadTest(e)
    BY <2>1 DEF LoadTest, Pickable
  <2>2. CASE LoadBank(e)
    BY <2>2 DEF LoadBank, Pickable, DbQuestions
  <2>3. CASE ToggleSelect(e)
    BY <2>3 DEF ToggleSelect, Pick
  <2>4. CASE SelectAll(e)
    BY <2>4 DEF SelectAll, Pick
  <2>5. CASE AddCustom(e)
    <3>1. PICK c \in Customs :
          editor' = [editor EXCEPT ![e].available = @ \cup {c}, ![e].selected = @ \cup {c}]
      BY <2>5 DEF AddCustom
    <3>2. editor[e].available \cup {c} \in SUBSET Pickable
          /\ editor[e].selected \cup {c} \in SUBSET Pickable
      BY DEF Pickable
    <3>3. editor' = [editor EXCEPT ![e] = [editor[e] EXCEPT
                       !.available = editor[e].available \cup {c},
                       !.selected = editor[e].selected \cup {c}]]
      BY <3>1
    <3>4. [editor[e] EXCEPT !.available = editor[e].available \cup {c},
                            !.selected = editor[e].selected \cup {c}]
          \in [pc : {"test", "bank", "open", "left"},
              available : SUBSET Pickable, selected : SUBSET Pickable,
              save : {"none", "add", "count", "publish", "done", "failed"},
              sent : SUBSET Pickable, todo : SUBSET Pickable]
      BY <3>2
    <3> QED
      BY <3>3, <3>4
  <2>6. CASE LeaveEditor(e)
    BY <2>6 DEF LeaveEditor, Unopened
  <2> QED
    BY <2>1, <2>2, <2>3, <2>4, <2>5, <2>6
<1>3. SavesInStep'
  <2> SUFFICES ASSUME NEW f \in Editors PROVE SaveInStep(f)'
    BY DEF SavesInStep
  <2>1. \/ editor'[f].save = "none"
        \/ /\ editor'[f].save = editor[f].save
           /\ editor'[f].sent = editor[f].sent /\ editor'[f].todo = editor[f].todo
    <3> USE DEF EditorTypeOK
    <3>1. CASE LoadTest(e) \/ LoadBank(e)
      BY <3>1 DEF LoadTest, LoadBank
    <3>2. CASE ToggleSelect(e) \/ SelectAll(e)
      BY <3>2 DEF ToggleSelect, SelectAll, Pick
    <3>3. CASE AddCustom(e)
      <4>1. PICK c \in Customs :
            editor' = [editor EXCEPT ![e].available = @ \cup {c}, ![e].selected = @ \cup {c}]
        BY <3>3 DEF AddCustom
      <4> QED
        BY <4>1
    <3>4. CASE LeaveEditor(e)
      BY <3>4 DEF LeaveEditor, Unopened
    <3> QED
      BY <3>1, <3>2, <3>3, <3>4
  <2> QED
    BY <1>u, <2>1 DEF SavesInStep, SaveInStep
<1>4. PublishedHasQuestions'
  BY <1>u DEF PublishedHasQuestions
<1> QED
  BY <1>2, <1>3, <1>4

\* The steps of handleSave and of the handlers it calls.
LEMMA EditorSaveSteps ==
  ASSUME EditorInv, NEW e \in Editors,
         \/ SaveTest(e) \/ RequestLost(e) \/ BodyRejected(e)
         \/ AddQuestion(e) \/ CountQuestions(e) \/ Publish(e)
  PROVE  EditorInv'
<1> USE DEF EditorInv
<1>1. EditorTypeOK'
  <2> USE DEF EditorTypeOK
  <2>1. CASE SaveTest(e)
    BY <2>1 DEF SaveTest, Unopened
  <2>2. CASE RequestLost(e) \/ BodyRejected(e)
    <3>1. /\ editor' = [editor EXCEPT ![e].save = "failed", ![e].sent = {}, ![e].todo = {}]
          /\ UNCHANGED <<stored, linked, uncounted>>
      BY <2>2 DEF RequestLost, BodyRejected, SaveFails, Saved
    <3>2. published' \in BOOLEAN
      BY <2>2 DEF RequestLost, BodyRejected
    <3>3. editor' = [editor EXCEPT ![e] =
                       [editor[e] EXCEPT !.save = "failed", !.sent = {}, !.todo = {}]]
      BY <3>1
    <3>4. [editor[e] EXCEPT !.save = "failed", !.sent = {}, !.todo = {}]
          \in [pc : {"test", "bank", "open", "left"},
              available : SUBSET Pickable, selected : SUBSET Pickable,
              save : {"none", "add", "count", "publish", "done", "failed"},
              sent : SUBSET Pickable, todo : SUBSET Pickable]
      OBVIOUS
    <3> QED
      BY <3>1, <3>2, <3>3, <3>4
  <2>3. CASE AddQuestion(e)
    BY <2>3 DEF AddQuestion, SaveFails, Saved
  <2>4. CASE CountQuestions(e)
    <3>1. CASE linked # {}
      BY <2>4, <3>1 DEF CountQuestions
    <3>2. CASE linked = {}
      BY <2>4, <3>2 DEF CountQuestions, SaveFails, Saved
    <3> QED
      BY <3>1, <3>2
  <2>5. CASE Publish(e)
    <3>1. editor' = [editor EXCEPT ![e].save = "done", ![e].sent = editor[e].sent,
                                   ![e].todo = {}]
      BY <2>5 DEF Publish, Saved
    <3>2. editor[e].sent \in SUBSET Pickable
      OBVIOUS
    <3>3. [editor[e] EXCEPT !.save = "done", !.sent = editor[e].sent, !.todo = {}]
          \in [pc : {"test", "bank", "open", "left"},
              available : SUBSET Pickable, selected : SUBSET Pickable,
              save : {"none", "add", "count", "publish", "done", "failed"},
              sent : SUBSET Pickable, todo : SUBSET Pickable]
      BY <3>2
    <3>4. editor' = [editor EXCEPT ![e] =
                       [editor[e] EXCEPT !.save = "done", !.sent = editor[e].sent, !.todo = {}]]
      BY <3>1
    <3>5. stored' = stored /\ linked' = linked /\ published' = TRUE /\ uncounted' = uncounted
      BY <2>5 DEF Publish
    <3> QED
      BY <3>3, <3>4, <3>5
  <2> QED
    BY <2>1, <2>2, <2>3, <2>4, <2>5
<1>2. PublishedHasQuestions'
  BY DEF PublishedHasQuestions, SavesInStep, SaveInStep, SaveTest, RequestLost, BodyRejected,
         AddQuestion, CountQuestions, Publish
<1>3. SaveInStep(e)'
  <2> USE DEF SaveInStep, SavesInStep, EditorTypeOK
  <2>1. CASE SaveTest(e)
    BY <2>1 DEF SaveTest, Unopened
  <2>2. CASE RequestLost(e) \/ BodyRejected(e)
    <3>1. editor' = [editor EXCEPT ![e].save = "failed", ![e].sent = {}, ![e].todo = {}]
      BY <2>2 DEF RequestLost, BodyRejected, SaveFails, Saved
    <3>2. editor'[e].save = "failed"
      BY <3>1
    <3> QED
      BY <3>2
  <2>3. CASE AddQuestion(e)
    <3>1. PICK q \in editor[e].todo :
            IF q \in stored \ linked
              THEN /\ linked' = linked \cup {q}
                   /\ editor' = [editor EXCEPT
                                   ![e].todo = @ \ {q},
                                   ![e].save = IF editor[e].todo = {q} THEN "count" ELSE @]
              ELSE SaveFails(e) /\ UNCHANGED linked
      BY <2>3 DEF AddQuestion
    <3>2. CASE q \in stored \ linked
      <4>1. /\ editor'[e].sent = editor[e].sent /\ editor'[e].todo = editor[e].todo \ {q}
            /\ editor'[e].save = IF editor[e].todo = {q} THEN "count" ELSE "add"
        BY <2>3, <3>1, <3>2 DEF AddQuestion
      <4>2. linked' = linked \cup {q} /\ stored' = stored
        BY <2>3, <3>1, <3>2 DEF AddQuestion
      <4> QED
        BY <2>3, <4>1, <4>2 DEF AddQuestion
    <3>3. CASE q \notin stored \ linked
      BY <3>1, <3>3 DEF SaveFails, Saved
    <3> QED
      BY <3>2, <3>3
  <2>4. CASE CountQuestions(e)
    BY <2>4 DEF CountQuestions, SaveFails, Saved
  <2>5. CASE Publish(e)
    BY <2>5 DEF Publish, Saved
  <2> QED
    BY <2>1, <2>2, <2>3, <2>4, <2>5
<1>4. ASSUME NEW f \in Editors \ {e} PROVE SaveInStep(f)'
  <2>1. editor'[f] = editor[f]
    BY DEF EditorTypeOK, SaveTest, RequestLost, BodyRejected, AddQuestion, CountQuestions,
           Publish, SaveFails, Saved
  <2>2. /\ stored' = stored /\ uncounted' = uncounted
        /\ linked \subseteq linked' /\ (published => published')
    <3>1. CASE AddQuestion(e)
      BY <3>1 DEF AddQuestion
    <3>2. CASE Publish(e)
      BY <3>2 DEF Publish
    <3>3. CASE SaveTest(e) \/ BodyRejected(e) \/ CountQuestions(e)
      BY <3>3 DEF SaveTest, BodyRejected, CountQuestions
    <3>4. CASE RequestLost(e)
      BY <3>4 DEF RequestLost, EditorTypeOK
    <3> QED
      BY <3>1, <3>2, <3>3, <3>4
  <2> QED
    BY <2>1, <2>2 DEF SavesInStep, SaveInStep
<1> QED
  BY <1>1, <1>2, <1>3, <1>4 DEF SavesInStep

\* What others do to the test and to its questions.
LEMMA EditorOutsideSteps ==
  ASSUME EditorInv, OpenDueTest \/ \E q \in DbQuestions : DeleteQuestion(q)
  PROVE  EditorInv'
<1> USE DEF EditorInv
<1>1. CASE OpenDueTest
  BY <1>1 DEF OpenDueTest, EditorTypeOK, SavesInStep, SaveInStep, PublishedHasQuestions
<1>2. ASSUME NEW q \in DbQuestions, DeleteQuestion(q) PROVE EditorInv'
  <2> USE <1>2 DEF DeleteQuestion
  <2>1. EditorTypeOK'
    BY DEF EditorTypeOK
  <2>2. PublishedHasQuestions'
    BY DEF PublishedHasQuestions, EditorTypeOK
  <2>3. ASSUME NEW f \in Editors PROVE SaveInStep(f)'
    <3>1. SaveInStep(f)
      BY DEF SavesInStep
    <3>2. editor[f].save = "publish" => linked' # {} \/ uncounted'
      BY <3>1 DEF SaveInStep, Counted, EditorTypeOK
    <3> QED
      BY <3>1, <3>2 DEF SaveInStep
  <2> QED
    BY <2>1, <2>2, <2>3 DEF SavesInStep
<1> QED
  BY <1>1, <1>2

LEMMA EditorInvStep == EditorInv /\ [EditorNext]_editorVars => EditorInv'
<1> SUFFICES ASSUME EditorInv, [EditorNext]_editorVars PROVE EditorInv'
  OBVIOUS
<1>1. CASE UNCHANGED editorVars
  BY <1>1 DEF editorVars, EditorInv, EditorTypeOK, SavesInStep, SaveInStep, PublishedHasQuestions
<1>2. CASE EditorNext
  BY <1>2, EditorListSteps, EditorSaveSteps, EditorOutsideSteps DEF EditorNext
<1> QED
  BY <1>1, <1>2

\* The invariant of the editor, with the handlers that it calls.
THEOREM EditorInvariance == EditorSpec => []EditorInv
  BY EditorInvInit, EditorInvStep, PTL DEF EditorSpec

\* Every variable of the editor has its type.
THEOREM EditorTypes == EditorSpec => []EditorTypeOK
<1>1. EditorInv => EditorTypeOK
  BY DEF EditorInv
<1> QED
  BY <1>1, EditorInvariance, PTL

\* A test that the page says is published is, and every question that was sent is one of
\* it, or has been deleted.
THEOREM EditorPublishes == EditorSpec => []PublishedAsTicked
<1>1. EditorInv => PublishedAsTicked
  BY DEF EditorInv, SavesInStep, SaveInStep, PublishedAsTicked
<1> QED
  BY <1>1, EditorInvariance, PTL

\* A published test has a question, unless it has lost one since the count or was
\* published by the scheduler.
THEOREM EditorCounts == EditorSpec => []PublishedHasQuestions
<1>1. EditorInv => PublishedHasQuestions
  BY DEF EditorInv
<1> QED
  BY <1>1, EditorInvariance, PTL

=============================================================================
