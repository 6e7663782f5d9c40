----------------------------- MODULE SessionProofs -----------------------------
(***************************************************************************)
(* Proofs about signing in, staying signed in and signing out.             *)
(*                                                                         *)
(* The invariant has three parts. Tokens: each belongs to the user of the  *)
(* issue that made it, and all that a tab has stored, or is about to store *)
(* again, has a row or has been used up. Rows: one that is used up and     *)
(* still there, or found by two, is lenient. Tabs: one that nobody has     *)
(* overtaken has the tokens of its user, or of the user it asks about.     *)
(***************************************************************************)
EXTENDS Session, TLAPS

IssueType == [user : Users, token : Tokens]

SeatType == [user : Users \cup {Nobody}, step : Steps, as : Users \cup {Nobody},
             old : Tokens \cup {NoToken}, row : Tokens \cup {NoToken}]

\* Every issue is to the owner of its token; only issues have rows.
IssuesOK ==
    /\ \A i \in 1..Issued : issues[i].token \in 1..i /\ Owner(issues[i].token) = issues[i].user
    /\ rows \subseteq 1..Issued /\ used \subseteq 1..Issued

\* Token k has a row, or had one until a refresh used it up.
Known(k) == \E i \in 1..Issued : issues[i].token = k /\ i \in rows \cup used

Refreshing == {"select", "delete", "insert"}

\* The fields of a seat, by the step of its fetchUser.
SeatsOK ==
    \A t \in Browser :
        /\ seat[t].step \in {"me", "meAgain"} => seat[t].as \in Users
        /\ seat[t].step \in {"delete", "insert"} => seat[t].row \in 1..Issued

\* The tokens that are stored, or about to be stored again.
TokensKnown ==
    /\ local # NoToken => Known(local)
    /\ \A t \in Browser : session[t] # NoToken => Known(session[t])
    /\ \A t \in Browser : seat[t].step \in Refreshing => Known(seat[t].old)

RowsSpent ==
    /\ used \cap rows \subseteq lenient /\ again \subseteq lenient
    /\ \A t \in Browser :
          seat[t].step = "delete" /\ seat[t].row \in used => seat[t].row \in lenient
    /\ \A p, q \in Browser :
          seat[p].step = "delete" /\ seat[q].step = "delete" /\ seat[p].row = seat[q].row
              => p = q \/ seat[p].row \in lenient

\* Tab t, if nobody has overtaken it.
TabInStep(t) ==
    /\ seat[t].user # Nobody => GetToken(t) # NoToken /\ Owner(GetToken(t)) = seat[t].user
    /\ seat[t].step \in {"me", "meAgain"} =>
          GetToken(t) # NoToken /\ Owner(GetToken(t)) = seat[t].as
    /\ seat[t].step \in Refreshing => GetToken(t) = seat[t].old
    /\ seat[t].step # "idle" => seat[t].user = Nobody

TabsInStep == \A t \in Browser \ overtaken : TabInStep(t)

SessionInv == SessionTypeOK /\ IssuesOK /\ SeatsOK /\ TokensKnown /\ RowsSpent /\ TabsInStep

-----------------------------------------------------------------------------
(* Facts about one state *)

LEMMA SessionTyped ==
  ASSUME SessionTypeOK
  PROVE  /\ issues \in Seq(IssueType) /\ Issued \in Nat /\ Issued <= MaxIssues
         /\ \A i \in 1..Issued : issues[i] \in IssueType
         /\ session \in [Browser -> Tokens \cup {NoToken}]
         /\ seat \in [Browser -> SeatType] /\ local \in Tokens \cup {NoToken}
         /\ MaxIssues \in Nat
<1>1. issues \in Seq(IssueType)
  BY DEF SessionTypeOK, IssueType
<1> QED
  BY <1>1, SessionAssumption DEF SessionTypeOK, SeatType, Issued

LEMMA KnownIssued ==
  ASSUME SessionTypeOK, IssuesOK, NEW k, Known(k)
  PROVE  k \in 1..Issued /\ k \in Tokens /\ k # NoToken /\ Owner(k) \in Users
<1>1. PICK i \in 1..Issued : issues[i].token = k
  BY DEF Known
<1>2. k \in 1..i /\ Issued \in Nat /\ Issued <= MaxIssues /\ MaxIssues \in Nat
  BY <1>1, SessionTyped DEF IssuesOK
<1>3. k \in 1..Issued /\ k \in Tokens
  BY <1>1, <1>2 DEF Tokens
<1>4. issues[k] \in IssueType
  BY <1>3, SessionTyped
<1> QED
  BY <1>3, <1>4, <1>2, SessionAssumption DEF Owner, IssueType

LEMMA GetTokenKnown ==
  ASSUME TokensKnown, NEW t \in Browser, GetToken(t) # NoToken
  PROVE  Known(GetToken(t))
  BY DEF TokensKnown, GetToken

\* The tokens stay what they are, and known.
Grown ==
    /\ IssuesOK' /\ Issued <= Issued' /\ Issued' \in Nat
    /\ \A k \in 1..Issued : Owner(k)' = Owner(k)
    /\ \A k : Known(k) => Known(k)'

LEMMA NothingIssued ==
  ASSUME SessionInv, UNCHANGED issues, rows' \cup used' = rows \cup used
  PROVE  Grown
<1>1. Issued' = Issued /\ Issued \in Nat
  BY SessionTyped DEF SessionInv, Issued
<1>2. IssuesOK'
  BY <1>1 DEF SessionInv, IssuesOK, Owner
<1>3. \A k : Known(k) => Known(k)'
  BY <1>1 DEF Known
<1>4. \A k \in 1..Issued : Owner(k)' = Owner(k)
  BY DEF Owner
<1> QED
  BY <1>1, <1>2, <1>3, <1>4 DEF Grown

LEMMA OneIssued ==
  ASSUME SessionInv, NEW u \in Users, NEW k \in Tokens, Issue(u, k), UNCHANGED used
  PROVE  /\ Grown /\ issues' \in Seq(IssueType) /\ Issued' = Issued + 1 /\ Issued' <= MaxIssues
         /\ Known(k)' /\ Owner(k)' = u
<1> DEFINE n == Issued + 1
<1>1. /\ Issued < MaxIssues /\ rows' = rows \cup {n}
      /\ issues' = Append(issues, [user |-> u, token |-> k])
      /\ k = n \/ (Issued # 0 /\ k = issues[Issued].token /\ issues[Issued].user = u)
  BY DEF Issue
<1>2. issues \in Seq(IssueType) /\ Issued \in Nat /\ MaxIssues \in Nat /\ IssuesOK
  BY SessionTyped DEF SessionInv
<1>3. [user |-> u, token |-> k] \in IssueType
  BY DEF IssueType
<1>4. /\ issues' \in Seq(IssueType) /\ Len(issues') = n
      /\ \A i \in 1..Issued : issues'[i] = issues[i]
      /\ issues'[n] = [user |-> u, token |-> k]
  BY <1>1, <1>2, <1>3 DEF Issued
<1>5. Issued' = n /\ n \in Nat /\ n \in 1..n
  BY <1>2, <1>4 DEF Issued
<1>6. /\ issues'[n].user = u /\ issues'[n].token = k /\ \A i \in 1..n : i = n \/ i \in 1..Issued
      /\ \A i \in 1..Issued : i \in 1..n
  BY <1>2, <1>4
<1>7. k \in 1..n /\ issues'[k].user = u
  <2>1. CASE k = n
    BY <1>5, <1>6, <2>1
  <2>2. CASE Issued # 0 /\ k = issues[Issued].token /\ issues[Issued].user = u
    <3>1. Issued \in 1..Issued
      BY <1>2, <2>2
    <3>2. k \in 1..Issued /\ issues[k].user = u
      BY <1>2, <2>2, <3>1 DEF IssuesOK, Owner
    <3> QED
      BY <1>4, <1>6, <3>2
  <2> QED
    BY <1>1, <2>1, <2>2
<1> HIDE DEF n
<1>8. \A j \in 1..Issued : Owner(j)' = Owner(j)
  BY <1>4 DEF Owner
<1>9. IssuesOK'
  <2>1. ASSUME NEW i \in 1..Issued
        PROVE  issues'[i].token \in 1..i /\ issues'[issues'[i].token].user = issues'[i].user
    <3>1. issues[i].token \in 1..i /\ issues[issues[i].token].user = issues[i].user
      BY <1>2 DEF IssuesOK, Owner
    <3>2. issues[i].token \in 1..Issued
      BY <1>2, <3>1
    <3> QED
      BY <1>4, <3>1, <3>2
  <2>2. issues'[n].token \in 1..n /\ issues'[issues'[n].token].user = issues'[n].user
    BY <1>6, <1>7
  <2>3. rows' \subseteq 1..n /\ used' \subseteq 1..n
    BY <1>1, <1>2, <1>5, <1>6 DEF IssuesOK
  <2> QED
    BY <1>5, <1>6, <2>1, <2>2, <2>3 DEF IssuesOK, Owner
<1>10. ASSUME NEW j, Known(j) PROVE Known(j)'
  BY <1>1, <1>4, <1>5, <1>6, <1>10 DEF Known
<1>11. Known(k)'
  <2>1. n \in rows' /\ n \in 1..Issued' /\ issues'[n].token = k
    BY <1>1, <1>5, <1>6 DEF n
  <2> QED
    BY <2>1 DEF Known
<1>12. Owner(k)' = u
  BY <1>7 DEF Owner
<1> QED
  BY <1>1, <1>2, <1>4, <1>5, <1>8, <1>9, <1>10, <1>11, <1>12 DEF Grown, n

-----------------------------------------------------------------------------
(* Types *)

LEMMA SeatTyped ==
  ASSUME SessionTypeOK, NEW t \in Browser, NEW s \in SeatType, Sit(t, s)
  PROVE  /\ seat' \in [Browser -> SeatType] /\ seat'[t] = s
         /\ \A u \in Browser \ {t} : seat'[u] = seat[u]
  BY SessionTyped DEF Sit

\* The seats that actions leave behind.
LEMMA SeatValues ==
  ASSUME NEW s \in SeatType, NEW u \in Users \cup {Nobody}, NEW a \in Users \cup {Nobody},
         NEW k \in Tokens \cup {NoToken}, NEW p \in Steps
  PROVE  /\ Seat(u) \in SeatType
         /\ End(s, u) \in SeatType
         /\ [s EXCEPT !.user = u] \in SeatType
         /\ [s EXCEPT !.step = p] \in SeatType
         /\ [s EXCEPT !.step = p, !.as = a] \in SeatType
         /\ [s EXCEPT !.step = p, !.row = k] \in SeatType
         /\ [s EXCEPT !.step = p, !.as = a, !.old = k] \in SeatType
<1> USE DEF SeatType, Steps
<1>1. Seat(u) \in SeatType
  BY DEF Seat
<1>2. End(s, u) \in SeatType
  <2>1. "idle" \in Steps
    OBVIOUS
  <2> QED
    BY <2>1 DEF End
<1>3. [s EXCEPT !.user = u] \in SeatType
  OBVIOUS
<1>4. [s EXCEPT !.step = p] \in SeatType
  OBVIOUS
<1>5. [s EXCEPT !.step = p, !.as = a] \in SeatType
  OBVIOUS
<1>6. [s EXCEPT !.step = p, !.row = k] \in SeatType
  OBVIOUS
<1>7. [s EXCEPT !.step = p, !.as = a, !.old = k] \in SeatType
  OBVIOUS
<1> QED
  BY <1>1, <1>2, <1>3, <1>4, <1>5, <1>6, <1>7

LEMMA MountedTyped ==
  ASSUME SessionInv, NEW t \in Browser
  PROVE  Mounted(GetToken(t)) \in SeatType
<1>1. GetToken(t) # NoToken => Owner(GetToken(t)) \in Users
  BY GetTokenKnown, KnownIssued DEF SessionInv
<1>2. Seat(Nobody) \in SeatType
  BY DEF Seat, SeatType, Steps
<1>3. CASE GetToken(t) = NoToken
  BY <1>3, <1>2 DEF Mounted
<1>4. CASE GetToken(t) # NoToken
  <2>1. "me" \in Steps
    BY DEF Steps
  <2> QED
    BY <1>1, <1>2, <1>4, <2>1, SeatValues DEF Mounted
<1> QED
  BY <1>3, <1>4

\* What setTokens and clearTokens leave in the storages.
LEMMA SetTokensWrites ==
  ASSUME SessionTypeOK, NEW t \in Browser, NEW k \in Tokens, NEW b \in BOOLEAN, SetTokens(t, k, b)
  PROVE  /\ local' \in {k, NoToken} /\ session'[t] \in {k, NoToken} /\ GetToken(t)' = k
         /\ \A u \in Browser \ {t} : session'[u] = session[u]
         /\ session' \in [Browser -> Tokens \cup {NoToken}]
<1>1. session \in [Browser -> Tokens \cup {NoToken}] /\ k # NoToken
  BY SessionTyped, SessionAssumption DEF Tokens
<1>2. CASE b
  BY <1>1, <1>2 DEF SetTokens, GetToken
<1>3. CASE ~b
  BY <1>1, <1>3 DEF SetTokens, GetToken
<1> QED
  BY <1>2, <1>3

LEMMA ClearWrites ==
  ASSUME SessionTypeOK, NEW t \in Browser, ClearTokens(t)
  PROVE  /\ local' = NoToken /\ session'[t] = NoToken
         /\ \A u \in Browser \ {t} : session'[u] = session[u]
         /\ session' \in [Browser -> Tokens \cup {NoToken}]
  BY SessionTyped DEF ClearTokens

-----------------------------------------------------------------------------
(* Steps that leave a part of the invariant alone *)

\* Every tab but t: its seat and its sessionStorage are as they were, and it is overtaken
\* if it was, or if localStorage is written.
OthersKept(t) ==
    \A u \in Browser \ {t} :
        /\ seat'[u] = seat[u] /\ session'[u] = session[u]
        /\ u \notin overtaken' => u \notin overtaken /\ local' = local

\* What is stored now was stored, or is known now.
Stores(t) ==
    /\ \E k : local' = k /\ (k \in {local, NoToken} \/ Known(k)')
    /\ \E k : session'[t] = k /\ (k \in {session[t], NoToken} \/ Known(k)')
    /\ seat'[t].step \in Refreshing =>
          \E k : /\ seat'[t].old = k
                 /\ \/ seat[t].step \in Refreshing /\ seat[t].old = k
                    \/ Known(k)'

LEMMA StorageKnown ==
  ASSUME SessionInv, Grown, NEW t \in Browser, OthersKept(t), Stores(t)
  PROVE  TokensKnown'
<1>1. local' # NoToken => Known(local)'
  BY DEF SessionInv, TokensKnown, Grown, Stores, Known
<1>2. session'[t] # NoToken => Known(session[t])'
  BY DEF SessionInv, TokensKnown, Grown, Stores, Known
<1>3. seat'[t].step \in Refreshing => Known(seat[t].old)'
  BY DEF SessionInv, TokensKnown, Grown, Stores, Known
<1>4. ASSUME NEW u \in Browser \ {t}
      PROVE  /\ session'[u] # NoToken => Known(session[u])'
             /\ seat'[u].step \in Refreshing => Known(seat[u].old)'
  BY DEF SessionInv, TokensKnown, Grown, OthersKept, Known
<1> QED
  BY <1>1, <1>2, <1>3, <1>4 DEF TokensKnown

\* The other tabs go on as they were.
LEMMA OthersInStep ==
  ASSUME SessionInv, Grown, NEW t \in Browser, OthersKept(t), NEW u \in Browser \ {t},
         u \notin overtaken'
  PROVE  TabInStep(u)'
<1>1. /\ seat'[u] = seat[u] /\ u \notin overtaken /\ TabInStep(u)
      /\ GetToken(u)' = GetToken(u)
  BY DEF OthersKept, SessionInv, TabsInStep, GetToken
<1>2. GetToken(u) # NoToken => GetToken(u) \in 1..Issued
  BY GetTokenKnown, KnownIssued DEF SessionInv
<1>3. GetToken(u) # NoToken => Owner(GetToken(u))' = Owner(GetToken(u))
  <2> DEFINE k == GetToken(u)
  <2>1. \A j \in 1..Issued : issues'[j].user = issues[j].user
    BY DEF Grown, Owner
  <2> QED
    BY <1>1, <1>2, <2>1 DEF Owner
<1> QED
  BY <1>1, <1>3 DEF TabInStep

\* No refresh deletes a row or finds one.
LEMMA NothingSpent ==
  ASSUME SessionInv, UNCHANGED <<used, again, lenient>>, rows' \subseteq rows \cup {Issued + 1},
         \A t \in Browser : seat'[t].step = "delete" =>
            seat[t].step = "delete" /\ seat'[t].row = seat[t].row
  PROVE  RowsSpent'
<1>1. Issued + 1 \notin used
  BY SessionTyped DEF SessionInv, IssuesOK
<1> QED
  BY <1>1 DEF SessionInv, RowsSpent

\* A tab takes another seat, and perhaps other tokens.
LEMMA SeatStep ==
  ASSUME SessionInv, Grown, NEW t \in Browser, NEW s \in SeatType, Sit(t, s),
         local' \in Tokens \cup {NoToken}, session' \in [Browser -> Tokens \cup {NoToken}],
         issues' \in Seq(IssueType), Issued' <= MaxIssues, rows' \subseteq Tokens,
         overtaken' \subseteq Browser, lenient' \subseteq Tokens,
         used' \subseteq Tokens, again' \subseteq used',
         OthersKept(t), Stores(t), RowsSpent', t \notin overtaken' => TabInStep(t)',
         s.step \in {"me", "meAgain"} => s.as \in Users,
         s.step \in {"delete", "insert"} => s.row \in 1..Issued
  PROVE  SessionInv'
<1>0. SessionTypeOK
  BY DEF SessionInv
<1>1. seat' \in [Browser -> SeatType] /\ seat'[t] = s /\ \A u \in Browser \ {t} : seat'[u] = seat[u]
  BY <1>0, SeatTyped
<1>2. SessionTypeOK'
  BY <1>1 DEF SessionTypeOK, IssueType, SeatType
<1>3. SeatsOK'
  <2>1. \A i \in 1..Issued : i \in 1..Issued'
    BY <1>0, SessionTyped DEF Grown
  <2> QED
    BY <1>1, <2>1 DEF SessionInv, SeatsOK
<1>4. TokensKnown'
  BY StorageKnown
<1>5. TabsInStep'
  BY OthersInStep DEF TabsInStep
<1> QED
  BY <1>2, <1>3, <1>4, <1>5 DEF SessionInv, Grown

\* fetchUser ends without its tokens: only a tab that shows a user all the same has
\* been overtaken before.
LEMMA ClearedStep ==
  ASSUME SessionInv, Grown, NEW t \in Browser, seat[t].step # "idle", EndCleared(t),
         issues' \in Seq(IssueType), Issued' <= MaxIssues, rows' \subseteq Tokens,
         rows' \subseteq rows \cup {Issued + 1}, UNCHANGED <<used, again, lenient>>
  PROVE  SessionInv'
<1> DEFINE s == End(seat[t], seat[t].user)
<1>0. SessionTypeOK /\ seat[t] \in SeatType
  BY SessionTyped DEF SessionInv
<1>1. /\ s \in SeatType /\ s.step = "idle" /\ s.user = seat[t].user
      /\ seat[t].user \in Users \cup {Nobody}
  <2>1. seat[t].user \in Users \cup {Nobody}
    BY <1>0 DEF SeatType
  <2> QED
    <3>1. s \in SeatType
      BY <1>0, <2>1, SeatValues DEF Steps
    <3>2. s.step = "idle" /\ s.user = seat[t].user
      BY <1>0 DEF End, SeatType
    <3> QED
      BY <2>1, <3>1, <3>2
<1> HIDE DEF s
<1>2. ClearTokens(t) /\ Sit(t, s) /\ overtaken' = overtaken \cup Overtakes(t)
  BY DEF EndCleared, s
<1>3. /\ local' = NoToken /\ session'[t] = NoToken
      /\ \A u \in Browser \ {t} : session'[u] = session[u]
      /\ session' \in [Browser -> Tokens \cup {NoToken}]
  BY <1>0, <1>2, ClearWrites
<1>4. seat'[t] = s /\ \A u \in Browser \ {t} : seat'[u] = seat[u]
  BY <1>0, <1>1, <1>2, SeatTyped
<1>5. OthersKept(t) /\ overtaken' \subseteq Browser
  BY <1>0, <1>2, <1>3, <1>4 DEF OthersKept, Overtakes, SessionTypeOK
<1>6. Stores(t)
  BY <1>1, <1>3, <1>4 DEF Stores, Refreshing
<1>7. RowsSpent'
  BY <1>1, <1>4, NothingSpent
<1>8. ASSUME t \notin overtaken' PROVE TabInStep(t)'
  <2>1. seat[t].user = Nobody
    BY <1>2, <1>8 DEF SessionInv, TabsInStep, TabInStep
  <2> QED
    BY <1>1, <1>4, <2>1 DEF TabInStep, Refreshing
<1>9. lenient' \subseteq Tokens /\ used' \subseteq Tokens /\ again' \subseteq used'
  BY <1>0 DEF SessionTypeOK
<1> QED
  BY <1>1, <1>2, <1>3, <1>5, <1>6, <1>7, <1>8, <1>9, SeatStep

\* Nothing but the seat of t changes, and the step is none of a refresh.
LEMMA SeatOnlyStep ==
  ASSUME SessionInv, NEW t \in Browser, NEW s \in SeatType, Sit(t, s),
         s.step \notin {"delete", "insert"},
         s.step \in Refreshing => Known(s.old) /\ GetToken(t) = s.old,
         s.step \in {"me", "meAgain"} =>
            s.as \in Users /\ GetToken(t) # NoToken /\ Owner(GetToken(t)) = s.as,
         t \notin overtaken' /\ s.user # Nobody =>
            GetToken(t) # NoToken /\ Owner(GetToken(t)) = s.user,
         t \notin overtaken' /\ s.step # "idle" => s.user = Nobody,
         overtaken' \subseteq Browser, overtaken \subseteq overtaken' \cup {t},
         UNCHANGED <<issues, rows, local, session, used, again, lenient>>
  PROVE  SessionInv'
<1>0. SessionTypeOK /\ Grown
  BY NothingIssued DEF SessionInv
<1>1. seat'[t] = s /\ \A u \in Browser \ {t} : seat'[u] = seat[u]
  BY <1>0, SeatTyped
<1>2. OthersKept(t)
  BY <1>1 DEF OthersKept
<1>3. Stores(t)
  BY <1>0, <1>1 DEF Stores, Grown
<1>4. RowsSpent'
  BY <1>1, NothingSpent
<1>5. ASSUME t \notin overtaken' PROVE TabInStep(t)'
  <2>1. GetToken(t)' = GetToken(t) /\ Owner(GetToken(t))' = Owner(GetToken(t))
    BY DEF GetToken, Owner
  <2> QED
    BY <1>1, <1>5, <2>1 DEF TabInStep
<1>6. /\ issues' \in Seq(IssueType) /\ Issued' <= MaxIssues /\ rows' \subseteq Tokens
      /\ lenient' \subseteq Tokens /\ used' \subseteq Tokens /\ again' \subseteq used'
      /\ local' \in Tokens \cup {NoToken} /\ session' \in [Browser -> Tokens \cup {NoToken}]
  BY <1>0, SessionTyped DEF SessionTypeOK, Issued
<1> QED
  BY <1>0, <1>2, <1>3, <1>4, <1>5, <1>6, SeatStep

-----------------------------------------------------------------------------
(* The steps *)

LEMMA MeStep ==
  ASSUME SessionInv, NEW t \in Browser, MeAnswered(t)
  PROVE  SessionInv'
<1> DEFINE s == End(seat[t], seat[t].as)
<1>0. seat[t] \in SeatType /\ overtaken \subseteq Browser
  BY SessionTyped DEF SessionInv, SessionTypeOK
<1>1. /\ seat[t].step \in {"me", "meAgain"} /\ Sit(t, s)
      /\ UNCHANGED <<issues, rows, local, session, overtaken, used, again, lenient>>
  BY DEF MeAnswered
<1>2. s \in SeatType /\ s.step = "idle" /\ s.user = seat[t].as
  <2>1. seat[t].as \in Users \cup {Nobody}
    BY <1>0 DEF SeatType
  <2>2. s \in SeatType
    BY <1>0, <2>1, SeatValues DEF Steps
  <2>3. s.step = "idle" /\ s.user = seat[t].as
    BY <1>0 DEF End, SeatType
  <2> QED
    BY <2>2, <2>3
<1> HIDE DEF s
<1>3. t \notin overtaken => GetToken(t) # NoToken /\ Owner(GetToken(t)) = seat[t].as
  BY <1>1 DEF SessionInv, TabsInStep, TabInStep
<1> QED
  BY <1>0, <1>1, <1>2, <1>3, SeatOnlyStep DEF Refreshing

LEMMA MeFailsStep ==
  ASSUME SessionInv, NEW t \in Browser, MeFails(t)
  PROVE  SessionInv'
<1>0. /\ SessionTypeOK /\ seat[t] \in SeatType /\ overtaken \subseteq Browser
      /\ local \in Tokens \cup {NoToken} /\ session[t] \in Tokens \cup {NoToken}
  BY SessionTyped DEF SessionInv, SessionTypeOK
<1>1. UNCHANGED <<issues, rows, used, again, lenient>>
  BY DEF MeFails
<1>2. CASE /\ seat[t].step = "me" /\ GetToken(t) # NoToken
           /\ Sit(t, [seat[t] EXCEPT !.step = "select", !.as = Nobody, !.old = GetToken(t)])
           /\ UNCHANGED <<local, session, overtaken>>
  <2> DEFINE s == [seat[t] EXCEPT !.step = "select", !.as = Nobody, !.old = GetToken(t)]
  <2>1. s.step = "select" /\ s.old = GetToken(t) /\ s.user = seat[t].user
    BY <1>0 DEF SeatType
  <2>2. s \in SeatType
    <3>1. GetToken(t) \in Tokens \cup {NoToken} /\ "select" \in Steps
      BY <1>0 DEF GetToken, Steps
    <3> QED
      BY <1>0, <3>1, SeatValues
  <2> HIDE DEF s
  <2>3. Known(s.old)
    BY <1>2, <2>1, GetTokenKnown DEF SessionInv
  <2>4. t \notin overtaken => seat[t].user = Nobody
    BY <1>2 DEF SessionInv, TabsInStep, TabInStep
  <2>5. Sit(t, s)
    BY <1>2 DEF s
  <2> QED
    BY <1>0, <1>1, <1>2, <2>1, <2>2, <2>3, <2>4, <2>5, SeatOnlyStep
<1>3. CASE seat[t].step \in {"me", "meAgain"} /\ EndCleared(t)
  <2>1. Grown
    BY <1>1, NothingIssued
  <2> QED
    BY <1>0, <1>1, <1>3, <2>1, SessionTyped, ClearedStep DEF SessionTypeOK, Issued
<1> QED
  BY <1>2, <1>3 DEF MeFails

LEMMA RefreshFailsStep ==
  ASSUME SessionInv, NEW t \in Browser, RefreshFails(t)
  PROVE  SessionInv'
<1>1. /\ seat[t].step # "idle" /\ EndCleared(t)
      /\ UNCHANGED <<issues, rows, used, again, lenient>>
  BY DEF RefreshFails
<1>2. SessionTypeOK /\ Grown
  BY <1>1, NothingIssued DEF SessionInv
<1> QED
  BY <1>1, <1>2, SessionTyped, ClearedStep DEF SessionTypeOK, Issued

\* Two that have found one row are lenient.
LEMMA SelectStep ==
  ASSUME SessionInv, NEW t \in Browser, SelectRow(t)
  PROVE  SessionInv'
<1>0. SessionTypeOK /\ seat[t] \in SeatType /\ overtaken \subseteq Browser
  BY SessionTyped DEF SessionInv, SessionTypeOK
<1>u. UNCHANGED <<issues, rows, local, session, overtaken, used, again>>
  BY DEF SelectRow
<1>1. PICK i \in rows :
         /\ Sit(t, [seat[t] EXCEPT !.step = "delete", !.row = i])
         /\ lenient' = IF \E q \in Browser : seat[q].step = "delete" /\ seat[q].row = i
                         THEN lenient \cup {i} ELSE lenient
  BY DEF SelectRow
<1> DEFINE s == [seat[t] EXCEPT !.step = "delete", !.row = i]
<1>2. i \in Tokens /\ i \in 1..Issued
  BY <1>0 DEF SessionInv, SessionTypeOK, IssuesOK
<1>3. s \in SeatType
  BY <1>0, <1>2, SeatValues DEF Steps
<1>4. s.step = "delete" /\ s.row = i /\ s.user = seat[t].user /\ s.old = seat[t].old
  BY <1>0 DEF SeatType
<1>5. Sit(t, s)
  BY <1>1
<1> HIDE DEF s
<1>6. seat'[t] = s /\ \A u \in Browser \ {t} : seat'[u] = seat[u]
  BY <1>0, <1>3, <1>5, SeatTyped
<1>7. Grown
  BY <1>u, NothingIssued
<1>8. OthersKept(t)
  BY <1>u, <1>6 DEF OthersKept
<1>9. seat[t].step = "select"
  BY DEF SelectRow
<1>10. Stores(t)
  BY <1>u, <1>4, <1>6, <1>9 DEF Stores, Refreshing
<1>11. /\ lenient \subseteq lenient' /\ lenient' \subseteq Tokens
       /\ \A q \in Browser : seat[q].step = "delete" /\ seat[q].row = i => i \in lenient'
  BY <1>0, <1>1, <1>2 DEF SessionTypeOK
<1>12. RowsSpent'
  <2> USE DEF SessionInv, RowsSpent
  <2>1. used' \cap rows' \subseteq lenient' /\ again' \subseteq lenient'
    BY <1>u, <1>11
  <2>2. ASSUME NEW u \in Browser, seat'[u].step = "delete", seat'[u].row \in used'
        PROVE  seat'[u].row \in lenient'
    BY <1>u, <1>4, <1>6, <1>11, <2>2
  <2>3. ASSUME NEW p \in Browser, NEW q \in Browser, p # q, seat'[p].step = "delete",
               seat'[q].step = "delete", seat'[p].row = seat'[q].row
        PROVE  seat'[p].row \in lenient'
    <3>1. CASE p = t
      BY <1>4, <1>6, <1>11, <2>3, <3>1
    <3>2. CASE q = t
      BY <1>4, <1>6, <1>11, <2>3, <3>2
    <3>3. CASE p # t /\ q # t
      BY <1>6, <1>11, <2>3, <3>3
    <3> QED
      BY <3>1, <3>2, <3>3
  <2> QED
    BY <2>1, <2>2, <2>3
<1>13. ASSUME t \notin overtaken' PROVE TabInStep(t)'
  <2>1. GetToken(t)' = GetToken(t) /\ GetToken(t) = s.old /\ s.user = Nobody
    BY <1>u, <1>4, <1>9, <1>13 DEF GetToken, SessionInv, TabsInStep, TabInStep, Refreshing
  <2> QED
    BY <1>4, <1>6, <2>1 DEF TabInStep
<1>14. /\ issues' \in Seq(IssueType) /\ Issued' <= MaxIssues /\ rows' \subseteq Tokens
       /\ used' \subseteq Tokens /\ again' \subseteq used' /\ overtaken' \subseteq Browser
       /\ local' \in Tokens \cup {NoToken} /\ session' \in [Browser -> Tokens \cup {NoToken}]
  BY <1>0, <1>u, SessionTyped DEF SessionTypeOK, Issued
<1> QED
  BY <1>2, <1>3, <1>4, <1>5, <1>7, <1>8, <1>10, <1>11, <1>12, <1>13, <1>14, SeatStep

\* The row is used up; if it stays, or another request has found it, it is lenient.
LEMMA DeleteStep ==
  ASSUME SessionInv, NEW t \in Browser, DeleteRow(t)
  PROVE  SessionInv'
<1> DEFINE s == [seat[t] EXCEPT !.step = "insert"]
           i == seat[t].row
<1>0. SessionTypeOK /\ seat[t] \in SeatType /\ overtaken \subseteq Browser
  BY SessionTyped DEF SessionInv, SessionTypeOK
<1>u. UNCHANGED <<issues, local, session, overtaken>>
  BY DEF DeleteRow
<1>1. /\ seat[t].step = "delete" /\ Sit(t, s)
      /\ used' = used \cup {i} /\ again' = again \cup ({i} \cap used)
      /\ \/ rows' = rows \ {i} /\ lenient' = lenient
         \/ rows' = rows /\ lenient' = lenient \cup {i}
  BY DEF DeleteRow
<1>2. i \in 1..Issued /\ i \in Tokens
  <2>1. i \in 1..Issued
    BY <1>1 DEF SessionInv, SeatsOK
  <2> QED
    BY <1>0, <2>1, SessionTyped DEF Tokens
<1>3. s \in SeatType
  <2>1. "insert" \in Steps
    BY DEF Steps
  <2> QED
    BY <1>0, <2>1, SeatValues
<1>4. s.step = "insert" /\ s.row = i /\ s.user = seat[t].user /\ s.old = seat[t].old
  BY <1>0 DEF SeatType
<1> HIDE DEF s, i
<1>5. seat'[t] = s /\ \A u \in Browser \ {t} : seat'[u] = seat[u]
  BY <1>0, <1>1, <1>3, SeatTyped
<1>6. /\ lenient \subseteq lenient' /\ lenient' \subseteq Tokens /\ rows' \subseteq rows
      /\ used' \subseteq Tokens /\ again' \subseteq used'
      /\ rows' \cup used' = rows \cup used \cup {i}
  BY <1>0, <1>1, <1>2 DEF SessionTypeOK
<1>7. Grown
  <2>1. Issued' = Issued /\ Issued \in Nat
    BY <1>0, <1>u, SessionTyped DEF Issued
  <2>2. IssuesOK'
    BY <1>u, <1>1, <1>2, <1>6, <2>1 DEF SessionInv, IssuesOK, Owner
  <2>3. \A k : Known(k) => Known(k)'
    BY <1>u, <1>6, <2>1 DEF Known
  <2>4. \A k \in 1..Issued : Owner(k)' = Owner(k)
    BY <1>u DEF Owner
  <2> QED
    BY <2>1, <2>2, <2>3, <2>4 DEF Grown
<1>8. OthersKept(t)
  BY <1>u, <1>5 DEF OthersKept
<1>9. Stores(t)
  BY <1>u, <1>1, <1>4, <1>5 DEF Stores, Refreshing
<1>10. RowsSpent'
  <2> USE DEF SessionInv, RowsSpent
  <2>0. i \in used => i \in lenient
    BY <1>1 DEF i
  <2>1. used' \cap rows' \subseteq lenient' /\ again' \subseteq lenient'
    BY <1>1, <2>0
  <2>2. ASSUME NEW u \in Browser, seat'[u].step = "delete", seat'[u].row \in used'
        PROVE  seat'[u].row \in lenient'
    <3>1. u # t /\ seat'[u] = seat[u]
      BY <1>4, <1>5, <2>2
    <3>2. CASE seat[u].row = i
      BY <1>1, <1>6, <2>2, <3>1, <3>2 DEF i
    <3>3. CASE seat[u].row \in used
      BY <1>6, <2>2, <3>1, <3>3
    <3> QED
      BY <1>1, <2>2, <3>1, <3>2, <3>3
  <2>3. ASSUME NEW p \in Browser, NEW q \in Browser, p # q, seat'[p].step = "delete",
               seat'[q].step = "delete", seat'[p].row = seat'[q].row
        PROVE  seat'[p].row \in lenient'
    BY <1>4, <1>5, <1>6, <2>3
  <2> QED
    BY <2>1, <2>2, <2>3
<1>11. ASSUME t \notin overtaken' PROVE TabInStep(t)'
  <2>1. GetToken(t)' = GetToken(t) /\ GetToken(t) = s.old /\ s.user = Nobody
    BY <1>u, <1>1, <1>4, <1>11 DEF GetToken, SessionInv, TabsInStep, TabInStep, Refreshing
  <2> QED
    BY <1>4, <1>5, <2>1 DEF TabInStep
<1>12. /\ issues' \in Seq(IssueType) /\ Issued' <= MaxIssues /\ rows' \subseteq Tokens
       /\ overtaken' \subseteq Browser
       /\ local' \in Tokens \cup {NoToken} /\ session' \in [Browser -> Tokens \cup {NoToken}]
  BY <1>0, <1>u, <1>6, SessionTyped DEF SessionTypeOK, Issued
<1> QED
  BY <1>1, <1>2, <1>3, <1>4, <1>6, <1>7, <1>8, <1>9, <1>10, <1>11, <1>12, SeatStep

\* The new pair is issued, and the old refresh token stored again beside its half.
LEMMA InsertStep ==
  ASSUME SessionInv, NEW t \in Browser, InsertRow(t)
  PROVE  SessionInv'
<1>0. SessionTypeOK /\ IssuesOK /\ seat[t] \in SeatType /\ overtaken \subseteq Browser
  BY SessionTyped DEF SessionInv, SessionTypeOK
<1>1. /\ seat[t].step = "insert" /\ UNCHANGED <<used, again, lenient>>
      /\ \E k \in Tokens : Issue(issues[seat[t].row].user, k)
  BY DEF InsertRow
<1>2. issues[seat[t].row].user \in Users
  <2>1. seat[t].row \in 1..Issued
    BY <1>1 DEF SessionInv, SeatsOK
  <2> QED
    BY <1>0, <2>1, SessionTyped DEF IssueType
<1>3. /\ Grown /\ issues' \in Seq(IssueType) /\ Issued' <= MaxIssues
      /\ rows' = rows \cup {Issued + 1} /\ rows' \subseteq Tokens
  <2>1. PICK k \in Tokens : Issue(issues[seat[t].row].user, k)
    BY <1>1
  <2>2. rows' = rows \cup {Issued + 1} /\ Issued < MaxIssues
    BY <2>1 DEF Issue
  <2>3. Issued + 1 \in Tokens
    BY <1>0, <2>2, SessionTyped DEF Tokens
  <2> QED
    BY <1>0, <1>1, <1>2, <2>1, <2>2, <2>3, OneIssued DEF SessionTypeOK
<1>4. CASE EndCleared(t)
  BY <1>1, <1>3, <1>4, ClearedStep
<1>k. PICK k : k = seat[t].old
  OBVIOUS
<1> DEFINE b == local # NoToken
           s == [seat[t] EXCEPT !.step = "meAgain", !.as = Owner(k)]
<1>5. CASE /\ SetTokens(t, k, b) /\ Sit(t, s)
           /\ overtaken' = overtaken \cup Overtakes(t)
  <2>1. Known(k) /\ Known(k)'
    BY <1>1, <1>3, <1>k DEF SessionInv, TokensKnown, Refreshing, Grown
  <2>2. k \in 1..Issued /\ k \in Tokens /\ k # NoToken /\ Owner(k) \in Users
    BY <1>0, <2>1, KnownIssued
  <2>3. issues'[k].user = issues[k].user
    BY <1>3, <2>2 DEF Grown, Owner
  <2>4. s \in SeatType
    BY <1>0, <2>2, SeatValues DEF Steps
  <2>5. s.step = "meAgain" /\ s.as = issues[k].user /\ s.user = seat[t].user
    BY <1>0 DEF SeatType, Owner
  <2>6. Sit(t, s) /\ s.as \in Users
    BY <1>5, <2>2, <2>5 DEF Owner
  <2> HIDE DEF s
  <2>7. /\ local' \in {k, NoToken} /\ session'[t] \in {k, NoToken} /\ GetToken(t)' = k
        /\ \A u \in Browser \ {t} : session'[u] = session[u]
        /\ session' \in [Browser -> Tokens \cup {NoToken}]
    BY <1>0, <1>5, <2>2, SetTokensWrites
  <2>8. seat'[t] = s /\ \A u \in Browser \ {t} : seat'[u] = seat[u]
    BY <1>0, <2>4, <2>6, SeatTyped
  <2>9. OthersKept(t) /\ overtaken' \subseteq Browser
    BY <1>0, <1>5, <2>7, <2>8 DEF OthersKept, Overtakes
  <2>10. Stores(t)
    BY <2>1, <2>5, <2>7, <2>8 DEF Stores, Refreshing
  <2>11. RowsSpent'
    BY <1>1, <1>3, <2>5, <2>8, NothingSpent
  <2>12. ASSUME t \notin overtaken' PROVE TabInStep(t)'
    <3>1. s.user = Nobody
      BY <1>1, <1>5, <2>5, <2>12 DEF SessionInv, TabsInStep, TabInStep
    <3> QED
      BY <2>2, <2>3, <2>5, <2>7, <2>8, <3>1 DEF TabInStep, Owner, Refreshing
  <2>13. /\ lenient' \subseteq Tokens /\ used' \subseteq Tokens /\ again' \subseteq used'
         /\ local' \in Tokens \cup {NoToken}
    BY <1>0, <1>1, <2>2, <2>7 DEF SessionTypeOK
  <2> QED
    BY <1>3, <2>4, <2>5, <2>6, <2>7, <2>9, <2>10, <2>11, <2>12, <2>13, SeatStep
<1> QED
  BY <1>k, <1>4, <1>5 DEF InsertRow

\* A login: the tab has the tokens of the user it shows, unless fetchUser is at work.
LEMMA LoginStep ==
  ASSUME SessionInv, NEW t \in Browser, NEW u \in Users, NEW b \in BOOLEAN, Login(t, u, b)
  PROVE  SessionInv'
<1>0. /\ SessionTypeOK /\ IssuesOK /\ seat[t] \in SeatType /\ overtaken \subseteq Browser
      /\ session \in [Browser -> Tokens \cup {NoToken}] /\ local \in Tokens \cup {NoToken}
  BY SessionTyped DEF SessionInv, SessionTypeOK
<1>1. PICK k \in Tokens :
         /\ Issue(u, k) /\ UNCHANGED <<used, again, lenient>>
         /\ SignedIn(t, u, k, b) \/ UNCHANGED <<local, session, seat, overtaken>>
  BY DEF Login
<1>2. /\ Grown /\ issues' \in Seq(IssueType) /\ Issued' <= MaxIssues
      /\ rows' = rows \cup {Issued + 1} /\ rows' \subseteq Tokens
      /\ Known(k)' /\ issues'[k].user = u
  <2>1. rows' = rows \cup {Issued + 1} /\ Issued < MaxIssues
    BY <1>1 DEF Issue
  <2>2. Issued + 1 \in Tokens
    BY <1>0, <2>1, SessionTyped DEF Tokens
  <2> QED
    BY <1>0, <1>1, <2>1, <2>2, OneIssued DEF SessionTypeOK, Owner
<1>3. lenient' \subseteq Tokens /\ used' \subseteq Tokens /\ again' \subseteq used'
  BY <1>0, <1>1 DEF SessionTypeOK
<1>4. CASE SignedIn(t, u, k, b)
  <2> DEFINE s == [seat[t] EXCEPT !.user = u]
  <2>1. /\ SetTokens(t, k, b) /\ Sit(t, s)
        /\ overtaken' = (IF seat[t].step = "idle" THEN overtaken \ {t} ELSE overtaken \cup {t})
                           \cup Overtakes(t)
    BY <1>4 DEF SignedIn
  <2>2. s \in SeatType
    BY <1>0, SeatValues DEF Steps
  <2>3. /\ s.step = seat[t].step /\ s.user = u /\ s.old = seat[t].old /\ s.as = seat[t].as
        /\ s.row = seat[t].row
    BY <1>0 DEF SeatType
  <2> HIDE DEF s
  <2>4. /\ local' \in {k, NoToken} /\ session'[t] \in {k, NoToken} /\ GetToken(t)' = k
        /\ \A v \in Browser \ {t} : session'[v] = session[v]
        /\ session' \in [Browser -> Tokens \cup {NoToken}]
    BY <1>0, <2>1, SetTokensWrites
  <2>5. seat'[t] = s /\ \A v \in Browser \ {t} : seat'[v] = seat[v]
    BY <1>0, <2>1, <2>2, SeatTyped
  <2>6. OthersKept(t) /\ overtaken' \subseteq Browser
    BY <1>0, <2>1, <2>4, <2>5 DEF OthersKept, Overtakes
  <2>7. Stores(t)
    BY <1>2, <2>3, <2>4, <2>5 DEF Stores
  <2>8. RowsSpent'
    BY <1>1, <1>2, <2>3, <2>5, NothingSpent
  <2>9. ASSUME t \notin overtaken' PROVE TabInStep(t)'
    <3>1. seat[t].step = "idle"
      BY <2>1, <2>9
    <3> QED
      BY <1>2, <2>3, <2>4, <2>5, <3>1, SessionAssumption DEF TabInStep, Owner, Refreshing, Tokens
  <2>10. /\ s.step \in {"me", "meAgain"} => s.as \in Users
         /\ s.step \in {"delete", "insert"} => s.row \in 1..Issued
    BY <2>3 DEF SessionInv, SeatsOK
  <2>11. local' \in Tokens \cup {NoToken}
    BY <2>4
  <2> QED
    BY <1>2, <1>3, <2>1, <2>2, <2>4, <2>6, <2>7, <2>8, <2>9, <2>10, <2>11, SeatStep
<1>5. CASE UNCHANGED <<local, session, seat, overtaken>>
  <2>1. \A v \in Browser : GetToken(v)' = GetToken(v)
    BY <1>5 DEF GetToken
  <2>2. RowsSpent'
    BY <1>1, <1>2, <1>5, NothingSpent
  <2>3. SessionTypeOK'
    BY <1>0, <1>2, <1>3, <1>5 DEF SessionTypeOK, IssueType
  <2>4. SeatsOK'
    <3>1. \A i \in 1..Issued : i \in 1..Issued'
      BY <1>0, <1>2, SessionTyped DEF Grown
    <3> QED
      BY <1>5, <3>1 DEF SessionInv, SeatsOK
  <2>5. TokensKnown'
    <3>1. local # NoToken => Known(local)'
      BY <1>2, <1>5 DEF SessionInv, TokensKnown, Grown, Known
    <3>2. ASSUME NEW v \in Browser
          PROVE  /\ session[v] # NoToken => Known(session[v])'
                 /\ seat[v].step \in Refreshing => Known(seat[v].old)'
      BY <1>2, <1>5 DEF SessionInv, TokensKnown, Grown, Known
    <3> QED
      BY <1>5, <3>1, <3>2 DEF TokensKnown
  <2>6. ASSUME NEW v \in Browser \ overtaken' PROVE TabInStep(v)'
    <3>1. TabInStep(v) /\ GetToken(v)' = GetToken(v)
      BY <1>5, <2>1 DEF SessionInv, TabsInStep
    <3>2. GetToken(v) # NoToken => GetToken(v) \in 1..Issued
      BY GetTokenKnown, KnownIssued DEF SessionInv
    <3>3. \A j \in 1..Issued : issues'[j].user = issues[j].user
      BY <1>2 DEF Grown, Owner
    <3> QED
      BY <1>5, <3>1, <3>2, <3>3 DEF TabInStep, Owner
  <2> QED
    BY <1>2, <2>2, <2>3, <2>4, <2>5, <2>6 DEF SessionInv, TabsInStep, Grown
<1> QED
  BY <1>1, <1>4, <1>5

LEMMA LoadTabStep ==
  ASSUME SessionInv, NEW t \in Browser, LoadTab(t)
  PROVE  SessionInv'
<1> DEFINE s == Mounted(GetToken(t))
<1>0. overtaken \subseteq Browser
  BY DEF SessionInv, SessionTypeOK
<1>1. /\ Sit(t, s) /\ overtaken' = overtaken \ {t}
      /\ UNCHANGED <<issues, rows, local, session, used, again, lenient>>
  BY DEF LoadTab
<1>2. s \in SeatType
  BY MountedTyped
<1>3. /\ s.user = Nobody
      /\ \/ s.step = "idle"
         \/ s.step = "me" /\ GetToken(t) # NoToken /\ s.as = Owner(GetToken(t))
  BY DEF Mounted, Seat
<1>4. GetToken(t) # NoToken => Owner(GetToken(t)) \in Users
  BY GetTokenKnown, KnownIssued DEF SessionInv
<1> HIDE DEF s
<1> QED
  BY <1>0, <1>1, <1>2, <1>3, <1>4, SeatOnlyStep DEF Refreshing

LEMMA LogoutStep ==
  ASSUME SessionInv, NEW t \in Browser, Logout(t)
  PROVE  SessionInv'
<1> DEFINE s == Seat(Nobody)
<1>0. SessionTypeOK /\ overtaken \subseteq Browser
  BY DEF SessionInv, SessionTypeOK
<1>1. /\ ClearTokens(t) /\ Sit(t, s) /\ overtaken' = (overtaken \ {t}) \cup Overtakes(t)
      /\ UNCHANGED <<issues, rows, used, again, lenient>>
  BY DEF Logout
<1>2. s \in SeatType /\ s.step = "idle" /\ s.user = Nobody
  BY DEF Seat, SeatType, Steps
<1> HIDE DEF s
<1>3. /\ local' = NoToken /\ session'[t] = NoToken
      /\ \A u \in Browser \ {t} : session'[u] = session[u]
      /\ session' \in [Browser -> Tokens \cup {NoToken}]
  BY <1>0, <1>1, ClearWrites
<1>4. seat'[t] = s /\ \A u \in Browser \ {t} : seat'[u] = seat[u]
  BY <1>0, <1>1, <1>2, SeatTyped
<1>5. OthersKept(t) /\ overtaken' \subseteq Browser
  BY <1>0, <1>1, <1>3, <1>4 DEF OthersKept, Overtakes
<1>6. Stores(t) /\ TabInStep(t)'
  BY <1>2, <1>3, <1>4 DEF Stores, Refreshing, TabInStep
<1>7. RowsSpent' /\ Grown
  BY <1>1, <1>2, <1>4, NothingSpent, NothingIssued
<1>8. /\ lenient' \subseteq Tokens /\ used' \subseteq Tokens /\ again' \subseteq used'
      /\ issues' \in Seq(IssueType) /\ Issued' <= MaxIssues /\ rows' \subseteq Tokens
  BY <1>0, <1>1, SessionTyped DEF SessionTypeOK, Issued
<1> QED
  BY <1>1, <1>2, <1>3, <1>5, <1>6, <1>7, <1>8, SeatStep

-----------------------------------------------------------------------------
(* The theorems *)

LEMMA SessionInvInit == SessionInit => SessionInv
<1> SUFFICES ASSUME SessionInit PROVE SessionInv
  OBVIOUS
<1>1. /\ issues = <<>> /\ Issued = 0 /\ rows = {} /\ used = {} /\ again = {} /\ lenient = {}
      /\ local = NoToken /\ session = [t \in Browser |-> NoToken] /\ overtaken = {}
      /\ seat = [t \in Browser |-> Seat(Nobody)]
  BY DEF SessionInit, Issued
<1>2. /\ \A t \in Browser : session[t] = NoToken /\ seat[t].step = "idle" /\ seat[t].user = Nobody
      /\ seat \in [Browser -> SeatType]
  BY <1>1 DEF Seat, SeatType, Steps
<1>3. SessionTypeOK
  BY <1>1, <1>2, SessionAssumption DEF SessionTypeOK, SeatType
<1>4. IssuesOK /\ SeatsOK /\ TokensKnown /\ RowsSpent
  BY <1>1, <1>2 DEF IssuesOK, SeatsOK, TokensKnown, RowsSpent, Refreshing
<1>5. TabsInStep
  BY <1>2 DEF TabsInStep, TabInStep, Refreshing
<1> QED
  BY <1>3, <1>4, <1>5 DEF SessionInv

\* The invariant that the properties follow from.
THEOREM SessionInvariance == SessionSpec => []SessionInv
<1>1. SessionInv /\ [SessionNext]_sessionVars => SessionInv'
  <2> SUFFICES ASSUME SessionInv, [SessionNext]_sessionVars PROVE SessionInv'
    OBVIOUS
  <2>1. ASSUME NEW t \in Browser,
               \/ MeAnswered(t) \/ MeFails(t) \/ RefreshFails(t) \/ SelectRow(t)
               \/ DeleteRow(t) \/ InsertRow(t) \/ LoadTab(t) \/ Logout(t)
        PROVE  SessionInv'
    BY <2>1, MeStep, MeFailsStep, RefreshFailsStep, SelectStep, DeleteStep, InsertStep,
       LoadTabStep, LogoutStep
  <2>2. ASSUME NEW t \in Browser, NEW u \in Users, NEW b \in BOOLEAN, Login(t, u, b)
        PROVE  SessionInv'
    BY <2>2, LoginStep
  <2>3. CASE UNCHANGED sessionVars
    BY <2>3 DEF sessionVars, SessionInv, SessionTypeOK, IssuesOK, SeatsOK, TokensKnown,
                RowsSpent, TabsInStep, TabInStep, GetToken, Owner, Known, Issued
  <2> QED
    BY <2>1, <2>2, <2>3 DEF SessionNext
<1> QED
  BY <1>1, SessionInvInit, PTL DEF SessionSpec

\* Every variable has its type.
THEOREM SessionTypes == SessionSpec => []SessionTypeOK
<1>1. SessionInv => SessionTypeOK
  BY DEF SessionInv
<1> QED
  BY <1>1, SessionInvariance, PTL

\* A tab acts as the user it shows, unless it has been overtaken.
THEOREM Acts == SessionSpec => []ActsAsShown
<1>1. SessionInv => ActsAsShown
  BY DEF SessionInv, TabsInStep, TabInStep, ActsAsShown
<1> QED
  BY <1>1, SessionInvariance, PTL

\* A row pays for one refresh, but for requests that found it at once and a DELETE
\* that failed.
THEOREM SpentOnce == SessionSpec => []RowSpentOnce
<1>1. SessionInv => RowSpentOnce
  BY DEF SessionInv, RowsSpent, RowSpentOnce
<1> QED
  BY <1>1, SessionInvariance, PTL

\* What is stored has a row, or has been used up.
THEOREM WhatIsStored == SessionSpec => []StoredIsKnown
<1>1. SessionInv => StoredIsKnown
  BY DEF SessionInv, TokensKnown, Known, StoredIsKnown, StoredTokens
<1> QED
  BY <1>1, SessionInvariance, PTL

=============================================================================
