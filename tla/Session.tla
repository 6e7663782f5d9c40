-------------------------------- MODULE Session --------------------------------
(***************************************************************************)
(* Signing in, staying signed in and signing out: AuthProvider, the login  *)
(* page and AppShell in every tab of one browser, and login and            *)
(* refresh_token of janv-api.                                              *)
(*                                                                         *)
(* The tabs share localStorage, and each has its sessionStorage. An access *)
(* token and the refresh token beside it are always stored together, so    *)
(* one number stands for both: the number of the issue. Two issues to one  *)
(* user in the same second are the same token in two rows of               *)
(* refresh_tokens. Any request may be refused or lost, which covers        *)
(* expired tokens and disabled accounts. A tab that leaves its page closes *)
(* its connections, and their handlers stop where they are.                *)
(***************************************************************************)
EXTENDS Naturals, Sequences, FiniteSets

CONSTANTS
    Browser,     \* the tabs
    Users,
    MaxIssues,   \* a bound of the model on the tokens that are issued
    Nobody,      \* no user
    NoToken

ASSUME SessionAssumption ==
    /\ MaxIssues \in Nat
    /\ Nobody \notin Users
    /\ NoToken \notin Nat

VARIABLES
    issues,    \* the pairs issued so far: to whom, and the token
    rows,      \* refresh_tokens: the issues of which it has the row
    local,     \* the token in localStorage
    session,   \* per tab: the token in sessionStorage
    seat,      \* per tab: AuthProvider's state and that of the login page
    overtaken, \* history: tabs in which, since fetchUser has begun, another tab has
               \* written localStorage or somebody has signed in under it
    used,      \* history: issues whose row a refresh has used up
    again,     \* history: those of which two refreshes have
    lenient    \* history: issues whose row two requests had found at once, or whose
               \* DELETE failed, which refresh_token ignores

sessionVars == <<issues, rows, local, session, seat, overtaken, used, again, lenient>>

Tokens == 1..MaxIssues
Issued == Len(issues)

Owner(k) == issues[k].user

\* fetchUser: at its first me, at the SELECT, the DELETE and the INSERT of its
\* refresh, at its second me; idle when it has ended, and loading is false.
Steps == {"idle", "me", "select", "delete", "insert", "meAgain"}

\* as: the user the me under way is answered for. old, row: the token the refresh
\* carries and the row it has found. (Which page a tab is on is left out: from every
\* page a user can come to the login page, signed in or not.)
Seat(user) == [user |-> user, step |-> "idle", as |-> Nobody,
               old |-> NoToken, row |-> NoToken]

\* A tab that has just been loaded runs fetchUser: without a token there is nobody.
Mounted(token) ==
    IF token = NoToken THEN Seat(Nobody)
                       ELSE [Seat(Nobody) EXCEPT !.step = "me", !.as = Owner(token)]

SessionInit ==
    /\ issues = <<>> /\ rows = {}
    /\ local = NoToken /\ session = [t \in Browser |-> NoToken]
    /\ seat = [t \in Browser |-> Seat(Nobody)]
    /\ overtaken = {} /\ used = {} /\ again = {} /\ lenient = {}

\* getToken, getRefreshToken: localStorage comes first.
GetToken(t) == IF local # NoToken THEN local ELSE session[t]

\* Faulty: the other storage keeps what it has.
SetTokensOnly(t, token, persist) ==
    /\ local' = IF persist THEN token ELSE local
    /\ session' = IF persist THEN session ELSE [session EXCEPT ![t] = token]

\* setTokens cleans up the other storage.
SetTokens(t, token, persist) ==
    /\ local' = IF persist THEN token ELSE NoToken
    /\ session' = [session EXCEPT ![t] = IF persist THEN NoToken ELSE token]

ClearTokens(t) == local' = NoToken /\ session' = [session EXCEPT ![t] = NoToken]

\* What a write of tab t to localStorage does to the others.
Overtakes(t) == IF local' = local THEN {} ELSE Browser \ {t}

Sit(t, s) == seat' = [seat EXCEPT ![t] = s]

\* The end of fetchUser, with user u.
End(s, u) == [s EXCEPT !.user = u, !.step = "idle", !.as = Nobody, !.old = NoToken, !.row = NoToken]

\* A pair is issued to u and its refresh token stored in a row: a new token, or the
\* one of the issue before, in whose second it is.
Issue(u, k) ==
    /\ Issued < MaxIssues
    /\ k \in {Issued + 1} \cup {issues[i].token : i \in {j \in {Issued} \ {0} : issues[j].user = u}}
    /\ issues' = Append(issues, [user |-> u, token |-> k])
    /\ rows' = rows \cup {Issued + 1}

-----------------------------------------------------------------------------
(* fetchUser *)

MeAnswered(t) ==
    /\ seat[t].step \in {"me", "meAgain"}
    /\ Sit(t, End(seat[t], seat[t].as))
    /\ UNCHANGED <<issues, rows, local, session, overtaken, used, again, lenient>>

\* fetchUser ends with clearTokens, whosever the tokens are by now.
EndCleared(t) ==
    /\ ClearTokens(t)
    /\ Sit(t, End(seat[t], seat[t].user))
    /\ overtaken' = overtaken \cup Overtakes(t)

\* me fails: the first time the refresh token there is now is sent, if one is.
MeFails(t) ==
    /\ \/ /\ seat[t].step = "me" /\ GetToken(t) # NoToken
          /\ Sit(t, [seat[t] EXCEPT !.step = "select", !.as = Nobody, !.old = GetToken(t)])
          /\ UNCHANGED <<local, session, overtaken>>
       \/ /\ \/ seat[t].step = "me" /\ GetToken(t) = NoToken
             \/ seat[t].step = "meAgain"
          /\ EndCleared(t)
    /\ UNCHANGED <<issues, rows, used, again, lenient>>

RefreshFails(t) ==
    /\ seat[t].step \in {"select", "delete", "insert"}
    /\ EndCleared(t)
    /\ UNCHANGED <<issues, rows, used, again, lenient>>

-----------------------------------------------------------------------------
(* refresh_token on the server, and its answer *)

\* SELECT: some row that holds the token; without one the refresh is refused.
SelectRow(t) ==
    /\ seat[t].step = "select"
    /\ \E i \in rows :
          /\ issues[i].token = seat[t].old
          /\ Sit(t, [seat[t] EXCEPT !.step = "delete", !.row = i])
          /\ lenient' = IF \E q \in Browser : seat[q].step = "delete" /\ seat[q].row = i
                          THEN lenient \cup {i} ELSE lenient
    /\ UNCHANGED <<issues, rows, local, session, overtaken, used, again>>

\* Faulty: the row stays.
DeleteNothing(t) ==
    /\ seat[t].step = "delete"
    /\ Sit(t, [seat[t] EXCEPT !.step = "insert"])
    /\ used' = used \cup {seat[t].row}
    /\ again' = again \cup ({seat[t].row} \cap used)
    /\ UNCHANGED <<rows, issues, local, session, overtaken, lenient>>

\* DELETE of the row that was found; an error of it is ignored.
DeleteRow(t) ==
    /\ seat[t].step = "delete"
    /\ Sit(t, [seat[t] EXCEPT !.step = "insert"])
    /\ used' = used \cup {seat[t].row}
    /\ again' = again \cup ({seat[t].row} \cap used)
    /\ \/ /\ rows' = rows \ {seat[t].row}
          /\ UNCHANGED lenient
       \/ /\ lenient' = lenient \cup {seat[t].row}
          /\ UNCHANGED rows
    /\ UNCHANGED <<issues, local, session, overtaken>>

\* INSERT of the new refresh token. The answer may be lost; when it comes, the page
\* stores the old one again, beside the new access token, where one is stored now.
InsertRow(t) ==
    /\ seat[t].step = "insert"
    /\ \E k \in Tokens : Issue(issues[seat[t].row].user, k)
    /\ \/ /\ SetTokens(t, seat[t].old, local # NoToken)
          /\ Sit(t, [seat[t] EXCEPT !.step = "meAgain", !.as = Owner(seat[t].old)])
          /\ overtaken' = overtaken \cup Overtakes(t)
       \/ EndCleared(t)
    /\ UNCHANGED <<used, again, lenient>>

-----------------------------------------------------------------------------
(* The login page, and the way out *)

\* The tab after the answer of a login: tokens and user.
SignedIn(t, u, k, remember) ==
    /\ SetTokens(t, k, remember)
    /\ Sit(t, [seat[t] EXCEPT !.user = u])
    /\ overtaken' = (IF seat[t].step = "idle" THEN overtaken \ {t} ELSE overtaken \cup {t})
                       \cup Overtakes(t)

\* Faulty: answered although its refresh token has not been stored.
LoginUnstored(t, u, remember) ==
    /\ Issued < MaxIssues
    /\ issues' = Append(issues, [user |-> u, token |-> Issued + 1])
    /\ SignedIn(t, u, Issued + 1, remember)
    /\ UNCHANGED <<rows, used, again, lenient>>

\* handleSubmit: login on the server stores the refresh token. Its answer may be lost.
\* (Nothing but the answer depends on when the form was sent.)
Login(t, u, remember) ==
    /\ \E k \in Tokens :
          /\ Issue(u, k)
          /\ SignedIn(t, u, k, remember) \/ UNCHANGED <<local, session, seat, overtaken>>
    /\ UNCHANGED <<used, again, lenient>>

\* The tab is loaded anew.
LoadTab(t) ==
    /\ Sit(t, Mounted(GetToken(t)))
    /\ overtaken' = overtaken \ {t}
    /\ UNCHANGED <<issues, rows, local, session, used, again, lenient>>

\* The header's menu: the server is not told, the login page is loaded anew.
Logout(t) ==
    /\ seat[t].user # Nobody
    /\ ClearTokens(t)
    /\ Sit(t, Seat(Nobody))
    /\ overtaken' = (overtaken \ {t}) \cup Overtakes(t)
    /\ UNCHANGED <<issues, rows, used, again, lenient>>

SessionNext ==
    \E t \in Browser :
        \/ MeAnswered(t) \/ MeFails(t) \/ RefreshFails(t)
        \/ SelectRow(t) \/ DeleteRow(t) \/ InsertRow(t)
        \/ \E u \in Users, b \in BOOLEAN : Login(t, u, b)
        \/ LoadTab(t) \/ Logout(t)

SessionSpec == SessionInit /\ [][SessionNext]_sessionVars

-----------------------------------------------------------------------------
(* Properties *)

StoredTokens(t) == {local, session[t]} \ {NoToken}

\* Every variable has its type.
SessionTypeOK ==
    /\ issues \in Seq([user : Users, token : Tokens]) /\ Issued <= MaxIssues
    /\ rows \subseteq Tokens
    /\ local \in Tokens \cup {NoToken}
    /\ session \in [Browser -> Tokens \cup {NoToken}]
    /\ seat \in [Browser -> [user : Users \cup {Nobody}, step : Steps,
                         as : Users \cup {Nobody}, old : Tokens \cup {NoToken},
                         row : Tokens \cup {NoToken}]]
    /\ overtaken \subseteq Browser
    /\ used \subseteq Tokens /\ again \subseteq used /\ lenient \subseteq Tokens

\* A tab that shows a user makes its requests with a token of that user: setTokens
\* and getToken agree on which storage counts, whatever was remembered before. Not
\* so when another tab has written the shared storage since, or when the user has
\* signed in while fetchUser was still at work on the tokens from before: its refresh
\* puts those back, or its failure clears the new ones.
ActsAsShown ==
    \A t \in Browser :
        seat[t].user # Nobody /\ t \notin overtaken
            => GetToken(t) # NoToken /\ Owner(GetToken(t)) = seat[t].user

\* A row of refresh_tokens pays for one refresh: two only if both requests had found
\* it before either deleted it, or if its DELETE failed.
RowSpentOnce == again \subseteq lenient

\* What a tab has stored can renew its session, or has done so: of every stored token
\* there is a row, or a refresh has used it up. (After a refresh it is stored all the
\* same, and the next refresh ends the session.)
StoredIsKnown ==
    \A t \in Browser : \A k \in StoredTokens(t) :
        \E i \in 1..Issued : issues[i].token = k /\ (i \in rows \cup used)

=============================================================================
