------------------------------ MODULE PasscodeCard ------------------------------
(***************************************************************************)
(* The card on learn/dashboard that shows the institution's passcode with  *)
(* a countdown, copies it and rotates it, and get_current_passcode and     *)
(* regenerate_passcode as the card sees them.                              *)
(*                                                                         *)
(* A passcode is the number of its renewal. When one expires is left open: *)
(* the server may renew at any fetch, and for somebody else at any time.   *)
(* The card counts seconds that the server has rounded down, so its        *)
(* countdown may run out before the passcode does. (A fetch is taken to be *)
(* answered before the countdown has run out once more.)                   *)
(***************************************************************************)
EXTENDS Naturals

CONSTANTS
    MaxRenewals,  \* a bound of the model
    Seconds,      \* remaining_seconds of a fetch
    FullTime,     \* and of a rotation: 6 hours
    NotSent, Sent \* no request; one that the server has not handled

ASSUME CardAssumption ==
    /\ MaxRenewals \in Nat
    /\ Seconds \subseteq Nat
    /\ FullTime \in Nat \ {0}
    /\ NotSent \notin Nat /\ Sent \notin Nat /\ Sent # NotSent

VARIABLES
    renewals,  \* the server's passcode is the one of the last renewal
    card,      \* passcodeData's passcode, 0 without, and remainingSecs
    fetching,  \* fetchPasscode: passcodeLoading, and the passcode it has read
    rotating,  \* handleRegenerate: regenerating, and the passcode it has made
    stats,     \* the page shows a skeleton, an error or its cards
    clipboard,
    heard,     \* history: the newest passcode that has come back to the card
    crossed,   \* history: the countdown has run out during a rotation
    lapsed     \* history: the last fetch failed or was told 0 seconds, after the last
               \* rotation that succeeded

cardVars == <<renewals, card, fetching, rotating, stats, clipboard, heard, crossed, lapsed>>

CardInit ==
    /\ renewals = 0
    /\ card = [code |-> 0, secs |-> 0]
    /\ fetching = Sent /\ rotating = NotSent
    /\ stats = "loading"
    /\ clipboard = 0
    /\ heard = 0 /\ crossed = FALSE /\ lapsed = FALSE

StatsAnswered ==
    /\ stats = "loading"
    /\ stats' \in {"ready", "error"}
    /\ UNCHANGED <<renewals, card, fetching, rotating, clipboard, heard, crossed, lapsed>>

\* Another card rotates, or a request that was given up is handled.
RenewedElsewhere ==
    /\ renewals < MaxRenewals
    /\ renewals' = renewals + 1
    /\ UNCHANGED <<card, fetching, rotating, stats, clipboard, heard, crossed, lapsed>>

-----------------------------------------------------------------------------
(* The server *)

\* get_current_passcode: the last one, or a new one for want of one that is valid.
ServeFetch ==
    /\ fetching = Sent
    /\ renewals' \in {renewals, renewals + 1} \ {0, MaxRenewals + 1}
    /\ fetching' = renewals'
    /\ UNCHANGED <<card, rotating, stats, clipboard, heard, crossed, lapsed>>

\* regenerate_passcode
ServeRotation ==
    /\ rotating = Sent
    /\ renewals < MaxRenewals
    /\ renewals' = renewals + 1
    /\ rotating' = renewals'
    /\ UNCHANGED <<card, fetching, stats, clipboard, heard, crossed, lapsed>>

-----------------------------------------------------------------------------
(* The card *)

\* What came back is shown, whatever is shown already.
Show(code, time) ==
    /\ card' = [code |-> code, secs |-> time]
    /\ heard' = IF code > heard THEN code ELSE heard

PasscodeFetched(s) ==
    /\ fetching \in Nat
    /\ Show(fetching, s)
    /\ fetching' = NotSent
    /\ lapsed' = (s = 0)
    /\ UNCHANGED <<renewals, rotating, stats, clipboard, crossed>>

\* The card stays as it is.
FetchLost ==
    /\ fetching # NotSent
    /\ fetching' = NotSent
    /\ lapsed' = TRUE
    /\ UNCHANGED <<renewals, card, rotating, stats, clipboard, heard, crossed>>

\* Faulty: "Rotate Now" can be pressed while a fetch is under way.
RotateWhileLoading ==
    /\ stats = "ready" /\ rotating = NotSent
    /\ rotating' = Sent
    /\ UNCHANGED <<renewals, card, fetching, stats, clipboard, heard, crossed, lapsed>>

\* "Rotate Now", disabled while the card loads or rotates.
Rotate ==
    /\ stats = "ready" /\ rotating = NotSent /\ fetching = NotSent
    /\ rotating' = Sent
    /\ UNCHANGED <<renewals, card, fetching, stats, clipboard, heard, crossed, lapsed>>

RotationAnswered ==
    /\ rotating \in Nat
    /\ Show(rotating, FullTime)
    /\ rotating' = NotSent
    /\ lapsed' = FALSE
    /\ UNCHANGED <<renewals, fetching, stats, clipboard, crossed>>

RotationLost ==
    /\ rotating # NotSent
    /\ rotating' = NotSent
    /\ UNCHANGED <<renewals, card, fetching, stats, clipboard, heard, crossed, lapsed>>

\* Faulty: nothing is fetched at zero.
CountOnly ==
    /\ card.secs > 0
    /\ card' = [card EXCEPT !.secs = @ - 1]
    /\ UNCHANGED <<renewals, fetching, rotating, stats, clipboard, heard, crossed, lapsed>>

\* The interval: at zero the card fetches, also during a rotation, and counts no more.
CountDown ==
    /\ card.secs > 0
    /\ card' = [card EXCEPT !.secs = @ - 1]
    /\ \/ /\ card.secs = 1 /\ fetching = NotSent
          /\ fetching' = Sent
          /\ crossed' = (crossed \/ rotating # NotSent)
       \/ card.secs > 1 /\ UNCHANGED <<fetching, crossed>>
    /\ UNCHANGED <<renewals, rotating, stats, clipboard, heard, lapsed>>

\* handleCopy: the passcode that is shown, not the dots of a card that loads.
CopyCode ==
    /\ stats = "ready" /\ fetching = NotSent /\ card.code # 0
    /\ clipboard' = card.code
    /\ UNCHANGED <<renewals, card, fetching, rotating, stats, heard, crossed, lapsed>>

CardNext ==
    \/ StatsAnswered \/ RenewedElsewhere \/ ServeFetch \/ ServeRotation
    \/ (\E s \in Seconds : PasscodeFetched(s)) \/ FetchLost
    \/ Rotate \/ RotationAnswered \/ RotationLost \/ CountDown \/ CopyCode

CardSpec == CardInit /\ [][CardNext]_cardVars

-----------------------------------------------------------------------------
(* Properties *)

\* Every variable has its type.
CardTypeOK ==
    /\ renewals \in 0..MaxRenewals
    /\ card \in [code : 0..MaxRenewals, secs : Nat]
    /\ fetching \in 1..MaxRenewals \cup {NotSent, Sent}
    /\ rotating \in 1..MaxRenewals \cup {NotSent, Sent}
    /\ stats \in {"loading", "ready", "error"}
    /\ clipboard \in 0..MaxRenewals /\ heard \in 0..renewals
    /\ crossed \in BOOLEAN /\ lapsed \in BOOLEAN

\* The card never goes back to a passcode that a rotation has replaced: what it shows is
\* the newest that it has been told. Not so when the countdown runs out in the middle of a
\* rotation, which sends a fetch that may read the old passcode and be answered last.
NewestShown == ~crossed => card.code = heard

\* A card at zero gets a new passcode: a fetch is under way. Otherwise the last one has
\* failed, or was told 0 seconds since it came in the last second of the old passcode:
\* then the card shows that one, which expires, and never asks again.
ZeroFetches == card.secs = 0 => fetching # NotSent \/ lapsed

=============================================================================
