--------------------------- MODULE AttemptPromise ---------------------------
(***************************************************************************)
(* What the attempt engine of janv-api promises for one assessment, with   *)
(* no request, transaction or lock in sight: an attempt is opened once,    *)
(* closed once, its result is never touched again, and closing it raises   *)
(* the student's leaderboard entry in the same instant.                    *)
(*                                                                         *)
(* Attempts.tla, which models the handlers, is shown to implement this.    *)
(***************************************************************************)
EXTENDS Naturals

CONSTANTS
    Students,    \* users.email of the students
    AttemptIds,  \* primary keys of the attempts table
    Results,     \* the results grading can give: records [score, pct]
    None         \* no student

VARIABLES
    status,      \* per attempt: "absent", "in_progress" or "submitted"
    owner,       \* per attempt: its student, or None while absent
    result,      \* per attempt: [score, pct], zero until submitted
    best         \* per student: [listed, score, pct] on the leaderboard

vars == <<status, owner, result, best>>

NoResult == [score |-> 0, pct |-> 0]

Unlisted == [listed |-> FALSE, score |-> 0, pct |-> 0]

Larger(m, n) == IF m >= n THEN m ELSE n

\* The entry e once a result has been counted: each column keeps its maximum.
Raised(e, res) == [listed |-> TRUE,
                   score  |-> Larger(e.score, res.score),
                   pct    |-> Larger(e.pct, res.pct)]

Init ==
    /\ status = [a \in AttemptIds |-> "absent"]
    /\ owner  = [a \in AttemptIds |-> None]
    /\ result = [a \in AttemptIds |-> NoResult]
    /\ best   = [s \in Students |-> Unlisted]

Open(a, s) ==
    /\ status[a] = "absent"
    /\ status' = [status EXCEPT ![a] = "in_progress"]
    /\ owner'  = [owner EXCEPT ![a] = s]
    /\ UNCHANGED <<result, best>>

Close(a, s, res) ==
    /\ status[a] = "in_progress"
    /\ owner[a] = s
    /\ status' = [status EXCEPT ![a] = "submitted"]
    /\ result' = [result EXCEPT ![a] = res]
    /\ best'   = [best EXCEPT ![s] = Raised(@, res)]
    /\ UNCHANGED owner

Next ==
    \E a \in AttemptIds, s \in Students :
        \/ Open(a, s)
        \/ \E res \in Results : Close(a, s, res)

Spec == Init /\ [][Next]_vars
=============================================================================
